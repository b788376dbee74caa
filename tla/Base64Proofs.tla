---------------------------- MODULE Base64Proofs ----------------------------
(***************************************************************************)
(* Whatever bytes a string holds, decoding what it was encoded to gives it *)
(* back.                                                                   *)
(***************************************************************************)
EXTENDS Base64, TLAPS

\* Two numbers put side by side are found again.
LEMMA Split4 ==
  ASSUME NEW x \in Nat, NEW y \in 0..3
  PROVE  ((x * 4) + y) \div 4 = x /\ ((x * 4) + y) % 4 = y
OBVIOUS

LEMMA Split16 ==
  ASSUME NEW x \in Nat, NEW y \in 0..15
  PROVE  ((x * 16) + y) \div 16 = x /\ ((x * 16) + y) % 16 = y
OBVIOUS

LEMMA Halves ==
  ASSUME NEW a \in Byte
  PROVE  /\ a \div 4 \in 0..63 /\ a % 4 \in 0..3 /\ ((a \div 4) * 4) + (a % 4) = a
         /\ a \div 16 \in 0..15 /\ a % 16 \in 0..15 /\ ((a \div 16) * 16) + (a % 16) = a
         /\ a \div 64 \in 0..3 /\ a % 64 \in 0..63 /\ ((a \div 64) * 64) + (a % 64) = a
         /\ a % 256 = a
BY DEF Byte

\* The digits of three bytes give each of them back; the digits that a short
\* group does not write play no part in the bytes that it holds.
LEMMA FirstByte ==
  ASSUME NEW a \in Byte, NEW b \in Byte, NEW c \in Byte, NEW r, NEW t
  PROVE  Octet(Sextet(a, b, c, 0), Sextet(a, b, c, 1), r, t, 0) = a
<1> DEFINE p == a \div 4
           q == ((a % 4) * 16) + (b \div 16)
<1>1. Sextet(a, b, c, 0) = p /\ Sextet(a, b, c, 1) = q
  BY DEF Sextet
<1>2. Octet(p, q, r, t, 0) = ((p * 4) + ((q \div 16) % 4)) % 256
  BY DEF Octet
<1>3. q \div 16 = a % 4
  BY Halves, Split16
<1>4. (a % 4) % 4 = a % 4
  BY Halves
<1>5. (p * 4) + (a % 4) = a /\ a % 256 = a
  BY Halves
<1> QED
  <2> HIDE DEF p, q
  <2> QED BY <1>1, <1>2, <1>3, <1>4, <1>5

LEMMA SecondByte ==
  ASSUME NEW a \in Byte, NEW b \in Byte, NEW c \in Byte, NEW p, NEW t
  PROVE  Octet(p, Sextet(a, b, c, 1), Sextet(a, b, c, 2), t, 1) = b
<1> DEFINE q == ((a % 4) * 16) + (b \div 16)
           r == ((b % 16) * 4) + (c \div 64)
<1>1. Sextet(a, b, c, 1) = q /\ Sextet(a, b, c, 2) = r
  BY DEF Sextet
<1>2. Octet(p, q, r, t, 1) = (((q % 16) * 16) + ((r \div 4) % 16)) % 256
  BY DEF Octet
<1>3. q % 16 = b \div 16
  BY Halves, Split16
<1>4. r \div 4 = b % 16
  BY Halves, Split4
<1>5. (b % 16) % 16 = b % 16
  BY Halves
<1>6. ((b \div 16) * 16) + (b % 16) = b /\ b % 256 = b
  BY Halves
<1> QED
  <2> HIDE DEF q, r
  <2> QED BY <1>1, <1>2, <1>3, <1>4, <1>5, <1>6

LEMMA ThirdByte ==
  ASSUME NEW a \in Byte, NEW b \in Byte, NEW c \in Byte, NEW p, NEW q
  PROVE  Octet(p, q, Sextet(a, b, c, 2), Sextet(a, b, c, 3), 2) = c
<1> DEFINE r == ((b % 16) * 4) + (c \div 64)
           t == c % 64
<1>1. Sextet(a, b, c, 2) = r /\ Sextet(a, b, c, 3) = t
  BY DEF Sextet
<1>2. Octet(p, q, r, t, 2) = (((r % 4) * 64) + t) % 256
  BY DEF Octet
<1>3. r % 4 = c \div 64
  BY Halves, Split4
<1>4. ((c \div 64) * 64) + t = c /\ c % 256 = c
  BY Halves
<1> QED
  <2> HIDE DEF r
  <2> QED BY <1>1, <1>2, <1>3, <1>4
LEMMA SextetDigit ==
  ASSUME NEW a \in Byte, NEW b \in Byte, NEW c \in Byte, NEW j \in 0..3
  PROVE  Sextet(a, b, c, j) \in Digit
<1>1. a \div 4 \in 0..63 /\ c % 64 \in 0..63
  BY Halves
<1>2. ((a % 4) * 16) + (b \div 16) \in 0..63 /\ ((b % 16) * 4) + (c \div 64) \in 0..63
  <2>1. a % 4 \in 0..3 /\ b \div 16 \in 0..15 /\ b % 16 \in 0..15 /\ c \div 64 \in 0..3
    BY Halves
  <2>2. \A x, z \in 0..3 : \A y, w \in 0..15 : (x * 16) + y \in 0..63 /\ (w * 4) + z \in 0..63
    OBVIOUS
  <2> QED BY ONLY <2>1, <2>2
<1>3. j = 0 \/ j = 1 \/ j = 2 \/ j = 3
  OBVIOUS
<1> QED BY <1>1, <1>2, <1>3 DEF Sextet, Digit

\* How many characters and digits a string of len bytes has.
Chars(len) == 4 * ((len + 2) \div 3)
LEMMA Lengths ==
  ASSUME NEW len \in Nat
  PROVE  /\ Chars(len) \in Nat /\ Used(len) \in 0..Chars(len) /\ Held(Used(len)) = len
<1>1. PICK g \in Nat, x \in 0..2 : len = (3 * g) + x
  <2>1. len = (3 * (len \div 3)) + (len % 3) /\ len \div 3 \in Nat /\ len % 3 \in 0..2
    OBVIOUS
  <2> QED BY <2>1
<1>2. len \div 3 = g /\ len % 3 = x
  BY <1>1
<1>3. CASE x = 0
  <2>1. (len + 2) \div 3 = g /\ Used(len) = 4 * g
    BY <1>1, <1>2, <1>3 DEF Used
  <2>2. (4 * g) \div 4 = g /\ (4 * g) % 4 = 0
    OBVIOUS
  <2> QED BY <1>1, <1>3, <2>1, <2>2 DEF Chars, Held
<1>4. CASE x = 1
  <2>1. (len + 2) \div 3 = g + 1 /\ Used(len) = (4 * g) + 2
    BY <1>1, <1>2, <1>4 DEF Used
  <2>2. ((4 * g) + 2) \div 4 = g /\ ((4 * g) + 2) % 4 = 2
    OBVIOUS
  <2> QED BY <1>1, <1>4, <2>1, <2>2 DEF Chars, Held
<1>5. CASE x = 2
  <2>1. (len + 2) \div 3 = g + 1 /\ Used(len) = (4 * g) + 3
    BY <1>1, <1>2, <1>5 DEF Used
  <2>2. ((4 * g) + 3) \div 4 = g /\ ((4 * g) + 3) % 4 = 3
    OBVIOUS
  <2> QED BY <1>1, <1>5, <2>1, <2>2 DEF Chars, Held
<1> QED BY <1>3, <1>4, <1>5

\* The digits of the group of byte k that decoding it looks at have been written.
LEMMA Written ==
  ASSUME NEW len \in Nat, NEW g \in Nat, NEW j \in 0..2, (3 * g) + j + 1 <= len
  PROVE  (4 * g) + j + 2 <= Used(len)
<1>1. PICK h \in Nat, x \in 0..2 : len = (3 * h) + x /\ len \div 3 = h /\ len % 3 = x
  <2>1. len = (3 * (len \div 3)) + (len % 3) /\ len \div 3 \in Nat /\ len % 3 \in 0..2
    OBVIOUS
  <2> QED BY <2>1
<1>2. Used(len) = (4 * h) + (IF x = 0 THEN 0 ELSE x + 1)
  BY <1>1 DEF Used
<1>3. g < h \/ (g = h /\ j + 1 <= x)
  BY <1>1
<1> QED BY <1>1, <1>2, <1>3

\* Character k, when it is a digit: the sextet of its place in its group.
Filled(s, i) == IF i <= Len(s) THEN s[i] ELSE 0
LEMMA FilledByte ==
  ASSUME NEW s \in Seq(Byte), NEW i \in Nat \ {0}
  PROVE  Filled(s, i) \in Byte
<1>1. CASE i <= Len(s)
  <2>1. i \in 1..Len(s)
    BY <1>1
  <2>2. s[i] \in Byte
    BY <2>1
  <2> QED BY <1>1, <2>2 DEF Filled
<1>2. CASE ~(i <= Len(s))
  BY <1>2 DEF Filled, Byte
<1> QED BY <1>1, <1>2

LEMMA Encoded ==
  ASSUME NEW s \in Seq(Byte)
  PROVE  /\ base64_encode(s) \in Seq(Nat) /\ Len(base64_encode(s)) = Chars(Len(s))
         /\ \A g \in Nat, j \in 0..3 : (4 * g) + j + 1 <= Used(Len(s)) =>
              base64_encode(s)[(4 * g) + j + 1]
                = Sextet(Filled(s, (3 * g) + 1), Filled(s, (3 * g) + 2), Filled(s, (3 * g) + 3), j)
         /\ \A k \in 1..Used(Len(s)) : base64_encode(s)[k] \in Digit
         /\ \A k \in 1..Chars(Len(s)) : k > Used(Len(s)) => base64_encode(s)[k] = Pad
<1> DEFINE len == Len(s)
           e == base64_encode(s)
           At(k) == LET g == 3 * ((k - 1) \div 4)
                    IN Sextet(Filled(s, g + 1), Filled(s, g + 2), Filled(s, g + 3), (k - 1) % 4)
<1>1. len \in Nat /\ Chars(len) \in Nat /\ Used(len) \in 0..Chars(len)
  BY Lengths
<1>2. e = [k \in 1..Chars(len) |-> IF k <= Used(len) THEN At(k) ELSE Pad]
  BY DEF base64_encode, Filled, Chars
<1>3. \A k \in Nat \ {0} : At(k) \in Digit
  <2> TAKE k \in Nat \ {0}
  <2>1. 3 * ((k - 1) \div 4) \in Nat /\ (k - 1) % 4 \in 0..3
    OBVIOUS
  <2> DEFINE g == 3 * ((k - 1) \div 4)
             j == (k - 1) % 4
  <2> HIDE DEF g, j
  <2>2. Filled(s, g + 1) \in Byte /\ Filled(s, g + 2) \in Byte /\ Filled(s, g + 3) \in Byte
    BY <2>1, FilledByte DEF g
  <2>3. Sextet(Filled(s, g + 1), Filled(s, g + 2), Filled(s, g + 3), j) \in Digit
    BY <2>1, <2>2, SextetDigit DEF j
  <2> QED BY <2>3 DEF g, j
<1>4. \A g \in Nat, j \in 0..3 :
        At((4 * g) + j + 1) = Sextet(Filled(s, (3 * g) + 1), Filled(s, (3 * g) + 2), Filled(s, (3 * g) + 3), j)
  <2> TAKE g \in Nat, j \in 0..3
  <2>1. (((4 * g) + j + 1) - 1) \div 4 = g /\ (((4 * g) + j + 1) - 1) % 4 = j
    OBVIOUS
  <2> QED BY <2>1
<1>5. \A k \in 1..Chars(len) : e[k] = IF k <= Used(len) THEN At(k) ELSE Pad
  BY <1>2
<1>6. \A k \in 1..Chars(len) : e[k] \in Nat
  <2> HIDE DEF At, e
  <2>1. ASSUME NEW k \in 1..Chars(len) PROVE e[k] \in Nat
    <3>1. k \in Nat \ {0}
      BY <1>1
    <3>2. At(k) \in Digit
      BY <1>3, <3>1
    <3>3. Digit \subseteq Nat
      BY DEF Digit
    <3>4. e[k] = At(k) \/ e[k] = Pad
      BY <1>5
    <3>5. Pad \in Nat
      BY DEF Pad
    <3> QED BY <3>2, <3>3, <3>4, <3>5, Zenon
  <2> QED BY <2>1
<1>7. e \in Seq(Nat) /\ Len(e) = Chars(len)
  <2> HIDE DEF At
  <2>1. DOMAIN e = 1..Chars(len) /\ e = [k \in 1..Chars(len) |-> e[k]]
    BY <1>2
  <2> HIDE DEF e, len
  <2> QED BY <1>1, <1>6, <2>1
<1> QED
  <2> HIDE DEF At, e
  <2>1. \A g \in Nat, j \in 0..3 : (4 * g) + j + 1 <= Used(len) => e[(4 * g) + j + 1] = At((4 * g) + j + 1)
    BY <1>1, <1>5
  <2>2. \A k \in 1..Used(len) : e[k] \in Digit
    BY <1>1, <1>3, <1>5
  <2>3. \A k \in 1..Chars(len) : k > Used(len) => e[k] = Pad
    BY <1>1, <1>5
  <2> QED BY <1>4, <1>7, <2>1, <2>2, <2>3 DEF e

\* Decoding takes all digits, and no '='.
LEMMA RunOfEncoded ==
  ASSUME NEW s \in Seq(Byte)
  PROVE  Run(base64_encode(s)) = Used(Len(s))
<1> DEFINE e == base64_encode(s)
           u == Used(Len(s))
<1>1. Len(s) \in Nat /\ u \in 0..Len(e) /\ Len(e) \in Nat
  BY Lengths, Encoded
<1>2. (\A k \in 1..u : e[k] \in Digit) /\ (u < Len(e) => e[u + 1] \notin Digit)
  <2>1. \A k \in 1..u : e[k] \in Digit
    BY Encoded
  <2>2. ASSUME u < Len(e) PROVE e[u + 1] = Pad
    <3>1. u + 1 \in 1..Chars(Len(s)) /\ u + 1 > u
      BY <1>1, <2>2, Encoded
    <3> QED BY <3>1, Encoded
  <2>3. Pad \notin Digit
    BY DEF Digit, Pad
  <2> HIDE DEF e, u
  <2> QED BY <2>1, <2>2, <2>3
<1> HIDE DEF e, u
<1>3. IsRun(e, u)
  BY <1>2 DEF IsRun
<1>4. ASSUME NEW n \in 0..Len(e), IsRun(e, n) PROVE n = u
  <2>1. ~(n < u)
    BY <1>1, <1>2, <1>4 DEF IsRun
  <2>2. ~(u < n)
    BY <1>1, <1>2, <1>4 DEF IsRun
  <2> QED BY <1>1, <2>1, <2>2
<1>5. Run(e) = u
  BY <1>1, <1>3, <1>4 DEF Run
<1> QED BY <1>5 DEF e, u

\* base64_decode(base64_encode(str)) is str: the 255 that the decoder puts in
\* place of missing digits reaches no byte of the result.
THEOREM DecodesBack ==
  ASSUME NEW s \in Seq(Byte)
  PROVE  base64_decode(base64_encode(s)) = s
<1> DEFINE e == base64_encode(s)
           len == Len(s)
           u == Used(len)
           digit(i) == IF i <= u THEN e[i] ELSE NoDigit
           Back(k) == LET g == 4 * ((k - 1) \div 3)
                      IN Octet(digit(g + 1), digit(g + 2), digit(g + 3), digit(g + 4), (k - 1) % 3)
<1>1. len \in Nat /\ u \in Nat /\ Held(u) = len
  <2>1. len \in Nat
    OBVIOUS
  <2>2. Chars(len) \in Nat /\ u \in 0..Chars(len) /\ Held(u) = len
    BY <2>1, Lengths
  <2> QED BY <2>1, <2>2
<1>2. base64_decode(e) = [k \in 1..len |-> Back(k)]
  BY <1>1, RunOfEncoded DEF base64_decode
<1>3. ASSUME NEW k \in 1..len PROVE Back(k) = s[k]
  <2>1. PICK g \in Nat, j \in 0..2 : k = (3 * g) + j + 1 /\ (k - 1) \div 3 = g /\ (k - 1) % 3 = j
    <3>1. k - 1 = (3 * ((k - 1) \div 3)) + ((k - 1) % 3) /\ (k - 1) \div 3 \in Nat /\ (k - 1) % 3 \in 0..2
      OBVIOUS
    <3> QED BY <3>1
  <2> DEFINE a == Filled(s, (3 * g) + 1)
             b == Filled(s, (3 * g) + 2)
             c == Filled(s, (3 * g) + 3)
  <2>2. a \in Byte /\ b \in Byte /\ c \in Byte
    BY FilledByte
  <2>3. (4 * g) + j + 2 <= u
    BY <1>1, <2>1, Written
  <2>4. \A m \in 0..3 : (4 * g) + m + 1 <= u => digit((4 * g) + m + 1) = Sextet(a, b, c, m)
    BY Encoded
  <2>5. Back(k) = Octet(digit((4 * g) + 1), digit((4 * g) + 2), digit((4 * g) + 3), digit((4 * g) + 4), j)
    BY <2>1
  <2> HIDE DEF digit, a, b, c, Back, u, e
  <2>6. CASE j = 0
    <3>1. digit((4 * g) + 1) = Sextet(a, b, c, 0) /\ digit((4 * g) + 2) = Sextet(a, b, c, 1)
      BY <1>1, <2>3, <2>4, <2>6
    <3>2. Back(k) = a
      BY <2>2, <2>5, <2>6, <3>1, FirstByte
    <3>3. a = s[k]
      BY <2>1, <2>6 DEF a, Filled
    <3> QED BY <3>2, <3>3
  <2>7. CASE j = 1
    <3>1. digit((4 * g) + 2) = Sextet(a, b, c, 1) /\ digit((4 * g) + 3) = Sextet(a, b, c, 2)
      BY <1>1, <2>3, <2>4, <2>7
    <3>2. Back(k) = b
      BY <2>2, <2>5, <2>7, <3>1, SecondByte
    <3>3. b = s[k]
      BY <2>1, <2>7 DEF b, Filled
    <3> QED BY <3>2, <3>3
  <2>8. CASE j = 2
    <3>1. digit((4 * g) + 3) = Sextet(a, b, c, 2) /\ digit((4 * g) + 4) = Sextet(a, b, c, 3)
      BY <1>1, <2>3, <2>4, <2>8
    <3>2. Back(k) = c
      BY <2>2, <2>5, <2>8, <3>1, ThirdByte
    <3>3. c = s[k]
      BY <2>1, <2>8 DEF c, Filled
    <3> QED BY <3>2, <3>3
  <2> QED BY <2>6, <2>7, <2>8
<1>4. s = [k \in 1..len |-> s[k]]
  OBVIOUS
<1> QED
  <2> HIDE DEF Back, e
  <2>1. [k \in 1..len |-> Back(k)] = [k \in 1..len |-> s[k]]
    BY <1>3
  <2> QED BY <1>2, <1>4, <2>1 DEF e
=============================================================================
