--------------------------- MODULE UtilitiesProofs --------------------------
(***************************************************************************)
(* What the loops of the utilities return, for any sizes of their blocks   *)
(* and any lengths of their data.                                          *)
(***************************************************************************)
EXTENDS Utilities, Base64Proofs, WellFoundedInduction

\* call is what the functions that run were called with; each kind of call has
\* its own functions.
RunsItsOwn ==
  /\ call \in Calls
  /\ call.op = "base64" => pc \in {"base64_encode", "base64_decode", "returned"}
  /\ call.op = "RsaPubDecrypt" => pc \in {"FormatPubKey", "RsaPubDecrypt", "returned"}
  /\ call.op = "AES" => pc \in {"GetEncryptData", "GetDecryptData", "returned", "thrown"}
  /\ call.op = "getFileChunkStructs" => pc \in {"getFileChunkStructs", "returned"}
  /\ call.op = "get_sha256Hex_File" => pc \in {"get_sha256Hex_File", "returned"}

LEMMA CallOps ==
  ASSUME NEW c \in Calls
  PROVE  /\ c.op \in {"base64", "RsaPubDecrypt", "AES", "getFileChunkStructs", "get_sha256Hex_File"}
         /\ c.op = "base64" => c.str \in Texts(Bytes, MaxText)
         /\ c.op = "AES" => c.content \in Nat /\ c.key \in Nat
         /\ c.op = "getFileChunkStructs" => c.file \in Nat /\ c.chunkSize \in Nat
         /\ c.op = "get_sha256Hex_File" => c.file \in Nat
BY DEF Calls

LEMMA TextIsSeq ==
  ASSUME NEW S, NEW n \in Nat, NEW s \in Texts(S, n)
  PROVE  s \in Seq(S)
BY DEF Texts

LEMMA InitRuns == Init => RunsItsOwn
<1> SUFFICES ASSUME Init PROVE RunsItsOwn
  OBVIOUS
<1>1. call \in Calls /\ pc = Entry(call)
  BY DEF Init
<1>2. call.op \in {"base64", "RsaPubDecrypt", "AES", "getFileChunkStructs", "get_sha256Hex_File"}
  BY <1>1, CallOps
<1> QED BY <1>1, <1>2 DEF RunsItsOwn, Entry

LEMMA StepRuns == RunsItsOwn /\ [Next]_vars => RunsItsOwn'
<1> SUFFICES ASSUME RunsItsOwn, [Next]_vars PROVE RunsItsOwn'
  OBVIOUS
<1>1. call' = call
  BY DEF Next, Encode, Decode, FormatPubKey, RsaPubDecrypt, GetEncryptData, GetDecryptData,
         get_sha256Hex_File, getFileChunkStructs, Loop, Then, Return, vars
<1>2. CASE UNCHANGED vars
  BY <1>2 DEF RunsItsOwn, vars
<1>3. CASE Encode
  BY <1>1, <1>3, CallOps DEF RunsItsOwn, Encode
<1>4. CASE Decode
  BY <1>1, <1>4, CallOps DEF RunsItsOwn, Decode
<1>5. CASE FormatPubKey
  BY <1>1, <1>5, CallOps DEF RunsItsOwn, FormatPubKey, Loop, Then
<1>6. CASE RsaPubDecrypt
  BY <1>1, <1>6, CallOps DEF RunsItsOwn, RsaPubDecrypt, Loop, Return
<1>7. CASE GetEncryptData
  BY <1>1, <1>7, CallOps DEF RunsItsOwn, GetEncryptData, Loop, Then
<1>8. CASE GetDecryptData
  BY <1>1, <1>8, CallOps DEF RunsItsOwn, GetDecryptData, Loop, Return
<1>9. CASE get_sha256Hex_File
  BY <1>1, <1>9, CallOps DEF RunsItsOwn, get_sha256Hex_File
<1>10. CASE getFileChunkStructs
  BY <1>1, <1>10, CallOps DEF RunsItsOwn, getFileChunkStructs, Loop, Return
<1> QED BY <1>2, <1>3, <1>4, <1>5, <1>6, <1>7, <1>8, <1>9, <1>10 DEF Next

LEMMA RunsAlways == Spec => []RunsItsOwn
BY InitRuns, StepRuns, PTL DEF Spec

\* The step of a call is one of its own functions.
LEMMA StepOf ==
  ASSUME RunsItsOwn, [Next]_vars
  PROVE  /\ call' = call
         /\ call.op = "base64" => Encode \/ Decode \/ UNCHANGED vars
         /\ call.op = "RsaPubDecrypt" => FormatPubKey \/ RsaPubDecrypt \/ UNCHANGED vars
         /\ call.op = "AES" => GetEncryptData \/ GetDecryptData \/ UNCHANGED vars
         /\ call.op = "getFileChunkStructs" => getFileChunkStructs \/ UNCHANGED vars
         /\ call.op = "get_sha256Hex_File" => get_sha256Hex_File \/ UNCHANGED vars
<1>1. call' = call
  BY DEF Next, Encode, Decode, FormatPubKey, RsaPubDecrypt, GetEncryptData, GetDecryptData,
         get_sha256Hex_File, getFileChunkStructs, Loop, Then, Return, vars
<1>2. /\ Encode \/ Decode => call.op = "base64"
      /\ FormatPubKey \/ RsaPubDecrypt => call.op = "RsaPubDecrypt"
      /\ GetEncryptData \/ GetDecryptData => call.op = "AES"
      /\ getFileChunkStructs => call.op = "getFileChunkStructs"
      /\ get_sha256Hex_File => call.op = "get_sha256Hex_File"
  <2>1. call.op \in {"base64", "RsaPubDecrypt", "AES", "getFileChunkStructs", "get_sha256Hex_File"}
    BY CallOps DEF RunsItsOwn
  <2> QED BY <2>1 DEF RunsItsOwn, Encode, Decode, FormatPubKey, RsaPubDecrypt, GetEncryptData,
                     GetDecryptData, get_sha256Hex_File, getFileChunkStructs
<1>3. Encode \/ Decode \/ FormatPubKey \/ RsaPubDecrypt \/ GetEncryptData \/ GetDecryptData
        \/ get_sha256Hex_File \/ getFileChunkStructs \/ UNCHANGED vars
  BY DEF Next
<1> QED BY <1>1, <1>2, <1>3

-----------------------------------------------------------------------------
(* base64 *)

Base64Inv ==
  call.op = "base64" =>
    /\ pc = "base64_encode" => made = <<>>
    /\ pc # "base64_encode" => made = base64_encode(call.str)
    /\ pc # "returned" => out = <<>>
    /\ pc = "returned" => out = base64_decode(base64_encode(call.str))

LEMMA Base64Holds == Spec => []Base64Inv
<1>1. Init => Base64Inv
  BY InitRuns DEF Init, Base64Inv, Entry
<1>2. RunsItsOwn /\ Base64Inv /\ [Next]_vars => Base64Inv'
  <2> SUFFICES ASSUME RunsItsOwn, Base64Inv, [Next]_vars, call'.op = "base64" PROVE Base64Inv'
    BY DEF Base64Inv
  <2>1. call' = call /\ (Encode \/ Decode \/ UNCHANGED vars)
    BY StepOf
  <2>2. CASE UNCHANGED vars
    BY <2>2 DEF Base64Inv, vars
  <2>3. CASE Encode
    BY <2>1, <2>3 DEF Encode, Base64Inv
  <2>4. CASE Decode
    BY <2>1, <2>4 DEF Decode, Base64Inv
  <2> QED BY <2>1, <2>2, <2>3, <2>4
<1> QED BY <1>1, <1>2, RunsAlways, PTL DEF Spec

LEMMA StringIsSeq == RunsItsOwn /\ call.op = "base64" => call.str \in Seq(Byte)
<1> SUFFICES ASSUME RunsItsOwn, call.op = "base64" PROVE call.str \in Seq(Byte)
  OBVIOUS
<1>1. call.str \in Seq(Bytes)
  BY BoundsAssumption, CallOps, TextIsSeq DEF RunsItsOwn
<1> QED BY <1>1, BytesAssumption

\* A string that was encoded and decoded is the string again (base64_trans.h),
\* whatever its bytes and however long it is.
THEOREM StringComesBack == Spec => []Base64RoundTrip
<1>1. RunsItsOwn /\ Base64Inv => Base64RoundTrip
  <2> SUFFICES ASSUME RunsItsOwn, Base64Inv, Returned("base64") PROVE out = call.str
    BY DEF Base64RoundTrip
  <2>1. call.str \in Seq(Byte)
    BY StringIsSeq DEF Returned
  <2>2. out = base64_decode(base64_encode(call.str))
    BY DEF Base64Inv, Returned
  <2> QED BY <2>1, <2>2, DecodesBack
<1> QED BY <1>1, RunsAlways, Base64Holds, PTL

LEMMA By64 ==
  ASSUME NEW x \in Nat, NEW y \in 0..63
  PROVE  ((x * 64) + y) % 64 = y /\ ((x * 64) + y) \div 64 = x /\ (x * 64) + y \in Nat
OBVIOUS

LEMMA DivTwice ==
  ASSUME NEW x \in Nat
  PROVE  x \div (64 * 64) = (x \div 64) \div 64 /\ x \div (64 * 64 * 64) = (x \div (64 * 64)) \div 64
OBVIOUS

LEMMA ThreeBytes ==
  ASSUME NEW p \in Nat, NEW q \in Nat, NEW r \in Nat, NEW s \in Nat, NEW t \in Nat, NEW u \in Nat
  PROVE  (((((p * 4) + q) * 256) + ((r * 16) + s)) * 256) + ((t * 64) + u)
           = (((((p * 64) + ((q * 16) + r)) * 64) + ((s * 4) + t)) * 64) + u
OBVIOUS

\* The digit at place j of a group is that of its 24 bits.
LEMMA SextetOfBits ==
  ASSUME NEW a \in Byte, NEW b \in Byte, NEW c \in Byte, NEW j \in 0..3
  PROVE  Sextet(a, b, c, j) = (Bits(a, b, c) \div Weight[j + 1]) % 64
<1> DEFINE a1 == a \div 4    a0 == a % 4
           b1 == b \div 16   b0 == b % 16
           c1 == c \div 64   c0 == c % 64
<1>1. /\ a1 \in 0..63 /\ a0 \in 0..3 /\ (a1 * 4) + a0 = a
      /\ b1 \in 0..15 /\ b0 \in 0..15 /\ (b1 * 16) + b0 = b
      /\ c1 \in 0..3 /\ c0 \in 0..63 /\ (c1 * 64) + c0 = c
  BY Halves
<1>2. /\ j = 0 => Sextet(a, b, c, j) = a1
      /\ j = 1 => Sextet(a, b, c, j) = (a0 * 16) + b1
      /\ j = 2 => Sextet(a, b, c, j) = (b0 * 4) + c1
      /\ j = 3 => Sextet(a, b, c, j) = c0
  BY DEF Sextet
<1>3. Weight[1] = 64 * 64 * 64 /\ Weight[2] = 64 * 64 /\ Weight[3] = 64 /\ Weight[4] = 1
  BY DEF Weight
<1> HIDE DEF a1, a0, b1, b0, c1, c0
<1> DEFINE x1 == (a0 * 16) + b1
           x2 == (b0 * 4) + c1
           y1 == (a1 * 64) + x1
           y2 == (y1 * 64) + x2
           y3 == (y2 * 64) + c0
<1>4. x1 \in 0..63 /\ x2 \in 0..63
  BY <1>1
<1>5. Bits(a, b, c) = y3
  <2>1. a1 \in Nat /\ a0 \in Nat /\ b1 \in Nat /\ b0 \in Nat /\ c1 \in Nat /\ c0 \in Nat
    BY <1>1
  <2>2. (((((a1 * 4) + a0) * 256) + ((b1 * 16) + b0)) * 256) + ((c1 * 64) + c0) = y3
    BY <2>1, ThreeBytes
  <2>3. (((a * 256) + b) * 256) + c = y3
    BY <1>1, <2>2, Zenon
  <2> QED BY <2>3 DEF Bits
<1> HIDE DEF x1, x2
<1>6. y1 \in Nat /\ y1 \div 64 = a1 /\ y1 % 64 = x1
  <2>1. a1 \in Nat
    BY <1>1
  <2> QED BY <1>4, <2>1, By64
<1> HIDE DEF y1
<1>7. y2 \in Nat /\ y2 \div 64 = y1 /\ y2 % 64 = x2
  BY <1>4, <1>6, By64
<1> HIDE DEF y2
<1>8. y3 \in Nat /\ y3 \div 64 = y2 /\ y3 % 64 = c0
  BY <1>1, <1>7, By64
<1> HIDE DEF y3
<1>9. y3 \div (64 * 64) = y1 /\ y3 \div (64 * 64 * 64) = a1
  BY <1>6, <1>7, <1>8, DivTwice
<1>10. a1 % 64 = a1 /\ y3 \div 1 = y3
  BY <1>1, <1>8
<1>11. CASE j = 0
  BY <1>2, <1>3, <1>5, <1>9, <1>10, <1>11
<1>12. CASE j = 1
  BY <1>2, <1>3, <1>5, <1>6, <1>9, <1>12 DEF x1
<1>13. CASE j = 2
  BY <1>2, <1>3, <1>5, <1>7, <1>8, <1>13 DEF x2
<1>14. CASE j = 3
  BY <1>2, <1>3, <1>5, <1>8, <1>10, <1>14
<1> QED BY <1>11, <1>12, <1>13, <1>14

\* The characters of a string's encoding are whole groups, and end with as many
\* '=' as bytes are missing in the last.
LEMMA PadsOf ==
  ASSUME NEW len \in Nat
  PROVE  Used(len) = Chars(len) - ((3 - (len % 3)) % 3) /\ Chars(len) % 4 = 0
<1>1. PICK h \in Nat, x \in 0..2 : len = (3 * h) + x /\ len \div 3 = h /\ len % 3 = x
  <2>1. len = (3 * (len \div 3)) + (len % 3) /\ len \div 3 \in Nat /\ len % 3 \in 0..2
    OBVIOUS
  <2> QED BY <2>1
<1>2. (len + 2) \div 3 = IF x = 0 THEN h ELSE h + 1
  BY <1>1
<1>3. Chars(len) = 4 * (IF x = 0 THEN h ELSE h + 1)
  BY <1>2 DEF Chars
<1>4. Used(len) = (4 * h) + (IF x = 0 THEN 0 ELSE x + 1)
  BY <1>1 DEF Used
<1>5. (3 - x) % 3 = IF x = 0 THEN 0 ELSE 3 - x
  BY <1>1
<1>6. Chars(len) % 4 = 0
  BY <1>3
<1>7. Used(len) = Chars(len) - ((3 - (len % 3)) % 3)
  <2>1. CASE x = 0
    BY <1>1, <1>3, <1>4, <1>5, <2>1
  <2>2. CASE x # 0
    <3>1. Chars(len) = 4 * (h + 1) /\ Used(len) = (4 * h) + (x + 1) /\ (3 - x) % 3 = 3 - x
      BY <1>3, <1>4, <1>5, <2>2
    <3>2. (3 - (len % 3)) % 3 = 3 - x
      BY <1>1, <3>1
    <3> QED BY <3>1, <3>2
  <2> QED BY <2>1, <2>2
<1> QED BY <1>6, <1>7

\* Every character of an encoding, by its place.
LEMMA Characters ==
  ASSUME NEW s \in Seq(Byte)
  PROVE  /\ Len(base64_encode(s)) = Chars(Len(s))
         /\ \A k \in 1..Chars(Len(s)) :
              base64_encode(s)[k] = IF k > Used(Len(s)) THEN Pad ELSE StandardDigit(s, k)
<1> DEFINE e == base64_encode(s)
           len == Len(s)
           u == Used(len)
<1>1. Len(e) = Chars(len) /\ len \in Nat /\ u \in 0..Chars(len) /\ Chars(len) \in Nat
  BY Encoded, Lengths
<1>2. ASSUME NEW k \in 1..Chars(len) PROVE e[k] = IF k > u THEN Pad ELSE StandardDigit(s, k)
  <2> DEFINE g == (k - 1) \div 4
             j == (k - 1) % 4
             a == Filled(s, (3 * g) + 1)
             b == Filled(s, (3 * g) + 2)
             c == Filled(s, (3 * g) + 3)
  <2>1. k - 1 \in Nat /\ g \in Nat /\ j \in 0..3
    BY <1>1
  <2> HIDE DEF g, j
  <2>2. a \in Byte /\ b \in Byte /\ c \in Byte
    BY <2>1, FilledByte
  <2>3. e[k] = IF k <= u THEN Sextet(a, b, c, j) ELSE Pad
    BY <1>1 DEF base64_encode, Chars, Filled, g, j
  <2>4. StandardDigit(s, k) = (Bits(a, b, c) \div Weight[j + 1]) % 64
    BY DEF StandardDigit, Filled, g, j
  <2>5. Sextet(a, b, c, j) = (Bits(a, b, c) \div Weight[j + 1]) % 64
    BY <2>1, <2>2, SextetOfBits
  <2>6. k \in Nat /\ u \in Nat
    BY <1>1
  <2> HIDE DEF a, b, c
  <2> QED BY <2>3, <2>4, <2>5, <2>6
<1> QED BY <1>1, <1>2

LEMMA EncodedType ==
  ASSUME NEW s \in Seq(Byte)
  PROVE  base64_encode(s) \in Seq(Digit \cup {Pad})
<1> DEFINE e == base64_encode(s)
<1>1. e \in Seq(Nat) /\ Len(e) = Chars(Len(s))
  BY Encoded
<1>2. ASSUME NEW k \in 1..Len(e) PROVE e[k] \in Digit \cup {Pad}
  <2>1. e[k] = IF k > Used(Len(s)) THEN Pad ELSE StandardDigit(s, k)
    BY <1>1, Characters
  <2>2. k <= Used(Len(s)) => e[k] \in Digit
    <3>1. Len(s) \in Nat /\ Used(Len(s)) \in Nat
      BY Lengths
    <3>2. k <= Used(Len(s)) => k \in 1..Used(Len(s))
      BY <3>1
    <3> QED BY <3>2, Encoded
  <2>3. k \in Nat /\ Used(Len(s)) \in Nat
    BY Lengths
  <2> QED BY <2>1, <2>2, <2>3
<1> HIDE DEF e
<1>3. e \in [1..Len(e) -> Digit \cup {Pad}] /\ Len(e) \in Nat
  BY <1>1, <1>2
<1> QED BY <1>3 DEF e

\* What base64_encode makes of any string is what RFC 4648 defines
\* (base64_trans.h): the digits of its bits in groups of 24, and '=' for the
\* bytes that are missing.
THEOREM EncodesByTheStandard == Spec => []Base64Standard
<1>1. RunsItsOwn /\ Base64Inv => Base64Standard
  <2> SUFFICES ASSUME RunsItsOwn, Base64Inv, Returned("base64")
               PROVE  /\ Len(made) % 4 = 0 /\ Len(made) = 4 * ((Len(call.str) + 2) \div 3)
                      /\ \A k \in 1..Len(made) :
                           made[k] = IF k > Len(made) - ((3 - (Len(call.str) % 3)) % 3)
                                       THEN Pad ELSE StandardDigit(call.str, k)
    BY DEF Base64Standard
  <2>1. call.str \in Seq(Byte) /\ made = base64_encode(call.str)
    BY StringIsSeq DEF Base64Inv, Returned
  <2>2. Len(call.str) \in Nat
    BY <2>1
  <2>3. Len(made) = Chars(Len(call.str))
    BY <2>1, Characters
  <2>4. /\ Chars(Len(call.str)) % 4 = 0
        /\ Used(Len(call.str)) = Chars(Len(call.str)) - ((3 - (Len(call.str) % 3)) % 3)
    BY <2>2, PadsOf
  <2>5. Chars(Len(call.str)) = 4 * ((Len(call.str) + 2) \div 3)
    BY DEF Chars
  <2>6. ASSUME NEW k \in 1..Len(made)
        PROVE made[k] = IF k > Used(Len(call.str)) THEN Pad ELSE StandardDigit(call.str, k)
    BY <2>1, <2>3, Characters
  <2>7. Len(made) % 4 = 0 /\ Len(made) = 4 * ((Len(call.str) + 2) \div 3)
    BY <2>3, <2>4, <2>5, Zenon
  <2>8. Used(Len(call.str)) = Len(made) - ((3 - (Len(call.str) % 3)) % 3)
    BY <2>3, <2>4, Zenon
  <2> QED BY <2>6, <2>7, <2>8, Zenon
<1> QED BY <1>1, RunsAlways, Base64Holds, PTL
-----------------------------------------------------------------------------
(* get_sha256Hex_File *)

LEMMA LeastIs ==
  ASSUME NEW a \in Nat, NEW b \in Nat
  PROVE  Least(a, b) \in Nat /\ Least(a, b) <= a /\ Least(a, b) <= b
BY DEF Least

Upto(n) == [i \in 1..n |-> i]
\* A piece put behind the bytes before it.
LEMMA UptoPiece ==
  ASSUME NEW p \in Nat, NEW n \in Nat, NEW length \in Nat, p <= length
  PROVE  Upto(p) \o Piece(p, n, length) = Upto(p + Least(n, length - p))
<1> DEFINE m == Least(n, length - p)
<1>1. m \in Nat
  <2>1. length - p \in Nat
    OBVIOUS
  <2> QED BY <2>1, LeastIs
<1> HIDE DEF m
<1>2. Piece(p, n, length) = [i \in 1..m |-> p + i]
  BY DEF Piece, m
<1>3. Upto(p) \in Seq(Nat) /\ Len(Upto(p)) = p
  BY DEF Upto
<1>4. [i \in 1..m |-> p + i] \in Seq(Nat) /\ Len([i \in 1..m |-> p + i]) = m
  BY <1>1
<1>5. Upto(p) \o [i \in 1..m |-> p + i] = [k \in 1..p + m |-> k]
  BY <1>1, <1>3, <1>4 DEF Upto
<1> QED BY <1>2, <1>5 DEF m, Upto

HashInv ==
  call.op = "get_sha256Hex_File" =>
    /\ pos \in 0..call.file /\ out = Upto(pos)
    /\ pc = "returned" /\ call.opens => pos = call.file

LEMMA HashHolds == Spec => []HashInv
<1>1. Init => HashInv
  <2> SUFFICES ASSUME Init, call.op = "get_sha256Hex_File"
               PROVE  pos \in 0..call.file /\ out = Upto(pos) /\ pc # "returned"
    BY DEF HashInv
  <2>1. call.file \in Nat /\ pos = 0 /\ out = <<>> /\ pc = "get_sha256Hex_File"
    BY CallOps DEF Init, Entry
  <2>2. Upto(0) = <<>>
    BY DEF Upto
  <2> QED BY <2>1, <2>2
<1>2. RunsItsOwn /\ HashInv /\ [Next]_vars => HashInv'
  <2> SUFFICES ASSUME RunsItsOwn, HashInv, [Next]_vars, call'.op = "get_sha256Hex_File" PROVE HashInv'
    BY DEF HashInv
  <2>1. CASE UNCHANGED vars
    BY <2>1 DEF HashInv, vars
  <2>2. CASE get_sha256Hex_File
    <3>1. call' = call /\ call.file \in Nat /\ pos \in 0..call.file /\ out = Upto(pos) /\ bufferSize \in Nat \ {0}
      BY <2>2, SizesAssumption, CallOps DEF get_sha256Hex_File, HashInv, RunsItsOwn
    <3>4. Upto(pos) \o Piece(pos, bufferSize, call.file) = Upto(pos + Least(bufferSize, call.file - pos))
      <4>1. pos \in Nat /\ call.file \in Nat /\ bufferSize \in Nat /\ pos <= call.file
        BY <3>1
      <4> QED BY <4>1, UptoPiece
    <3>5. CASE ~call.opens
      BY <2>2, <3>1, <3>5 DEF get_sha256Hex_File, HashInv
    <3>2. CASE call.opens /\ pos + bufferSize <= call.file
      <4>1. pos' = pos + bufferSize /\ out' = out \o Piece(pos, bufferSize, call.file) /\ pc' = pc
        BY <2>2, <3>1, <3>2 DEF get_sha256Hex_File
      <4>2. Least(bufferSize, call.file - pos) = bufferSize
        BY <3>1, <3>2 DEF Least
      <4>3. Upto(pos) \o Piece(pos, bufferSize, call.file) = Upto(pos + bufferSize)
        BY <3>4, <4>2
      <4>6. out' = Upto(pos')
        BY <3>1, <4>1, <4>3
      <4>4. pc' # "returned"
        BY <2>2, <4>1 DEF get_sha256Hex_File
      <4>5. pos' \in 0..call.file
        BY <3>1, <3>2, <4>1
      <4> QED BY <3>1, <4>6, <4>4, <4>5 DEF HashInv
    <3>3. CASE call.opens /\ ~(pos + bufferSize <= call.file)
      <4>1. pos' = call.file /\ out' = out \o Piece(pos, bufferSize, call.file)
        BY <2>2, <3>1, <3>3 DEF get_sha256Hex_File, Rest
      <4>2. Least(bufferSize, call.file - pos) = call.file - pos
        BY <3>1, <3>3 DEF Least
      <4>3. Upto(pos) \o Piece(pos, bufferSize, call.file) = Upto(pos + (call.file - pos))
        BY <3>4, <4>2
      <4>4. pos + (call.file - pos) = call.file
        BY <3>1
      <4>5. out' = Upto(pos')
        BY <3>1, <4>1, <4>3, <4>4
      <4> QED BY <3>1, <4>1, <4>5 DEF HashInv
    <3> QED BY <3>2, <3>3, <3>5
  <2>3. get_sha256Hex_File \/ UNCHANGED vars
    BY StepOf
  <2> QED BY <2>1, <2>2, <2>3
<1> QED BY <1>1, <1>2, RunsAlways, PTL DEF Spec

\* What a hash is made of is the whole of a file that can be opened, in order, each
\* byte once (hash_create.h), whatever its length and the size of the buffer.
THEOREM WholeFile == Spec => []FileHashed
<1>1. HashInv => FileHashed
  BY DEF HashInv, FileHashed, Returned, Upto
<1> QED BY <1>1, HashHolds, PTL
-----------------------------------------------------------------------------
(* Positions. *)

\* The size of a chunk is not 0, whatever the caller asked for.
LEMMA SizeOfChunk ==
  RunsItsOwn /\ call.op = "getFileChunkStructs" => chunkSize \in Nat \ {0} /\ chunkSize = SizeMeant
BY CallOps, SizesAssumption DEF RunsItsOwn, chunkSize, SizeMeant

PosType == pos \in Nat
LEMMA PositionsAreNat == Spec => []PosType
<1>1. Init => PosType
  BY DEF Init, PosType
<1>2. RunsItsOwn /\ PosType /\ [Next]_vars => PosType'
  <2> SUFFICES ASSUME RunsItsOwn, pos \in Nat, [Next]_vars PROVE pos' \in Nat
    BY DEF PosType
  <2>1. RSA_KEYSUB_LEN \in Nat /\ AES_BLOCK_SIZE \in Nat /\ bufferSize \in Nat /\ Word \in Nat \ {0}
    BY SizesAssumption
  <2>2. /\ call.op = "getFileChunkStructs" => chunkSize \in Nat
        /\ call.op = "get_sha256Hex_File" => call.file \in Nat
    BY CallOps, SizeOfChunk DEF RunsItsOwn
  <2>3. CASE Encode \/ Decode \/ UNCHANGED vars
    BY <2>3 DEF Encode, Decode, vars
  <2>4. CASE FormatPubKey \/ RsaPubDecrypt
    BY <2>1, <2>4 DEF FormatPubKey, RsaPubDecrypt, Loop, Then, Return
  <2>5. CASE GetEncryptData \/ GetDecryptData
    BY <2>1, <2>5 DEF GetEncryptData, GetDecryptData, Loop, Then, Return
  <2>6. CASE call.op = "getFileChunkStructs" /\ getFileChunkStructs
    <3>1. (pos + chunkSize) % Word \in Nat
      BY <2>1, <2>2, <2>6
    <3> QED BY <2>6, <3>1 DEF getFileChunkStructs, Loop, Return, NextStart
  <2>7. CASE call.op = "get_sha256Hex_File" /\ get_sha256Hex_File
    BY <2>1, <2>2, <2>7 DEF get_sha256Hex_File
  <2>8. call.op \in {"base64", "RsaPubDecrypt", "AES", "getFileChunkStructs", "get_sha256Hex_File"}
    BY CallOps DEF RunsItsOwn
  <2> QED BY <2>3, <2>4, <2>5, <2>6, <2>7, <2>8, StepOf
<1> QED BY <1>1, <1>2, RunsAlways, PTL DEF Spec

-----------------------------------------------------------------------------
(* getFileChunkStructs *)

\* The least multiple of c that is not below n; a multiple below n is followed by
\* another that does not exceed it.
RoundUp(n, c) == ((n + c - 1) \div c) * c
LEMMA Rounded ==
  ASSUME NEW n \in Nat, NEW c \in Nat \ {0}
  PROVE  /\ RoundUp(n, c) \in Nat /\ RoundUp(n, c) >= n
         /\ \A k \in Nat : k * c < n => (k * c) + c <= RoundUp(n, c)
<1> DEFINE y == n + c - 1
           q == y \div c
<1>1. y \in Nat
  OBVIOUS
<1>2. y = n + c - 1
  OBVIOUS
<1>3. RoundUp(n, c) = q * c
  BY DEF RoundUp
<1> HIDE DEF y
<1>4. q \in Nat /\ y = (q * c) + (y % c) /\ y % c < c /\ y % c \in Nat
  BY <1>1
<1> HIDE DEF q
<1>5. q * c \in Nat
  BY <1>4
<1>6. q * c >= n
  BY <1>2, <1>4, <1>5
<1>7. ASSUME NEW k \in Nat, k * c < n PROVE (k * c) + c <= q * c
  <2>1. k * c < q * c
    BY <1>5, <1>6, <1>7
  <2>2. k < q
    BY <1>4, <2>1
  <2>3. k + 1 <= q
    BY <1>4, <2>2
  <2>4. (k + 1) * c <= q * c
    BY <1>4, <2>3
  <2>5. (k + 1) * c = (k * c) + c
    OBVIOUS
  <2> QED BY <2>4, <2>5
<1> QED BY <1>3, <1>5, <1>6, <1>7

LEMMA Small ==
  ASSUME NEW n \in Nat, NEW w \in Nat \ {0}, n < w
  PROVE  n % w = n
OBVIOUS

LEMMA NextMultiple ==
  ASSUME NEW k \in Nat, NEW c \in Nat
  PROVE  (k + 1) * c = (k * c) + c /\ k + 1 \in Nat
OBVIOUS

Chunks == [startPos : Nat, endPos : Nat]
\* The chunks so far are those of the bytes up to pos, one behind the other.
ChunkInv ==
  call.op = "getFileChunkStructs" /\ call.opens /\ Fits =>
    /\ \E k \in Nat : pos = k * chunkSize
    /\ out \in Seq(Chunks)
    /\ \A i \in 1..Len(out) : /\ out[i].startPos < call.file /\ out[i].startPos < out[i].endPos
                            /\ out[i].endPos <= pos
    /\ \A i, j \in 1..Len(out) : i < j => out[i].endPos <= out[j].startPos
    /\ \A b \in 1..pos : \E i \in 1..Len(out) : out[i].startPos < b /\ b <= out[i].endPos
    /\ pc = "returned" => pos >= call.file

LEMMA ChunkOf ==
  ASSUME NEW s \in Seq(Chunks), NEW i \in 1..Len(s)
  PROVE  s[i].startPos \in Nat /\ s[i].endPos \in Nat
<1>1. s[i] \in Chunks
  OBVIOUS
<1> QED BY <1>1 DEF Chunks

\* A chunk behind others.
LEMMA AppendChunk ==
  ASSUME NEW S, NEW s \in Seq(S), NEW e \in S
  PROVE  /\ Append(s, e) \in Seq(S) /\ Append(s, e) # <<>> /\ Len(Append(s, e)) = Len(s) + 1
         /\ Append(s, e)[Len(s) + 1] = e
         /\ \A i \in 1..Len(s) : Append(s, e)[i] = s[i]
OBVIOUS

LEMMA ChunksHold == Spec => []ChunkInv
<1>1. Init => ChunkInv
  <2> SUFFICES ASSUME Init, call.op = "getFileChunkStructs" PROVE ChunkInv
    BY DEF ChunkInv
  <2>1. pos = 0 /\ out = <<>> /\ pc = "getFileChunkStructs" /\ chunkSize \in Nat
    BY InitRuns, SizeOfChunk DEF Init, Entry
  <2>2. 0 \in Nat /\ pos = 0 * chunkSize
    BY <2>1
  <2>3. \E k \in Nat : pos = k * chunkSize
    BY <2>2
  <2> QED BY <2>1, <2>3 DEF ChunkInv
<1>2. RunsItsOwn /\ ChunkInv /\ [Next]_vars => ChunkInv'
  <2> SUFFICES ASSUME RunsItsOwn, ChunkInv, [Next]_vars, call'.op = "getFileChunkStructs",
                      call'.opens, Fits'
               PROVE  ChunkInv'
    BY DEF ChunkInv
  <2>1. CASE UNCHANGED vars
    BY <2>1 DEF ChunkInv, Fits, SizeMeant, chunkSize, vars
  <2>2. CASE getFileChunkStructs
    <3> DEFINE c == chunkSize
               n == call.file
               e == [startPos |-> pos, endPos |-> EndPos(pos)]
    <3>0. call' = call /\ call.op = "getFileChunkStructs" /\ call.opens
      BY <2>2 DEF getFileChunkStructs, Loop, Return
    <3>1. /\ Fits /\ n \in Nat /\ c \in Nat \ {0} /\ c = SizeMeant /\ chunkSize' = c
          /\ Word \in Nat \ {0}
      BY <3>0, CallOps, SizeOfChunk, SizesAssumption DEF RunsItsOwn, Fits, SizeMeant, chunkSize
    <3>2. PICK k \in Nat : pos = k * c
      BY <3>0, <3>1 DEF ChunkInv
    <3>3. pos \in Nat
      BY <3>1, <3>2
    <3>4. RoundUp(n, c) \in Nat /\ n <= RoundUp(n, c) /\ RoundUp(n, c) < Word
      BY <3>1, Rounded DEF Fits, RoundUp
    <3>5. n % Word = n
      <4>1. n < Word
        BY <3>1, <3>4
      <4> QED BY <3>1, <4>1, Small
    <3>6. /\ out \in Seq(Chunks)
          /\ \A i \in 1..Len(out) : out[i].startPos < n /\ out[i].startPos < out[i].endPos /\ out[i].endPos <= pos
          /\ \A i, j \in 1..Len(out) : i < j => out[i].endPos <= out[j].startPos
          /\ \A b \in 1..pos : \E i \in 1..Len(out) : out[i].startPos < b /\ b <= out[i].endPos
      BY <3>0, <3>1 DEF ChunkInv
    <3>7. CASE pos < n
      <4>1. pos' = NextStart(pos) /\ out' = Append(out, e) /\ pc' = pc /\ pc # "returned"
        BY <2>2, <3>0, <3>5, <3>7 DEF getFileChunkStructs, Loop, fileSize, Remains
      <4>2. pos + c <= RoundUp(n, c)
        BY <3>1, <3>2, <3>7, Rounded
      <4>3. (pos + c) % Word = pos + c
        <5>1. pos + c \in Nat /\ pos + c < Word
          BY <3>1, <3>3, <3>4, <4>2
        <5> QED BY <3>1, <5>1, Small
      <4>4. NextStart(pos) = pos + c /\ EndPos(pos) = pos + c
        BY <4>3 DEF NextStart, EndPos
      <4>13. pos' \in Nat /\ pos < pos'
        BY <3>1, <3>3, <4>1, <4>4
      <4>5. pos' = (k + 1) * c /\ k + 1 \in Nat
        <5>1. (k + 1) * c = (k * c) + c /\ k + 1 \in Nat
          BY <3>1, NextMultiple
        <5>2. pos' = pos + c
          BY <4>1, <4>4
        <5> HIDE DEF c
        <5> QED BY <3>2, <5>1, <5>2
      <4>6. e \in Chunks /\ e.startPos = pos /\ e.endPos = pos'
        BY <3>1, <3>3, <4>1, <4>4 DEF Chunks
      <4> DEFINE o == Append(out, e)
                 m == Len(out)
      <4>7. m \in Nat
        BY <3>6
      <4>8. o \in Seq(Chunks) /\ Len(o) = m + 1 /\ o[m + 1] = e /\ \A i \in 1..m : o[i] = out[i]
        <5> HIDE DEF e
        <5>1. out \in Seq(Chunks) /\ e \in Chunks
          BY <3>6, <4>6
        <5> QED BY <5>1, AppendChunk
      <4>12. out' = o
        BY <4>1
      <4>14. \A i \in 1..m : out[i].startPos \in Nat /\ out[i].endPos \in Nat
        BY <3>6, ChunkOf DEF m
      <4> HIDE DEF o, e, c, n
      <4>9. ASSUME NEW i \in 1..Len(o)
            PROVE  o[i].startPos < n /\ o[i].startPos < o[i].endPos /\ o[i].endPos <= pos'
        <5>1. CASE i \in 1..m
          <6>1. o[i] = out[i] /\ out[i].startPos < n /\ out[i].startPos < out[i].endPos /\ out[i].endPos <= pos
            BY <3>6, <4>8, <5>1
          <6> QED BY <3>3, <4>13, <4>14, <5>1, <6>1
        <5>2. CASE i = m + 1
          BY <3>7, <4>6, <4>8, <4>13, <5>2
        <5> QED BY <4>7, <4>8, <5>1, <5>2
      <4>10. ASSUME NEW i \in 1..Len(o), NEW j \in 1..Len(o), i < j
             PROVE  o[i].endPos <= o[j].startPos
        <5>1. i \in 1..m /\ o[i] = out[i]
          BY <4>7, <4>8, <4>10
        <5>2. CASE j \in 1..m
          BY <3>6, <4>8, <4>10, <5>1, <5>2
        <5>3. CASE j = m + 1
          BY <3>6, <4>6, <4>8, <5>1, <5>3
        <5> QED BY <4>7, <4>8, <5>2, <5>3
      <4>11. ASSUME NEW b \in 1..pos'
             PROVE  \E i \in 1..Len(o) : o[i].startPos < b /\ b <= o[i].endPos
        <5>1. CASE b \in 1..pos
          <6>1. PICK i \in 1..m : out[i].startPos < b /\ b <= out[i].endPos
            BY <3>6, <5>1
          <6>2. i \in 1..Len(o) /\ o[i] = out[i]
            BY <4>7, <4>8
          <6> QED BY <6>1, <6>2
        <5>2. CASE b \notin 1..pos
          <6>1. m + 1 \in 1..Len(o) /\ pos < b /\ b <= pos'
            BY <3>3, <4>7, <4>8, <4>13, <5>2
          <6> QED BY <4>6, <4>8, <6>1
        <5> QED BY <5>1, <5>2
      <4>15. call'.file = n
        BY <3>0 DEF n
      <4>16. \E x \in Nat : pos' = x * chunkSize'
        BY <3>1, <4>5 DEF c
      <4> QED BY <4>1, <4>8, <4>9, <4>10, <4>11, <4>12, <4>15, <4>16 DEF ChunkInv
    <3>8. CASE ~(pos < n)
      <4>1. UNCHANGED <<call, pos, out>>
        BY <2>2, <3>5, <3>8 DEF getFileChunkStructs, Return, fileSize, Remains
      <4>2. pos >= n
        BY <3>1, <3>3, <3>8
      <4> QED BY <3>0, <3>1, <4>1, <4>2 DEF ChunkInv
    <3> QED BY <3>7, <3>8
  <2>3. getFileChunkStructs \/ UNCHANGED vars
    BY StepOf
  <2> QED BY <2>1, <2>2, <2>3
<1> QED BY <1>1, <1>2, RunsAlways, PTL DEF Spec

\* As long as no position overflows, the chunks of an upload
\* (specialsupply_req.cpp), read from startPos to endPos as multipart_parser.cpp
\* does, leave no byte of the file out, and none but the first of a chunk is in
\* two of them: for every length of a file, size of a chunk, named or not, and
\* width of a position.
THEOREM ChunksCover == Spec => []ChunksCoverFile
<1>1. RunsItsOwn /\ ChunkInv /\ PosType => ChunksCoverFile
  <2> SUFFICES ASSUME RunsItsOwn, ChunkInv, pos \in Nat,
                      Returned("getFileChunkStructs"), call.opens, Fits
               PROVE  /\ \A b \in 1..call.file : \E i \in DOMAIN out : b \in BytesOf(out[i])
                      /\ \A i, j \in DOMAIN out : i < j =>
                           \A b \in BytesOf(out[i]) \cap BytesOf(out[j]) :
                              j = i + 1 /\ b = out[j].startPos + 1
    BY DEF ChunksCoverFile, PosType
  <2>1. /\ out \in Seq(Chunks)
        /\ \A i \in 1..Len(out) : /\ out[i].startPos < call.file /\ out[i].startPos < out[i].endPos
                                /\ out[i].endPos <= pos
        /\ \A i, j \in 1..Len(out) : i < j => out[i].endPos <= out[j].startPos
        /\ \A b \in 1..pos : \E i \in 1..Len(out) : out[i].startPos < b /\ b <= out[i].endPos
        /\ pos >= call.file
    BY DEF ChunkInv, Returned
  <2>2. call.file \in Nat
    BY CallOps DEF RunsItsOwn, Returned
  <2>3. DOMAIN out = 1..Len(out) /\ Len(out) \in Nat
    BY <2>1
  <2>4. \A i \in 1..Len(out) : out[i].startPos \in Nat /\ out[i].endPos \in Nat
    BY <2>1, ChunkOf
  <2>5. ASSUME NEW b \in 1..call.file
        PROVE  \E i \in DOMAIN out : b \in BytesOf(out[i])
    <3>1. PICK i \in 1..Len(out) : out[i].startPos < b /\ b <= out[i].endPos
      BY <2>1, <2>2
    <3>2. b \in BytesOf(out[i])
      <4>1. out[i].startPos \in Nat /\ out[i].endPos \in Nat /\ b \in Nat /\ b <= call.file
        BY <2>2, <2>4
      <4>2. CASE out[i].endPos > call.file
        <5>1. BytesOf(out[i]) = out[i].startPos + 1..Least(out[i].startPos + call.file, call.file)
          BY <4>2 DEF BytesOf
        <5> QED BY <2>2, <3>1, <4>1, <5>1 DEF Least
      <4>3. CASE ~(out[i].endPos > call.file)
        <5>1. BytesOf(out[i]) = out[i].startPos + 1
                ..Least(out[i].startPos + (out[i].endPos - out[i].startPos + 1), call.file)
          BY <4>3 DEF BytesOf
        <5> QED BY <2>2, <3>1, <4>1, <5>1 DEF Least
      <4> QED BY <4>2, <4>3
    <3> QED BY <2>3, <3>2
  <2>6. ASSUME NEW i \in 1..Len(out), NEW j \in 1..Len(out), i < j,
               NEW b \in BytesOf(out[i]) \cap BytesOf(out[j])
        PROVE  j = i + 1 /\ b = out[j].startPos + 1
    <3>1. out[i].endPos <= out[j].startPos /\ out[j].startPos < call.file
      BY <2>1, <2>6
    <3>5. /\ out[i].startPos \in Nat /\ out[i].endPos \in Nat
          /\ out[j].startPos \in Nat /\ out[j].endPos \in Nat
      BY <2>4
    <3>6. b \in Int /\ b <= out[i].endPos + 1
      <4>1. BytesOf(out[i]) = out[i].startPos + 1
              ..Least(out[i].startPos + (out[i].endPos - out[i].startPos + 1), call.file)
        BY <2>2, <3>1, <3>5 DEF BytesOf
      <4>2. Least(out[i].startPos + (out[i].endPos - out[i].startPos + 1), call.file) <= out[i].endPos + 1
        BY <2>2, <3>5 DEF Least
      <4>3. Least(out[i].startPos + (out[i].endPos - out[i].startPos + 1), call.file) \in Int
        BY <2>2, <3>5 DEF Least
      <4> QED BY <3>5, <4>1, <4>2, <4>3
    <3>7. out[j].startPos < b
      <4>1. \E last : BytesOf(out[j]) = out[j].startPos + 1..last
        BY DEF BytesOf
      <4> QED BY <3>5, <3>6, <4>1
    <3>2. b \in Nat /\ b <= out[i].endPos + 1 /\ out[j].startPos < b
      BY <3>5, <3>6, <3>7
    <3>3. b = out[j].startPos + 1 /\ out[i].endPos = out[j].startPos
      BY <2>4, <3>1, <3>2
    <3>4. CASE i + 1 < j
      <4>1. i + 1 \in 1..Len(out)
        BY <2>3, <3>4
      <4>2. /\ out[i].endPos <= out[i + 1].startPos /\ out[i + 1].startPos < out[i + 1].endPos
            /\ out[i + 1].endPos <= out[j].startPos
        BY <2>1, <3>4, <4>1
      <4> QED BY <2>4, <3>3, <4>1, <4>2
    <3> QED BY <2>3, <2>6, <3>3, <3>4
  <2> QED BY <2>3, <2>5, <2>6
<1> QED BY <1>1, RunsAlways, ChunksHold, PositionsAreNat, PTL
-----------------------------------------------------------------------------
(* GetEncryptData and GetDecryptData *)

\* The n elements of s, of whatever kind.
IsList(s, n) == s = [i \in 1..n |-> s[i]]

LEMMA SequenceIsList ==
  ASSUME NEW S, NEW s \in Seq(S)
  PROVE  IsList(s, Len(s))
BY DEF IsList

LEMMA Joined ==
  ASSUME NEW s \in Seq(Nat), NEW t \in Seq(Nat)
  PROVE  /\ s \o t \in Seq(Nat) /\ Len(s \o t) = Len(s) + Len(t)
         /\ \A i \in 1..Len(s) : (s \o t)[i] = s[i]
         /\ \A j \in 1..Len(t) : (s \o t)[Len(s) + j] = t[j]
OBVIOUS

LEMMA AppendToList ==
  ASSUME NEW s, NEW n \in Nat, IsList(s, n), NEW x
  PROVE  /\ Len(s) = n /\ IsList(Append(s, x), n + 1)
         /\ \A i \in 1..n : Append(s, x)[i] = s[i]
         /\ Append(s, x)[n + 1] = x
<1> DEFINE S == {s[i] : i \in 1..n} \cup {x}
<1>1. s \in Seq(S) /\ Len(s) = n
  <2>1. [i \in 1..n |-> s[i]] \in [1..n -> S]
    OBVIOUS
  <2>2. s \in [1..n -> S]
    BY <2>1 DEF IsList
  <2> QED BY <2>2
<1>2. x \in S
  OBVIOUS
<1> HIDE DEF S
<1>3. /\ Append(s, x) \in Seq(S) /\ Len(Append(s, x)) = n + 1
      /\ \A i \in 1..n : Append(s, x)[i] = s[i]
      /\ Append(s, x)[n + 1] = x
  BY <1>1, <1>2
<1>4. IsList(Append(s, x), Len(Append(s, x)))
  BY <1>3, SequenceIsList
<1> QED BY <1>1, <1>3, <1>4

LEMMA NextBlock ==
  ASSUME NEW n \in Nat, NEW b \in Nat
  PROVE  n * b \in Nat /\ (n + 1) * b = (n * b) + b
OBVIOUS

\* The vector after the first n of the blocks s.
VectorAfter(s, n) == IF n = 0 THEN <<>> ELSE s[n]
\* Each of the n blocks of s is that part of the content, chained to the one before.
Chained(s, n) ==
  \A i \in 1..n : s[i] = Cipher(VectorAfter(s, i - 1), Block((i - 1) * AES_BLOCK_SIZE))
Covers(n) == n * AES_BLOCK_SIZE \in call.content..call.content + AES_BLOCK_SIZE - 1

Encrypting(n) ==
  /\ n \in Nat /\ IsList(out, n) /\ Chained(out, n)
  /\ pos = n * AES_BLOCK_SIZE /\ pos < call.content + AES_BLOCK_SIZE
  /\ iv = VectorAfter(out, n)
Decrypting(n) ==
  /\ n \in Nat /\ IsList(made, n) /\ Chained(made, n) /\ Covers(n)
  /\ pos \in 0..n
  /\ iv = VectorAfter(made, pos)
  /\ out \in Seq(Nat) /\ Len(out) = pos * AES_BLOCK_SIZE
  /\ \A i \in 1..Len(out) : i <= call.content => out[i] = i
AesInv ==
  call.op = "AES" =>
    /\ pc = "GetEncryptData" => \E n \in Nat : Encrypting(n)
    /\ pc = "GetDecryptData" => \E n \in Nat : Decrypting(n)
    /\ pc = "returned" => \E n \in Nat : Decrypting(n) /\ pos = n

LEMMA Sizes == AES_BLOCK_SIZE \in Nat \ {0} /\ MaxLen \in Nat
BY SizesAssumption, BoundsAssumption

LEMMA BlockIs ==
  ASSUME NEW p \in Nat, call.content \in Nat
  PROVE  /\ Block(p) \in Seq(Nat) /\ Len(Block(p)) = AES_BLOCK_SIZE
         /\ \A j \in 1..AES_BLOCK_SIZE : p + j <= call.content => Block(p)[j] = p + j
<1>1. Block(p) \in [1..AES_BLOCK_SIZE -> Nat]
  BY Sizes DEF Block, Nul, Beyond
<1>2. Block(p) \in Seq(Nat) /\ Len(Block(p)) = AES_BLOCK_SIZE
  BY <1>1, Sizes
<1>3. ASSUME NEW j \in 1..AES_BLOCK_SIZE, p + j <= call.content PROVE Block(p)[j] = p + j
  BY <1>3 DEF Block
<1> QED BY <1>2, <1>3

\* One more block of the content.
LEMMA EncryptStep ==
  ASSUME NEW n \in Nat, Encrypting(n), call.content \in Nat, pos < call.content,
         UNCHANGED call, iv' = Cipher(iv, Block(pos)), pos' = pos + AES_BLOCK_SIZE,
         out' = Append(out, Cipher(iv, Block(pos)))
  PROVE  Encrypting(n + 1)'
<1> DEFINE c == Cipher(iv, Block(pos))
<1>1. /\ IsList(out', n + 1) /\ out'[n + 1] = c
      /\ \A i \in 1..n : out'[i] = out[i]
  BY AppendToList DEF Encrypting
<1>2. pos' = (n + 1) * AES_BLOCK_SIZE /\ pos' < call.content + AES_BLOCK_SIZE
  BY NextBlock, Sizes DEF Encrypting
<1>3. \A p : Block(p)' = Block(p)
  BY DEF Block
<1>4. ASSUME NEW i \in 1..n + 1
      PROVE  out'[i] = Cipher(VectorAfter(out', i - 1), Block((i - 1) * AES_BLOCK_SIZE)')
  <2>1. CASE i \in 1..n
    <3>1. out'[i] = Cipher(VectorAfter(out, i - 1), Block((i - 1) * AES_BLOCK_SIZE))
      BY <1>1, <2>1 DEF Encrypting, Chained
    <3>2. i - 1 = 0 \/ i - 1 \in 1..n
      BY <2>1
    <3>3. VectorAfter(out', i - 1) = VectorAfter(out, i - 1)
      BY <1>1, <3>2 DEF VectorAfter
    <3> QED BY <1>3, <3>1, <3>3
  <2>2. CASE i = n + 1
    <3>1. i - 1 = n
      BY <2>2
    <3>2. VectorAfter(out', n) = VectorAfter(out, n)
      <4>1. n = 0 \/ n \in 1..n
        OBVIOUS
      <4> QED BY <1>1, <4>1 DEF VectorAfter
    <3>3. out'[n + 1] = Cipher(VectorAfter(out, n), Block(n * AES_BLOCK_SIZE))
      BY <1>1 DEF Encrypting
    <3> QED BY <1>3, <2>2, <3>1, <3>2, <3>3
  <2>3. i \in 1..n \/ i = n + 1
    OBVIOUS
  <2> QED BY <2>1, <2>2, <2>3, Zenon
<1>5. iv' = VectorAfter(out', n + 1)
  BY <1>1 DEF VectorAfter
<1>6. Chained(out, n + 1)'
  BY <1>4, Zenon DEF Chained
<1> QED BY <1>1, <1>2, <1>5, <1>6 DEF Encrypting

\* The last block was encrypted.
LEMMA EncryptEnds ==
  ASSUME NEW n \in Nat, Encrypting(n), call.content \in Nat, pos >= call.content,
         UNCHANGED call, pos' = 0, made' = out, out' = <<>>, iv' = <<>>
  PROVE  Decrypting(n)'
<1>1. IsList(made', n) /\ Chained(made, n)'
  BY DEF Encrypting, Chained, Block, VectorAfter
<1>2. n * AES_BLOCK_SIZE \in call'.content..call'.content + AES_BLOCK_SIZE - 1
  BY NextBlock, Sizes DEF Encrypting
<1>3. pos' \in 0..n /\ iv' = VectorAfter(made', pos')
  BY DEF VectorAfter
<1>4. out' \in Seq(Nat) /\ Len(out') = 0 /\ pos' * AES_BLOCK_SIZE = 0
  BY Sizes
<1> QED BY <1>1, <1>2, <1>3, <1>4 DEF Decrypting, Covers

\* One more block of the cipher.
LEMMA DecryptStep ==
  ASSUME NEW n \in Nat, Decrypting(n), call.content \in Nat, pos < n,
         UNCHANGED <<call, made>>, iv' = made[pos + 1], pos' = pos + 1,
         out' = out \o (IF made[pos + 1].iv = iv THEN made[pos + 1].plain ELSE Garbled)
  PROVE  Decrypting(n)'
<1> DEFINE p == pos * AES_BLOCK_SIZE
<1>1. pos \in Nat /\ pos + 1 \in 1..n
  BY DEF Decrypting
<1>2. made[pos + 1] = Cipher(iv, Block(p))
  <2>1. made[pos + 1] = Cipher(VectorAfter(made, (pos + 1) - 1), Block(((pos + 1) - 1) * AES_BLOCK_SIZE))
    BY <1>1 DEF Decrypting, Chained
  <2>2. (pos + 1) - 1 = pos
    BY <1>1
  <2> QED BY <2>1, <2>2 DEF Decrypting
<1>3. out' = out \o Block(p)
  BY <1>2 DEF Cipher
<1>4. p \in Nat /\ (pos + 1) * AES_BLOCK_SIZE = p + AES_BLOCK_SIZE
  BY <1>1, Sizes, NextBlock
<1>5. out \in Seq(Nat) /\ Len(out) = p /\ \A i \in 1..p : i <= call.content => out[i] = i
  BY DEF Decrypting
<1> HIDE DEF p
<1>6. /\ Block(p) \in Seq(Nat) /\ Len(Block(p)) = AES_BLOCK_SIZE
      /\ \A j \in 1..AES_BLOCK_SIZE : p + j <= call.content => Block(p)[j] = p + j
  BY <1>4, BlockIs
<1>7. /\ out' \in Seq(Nat) /\ Len(out') = p + AES_BLOCK_SIZE
      /\ \A i \in 1..p : out'[i] = out[i]
      /\ \A j \in 1..AES_BLOCK_SIZE : out'[p + j] = Block(p)[j]
  <2>1. /\ out \o Block(p) \in Seq(Nat) /\ Len(out \o Block(p)) = Len(out) + Len(Block(p))
        /\ \A i \in 1..Len(out) : (out \o Block(p))[i] = out[i]
        /\ \A j \in 1..Len(Block(p)) : (out \o Block(p))[Len(out) + j] = Block(p)[j]
    BY <1>5, <1>6, Joined
  <2>2. Len(out) = p /\ Len(Block(p)) = AES_BLOCK_SIZE
    BY <1>5, <1>6
  <2> QED BY <1>3, <2>1, <2>2
<1>8. ASSUME NEW i \in 1..Len(out'), i <= call.content PROVE out'[i] = i
  <2>1. CASE i <= p
    BY <1>4, <1>5, <1>7, <1>8, <2>1, Sizes
  <2>2. CASE i > p
    <3>1. i - p \in 1..AES_BLOCK_SIZE /\ p + (i - p) = i
      BY <1>4, <1>7, <2>2, Sizes
    <3>2. out'[i] = Block(p)[i - p]
      BY <1>7, <3>1
    <3> QED BY <1>6, <1>8, <3>1, <3>2
  <2> QED BY <1>4, <1>7, <2>1, <2>2, Sizes
<1>9. IsList(made', n) /\ Chained(made, n)' /\ Covers(n)'
  BY DEF Decrypting, Chained, Covers, Block, VectorAfter
<1>10. pos' \in 0..n /\ iv' = VectorAfter(made', pos')
  BY <1>1 DEF VectorAfter
<1> QED BY <1>4, <1>7, <1>8, <1>9, <1>10 DEF Decrypting

\* What is decrypted begins with the content that was encrypted, and what
\* follows is shorter than a block (symmetric_encryption.h), for any size of a
\* block and any length.
THEOREM ContentComesBack == Spec => []ContentDecrypted
<1>1. Init => AesInv
  <2> SUFFICES ASSUME Init, call.op = "AES"
               PROVE  pc = "GetEncryptData" /\ Encrypting(0)
    BY DEF AesInv
  <2>1. pc = "GetEncryptData" /\ pos = 0 /\ iv = <<>> /\ out = <<>> /\ call.content \in Nat
    BY CallOps DEF Init, Entry
  <2>2. IsList(<<>>, 0) /\ Chained(<<>>, 0)
    BY DEF IsList, Chained
  <2>3. 0 * AES_BLOCK_SIZE = 0 /\ 0 < call.content + AES_BLOCK_SIZE
    BY <2>1, Sizes
  <2> QED BY <2>1, <2>2, <2>3 DEF Encrypting, VectorAfter
<1>2. RunsItsOwn /\ AesInv /\ [Next]_vars => AesInv'
  <2> SUFFICES ASSUME RunsItsOwn, AesInv, [Next]_vars, call'.op = "AES"
               PROVE  AesInv'
    BY DEF AesInv
  <2>1. call' = call
    BY StepOf
  <2>2. call.op = "AES" /\ call.content \in Nat
    BY <2>1, CallOps DEF RunsItsOwn
  <2>3. CASE UNCHANGED vars
    BY <2>3 DEF AesInv, Encrypting, Decrypting, Chained, Covers, Block, VectorAfter, vars
  <2>4. CASE GetEncryptData
    <3>1. PICK n \in Nat : Encrypting(n)
      BY <2>2, <2>4 DEF AesInv, GetEncryptData
    <3>2. pos \in Nat
      BY <3>1, NextBlock, Sizes DEF Encrypting
    <3>3. CASE TooLong(call.key)
      BY <2>4, <3>3 DEF GetEncryptData, AesInv
    <3>4. CASE ~TooLong(call.key) /\ pos < call.content
      <4>1. Encrypting(n + 1)'
        BY <2>2, <2>4, <3>1, <3>4, EncryptStep DEF GetEncryptData, Loop
      <4>2. pc' = "GetEncryptData"
        BY <2>4, <3>4 DEF GetEncryptData, Loop
      <4> QED BY <4>1, <4>2 DEF AesInv
    <3>5. CASE ~TooLong(call.key) /\ ~(pos < call.content)
      <4>1. pos >= call.content
        BY <2>2, <3>2, <3>5
      <4>2. Decrypting(n)'
        BY <2>2, <2>4, <3>1, <3>5, <4>1, EncryptEnds DEF GetEncryptData, Then
      <4>3. pc' = "GetDecryptData"
        BY <2>4, <3>5 DEF GetEncryptData, Then
      <4> QED BY <4>2, <4>3 DEF AesInv
    <3> QED BY <3>3, <3>4, <3>5
  <2>5. CASE GetDecryptData
    <3>1. PICK n \in Nat : Decrypting(n)
      BY <2>2, <2>5 DEF AesInv, GetDecryptData
    <3>2. Len(made) = n
      BY <3>1, AppendToList DEF Decrypting
    <3>3. CASE pos < n
      <4>1. Decrypting(n)'
        BY <2>2, <2>5, <3>1, <3>2, <3>3, DecryptStep DEF GetDecryptData, Loop, NextVector
      <4>2. pc' = "GetDecryptData"
        BY <2>5, <3>2, <3>3 DEF GetDecryptData, Loop
      <4> QED BY <4>1, <4>2 DEF AesInv
    <3>4. CASE ~(pos < n)
      <4>1. pos = n
        BY <3>1, <3>4 DEF Decrypting
      <4>2. UNCHANGED <<call, pos, iv, made, out>> /\ pc' = "returned"
        BY <2>5, <3>2, <3>4 DEF GetDecryptData, Return
      <4>3. Decrypting(n)' /\ pos' = n
        BY <3>1, <4>1, <4>2 DEF Decrypting, Chained, Covers, Block, VectorAfter
      <4> QED BY <4>2, <4>3 DEF AesInv
    <3> QED BY <3>3, <3>4
  <2>6. GetEncryptData \/ GetDecryptData \/ UNCHANGED vars
    BY <2>1, StepOf
  <2> QED BY <2>3, <2>4, <2>5, <2>6
<1>3. RunsItsOwn /\ AesInv => ContentDecrypted
  <2> SUFFICES ASSUME RunsItsOwn, AesInv, Returned("AES")
               PROVE  /\ Len(out) \in call.content..call.content + AES_BLOCK_SIZE - 1
                      /\ \A i \in 1..call.content : out[i] = i
    BY DEF ContentDecrypted
  <2>1. call.content \in Nat
    BY CallOps DEF RunsItsOwn, Returned
  <2>2. PICK n \in Nat : Decrypting(n) /\ pos = n
    BY DEF AesInv, Returned
  <2>3. Len(out) \in call.content..call.content + AES_BLOCK_SIZE - 1
    BY <2>2 DEF Decrypting, Covers
  <2> QED BY <2>1, <2>2, <2>3, Sizes DEF Decrypting
<1> QED BY <1>1, <1>2, <1>3, RunsAlways, PTL DEF Spec
-----------------------------------------------------------------------------
(* RsaPubDecrypt *)

LEMMA CipherIsSeq ==
  ASSUME NEW c \in Calls, c.op = "RsaPubDecrypt"
  PROVE  c.cipher \in Seq(BOOLEAN) /\ c.valid \in BOOLEAN
<1>1. c.cipher \in Texts(BOOLEAN, MaxText) /\ c.valid \in BOOLEAN
  BY DEF Calls
<1> QED BY <1>1, TextIsSeq, BoundsAssumption

LEMMA UptoNext ==
  ASSUME NEW p \in Nat
  PROVE  Append(Upto(p), p + 1) = Upto(p + 1)
BY DEF Upto

\* The blocks up to pos are decrypted, none of them left out.
CipherInv ==
  call.op = "RsaPubDecrypt" =>
    /\ pc = "RsaPubDecrypt" =>
         /\ pos \in 0..Len(call.cipher) /\ out = Upto(pos)
         /\ ~call.valid => pos = 0
    /\ pc = "returned" => out = IF call.valid THEN Upto(Len(call.cipher)) ELSE <<>>

\* A text is returned whole or not at all (license_parse.h), however many blocks
\* it has and whichever of them can be decrypted.
THEOREM WholeText == Spec => []CipherDecrypted
<1>0. Upto(0) = <<>>
  BY DEF Upto
<1>1. Init => CipherInv
  <2> SUFFICES ASSUME Init, call.op = "RsaPubDecrypt" PROVE CipherInv
    BY DEF CipherInv
  <2>1. call.cipher \in Seq(BOOLEAN) /\ pos = 0 /\ out = <<>> /\ pc # "returned"
    BY CipherIsSeq DEF Init, Entry
  <2> QED BY <1>0, <2>1 DEF CipherInv
<1>2. RunsItsOwn /\ CipherInv /\ [Next]_vars => CipherInv'
  <2> SUFFICES ASSUME RunsItsOwn, CipherInv, [Next]_vars, call'.op = "RsaPubDecrypt"
               PROVE  CipherInv'
    BY DEF CipherInv
  <2>1. call' = call
    BY StepOf
  <2>2. call.op = "RsaPubDecrypt" /\ call.cipher \in Seq(BOOLEAN) /\ call.valid \in BOOLEAN
    BY <2>1, CipherIsSeq DEF RunsItsOwn
  <2>3. CASE UNCHANGED vars
    BY <2>3 DEF CipherInv, vars
  <2>4. CASE FormatPubKey
    <3>1. pc' = "FormatPubKey" \/ (pc' = "RsaPubDecrypt" /\ pos' = 0 /\ out' = <<>>)
      BY <2>4 DEF FormatPubKey, Loop, Then
    <3> QED BY <1>0, <2>1, <2>2, <3>1 DEF CipherInv
  <2>5. CASE RsaPubDecrypt
    <3>1. pos \in 0..Len(call.cipher) /\ out = Upto(pos) /\ (~call.valid => pos = 0)
      BY <2>2, <2>5 DEF CipherInv, RsaPubDecrypt
    <3>2. CASE call.valid /\ pos < Len(call.cipher)
      <4>1. pc' = "RsaPubDecrypt" /\ pos' = pos + 1 /\ out' = Append(out, pos + 1)
        BY <2>5, <3>2 DEF RsaPubDecrypt, Decrypts, Loop
      <4>2. pos' \in 0..Len(call.cipher) /\ out' = Upto(pos')
        <5>1. pos \in Nat /\ Len(call.cipher) \in Nat
          BY <2>2, <3>1
        <5>2. Append(Upto(pos), pos + 1) = Upto(pos + 1)
          BY <5>1, UptoNext
        <5>3. out' = Upto(pos')
          BY <3>1, <4>1, <5>2
        <5> QED BY <3>1, <3>2, <4>1, <5>1, <5>3
      <4>3. ~call'.valid => pos' = 0
        BY <2>1, <3>2
      <4>4. pos' \in 0..Len(call'.cipher)
        BY <2>1, <4>2
      <4>5. pc' # "returned"
        BY <4>1
      <4> QED BY <4>2, <4>3, <4>4, <4>5, Zenon DEF CipherInv
    <3>3. CASE ~(call.valid /\ pos < Len(call.cipher))
      <4>1. pc' = "returned" /\ out' = out
        BY <2>5, <3>3 DEF RsaPubDecrypt, Return
      <4>2. out = IF call.valid THEN Upto(Len(call.cipher)) ELSE <<>>
        <5>1. CASE call.valid
          <6>1. pos = Len(call.cipher)
            BY <2>2, <3>1, <3>3, <5>1
          <6> QED BY <3>1, <5>1, <6>1
        <5>2. CASE ~call.valid
          BY <1>0, <3>1, <5>2
        <5> QED BY <5>1, <5>2
      <4> QED BY <2>1, <4>1, <4>2 DEF CipherInv
    <3> QED BY <3>2, <3>3
  <2>6. FormatPubKey \/ RsaPubDecrypt \/ UNCHANGED vars
    BY <2>1, StepOf
  <2> QED BY <2>3, <2>4, <2>5, <2>6
<1>3. RunsItsOwn /\ CipherInv => CipherDecrypted
  <2> SUFFICES ASSUME RunsItsOwn, CipherInv, Returned("RsaPubDecrypt")
               PROVE  out = IF call.valid THEN [i \in DOMAIN call.cipher |-> i] ELSE <<>>
    BY DEF CipherDecrypted
  <2>1. call.cipher \in Seq(BOOLEAN)
    BY CipherIsSeq DEF RunsItsOwn, Returned
  <2> QED BY <2>1 DEF CipherInv, Returned, Upto
<1> QED BY <1>1, <1>2, <1>3, RunsAlways, PTL DEF Spec

-----------------------------------------------------------------------------
(* FormatPubKey *)

\* Induction: a set that has 0, and with a number the next, has every number.
Less == {ss \in Nat \X Nat : ss[1] < ss[2]}
LEMMA SetInduction ==
  ASSUME NEW S, 0 \in S, \A n \in Nat : n \in S => n + 1 \in S
  PROVE  Nat \subseteq S
<1> DEFINE T == {n \in Nat : n \notin S}
<1>1. SUFFICES ASSUME T # {} PROVE FALSE
  OBVIOUS
<1>2. \E x \in T : \A y \in T : <<y, x>> \notin Less
  <2>1. T \subseteq Nat
    OBVIOUS
  <2>2. IsWellFoundedOn(Less, Nat)
    BY NatLessThanWellFounded DEF OpToRel, Less
  <2> HIDE DEF T
  <2> QED BY <1>1, <2>1, <2>2, WFMin
<1>3. PICK x \in T : \A y \in T : <<y, x>> \notin Less
  BY <1>2
<1>4. x # 0 /\ x \in Nat /\ x - 1 \in Nat
  OBVIOUS
<1>5. x - 1 \notin S
  BY <1>4
<1>6. <<x - 1, x>> \in Less
  BY <1>4 DEF Less
<1> QED BY <1>3, <1>4, <1>5, <1>6

\* What FlattenSeq computes of n sequences, by what it is after each of them.
LEMMA FlattenIs ==
  ASSUME NEW s, NEW n \in Nat \ {0}, Len(s) = n,
         NEW g, IsList(g, n),
         g[1] = s[1], \A i \in 1..n - 1 : g[i + 1] = g[i] \o s[i + 1]
  PROVE  FlattenSeq(s) = g[n]
<1> DEFINE Eq(f) == f = [i \in 1..n |-> IF i = 1 THEN s[i] ELSE f[i - 1] \o s[i]]
           flatten == CHOOSE f : Eq(f)
<1>1. FlattenSeq(s) = flatten[n]
  BY DEF FlattenSeq
<1>2. Eq(g)
  <2>1. ASSUME NEW i \in 1..n PROVE g[i] = IF i = 1 THEN s[i] ELSE g[i - 1] \o s[i]
    <3>1. CASE i = 1
      BY <3>1
    <3>2. CASE i # 1
      <4>1. i - 1 \in 1..n - 1 /\ (i - 1) + 1 = i
        BY <3>2
      <4> QED BY <3>2, <4>1
    <3> QED BY <3>1, <3>2
  <2>2. g = [i \in 1..n |-> g[i]]
    BY DEF IsList
  <2> QED BY <2>1, <2>2
<1>3. Eq(flatten)
  <2> HIDE DEF Eq
  <2> QED BY <1>2
<1> HIDE DEF flatten
<1> DEFINE S == {k \in Nat : k \in 1..n => flatten[k] = g[k]}
<1>4. 0 \in S
  OBVIOUS
<1>5. ASSUME NEW k \in Nat, k \in S PROVE k + 1 \in S
  <2> SUFFICES ASSUME k + 1 \in 1..n PROVE flatten[k + 1] = g[k + 1]
    OBVIOUS
  <2>1. CASE k = 0
    BY <1>2, <1>3, <2>1
  <2>2. CASE k # 0
    <3>1. k \in 1..n - 1 /\ k + 1 # 1 /\ (k + 1) - 1 = k /\ k \in 1..n
      BY <2>2
    <3>2. flatten[k + 1] = flatten[k] \o s[k + 1]
      BY <1>3, <3>1
    <3> QED BY <1>5, <3>1, <3>2
  <2> QED BY <2>1, <2>2
<1>6. n \in S
  <2> HIDE DEF S
  <2> QED BY <1>4, <1>5, SetInduction
<1> QED BY <1>1, <1>6

\* The n lines of s are the pieces of the key one after the other, each beginning within it.
Lines(s, n) ==
  /\ IsList(s, n)
  /\ \A i \in 1..n : s[i] = Line((i - 1) * RSA_KEYSUB_LEN) /\ (i - 1) * RSA_KEYSUB_LEN < call.key
LinesInv ==
  call.op = "RsaPubDecrypt" /\ ~call.header =>
    /\ pc = "FormatPubKey" => \E n \in Nat : Lines(out, n) /\ pos = n * RSA_KEYSUB_LEN
    /\ pc # "FormatPubKey" => \E n \in Nat : Lines(made, n) /\ n * RSA_KEYSUB_LEN >= call.key

LEMMA KeyIsNat ==
  ASSUME NEW c \in Calls, c.op = "RsaPubDecrypt"
  PROVE  c.key \in Nat
BY DEF Calls

LEMMA LineSize == RSA_KEYSUB_LEN \in Nat \ {0}
BY SizesAssumption

LEMMA LinesHold == Spec => []LinesInv
<1>1. Init => LinesInv
  <2> SUFFICES ASSUME Init, call.op = "RsaPubDecrypt", ~call.header PROVE LinesInv
    BY DEF LinesInv
  <2>1. pc = "FormatPubKey" /\ pos = 0 /\ out = <<>>
    BY DEF Init, Entry
  <2>2. Lines(<<>>, 0) /\ 0 * RSA_KEYSUB_LEN = 0
    BY LineSize DEF Lines, IsList
  <2> QED BY <2>1, <2>2 DEF LinesInv
<1>2. RunsItsOwn /\ LinesInv /\ [Next]_vars => LinesInv'
  <2> SUFFICES ASSUME RunsItsOwn, LinesInv, [Next]_vars, call'.op = "RsaPubDecrypt", ~call'.header
               PROVE  LinesInv'
    BY DEF LinesInv
  <2>1. call' = call /\ (FormatPubKey \/ RsaPubDecrypt \/ UNCHANGED vars)
    BY StepOf
  <2>2. call.op = "RsaPubDecrypt" /\ ~call.header /\ call.key \in Nat
    BY <2>1, KeyIsNat DEF RunsItsOwn
  <2>3. \A p : Line(p)' = Line(p)
    BY <2>1 DEF Line
  <2>4. ASSUME NEW n \in Nat, Lines(out, n), out' = out PROVE Lines(out, n)'
    BY <2>1, <2>4 DEF Lines, Line
  <2>5. ASSUME NEW n \in Nat, Lines(made, n), made' = made PROVE Lines(made, n)'
    BY <2>1, <2>5 DEF Lines, Line
  <2>6. CASE UNCHANGED vars
    BY <2>1, <2>2, <2>4, <2>5, <2>6 DEF LinesInv, vars
  <2>7. CASE RsaPubDecrypt
    BY <2>1, <2>2, <2>5, <2>7 DEF LinesInv, RsaPubDecrypt, Loop, Return
  <2>8. CASE FormatPubKey
    <3>1. PICK n \in Nat : Lines(out, n) /\ pos = n * RSA_KEYSUB_LEN
      BY <2>2, <2>8 DEF LinesInv, FormatPubKey
    <3>2. CASE pos < call.key
      <4>1. out' = Append(out, Line(pos)) /\ pos' = pos + RSA_KEYSUB_LEN /\ pc' = "FormatPubKey"
        BY <2>8, <3>2 DEF FormatPubKey, Loop
      <4>2. /\ IsList(out', n + 1) /\ out'[n + 1] = Line(pos)
            /\ \A i \in 1..n : out'[i] = out[i]
        BY <3>1, <4>1, AppendToList DEF Lines
      <4>3. pos' = (n + 1) * RSA_KEYSUB_LEN
        BY <3>1, <4>1, NextBlock, LineSize
      <4>4. ASSUME NEW i \in 1..n + 1
            PROVE  out'[i] = Line((i - 1) * RSA_KEYSUB_LEN) /\ (i - 1) * RSA_KEYSUB_LEN < call.key
        <5>1. CASE i \in 1..n
          BY <3>1, <4>2, <5>1 DEF Lines
        <5>2. CASE i = n + 1
          <6>1. i - 1 = n
            BY <5>2
          <6> QED BY <3>1, <3>2, <4>2, <5>2, <6>1
        <5>3. i \in 1..n \/ i = n + 1
          OBVIOUS
        <5> QED BY <5>1, <5>2, <5>3
      <4>5. Lines(out, n + 1)'
        BY <2>1, <2>3, <4>2, <4>4 DEF Lines
      <4> QED BY <4>1, <4>3, <4>5 DEF LinesInv
    <3>3. CASE ~(pos < call.key)
      <4>1. made' = out /\ pc' = "RsaPubDecrypt"
        BY <2>8, <3>3 DEF FormatPubKey, Then
      <4>2. Lines(made, n)'
        BY <2>1, <2>3, <3>1, <4>1 DEF Lines
      <4>3. n * RSA_KEYSUB_LEN >= call.key
        BY <2>2, <3>1, <3>3, LineSize, NextBlock
      <4> QED BY <2>1, <4>1, <4>2, <4>3 DEF LinesInv
    <3> QED BY <3>2, <3>3
  <2> QED BY <2>1, <2>6, <2>7, <2>8
<1> QED BY <1>1, <1>2, RunsAlways, PTL DEF Spec

LEMMA PieceIs ==
  ASSUME NEW p \in Nat, NEW n \in Nat \ {0}, NEW length \in Nat, p < length
  PROVE  /\ Len(Piece(p, n, length)) = Least(n, length - p) /\ Least(n, length - p) \in 1..n
         /\ p + n <= length => Least(n, length - p) = n
<1>1. Least(n, length - p) \in 1..n /\ (p + n <= length => Least(n, length - p) = n)
  BY DEF Least
<1> QED BY <1>1 DEF Piece

\* The lines of a key, one after the other, are the key.
LEMMA FlatLines ==
  ASSUME call.key \in Nat, NEW s, NEW n \in Nat, Lines(s, n), n * RSA_KEYSUB_LEN >= call.key
  PROVE  FlattenSeq(s) = Upto(call.key)
<1> DEFINE W == RSA_KEYSUB_LEN
           key == call.key
           end(i) == Least(i * W, key)
           g == [i \in 1..n |-> Upto(end(i))]
<1>1. W \in Nat \ {0} /\ key \in Nat
  BY LineSize
<1>2. Len(s) = n
  BY DEF Lines, IsList
<1>3. CASE n = 0
  <2>1. key = 0 /\ s = <<>>
    BY <1>1, <1>3 DEF Lines, IsList
  <2>2. Upto(0) = <<>>
    BY DEF Upto
  <2>3. FlattenSeq(<<>>) = <<>>
    BY DEF FlattenSeq
  <2> QED BY <2>1, <2>2, <2>3
<1>4. CASE n # 0
  \* What is before line i + 1, and what is after it.
  <2>1. ASSUME NEW i \in 0..n - 1
        PROVE  Upto(i * W) \o s[i + 1] = Upto(end(i + 1)) /\ end(i) = i * W
    <3> DEFINE p == i * W
    <3>1. i + 1 \in 1..n /\ (i + 1) - 1 = i /\ i \in Nat
      OBVIOUS
    <3>2. s[i + 1] = Piece(p, W, key) /\ p < key
      BY <3>1 DEF Lines, Line
    <3>3. p \in Nat /\ (i + 1) * W = p + W
      BY <1>1, <3>1, NextBlock
    <3> HIDE DEF p
    <3>4. Upto(p) \o Piece(p, W, key) = Upto(p + Least(W, key - p))
      <4>1. p <= key /\ W \in Nat /\ key \in Nat
        BY <1>1, <3>2, <3>3
      <4> QED BY <3>3, <4>1, UptoPiece
    <3>5. p + Least(W, key - p) = Least(p + W, key)
      BY <1>1, <3>2, <3>3 DEF Least
    <3>6. Least(p, key) = p
      BY <1>1, <3>2, <3>3 DEF Least
    <3> QED BY <3>2, <3>3, <3>4, <3>5, <3>6 DEF p
  <2>2. IsList(g, n)
    BY DEF IsList
  <2>3. g[1] = s[1]
    <3>0. PICK i \in 0..n - 1 : i = 0
      BY <1>4
    <3>1. Upto(i * W) \o s[i + 1] = Upto(end(i + 1)) /\ i + 1 = 1
      <4>1. Upto(i * W) \o s[i + 1] = Upto(end(i + 1))
        BY <2>1, Zenon
      <4>2. i + 1 = 1
        BY <3>0
      <4> QED BY <4>1, <4>2, Zenon
    <3>2. i * W = 0 /\ (i + 1 - 1) * W = 0 /\ Upto(0) = <<>>
      BY <1>1, <3>0 DEF Upto
    <3>3. s[1] = Line(0) /\ 0 < key
      <4>1. i + 1 \in 1..n
        OBVIOUS
      <4> QED BY <3>1, <3>2, <4>1 DEF Lines
    <3>4. s[1] \in Seq(Nat)
      <4>1. Least(W, key - 0) \in Nat
        BY <1>1 DEF Least
      <4> QED BY <3>3, <4>1 DEF Line, Piece
    <3>5. <<>> \o s[1] = s[1]
      BY <3>4
    <3>6. s[1] = Upto(end(1))
      BY <3>1, <3>2, <3>5
    <3>7. 1 \in 1..n
      BY <1>4
    <3> QED BY <3>6, <3>7
  <2>4. ASSUME NEW i \in 1..n - 1 PROVE g[i + 1] = g[i] \o s[i + 1]
    <3>1. i \in 0..n - 1 /\ i \in 1..n /\ i + 1 \in 1..n
      OBVIOUS
    <3> QED BY <2>1, <3>1
  <2>5. FlattenSeq(s) = g[n]
    <3>1. n \in Nat \ {0}
      BY <1>4
    <3> HIDE DEF g
    <3> QED BY <1>2, <3>1, <2>2, <2>3, <2>4, FlattenIs
  <2>6. n * W \in Nat /\ n * W >= key
    BY <1>1, NextBlock
  <2>7. end(n) = key
    BY <1>1, <2>6 DEF Least
  <2> QED BY <1>4, <2>5, <2>7
<1> QED BY <1>3, <1>4

\* The lines between the markers of a key (license_parse.h) are full but for the
\* last, and together are the key, for any length of a line and of a key.
THEOREM KeyIsWhole == Spec => []KeyInLines
<1>1. RunsItsOwn /\ LinesInv => KeyInLines
  <2> SUFFICES ASSUME RunsItsOwn, LinesInv, call.op = "RsaPubDecrypt", ~call.header,
                      pc \in {"RsaPubDecrypt", "returned"}
               PROVE  /\ FlattenSeq(made) = [i \in 1..call.key |-> i]
                      /\ \A i \in 1..Len(made) - 1 : Len(made[i]) = RSA_KEYSUB_LEN
                      /\ \A i \in DOMAIN made : Len(made[i]) \in 1..RSA_KEYSUB_LEN
    BY DEF KeyInLines
  <2>1. PICK n \in Nat : Lines(made, n) /\ n * RSA_KEYSUB_LEN >= call.key
    BY DEF LinesInv
  <2>2. call.key \in Nat
    BY KeyIsNat DEF RunsItsOwn
  <2>3. Len(made) = n /\ DOMAIN made = 1..n
    BY <2>1 DEF Lines, IsList
  <2>4. FlattenSeq(made) = [i \in 1..call.key |-> i]
    BY <2>1, <2>2, FlatLines DEF Upto
  <2>5. ASSUME NEW i \in 1..n
        PROVE  /\ Len(made[i]) \in 1..RSA_KEYSUB_LEN
               /\ i < n => Len(made[i]) = RSA_KEYSUB_LEN
    <3> DEFINE p == (i - 1) * RSA_KEYSUB_LEN
    <3>1. made[i] = Piece(p, RSA_KEYSUB_LEN, call.key) /\ p < call.key
      BY <2>1 DEF Lines, Line
    <3>2. i - 1 \in Nat /\ (i - 1) + 1 = i
      OBVIOUS
    <3>3. p \in Nat /\ i * RSA_KEYSUB_LEN = p + RSA_KEYSUB_LEN
      BY <3>2, LineSize, NextBlock
    <3>4. i < n => i * RSA_KEYSUB_LEN < call.key
      <4>1. i < n => i + 1 \in 1..n /\ (i + 1) - 1 = i
        OBVIOUS
      <4> QED BY <2>1, <4>1 DEF Lines
    <3> HIDE DEF p
    <3>5. i < n => p + RSA_KEYSUB_LEN <= call.key
      BY <2>2, <3>3, <3>4, LineSize
    <3> QED BY <2>2, <3>1, <3>3, <3>5, LineSize, PieceIs
  <2>6. ASSUME NEW i \in 1..Len(made) - 1 PROVE Len(made[i]) = RSA_KEYSUB_LEN
    <3>1. i \in 1..n /\ i < n
      BY <2>3
    <3> QED BY <2>5, <3>1
  <2> QED BY <2>3, <2>4, <2>5, <2>6
<1> QED BY <1>1, RunsAlways, LinesHold, PTL

-----------------------------------------------------------------------------
(* Types. *)

ChunkType == call.op = "getFileChunkStructs" => out \in Seq(Chunk)
LEMMA ChunksHaveTheirType == Spec => []ChunkType
<1>1. Init => ChunkType
  BY DEF Init, ChunkType
<1>2. RunsItsOwn /\ PosType /\ ChunkType /\ [Next]_vars => ChunkType'
  <2> SUFFICES ASSUME RunsItsOwn, pos \in Nat, ChunkType, [Next]_vars, call'.op = "getFileChunkStructs"
               PROVE  out' \in Seq(Chunk)
    BY DEF ChunkType, PosType
  <2>1. call' = call /\ (getFileChunkStructs \/ UNCHANGED vars)
    BY StepOf
  <2>2. out \in Seq(Chunk) /\ call.file \in Nat /\ chunkSize \in Nat /\ Word \in Nat \ {0}
    BY <2>1, CallOps, SizeOfChunk, SizesAssumption DEF ChunkType, RunsItsOwn
  <2>3. CASE getFileChunkStructs /\ call.opens /\ pos < fileSize
    <3> DEFINE e == [startPos |-> pos, endPos |-> EndPos(pos)]
    <3>1. fileSize \in 0..Word - 1
      BY <2>2 DEF fileSize
    <3>2. EndPos(pos) \in 0..Word - 1
      <4>1. pos + chunkSize \in Nat
        BY <2>2
      <4> HIDE DEF e
      <4> QED BY <2>2, <4>1 DEF EndPos
    <3>3. e \in Chunk
      <4>1. pos \in 0..Word - 1
        BY <2>2, <2>3, <3>1 DEF PosType
      <4> QED BY <3>2, <4>1 DEF Chunk
    <3>4. out' = Append(out, e)
      BY <2>3 DEF getFileChunkStructs, Loop, Remains
    <3> HIDE DEF e
    <3> QED BY <2>2, <3>3, <3>4, AppendChunk
  <2>4. CASE ~(getFileChunkStructs /\ call.opens /\ pos < fileSize)
    BY <2>1, <2>2, <2>4 DEF getFileChunkStructs, Return, Remains, vars
  <2> QED BY <2>3, <2>4
<1> QED BY <1>1, <1>2, RunsAlways, PositionsAreNat, PTL DEF Spec

\* Every variable keeps its type: what base64 makes are digits and bytes, what is
\* hashed are bytes of the file and not what is behind it in the buffer
\* (hash_create.h), and the positions of a chunk fit a uint32_t.
THEOREM UtilitiesTypeCorrect == Spec => []TypeOK
<1>1. RunsItsOwn /\ Base64Inv /\ HashInv /\ ChunkType /\ PosType => TypeOK
  <2> SUFFICES ASSUME RunsItsOwn, Base64Inv, HashInv, ChunkType, PosType PROVE TypeOK
    OBVIOUS
  <2>1. call \in Calls /\ pc \in Functions_ \cup {"returned", "thrown"}
    <3>1. call.op \in {"base64", "RsaPubDecrypt", "AES", "getFileChunkStructs", "get_sha256Hex_File"}
      BY CallOps DEF RunsItsOwn
    <3> QED BY <3>1 DEF RunsItsOwn, Functions_
  <2>2. ASSUME call.op = "base64"
        PROVE  made \in Seq(Digit \cup {Pad}) /\ out \in Seq(Byte)
    <3>1. call.str \in Seq(Byte)
      BY <2>2, StringIsSeq
    <3>2. base64_encode(call.str) \in Seq(Digit \cup {Pad})
      BY <3>1, EncodedType
    <3>3. base64_decode(base64_encode(call.str)) = call.str
      BY <3>1, DecodesBack
    <3>4. <<>> \in Seq(Digit \cup {Pad}) /\ <<>> \in Seq(Byte)
      OBVIOUS
    <3>5. made = <<>> \/ made = base64_encode(call.str)
      BY <2>2 DEF Base64Inv
    <3>6. out = <<>> \/ out = base64_decode(base64_encode(call.str))
      BY <2>2 DEF Base64Inv
    <3> QED BY <3>1, <3>2, <3>3, <3>4, <3>5, <3>6, Zenon
  <2>3. ASSUME call.op = "get_sha256Hex_File"
        PROVE  out \in Seq(1..call.file)
    <3>1. pos \in 0..call.file /\ out = Upto(pos) /\ call.file \in Nat
      BY <2>3, CallOps DEF HashInv, RunsItsOwn
    <3>2. Upto(pos) \in [1..pos -> 1..call.file]
      BY <3>1 DEF Upto
    <3> QED BY <3>1, <3>2
  <2> QED BY <2>1, <2>2, <2>3 DEF TypeOK, ChunkType, PosType
<1> QED BY <1>1, RunsAlways, Base64Holds, HashHolds, ChunksHaveTheirType, PositionsAreNat, PTL

-----------------------------------------------------------------------------
(* The loops end. *)

\* A position below the end of the file that is a multiple of the chunk size, and
\* the next one, if none needs more than a position can hold.
LEMMA NoWrap ==
  ASSUME NEW n \in Nat, NEW c \in Nat \ {0}, NEW w \in Nat \ {0}, RoundUp(n, c) < w,
         NEW k \in Nat, k * c < n
  PROVE  n % w = n /\ ((k * c) + c) % w = (k * c) + c /\ k * c < (k * c) + c
<1>1. RoundUp(n, c) \in Nat /\ RoundUp(n, c) >= n /\ (k * c) + c <= RoundUp(n, c)
  BY Rounded
<1>2. k * c \in Nat /\ (k * c) + c \in Nat /\ k * c < (k * c) + c
  BY NextBlock
<1>3. n % w = n
  <2>1. n < w
    BY <1>1
  <2> QED BY <2>1, Small
<1>4. ((k * c) + c) % w = (k * c) + c
  <2>1. (k * c) + c < w
    BY <1>1, <1>2
  <2> QED BY <1>2, <2>1, Small
<1> QED BY <1>2, <1>3, <1>4

\* Every pass of a loop begins before the end of its data and goes on behind
\* where it began (license_parse.h, symmetric_encryption.h, hash_create.h,
\* specialsupply_req.cpp), so that none is repeated forever.
THEOREM LoopsAdvance == Spec => PassesAdvance
<1>1. RunsItsOwn /\ PosType /\ ChunkInv /\ [Next]_vars =>
        [Ends /\ pc' = pc => pos < Total /\ pos < pos']_vars
  <2> SUFFICES ASSUME RunsItsOwn, PosType, ChunkInv, [Next]_vars, ~UNCHANGED vars, Ends, pc' = pc
               PROVE  pos < Total /\ pos < pos'
    OBVIOUS
  <2>1. /\ RSA_KEYSUB_LEN \in Nat \ {0} /\ AES_BLOCK_SIZE \in Nat \ {0}
        /\ bufferSize \in Nat \ {0} /\ Word \in Nat \ {0} /\ pos \in Nat
    BY SizesAssumption DEF PosType
  <2>2. ~Encode /\ ~Decode
    BY DEF Encode, Decode
  <2>3. CASE call.op = "RsaPubDecrypt" /\ FormatPubKey
    <3>1. pos < call.key /\ pos' = pos + RSA_KEYSUB_LEN
      BY <2>3 DEF FormatPubKey, Loop, Then
    <3> QED BY <2>1, <2>3, <3>1 DEF FormatPubKey, Total
  <2>4. CASE call.op = "RsaPubDecrypt" /\ RsaPubDecrypt
    <3>1. pos < Len(call.cipher) /\ pos' = pos + 1
      BY <2>4 DEF RsaPubDecrypt, Loop, Return
    <3> QED BY <2>1, <2>4, <3>1 DEF RsaPubDecrypt, Total
  <2>5. CASE call.op = "AES" /\ GetEncryptData
    <3>1. pos < call.content /\ pos' = pos + AES_BLOCK_SIZE
      BY <2>5 DEF GetEncryptData, Loop, Then
    <3> QED BY <2>1, <2>5, <3>1 DEF GetEncryptData, Total
  <2>6. CASE call.op = "AES" /\ GetDecryptData
    <3>1. pos < Len(made) /\ pos' = pos + 1
      BY <2>6 DEF GetDecryptData, Loop, Return
    <3> QED BY <2>1, <2>6, <3>1 DEF GetDecryptData, Total
  <2>7. CASE call.op = "get_sha256Hex_File" /\ get_sha256Hex_File
    <3>1. call.file \in Nat
      BY <2>7, CallOps DEF RunsItsOwn
    <3>2. pos + bufferSize <= call.file /\ pos' = pos + bufferSize
      BY <2>7 DEF get_sha256Hex_File
    <3>3. Total = call.file
      BY <2>7 DEF get_sha256Hex_File, Total
    <3> QED BY <2>1, <3>1, <3>2, <3>3
  <2>8. CASE call.op = "getFileChunkStructs" /\ getFileChunkStructs
    <3>3. call.opens /\ pos < fileSize /\ pos' = NextStart(pos)
      BY <2>8 DEF getFileChunkStructs, Loop, Return, Remains
    <3>1. call.file \in Nat /\ chunkSize \in Nat \ {0} /\ RoundUp(call.file, chunkSize) < Word
      BY <2>8, <3>3, CallOps, SizeOfChunk DEF RunsItsOwn, Ends, Fits, RoundUp
    <3>2. PICK k \in Nat : pos = k * chunkSize
      BY <2>8, <3>3 DEF Ends, ChunkInv
    <3>4. pos < call.file
      BY <2>1, <3>1, <3>3 DEF fileSize
    <3>5. pos' = pos + chunkSize /\ pos < pos + chunkSize
      BY <2>1, <3>1, <3>2, <3>3, <3>4, NoWrap DEF NextStart
    <3>6. Total = call.file
      BY <2>8 DEF getFileChunkStructs, Total
    <3> QED BY <3>4, <3>5, <3>6
  <2>9. call.op \in {"base64", "RsaPubDecrypt", "AES", "getFileChunkStructs", "get_sha256Hex_File"}
    BY CallOps DEF RunsItsOwn
  <2> QED BY <2>2, <2>3, <2>4, <2>5, <2>6, <2>7, <2>8, <2>9, StepOf
<1> QED BY <1>1, RunsAlways, PositionsAreNat, ChunksHold, PTL DEF Spec, PassesAdvance
=============================================================================
