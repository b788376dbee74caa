------------------------------- MODULE Base64 -------------------------------
(***************************************************************************)
(* base64_encode and base64_decode of base64_trans.h, as functions.        *)
(*                                                                         *)
(* A string of bytes is a sequence of numbers; a string of base64Chars is  *)
(* a sequence of their indices there, with Pad for '=' and Other for what  *)
(* is neither.  The loops of the source fill an array of three or four     *)
(* bytes and convert it when it is full, or filled up at the end: here,    *)
(* element k of the result is given by the group that it is in.            *)
(***************************************************************************)
EXTENDS Naturals, Sequences

Byte == 0..255
Digit == 0..63
Pad == 64
Other == 65
NoDigit == 255   \* base64Chars.find('\0') is npos, cut to an unsigned char

\* char_array_4[j] of three bytes; & and >> are % and \div.
Sextet(a, b, c, j) ==
  CASE j = 0 -> a \div 4
    [] j = 1 -> ((a % 4) * 16) + (b \div 16)
    [] j = 2 -> ((b % 16) * 4) + (c \div 64)
    [] j = 3 -> c % 64

\* Mutant: the digits of a group that is not full count as its bytes do.
ShortUsed(len) == (4 * (len \div 3)) + (len % 3)
\* Characters before the first '='.
Used(len) == (4 * (len \div 3)) + (IF len % 3 = 0 THEN 0 ELSE (len % 3) + 1)
base64_encode(s) ==
  LET len == Len(s)
      byte(i) == IF i <= len THEN s[i] ELSE 0
      chars == 4 * ((len + 2) \div 3)
  IN [k \in 1..chars |->
        LET g == 3 * ((k - 1) \div 4)
        IN IF k <= Used(len) THEN Sextet(byte(g + 1), byte(g + 2), byte(g + 3), (k - 1) % 4) ELSE Pad]

\* char_array_3[j] of four digits, an unsigned char.
Octet(p, q, r, t, j) ==
  CASE j = 0 -> ((p * 4) + ((q \div 16) % 4)) % 256
    [] j = 1 -> (((q % 16) * 16) + ((r \div 4) % 16)) % 256
    [] j = 2 -> (((r % 4) * 64) + t) % 256

\* The digits before the first character that is none.
IsRun(e, n) == (\A i \in 1..n : e[i] \in Digit) /\ (n < Len(e) => e[n + 1] \notin Digit)
Run(e) == CHOOSE n \in 0..Len(e) : IsRun(e, n)
\* Mutant: a group that is not full gives three bytes as well.
HeldAll(n) == 3 * ((n + 3) \div 4)
\* The bytes that n digits hold; a group of one digit holds none.
Held(n) == (3 * (n \div 4)) + (IF n % 4 = 0 THEN 0 ELSE (n % 4) - 1)
base64_decode(e) ==
  LET n == Run(e)
      digit(i) == IF i <= n THEN e[i] ELSE NoDigit
  IN [k \in 1..Held(n) |->
        LET g == 4 * ((k - 1) \div 3)
        IN Octet(digit(g + 1), digit(g + 2), digit(g + 3), digit(g + 4), (k - 1) % 3)]
=============================================================================
