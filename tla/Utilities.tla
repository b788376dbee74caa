----------------------------- MODULE Utilities ------------------------------
(***************************************************************************)
(* The functions of src/src/utils, and getFileChunkStructs, that go over   *)
(* their data block by block: one call of one of them, or of the two that  *)
(* belong together, from any arguments, one pass of a loop at a time.      *)
(*                                                                         *)
(* The bytes of a key, of a content and of a file are their positions, so  *)
(* that a result tells which of them it was made of, and in which order.   *)
(* base64 is the exception: its bytes are numbers (see Base64).            *)
(***************************************************************************)
EXTENDS Base64, SequencesExt

CONSTANTS
  RSA_KEYSUB_LEN,  \* characters of a line of a key: 64
  AES_BLOCK_SIZE,  \* bytes of a block: 16
  bufferSize,      \* bytes of a file that are hashed at once: 8192
  DEFAULT_CHUNK_SIZE,  \* bytes of a chunk when the caller names no size: 10 MiB
  KeyLimit,        \* the longest key that can be filled up: 256
  Word,            \* the values of a uint32_t: 2^32
  Bytes,           \* bytes of the strings given to base64
  MaxLen,          \* bound: the length of a key, a content, or a file
  MaxText,         \* bound: the length of a string given to base64, the blocks of a cipher
  MaxParts         \* bound: chunks of a file

ASSUME SizesAssumption ==
  {RSA_KEYSUB_LEN, AES_BLOCK_SIZE, bufferSize, DEFAULT_CHUNK_SIZE, KeyLimit, Word} \subseteq Nat \ {0}
ASSUME BoundsAssumption == {MaxLen, MaxText, MaxParts} \subseteq Nat
ASSUME BytesAssumption == Bytes \subseteq Byte

VARIABLES
  call,  \* the functions that are called, and their arguments
  pc,    \* what is running, "returned" or "thrown"
  pos,   \* where its loop is
  iv,    \* what AES_cbc_encrypt leaves for the next block
  made,  \* the result of the first function, which the second is given
  out    \* the result so far

vars == <<call, pc, pos, iv, made, out>>

Texts(S, n) == UNION {[1..k -> S] : k \in 0..n}
Calls ==
  [op: {"base64"}, str: Texts(Bytes, MaxText)]
  \cup [op: {"RsaPubDecrypt"}, key: 0..MaxLen, header: BOOLEAN, valid: BOOLEAN,
        cipher: Texts(BOOLEAN, MaxText)]   \* block -> can it be decrypted?
  \cup [op: {"AES"}, content: 0..MaxLen, key: 0..KeyLimit + 1]
  \cup [op: {"getFileChunkStructs"}, opens: BOOLEAN, file: 0..Word + 1, chunkSize: 0..Word - 1]
  \cup [op: {"get_sha256Hex_File"}, opens: BOOLEAN, file: 0..MaxLen]   \* opens: can the file be?

Entry(c) ==
  CASE c.op = "base64" -> "base64_encode"
    [] c.op = "RsaPubDecrypt" -> IF c.header THEN "RsaPubDecrypt" ELSE "FormatPubKey"
    [] c.op = "AES" -> "GetEncryptData"
    [] OTHER -> c.op

Init ==
  /\ call \in Calls
  /\ pc = Entry(call)
  /\ pos = 0 /\ iv = <<>> /\ made = <<>> /\ out = <<>>

Least(a, b) == IF a <= b THEN a ELSE b
\* Bytes from p, up to n of them, of something of a length.
Piece(p, n, length) == [i \in 1..Least(n, length - p) |-> p + i]

\* The loop of the function goes on behind p, or it is over and the next one begins.
Loop(p, o) == pos' = p /\ out' = o /\ UNCHANGED <<call, pc, made>>
Then(next) == pc' = next /\ pos' = 0 /\ made' = out /\ out' = <<>> /\ iv' = <<>> /\ UNCHANGED call
Return == pc' = "returned" /\ UNCHANGED <<call, pos, iv, made, out>>

-----------------------------------------------------------------------------
(* base64_trans.h *)

Encode ==
  /\ pc = "base64_encode"
  /\ pc' = "base64_decode"
  /\ made' = base64_encode(call.str)
  /\ UNCHANGED <<call, pos, iv, out>>

Decode ==
  /\ pc = "base64_decode"
  /\ pc' = "returned"
  /\ out' = base64_decode(made)
  /\ UNCHANGED <<call, pos, iv, made>>

-----------------------------------------------------------------------------
(* license_parse.h *)

\* Mutant: a line takes the rest of the key.
LineToEnd(p) == Piece(p, call.key, call.key)
Line(p) == Piece(p, RSA_KEYSUB_LEN, call.key)
FormatPubKey ==
  /\ pc = "FormatPubKey"
  /\ IF pos < call.key
       THEN Loop(pos + RSA_KEYSUB_LEN, Append(out, Line(pos))) /\ UNCHANGED iv
       ELSE Then("RsaPubDecrypt")

\* Mutants: a block that cannot be decrypted is passed over; pos advances by the
\* length of the text, so that the second block is not one of the cipher.
DecryptAny(b) == TRUE
DecryptMisaligned(b) == b /\ pos = 0
\* RSA_public_decrypt, which fails for other blocks than those of this key.
Decrypts(b) == b
\* pos stays where it is when a block fails.
RsaPubDecrypt ==
  /\ pc = "RsaPubDecrypt"
  /\ IF call.valid /\ pos < Len(call.cipher)
       THEN /\ Decrypts(call.cipher[pos + 1])
            /\ Loop(pos + 1, IF call.cipher[pos + 1] THEN Append(out, pos + 1) ELSE out)
            /\ UNCHANGED iv
       ELSE Return

-----------------------------------------------------------------------------
(* symmetric_encryption.h *)

Nul == 0               \* what follows the content in memory
Beyond == MaxLen + 1   \* and what follows that: indeterminate
Garbled == <<>>        \* a block that was decrypted with another vector

\* AES_set_encrypt_key takes 128 and 256 bits, and does not fail for one of them.
\* append() throws for a key that is longer than it is to become: the limit is
\* a number of bits, 128 or 256, compared with a number of characters.
TooLong(key) == key > KeyLimit

\* The block of the content from p on; its padding is overwritten.
Block(p) ==
  [i \in 1..AES_BLOCK_SIZE |->
     IF p + i <= call.content THEN p + i ELSE IF p + i = call.content + 1 THEN Nul ELSE Beyond]
Cipher(v, block) == [iv |-> v, plain |-> block]

GetEncryptData ==
  /\ pc = "GetEncryptData"
  /\ IF TooLong(call.key)
       THEN pc' = "thrown" /\ UNCHANGED <<call, pos, iv, made, out>>
       ELSE IF pos < call.content
       THEN LET c == Cipher(iv, Block(pos)) IN
            iv' = c /\ Loop(pos + AES_BLOCK_SIZE, Append(out, c))
       ELSE Then("GetDecryptData")

\* Mutant: the vector is set to zero for each block.
NoChain(c) == <<>>
\* AES_cbc_encrypt leaves the block in it.
NextVector(c) == c
GetDecryptData ==
  /\ pc = "GetDecryptData"
  /\ IF pos < Len(made)
       THEN LET c == made[pos + 1] IN
            /\ iv' = NextVector(c)
            /\ Loop(pos + 1, out \o (IF c.iv = iv THEN c.plain ELSE Garbled))
       ELSE Return

-----------------------------------------------------------------------------
(* hash_create.h *)

\* Mutants: the last pass hashes a whole buffer, or nothing.
WholeBuffer(p) == [i \in 1..bufferSize |-> IF p + i <= call.file THEN p + i ELSE Beyond]
RestLost(p) == <<>>
\* read() and gcount() of the last pass.
Rest(p) == Piece(p, bufferSize, call.file)
get_sha256Hex_File ==
  /\ pc = "get_sha256Hex_File"
  /\ UNCHANGED <<call, iv, made>>
  /\ \/ /\ ~call.opens
        /\ pc' = "returned" /\ UNCHANGED <<pos, out>>
     \/ /\ call.opens /\ pos + bufferSize <= call.file
        /\ pos' = pos + bufferSize /\ out' = out \o Piece(pos, bufferSize, call.file)
        /\ UNCHANGED pc
     \/ /\ call.opens /\ pos + bufferSize > call.file
        /\ pos' = call.file /\ out' = out \o Rest(pos)
        /\ pc' = "returned"

-----------------------------------------------------------------------------
(* specialsupply_req.cpp *)

\* Mutant: a caller that names no size gets it.
AsGiven == call.chunkSize
chunkSize == IF call.chunkSize = 0 THEN DEFAULT_CHUNK_SIZE ELSE call.chunkSize
\* Mutant: no chunk begins behind the last byte.
NextStartLast(p) == Least(p + chunkSize, call.file - 1) % Word
NextStart(p) == (p + chunkSize) % Word
EndPos(p) == (p + chunkSize) % Word
fileSize == call.file % Word
\* Mutant: there is a chunk for as long as there are bytes enough to fill it.
FullRemains(p) == p + chunkSize <= fileSize
Remains(p) == p < fileSize
getFileChunkStructs ==
  /\ pc = "getFileChunkStructs"
  /\ IF call.opens /\ Remains(pos)
       THEN /\ Len(out) < MaxParts
            /\ Loop(NextStart(pos), Append(out, [startPos |-> pos, endPos |-> EndPos(pos)]))
            /\ UNCHANGED iv
       ELSE Return

\* The bytes of the file that GenBodyContent() (multipart_parser.cpp) reads for
\* the chunk c: those from startPos to endPos, the byte at endPos too, or to the
\* end of the file.  What its buffer holds behind that end is left out.
BytesOf(c) ==
  LET size == IF c.endPos > call.file THEN call.file ELSE c.endPos - c.startPos + 1
  IN c.startPos + 1..Least(c.startPos + size, call.file)

-----------------------------------------------------------------------------
Next ==
  \/ Encode \/ Decode
  \/ FormatPubKey \/ RsaPubDecrypt
  \/ GetEncryptData \/ GetDecryptData
  \/ get_sha256Hex_File
  \/ getFileChunkStructs

Spec == Init /\ [][Next]_vars
\* The thread that calls runs.
FairSpec == Spec /\ WF_vars(Next)

-----------------------------------------------------------------------------
(* Properties. *)

Functions_ == {"base64_encode", "base64_decode", "FormatPubKey", "RsaPubDecrypt", "GetEncryptData",
               "GetDecryptData", "getFileChunkStructs", "get_sha256Hex_File"}
Chunk == [startPos: 0..Word - 1, endPos: 0..Word - 1]
TypeOK ==
  /\ call \in Calls
  /\ pc \in Functions_ \cup {"returned", "thrown"}
  /\ pos \in Nat
  /\ call.op = "base64" => made \in Seq(Digit \cup {Pad}) /\ out \in Seq(Byte)
  /\ call.op = "get_sha256Hex_File" => out \in Seq(1..call.file)
  /\ call.op = "getFileChunkStructs" => out \in Seq(Chunk)

Returned(op) == call.op = op /\ pc = "returned"

\* What base64_encode makes is what RFC 4648 defines: the digits of each group of
\* 24 bits from the left, and as many '=' as bytes are missing.
Bits(a, b, c) == (((a * 256) + b) * 256) + c
Weight == <<64 * 64 * 64, 64 * 64, 64, 1>>   \* of the digits of a group
StandardDigit(s, k) ==
  LET g == 3 * ((k - 1) \div 4)
      byte(i) == IF i <= Len(s) THEN s[i] ELSE 0
  IN (Bits(byte(g + 1), byte(g + 2), byte(g + 3)) \div Weight[((k - 1) % 4) + 1]) % 64
Base64Standard ==
  Returned("base64") =>
    /\ Len(made) % 4 = 0 /\ Len(made) = 4 * ((Len(call.str) + 2) \div 3)
    /\ \A k \in 1..Len(made) :
         made[k] = IF k > Len(made) - ((3 - (Len(call.str) % 3)) % 3) THEN Pad ELSE StandardDigit(call.str, k)

\* base64_decode gives back every string of bytes that base64_encode was given,
\* zeros and short groups included.
Base64RoundTrip == Returned("base64") => out = call.str

\* The lines that FormatPubKey puts between the markers are full but for the
\* last, and together are the key: none is lost or doubled at their ends.
KeyInLines ==
  call.op = "RsaPubDecrypt" /\ ~call.header /\ pc \in {"RsaPubDecrypt", "returned"} =>
    /\ FlattenSeq(made) = [i \in 1..call.key |-> i]
    /\ \A i \in 1..Len(made) - 1 : Len(made[i]) = RSA_KEYSUB_LEN
    /\ \A i \in DOMAIN made : Len(made[i]) \in 1..RSA_KEYSUB_LEN

\* RsaPubDecrypt returns the whole text or none: no block is left out, although
\* each may fail on its own.
CipherDecrypted ==
  Returned("RsaPubDecrypt") => out = IF call.valid THEN [i \in DOMAIN call.cipher |-> i] ELSE <<>>

\* What GetDecryptData makes of a cipher of GetEncryptData begins with the
\* content, and what follows it is shorter than a block.
ContentDecrypted ==
  Returned("AES") =>
    /\ Len(out) \in call.content..call.content + AES_BLOCK_SIZE - 1
    /\ \A i \in 1..call.content : out[i] = i

\* get_sha256Hex_File hashes the bytes of a file that it can open in their order,
\* each once, wherever the last buffer ends.
FileHashed ==
  Returned("get_sha256Hex_File") /\ call.opens => out = [i \in 1..call.file |-> i]

\* No position of a chunk needs more than a uint32_t; no size stands for the default.
SizeMeant == IF call.chunkSize = 0 THEN DEFAULT_CHUNK_SIZE ELSE call.chunkSize
Fits == (((call.file + SizeMeant - 1) \div SizeMeant) * SizeMeant) < Word
\* The chunks of a file, as they are read, have every byte of it, as long as no
\* position overflows; the one byte that two of them may both have is the first
\* of a chunk, which the chunk before has too.
ChunksCoverFile ==
  Returned("getFileChunkStructs") /\ call.opens /\ Fits =>
    /\ \A n \in 1..call.file : \E i \in DOMAIN out : n \in BytesOf(out[i])
    /\ \A i, j \in DOMAIN out : i < j =>
         \A n \in BytesOf(out[i]) \cap BytesOf(out[j]) : j = i + 1 /\ n = out[j].startPos + 1

\* A call ends, if no position overflows and every block can be decrypted.
Ends ==
  CASE call.op = "getFileChunkStructs" -> call.opens => Fits
    [] call.op = "RsaPubDecrypt" -> call.valid => \A i \in DOMAIN call.cipher : call.cipher[i]
    [] OTHER -> TRUE
CallsEnd == Ends ~> pc \in {"returned", "thrown"}

\* Where the loop that is running ends.
Total ==
  CASE pc = "FormatPubKey" -> call.key
    [] pc = "RsaPubDecrypt" -> Len(call.cipher)
    [] pc = "GetEncryptData" -> call.content
    [] pc = "GetDecryptData" -> Len(made)
    [] OTHER -> call.file
\* Every pass of a loop begins before the end and goes on behind where it began,
\* also where a position is added to in the width of a uint32_t.
PassesAdvance == [][Ends /\ pc' = pc => pos < Total /\ pos < pos']_vars
=============================================================================
