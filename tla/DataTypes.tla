------------------------------ MODULE DataTypes ------------------------------
(***************************************************************************)
(* The data types of a packet: bytes, two- and four-byte integers,         *)
(* variable byte integers, binary data and UTF-8 strings, as               *)
(* packet_datatypes.c writes them into and reads them from a buffer.       *)
(*                                                                         *)
(* A buffer is a sequence of bytes; pos is the number of bytes that have   *)
(* been read, and remaining_length is the length of the buffer.  A reader  *)
(* returns a record: rc, the value, and the new pos.                       *)
(***************************************************************************)
EXTENDS Integers, Sequences

Bytes == 0..255
\* The values of uint16_t and of uint32_t
Short == {n \in Nat : n < 65536}
Word == {n \in Nat : n \div 65536 < 65536}

\* The weight of the i-th digit of a variable byte integer, 128^(i-1)
Weight == <<1, 128, 16384, 2097152, 268435456>>
MaxVarint == 268435455

Ok(value, pos) == [rc |-> "SUCCESS", value |-> value, pos |-> pos]
Err(rc) == [rc |-> rc, value |-> <<>>, pos |-> 0]
Succeeds(r) == r.rc = "SUCCESS"
The(S) == CHOOSE x \in S : TRUE

\* What a reader reads next, once it has read something, or the error
Then(read, Go(_, _)) ==
  The({IF Succeeds(r) THEN Go(r.value, r.pos) ELSE r : r \in {read}})

-----------------------------------------------------------------------------
(* Writing                                                                 *)

\* There are digits behind the first i of n
More(n, i) == n \div Weight[i + 1] > 0

\* How many digits packet__write_varint and packet__alloc write; with five they fail
VarintLen(n) ==
  CHOOSE k \in 1..5 : (k < 5 => ~More(n, k)) /\ (k > 1 => More(n, k - 1))

\* Mutant: the top bit says that the integer ends
VarintInverted(n) ==
  [i \in 1..VarintLen(n) |->
     ((n \div Weight[i]) % 128) + (IF i < 5 /\ More(n, i) THEN 0 ELSE 128)]

\* Least significant digit first; the top bit says that another one follows
Varint(n) ==
  [i \in 1..VarintLen(n) |->
     ((n \div Weight[i]) % 128) + (IF i < 5 /\ More(n, i) THEN 128 ELSE 0)]

\* The length that the encoders reckon with
VarintBytes(n) ==
  IF n < 128 THEN 1
  ELSE IF n < 16384 THEN 2
  ELSE IF n < 2097152 THEN 3
  ELSE IF n < 268435456 THEN 4 ELSE 5

Uint16(n) == <<(n \div 256) % 256, n % 256>>

Uint32(n) == <<(n \div 16777216) % 256, (n \div 65536) % 256>> \o Uint16(n)

\* packet__write_string: the length is a uint16_t, whatever the length of the text
StringBytes(s) ==
  LET len == Len(s) % 65536 IN Uint16(len) \o SubSeq(s, 1, len)

-----------------------------------------------------------------------------
(* Reading                                                                 *)

Take(b, pos, count) ==
  IF pos + count > Len(b) THEN Err("PROTOCOL")
  ELSE Ok(SubSeq(b, pos + 1, pos + count), pos + count)

ReadByte(b, pos) ==
  IF pos + 1 > Len(b) THEN Err("PROTOCOL") ELSE Ok(b[pos + 1], pos + 1)

ReadUint16(b, pos) ==
  IF pos + 2 > Len(b) THEN Err("PROTOCOL")
  ELSE Ok(b[pos + 1] * 256 + b[pos + 2], pos + 2)

ReadUint32(b, pos) ==
  IF pos + 4 > Len(b) THEN Err("PROTOCOL")
  ELSE Ok(b[pos + 1] * 16777216 + b[pos + 2] * 65536 + b[pos + 3] * 256 + b[pos + 4], pos + 4)

\* The k-th byte from pos on is the first without the top bit
EndsWith(b, pos, k) ==
  /\ pos + k <= Len(b)
  /\ b[pos + k] < 128
  /\ \A i \in 1..k - 1 : b[pos + i] >= 128

\* The sum of the first k digits from pos on
VarintValue(b, pos, k) ==
  LET Part(i) == IF i <= k THEN (b[pos + i] % 128) * Weight[i] ELSE 0 IN
  Part(1) + Part(2) + Part(3) + Part(4)

\* At most four digits, and the last of several is not 0
ReadVarint(b, pos) ==
  IF \E k \in 1..4 : EndsWith(b, pos, k)
  THEN LET k == CHOOSE k \in 1..4 : EndsWith(b, pos, k) IN
       IF k > 1 /\ b[pos + k] = 0 THEN Err("PROTOCOL")
       ELSE Ok(VarintValue(b, pos, k), pos + k)
  ELSE Err("PROTOCOL")

ReadBinary(b, pos) ==
  Then(ReadUint16(b, pos), LAMBDA len, p : Take(b, p, len))

-----------------------------------------------------------------------------
(* UTF-8: mosquitto_validate_utf8                                          *)

\* The bytes that the first byte of a character announces, 0 for one that cannot be first
CodeLen(byte) ==
  CASE byte \in 1..127 -> 1
    [] byte \in 194..223 -> 2
    [] byte \in 224..239 -> 3
    [] byte \in 240..244 -> 4
    [] OTHER -> 0

\* The terminator behind the text is no continuation byte: a truncated character is found
Continued(s, i) ==
  \A j \in 1..CodeLen(s[i]) - 1 : i + j <= Len(s) /\ s[i + j] \in 128..191

Codepoint(s, i) ==
  LET c(j) == s[i + j] - 128 IN
  CASE CodeLen(s[i]) = 1 -> s[i]
    [] CodeLen(s[i]) = 2 -> (s[i] - 192) * 64 + c(1)
    [] CodeLen(s[i]) = 3 -> (s[i] - 224) * 4096 + c(1) * 64 + c(2)
    [] OTHER -> (s[i] - 240) * 262144 + c(1) * 4096 + c(2) * 64 + c(3)

\* No surrogate, no overlong form, nothing beyond the last one, no non-character, no control
\* character
Allowed(cp, len) ==
  /\ cp \notin 55296..57343
  /\ len = 3 => cp >= 2048
  /\ len = 4 => cp \in 65536..1114111
  /\ cp \notin 64976..65007
  /\ cp % 65536 < 65534
  /\ cp > 31 /\ cp \notin 127..159

ValidUtf8(s) ==
  LET From[i \in 1..Len(s) + 1] ==
        \/ i > Len(s)
        \/ /\ CodeLen(s[i]) > 0
           /\ Continued(s, i)
           /\ Allowed(Codepoint(s, i), CodeLen(s[i]))
           /\ From[i + CodeLen(s[i])]
  IN Len(s) <= 65536 /\ From[1]

ReadString(b, pos) ==
  Then(ReadBinary(b, pos),
       LAMBDA s, p : IF ValidUtf8(s) THEN Ok(s, p) ELSE Err("MALFORMED_UTF8"))

=============================================================================
