----------------------------- MODULE WireProofs -----------------------------
(***************************************************************************)
(* Proofs about Packets and Wire.                                          *)
(*                                                                         *)
(* The first part is about the encoders and decoders, for every value.     *)
(* What is read back from a buffer is what was written into it: integers   *)
(* of two and of four bytes, variable byte integers, binary data, strings, *)
(* properties and lists of them; no reader leaves the buffer, whatever is  *)
(* in it.  What an encoder reckons for its parts is what it writes, unless *)
(* a text has more bytes than a length of two bytes can say.               *)
(*                                                                         *)
(* The second part is for any calls, wills and identifiers, any packets of *)
(* a broker that keeps to the standard and malformed ones, any pieces in   *)
(* which bytes are read and any number of connections: what is written is  *)
(* decoded, packet by packet, and then the bytes of a connection, of which *)
(* in_packet and wire are at every moment what the packets that have been  *)
(* sent leave to be read.                                                  *)
(***************************************************************************)
EXTENDS Wire, SequenceLemmas

-----------------------------------------------------------------------------
\* What was written first is at the beginning of the buffer.
LEMMA Prefixed ==
  ASSUME NEW S, NEW u \in Seq(S), NEW rest \in Seq(S)
  PROVE  /\ Len(u \o rest) \in Nat /\ Len(u \o rest) >= Len(u)
         /\ \A i \in 1..Len(u) : (u \o rest)[i] = u[i]
<1> DEFINE b == u \o rest
<1>1. Len(u) \in Nat /\ Len(rest) \in Nat
  BY LenProperties
<1>2. /\ Len(b) = Len(u) + Len(rest)
      /\ \A i \in 1..Len(u) + Len(rest) :
           b[i] = IF i <= Len(u) THEN u[i] ELSE rest[i - Len(u)]
  BY ConcatProperties
<1> HIDE DEF b
<1>3. QED BY SMT, <1>1, <1>2 DEF b

\* The buffer b holds u behind its first pos bytes.
Holds(b, pos, u) ==
  /\ pos + Len(u) <= Len(b)
  /\ \A i \in 1..Len(u) : b[pos + i] = u[i]

-----------------------------------------------------------------------------
(* Integers of two bytes                                                   *)

\* packet__read_uint16 returns what packet__write_uint16 has written, whatever follows it
\* (packet_datatypes.c:149-171).
THEOREM Uint16RoundTrip ==
  ASSUME NEW n \in Short, NEW rest \in Seq(Bytes)
  PROVE  ReadUint16(Uint16(n) \o rest, 0) = Ok(n, 2)
<1> DEFINE u == Uint16(n)
           b == u \o rest
<1>1. /\ (n \div 256) % 256 = n \div 256 /\ n = (n \div 256) * 256 + (n % 256)
      /\ n \in Nat
  BY SMT DEF Short
<1>2. (n \div 256) % 256 \in Bytes /\ n % 256 \in Bytes
  BY SMT, <1>1 DEF Bytes
<1>3. u \in Seq(Bytes) /\ Len(u) = 2 /\ u[1] = (n \div 256) % 256 /\ u[2] = n % 256
  BY SMT, <1>2 DEF Uint16
<1> HIDE DEF u
<1> HIDE DEF b
<1>4. Len(b) \in Nat /\ Len(b) >= Len(u) /\ \A i \in 1..Len(u) : b[i] = u[i]
  <2>1. u \in Seq(Bytes)
    BY <1>3
  <2>2. QED BY <2>1, Prefixed DEF b
<1>5. b[1] = n \div 256 /\ b[2] = n % 256
  BY SMT, <1>1, <1>3, <1>4
<1>6. ReadUint16(b, 0) = Ok(b[1] * 256 + b[2], 2)
  BY SMT, <1>3, <1>4 DEF ReadUint16
<1>7. b[1] * 256 + b[2] = n
  BY SMT, <1>1, <1>5
<1>8. QED BY <1>6, <1>7 DEF b, u

-----------------------------------------------------------------------------
(* Variable byte integers                                                  *)

\* The weights, and when a digit is followed by another one.
LEMMA MoreDigits ==
  ASSUME NEW n \in Nat
  PROVE  /\ More(n, 1) <=> n >= 128
         /\ More(n, 2) <=> n >= 16384
         /\ More(n, 3) <=> n >= 2097152
         /\ More(n, 4) <=> n > MaxVarint
<1>1. n \div 128 > 0 <=> n >= 128
  BY SMT
<1>2. n \div 16384 > 0 <=> n >= 16384
  BY SMT
<1>3. n \div 2097152 > 0 <=> n >= 2097152
  BY SMT
<1>4. n \div 268435456 > 0 <=> n > 268435455
  BY SMT
<1>5. QED BY SMT, <1>1, <1>2, <1>3, <1>4 DEF More, Weight, MaxVarint

\* The number of bytes that packet__write_varint writes is the one that the lengths of a
\* packet are reckoned with by packet__varint_bytes: no byte too many is written into the
\* allocated buffer, and the length that packet__varint_bytes reckons with five is the one
\* that is refused (packet_datatypes.c:235-271).
THEOREM VarintLength ==
  ASSUME NEW n \in Nat
  PROVE  VarintLen(n) = VarintBytes(n)
<1> DEFINE P(k) == (k < 5 => ~More(n, k)) /\ (k > 1 => More(n, k - 1))
           m == VarintBytes(n)
<1>1. m \in 1..5
  BY SMT DEF VarintBytes
<1>2. P(m)
  <2>1. CASE n < 128
    BY SMT, <2>1, MoreDigits DEF VarintBytes
  <2>2. CASE n >= 128 /\ n < 16384
    BY SMT, <2>2, MoreDigits DEF VarintBytes
  <2>3. CASE n >= 16384 /\ n < 2097152
    BY SMT, <2>3, MoreDigits DEF VarintBytes
  <2>4. CASE n >= 2097152 /\ n < 268435456
    BY SMT, <2>4, MoreDigits DEF VarintBytes, MaxVarint
  <2>5. CASE n >= 268435456
    BY SMT, <2>5, MoreDigits DEF VarintBytes, MaxVarint
  <2>6. QED BY SMT, <2>1, <2>2, <2>3, <2>4, <2>5
<1>3. ASSUME NEW k \in 1..5, P(k)
      PROVE  k = m
  <2>1. CASE k = 1
    BY SMT, <1>3, <2>1, MoreDigits DEF VarintBytes
  <2>2. CASE k = 2
    BY SMT, <1>3, <2>2, MoreDigits DEF VarintBytes
  <2>3. CASE k = 3
    BY SMT, <1>3, <2>3, MoreDigits DEF VarintBytes
  <2>4. CASE k = 4
    BY SMT, <1>3, <2>4, MoreDigits DEF VarintBytes, MaxVarint
  <2>5. CASE k = 5
    BY SMT, <1>3, <2>5, MoreDigits DEF VarintBytes, MaxVarint
  <2>6. QED BY SMT, <2>1, <2>2, <2>3, <2>4, <2>5
<1>4. VarintLen(n) = CHOOSE k \in 1..5 : P(k)
  BY SMT DEF VarintLen
<1> HIDE DEF P, m
<1>5. (CHOOSE k \in 1..5 : P(k)) = m
  BY SMT, <1>1, <1>2, <1>3
<1>6. QED BY SMT, <1>4, <1>5 DEF m

\* Its digits are bytes.
LEMMA VarintWritten ==
  ASSUME NEW n \in Nat
  PROVE  Varint(n) \in Seq(Bytes) /\ Len(Varint(n)) = VarintBytes(n)
<1> DEFINE m == VarintBytes(n)
           v == Varint(n)
<1>1. m \in 1..5 /\ m \in Nat
  BY SMT DEF VarintBytes
<1>2. v = [i \in 1..m |-> ((n \div Weight[i]) % 128) + (IF i < 5 /\ More(n, i) THEN 128 ELSE 0)]
  BY VarintLength DEF Varint
<1> HIDE DEF m
<1>3. ASSUME NEW i \in 1..m
      PROVE  ((n \div Weight[i]) % 128) + (IF i < 5 /\ More(n, i) THEN 128 ELSE 0) \in Bytes
  <2>1. Weight[i] \in Nat \ {0}
    BY SMT, <1>1 DEF Weight
  <2>2. PICK w \in Nat \ {0} : w = Weight[i]
    BY <2>1
  <2>3. (n \div w) % 128 \in 0..127
    BY SMT
  <2>4. PICK d \in 0..127 : d = (n \div w) % 128
    BY <2>3
  <2>5. d + 128 \in Bytes /\ d + 0 \in Bytes
    BY SMT DEF Bytes
  <2>6. QED BY Zenon, <2>2, <2>4, <2>5
<1>4. v \in [1..m -> Bytes]
  BY <1>2, <1>3
<1> HIDE DEF v
<1>5. QED BY SMT, <1>1, <1>4 DEF m, v

\* The i-th digit of n.
Digit(n, i) == (n \div Weight[i]) % 128

\* A number is the sum of its four digits, each at its weight.
LEMMA DigitSum ==
  ASSUME NEW n \in Nat, n <= MaxVarint
  PROVE  /\ \A i \in 1..4 : Digit(n, i) \in 0..127
         /\ Digit(n, 1) * Weight[1] + Digit(n, 2) * Weight[2] + Digit(n, 3) * Weight[3]
              + Digit(n, 4) * Weight[4] = n
         /\ \A i \in 1..4 : i > VarintBytes(n) => Digit(n, i) = 0
         /\ VarintBytes(n) > 1 => Digit(n, VarintBytes(n)) > 0
         /\ VarintBytes(n) \in 1..4
<1>1. n \in Nat /\ n <= 268435455
  BY SMT DEF MaxVarint
<1>2. /\ Digit(n, 1) = n % 128
      /\ Digit(n, 2) = (n \div 128) % 128
      /\ Digit(n, 3) = (n \div 16384) % 128
      /\ Digit(n, 4) = (n \div 2097152) % 128
  BY SMT, <1>1 DEF Digit, Weight
<1>3. \A i \in 1..4 : Digit(n, i) \in 0..127
  BY SMT, <1>1, <1>2
<1> DEFINE q1 == n \div 128
           q2 == n \div 16384
           q3 == n \div 2097152
<1>4. /\ q1 \in Nat /\ n = q1 * 128 + (n % 128)
      /\ q2 \in Nat /\ q2 = q1 \div 128
      /\ q3 \in Nat /\ q3 = q2 \div 128
  BY SMT, <1>1
<1>5. q3 < 128 /\ q3 % 128 = q3
  BY SMT, <1>1
<1>6. /\ n % 128 \in Nat /\ q1 % 128 \in Nat /\ q2 % 128 \in Nat
      /\ q1 = q2 * 128 + (q1 % 128) /\ q2 = q3 * 128 + (q2 % 128)
  BY SMT, <1>4
<1>7. /\ n < 2097152 => q3 = 0
      /\ n < 16384 => q2 = 0
      /\ n < 128 => q1 = 0
      /\ n >= 2097152 => q3 > 0
      /\ n >= 16384 /\ n < 2097152 => q2 > 0 /\ q2 < 128
      /\ n >= 128 /\ n < 16384 => q1 > 0 /\ q1 < 128
  BY SMT, <1>1
<1>8. Digit(n, 2) = q1 % 128 /\ Digit(n, 3) = q2 % 128 /\ Digit(n, 4) = q3
  BY SMT, <1>2, <1>5
<1> HIDE DEF q1, q2, q3
<1>9. (n % 128) + (q1 % 128) * 128 + (q2 % 128) * 16384 + q3 * 2097152 = n
  BY SMT, <1>4, <1>6
<1>10. /\ q1 \in Nat /\ q1 < 128 => q1 % 128 = q1
       /\ q2 \in Nat /\ q2 < 128 => q2 % 128 = q2
       /\ q1 = 0 => q1 % 128 = 0
       /\ q2 = 0 => q2 % 128 = 0
  BY SMT
<1>11. Digit(n, 1) * Weight[1] + Digit(n, 2) * Weight[2] + Digit(n, 3) * Weight[3]
         + Digit(n, 4) * Weight[4] = n
  BY SMT, <1>2, <1>3, <1>8, <1>9 DEF Weight
<1>12. VarintBytes(n) \in 1..4
  BY SMT, <1>1 DEF VarintBytes
<1>13. \A i \in 1..4 : i > VarintBytes(n) => Digit(n, i) = 0
  BY SMT, <1>1, <1>7, <1>8, <1>10 DEF VarintBytes
<1>14. VarintBytes(n) > 1 => Digit(n, VarintBytes(n)) > 0
  BY SMT, <1>1, <1>4, <1>7, <1>8, <1>10 DEF VarintBytes
<1>15. QED BY SMT, <1>3, <1>11, <1>12, <1>13, <1>14

\* The top bit of a byte can be told apart from its digit.
LEMMA TopBit ==
  ASSUME NEW d \in 0..127
  PROVE  /\ d % 128 = d /\ d < 128 /\ d \in Bytes
         /\ (d + 128) % 128 = d /\ d + 128 >= 128 /\ d + 128 \in Bytes
  BY SMT DEF Bytes

\* Of the four digits of a number that stands in a buffer none is lost, the last one is where
\* the reader looks for it, and it is not 0 if there are several.
LEMMA VarintStands ==
  ASSUME NEW n \in Nat, n <= MaxVarint,
         NEW b \in Seq(Bytes), NEW pos \in Nat, Holds(b, pos, Varint(n))
  PROVE  /\ VarintBytes(n) \in 1..4
         /\ pos + VarintBytes(n) <= Len(b)
         /\ \A k \in 1..4 : EndsWith(b, pos, k) <=> k = VarintBytes(n)
         /\ VarintValue(b, pos, VarintBytes(n)) = n
         /\ ~(VarintBytes(n) > 1 /\ b[pos + VarintBytes(n)] = 0)
<1> DEFINE m == VarintBytes(n)
           v == Varint(n)
<1>2. m \in 1..4
  BY DigitSum
<1>3. v = [i \in 1..m |-> Digit(n, i) + (IF i < 5 /\ More(n, i) THEN 128 ELSE 0)]
  BY VarintLength DEF Varint, Digit
<1>4. \A i \in 1..4 : Digit(n, i) \in 0..127
  BY DigitSum
<1>5. ASSUME NEW i \in 1..m
      PROVE  More(n, i) <=> i < m
  BY SMT, <1>2, MoreDigits DEF VarintBytes, MaxVarint
<1>6. m > 1 => Digit(n, m) > 0
  BY DigitSum
<1>7. \A i \in 1..4 : i > m => Digit(n, i) = 0
  BY DigitSum
<1> HIDE DEF m
<1>8. ASSUME NEW i \in 1..m
      PROVE  /\ v[i] \in Bytes /\ v[i] % 128 = Digit(n, i)
             /\ i < m => v[i] >= 128
             /\ i = m => v[i] = Digit(n, i)
  <2>1. i \in 1..4 /\ i < 5
    BY SMT, <1>2
  <2>2. v[i] = Digit(n, i) + (IF i < m THEN 128 ELSE 0)
    BY <1>3, <1>5, <2>1
  <2>3. PICK d \in 0..127 : d = Digit(n, i)
    BY <1>4, <2>1
  <2> HIDE DEF v
  <2>4. CASE i < m
    <3>1. v[i] = d + 128
      BY <2>2, <2>3, <2>4
    <3>2. i # m
      BY SMT, <1>2, <2>4
    <3>3. PICK e : e = d + 128
      OBVIOUS
    <3>4. e % 128 = d /\ e >= 128 /\ e \in Bytes
      BY <3>3, TopBit
    <3>5. v[i] = e
      BY <3>1, <3>3
    <3>6. QED BY Zenon, <2>3, <3>2, <3>4, <3>5
  <2>5. CASE ~(i < m)
    <3>1. d + 0 = d
      BY SMT
    <3>2. v[i] = d
      BY <2>2, <2>3, <2>5, <3>1
    <3>3. v[i] % 128 = d /\ v[i] \in Bytes
      BY <3>2, TopBit
    <3>4. QED BY <2>3, <2>5, <3>2, <3>3
  <2>6. QED BY <2>4, <2>5
<1>9. Len(v) = m
  BY VarintWritten DEF m
<1> HIDE DEF v
<1>10. pos + m <= Len(b) /\ \A i \in 1..m : b[pos + i] = v[i]
  BY <1>9 DEF Holds, v
<1>11. m \in 1..m /\ m \in Int
  BY SMT, <1>2
<1>12. /\ \A i \in 1..m : /\ b[pos + i] \in Int /\ b[pos + i] % 128 = Digit(n, i)
                          /\ i < m => b[pos + i] >= 128
       /\ b[pos + m] = Digit(n, m) /\ b[pos + m] < 128
  <2>1. \A byte \in Bytes : byte \in Int
    BY SMT DEF Bytes
  <2>2. m \in 1..4
    BY <1>2
  <2>3. b[pos + m] = Digit(n, m)
    BY <1>8, <1>10, <1>11
  <2>4. Digit(n, m) < 128
    BY <1>4, <2>2, TopBit
  <2>5. QED BY <1>8, <1>10, <2>1, <2>3, <2>4
<1>13. EndsWith(b, pos, m)
  <2>1. \A i \in 1..m - 1 : i \in 1..m /\ i < m
    BY SMT, <1>2
  <2>2. QED BY Zenon, <1>10, <1>12, <2>1 DEF EndsWith
<1>14. ASSUME NEW k \in 1..4, EndsWith(b, pos, k)
       PROVE  k = m
  <2>1. /\ b[pos + k] < 128
        /\ \A i \in 1..k - 1 : b[pos + i] >= 128
    BY <1>14 DEF EndsWith
  <2>2. CASE k < m
    <3>1. k \in 1..m
      BY SMT, <1>2, <2>2
    <3>2. PICK x \in Int : x = b[pos + k]
      BY <1>12, <3>1
    <3>3. x < 128 /\ x >= 128
      BY <1>12, <2>1, <2>2, <3>1, <3>2
    <3>4. QED BY SMT, <3>3
  <2>3. CASE m < k
    <3>1. m \in 1..k - 1
      BY SMT, <1>2, <2>3
    <3>2. PICK x \in Int : x = b[pos + m]
      BY <1>11, <1>12
    <3>3. x < 128 /\ x >= 128
      BY <1>12, <2>1, <3>1, <3>2
    <3>4. QED BY SMT, <3>3
  <2>4. QED BY SMT, <1>2, <2>2, <2>3
<1>16. ~(m > 1 /\ b[pos + m] = 0)
  <2>1. Digit(n, m) \in 0..127
    BY <1>2, <1>4
  <2>2. QED BY SMT, <1>6, <1>12, <2>1
<1>17. VarintValue(b, pos, m) = n
  <2> DEFINE part(i) == IF i <= m THEN (b[pos + i] % 128) * Weight[i] ELSE 0
  <2>1. VarintValue(b, pos, m) = part(1) + part(2) + part(3) + part(4)
    BY DEF VarintValue
  <2>2. ASSUME NEW i \in 1..4
        PROVE  part(i) = Digit(n, i) * Weight[i]
    <3>1. Weight[i] \in Int
      BY SMT DEF Weight
    <3>2. CASE i <= m
      <4>1. i \in 1..m
        BY SMT, <3>2, <1>2
      <4>2. QED BY <1>12, <3>2, <4>1
    <3>3. CASE ~(i <= m)
      <4>1. Digit(n, i) = 0
        BY SMT, <1>2, <1>7, <3>3
      <4>2. Digit(n, i) * Weight[i] = 0
        BY SMT, <3>1, <4>1
      <4>3. QED BY <3>3, <4>2
    <3>4. QED BY <3>2, <3>3
  <2>3. 1 \in 1..4 /\ 2 \in 1..4 /\ 3 \in 1..4 /\ 4 \in 1..4
    BY SMT
  <2> HIDE DEF part
  <2>4. /\ part(1) = Digit(n, 1) * Weight[1] /\ part(2) = Digit(n, 2) * Weight[2]
        /\ part(3) = Digit(n, 3) * Weight[3] /\ part(4) = Digit(n, 4) * Weight[4]
    BY <2>2, <2>3
  <2>5. QED BY <2>1, <2>4, DigitSum
<1>18. \A k \in 1..4 : EndsWith(b, pos, k) <=> k = m
  BY <1>13, <1>14
<1>19. QED BY <1>2, <1>10, <1>16, <1>17, <1>18 DEF m

\* packet__read_varint returns what packet__write_varint has written and the position
\* behind it, wherever it stands: of the four digits none is lost, and the last of several
\* is never the 0 that the reader refuses (packet_datatypes.c:202-255).
THEOREM VarintRoundTrip ==
  ASSUME NEW n \in Nat, n <= MaxVarint,
         NEW b \in Seq(Bytes), NEW pos \in Nat, Holds(b, pos, Varint(n))
  PROVE  ReadVarint(b, pos) = Ok(n, pos + VarintBytes(n))
<1> DEFINE m == VarintBytes(n)
           k == CHOOSE k \in 1..4 : EndsWith(b, pos, k)
<1>1. /\ m \in 1..4
      /\ \A j \in 1..4 : EndsWith(b, pos, j) <=> j = m
      /\ VarintValue(b, pos, m) = n
      /\ ~(m > 1 /\ b[pos + m] = 0)
  BY VarintStands
<1> HIDE DEF m
<1>2. k = m /\ \E j \in 1..4 : EndsWith(b, pos, j)
  BY <1>1
<1>3. ReadVarint(b, pos) = IF k > 1 /\ b[pos + k] = 0 THEN Err("PROTOCOL")
                           ELSE Ok(VarintValue(b, pos, k), pos + k)
  BY <1>2 DEF ReadVarint
<1> HIDE DEF k
<1>4. QED BY <1>1, <1>2, <1>3 DEF m

-----------------------------------------------------------------------------
(* Anywhere in a buffer                                                    *)

\* Two bytes are read back at any position.
LEMMA Uint16ReadBack ==
  ASSUME NEW n \in Short, NEW b \in Seq(Bytes), NEW pos \in Nat, Holds(b, pos, Uint16(n))
  PROVE  ReadUint16(b, pos) = Ok(n, pos + 2)
<1>1. /\ (n \div 256) % 256 = n \div 256 /\ n = (n \div 256) * 256 + (n % 256)
      /\ n \in Nat
  BY SMT DEF Short
<1> DEFINE u == Uint16(n)
<1>2. Len(u) = 2 /\ u[1] = (n \div 256) % 256 /\ u[2] = n % 256
  BY SMT, <1>1 DEF Uint16
<1>3. Len(b) \in Nat
  BY LenProperties
<1>4. pos + Len(u) <= Len(b) /\ \A i \in 1..Len(u) : b[pos + i] = u[i]
  BY DEF Holds
<1> HIDE DEF u
<1>5. pos + 2 <= Len(b) /\ b[pos + 1] = n \div 256 /\ b[pos + 2] = n % 256
  BY SMT, <1>1, <1>2, <1>4
<1>6. ReadUint16(b, pos) = Ok(b[pos + 1] * 256 + b[pos + 2], pos + 2)
  BY SMT, <1>3, <1>5 DEF ReadUint16
<1>7. QED BY <1>1, <1>5, <1>6

\* packet__read_uint32 returns what packet__write_uint32 has written, wherever it stands
\* (packet_datatypes.c:174-199).
THEOREM Uint32RoundTrip ==
  ASSUME NEW n \in Word, NEW b \in Seq(Bytes), NEW pos \in Nat, Holds(b, pos, Uint32(n))
  PROVE  ReadUint32(b, pos) = Ok(n, pos + 4)
<1> DEFINE q1 == n \div 256
           q2 == n \div 65536
           q3 == n \div 16777216
           u == Uint32(n)
<1>1. n \in Nat /\ n < 4294967296
  BY SMT DEF Word
<1>2. /\ q1 \in Nat /\ n = q1 * 256 + (n % 256)
      /\ q2 \in Nat /\ q2 = q1 \div 256
      /\ q3 \in Nat /\ q3 = q2 \div 256
      /\ q3 % 256 = q3
      /\ n % 256 \in Nat
  BY SMT, <1>1
<1>3. Len(u) = 4 /\ u[1] = q3 % 256 /\ u[2] = q2 % 256 /\ u[3] = q1 % 256 /\ u[4] = n % 256
  BY SMT, <1>1 DEF Uint32, Uint16
<1>4. pos + Len(u) <= Len(b) /\ \A i \in 1..Len(u) : b[pos + i] = u[i]
  BY DEF Holds
<1>5. Len(b) \in Nat
  BY LenProperties
<1> HIDE DEF u, q1, q2, q3
<1>6. /\ q1 = q2 * 256 + (q1 % 256) /\ q2 = q3 * 256 + (q2 % 256)
      /\ q1 % 256 \in Nat /\ q2 % 256 \in Nat
  BY SMT, <1>2
<1>7. /\ pos + 4 <= Len(b)
      /\ b[pos + 1] = q3 /\ b[pos + 2] = q2 % 256 /\ b[pos + 3] = q1 % 256
      /\ b[pos + 4] = n % 256
  <2>1. pos + 4 <= Len(b)
    BY <1>3, <1>4
  <2>2. b[pos + 1] = u[1] /\ b[pos + 2] = u[2] /\ b[pos + 3] = u[3] /\ b[pos + 4] = u[4]
    <3>1. 1 \in 1..4 /\ 2 \in 1..4 /\ 3 \in 1..4 /\ 4 \in 1..4
      BY SMT
    <3>2. QED BY <1>3, <1>4, <3>1
  <2>3. QED BY <1>2, <1>3, <2>1, <2>2
<1>8. ReadUint32(b, pos) =
        Ok(b[pos + 1] * 16777216 + b[pos + 2] * 65536 + b[pos + 3] * 256 + b[pos + 4], pos + 4)
  BY SMT, <1>5, <1>7 DEF ReadUint32
<1>9. q3 * 16777216 + (q2 % 256) * 65536 + (q1 % 256) * 256 + (n % 256) = n
  BY SMT, <1>2, <1>6
<1>10. QED BY <1>7, <1>8, <1>9

-----------------------------------------------------------------------------
(* Binary data and strings                                                 *)

\* packet__read_binary is packet__read_uint16 followed by the bytes that it announces.
LEMMA BinaryReads ==
  ASSUME NEW b, NEW pos
  PROVE  ReadBinary(b, pos) =
           LET r == ReadUint16(b, pos) IN
           IF Succeeds(r) THEN Take(b, r.pos, r.value) ELSE r
<1> DEFINE read == ReadUint16(b, pos)
           e == IF Succeeds(read) THEN Take(b, read.pos, read.value) ELSE read
           S == {IF Succeeds(r) THEN Take(b, r.pos, r.value) ELSE r : r \in {read}}
<1>1. ReadBinary(b, pos) = CHOOSE x \in S : TRUE
  BY DEF ReadBinary, Then, The
<1>2. S = {e}
  OBVIOUS
<1>3. QED BY <1>1, <1>2

\* packet__read_string is packet__read_binary followed by the validation.
LEMMA StringReads ==
  ASSUME NEW b, NEW pos
  PROVE  ReadString(b, pos) =
           LET r == ReadBinary(b, pos) IN
           IF Succeeds(r)
           THEN IF ValidUtf8(r.value) THEN Ok(r.value, r.pos) ELSE Err("MALFORMED_UTF8")
           ELSE r
<1> DEFINE read == ReadBinary(b, pos)
           F(r) == IF Succeeds(r)
                   THEN IF ValidUtf8(r.value) THEN Ok(r.value, r.pos) ELSE Err("MALFORMED_UTF8")
                   ELSE r
           S == {F(r) : r \in {read}}
<1>1. ReadString(b, pos) = CHOOSE x \in S : TRUE
  BY DEF ReadString, Then, The
<1> HIDE DEF F
<1>2. S = {F(read)}
  OBVIOUS
<1>3. ReadString(b, pos) = F(read)
  BY <1>1, <1>2
<1>4. QED BY <1>3 DEF F

\* The length of a text is two bytes.
LEMMA TwoBytes ==
  ASSUME NEW n \in Short
  PROVE  Uint16(n) \in Seq(Bytes) /\ Len(Uint16(n)) = 2
<1>1. (n \div 256) % 256 \in Bytes /\ n % 256 \in Bytes
  BY SMT DEF Bytes, Short
<1>2. QED BY SMT, <1>1 DEF Uint16

\* The length of a value of two bytes is not cut off.
LEMMA ShortUncut ==
  ASSUME NEW n \in Short
  PROVE  n % 65536 = n
  BY SMT DEF Short

\* A text shorter than 65536 bytes is its length and all of its bytes.
LEMMA TextWritten ==
  ASSUME NEW s \in Seq(Bytes), Len(s) \in Short
  PROVE  StringBytes(s) = Uint16(Len(s)) \o s
<1> DEFINE cut == Len(s) % 65536
<1>1. cut = Len(s)
  BY ShortUncut
<1>2. StringBytes(s) = Uint16(cut) \o SubSeq(s, 1, cut)
  BY DEF StringBytes
<1>3. SubSeq(s, 1, Len(s)) = s
  BY SubSeqFull
<1> HIDE DEF cut
<1>4. QED BY <1>1, <1>2, <1>3

\* Behind the two bytes come those of the text.
LEMMA BehindTwo ==
  ASSUME NEW u \in Seq(Bytes), Len(u) = 2, NEW s \in Seq(Bytes)
  PROVE  /\ Len(u \o s) = 2 + Len(s)
         /\ \A i \in 1..2 : (u \o s)[i] = u[i]
         /\ \A i \in 1..Len(s) : (u \o s)[2 + i] = s[i]
<1> DEFINE w == u \o s
<1>1. Len(s) \in Nat
  BY LenProperties
<1>2. /\ Len(w) = Len(u) + Len(s)
      /\ \A i \in 1..Len(u) + Len(s) : w[i] = IF i <= Len(u) THEN u[i] ELSE s[i - Len(u)]
  BY ConcatProperties
<1> HIDE DEF w
<1>3. QED BY SMT, <1>1, <1>2 DEF w

\* packet__read_binary returns the bytes that packet__write_string has written behind their
\* length, and the position behind them: shorter than 65536 bytes, nothing is cut off
\* (packet_datatypes.c:91-119, packet_datatypes.c:141-146).
THEOREM BinaryRoundTrip ==
  ASSUME NEW s \in Seq(Bytes), Len(s) \in Short,
         NEW b \in Seq(Bytes), NEW pos \in Nat, Holds(b, pos, StringBytes(s))
  PROVE  ReadBinary(b, pos) = Ok(s, pos + 2 + Len(s))
<1> DEFINE n == Len(s)
           u == Uint16(n)
<1>1. n \in Short /\ n \in Nat
  BY SMT, LenProperties DEF Short
<1>2. StringBytes(s) = u \o s
  BY TextWritten
<1>3. u \in Seq(Bytes) /\ Len(u) = 2
  BY <1>1, TwoBytes
<1>4. Len(b) \in Nat
  BY LenProperties
<1>5. /\ pos + Len(u \o s) <= Len(b)
      /\ \A i \in 1..Len(u \o s) : b[pos + i] = (u \o s)[i]
  BY <1>2 DEF Holds
<1> HIDE DEF u
<1>6. /\ Len(u \o s) = 2 + n
      /\ \A i \in 1..2 : (u \o s)[i] = u[i]
      /\ \A i \in 1..n : (u \o s)[2 + i] = s[i]
  BY <1>3, BehindTwo
<1> HIDE DEF n
<1>7. Holds(b, pos, u)
  <2>1. pos + 2 <= Len(b) /\ \A i \in 1..2 : i \in 1..Len(u \o s)
    BY SMT, <1>1, <1>4, <1>5, <1>6
  <2>2. QED BY <1>3, <1>5, <1>6, <2>1 DEF Holds
<1>8. ReadUint16(b, pos) = Ok(n, pos + 2)
  BY <1>1, <1>7, Uint16ReadBack DEF u
<1>9. ReadBinary(b, pos) = Take(b, pos + 2, n)
  BY <1>8, BinaryReads DEF Ok, Succeeds
<1>10. pos + 2 + n <= Len(b) /\ pos + 2 \in Nat
  BY SMT, <1>1, <1>4, <1>5, <1>6
<1>11. SubSeq(b, pos + 2 + 1, pos + 2 + n) = s
  <2>1. \A i \in 1..n : b[pos + 2 + i] = s[i]
    <3>1. ASSUME NEW i \in 1..n
          PROVE  2 + i \in 1..Len(u \o s) /\ pos + (2 + i) = pos + 2 + i
      BY SMT, <1>1, <1>6
    <3>2. QED BY <1>5, <1>6, <3>1
  <2> DEFINE from == pos + 2 + 1
             to == pos + 2 + n
             q == SubSeq(b, from, to)
  <2>2. from \in Int /\ to \in Int /\ \A i \in from..to : i \in 1..Len(b)
    BY SMT, <1>1, <1>4, <1>10
  <2>3. \A i \in from..to : b[i] \in Bytes
    BY <2>2, ElementOfSeq
  <2>4. /\ q \in Seq(Bytes)
        /\ Len(q) = IF from <= to THEN to - from + 1 ELSE 0
        /\ \A i \in 1..to - from + 1 : q[i] = b[from + i - 1]
    <3> HIDE DEF from, to
    <3>1. QED BY <2>2, <2>3, SubSeqProperties DEF q
  <2> HIDE DEF q
  <2>5. Len(q) = n /\ \A i \in 1..n : q[i] = b[pos + 2 + i]
    <3>1. to - from + 1 = n /\ (from <= to <=> n > 0)
      BY SMT, <1>1
    <3>2. ASSUME NEW i \in 1..n
          PROVE  from + i - 1 = pos + 2 + i
      BY SMT, <1>1
    <3> HIDE DEF from, to
    <3>3. Len(q) = n
      BY SMT, <1>1, <2>4, <3>1
    <3>4. QED BY <2>4, <3>1, <3>2, <3>3
  <2>6. Len(s) = n
    BY DEF n
  <2>7. q = s
    BY <2>1, <2>4, <2>5, <2>6, SeqEqual
  <2>8. QED BY <2>7 DEF q
<1>12. Take(b, pos + 2, n) = Ok(s, pos + 2 + n)
  <2>1. ~(pos + 2 + n > Len(b))
    BY SMT, <1>1, <1>4, <1>10
  <2>2. QED BY Zenon, <1>11, <2>1 DEF Take
<1>13. QED BY <1>9, <1>12 DEF n

\* packet__read_string returns the text that packet__write_string has written exactly when
\* it is valid UTF-8, and refuses it otherwise: it is never changed
\* (packet_datatypes.c:122-146).
THEOREM StringRoundTrip ==
  ASSUME NEW s \in Seq(Bytes), Len(s) \in Short,
         NEW b \in Seq(Bytes), NEW pos \in Nat, Holds(b, pos, StringBytes(s))
  PROVE  ReadString(b, pos) =
           IF ValidUtf8(s) THEN Ok(s, pos + 2 + Len(s)) ELSE Err("MALFORMED_UTF8")
<1>1. ReadBinary(b, pos) = Ok(s, pos + 2 + Len(s))
  BY BinaryRoundTrip
<1>2. QED BY <1>1, StringReads DEF Ok, Succeeds

-----------------------------------------------------------------------------
(* Whatever the bytes are                                                  *)

\* A reader that succeeds has read something, and nothing behind the end of the buffer;
\* what it returns is in Values.
ReadsInside(r, b, pos, Values) ==
  Succeeds(r) => r.pos \in pos + 1..Len(b) /\ r.value \in Values

\* What bytes and digits can be put together to.
LEMMA DigitOfByte == \A x \in Bytes : x % 128 \in 0..127
  BY SMT DEF Bytes

LEMMA ShortOfBytes == \A x, y \in Bytes : x * 256 + y \in Short
  BY SMT DEF Bytes, Short

LEMMA WordOfBytes ==
  ASSUME NEW w \in Bytes, NEW x \in Bytes, NEW y \in Bytes, NEW z \in Bytes
  PROVE  w * 16777216 + x * 65536 + y * 256 + z \in Word
  BY SMT DEF Bytes, Word

\* A variable byte integer stays within its four digits.
LEMMA VarintInside ==
  ASSUME NEW b \in Seq(Bytes), NEW pos \in 0..Len(b)
  PROVE  ReadsInside(ReadVarint(b, pos), b, pos, 0..MaxVarint)
<1>1. Len(b) \in Nat
  BY LenProperties
<1>2. CASE ~\E k \in 1..4 : EndsWith(b, pos, k)
  <2>1. ReadVarint(b, pos) = Err("PROTOCOL")
    BY <1>2 DEF ReadVarint
  <2>2. QED BY <2>1 DEF ReadsInside, Succeeds, Err
<1>3. CASE \E k \in 1..4 : EndsWith(b, pos, k)
  <2> DEFINE k == CHOOSE k \in 1..4 : EndsWith(b, pos, k)
  <2>1. k \in 1..4 /\ EndsWith(b, pos, k)
    BY <1>3
  <2>2. ReadVarint(b, pos) = IF k > 1 /\ b[pos + k] = 0 THEN Err("PROTOCOL")
                             ELSE Ok(VarintValue(b, pos, k), pos + k)
    BY <1>3 DEF ReadVarint
  <2> HIDE DEF k
  <2>3. pos + k \in pos + 1..Len(b)
    BY SMT, <1>1, <2>1 DEF EndsWith
  <2>4. VarintValue(b, pos, k) \in 0..MaxVarint
    <3> DEFINE part(i) == IF i <= k THEN (b[pos + i] % 128) * Weight[i] ELSE 0
    <3>1. VarintValue(b, pos, k) = part(1) + part(2) + part(3) + part(4)
      BY DEF VarintValue
    <3>2. ASSUME NEW i \in 1..4, i <= k
          PROVE  b[pos + i] % 128 \in 0..127
      <4>1. pos + i \in 1..Len(b)
        BY SMT, <1>1, <2>1, <2>3, <3>2
      <4>2. b[pos + i] \in Bytes
        BY <4>1, ElementOfSeq
      <4>3. QED BY Zenon, <4>2, DigitOfByte
    <3> DEFINE digit(i) == IF i <= k THEN b[pos + i] % 128 ELSE 0
    <3>3. \A i \in 1..4 : digit(i) \in 0..127
      <4>1. 0 \in 0..127
        BY SMT
      <4>2. QED BY <3>2, <4>1
    <3>4. ASSUME NEW i \in 1..4
          PROVE  part(i) = digit(i) * Weight[i]
      <4>1. Weight[i] \in Int
        BY SMT DEF Weight
      <4>2. 0 * Weight[i] = 0
        BY SMT, <4>1
      <4>3. QED BY Zenon, <4>2
    <3> HIDE DEF part, digit
    <3>5. /\ part(1) + part(2) + part(3) + part(4) \in Nat
          /\ part(1) + part(2) + part(3) + part(4) <= MaxVarint
      <4>1. 1 \in 1..4 /\ 2 \in 1..4 /\ 3 \in 1..4 /\ 4 \in 1..4
        BY SMT
      <4>2. /\ Weight[1] = 1 /\ Weight[2] = 128 /\ Weight[3] = 16384 /\ Weight[4] = 2097152
        BY SMT DEF Weight
      <4>3. /\ part(1) = digit(1) * Weight[1] /\ part(2) = digit(2) * Weight[2]
            /\ part(3) = digit(3) * Weight[3] /\ part(4) = digit(4) * Weight[4]
        BY <3>4, <4>1
      <4>4. PICK d1 \in 0..127 : d1 = digit(1)
        BY <3>3, <4>1
      <4>5. PICK d2 \in 0..127 : d2 = digit(2)
        BY <3>3, <4>1
      <4>6. PICK d3 \in 0..127 : d3 = digit(3)
        BY <3>3, <4>1
      <4>7. PICK d4 \in 0..127 : d4 = digit(4)
        BY <3>3, <4>1
      <4>8. part(1) + part(2) + part(3) + part(4)
              = d1 * 1 + d2 * 128 + d3 * 16384 + d4 * 2097152
        BY SMT, <4>2, <4>3, <4>4, <4>5, <4>6, <4>7
      <4>9. PICK value : value = d1 * 1 + d2 * 128 + d3 * 16384 + d4 * 2097152
        OBVIOUS
      <4>10. value \in Nat /\ value <= MaxVarint
        BY SMT, <4>9 DEF MaxVarint
      <4>11. QED BY SMT, <4>8, <4>9, <4>10
    <3>6. MaxVarint \in Nat
      BY SMT DEF MaxVarint
    <3>7. \A value \in Nat : value <= MaxVarint => value \in 0..MaxVarint
      BY SMT, <3>6
    <3>8. QED BY <3>1, <3>5, <3>7
  <2>5. QED BY <2>2, <2>3, <2>4 DEF ReadsInside, Succeeds, Ok, Err
<1>4. QED BY <1>2, <1>3

\* Whatever a packet holds, no reader of its data types leaves the position behind
\* the end of the packet, and what it returns fits the type it is stored in
\* (packet_datatypes.c:47-232).
THEOREM ReadersStayInside ==
  ASSUME NEW b \in Seq(Bytes), NEW pos \in 0..Len(b)
  PROVE  /\ ReadsInside(ReadByte(b, pos), b, pos, Bytes)
         /\ ReadsInside(ReadUint16(b, pos), b, pos, Short)
         /\ ReadsInside(ReadUint32(b, pos), b, pos, Word)
         /\ ReadsInside(ReadVarint(b, pos), b, pos, 0..MaxVarint)
         /\ ReadsInside(ReadBinary(b, pos), b, pos, Seq(Bytes))
         /\ ReadsInside(ReadString(b, pos), b, pos, Seq(Bytes))
<1>1. Len(b) \in Nat /\ pos \in Nat
  BY SMT, LenProperties
<1>2. \A i \in 1..Len(b) : b[i] \in Bytes
  BY ElementOfSeq
<1>3. ReadsInside(ReadByte(b, pos), b, pos, Bytes)
  <2>1. CASE pos + 1 > Len(b)
    BY <2>1 DEF ReadByte, ReadsInside, Succeeds, Err
  <2>2. CASE ~(pos + 1 > Len(b))
    <3>1. pos + 1 \in 1..Len(b) /\ pos + 1 \in pos + 1..Len(b)
      BY SMT, <1>1, <2>2
    <3>2. QED BY <1>2, <2>2, <3>1 DEF ReadByte, ReadsInside, Succeeds, Ok
  <2>3. QED BY <2>1, <2>2
<1>4. ReadsInside(ReadUint16(b, pos), b, pos, Short)
  <2>1. CASE pos + 2 > Len(b)
    BY <2>1 DEF ReadUint16, ReadsInside, Succeeds, Err
  <2>2. CASE ~(pos + 2 > Len(b))
    <3>1. pos + 1 \in 1..Len(b) /\ pos + 2 \in 1..Len(b) /\ pos + 2 \in pos + 1..Len(b)
      BY SMT, <1>1, <2>2
    <3>2. b[pos + 1] \in Bytes /\ b[pos + 2] \in Bytes
      BY <1>2, <3>1
    <3>3. b[pos + 1] * 256 + b[pos + 2] \in Short
      BY Zenon, <3>2, ShortOfBytes
    <3>4. QED BY <2>2, <3>1, <3>3 DEF ReadUint16, ReadsInside, Succeeds, Ok
  <2>3. QED BY <2>1, <2>2
<1>5. ReadsInside(ReadUint32(b, pos), b, pos, Word)
  <2>1. CASE pos + 4 > Len(b)
    BY <2>1 DEF ReadUint32, ReadsInside, Succeeds, Err
  <2>2. CASE ~(pos + 4 > Len(b))
    <3>1. /\ \A i \in 1..4 : pos + i \in 1..Len(b)
          /\ pos + 4 \in pos + 1..Len(b)
      BY SMT, <1>1, <2>2
    <3>2. \A i \in 1..4 : b[pos + i] \in Bytes
      BY <1>2, <3>1
    <3>3. b[pos + 1] * 16777216 + b[pos + 2] * 65536 + b[pos + 3] * 256 + b[pos + 4] \in Word
      <4>1. 1 \in 1..4 /\ 2 \in 1..4 /\ 3 \in 1..4 /\ 4 \in 1..4
        BY SMT
      <4>2. /\ b[pos + 1] \in Bytes /\ b[pos + 2] \in Bytes
            /\ b[pos + 3] \in Bytes /\ b[pos + 4] \in Bytes
        BY <3>2, <4>1
      <4>3. PICK x1 \in Bytes : x1 = b[pos + 1]
        BY <4>2
      <4>4. PICK x2 \in Bytes : x2 = b[pos + 2]
        BY <4>2
      <4>5. PICK x3 \in Bytes : x3 = b[pos + 3]
        BY <4>2
      <4>6. PICK x4 \in Bytes : x4 = b[pos + 4]
        BY <4>2
      <4>7. x1 * 16777216 + x2 * 65536 + x3 * 256 + x4 \in Word
        BY WordOfBytes
      <4>8. QED BY SMT, <4>3, <4>4, <4>5, <4>6, <4>7
    <3>4. QED BY <2>2, <3>1, <3>3 DEF ReadUint32, ReadsInside, Succeeds, Ok
  <2>3. QED BY <2>1, <2>2
<1>6. ReadsInside(ReadVarint(b, pos), b, pos, 0..MaxVarint)
  BY VarintInside
<1>7. ReadsInside(ReadBinary(b, pos), b, pos, Seq(Bytes))
  <2> DEFINE r == ReadUint16(b, pos)
  <2>1. ReadBinary(b, pos) = IF Succeeds(r) THEN Take(b, r.pos, r.value) ELSE r
    BY BinaryReads
  <2>2. Succeeds(r) => r.pos \in pos + 1..Len(b) /\ r.value \in Short
    BY <1>4 DEF ReadsInside
  <2> HIDE DEF r
  <2>3. CASE ~Succeeds(r)
    BY <2>1, <2>3 DEF ReadsInside
  <2>4. CASE Succeeds(r)
    <3>1. PICK p \in pos + 1..Len(b) : p = r.pos
      BY <2>2, <2>4
    <3>2. PICK len \in Short : len = r.value
      BY <2>2, <2>4
    <3>3. p \in Nat /\ len \in Nat /\ pos + 1 <= p
      BY SMT, <1>1 DEF Short
    <3>4. CASE p + len > Len(b)
      BY <2>1, <2>4, <3>1, <3>2, <3>4 DEF Take, ReadsInside, Succeeds, Err
    <3>5. CASE ~(p + len > Len(b))
      <4>1. p + len \in pos + 1..Len(b)
        BY SMT, <1>1, <3>3, <3>5
      <4>2. SubSeq(b, p + 1, p + len) \in Seq(Bytes)
        BY SMT, <1>1, <3>3, <4>1
      <4>3. ReadBinary(b, pos) = Ok(SubSeq(b, p + 1, p + len), p + len)
        BY <2>1, <2>4, <3>1, <3>2, <3>5 DEF Take
      <4>4. QED BY <4>1, <4>2, <4>3 DEF ReadsInside, Succeeds, Ok
    <3>6. QED BY <3>4, <3>5
  <2>5. QED BY <2>3, <2>4
<1>8. ReadsInside(ReadString(b, pos), b, pos, Seq(Bytes))
  <2> DEFINE r == ReadBinary(b, pos)
  <2>1. ReadString(b, pos) =
          IF Succeeds(r)
          THEN IF ValidUtf8(r.value) THEN Ok(r.value, r.pos) ELSE Err("MALFORMED_UTF8")
          ELSE r
    BY StringReads
  <2> HIDE DEF r
  <2>2. Succeeds(r) => r.pos \in pos + 1..Len(b) /\ r.value \in Seq(Bytes)
    BY <1>7 DEF ReadsInside, r
  <2>3. QED BY <2>1, <2>2 DEF ReadsInside, Succeeds, Ok, Err
<1>9. QED BY <1>3, <1>4, <1>5, <1>6, <1>7, <1>8

-----------------------------------------------------------------------------
(* What an encoder reckons and what it writes                              *)

\* None of the texts is longer than its two bytes of length can say.
Uncut(texts) == \A s \in texts : Len(s) < 65536

\* n is reckoned for u, which has these texts: it is the length of u unless one of them is
\* cut off, and then it is more.
Reckoned(S, n, u, texts) ==
  /\ n \in Nat /\ u \in Seq(S)
  /\ Len(u) <= n
  /\ Len(u) = n <=> Uncut(texts)

\* A part without texts.
LEMMA ReckonExact ==
  ASSUME NEW S, NEW u \in Seq(S)
  PROVE  Reckoned(S, Len(u), u, {})
<1>1. Len(u) \in Nat /\ Len(u) <= Len(u)
  BY SMT, LenProperties
<1>2. QED BY <1>1 DEF Reckoned, Uncut

\* Sequences put together.
LEMMA Together ==
  ASSUME NEW S, NEW u \in Seq(S), NEW v \in Seq(S)
  PROVE  u \o v \in Seq(S) /\ Len(u \o v) = Len(u) + Len(v)
  BY ConcatProperties

\* Two parts, one behind the other.
LEMMA ReckonBoth ==
  ASSUME NEW S, NEW n1, NEW u1, NEW t1, NEW n2, NEW u2, NEW t2,
         Reckoned(S, n1, u1, t1), Reckoned(S, n2, u2, t2)
  PROVE  Reckoned(S, n1 + n2, u1 \o u2, t1 \cup t2)
<1>1. u1 \o u2 \in Seq(S) /\ Len(u1 \o u2) = Len(u1) + Len(u2)
  BY Together DEF Reckoned
<1>2. Len(u1) \in Nat /\ Len(u2) \in Nat
  BY LenProperties DEF Reckoned
<1>3. Uncut(t1 \cup t2) <=> Uncut(t1) /\ Uncut(t2)
  BY DEF Uncut
<1>4. PICK a \in Nat, b \in Nat, l \in Nat, m \in Nat : a = n1 /\ b = n2 /\ l = Len(u1) /\ m = Len(u2)
  BY <1>2 DEF Reckoned
<1>5. /\ l <= a /\ m <= b
      /\ l = a <=> Uncut(t1)
      /\ m = b <=> Uncut(t2)
  BY <1>4 DEF Reckoned
<1>6. a + b \in Nat /\ l + m <= a + b /\ (l + m = a + b <=> l = a /\ m = b)
  BY SMT, <1>5
<1>7. QED BY <1>1, <1>3, <1>4, <1>5, <1>6 DEF Reckoned

\* A part that is not there.
LEMMA ReckonNone ==
  ASSUME NEW S
  PROVE  Reckoned(S, 0, <<>>, {})
<1>1. <<>> \in Seq(S) /\ Len(<<>>) = 0 /\ 0 \in Nat /\ 0 <= 0
  BY SMT
<1>2. QED BY <1>1 DEF Reckoned, Uncut

\* Bytes are numbers.
LEMMA ReckonWider ==
  ASSUME NEW S, NEW R, S \subseteq R, NEW n, NEW u, NEW texts, Reckoned(S, n, u, texts)
  PROVE  Reckoned(R, n, u, texts)
<1>1. u \in Seq(R)
  BY SMT DEF Reckoned
<1>2. QED BY <1>1 DEF Reckoned

\* packet__write_string.
LEMMA ReckonString ==
  ASSUME NEW s \in Seq(Bytes)
  PROVE  Reckoned(Bytes, 2 + Len(s), StringBytes(s), {s})
<1>1. PICK l \in Nat : l = Len(s)
  BY LenProperties
<1>2. l % 65536 \in Short /\ l % 65536 <= l /\ l % 65536 \in Nat /\ (l % 65536 = l <=> l < 65536)
  BY SMT DEF Short
<1>3. StringBytes(s) = Uint16(l % 65536) \o SubSeq(s, 1, l % 65536)
  BY <1>1 DEF StringBytes
<1>4. PICK m \in Nat : m = l % 65536
  BY <1>2
<1>5. SubSeq(s, 1, m) \in Seq(Bytes) /\ Len(SubSeq(s, 1, m)) = m
  <2>1. \A i \in 1..m : i \in 1..Len(s)
    BY SMT, <1>1, <1>2, <1>4
  <2>2. \A i \in 1..m : s[i] \in Bytes
    BY <2>1, ElementOfSeq
  <2>3. 1 \in Int /\ m \in Int /\ (IF 1 <= m THEN m - 1 + 1 ELSE 0) = m
    BY SMT
  <2>4. QED BY <2>2, <2>3, SubSeqProperties
<1>6. Uint16(m) \in Seq(Bytes) /\ Len(Uint16(m)) = 2
  BY <1>2, <1>4, TwoBytes
<1> DEFINE len == Uint16(m)
           text == SubSeq(s, 1, m)
<1>7. Len(StringBytes(s)) = 2 + m /\ StringBytes(s) \in Seq(Bytes)
  <2>1. StringBytes(s) = len \o text
    BY <1>3, <1>4
  <2>2. len \in Seq(Bytes) /\ text \in Seq(Bytes) /\ Len(len) = 2 /\ Len(text) = m
    BY <1>5, <1>6
  <2> HIDE DEF len, text
  <2>3. QED BY <2>1, <2>2, Together
<1>8. 2 + l \in Nat /\ 2 + m <= 2 + l /\ (2 + m = 2 + l <=> l < 65536)
  BY SMT, <1>2, <1>4
<1>9. QED BY <1>1, <1>7, <1>8 DEF Reckoned, Uncut

-----------------------------------------------------------------------------
(* Properties                                                              *)

\* What a property can be: its type tells apart its cases.
LEMMA PropertyKinds ==
  ASSUME NEW p \in Property
  PROVE  /\ p.id \in 1..42 /\ p = Prop(p.id, p.value)
         /\ \/ /\ p.id \in ByteProperties /\ p.value \in Bytes
               /\ p.id \notin Int16Properties /\ p.id \notin Int32Properties
               /\ p.id \notin BinaryProperties /\ p.id \notin StringProperties
               /\ p.id # SubscriptionIdentifier /\ p.id # UserProperty
            \/ /\ p.id \in Int16Properties /\ p.value \in Short
               /\ p.id \notin ByteProperties /\ p.id \notin Int32Properties
               /\ p.id \notin BinaryProperties /\ p.id \notin StringProperties
               /\ p.id # SubscriptionIdentifier /\ p.id # UserProperty
            \/ /\ p.id \in Int32Properties /\ p.value \in Word
               /\ p.id \notin Int16Properties /\ p.id \notin ByteProperties
               /\ p.id \notin BinaryProperties /\ p.id \notin StringProperties
               /\ p.id # SubscriptionIdentifier /\ p.id # UserProperty
            \/ /\ p.id = SubscriptionIdentifier /\ p.value \in Word
               /\ p.id \notin Int16Properties /\ p.id \notin ByteProperties
               /\ p.id \notin BinaryProperties /\ p.id \notin StringProperties
               /\ p.id \notin Int32Properties /\ p.id # UserProperty
            \/ /\ p.id \in BinaryProperties /\ p.value \in Text
               /\ p.id \notin Int16Properties /\ p.id \notin ByteProperties
               /\ p.id \notin Int32Properties /\ p.id \notin StringProperties
               /\ p.id # SubscriptionIdentifier /\ p.id # UserProperty
            \/ /\ p.id \in StringProperties /\ p.value \in Text
               /\ p.id \notin Int16Properties /\ p.id \notin ByteProperties
               /\ p.id \notin Int32Properties /\ p.id \notin BinaryProperties
               /\ p.id # SubscriptionIdentifier /\ p.id # UserProperty
            \/ /\ p.id = UserProperty /\ p.value \in Text \X Text
               /\ p.id \notin Int16Properties /\ p.id \notin ByteProperties
               /\ p.id \notin Int32Properties /\ p.id \notin BinaryProperties
               /\ p.id \notin StringProperties /\ p.id # SubscriptionIdentifier
<1>1. ASSUME NEW id
      PROVE  /\ id \in ByteProperties =>
                  /\ id \in 1..42 /\ id \notin Int16Properties /\ id \notin Int32Properties
                  /\ id \notin BinaryProperties /\ id \notin StringProperties
                  /\ id # SubscriptionIdentifier /\ id # UserProperty
             /\ id \in Int16Properties =>
                  /\ id \in 1..42 /\ id \notin Int32Properties
                  /\ id \notin BinaryProperties /\ id \notin StringProperties
                  /\ id # SubscriptionIdentifier /\ id # UserProperty
             /\ id \in Int32Properties =>
                  /\ id \in 1..42
                  /\ id \notin BinaryProperties /\ id \notin StringProperties
                  /\ id # SubscriptionIdentifier /\ id # UserProperty
             /\ id \in BinaryProperties =>
                  /\ id \in 1..42 /\ id \notin StringProperties
                  /\ id # SubscriptionIdentifier /\ id # UserProperty
             /\ id \in StringProperties =>
                  /\ id \in 1..42
                  /\ id # SubscriptionIdentifier /\ id # UserProperty
             /\ id = SubscriptionIdentifier => id \in 1..42 /\ id # UserProperty
             /\ id = UserProperty => id \in 1..42
  BY SMT DEF ByteProperties, Int16Properties, Int32Properties, BinaryProperties,
       StringProperties, SubscriptionIdentifier, UserProperty, MaximumQos, ServerKeepAlive,
       ReceiveMaximum, TopicAlias, MessageExpiryInterval, MaximumPacketSize,
       AssignedClientIdentifier
<1>3. CASE p \in [id : ByteProperties, value : Bytes]
  BY Zenon, <1>1, <1>3 DEF Prop
<1>4. CASE p \in [id : Int16Properties, value : Short]
  BY Zenon, <1>1, <1>4 DEF Prop
<1>5. CASE p \in [id : Int32Properties \cup {SubscriptionIdentifier}, value : Word]
  BY Zenon, <1>1, <1>5 DEF Prop
<1>6. CASE p \in [id : BinaryProperties \cup StringProperties, value : Text]
  BY Zenon, <1>1, <1>6 DEF Prop
<1>7. CASE p \in [id : {UserProperty}, value : Text \X Text]
  BY Zenon, <1>1, <1>7 DEF Prop
<1>8. QED BY <1>3, <1>4, <1>5, <1>6, <1>7 DEF Property

\* One byte for the identifier of a property.
LEMMA IdWritten ==
  ASSUME NEW id \in 1..42
  PROVE  VarintBytes(id) = 1 /\ id \in Nat /\ id <= MaxVarint
  BY SMT DEF VarintBytes, MaxVarint

\* packet__write_uint32.
LEMMA FourBytes ==
  ASSUME NEW n \in Word
  PROVE  Uint32(n) \in Seq(Bytes) /\ Len(Uint32(n)) = 4
<1>1. n \in Nat
  BY DEF Word
<1>2. /\ (n \div 16777216) % 256 \in Bytes /\ (n \div 65536) % 256 \in Bytes
      /\ (n \div 256) % 256 \in Bytes /\ n % 256 \in Bytes
  BY SMT, <1>1 DEF Bytes
<1> DEFINE a == (n \div 16777216) % 256
           b == (n \div 65536) % 256
           c == (n \div 256) % 256
           d == n % 256
<1>3. Uint32(n) = <<a, b>> \o <<c, d>>
  BY DEF Uint32, Uint16
<1>4. a \in Bytes /\ b \in Bytes /\ c \in Bytes /\ d \in Bytes
  BY <1>2
<1> HIDE DEF a, b, c, d
<1>5. /\ <<a, b>> \in Seq(Bytes) /\ Len(<<a, b>>) = 2
      /\ <<c, d>> \in Seq(Bytes) /\ Len(<<c, d>>) = 2
  BY SMT, <1>4
<1>6. QED BY <1>3, <1>5, Together

\* The value of a property is as long as is reckoned for it, besides its identifier.
LEMMA ReckonValue ==
  ASSUME NEW p \in Property
  PROVE  \E n \in Nat : Reckoned(Bytes, n, ValueBytes(p), TextsOf(p)) /\ PropertyLength(p) = 1 + n
<1> DEFINE v == ValueBytes(p)
<1>1. CASE p.id \in ByteProperties
  <2>1. v = <<p.value % 256>> /\ TextsOf(p) = {} /\ PropertyLength(p) = 2 /\ p.value \in Bytes
    BY PropertyKinds, <1>1 DEF ValueBytes, TextsOf, PropertyLength
  <2>2. p.value % 256 \in Bytes
    BY SMT, <2>1 DEF Bytes
  <2>3. <<p.value % 256>> \in Seq(Bytes) /\ Len(<<p.value % 256>>) = 1 /\ 1 \in Nat /\ 1 + 1 = 2
    BY SMT, <2>2
  <2>4. QED BY <2>1, <2>3, ReckonExact
<1>2. CASE p.id \in Int16Properties
  <2>1. v = Uint16(p.value) /\ TextsOf(p) = {} /\ PropertyLength(p) = 3 /\ p.value \in Short
    BY PropertyKinds, <1>2 DEF ValueBytes, TextsOf, PropertyLength
  <2>2. v \in Seq(Bytes) /\ Len(v) = 2 /\ 2 \in Nat /\ 1 + 2 = 3
    BY <2>1, TwoBytes, SMT
  <2>3. QED BY <2>1, <2>2, ReckonExact
<1>3. CASE p.id \in Int32Properties
  <2>1. v = Uint32(p.value) /\ TextsOf(p) = {} /\ PropertyLength(p) = 5 /\ p.value \in Word
    BY PropertyKinds, <1>3 DEF ValueBytes, TextsOf, PropertyLength
  <2>2. v \in Seq(Bytes) /\ Len(v) = 4 /\ 4 \in Nat /\ 1 + 4 = 5
    BY <2>1, FourBytes, SMT
  <2>3. QED BY <2>1, <2>2, ReckonExact
<1>4. CASE p.id = SubscriptionIdentifier
  <2>1. /\ v = Varint(p.value) /\ TextsOf(p) = {} /\ p.value \in Word
        /\ PropertyLength(p) = 1 + VarintBytes(p.value)
    BY PropertyKinds, <1>4 DEF ValueBytes, TextsOf, PropertyLength
  <2>2. p.value \in Nat
    BY <2>1 DEF Word
  <2>3. v \in Seq(Bytes) /\ Len(v) = VarintBytes(p.value) /\ VarintBytes(p.value) \in Nat
    BY <2>1, <2>2, VarintWritten, LenProperties
  <2>4. QED BY <2>1, <2>3, ReckonExact
<1>5. CASE p.id \in BinaryProperties \cup StringProperties
  <2>1. /\ v = StringBytes(p.value) /\ TextsOf(p) = {p.value} /\ p.value \in Text
        /\ PropertyLength(p) = 3 + Len(p.value)
    BY PropertyKinds, <1>5 DEF ValueBytes, TextsOf, PropertyLength
  <2>2. PICK s \in Seq(Bytes) : s = p.value
    BY <2>1 DEF Text
  <2>3. PICK l \in Nat : l = Len(s)
    BY LenProperties
  <2>4. 3 + l = 1 + (2 + l) /\ 2 + l \in Nat
    BY SMT
  <2>5. Reckoned(Bytes, 2 + l, StringBytes(s), {s})
    BY <2>3, ReckonString
  <2>6. QED BY <2>1, <2>2, <2>3, <2>4, <2>5
<1>6. CASE p.id = UserProperty
  <2>1. /\ v = StringBytes(p.value[1]) \o StringBytes(p.value[2])
        /\ TextsOf(p) = {p.value[1], p.value[2]} /\ p.value \in Text \X Text
        /\ PropertyLength(p) = 5 + Len(p.value[1]) + Len(p.value[2])
    BY PropertyKinds, <1>6 DEF ValueBytes, TextsOf, PropertyLength
  <2>2. PICK s \in Seq(Bytes), t \in Seq(Bytes) : s = p.value[1] /\ t = p.value[2]
    BY <2>1 DEF Text
  <2>3. PICK l \in Nat, m \in Nat : l = Len(s) /\ m = Len(t)
    BY LenProperties
  <2>4. 5 + l + m = 1 + ((2 + l) + (2 + m)) /\ (2 + l) + (2 + m) \in Nat
    BY SMT
  <2>5. Reckoned(Bytes, 2 + l, StringBytes(s), {s}) /\ Reckoned(Bytes, 2 + m, StringBytes(t), {t})
    BY <2>3, ReckonString
  <2>6. Reckoned(Bytes, (2 + l) + (2 + m), StringBytes(s) \o StringBytes(t), {s} \cup {t})
    BY <2>5, ReckonBoth
  <2>7. {s} \cup {t} = {s, t}
    OBVIOUS
  <2>8. QED BY <2>1, <2>2, <2>3, <2>4, <2>6, <2>7
<1>7. QED BY PropertyKinds, <1>1, <1>2, <1>3, <1>4, <1>5, <1>6

\* property__write writes as many bytes as property__get_length says (property_mosq.c:265-432).
LEMMA ReckonProperty ==
  ASSUME NEW p \in Property
  PROVE  Reckoned(Bytes, PropertyLength(p), PropertyBytes(p), TextsOf(p))
<1> DEFINE v == ValueBytes(p)
<1>1. PICK n \in Nat : Reckoned(Bytes, n, v, TextsOf(p)) /\ PropertyLength(p) = 1 + n
  BY ReckonValue
<1>2. Varint(p.id) \in Seq(Bytes) /\ Len(Varint(p.id)) = 1
  BY PropertyKinds, IdWritten, VarintWritten
<1>3. Reckoned(Bytes, 1, Varint(p.id), {})
  BY <1>2, ReckonExact
<1> HIDE DEF v
<1>4. Reckoned(Bytes, 1 + n, Varint(p.id) \o v, {} \cup TextsOf(p))
  BY <1>1, <1>3, ReckonBoth
<1>5. {} \cup TextsOf(p) = TextsOf(p) /\ PropertyBytes(p) = Varint(p.id) \o v
  BY DEF PropertyBytes, v
<1>6. QED BY <1>1, <1>4, <1>5

\* The texts of n parts together.
TextsOfAll(t, n) == UNION {t[i] : i \in 1..n}

\* Whether nothing is cut off depends on each part.
LEMMA UncutAll ==
  ASSUME NEW n, NEW t
  PROVE  Uncut(TextsOfAll(t, n)) <=> \A i \in 1..n : Uncut(t[i])
  BY DEF Uncut, TextsOfAll

\* A function on 1..n is a sequence.
LEMMA SeqOfFunction ==
  ASSUME NEW S, NEW n \in Nat, NEW f \in [1..n -> S]
  PROVE  f \in Seq(S) /\ Len(f) = n /\ DOMAIN f = 1..n
  BY SMT

\* One part behind the other: the sum of what is reckoned for them is reckoned for all.
LEMMA ReckonSum ==
  ASSUME NEW S, NEW l \in Seq(Nat), NEW u \in Seq(Seq(S)), NEW t, Len(u) = Len(l),
         \A i \in 1..Len(l) : Reckoned(S, l[i], u[i], t[i])
  PROVE  Reckoned(S, SumOf(l), FlattenSeq(u), TextsOfAll(t, Len(l)))
<1> DEFINE n == Len(l)
           lens == [i \in DOMAIN u |-> Len(u[i])]
           texts == TextsOfAll(t, n)
<1>1. n \in Nat /\ DOMAIN u = 1..n /\ Len(u) = n /\ \A i \in 1..n : u[i] \in Seq(S) /\ l[i] \in Nat
  BY LenProperties, ElementOfSeq
<1>2. ASSUME NEW i \in 1..n
      PROVE  /\ Len(u[i]) \in Nat /\ lens[i] = Len(u[i])
             /\ Len(u[i]) <= l[i] /\ (Len(u[i]) = l[i] <=> Uncut(t[i]))
  <2>1. Reckoned(S, l[i], u[i], t[i])
    OBVIOUS
  <2>2. u[i] \in Seq(S) /\ Len(u[i]) <= l[i] /\ (Len(u[i]) = l[i] <=> Uncut(t[i]))
    BY <2>1 DEF Reckoned
  <2>3. QED BY <1>1, <2>2, LenProperties
<1>3. lens \in [1..n -> Nat]
  BY <1>1, <1>2
<1>4. FlattenSeq(u) \in Seq(S) /\ Len(FlattenSeq(u)) = SumOf(lens)
  BY FlattenLength
<1> HIDE DEF lens
<1>5. lens \in Seq(Nat) /\ Len(lens) = n
  BY <1>1, <1>3, SeqOfFunction
<1>6. \A i \in 1..n : l[i] >= lens[i]
  <2>1. ASSUME NEW i \in 1..n
        PROVE  l[i] >= lens[i]
    <3>1. PICK a \in Nat, b \in Nat : a = l[i] /\ b = lens[i]
      BY <1>1, <1>2
    <3>2. b <= a
      BY <1>2, <3>1
    <3>3. a >= b
      BY SMT, <3>2
    <3>4. QED BY <3>1, <3>3
  <2>2. QED BY <2>1
<1>7. /\ SumOf(l) >= SumOf(lens)
      /\ SumOf(l) = SumOf(lens) <=> \A i \in 1..n : l[i] = lens[i]
  BY <1>5, <1>6, SumsCompare
<1>8. SumOf(l) \in Nat /\ SumOf(lens) \in Nat
  BY <1>5, SumIsNat
<1>9. (\A i \in 1..n : l[i] = lens[i]) <=> Uncut(texts)
  <2>1. Uncut(texts) <=> \A i \in 1..n : Uncut(t[i])
    BY UncutAll
  <2> HIDE DEF texts
  <2>2. QED BY Zenon, <1>2, <2>1
<1>10. PICK a \in Nat, b \in Nat : a = SumOf(l) /\ b = SumOf(lens)
  BY <1>8
<1>11. b <= a /\ (b = a <=> Uncut(texts))
  BY SMT, <1>7, <1>9, <1>10
<1> HIDE DEF texts
<1>12. Reckoned(S, SumOf(l), FlattenSeq(u), texts)
  BY <1>4, <1>10, <1>11 DEF Reckoned
<1>13. QED BY <1>12 DEF texts

\* property__write_all writes as many bytes as property__get_length_all says.
LEMMA ReckonAll ==
  ASSUME NEW props \in Seq(Property)
  PROVE  Reckoned(Bytes, LengthAll(props), WriteAll(props), AllTexts(props))
<1> DEFINE n == Len(props)
           l == [i \in 1..n |-> PropertyLength(props[i])]
           u == [i \in 1..n |-> PropertyBytes(props[i])]
           t == [i \in 1..n |-> TextsOf(props[i])]
<1>1. n \in Nat /\ DOMAIN props = 1..n /\ \A i \in 1..n : props[i] \in Property
  BY LenProperties, ElementOfSeq
<1>2. ASSUME NEW i \in 1..n
      PROVE  Reckoned(Bytes, l[i], u[i], t[i])
  BY <1>1, ReckonProperty
<1>3. LengthAll(props) = SumOf(l) /\ WriteAll(props) = FlattenSeq(u)
  <2>1. LengthAll(props) = SumOf([i \in 1..n |-> PropertyLength(props[i])])
    BY <1>1 DEF LengthAll, Total, SumOf
  <2>2. WriteAll(props) = FlattenSeq([i \in 1..n |-> PropertyBytes(props[i])])
    BY <1>1 DEF WriteAll
  <2>3. QED BY <2>1, <2>2
<1>4. AllTexts(props) = TextsOfAll(t, n)
  BY <1>1 DEF AllTexts, TextsOfAll
<1>5. l \in [1..n -> Nat] /\ u \in [1..n -> Seq(Bytes)]
  <2>1. ASSUME NEW i \in 1..n
        PROVE  PropertyLength(props[i]) \in Nat /\ PropertyBytes(props[i]) \in Seq(Bytes)
    BY <1>1, ReckonProperty DEF Reckoned
  <2>2. QED BY <2>1
<1> HIDE DEF l, u, t
<1>6. /\ l \in Seq(Nat) /\ Len(l) = n
      /\ u \in Seq(Seq(Bytes)) /\ Len(u) = n
  BY <1>1, <1>5, SeqOfFunction
<1> HIDE DEF n
<1>7. Reckoned(Bytes, SumOf(l), FlattenSeq(u), TextsOfAll(t, n))
  BY <1>2, <1>6, ReckonSum
<1>8. QED BY Zenon, <1>3, <1>4, <1>7

\* With the length in front.
LEMMA ReckonLengthAndAll ==
  ASSUME NEW props \in Seq(Property)
  PROVE  Reckoned(Bytes, LengthAndAll(props), WriteLengthAndAll(props), AllTexts(props))
<1>1. PICK n \in Nat : n = LengthAll(props)
  BY ReckonAll DEF Reckoned
<1>2. Varint(n) \in Seq(Bytes) /\ Len(Varint(n)) = VarintBytes(n) /\ VarintBytes(n) \in Nat
  BY VarintWritten, LenProperties
<1>3. Reckoned(Bytes, VarintBytes(n), Varint(n), {})
  BY <1>2, ReckonExact
<1>4. Reckoned(Bytes, n, WriteAll(props), AllTexts(props))
  BY <1>1, ReckonAll
<1>5. Reckoned(Bytes, VarintBytes(n) + n, Varint(n) \o WriteAll(props), {} \cup AllTexts(props))
  BY <1>3, <1>4, ReckonBoth
<1>6. VarintBytes(n) + n = n + VarintBytes(n)
  BY SMT, <1>2
<1>7. QED BY Zenon, <1>1, <1>5, <1>6 DEF LengthAndAll, WriteLengthAndAll

-----------------------------------------------------------------------------
(* Packets                                                                 *)

\* A list without properties has no texts.
LEMMA NoTexts == AllTexts(<<>>) = {} /\ <<>> \in Seq(Property)
<1>1. DOMAIN <<>> = {} /\ <<>> \in Seq(Property)
  BY SMT
<1>2. QED BY <1>1 DEF AllTexts

\* The properties of a packet, which only one of MQTT 5 has.
LEMMA ReckonIf ==
  ASSUME NEW vn, NEW props \in Seq(Property), vn # "v5" => props = <<>>
  PROVE  Reckoned(Bytes, IF vn = "v5" THEN LengthAndAll(props) ELSE 0,
                  If(vn = "v5", WriteLengthAndAll(props)), AllTexts(props))
<1>1. CASE vn = "v5"
  BY <1>1, ReckonLengthAndAll DEF If
<1>2. CASE vn # "v5"
  <2>1. AllTexts(props) = {}
    BY <1>2, NoTexts
  <2>2. QED BY <1>2, <2>1, ReckonNone DEF If
<1>3. QED BY <1>1, <1>2

\* A text that may be missing.
LEMMA ReckonOptional ==
  ASSUME NEW texts, texts \subseteq Text, \A x, y \in texts : x = y
  PROVE  Reckoned(Bytes, OptionalLength(texts), Optional(texts), texts)
<1>1. CASE texts = {}
  BY <1>1, ReckonNone DEF OptionalLength, Optional
<1>2. CASE texts # {}
  <2>1. PICK s \in Seq(Bytes) : s \in texts
    BY <1>2 DEF Text
  <2>2. texts = {s} /\ (CHOOSE x \in texts : TRUE) = s
    BY <2>1
  <2>3. OptionalLength(texts) = 2 + Len(s) /\ Optional(texts) = StringBytes(s)
    BY <1>2, <2>2 DEF OptionalLength, Optional
  <2>4. QED BY <2>2, <2>3, ReckonString
<1>3. QED BY <1>1, <1>2

\* The identifier of a message, if there is one.
LEMMA ReckonMid ==
  ASSUME NEW mid \in Short, NEW condition
  PROVE  Reckoned(Bytes, IF condition THEN 2 ELSE 0, If(condition, Uint16(mid)), {})
<1>1. Uint16(mid) \in Seq(Bytes) /\ Len(Uint16(mid)) = 2
  BY TwoBytes
<1>2. CASE condition
  BY <1>1, <1>2, ReckonExact DEF If
<1>3. CASE ~condition
  BY <1>3, ReckonNone DEF If
<1>4. QED BY <1>2, <1>3

\* What send__real_publish writes as long as it does not leave the properties out.
LEMMA PublishUndropped ==
  ASSUME NEW vn, NEW p, ~DropsProperties(vn, p)
  PROVE  /\ PublishDraft(vn, p).announced =
              2 + Len(p.topic) + Len(p.payload) + Bit(p.qos > 0, 2)
              + (IF vn = "v5" THEN LengthAndAll(p.props) ELSE 0)
         /\ PublishDraft(vn, p).body =
              StringBytes(p.topic) \o If(p.qos > 0, Uint16(p.mid))
              \o If(vn = "v5", WriteLengthAndAll(p.props)) \o p.payload
<1> DEFINE a == 2 + Len(p.topic) + Len(p.payload) + Bit(p.qos > 0, 2)
           b == StringBytes(p.topic) \o If(p.qos > 0, Uint16(p.mid))
           drops == DropsProperties(vn, p)
<1>1. /\ PublishDraft(vn, p).announced =
           a + (IF vn = "v5" /\ ~drops THEN LengthAndAll(p.props) ELSE 0)
      /\ PublishDraft(vn, p).body =
           b \o If(vn = "v5", IF drops THEN Varint(LengthAll(p.props))
                              ELSE WriteLengthAndAll(p.props)) \o p.payload
  BY Zenon DEF PublishDraft, Draft
<1>2. drops = FALSE
  BY DEF DropsProperties
<1> HIDE DEF a, b, drops
<1>3. QED BY <1>1, <1>2 DEF a, b

\* send__real_publish announces the length of what it writes, if it does not leave out the
\* properties and no text of them is cut off (send_publish.c:132-215).
LEMMA PublishReckoned ==
  ASSUME NEW vn, NEW p, p.topic \in Text, p.mid \in Short, p.payload \in Text,
         p.props \in Seq(Property), vn # "v5" => p.props = <<>>, ~DropsProperties(vn, p)
  PROVE  Reckoned(Bytes, PublishDraft(vn, p).announced, PublishDraft(vn, p).body,
                  {p.topic} \cup AllTexts(p.props))
<1> DEFINE d == PublishDraft(vn, p)
           mid == If(p.qos > 0, Uint16(p.mid))
           props == If(vn = "v5", WriteLengthAndAll(p.props))
<1>1. PICK t \in Nat, l \in Nat : t = Len(p.topic) /\ l = Len(p.payload)
  BY LenProperties DEF Text
<1>2. PICK m \in Nat : m = (IF p.qos > 0 THEN 2 ELSE 0)
  BY SMT
<1>3. PICK x \in Nat : x = (IF vn = "v5" THEN LengthAndAll(p.props) ELSE 0)
  BY ReckonIf DEF Reckoned
<1>4. /\ d.announced = 2 + t + l + m + x
      /\ d.body = StringBytes(p.topic) \o mid \o props \o p.payload
  BY <1>1, <1>2, <1>3, PublishUndropped DEF Bit
<1>5. Reckoned(Bytes, 2 + t, StringBytes(p.topic), {p.topic})
  BY <1>1, ReckonString DEF Text
<1>6. Reckoned(Bytes, m, mid, {})
  BY <1>2, ReckonMid
<1>7. Reckoned(Bytes, x, props, AllTexts(p.props))
  BY <1>3, ReckonIf
<1>8. Reckoned(Bytes, l, p.payload, {})
  BY <1>1, ReckonExact DEF Text
<1> HIDE DEF d, mid, props
<1>9. Reckoned(Bytes, 2 + t + m, StringBytes(p.topic) \o mid, {p.topic} \cup {})
  BY <1>5, <1>6, ReckonBoth
<1>10. Reckoned(Bytes, 2 + t + m + x, StringBytes(p.topic) \o mid \o props,
                {p.topic} \cup {} \cup AllTexts(p.props))
  BY <1>7, <1>9, ReckonBoth
<1>11. Reckoned(Bytes, 2 + t + m + x + l, StringBytes(p.topic) \o mid \o props \o p.payload,
                {p.topic} \cup {} \cup AllTexts(p.props) \cup {})
  BY <1>8, <1>10, ReckonBoth
<1>12. /\ 2 + t + m + x + l = 2 + t + l + m + x
       /\ {p.topic} \cup {} \cup AllTexts(p.props) \cup {} = {p.topic} \cup AllTexts(p.props)
  BY SMT
<1>13. QED BY Zenon, <1>4, <1>11, <1>12 DEF d

\* Of properties that it leaves out it writes the length, which it has not reckoned.
LEMMA PublishDropped ==
  ASSUME NEW vn, NEW p, p.topic \in Text, p.mid \in Short, p.payload \in Text,
         p.props \in Seq(Property), Uncut({p.topic}), DropsProperties(vn, p)
  PROVE  PublishDraft(vn, p).announced \in Nat
         /\ PublishDraft(vn, p).announced # Len(PublishDraft(vn, p).body)
<1> DEFINE d == PublishDraft(vn, p)
           mid == If(p.qos > 0, Uint16(p.mid))
           number == Varint(LengthAll(p.props))
<1>1. PICK t \in Nat, l \in Nat : t = Len(p.topic) /\ l = Len(p.payload)
  BY LenProperties DEF Text
<1>2. PICK m \in Nat : m = (IF p.qos > 0 THEN 2 ELSE 0)
  BY SMT
<1>3. PICK n \in Nat : n = LengthAll(p.props)
  BY ReckonAll DEF Reckoned
<1>4. PICK k \in Nat : k = VarintBytes(n) /\ k >= 1
  BY SMT DEF VarintBytes
<1>5. number \in Seq(Bytes) /\ Len(number) = k
  BY <1>3, <1>4, VarintWritten
<1>6. d.announced = 2 + t + l + m + 0
      /\ d.body = StringBytes(p.topic) \o mid \o number \o p.payload
  <2> DEFINE drops == DropsProperties(vn, p)
  <2>1. drops = TRUE /\ vn = "v5"
    BY DEF DropsProperties
  <2>2. /\ d.announced = 2 + Len(p.topic) + Len(p.payload) + Bit(p.qos > 0, 2)
                         + (IF vn = "v5" /\ ~drops THEN LengthAndAll(p.props) ELSE 0)
        /\ d.body = StringBytes(p.topic) \o mid
                    \o If(vn = "v5", IF drops THEN number ELSE WriteLengthAndAll(p.props))
                    \o p.payload
    BY Zenon DEF PublishDraft, Draft
  <2> HIDE DEF drops, d, mid, number
  <2>3. QED BY <1>1, <1>2, <2>1, <2>2 DEF If, Bit
<1>7. Reckoned(Bytes, 2 + t, StringBytes(p.topic), {p.topic})
  BY <1>1, ReckonString DEF Text
<1>8. Reckoned(Bytes, m, mid, {})
  BY <1>2, ReckonMid
<1>9. Reckoned(Bytes, k, number, {})
  BY <1>5, ReckonExact
<1>10. Reckoned(Bytes, l, p.payload, {})
  BY <1>1, ReckonExact DEF Text
<1> HIDE DEF d, mid, number
<1>11. Reckoned(Bytes, 2 + t + m, StringBytes(p.topic) \o mid, {p.topic} \cup {})
  BY <1>7, <1>8, ReckonBoth
<1>12. Reckoned(Bytes, 2 + t + m + k, StringBytes(p.topic) \o mid \o number,
                {p.topic} \cup {} \cup {})
  BY <1>9, <1>11, ReckonBoth
<1>13. Reckoned(Bytes, 2 + t + m + k + l, StringBytes(p.topic) \o mid \o number \o p.payload,
                {p.topic} \cup {} \cup {} \cup {})
  BY <1>10, <1>12, ReckonBoth
<1>14. Len(d.body) = 2 + t + m + k + l
  <2>1. {p.topic} \cup {} \cup {} \cup {} = {p.topic}
    OBVIOUS
  <2>2. Reckoned(Bytes, 2 + t + m + k + l, d.body, {p.topic})
    BY Zenon, <1>6, <1>13, <2>1
  <2>3. QED BY <2>2 DEF Reckoned
<1>15. 2 + t + l + m + 0 \in Nat /\ 2 + t + l + m + 0 # 2 + t + m + k + l
  BY SMT, <1>4
<1>16. QED BY <1>6, <1>14, <1>15 DEF d

\* The reason and the properties of an acknowledgement or a DISCONNECT.
LEMMA ReckonReason ==
  ASSUME NEW vn, NEW p, p.reason \in Bytes,
         p.props \in Seq(Property), vn # "v5" => p.props = <<>>
  PROVE  Reckoned(Bytes, ReasonLength(vn, p), Reason(vn, p), AllTexts(p.props))
<1>1. <<p.reason>> \in Seq(Bytes) /\ Len(<<p.reason>>) = 1
  BY SMT
<1>2. Reckoned(Bytes, 1, <<p.reason>>, {})
  BY <1>1, ReckonExact
<1>3. CASE ~Explained(vn, p)
  <2>1. AllTexts(p.props) = {}
    BY <1>3, NoTexts DEF Explained
  <2>2. QED BY <1>3, <2>1, ReckonNone DEF ReasonLength, Reason, If
<1>4. CASE Explained(vn, p) /\ p.props = <<>>
  <2>1. AllTexts(p.props) = {}
    BY <1>4, NoTexts
  <2>2. Reckoned(Bytes, 1 + 0, <<p.reason>> \o <<>>, {} \cup {})
    BY <1>2, ReckonNone, ReckonBoth
  <2>3. {} \cup {} = {}
    OBVIOUS
  <2>4. QED BY <1>4, <2>1, <2>2, <2>3 DEF ReasonLength, Reason, If
<1>5. CASE Explained(vn, p) /\ p.props # <<>>
  <2>1. Reckoned(Bytes, 1 + LengthAndAll(p.props), <<p.reason>> \o WriteLengthAndAll(p.props),
                 {} \cup AllTexts(p.props))
    BY <1>2, ReckonLengthAndAll, ReckonBoth
  <2>2. {} \cup AllTexts(p.props) = AllTexts(p.props)
    OBVIOUS
  <2>3. QED BY <1>5, <2>1, <2>2 DEF ReasonLength, Reason, If
<1>6. QED BY <1>3, <1>4, <1>5

\* send__disconnect (send_disconnect.c:57-79).
LEMMA DisconnectReckoned ==
  ASSUME NEW vn, NEW p, p.reason \in Bytes,
         p.props \in Seq(Property), vn # "v5" => p.props = <<>>
  PROVE  Reckoned(Bytes, DisconnectDraft(vn, p).announced, DisconnectDraft(vn, p).body,
                  AllTexts(p.props))
  BY ReckonReason DEF DisconnectDraft, Draft

\* send__command_with_mid (send_mosq.c:106-160).
LEMMA AckReckoned ==
  ASSUME NEW vn, NEW p, p.mid \in Short, p.reason \in Bytes,
         p.props \in Seq(Property), vn # "v5" => p.props = <<>>
  PROVE  Reckoned(Bytes, AckDraft(vn, p).announced, AckDraft(vn, p).body,
                  AllTexts(p.props))
<1>1. /\ AckDraft(vn, p).announced = 2 + ReasonLength(vn, p)
      /\ AckDraft(vn, p).body = Uint16(p.mid) \o Reason(vn, p)
  BY DEF AckDraft, Draft
<1>2. Reckoned(Bytes, 2, Uint16(p.mid), {})
  BY TwoBytes, ReckonExact
<1>3. Reckoned(Bytes, 2 + ReasonLength(vn, p), Uint16(p.mid) \o Reason(vn, p),
               {} \cup AllTexts(p.props))
  BY <1>2, ReckonReason, ReckonBoth
<1>4. {} \cup AllTexts(p.props) = AllTexts(p.props)
  OBVIOUS
<1>5. QED BY <1>1, <1>3, <1>4

\* Filters one behind the other, each with as many bytes behind it.
LEMMA ReckonFilters ==
  ASSUME NEW filters \in Seq(Text), NEW rest \in Seq(Nat)
  PROVE  Reckoned(Nat, Total([i \in DOMAIN filters |-> 2 + Len(filters[i]) + Len(rest)]),
                  FlattenSeq([i \in DOMAIN filters |-> StringBytes(filters[i]) \o rest]),
                  UNION {{filters[i]} : i \in DOMAIN filters})
<1> DEFINE n == Len(filters)
           l == [i \in 1..n |-> 2 + Len(filters[i]) + Len(rest)]
           u == [i \in 1..n |-> StringBytes(filters[i]) \o rest]
           t == [i \in 1..n |-> {filters[i]}]
<1>1. n \in Nat /\ DOMAIN filters = 1..n /\ \A i \in 1..n : filters[i] \in Seq(Bytes)
  BY LenProperties, ElementOfSeq DEF Text
<1>2. ASSUME NEW i \in 1..n
      PROVE  Reckoned(Nat, l[i], u[i], t[i])
  <2>1. Reckoned(Bytes, 2 + Len(filters[i]), StringBytes(filters[i]), {filters[i]})
    BY <1>1, ReckonString
  <2>2. Bytes \subseteq Nat
    BY SMT DEF Bytes
  <2>3. Reckoned(Nat, 2 + Len(filters[i]), StringBytes(filters[i]), {filters[i]})
    BY <2>1, <2>2, ReckonWider
  <2>4. Reckoned(Nat, Len(rest), rest, {})
    BY ReckonExact
  <2>5. Reckoned(Nat, 2 + Len(filters[i]) + Len(rest), StringBytes(filters[i]) \o rest,
                 {filters[i]} \cup {})
    BY <2>3, <2>4, ReckonBoth
  <2>6. {filters[i]} \cup {} = {filters[i]}
    OBVIOUS
  <2>7. QED BY <2>5, <2>6
<1>3. l \in [1..n -> Nat] /\ u \in [1..n -> Seq(Nat)]
  <2>1. ASSUME NEW i \in 1..n
        PROVE  /\ 2 + Len(filters[i]) + Len(rest) \in Nat
               /\ StringBytes(filters[i]) \o rest \in Seq(Nat)
    BY <1>2 DEF Reckoned
  <2>2. QED BY <2>1
<1>4. /\ Total([i \in DOMAIN filters |-> 2 + Len(filters[i]) + Len(rest)]) = SumOf(l)
      /\ FlattenSeq([i \in DOMAIN filters |-> StringBytes(filters[i]) \o rest]) = FlattenSeq(u)
      /\ UNION {{filters[i]} : i \in DOMAIN filters} = TextsOfAll(t, n)
  BY <1>1 DEF Total, SumOf, TextsOfAll
<1> HIDE DEF l, u, t
<1>5. /\ l \in Seq(Nat) /\ Len(l) = n
      /\ u \in Seq(Seq(Nat)) /\ Len(u) = n
  BY <1>1, <1>3, SeqOfFunction
<1> HIDE DEF n
<1>6. Reckoned(Nat, SumOf(l), FlattenSeq(u), TextsOfAll(t, n))
  BY <1>2, <1>5, ReckonSum
<1>7. QED BY Zenon, <1>4, <1>6

\* The beginning of a SUBSCRIBE or UNSUBSCRIBE, and the filters behind it.
LEMMA ReckonFiltersBehind ==
  ASSUME NEW vn, NEW mid \in Short,
         NEW props \in Seq(Property), vn # "v5" => props = <<>>,
         NEW n, NEW u, NEW texts, Reckoned(Nat, n, u, texts)
  PROVE  Reckoned(Nat, 2 + (IF vn = "v5" THEN LengthAndAll(props) ELSE 0) + n,
                  Uint16(mid) \o If(vn = "v5", WriteLengthAndAll(props)) \o u,
                  AllTexts(props) \cup texts)
<1> DEFINE x == IF vn = "v5" THEN LengthAndAll(props) ELSE 0
           w == If(vn = "v5", WriteLengthAndAll(props))
<1>1. Bytes \subseteq Nat
  BY SMT DEF Bytes
<1>2. Reckoned(Bytes, 2, Uint16(mid), {})
  BY TwoBytes, ReckonExact
<1>3. Reckoned(Bytes, x, w, AllTexts(props))
  BY ReckonIf
<1> HIDE DEF x, w
<1>4. Reckoned(Bytes, 2 + x, Uint16(mid) \o w, {} \cup AllTexts(props))
  BY <1>2, <1>3, ReckonBoth
<1>5. Reckoned(Nat, 2 + x, Uint16(mid) \o w, {} \cup AllTexts(props))
  BY <1>1, <1>4, ReckonWider
<1>6. Reckoned(Nat, 2 + x + n, Uint16(mid) \o w \o u, {} \cup AllTexts(props) \cup texts)
  BY <1>5, ReckonBoth
<1>7. {} \cup AllTexts(props) \cup texts = AllTexts(props) \cup texts
  OBVIOUS
<1>8. QED BY <1>6, <1>7 DEF x, w

FilterTexts(s) == UNION {{s.filters[i]} : i \in DOMAIN s.filters}

\* send__subscribe (send_subscribe.c).
LEMMA SubscribeReckoned ==
  ASSUME NEW vn, NEW s, s.mid \in Short, s.filters \in Seq(Text), s.qos \in Nat,
         s.options \in Nat, s.props \in Seq(Property), vn # "v5" => s.props = <<>>
  PROVE  Reckoned(Nat, SubscribeDraft(vn, s).announced, SubscribeDraft(vn, s).body,
                  AllTexts(s.props) \cup FilterTexts(s))
<1> DEFINE byte == s.qos + (IF vn = "v5" THEN s.options ELSE 0)
           rest == <<byte>>
           l == Total([i \in DOMAIN s.filters |-> 2 + Len(s.filters[i]) + 1])
           u == FlattenSeq([i \in DOMAIN s.filters |-> StringBytes(s.filters[i]) \o rest])
<1>1. byte \in Nat
  BY SMT
<1> HIDE DEF byte
<1>2. rest \in Seq(Nat) /\ Len(rest) = 1
  BY SMT, <1>1
<1>3. PICK e \in Seq(Nat) : e = rest /\ Len(e) = 1
  BY <1>2
<1>4. Reckoned(Nat, Total([i \in DOMAIN s.filters |-> 2 + Len(s.filters[i]) + Len(e)]),
               FlattenSeq([i \in DOMAIN s.filters |-> StringBytes(s.filters[i]) \o e]),
               UNION {{s.filters[i]} : i \in DOMAIN s.filters})
  BY ReckonFilters
<1>5. Reckoned(Nat, l, u, UNION {{s.filters[i]} : i \in DOMAIN s.filters})
  BY <1>3, <1>4
<1>6. /\ SubscribeDraft(vn, s).announced
           = 2 + (IF vn = "v5" THEN LengthAndAll(s.props) ELSE 0) + l
      /\ SubscribeDraft(vn, s).body
           = Uint16(s.mid) \o If(vn = "v5", WriteLengthAndAll(s.props)) \o u
  BY DEF SubscribeDraft, Draft, byte
<1> DEFINE texts == UNION {{s.filters[i]} : i \in DOMAIN s.filters}
<1> HIDE DEF l, u, texts
<1>7. Reckoned(Nat, 2 + (IF vn = "v5" THEN LengthAndAll(s.props) ELSE 0) + l,
               Uint16(s.mid) \o If(vn = "v5", WriteLengthAndAll(s.props)) \o u,
               AllTexts(s.props) \cup texts)
  BY Zenon, <1>5, ReckonFiltersBehind DEF texts
<1>8. QED BY Zenon, <1>6, <1>7 DEF texts, FilterTexts

\* send__unsubscribe (send_unsubscribe.c).
LEMMA UnsubscribeReckoned ==
  ASSUME NEW vn, NEW s, s.mid \in Short, s.filters \in Seq(Text),
         s.props \in Seq(Property), vn # "v5" => s.props = <<>>
  PROVE  Reckoned(Nat, UnsubscribeDraft(vn, s).announced, UnsubscribeDraft(vn, s).body,
                  AllTexts(s.props) \cup FilterTexts(s))
<1> DEFINE n == Len(s.filters)
           l == Total([i \in DOMAIN s.filters |-> 2 + Len(s.filters[i])])
           u == FlattenSeq([i \in DOMAIN s.filters |-> StringBytes(s.filters[i])])
<1>1. PICK e \in Seq(Nat) : e = <<>> /\ Len(e) = 0
  BY EmptySeq
<1>2. Reckoned(Nat, Total([i \in DOMAIN s.filters |-> 2 + Len(s.filters[i]) + Len(e)]),
               FlattenSeq([i \in DOMAIN s.filters |-> StringBytes(s.filters[i]) \o e]),
               UNION {{s.filters[i]} : i \in DOMAIN s.filters})
  BY ReckonFilters
<1>3. ASSUME NEW i \in DOMAIN s.filters
      PROVE  /\ 2 + Len(s.filters[i]) + Len(e) = 2 + Len(s.filters[i])
             /\ StringBytes(s.filters[i]) \o e = StringBytes(s.filters[i])
  <2>1. s.filters[i] \in Seq(Bytes)
    BY ElementOfSeq, LenProperties DEF Text
  <2>2. PICK m \in Nat : m = Len(s.filters[i])
    BY <2>1, LenProperties
  <2>3. 2 + m + 0 = 2 + m
    BY SMT
  <2>4. PICK text \in Seq(Bytes) : text = StringBytes(s.filters[i])
    BY <2>1, ReckonString DEF Reckoned
  <2>5. text \o <<>> = text
    BY EmptySeq, ConcatEmptySeq
  <2>6. QED BY <1>1, <2>2, <2>3, <2>4, <2>5
<1>4. Reckoned(Nat, l, u, UNION {{s.filters[i]} : i \in DOMAIN s.filters})
  <2>1. /\ [i \in DOMAIN s.filters |-> 2 + Len(s.filters[i]) + Len(e)]
             = [i \in DOMAIN s.filters |-> 2 + Len(s.filters[i])]
        /\ [i \in DOMAIN s.filters |-> StringBytes(s.filters[i]) \o e]
             = [i \in DOMAIN s.filters |-> StringBytes(s.filters[i])]
    BY Zenon, <1>3
  <2>2. QED BY <1>2, <2>1
<1>5. /\ UnsubscribeDraft(vn, s).announced
           = 2 + (IF vn = "v5" THEN LengthAndAll(s.props) ELSE 0) + l
      /\ UnsubscribeDraft(vn, s).body
           = Uint16(s.mid) \o If(vn = "v5", WriteLengthAndAll(s.props)) \o u
  BY DEF UnsubscribeDraft, Draft
<1> DEFINE texts == UNION {{s.filters[i]} : i \in DOMAIN s.filters}
<1> HIDE DEF l, u, texts
<1>6. Reckoned(Nat, 2 + (IF vn = "v5" THEN LengthAndAll(s.props) ELSE 0) + l,
               Uint16(s.mid) \o If(vn = "v5", WriteLengthAndAll(s.props)) \o u,
               AllTexts(s.props) \cup texts)
  BY Zenon, <1>4, ReckonFiltersBehind DEF texts
<1>7. QED BY Zenon, <1>5, <1>6 DEF texts, FilterTexts

\* Other texts will do, if the same of them are cut off.
LEMMA ReckonSame ==
  ASSUME NEW S, NEW n, NEW u, NEW texts, Reckoned(S, n, u, texts),
         NEW others, Uncut(texts) <=> Uncut(others)
  PROVE  Reckoned(S, n, u, others)
  BY DEF Reckoned

\* The will of a CONNECT; its topic has been checked.
LEMMA ReckonWill ==
  ASSUME NEW vn, NEW w, w.topic \in Text, Uncut({w.topic}), w.payload \in Text,
         w.props \in Seq(Property), vn # "v5" => w.props = <<>>
  PROVE  Reckoned(Bytes, WillLength(vn, w), WillBytes(vn, w),
                  {w.payload} \cup AllTexts(w.props))
<1>1. PICK t \in Nat, l \in Nat : t = Len(w.topic) /\ l = Len(w.payload)
  BY LenProperties DEF Text
<1>2. PICK x \in Nat : x = (IF vn = "v5" THEN LengthAndAll(w.props) ELSE 0)
  BY ReckonIf DEF Reckoned
<1>3. WillLength(vn, w) = 2 + t + 2 + l + x
  <2>1. CASE vn = "v5"
    <3>1. 1 * x = x
      BY SMT
    <3>2. QED BY <1>1, <1>2, <2>1, <3>1 DEF WillLength, Bit
  <2>2. CASE vn # "v5"
    <3>1. LengthAndAll(w.props) \in Nat
      BY ReckonLengthAndAll DEF Reckoned
    <3>2. 0 * LengthAndAll(w.props) = 0
      BY SMT, <3>1
    <3>3. QED BY <1>1, <1>2, <2>2, <3>2 DEF WillLength, Bit
  <2>3. QED BY <2>1, <2>2
<1> DEFINE props == If(vn = "v5", WriteLengthAndAll(w.props))
<1>4. Reckoned(Bytes, x, props, AllTexts(w.props))
  BY <1>2, ReckonIf
<1>5. WillBytes(vn, w) = props \o StringBytes(w.topic) \o StringBytes(w.payload)
  BY DEF WillBytes
<1> HIDE DEF props
<1>6. /\ Reckoned(Bytes, 2 + t, StringBytes(w.topic), {w.topic})
      /\ Reckoned(Bytes, 2 + l, StringBytes(w.payload), {w.payload})
  BY <1>1, ReckonString DEF Text
<1>7. Reckoned(Bytes, x + (2 + t), props \o StringBytes(w.topic), AllTexts(w.props) \cup {w.topic})
  BY <1>4, <1>6, ReckonBoth
<1>8. Reckoned(Bytes, x + (2 + t) + (2 + l), props \o StringBytes(w.topic) \o StringBytes(w.payload),
               AllTexts(w.props) \cup {w.topic} \cup {w.payload})
  BY <1>6, <1>7, ReckonBoth
<1>9. x + (2 + t) + (2 + l) = 2 + t + 2 + l + x
  BY SMT
<1>10. Uncut(AllTexts(w.props) \cup {w.topic} \cup {w.payload})
         <=> Uncut({w.payload} \cup AllTexts(w.props))
  BY SMT DEF Uncut
<1>11. QED BY Zenon, <1>3, <1>5, <1>8, <1>9, <1>10, ReckonSame

\* The beginning of a CONNECT: the name and the level of the protocol, the flags and keepalive.
LEMMA ReckonBeginning ==
  ASSUME NEW vn \in Versions, NEW flags \in Nat, NEW keepalive \in Short
  PROVE  Reckoned(Nat, IF vn = "v31" THEN 12 ELSE 10,
                  StringBytes(ProtocolName(vn)) \o <<ProtocolLevel(vn), flags>>
                  \o Uint16(keepalive), {})
<1> DEFINE name == ProtocolName(vn)
           level == ProtocolLevel(vn)
           start == <<level, flags>>
<1>1. /\ name \in Seq(Bytes)
      /\ Len(name) = (IF vn = "v31" THEN 6 ELSE 4)
  <2>1. /\ <<77, 81, 73, 115, 100, 112>> \in Seq(Bytes) /\ Len(<<77, 81, 73, 115, 100, 112>>) = 6
        /\ <<77, 81, 84, 84>> \in Seq(Bytes) /\ Len(<<77, 81, 84, 84>>) = 4
    BY SMT DEF Bytes
  <2>2. QED BY <2>1 DEF ProtocolName
<1>2. level \in Nat
  BY SMT DEF ProtocolLevel, Versions
<1> HIDE DEF name, level
<1>3. start \in Seq(Nat) /\ Len(start) = 2
  BY SMT, <1>2
<1> HIDE DEF start
<1>4. Bytes \subseteq Nat
  BY SMT DEF Bytes
<1>5. PICK l \in Nat : l = Len(name) /\ 2 + l + 2 + 2 = (IF vn = "v31" THEN 12 ELSE 10)
  BY SMT, <1>1
<1>6. Uncut({name})
  <2>1. l < 65536
    BY SMT, <1>1, <1>5
  <2>2. QED BY SMT, <1>5, <2>1 DEF Uncut
<1>7. Reckoned(Nat, 2 + l, StringBytes(name), {name})
  BY <1>1, <1>4, <1>5, ReckonString, ReckonWider
<1>8. Reckoned(Nat, 2, start, {})
  BY <1>3, ReckonExact
<1>9. Reckoned(Nat, 2, Uint16(keepalive), {})
  <2>1. Reckoned(Bytes, 2, Uint16(keepalive), {})
    BY TwoBytes, ReckonExact
  <2>2. QED BY <1>4, <2>1, ReckonWider
<1>10. Reckoned(Nat, 2 + l + 2, StringBytes(name) \o start, {name} \cup {})
  BY <1>7, <1>8, ReckonBoth
<1>11. Reckoned(Nat, 2 + l + 2 + 2, StringBytes(name) \o start \o Uint16(keepalive),
                {name} \cup {} \cup {})
  BY <1>9, <1>10, ReckonBoth
<1>12. Uncut({name} \cup {} \cup {}) <=> Uncut({})
  BY SMT, <1>6 DEF Uncut
<1>13. QED BY <1>5, <1>11, <1>12, ReckonSame DEF name, level, start

\* send__connect, for a will whose topic has been checked (send_connect.c:84-205).
LEMMA ConnectReckoned ==
  ASSUME NEW vn \in Versions, NEW c, c.keepalive \in Short, c.clean \in BOOLEAN,
         c.id \subseteq Text, \A x, y \in c.id : x = y,
         c.username \subseteq Text, \A x, y \in c.username : x = y,
         c.password \subseteq Text, \A x, y \in c.password : x = y,
         \A x, y \in c.will : x = y,
         \A w \in c.will : /\ w.topic \in Text /\ Uncut({w.topic}) /\ w.payload \in Text
                           /\ w.qos \in 0..2 /\ w.retain \in BOOLEAN
                           /\ w.props \in Seq(Property) /\ (vn # "v5" => w.props = <<>>),
         c.props \in Seq(Property), vn # "v5" => c.props = <<>>
  PROVE  Reckoned(Nat, ConnectDraft(vn, c).announced, ConnectDraft(vn, c).body,
                  c.id \cup c.username \cup c.password \cup AllTexts(c.props)
                  \cup UNION {{w.payload} \cup AllTexts(w.props) : w \in c.will})
<1> DEFINE w == CHOOSE w \in c.will : TRUE
           flags == ConnectFlags(c)
           wills == UNION {{v.payload} \cup AllTexts(v.props) : v \in c.will}
           nl == IF vn = "v31" THEN 12 ELSE 10
           nu == StringBytes(ProtocolName(vn)) \o <<ProtocolLevel(vn), flags>>
                 \o Uint16(c.keepalive)
           pl == IF vn = "v5" THEN LengthAndAll(c.props) ELSE 0
           pu == If(vn = "v5", WriteLengthAndAll(c.props))
           il == IF c.id = {} THEN 2 ELSE OptionalLength(c.id)
           iu == IF c.id = {} THEN Uint16(0) ELSE Optional(c.id)
           wl == IF c.will = {} THEN 0 ELSE WillLength(vn, w)
           wu == IF c.will = {} THEN <<>> ELSE WillBytes(vn, w)
           ul == OptionalLength(c.username)
           uu == Optional(c.username)
           sl == OptionalLength(c.password)
           su == Optional(c.password)
<1>1. Bytes \subseteq Nat
  BY SMT DEF Bytes
<1>2. flags \in Nat
  <2> DEFINE b == IF c.will = {} THEN 0 ELSE 4 + w.qos * 8 + Bit(w.retain, 32)
  <2>1. b \in Nat
    <3>1. CASE c.will = {}
      BY <3>1
    <3>2. CASE c.will # {}
      <4>1. w.qos \in 0..2
        BY <3>2
      <4>2. QED BY SMT, <4>1 DEF Bit
    <3>3. QED BY <3>1, <3>2
  <2>2. flags = Bit(c.clean, 2) + Bit(c.username # {}, 128) + Bit(c.password # {}, 64) + b
    BY DEF ConnectFlags
  <2> HIDE DEF b
  <2>3. Bit(c.clean, 2) \in Nat /\ Bit(c.username # {}, 128) \in Nat /\ Bit(c.password # {}, 64) \in Nat
    BY SMT DEF Bit
  <2> HIDE DEF flags
  <2>4. QED BY SMT, <2>1, <2>2, <2>3
<1>3. Reckoned(Nat, nl, nu, {})
  <2> HIDE DEF flags
  <2>1. QED BY <1>2, ReckonBeginning
<1>4. Reckoned(Nat, pl, pu, AllTexts(c.props))
  <2>1. Reckoned(Bytes, pl, pu, AllTexts(c.props))
    BY ReckonIf
  <2> HIDE DEF pl, pu
  <2>2. QED BY <1>1, <2>1, ReckonWider
<1>5. Reckoned(Nat, il, iu, c.id)
  <2>1. CASE c.id = {}
    <3>1. 0 \in Short
      BY SMT DEF Short
    <3>2. Reckoned(Bytes, 2, Uint16(0), {})
      BY <3>1, TwoBytes, ReckonExact
    <3>3. Reckoned(Nat, 2, Uint16(0), {})
      BY <1>1, <3>2, ReckonWider
    <3>4. QED BY <2>1, <3>3
  <2>2. CASE c.id # {}
    <3>1. Reckoned(Bytes, OptionalLength(c.id), Optional(c.id), c.id)
      BY ReckonOptional
    <3>2. Reckoned(Nat, OptionalLength(c.id), Optional(c.id), c.id)
      BY <1>1, <3>1, ReckonWider
    <3>3. QED BY <2>2, <3>2
  <2>3. QED BY <2>1, <2>2
<1>6. Reckoned(Nat, wl, wu, wills)
  <2>1. CASE c.will = {}
    <3>1. wills = {} /\ wl = 0 /\ wu = <<>>
      BY <2>1
    <3> HIDE DEF wills, wl, wu
    <3>2. QED BY <3>1, ReckonNone
  <2>2. CASE c.will # {}
    <3>1. w \in c.will /\ c.will = {w}
      BY <2>2
    <3>2. Reckoned(Bytes, WillLength(vn, w), WillBytes(vn, w),
                   {w.payload} \cup AllTexts(w.props))
      BY <3>1, ReckonWill
    <3> HIDE DEF w
    <3>3. wills = {w.payload} \cup AllTexts(w.props)
      BY <3>1
    <3>4. Reckoned(Bytes, WillLength(vn, w), WillBytes(vn, w), wills)
      BY <3>2, <3>3
    <3> HIDE DEF wills
    <3>5. Reckoned(Nat, WillLength(vn, w), WillBytes(vn, w), wills)
      BY <1>1, <3>4, ReckonWider
    <3>6. QED BY <2>2, <3>5
  <2>3. QED BY <2>1, <2>2
<1>7. Reckoned(Nat, ul, uu, c.username) /\ Reckoned(Nat, sl, su, c.password)
  <2>1. Reckoned(Bytes, ul, uu, c.username) /\ Reckoned(Bytes, sl, su, c.password)
    BY ReckonOptional
  <2> HIDE DEF ul, uu, sl, su
  <2>2. QED BY <1>1, <2>1, ReckonWider
<1>8. /\ ConnectDraft(vn, c).announced = nl + pl + il + wl + ul + sl
      /\ ConnectDraft(vn, c).body = nu \o pu \o iu \o wu \o uu \o su
  BY Zenon DEF ConnectDraft, Draft
<1> DEFINE texts == {} \cup AllTexts(c.props) \cup c.id \cup wills \cup c.username \cup c.password
<1>9. texts = c.id \cup c.username \cup c.password \cup AllTexts(c.props) \cup wills
  BY Zenon
<1> HIDE DEF w, flags, wills, nl, nu, pl, pu, il, iu, wl, wu, ul, uu, sl, su
<1>10. Reckoned(Nat, nl + pl, nu \o pu, {} \cup AllTexts(c.props))
  BY <1>3, <1>4, ReckonBoth
<1>11. Reckoned(Nat, nl + pl + il, nu \o pu \o iu, {} \cup AllTexts(c.props) \cup c.id)
  BY <1>5, <1>10, ReckonBoth
<1>12. Reckoned(Nat, nl + pl + il + wl, nu \o pu \o iu \o wu,
                {} \cup AllTexts(c.props) \cup c.id \cup wills)
  BY <1>6, <1>11, ReckonBoth
<1>13. Reckoned(Nat, nl + pl + il + wl + ul, nu \o pu \o iu \o wu \o uu,
                {} \cup AllTexts(c.props) \cup c.id \cup wills \cup c.username)
  BY <1>7, <1>12, ReckonBoth
<1>14. Reckoned(Nat, nl + pl + il + wl + ul + sl, nu \o pu \o iu \o wu \o uu \o su, texts)
  BY <1>7, <1>13, ReckonBoth
<1> HIDE DEF texts
<1>15. QED BY Zenon, <1>8, <1>9, <1>14 DEF wills

-----------------------------------------------------------------------------
(* Properties are read back                                                *)

\* What stands in a buffer consists of its parts, one behind the other.
LEMMA HoldsParts ==
  ASSUME NEW b, Len(b) \in Nat, NEW pos \in Nat, NEW S, NEW u \in Seq(S), NEW v \in Seq(S),
         Holds(b, pos, u \o v)
  PROVE  Holds(b, pos, u) /\ Holds(b, pos + Len(u), v)
<1> DEFINE w == u \o v
<1>1. PICK l \in Nat, m \in Nat : l = Len(u) /\ m = Len(v)
  BY LenProperties
<1>2. /\ Len(w) = l + m
      /\ \A i \in 1..l + m : w[i] = IF i <= l THEN u[i] ELSE v[i - l]
  BY <1>1, ConcatProperties
<1>3. pos + Len(w) <= Len(b) /\ \A i \in 1..Len(w) : b[pos + i] = w[i]
  BY DEF Holds
<1> HIDE DEF w
<1>4. pos + (l + m) <= Len(b) /\ \A i \in 1..l + m : b[pos + i] = w[i]
  BY <1>2, <1>3
<1>5. pos + l <= Len(b) /\ pos + l + m <= Len(b)
  BY SMT, <1>4
<1>6. ASSUME NEW i \in 1..l
      PROVE  b[pos + i] = u[i]
  <2>1. i \in 1..l + m /\ i <= l
    BY SMT
  <2>2. QED BY <1>2, <1>4, <2>1
<1>7. ASSUME NEW i \in 1..m
      PROVE  b[pos + l + i] = v[i]
  <2>1. l + i \in 1..l + m /\ ~(l + i <= l) /\ (l + i) - l = i /\ pos + (l + i) = pos + l + i
    BY SMT
  <2>2. b[pos + (l + i)] = w[l + i] /\ w[l + i] = v[(l + i) - l]
    BY <1>2, <1>4, <2>1
  <2>3. QED BY <2>1, <2>2
<1>8. QED BY <1>1, <1>5, <1>6, <1>7 DEF Holds

\* The parts of a flattened sequence stand one behind the other, from at[0] to at[n].
Stands(at, b, from, s) ==
  /\ at[0] = from /\ at[Len(s)] = from + Len(FlattenSeq(s))
  /\ \A k \in 0..Len(s) : at[k] \in Nat /\ at[k] <= at[Len(s)]
  /\ \A k \in 1..Len(s) : at[k] = at[k - 1] + Len(s[k]) /\ Holds(b, at[k - 1], s[k])

LEMMA FlattenHolds ==
  ASSUME NEW b, Len(b) \in Nat, NEW from \in Nat, NEW S, NEW s \in Seq(Seq(S)),
         Holds(b, from, FlattenSeq(s))
  PROVE  \E at : Stands(at, b, from, s)
<1> DEFINE n == Len(s)
<1>1. n \in Nat /\ \A i \in 1..n : s[i] \in Seq(S) /\ Len(s[i]) \in Nat
  <2>1. n \in Nat /\ \A i \in 1..n : s[i] \in Seq(S)
    BY LenProperties, ElementOfSeq
  <2>2. QED BY <2>1, LenProperties
<1>2. PICK F : Joins(F, s, S) /\ FlattenSeq(s) = F[n]
  BY PartialJoins
<1>3. /\ F[0] = <<>>
      /\ \A k \in 0..n : F[k] \in Seq(S) /\ Len(F[k]) \in Nat
      /\ \A k \in 1..n : F[k] = F[k - 1] \o s[k]
  <2>1. F[0] = <<>> /\ (\A k \in 0..n : F[k] \in Seq(S)) /\ \A k \in 1..n : F[k] = F[k - 1] \o s[k]
    BY <1>2 DEF Joins
  <2>2. QED BY <2>1, LenProperties
<1> HIDE DEF n
<1>4. ASSUME NEW k \in 1..n
      PROVE  /\ k - 1 \in 0..n /\ k \in 0..n
             /\ Len(F[k]) = Len(F[k - 1]) + Len(s[k])
             /\ Len(F[k - 1]) <= Len(F[k])
             /\ Holds(b, from, F[k]) =>
                  Holds(b, from, F[k - 1]) /\ Holds(b, from + Len(F[k - 1]), s[k])
  <2>1. k - 1 \in 0..n /\ k \in 0..n
    BY SMT, <1>1
  <2>2. F[k] = F[k - 1] \o s[k] /\ F[k - 1] \in Seq(S) /\ s[k] \in Seq(S)
    BY <1>1, <1>3, <2>1
  <2>3. Len(F[k]) = Len(F[k - 1]) + Len(s[k])
    BY <2>2, Together
  <2>4. PICK l \in Nat, m \in Nat : l = Len(F[k - 1]) /\ m = Len(s[k])
    BY <1>1, <1>3, <2>1
  <2>5. l <= l + m
    BY SMT
  <2>6. QED BY <2>1, <2>2, <2>3, <2>4, <2>5, HoldsParts
<1> DEFINE Fine(k) == Holds(b, from, F[k]) /\ Len(F[k]) <= Len(F[n])
           T == {j \in 0..n : Fine(n - j)}
<1>5. 0 \in T
  <2>1. n - 0 = n /\ 0 \in 0..n /\ n \in 0..n
    BY SMT, <1>1
  <2>2. Len(F[n]) \in Nat
    BY <1>3, <2>1
  <2>3. Len(F[n]) <= Len(F[n])
    BY SMT, <2>2
  <2>4. QED BY <1>2, <2>1, <2>3
<1>6. ASSUME NEW j \in 0..n - 1, j \in T PROVE j + 1 \in T
  <2>1. /\ n - j \in 1..n /\ (n - j) - 1 = n - (j + 1) /\ j + 1 \in 0..n
        /\ n \in 0..n /\ n - j \in 0..n /\ n - (j + 1) \in 0..n
    BY SMT, <1>1
  <2>2. Fine(n - j)
    BY <1>6
  <2>3. PICK a \in Nat, c \in Nat, d \in Nat :
          a = Len(F[n - (j + 1)]) /\ c = Len(F[n - j]) /\ d = Len(F[n])
    BY <1>3, <2>1
  <2>4. a <= c /\ c <= d
    BY <1>4, <2>1, <2>2, <2>3
  <2>5. a <= d
    BY SMT, <2>4
  <2>6. QED BY <1>4, <2>1, <2>2, <2>3, <2>5
<1> HIDE DEF T
<1>7. \A k \in 0..n : Fine(k)
  <2>1. \A j \in 0..n : j \in T
    BY <1>1, <1>5, <1>6, UpTo
  <2>2. ASSUME NEW k \in 0..n
        PROVE  Fine(k)
    <3>1. n - k \in 0..n /\ n - (n - k) = k
      BY SMT, <1>1
    <3>2. QED BY <2>1, <3>1 DEF T
  <2>3. QED BY <2>2
<1> HIDE DEF Fine
<1> DEFINE at == [k \in 0..n |-> from + Len(F[k])]
<1>8. \A k \in 0..n : at[k] = from + Len(F[k]) /\ at[k] \in Nat
  <2>1. ASSUME NEW k \in 0..n
        PROVE  from + Len(F[k]) \in Nat
    <3>1. PICK l \in Nat : l = Len(F[k])
      BY <1>3
    <3>2. from + l \in Nat
      BY SMT
    <3>3. QED BY <3>1, <3>2
  <2>2. QED BY <2>1
<1> HIDE DEF at
<1>9. 0 \in 0..n /\ n \in 0..n
  BY SMT, <1>1
<1>10. at[0] = from /\ at[n] = from + Len(FlattenSeq(s))
  <2>1. Len(<<>>) = 0 /\ from + 0 = from
    BY SMT
  <2>2. QED BY <1>2, <1>3, <1>8, <1>9, <2>1
<1>11. ASSUME NEW k \in 0..n
       PROVE  at[k] \in Nat /\ at[k] <= at[n]
  <2>1. PICK l \in Nat, m \in Nat : l = Len(F[k]) /\ m = Len(F[n])
    BY <1>3, <1>9
  <2>2. l <= m
    BY <1>7, <2>1 DEF Fine
  <2>3. from + l <= from + m
    BY SMT, <2>2
  <2>4. QED BY <1>8, <1>9, <2>1, <2>3
<1>12. ASSUME NEW k \in 1..n
       PROVE  at[k] = at[k - 1] + Len(s[k]) /\ Holds(b, at[k - 1], s[k])
  <2>1. k - 1 \in 0..n /\ k \in 0..n
    BY <1>4
  <2>2. PICK l \in Nat, m \in Nat : l = Len(F[k - 1]) /\ m = Len(s[k])
    BY <1>1, <1>3, <2>1
  <2>3. from + (l + m) = from + l + m
    BY SMT
  <2>4. at[k] = at[k - 1] + Len(s[k])
    BY <1>4, <1>8, <2>1, <2>2, <2>3
  <2>5. Holds(b, from + Len(F[k - 1]), s[k])
    BY <1>4, <1>7, <2>1 DEF Fine
  <2>6. QED BY <1>8, <2>1, <2>4, <2>5
<1>13. QED BY <1>10, <1>11, <1>12 DEF Stands, n

\* property__read: the identifier, then the value.
LEMMA PropertyReads ==
  ASSUME NEW b, NEW pos
  PROVE  ReadProperty(b, pos) =
           LET r == ReadVarint(b, pos)
               s == ReadValue(r.value, b, r.pos)
           IN IF ~Succeeds(r) THEN r
              ELSE IF Succeeds(s) THEN Ok(Prop(r.value, s.value), s.pos) ELSE s
<1> DEFINE read == ReadVarint(b, pos)
           Outer(r) == IF Succeeds(r)
                       THEN Then(ReadValue(r.value, b, r.pos),
                                 LAMBDA value, q : Ok(Prop(r.value, value), q))
                       ELSE r
           S == {Outer(r) : r \in {read}}
<1>1. ReadProperty(b, pos) = CHOOSE x \in S : TRUE
  BY DEF ReadProperty, Then, The
<1> HIDE DEF Outer
<1>2. S = {Outer(read)}
  OBVIOUS
<1>3. ReadProperty(b, pos) = Outer(read)
  BY <1>1, <1>2
<1> DEFINE value == ReadValue(read.value, b, read.pos)
           Inner(s) == IF Succeeds(s) THEN Ok(Prop(read.value, s.value), s.pos) ELSE s
           R == {Inner(s) : s \in {value}}
<1>4. Outer(read) = IF Succeeds(read) THEN CHOOSE x \in R : TRUE ELSE read
  BY DEF Outer, Then, The
<1> HIDE DEF Inner
<1>5. R = {Inner(value)}
  OBVIOUS
<1>6. Outer(read) = IF Succeeds(read) THEN Inner(value) ELSE read
  BY <1>4, <1>5
<1>7. QED BY <1>3, <1>6 DEF Inner

\* The two texts of a user property.
LEMMA UserReads ==
  ASSUME NEW b, NEW pos
  PROVE  ReadValue(UserProperty, b, pos) =
           LET r == ReadString(b, pos)
               s == ReadString(b, r.pos)
           IN IF ~Succeeds(r) THEN r
              ELSE IF Succeeds(s) THEN Ok(<<r.value, s.value>>, s.pos) ELSE s
<1> DEFINE read == ReadString(b, pos)
           Outer(r) == IF Succeeds(r)
                       THEN Then(ReadString(b, r.pos), LAMBDA text, q : Ok(<<r.value, text>>, q))
                       ELSE r
           S == {Outer(r) : r \in {read}}
<1>1. ReadValue(UserProperty, b, pos) = CHOOSE x \in S : TRUE
  <2>1. /\ UserProperty \notin ByteProperties /\ UserProperty \notin Int16Properties
        /\ UserProperty \notin Int32Properties /\ UserProperty # SubscriptionIdentifier
        /\ UserProperty \notin StringProperties /\ UserProperty \notin BinaryProperties
    BY SMT DEF ByteProperties, Int16Properties, Int32Properties, BinaryProperties,
         StringProperties, SubscriptionIdentifier, UserProperty, MaximumQos, ServerKeepAlive,
         ReceiveMaximum, TopicAlias, MessageExpiryInterval, MaximumPacketSize,
         AssignedClientIdentifier
  <2>2. ReadValue(UserProperty, b, pos) =
          Then(ReadString(b, pos), LAMBDA name, p :
            Then(ReadString(b, p), LAMBDA text, q : Ok(<<name, text>>, q)))
    BY <2>1 DEF ReadValue
  <2>3. QED BY <2>2 DEF Then, The
<1> HIDE DEF Outer
<1>2. S = {Outer(read)}
  OBVIOUS
<1>3. ReadValue(UserProperty, b, pos) = Outer(read)
  BY <1>1, <1>2
<1> DEFINE text == ReadString(b, read.pos)
           Inner(s) == IF Succeeds(s) THEN Ok(<<read.value, s.value>>, s.pos) ELSE s
           R == {Inner(s) : s \in {text}}
<1>4. Outer(read) = IF Succeeds(read) THEN CHOOSE x \in R : TRUE ELSE read
  BY DEF Outer, Then, The
<1> HIDE DEF Inner
<1>5. R = {Inner(text)}
  OBVIOUS
<1>6. Outer(read) = IF Succeeds(read) THEN Inner(text) ELSE read
  BY <1>4, <1>5
<1>7. QED BY <1>3, <1>6 DEF Inner

\* A text that is not cut off is read back.
LEMMA TextReadBack ==
  ASSUME NEW s \in Seq(Bytes), Uncut({s}),
         NEW b \in Seq(Bytes), NEW pos \in Nat, Holds(b, pos, StringBytes(s))
  PROVE  /\ ReadBinary(b, pos) = Ok(s, pos + Len(StringBytes(s)))
         /\ ReadString(b, pos) =
              IF ValidUtf8(s) THEN Ok(s, pos + Len(StringBytes(s))) ELSE Err("MALFORMED_UTF8")
<1>1. PICK l \in Nat : l = Len(s)
  BY LenProperties
<1>2. Len(s) \in Short
  BY SMT, <1>1 DEF Uncut, Short
<1>3. Len(StringBytes(s)) = 2 + l
  BY <1>1, ReckonString DEF Reckoned
<1>4. pos + 2 + l = pos + (2 + l)
  BY SMT
<1>5. pos + 2 + Len(s) = pos + Len(StringBytes(s))
  BY <1>1, <1>3, <1>4
<1>6. QED BY <1>2, <1>5, BinaryRoundTrip, StringRoundTrip

\* The value of a property is read back.
LEMMA ValueReadBack ==
  ASSUME NEW p \in Property, Addable(p), Uncut(TextsOf(p)),
         NEW b \in Seq(Bytes), NEW pos \in Nat, Holds(b, pos, ValueBytes(p))
  PROVE  ReadValue(p.id, b, pos) = Ok(p.value, pos + Len(ValueBytes(p)))
<1> DEFINE v == ValueBytes(p)
<1>1. Len(b) \in Nat
  BY LenProperties
<1>2. CASE p.id \in ByteProperties
  <2>1. v = <<p.value % 256>> /\ p.value \in Bytes /\ ReadValue(p.id, b, pos) = ReadByte(b, pos)
    BY PropertyKinds, <1>2 DEF ValueBytes, ReadValue
  <2>2. PICK x \in Bytes : x = p.value
    BY <2>1
  <2>3. x % 256 = x
    BY SMT DEF Bytes
  <2>4. v = <<x>> /\ Len(<<x>>) = 1 /\ <<x>>[1] = x
    BY <2>1, <2>2, <2>3
  <2>5. pos + 1 <= Len(b) /\ b[pos + 1] = x
    <3>1. 1 \in 1..1
      BY SMT
    <3>2. QED BY <2>4, <3>1 DEF Holds
  <2>6. ~(pos + 1 > Len(b))
    BY SMT, <1>1, <2>5
  <2>7. QED BY <2>1, <2>2, <2>4, <2>5, <2>6 DEF ReadByte
<1>3. CASE p.id \in Int16Properties
  <2>1. v = Uint16(p.value) /\ p.value \in Short /\ ReadValue(p.id, b, pos) = ReadUint16(b, pos)
    BY PropertyKinds, <1>3 DEF ValueBytes, ReadValue
  <2>2. Len(Uint16(p.value)) = 2
    BY <2>1, TwoBytes
  <2>3. QED BY <2>1, <2>2, Uint16ReadBack
<1>4. CASE p.id \in Int32Properties
  <2>1. v = Uint32(p.value) /\ p.value \in Word /\ ReadValue(p.id, b, pos) = ReadUint32(b, pos)
    BY PropertyKinds, <1>4 DEF ValueBytes, ReadValue
  <2>2. Len(Uint32(p.value)) = 4
    BY <2>1, FourBytes
  <2>3. QED BY <2>1, <2>2, Uint32RoundTrip
<1>5. CASE p.id = SubscriptionIdentifier
  <2>1. v = Varint(p.value) /\ p.value \in Word /\ ReadValue(p.id, b, pos) = ReadVarint(b, pos)
    BY PropertyKinds, <1>5 DEF ValueBytes, ReadValue
  <2>2. p.value \in Nat /\ p.value <= MaxVarint
    BY <1>5, <2>1 DEF Word, Addable
  <2>3. Len(v) = VarintBytes(p.value)
    BY <2>1, <2>2, VarintWritten
  <2>4. QED BY <2>1, <2>2, <2>3, VarintRoundTrip
<1>6. CASE p.id \in BinaryProperties
  <2>1. /\ v = StringBytes(p.value) /\ p.value \in Seq(Bytes) /\ TextsOf(p) = {p.value}
        /\ ReadValue(p.id, b, pos) = ReadBinary(b, pos)
    BY PropertyKinds, <1>6 DEF ValueBytes, ReadValue, TextsOf, Text
  <2>2. QED BY <2>1, TextReadBack
<1>7. CASE p.id \in StringProperties
  <2>1. /\ v = StringBytes(p.value) /\ p.value \in Seq(Bytes) /\ TextsOf(p) = {p.value}
        /\ ReadValue(p.id, b, pos) = ReadString(b, pos) /\ ValidUtf8(p.value)
    BY PropertyKinds, <1>7 DEF ValueBytes, ReadValue, TextsOf, Text, Addable
  <2>2. QED BY <2>1, TextReadBack
<1>8. CASE p.id = UserProperty
  <2>1. /\ v = StringBytes(p.value[1]) \o StringBytes(p.value[2])
        /\ TextsOf(p) = {p.value[1], p.value[2]} /\ p.value \in Text \X Text
        /\ ValidUtf8(p.value[1]) /\ ValidUtf8(p.value[2])
    BY PropertyKinds, <1>8 DEF ValueBytes, TextsOf, Addable
  <2>2. PICK s \in Seq(Bytes), t \in Seq(Bytes) : p.value = <<s, t>>
    BY <2>1 DEF Text
  <2>3. p.value[1] = s /\ p.value[2] = t
    BY <2>2
  <2>4. Uncut({s}) /\ Uncut({t})
    BY SMT, <2>1, <2>3 DEF Uncut
  <2>5. PICK x \in Seq(Bytes), y \in Seq(Bytes) : x = StringBytes(s) /\ y = StringBytes(t)
    BY ReckonString DEF Reckoned
  <2>6. PICK l \in Nat, m \in Nat : l = Len(x) /\ m = Len(y)
    BY LenProperties
  <2>7. Holds(b, pos, x) /\ Holds(b, pos + l, y) /\ Len(v) = l + m
    <3>1. v = x \o y
      BY <2>1, <2>3, <2>5
    <3>2. Holds(b, pos, x \o y)
      BY <3>1
    <3> HIDE DEF v
    <3>3. QED BY <1>1, <2>6, <3>1, <3>2, HoldsParts, Together
  <2>8. ReadString(b, pos) = Ok(s, pos + l)
    <3>1. Uncut({s}) /\ Holds(b, pos, StringBytes(s)) /\ ValidUtf8(s)
      BY <2>1, <2>3, <2>4, <2>5, <2>7
    <3>2. ReadString(b, pos) = Ok(s, pos + Len(StringBytes(s)))
      BY <3>1, TextReadBack
    <3>3. QED BY <2>5, <2>6, <3>2
  <2>9. pos + l \in Nat /\ pos + l + m = pos + (l + m)
    BY SMT
  <2>10. ReadString(b, pos + l) = Ok(t, pos + (l + m))
    <3>1. Uncut({t}) /\ Holds(b, pos + l, StringBytes(t)) /\ ValidUtf8(t)
      BY <2>1, <2>3, <2>4, <2>5, <2>7
    <3>2. ReadString(b, pos + l) = Ok(t, pos + l + Len(StringBytes(t)))
      BY <2>9, <3>1, TextReadBack
    <3>3. QED BY <2>5, <2>6, <2>9, <3>2
  <2> HIDE DEF v
  <2>11. ReadValue(UserProperty, b, pos) = Ok(<<s, t>>, pos + (l + m))
    BY <2>8, <2>10, UserReads DEF Ok, Succeeds
  <2>12. QED BY <1>8, <2>2, <2>7, <2>11 DEF v
<1>9. QED BY PropertyKinds, <1>2, <1>3, <1>4, <1>5, <1>6, <1>7, <1>8

\* property__read returns the property that property__write has written, and the position
\* behind it (property_mosq.c:29-141, property_mosq.c:343-432).
LEMMA PropertyReadBack ==
  ASSUME NEW p \in Property, Addable(p), Uncut(TextsOf(p)),
         NEW b \in Seq(Bytes), NEW pos \in Nat, Holds(b, pos, PropertyBytes(p))
  PROVE  ReadProperty(b, pos) = Ok(p, pos + Len(PropertyBytes(p)))
<1> DEFINE u == Varint(p.id)
           v == ValueBytes(p)
<1>1. Len(b) \in Nat
  BY LenProperties
<1>2. /\ p.id \in 1..42 /\ p = Prop(p.id, p.value)
      /\ VarintBytes(p.id) = 1 /\ p.id \in Nat /\ p.id <= MaxVarint
  BY PropertyKinds, IdWritten
<1>3. u \in Seq(Bytes) /\ Len(u) = 1
  BY <1>2, VarintWritten
<1>4. PropertyBytes(p) = u \o v
  BY DEF PropertyBytes
<1>5. v \in Seq(Bytes)
  BY ReckonValue DEF Reckoned
<1> HIDE DEF v
<1>6. PICK m \in Nat : m = Len(v)
  BY <1>5, LenProperties
<1> HIDE DEF u
<1>7. Holds(b, pos, u) /\ Holds(b, pos + 1, v)
  <2>1. Holds(b, pos, u \o v)
    BY <1>4
  <2>2. Holds(b, pos, u) /\ Holds(b, pos + Len(u), v)
    BY <1>1, <1>3, <1>5, <2>1, HoldsParts
  <2>3. QED BY <1>3, <2>2
<1>8. ReadVarint(b, pos) = Ok(p.id, pos + 1)
  BY <1>2, <1>7, VarintRoundTrip DEF u
<1>9. pos + 1 \in Nat /\ pos + 1 + m = pos + (1 + m)
  BY SMT
<1>10. ReadValue(p.id, b, pos + 1) = Ok(p.value, pos + 1 + m)
  BY <1>6, <1>7, <1>9, ValueReadBack DEF v
<1>11. Len(PropertyBytes(p)) = 1 + m
  BY <1>3, <1>4, <1>5, <1>6, Together
<1>12. ReadProperty(b, pos) = Ok(Prop(p.id, p.value), pos + 1 + m)
  BY <1>8, <1>10, PropertyReads DEF Ok, Succeeds
<1>13. QED BY <1>2, <1>9, <1>11, <1>12

\* property__read reads something when it succeeds, and nothing behind the end of the buffer.
LEMMA PropertyInside ==
  ASSUME NEW b \in Seq(Bytes), NEW pos \in 0..Len(b), Succeeds(ReadProperty(b, pos))
  PROVE  ReadProperty(b, pos).pos \in pos + 1..Len(b)
<1> DEFINE r == ReadVarint(b, pos)
           s == ReadValue(r.value, b, r.pos)
           t == ReadString(b, r.pos)
           u == ReadString(b, t.pos)
<1>1. Succeeds(r) /\ Succeeds(s) /\ ReadProperty(b, pos).pos = s.pos
  BY PropertyReads DEF Ok, Err, Succeeds
<1>2. Len(b) \in Nat
  BY LenProperties
<1>3. r.pos \in pos + 1..Len(b)
  BY <1>1, ReadersStayInside DEF ReadsInside
<1> HIDE DEF r
<1>4. PICK p \in 0..Len(b) : p = r.pos /\ pos < p
  BY SMT, <1>2, <1>3
<1>5. CASE r.value = UserProperty
  <2>1. Succeeds(t) /\ Succeeds(u) /\ s.pos = u.pos
    BY <1>1, <1>5, UserReads DEF Ok, Succeeds
  <2>2. t.pos \in p + 1..Len(b)
    BY <1>4, <2>1, ReadersStayInside DEF ReadsInside
  <2> HIDE DEF t
  <2>3. PICK q \in 0..Len(b) : q = t.pos /\ p < q
    BY SMT, <1>2, <2>2
  <2>4. u.pos \in q + 1..Len(b)
    BY <2>1, <2>3, ReadersStayInside DEF ReadsInside
  <2>5. ASSUME NEW x \in q + 1..Len(b) PROVE x \in pos + 1..Len(b)
    BY SMT, <1>2, <1>4, <2>3
  <2>6. QED BY <1>1, <2>1, <2>4, <2>5
<1>6. CASE r.value # UserProperty
  <2>1. ~Succeeds(Err("MALFORMED_PACKET"))
    BY DEF Succeeds, Err
  <2>2. s \in {ReadByte(b, p), ReadUint16(b, p), ReadUint32(b, p), ReadVarint(b, p),
               ReadString(b, p), ReadBinary(b, p)}
    BY <1>1, <1>4, <1>6, <2>1 DEF ReadValue
  <2> HIDE DEF s
  <2>3. s.pos \in p + 1..Len(b)
    BY <1>1, <2>2, ReadersStayInside DEF ReadsInside
  <2>4. ASSUME NEW x \in p + 1..Len(b) PROVE x \in pos + 1..Len(b)
    BY SMT, <1>2, <1>4
  <2>5. QED BY <1>1, <2>3, <2>4
<1>7. QED BY <1>5, <1>6

\* What property__read_all does at a position: the first property, then the others.
Reads(b, pos, end, f) ==
  LET r == ReadProperty(b, pos)
      s == f[r.pos]
  IN IF pos >= end THEN Ok(<<>>, pos)
     ELSE IF ~Succeeds(r) THEN r
     ELSE IF Succeeds(s) THEN Ok(<<r.value>> \o s.value, s.pos) ELSE s

LEMMA ListReads ==
  ASSUME NEW b \in Seq(Bytes), NEW end
  PROVE  \E f : \A pos \in 0..Len(b) :
           ReadProps(b, pos, end) = f[pos] /\ f[pos] = Reads(b, pos, end, f)
<1> DEFINE n == Len(b)
           Body(g, pos) ==
             IF pos >= end THEN Ok(<<>>, pos)
             ELSE Then(ReadProperty(b, pos), LAMBDA prop, p :
                    Then(g[p], LAMBDA others, q : Ok(<<prop>> \o others, q)))
           All == CHOOSE g : g = [pos \in 0..Len(b) |-> Body(g, pos)]
<1>1. ASSUME NEW pos
      PROVE  ReadProps(b, pos, end) = All[pos]
  BY DEF ReadProps
<1>2. ASSUME NEW g, NEW pos
      PROVE  Body(g, pos) = Reads(b, pos, end, g)
  <2> DEFINE read == ReadProperty(b, pos)
             Outer(r) == IF Succeeds(r)
                         THEN Then(g[r.pos], LAMBDA others, q : Ok(<<r.value>> \o others, q))
                         ELSE r
             S == {Outer(r) : r \in {read}}
  <2>1. Body(g, pos) = IF pos >= end THEN Ok(<<>>, pos) ELSE CHOOSE x \in S : TRUE
    BY DEF Then, The
  <2> HIDE DEF Outer
  <2>2. S = {Outer(read)}
    OBVIOUS
  <2>3. (CHOOSE x \in S : TRUE) = Outer(read)
    BY <2>2
  <2> DEFINE others == g[read.pos]
             Inner(s) == IF Succeeds(s) THEN Ok(<<read.value>> \o s.value, s.pos) ELSE s
             R == {Inner(s) : s \in {others}}
  <2>4. Outer(read) = IF Succeeds(read) THEN CHOOSE x \in R : TRUE ELSE read
    BY DEF Outer, Then, The
  <2> HIDE DEF Inner
  <2>5. R = {Inner(others)}
    OBVIOUS
  <2>6. Outer(read) = IF Succeeds(read) THEN Inner(others) ELSE read
    BY <2>4, <2>5
  <2> HIDE DEF Body
  <2>7. QED BY <2>1, <2>3, <2>6 DEF Inner, Reads
<1> HIDE DEF Body
<1> DEFINE r(i) == ReadProperty(b, i)
           W == {r(i).value : i \in 0..n}
           failing == {i \in 0..n : ~Succeeds(r(i))}
           V == [rc : {"SUCCESS"}, value : Seq(W), pos : Nat] \cup {r(i) : i \in failing}
           ended == {i \in 0..n : i >= end}
           done == ended \cup failing
           base == [i \in 0..n |-> IF i \in failing \ ended THEN r(i) ELSE Ok(<<>>, i)]
           next == [i \in 0..n |-> r(i).pos]
           Comb(i, v) == IF Succeeds(v) THEN Ok(<<r(i).value>> \o v.value, v.pos) ELSE v
           comb == [i \in 0..n |-> [v \in V |-> Comb(i, v)]]
<1>3. n \in Nat
  BY LenProperties
<1>4. /\ \A s \in Seq(W), q \in Nat : Ok(s, q) \in V
      /\ \A i \in failing : r(i) \in V
      /\ \A v \in V : Succeeds(v) => \E s \in Seq(W), q \in Nat : v = Ok(s, q)
  <2> DEFINE read == [rc : {"SUCCESS"}, value : Seq(W), pos : Nat]
             unread == {r(i) : i \in failing}
  <2> HIDE DEF W, r
  <2>1. ASSUME NEW v \in read
        PROVE  \E s \in Seq(W), q \in Nat : v = Ok(s, q)
    <3>1. v = Ok(v.value, v.pos) /\ v.value \in Seq(W) /\ v.pos \in Nat
      BY DEF Ok
    <3>2. QED BY <3>1
  <2>2. \A v \in unread : ~Succeeds(v)
    OBVIOUS
  <2>3. V = read \cup unread
    OBVIOUS
  <2>4. (\A s \in Seq(W), q \in Nat : Ok(s, q) \in read) /\ \A i \in failing : r(i) \in unread
    BY DEF Ok
  <2> HIDE DEF read, unread, V, failing
  <2>5. QED BY <2>1, <2>2, <2>3, <2>4
<1>5. \A i \in 0..n : r(i).value \in W
  OBVIOUS
<1> HIDE DEF V, W
<1>6. base \in [0..n -> V]
  <2>1. ASSUME NEW i \in 0..n
        PROVE  i \in Nat
    BY SMT, <1>3
  <2>2. <<>> \in Seq(W)
    BY EmptySeq
  <2>3. ASSUME NEW i \in 0..n
        PROVE  (IF i \in failing \ ended THEN r(i) ELSE Ok(<<>>, i)) \in V
    <3> HIDE DEF failing, ended
    <3>1. QED BY <1>4, <2>1, <2>2
  <2> HIDE DEF failing, ended
  <2>4. QED BY <2>3
<1>7. comb \in [0..n -> [V -> V]]
  <2>1. ASSUME NEW i \in 0..n, NEW v \in V
        PROVE  Comb(i, v) \in V
    <3>1. CASE Succeeds(v)
      <4>1. PICK s \in Seq(W), q \in Nat : v = Ok(s, q)
        BY <1>4, <3>1
      <4> HIDE DEF r
      <4>2. <<r(i).value>> \in Seq(W)
        BY <1>5
      <4>3. <<r(i).value>> \o s \in Seq(W)
        BY <4>2, ConcatProperties
      <4>4. Comb(i, v) = Ok(<<r(i).value>> \o s, q)
        BY <3>1, <4>1 DEF Ok
      <4> HIDE DEF Comb
      <4>5. QED BY <1>4, <4>3, <4>4
    <3>2. CASE ~Succeeds(v)
      BY <3>2
    <3>3. QED BY <3>1, <3>2
  <2> HIDE DEF Comb
  <2>2. QED BY <2>1
<1>8. ASSUME NEW i \in 0..n, i \notin done
      PROVE  next[i] \in i + 1..n
  BY <1>8, PropertyInside
<1>9. PICK f \in [0..n -> V] : Descends(f, n, done, base, next, comb)
  <2> HIDE DEF base, next, comb, done
  <2>1. QED BY <1>3, <1>6, <1>7, <1>8, DownwardRecursion
<1>10. ASSUME NEW i \in 0..n
       PROVE  f[i] = Reads(b, i, end, f)
  <2>1. f[i] = IF i \in done THEN base[i] ELSE comb[i][f[next[i]]]
    BY <1>9 DEF Descends
  <2>2. CASE i \in done
    BY <2>1, <2>2 DEF Reads
  <2>3. CASE i \notin done
    <3>1. Succeeds(r(i)) /\ ~(i >= end)
      BY <2>3
    <3>2. next[i] \in 0..n
      <4>1. next[i] \in i + 1..n
        BY <1>8, <2>3
      <4> HIDE DEF next
      <4>2. QED BY SMT, <1>3, <4>1
    <3>3. f[next[i]] \in V
      BY <3>2
    <3>4. f[i] = Comb(i, f[next[i]])
      <4> HIDE DEF Comb, next, done, base
      <4>1. QED BY <2>1, <2>3, <3>3
    <3>5. next[i] = r(i).pos
      OBVIOUS
    <3> HIDE DEF next
    <3>6. QED BY <3>1, <3>4, <3>5 DEF Reads
  <2>4. QED BY <2>2, <2>3
<1> HIDE DEF base, next, comb, done, failing, ended, Comb, r
<1>11. \E g : g = [pos \in 0..n |-> Body(g, pos)]
  <2>1. f = [i \in 0..n |-> f[i]]
    BY <1>9
  <2>2. \A i \in 0..n : f[i] = Body(f, i)
    BY <1>2, <1>10
  <2>3. f = [i \in 0..n |-> Body(f, i)]
    BY <2>1, <2>2
  <2>4. QED BY <2>3
<1>12. All = [pos \in 0..n |-> Body(All, pos)]
  BY <1>11
<1> HIDE DEF All, n
<1>13. \A pos \in 0..n : All[pos] = Reads(b, pos, end, All)
  <2>1. \A pos \in 0..n : All[pos] = Body(All, pos)
    BY <1>12
  <2>2. QED BY <1>2, <2>1
<1>14. QED BY <1>1, <1>13 DEF n
\* property__read_all returns the properties that property__write_all has written, and the
\* position behind them (property_mosq.c:149-198, property_mosq.c:343-469).
LEMMA PropsReadBack ==
  ASSUME NEW props \in Seq(Property), \A i \in DOMAIN props : Addable(props[i]),
         Uncut(AllTexts(props)),
         NEW b \in Seq(Bytes), NEW from \in Nat, Holds(b, from, WriteAll(props)),
         NEW end, end = from + Len(WriteAll(props))
  PROVE  ReadProps(b, from, end) = Ok(props, end)
<1> DEFINE n == Len(props)
           s == [i \in DOMAIN props |-> PropertyBytes(props[i])]
<1>1. n \in Nat /\ DOMAIN props = 1..n /\ \A i \in 1..n : props[i] \in Property
  BY LenProperties, ElementOfSeq
<1>2. Len(b) \in Nat
  BY LenProperties
<1>3. \A i \in 1..n : s[i] = PropertyBytes(props[i]) /\ s[i] \in Seq(Bytes)
  BY <1>1, ReckonProperty DEF Reckoned
<1>4. s \in Seq(Seq(Bytes)) /\ Len(s) = n
  <2> HIDE DEF n
  <2>1. s = [i \in 1..n |-> s[i]]
    BY <1>1
  <2> HIDE DEF s
  <2>2. QED BY <1>1, <1>3, <2>1, SeqOfFunction
<1>5. Holds(b, from, FlattenSeq(s)) /\ end = from + Len(FlattenSeq(s))
  BY DEF WriteAll
<1> HIDE DEF s
<1>6. PICK at : Stands(at, b, from, s)
  BY <1>2, <1>4, <1>5, FlattenHolds
<1>7. /\ at[0] = from /\ at[n] = end
      /\ \A k \in 0..n : at[k] \in Nat /\ at[k] <= end
      /\ \A k \in 1..n : at[k] = at[k - 1] + Len(s[k]) /\ Holds(b, at[k - 1], s[k])
  BY <1>4, <1>5, <1>6 DEF Stands
<1> HIDE DEF n
<1>8. 0 \in 0..n /\ n \in 0..n
  BY SMT, <1>1
<1>9. end \in Nat /\ end <= Len(b)
  <2>1. end \in Nat
    BY <1>7, <1>8
  <2>2. QED BY <1>5, <2>1 DEF Holds
<1>10. PICK f : \A pos \in 0..Len(b) :
          ReadProps(b, pos, end) = f[pos] /\ f[pos] = Reads(b, pos, end, f)
  BY ListReads
<1>11. ASSUME NEW k \in 0..n
       PROVE  at[k] \in 0..Len(b)
  BY SMT, <1>2, <1>7, <1>9
<1>18. \A k \in 1..n : Addable(props[k]) /\ Uncut(TextsOf(props[k]))
  <2>1. AllTexts(props) = UNION {TextsOf(props[i]) : i \in 1..n}
    BY <1>1 DEF AllTexts
  <2>2. QED BY <1>1, <2>1 DEF Uncut
<1> DEFINE Good(k) == f[at[k]] = Ok(SubSeq(props, k + 1, n), end)
           T == {j \in 0..n : Good(n - j)}
<1>12. 0 \in T
  <2>1. n - 0 = n /\ n + 1 > n
    BY SMT, <1>1
  <2>2. SubSeq(props, n + 1, n) = <<>>
    BY <1>1, <2>1, SubSeqProperties
  <2>3. end >= end
    BY SMT, <1>9
  <2>4. f[end] = Ok(<<>>, end)
    BY <1>7, <1>8, <1>10, <1>11, <2>3 DEF Reads
  <2>5. QED BY <1>7, <1>8, <2>1, <2>2, <2>4
<1>13. ASSUME NEW j \in 0..n - 1, j \in T PROVE j + 1 \in T
  <2>1. PICK k \in 1..n : k = n - j
    BY SMT, <1>1
  <2>2. /\ k - 1 = n - (j + 1) /\ j + 1 \in 0..n /\ k - 1 \in 0..n /\ k \in 0..n
        /\ (k - 1) + 1 = k
    BY SMT, <1>1, <2>1
  <2>3. Good(k)
    BY <1>13, <2>1
  <2>4. ReadProperty(b, at[k - 1]) = Ok(props[k], at[k])
    <3>1. Addable(props[k]) /\ Uncut(TextsOf(props[k])) /\ props[k] \in Property
      BY <1>1, <1>18
    <3>2. Holds(b, at[k - 1], PropertyBytes(props[k])) /\ at[k - 1] \in Nat
      BY <1>3, <1>7, <2>2
    <3>3. at[k] = at[k - 1] + Len(PropertyBytes(props[k]))
      BY <1>3, <1>7
    <3>4. QED BY <3>1, <3>2, <3>3, PropertyReadBack
  <2>5. ~(at[k - 1] >= end)
    <3>1. at[k] \in at[k - 1] + 1..Len(b)
      BY SMTT(30), <1>11, <2>2, <2>4, PropertyInside DEF Ok, Succeeds
    <3>2. at[k] <= end /\ at[k - 1] \in Nat
      BY <1>7, <2>2
    <3>3. QED BY SMT, <1>2, <1>9, <3>1, <3>2
  <2>6. f[at[k - 1]] = Ok(<<props[k]>> \o SubSeq(props, k + 1, n), end)
    <3>1. f[at[k - 1]] = Reads(b, at[k - 1], end, f)
      BY <1>10, <1>11, <2>2
    <3> DEFINE rest == SubSeq(props, k + 1, n)
    <3>2. f[at[k]] = Ok(rest, end)
      BY <2>3
    <3> HIDE DEF rest, Good
    <3> DEFINE r == ReadProperty(b, at[k - 1])
               g == f[at[k]]
    <3>3. Succeeds(r) /\ r.value = props[k] /\ r.pos = at[k]
      BY <2>4 DEF Ok, Succeeds
    <3>4. Succeeds(g) /\ g.value = rest /\ g.pos = end
      BY <3>2 DEF Ok, Succeeds
    <3>5. Reads(b, at[k - 1], end, f) = Ok(<<r.value>> \o g.value, g.pos)
      BY <2>5, <3>3, <3>4 DEF Reads
    <3> HIDE DEF r, g
    <3>6. QED BY <3>1, <3>3, <3>4, <3>5 DEF rest
  <2>7. <<props[k]>> \o SubSeq(props, k + 1, n) = SubSeq(props, k, n)
    <3>1. k \in 1..Len(props) /\ n \in k..Len(props)
      BY SMT, <1>1 DEF n
    <3>2. QED BY <3>1, SubSeqRecursiveFirst
  <2>8. QED BY <2>2, <2>6, <2>7
<1> HIDE DEF T
<1>14. \A j \in 0..n : j \in T
  BY <1>1, <1>12, <1>13, UpTo
<1>15. Good(0)
  <2>1. n - n = 0
    BY SMT, <1>1
  <2>2. QED BY <1>8, <1>14, <2>1 DEF T
<1>16. SubSeq(props, 0 + 1, n) = props
  <2>1. 0 + 1 = 1
    BY SMT
  <2>2. QED BY <2>1, SubSeqFull DEF n
<1>17. QED BY <1>7, <1>8, <1>10, <1>11, <1>15, <1>16
\* property__read_all: the length, the list, and what mosquitto_property_check_all says of it.
LEMMA AllReads ==
  ASSUME NEW command, NEW b, NEW pos
  PROVE  ReadAll(command, b, pos) =
           LET r == ReadVarint(b, pos)
               s == ReadProps(b, r.pos, r.pos + r.value)
               verdict == CheckAll(command, s.value)
           IN IF ~Succeeds(r) THEN r
              ELSE IF ~Succeeds(s) THEN s
              ELSE IF verdict = "SUCCESS" THEN Ok(s.value, s.pos) ELSE Err(verdict)
<1> DEFINE read == ReadVarint(b, pos)
           Checked(s) == The({IF verdict = "SUCCESS" THEN Ok(s.value, s.pos) ELSE Err(verdict) :
                                verdict \in {CheckAll(command, s.value)}})
           Inner(s) == IF Succeeds(s) THEN Checked(s) ELSE s
           Outer(r) == IF Succeeds(r)
                       THEN The({Inner(s) : s \in {ReadProps(b, r.pos, r.pos + r.value)}})
                       ELSE r
           S == {Outer(r) : r \in {read}}
<1>1. ReadAll(command, b, pos) = CHOOSE x \in S : TRUE
  BY DEF ReadAll, Then, The
<1> HIDE DEF Outer
<1>2. S = {Outer(read)}
  OBVIOUS
<1>3. ReadAll(command, b, pos) = Outer(read)
  BY <1>1, <1>2
<1> DEFINE list == ReadProps(b, read.pos, read.pos + read.value)
           R == {Inner(s) : s \in {list}}
<1> HIDE DEF Inner
<1>4. Outer(read) = IF Succeeds(read) THEN CHOOSE x \in R : TRUE ELSE read
  BY DEF Outer, The
<1>5. R = {Inner(list)}
  OBVIOUS
<1>6. Outer(read) = IF Succeeds(read) THEN Inner(list) ELSE read
  BY <1>4, <1>5
<1> DEFINE said == CheckAll(command, list.value)
           Says(verdict) == IF verdict = "SUCCESS" THEN Ok(list.value, list.pos) ELSE Err(verdict)
           Q == {Says(verdict) : verdict \in {said}}
<1>7. Inner(list) = IF Succeeds(list) THEN CHOOSE x \in Q : TRUE ELSE list
  BY DEF Inner, The
<1> HIDE DEF Says
<1>8. Q = {Says(said)}
  OBVIOUS
<1>9. Inner(list) = IF Succeeds(list) THEN Says(said) ELSE list
  BY <1>7, <1>8
<1>10. QED BY <1>3, <1>6, <1>9 DEF Says

\* What property__write_all has written with the length in front is read back, if the packet
\* may have it.
LEMMA ReadAllBack ==
  ASSUME NEW props \in Seq(Property), \A i \in DOMAIN props : Addable(props[i]),
         Uncut(AllTexts(props)), LengthAll(props) <= MaxVarint,
         NEW b \in Seq(Bytes), NEW pos \in Nat, Holds(b, pos, WriteLengthAndAll(props)),
         NEW command
  PROVE  ReadAll(command, b, pos) =
           IF CheckAll(command, props) = "SUCCESS"
           THEN Ok(props, pos + Len(WriteLengthAndAll(props)))
           ELSE Err(CheckAll(command, props))
<1> DEFINE v == WriteAll(props)
<1>1. PICK n \in Nat : n = LengthAll(props)
  BY ReckonAll DEF Reckoned
<1>2. v \in Seq(Bytes) /\ Len(v) = n
  BY <1>1, ReckonAll DEF Reckoned
<1> DEFINE u == Varint(n)
<1>3. u \in Seq(Bytes) /\ Len(u) = VarintBytes(n) /\ VarintBytes(n) \in Nat
  BY <1>1, VarintWritten, LenProperties
<1> HIDE DEF u, v
<1>4. WriteLengthAndAll(props) = u \o v
  BY <1>1 DEF WriteLengthAndAll, u, v
<1>5. Len(b) \in Nat
  BY LenProperties
<1>6. Holds(b, pos, u) /\ Holds(b, pos + Len(u), v)
  <2>1. Holds(b, pos, u \o v)
    BY <1>4
  <2>2. QED BY <1>2, <1>3, <1>5, <2>1, HoldsParts
<1>7. PICK from \in Nat : from = pos + VarintBytes(n)
  BY SMT, <1>3
<1>8. ReadVarint(b, pos) = Ok(n, from)
  BY <1>1, <1>6, <1>7, VarintRoundTrip DEF u
<1>9. ReadProps(b, from, from + n) = Ok(props, from + n)
  BY <1>2, <1>3, <1>6, <1>7, PropsReadBack DEF v
<1>10. pos + Len(WriteLengthAndAll(props)) = from + n
  <2>1. Len(u \o v) = Len(u) + Len(v)
    BY <1>2, <1>3, Together
  <2>2. pos + (VarintBytes(n) + n) = pos + VarintBytes(n) + n
    BY SMT, <1>3
  <2>3. QED BY <1>2, <1>3, <1>4, <1>7, <2>1, <2>2
<1> DEFINE r == ReadVarint(b, pos)
           s == ReadProps(b, from, from + n)
<1>11. Succeeds(r) /\ r.value = n /\ r.pos = from
  BY <1>8 DEF Ok, Succeeds
<1>12. Succeeds(s) /\ s.value = props /\ s.pos = from + n
  BY <1>9 DEF Ok, Succeeds
<1> HIDE DEF r, s
<1>13. ReadAll(command, b, pos) =
         IF CheckAll(command, props) = "SUCCESS" THEN Ok(s.value, s.pos)
         ELSE Err(CheckAll(command, props))
  BY <1>11, <1>12, AllReads DEF r, s
<1>14. QED BY <1>10, <1>12, <1>13

-----------------------------------------------------------------------------
(* The decoders, once it is known what they read                           *)

\* handle__connack: flags, reason, properties.
LEMMA ConnackReads ==
  ASSUME NEW v, NEW b, NEW flags, NEW p, NEW reason, NEW q,
         ReadByte(b, 0) = Ok(flags, p), ReadByte(b, p) = Ok(reason, q)
  PROVE  HandleConnack(v, b) =
           LET t == ReadPropsIf(v, "CONNACK", b, q) IN
           IF Succeeds(t)
           THEN Ok([kind |-> "CONNACK", flags |-> flags, reason |-> reason, props |-> t.value], t.pos)
           ELSE t
<1> DEFINE Packet(f, r, l) == [kind |-> "CONNACK", flags |-> f, reason |-> r, props |-> l]
           Third(f, r, t) == IF Succeeds(t) THEN Ok(Packet(f, r, t.value), t.pos) ELSE t
           Second(f, s) ==
             IF Succeeds(s)
             THEN The({Third(f, s.value, t) : t \in {ReadPropsIf(v, "CONNACK", b, s.pos)}})
             ELSE s
           First(r) ==
             IF Succeeds(r) THEN The({Second(r.value, s) : s \in {ReadByte(b, r.pos)}}) ELSE r
<1>1. HandleConnack(v, b) = The({First(r) : r \in {ReadByte(b, 0)}})
  BY DEF HandleConnack, Then
<1> DEFINE r0 == Ok(flags, p)
           s0 == Ok(reason, q)
           t0 == ReadPropsIf(v, "CONNACK", b, q)
<1> HIDE DEF First
<1>2. HandleConnack(v, b) = First(r0)
  BY <1>1 DEF The
<1> HIDE DEF Second
<1>3. First(r0) = Second(flags, s0)
  BY DEF First, The, Succeeds, Ok
<1> HIDE DEF Third
<1>4. Second(flags, s0) = Third(flags, reason, t0)
  BY DEF Second, The, Succeeds, Ok
<1>5. QED BY <1>2, <1>3, <1>4 DEF Third

\* handle__suback and handle__unsuback: the identifier, properties, and the rest.
LEMMA SubackReads ==
  ASSUME NEW v, NEW b, NEW mid, NEW p, ReadUint16(b, 0) = Ok(mid, p), mid # 0
  PROVE  HandleSuback(v, b) =
           LET t == ReadPropsIf(v, "SUBACK", b, p) IN
           IF Succeeds(t)
           THEN Ok([kind |-> "SUBACK", mid |-> mid, props |-> t.value,
                    granted |-> SubSeq(b, t.pos + 1, Len(b))], Len(b))
           ELSE t
<1> DEFINE Packet(m, t) == [kind |-> "SUBACK", mid |-> m, props |-> t.value,
                            granted |-> SubSeq(b, t.pos + 1, Len(b))]
           Second(m, t) == IF Succeeds(t) THEN Ok(Packet(m, t), Len(b)) ELSE t
           First(r) ==
             IF Succeeds(r)
             THEN IF r.value = 0 THEN Err("PROTOCOL")
                  ELSE The({Second(r.value, t) : t \in {ReadPropsIf(v, "SUBACK", b, r.pos)}})
             ELSE r
<1>1. HandleSuback(v, b) = The({First(r) : r \in {ReadUint16(b, 0)}})
  BY DEF HandleSuback, Then
<1> DEFINE r0 == Ok(mid, p)
           t0 == ReadPropsIf(v, "SUBACK", b, p)
<1> HIDE DEF First
<1>2. HandleSuback(v, b) = First(r0)
  BY <1>1 DEF The
<1> HIDE DEF Second
<1>3. First(r0) = Second(mid, t0)
  BY DEF First, The, Succeeds, Ok
<1>4. QED BY <1>2, <1>3 DEF Second

LEMMA UnsubackReads ==
  ASSUME NEW v, NEW b, NEW mid, NEW p, ReadUint16(b, 0) = Ok(mid, p), mid # 0
  PROVE  HandleUnsuback(v, b) =
           LET t == ReadPropsIf(v, "UNSUBACK", b, p) IN
           IF Succeeds(t)
           THEN Ok([kind |-> "UNSUBACK", mid |-> mid, props |-> t.value], t.pos) ELSE t
<1> DEFINE Packet(m, t) == [kind |-> "UNSUBACK", mid |-> m, props |-> t.value]
           Second(m, t) == IF Succeeds(t) THEN Ok(Packet(m, t), t.pos) ELSE t
           First(r) ==
             IF Succeeds(r)
             THEN IF r.value = 0 THEN Err("PROTOCOL")
                  ELSE The({Second(r.value, t) : t \in {ReadPropsIf(v, "UNSUBACK", b, r.pos)}})
             ELSE r
<1>1. HandleUnsuback(v, b) = The({First(r) : r \in {ReadUint16(b, 0)}})
  BY DEF HandleUnsuback, Then
<1> DEFINE r0 == Ok(mid, p)
           t0 == ReadPropsIf(v, "UNSUBACK", b, p)
<1> HIDE DEF First
<1>2. HandleUnsuback(v, b) = First(r0)
  BY <1>1 DEF The
<1> HIDE DEF Second
<1>3. First(r0) = Second(mid, t0)
  BY DEF First, The, Succeeds, Ok
<1>4. QED BY <1>2, <1>3 DEF Second

\* handle__disconnect and handle__auth: the reason, and properties.
LEMMA DisconnectReads ==
  ASSUME NEW b, NEW reason, NEW p, ReadByte(b, 0) = Ok(reason, p)
  PROVE  HandleDisconnect("v5", b) =
           LET t == ReadAll("DISCONNECT", b, p) IN
           IF Len(b) <= 2
           THEN Ok([kind |-> "DISCONNECT", reason |-> reason, props |-> <<>>], p)
           ELSE IF Succeeds(t)
           THEN Ok([kind |-> "DISCONNECT", reason |-> reason, props |-> t.value], t.pos) ELSE t
<1> DEFINE Packet(c, l) == [kind |-> "DISCONNECT", reason |-> c, props |-> l]
           Second(c, t) == IF Succeeds(t) THEN Ok(Packet(c, t.value), t.pos) ELSE t
           First(r) ==
             IF Succeeds(r)
             THEN IF Len(b) <= 2 THEN Ok(Packet(r.value, <<>>), r.pos)
                  ELSE The({Second(r.value, t) : t \in {ReadAll("DISCONNECT", b, r.pos)}})
             ELSE r
<1>1. HandleDisconnect("v5", b) = The({First(r) : r \in {ReadByte(b, 0)}})
  BY DEF HandleDisconnect, Then
<1> DEFINE r0 == Ok(reason, p)
           t0 == ReadAll("DISCONNECT", b, p)
<1> HIDE DEF First
<1>2. HandleDisconnect("v5", b) = First(r0)
  BY <1>1 DEF The
<1> HIDE DEF Second
<1>3. First(r0) = IF Len(b) <= 2 THEN Ok(Packet(reason, <<>>), p) ELSE Second(reason, t0)
  BY DEF First, The, Succeeds, Ok
<1>4. QED BY <1>2, <1>3 DEF Second

LEMMA AuthReads ==
  ASSUME NEW b, b # <<>>, NEW reason, NEW p, ReadByte(b, 0) = Ok(reason, p)
  PROVE  HandleAuth("v5", b) =
           LET t == ReadAll("AUTH", b, p) IN
           IF Succeeds(t)
           THEN Ok([kind |-> "AUTH", reason |-> reason, props |-> t.value], t.pos) ELSE t
<1> DEFINE Packet(c, l) == [kind |-> "AUTH", reason |-> c, props |-> l]
           Second(c, t) == IF Succeeds(t) THEN Ok(Packet(c, t.value), t.pos) ELSE t
           First(r) ==
             IF Succeeds(r)
             THEN The({Second(r.value, t) : t \in {ReadAll("AUTH", b, r.pos)}})
             ELSE r
<1>1. HandleAuth("v5", b) = The({First(r) : r \in {ReadByte(b, 0)}})
  BY DEF HandleAuth, Then
<1> DEFINE r0 == Ok(reason, p)
           t0 == ReadAll("AUTH", b, p)
<1> HIDE DEF First
<1>2. HandleAuth("v5", b) = First(r0)
  BY <1>1 DEF The
<1> HIDE DEF Second
<1>3. First(r0) = Second(reason, t0)
  BY DEF First, The, Succeeds, Ok
<1>4. QED BY <1>2, <1>3 DEF Second

\* handle__pubackcomp, handle__pubrec and handle__pubrel: the identifier, and what follows
\* if the packet is long enough.
AckEnds(v, kind, b, mid, p) ==
  LET r == ReadByte(b, p)
      t == ReadAll(IF kind = "PUBCOMP" THEN "PUBACK" ELSE kind, b, r.pos)
      Packet(reason, props) == [kind |-> kind, mid |-> mid, reason |-> reason, props |-> props]
  IN IF v # "v5" \/ Len(b) <= 2 THEN Ok(Packet(0, <<>>), p)
     ELSE IF ~Succeeds(r) THEN r
     ELSE IF Len(b) <= 3 THEN Ok(Packet(r.value, <<>>), r.pos)
     ELSE IF Succeeds(t) THEN Ok(Packet(r.value, t.value), t.pos) ELSE t

LEMMA AckReads ==
  ASSUME NEW v, NEW kind, NEW command, kind = "PUBREL" /\ v # "v31" => command % 16 = 2,
         NEW b, NEW mid, NEW p, ReadUint16(b, 0) = Ok(mid, p), mid # 0
  PROVE  HandleAck(v, kind, command, b) = AckEnds(v, kind, b, mid, p)
<1> DEFINE checked == IF kind = "PUBCOMP" THEN "PUBACK" ELSE kind
           Packet(m, c, l) == [kind |-> kind, mid |-> m, reason |-> c, props |-> l]
           Third(m, c, t) == IF Succeeds(t) THEN Ok(Packet(m, c, t.value), t.pos) ELSE t
           Second(m, r) ==
             IF Succeeds(r)
             THEN IF Len(b) <= 3 THEN Ok(Packet(m, r.value, <<>>), r.pos)
                  ELSE The({Third(m, r.value, t) : t \in {ReadAll(checked, b, r.pos)}})
             ELSE r
           First(q) ==
             IF Succeeds(q)
             THEN IF q.value = 0 THEN Err("PROTOCOL")
                  ELSE IF v # "v5" \/ Len(b) <= 2 THEN Ok(Packet(q.value, 0, <<>>), q.pos)
                  ELSE The({Second(q.value, r) : r \in {ReadByte(b, q.pos)}})
             ELSE q
<1>1. HandleAck(v, kind, command, b) = The({First(q) : q \in {ReadUint16(b, 0)}})
  BY DEF HandleAck, Then
<1> DEFINE q0 == Ok(mid, p)
           r0 == ReadByte(b, p)
           t0 == ReadAll(checked, b, r0.pos)
<1> HIDE DEF First
<1>2. HandleAck(v, kind, command, b) = First(q0)
  BY <1>1 DEF The
<1> HIDE DEF Second
<1>3. First(q0) = IF v # "v5" \/ Len(b) <= 2 THEN Ok(Packet(mid, 0, <<>>), p)
                  ELSE Second(mid, r0)
  BY DEF First, The, Succeeds, Ok
<1> HIDE DEF Third
<1>4. Second(mid, r0) = IF ~Succeeds(r0) THEN r0
                        ELSE IF Len(b) <= 3 THEN Ok(Packet(mid, r0.value, <<>>), r0.pos)
                        ELSE Third(mid, r0.value, t0)
  BY DEF Second, The
<1> HIDE DEF r0, t0, Packet
<1>5. QED BY <1>2, <1>3, <1>4 DEF AckEnds, Third, r0, t0, Packet, checked

\* handle__publish: the topic, the identifier if there is one, properties, and the rest.
PublishEnds(v, command, b, topic, mid, pos) ==
  LET t == ReadPropsIf(v, "PUBLISH", b, pos) IN
  IF Succeeds(t)
  THEN IF (command \div 2) % 4 = 3 THEN Err("PROTOCOL")
       ELSE Ok([kind |-> "PUBLISH", dup |-> (command \div 8) % 2 = 1, qos |-> (command \div 2) % 4,
                retain |-> command % 2 = 1, topic |-> topic, mid |-> mid, props |-> t.value,
                payload |-> SubSeq(b, t.pos + 1, Len(b))], Len(b))
  ELSE t

LEMMA PublishReads ==
  ASSUME NEW v, NEW command, NEW b, NEW topic, NEW p, ReadString(b, 0) = Ok(topic, p)
  PROVE  HandlePublish(v, command, b) =
           LET r == ReadUint16(b, p) IN
           IF topic = <<>> THEN Err("PROTOCOL")
           ELSE IF (command \div 2) % 4 = 0 THEN PublishEnds(v, command, b, topic, 0, p)
           ELSE IF ~Succeeds(r) THEN r
           ELSE IF r.value = 0 THEN Err("PROTOCOL")
           ELSE PublishEnds(v, command, b, topic, r.value, r.pos)
<1> DEFINE qos == (command \div 2) % 4
           Ends(topic1, mid, t) ==
             IF Succeeds(t)
             THEN IF qos = 3 THEN Err("PROTOCOL")
                  ELSE Ok([kind |-> "PUBLISH", dup |-> (command \div 8) % 2 = 1, qos |-> qos,
                           retain |-> command % 2 = 1, topic |-> topic1, mid |-> mid,
                           props |-> t.value, payload |-> SubSeq(b, t.pos + 1, Len(b))], Len(b))
             ELSE t
           Finish(topic1, mid, pos) ==
             The({Ends(topic1, mid, t) : t \in {ReadPropsIf(v, "PUBLISH", b, pos)}})
           Second(topic1, r) ==
             IF Succeeds(r)
             THEN IF r.value = 0 THEN Err("PROTOCOL") ELSE Finish(topic1, r.value, r.pos)
             ELSE r
           First(s) ==
             IF Succeeds(s)
             THEN IF s.value = <<>> THEN Err("PROTOCOL")
                  ELSE IF qos = 0 THEN Finish(s.value, 0, s.pos)
                  ELSE The({Second(s.value, r) : r \in {ReadUint16(b, s.pos)}})
             ELSE s
<1>1. HandlePublish(v, command, b) = The({First(s) : s \in {ReadString(b, 0)}})
  BY DEF HandlePublish, Then
<1> DEFINE s0 == Ok(topic, p)
           r0 == ReadUint16(b, p)
<1> HIDE DEF First, qos
<1>2. HandlePublish(v, command, b) = First(s0)
  BY <1>1 DEF The
<1> HIDE DEF Second, Finish
<1>3. First(s0) = IF topic = <<>> THEN Err("PROTOCOL")
                  ELSE IF qos = 0 THEN Finish(topic, 0, p) ELSE Second(topic, r0)
  BY DEF First, The, Succeeds, Ok
<1> HIDE DEF Ends
<1>4. ASSUME NEW mid, NEW pos
      PROVE  Finish(topic, mid, pos) = PublishEnds(v, command, b, topic, mid, pos)
  <2>1. Finish(topic, mid, pos) = Ends(topic, mid, ReadPropsIf(v, "PUBLISH", b, pos))
    BY DEF Finish, The
  <2>2. QED BY <2>1 DEF Ends, PublishEnds, qos
<1>5. Second(topic, r0) = IF ~Succeeds(r0) THEN r0
                          ELSE IF r0.value = 0 THEN Err("PROTOCOL")
                          ELSE PublishEnds(v, command, b, topic, r0.value, r0.pos)
  BY <1>4 DEF Second
<1>6. QED BY <1>2, <1>3, <1>4, <1>5 DEF qos

-----------------------------------------------------------------------------
(* What is written is decoded                                              *)

\* Properties that can be written and, where there are none, are none.
Writable(v, props) ==
  /\ props \in Seq(Property) /\ Uncut(AllTexts(props))
  /\ \A i \in DOMAIN props : Addable(props[i])
  /\ v # "v5" => props = <<>>

PropsPart(v, props) == If(v = "v5", WriteLengthAndAll(props))

\* A packet that is allocated has a length of at most four digits.
LEMMA AllocatedShort ==
  ASSUME NEW n \in Nat, VarintLen(n) < 5
  PROVE  n <= MaxVarint
<1>1. VarintBytes(n) < 5
  BY VarintLength
<1>2. QED BY SMT, <1>1 DEF VarintBytes, MaxVarint

\* The properties of a packet are read back.
PartRead(v, kind, props, b, pos) ==
  ReadPropsIf(v, kind, b, pos) =
    IF v # "v5" \/ CheckAll(kind, props) = "SUCCESS"
    THEN Ok(props, pos + Len(PropsPart(v, props))) ELSE Err(CheckAll(kind, props))

LEMMA PartReadBack ==
  ASSUME NEW v, NEW props, Writable(v, props),
         NEW b \in Seq(Bytes), NEW pos \in Nat, Holds(b, pos, PropsPart(v, props)),
         NEW n \in Nat, VarintLen(n) < 5, Len(PropsPart(v, props)) <= n,
         NEW kind
  PROVE  PartRead(v, kind, props, b, pos)
<1>1. CASE v # "v5"
  <2>1. PropsPart(v, props) = <<>> /\ props = <<>> /\ Len(<<>>) = 0 /\ pos + 0 = pos
    BY SMT, <1>1 DEF PropsPart, If, Writable
  <2>2. ReadPropsIf(v, kind, b, pos) = Ok(<<>>, pos)
    BY <1>1 DEF ReadPropsIf
  <2>3. QED BY <1>1, <2>1, <2>2 DEF PartRead
<1>2. CASE v = "v5"
  <2>1. PropsPart(v, props) = WriteLengthAndAll(props)
    BY <1>2 DEF PropsPart, If
  <2>2. ReadPropsIf(v, kind, b, pos) = ReadAll(kind, b, pos)
    BY <1>2 DEF ReadPropsIf
  <2>3. n <= MaxVarint
    BY AllocatedShort
  <2>4. /\ Len(WriteLengthAndAll(props)) = LengthAndAll(props)
        /\ LengthAll(props) \in Nat
    BY ReckonLengthAndAll, ReckonAll DEF Writable, Reckoned
  <2>5. PICK l \in Nat : l = LengthAll(props)
    BY <2>4
  <2>6. LengthAndAll(props) = l + VarintBytes(l) /\ VarintBytes(l) \in Nat
    BY <2>5, VarintWritten, LenProperties DEF LengthAndAll
  <2>7. l + VarintBytes(l) <= n
    BY <2>1, <2>4, <2>6
  <2>8. l <= MaxVarint
    BY SMT, <2>3, <2>6, <2>7 DEF MaxVarint
  <2>9. ReadAll(kind, b, pos) =
          IF CheckAll(kind, props) = "SUCCESS"
          THEN Ok(props, pos + Len(WriteLengthAndAll(props))) ELSE Err(CheckAll(kind, props))
    BY <2>1, <2>5, <2>8, ReadAllBack DEF Writable
  <2>10. QED BY <1>2, <2>1, <2>2, <2>9 DEF PartRead
<1>3. QED BY <1>1, <1>2

\* The rest behind what was read.
LEMMA RestBehind ==
  ASSUME NEW S, NEW u \in Seq(S), NEW w \in Seq(S)
  PROVE  SubSeq(u \o w, Len(u) + 1, Len(u \o w)) = w
<1> DEFINE b == u \o w
<1>1. PICK l \in Nat, m \in Nat : l = Len(u) /\ m = Len(w)
  BY LenProperties
<1>2. b \in Seq(S) /\ Len(b) = l + m /\ \A i \in 1..l + m : b[i] = IF i <= l THEN u[i] ELSE w[i - l]
  BY <1>1, ConcatProperties
<1> HIDE DEF b
<1>3. /\ l + 1 \in Int /\ l + m \in Int /\ l + m - (l + 1) + 1 = m
      /\ \A i \in l + 1..l + m : b[i] \in S
  <2>1. \A i \in l + 1..l + m : i \in 1..Len(b)
    BY SMT, <1>2
  <2>2. \A i \in l + 1..l + m : b[i] \in S
    BY <1>2, <2>1, ElementOfSeq
  <2>3. l + 1 \in Int /\ l + m \in Int /\ l + m - (l + 1) + 1 = m
    BY SMT
  <2>4. QED BY <2>2, <2>3
<1> DEFINE r == SubSeq(b, l + 1, l + m)
<1>4. /\ r \in Seq(S) /\ Len(r) = IF l + 1 <= l + m THEN l + m - (l + 1) + 1 ELSE 0
      /\ \A i \in 1..m : r[i] = b[l + 1 + i - 1]
  BY <1>3, SubSeqProperties
<1>5. Len(r) = m
  BY SMT, <1>4
<1>6. ASSUME NEW i \in 1..m
      PROVE  r[i] = w[i]
  <2>1. l + 1 + i - 1 = l + i /\ l + i \in 1..l + m /\ ~(l + i <= l) /\ (l + i) - l = i
    BY SMT
  <2>2. QED BY <1>2, <1>4, <2>1
<1> HIDE DEF r
<1>7. r = w
  BY <1>1, <1>4, <1>5, <1>6, SeqEqual
<1>8. QED BY <1>1, <1>2, <1>7 DEF r, b

\* A body holds itself; its parts are where they were put.
LEMMA HoldsItself ==
  ASSUME NEW b \in Seq(Bytes)
  PROVE  Holds(b, 0, b)
<1>1. PICK l \in Nat : l = Len(b)
  BY LenProperties
<1>2. 0 + l <= l /\ \A i \in 1..l : 0 + i = i
  BY SMT
<1>3. QED BY <1>1, <1>2 DEF Holds

LEMMA ByteReadBack ==
  ASSUME NEW x, NEW b, Len(b) \in Nat, NEW pos \in Nat, Holds(b, pos, <<x>>)
  PROVE  ReadByte(b, pos) = Ok(x, pos + 1)
<1>1. Len(<<x>>) = 1 /\ <<x>>[1] = x /\ 1 \in 1..1
  BY SMT
<1>2. pos + 1 <= Len(b) /\ b[pos + 1] = x
  BY <1>1 DEF Holds
<1>3. ~(pos + 1 > Len(b))
  BY SMT, <1>2
<1>4. QED BY <1>2, <1>3 DEF ReadByte

\* handle__packet: which decoder is called for the first byte of a packet.
LEMMA Dispatch ==
  ASSUME NEW v, NEW b
  PROVE  /\ HandlePacket(v, CommandByte("CONNACK"), b) = HandleConnack(v, b)
         /\ \A kind \in Acks :
              HandlePacket(v, CommandByte(kind), b) = HandleAck(v, kind, CommandByte(kind), b)
         /\ HandlePacket(v, CommandByte("SUBACK"), b) = HandleSuback(v, b)
         /\ HandlePacket(v, CommandByte("UNSUBACK"), b) = HandleUnsuback(v, b)
         /\ HandlePacket(v, CommandByte("PINGREQ"), b) = Ok([kind |-> "PINGREQ"], 0)
         /\ HandlePacket(v, CommandByte("PINGRESP"), b) = Ok([kind |-> "PINGRESP"], 0)
         /\ HandlePacket(v, CommandByte("DISCONNECT"), b) = HandleDisconnect(v, b)
         /\ HandlePacket(v, CommandByte("AUTH"), b) = HandleAuth(v, b)
         /\ CommandByte("PUBREL") % 16 = 2
<1>1. HandlePacket(v, 32, b) = HandleConnack(v, b)
  BY SMT DEF HandlePacket
<1>2. HandlePacket(v, 64, b) = HandleAck(v, "PUBACK", 64, b)
  BY SMT DEF HandlePacket
<1>3. HandlePacket(v, 80, b) = HandleAck(v, "PUBREC", 80, b)
  BY SMT DEF HandlePacket
<1>4. HandlePacket(v, 98, b) = HandleAck(v, "PUBREL", 98, b)
  BY SMT DEF HandlePacket
<1>5. HandlePacket(v, 112, b) = HandleAck(v, "PUBCOMP", 112, b)
  BY SMT DEF HandlePacket
<1>6. HandlePacket(v, 144, b) = HandleSuback(v, b)
  BY SMT DEF HandlePacket
<1>7. HandlePacket(v, 176, b) = HandleUnsuback(v, b)
  BY SMT DEF HandlePacket
<1>8. /\ HandlePacket(v, 192, b) = Ok([kind |-> "PINGREQ"], 0)
      /\ HandlePacket(v, 208, b) = Ok([kind |-> "PINGRESP"], 0)
  BY SMT DEF HandlePacket
<1>9. HandlePacket(v, 224, b) = HandleDisconnect(v, b) /\ HandlePacket(v, 240, b) = HandleAuth(v, b)
  BY SMT DEF HandlePacket
<1>10. /\ CommandByte("CONNACK") = 32 /\ CommandByte("PUBACK") = 64 /\ CommandByte("PUBREC") = 80
       /\ CommandByte("PUBREL") = 98 /\ CommandByte("PUBCOMP") = 112 /\ CommandByte("SUBACK") = 144
       /\ CommandByte("UNSUBACK") = 176 /\ CommandByte("PINGREQ") = 192
       /\ CommandByte("PINGRESP") = 208 /\ CommandByte("DISCONNECT") = 224
       /\ CommandByte("AUTH") = 240
  BY SMT DEF CommandByte
<1>11. 98 % 16 = 2
  BY SMT
<1>12. \A kind \in Acks :
         HandlePacket(v, CommandByte(kind), b) = HandleAck(v, kind, CommandByte(kind), b)
  BY SMT, <1>2, <1>3, <1>4, <1>5, <1>10 DEF Acks
<1>13. QED BY SMT, <1>1, <1>6, <1>7, <1>8, <1>9, <1>10, <1>11, <1>12

\* The packets that are not taken whatever the state is: those of which handle__publish and
\* handle__disconnect ask more than MQTT does.
Odd(p) ==
  \/ p.kind = "DISCONNECT" /\ p.reason = 0 /\ p.props = <<>>
  \/ p.kind = "PUBLISH" /\ (p.topic = <<>> \/ SeveralIds(p.props))

Decoded(v, p) ==
  LET d == DraftOf(v, p)
      r == HandlePacket(v, d.command, d.body)
  IN IF Succeeds(r) THEN r.value = p ELSE Odd(p)

LEMMA PartWritten ==
  ASSUME NEW v, NEW props, Writable(v, props)
  PROVE  PropsPart(v, props) \in Seq(Bytes)
<1>1. CASE v = "v5"
  BY <1>1, ReckonLengthAndAll DEF PropsPart, If, Writable, Reckoned
<1>2. CASE v # "v5"
  BY <1>2, EmptySeq DEF PropsPart, If
<1>3. QED BY <1>1, <1>2

\* b is what stands in front of the properties, the properties and what is behind them, and
\* the properties are read from there.
Laid(v, kind, props, b, u, w) ==
  LET pos == Len(u) + Len(PropsPart(v, props)) IN
  /\ b \in Seq(Bytes) /\ Len(b) \in Nat /\ pos \in Nat
  /\ Holds(b, 0, u) /\ Len(b) = pos + Len(w)
  /\ PartRead(v, kind, props, b, Len(u))
  /\ SubSeq(b, pos + 1, Len(b)) = w

LEMMA BodyLaid ==
  ASSUME NEW v, NEW props, Writable(v, props), NEW u \in Seq(Bytes), NEW w \in Seq(Bytes),
         NEW b, b = u \o PropsPart(v, props) \o w,
         NEW n \in Nat, VarintLen(n) < 5, Len(b) <= n, NEW kind
  PROVE  Laid(v, kind, props, b, u, w)
<1> DEFINE q == PropsPart(v, props)
<1>1. q \in Seq(Bytes)
  BY PartWritten
<1> HIDE DEF q
<1>2. PICK l \in Nat, m \in Nat, k \in Nat : l = Len(u) /\ m = Len(q) /\ k = Len(w)
  BY <1>1, LenProperties
<1>3. u \o q \in Seq(Bytes) /\ Len(u \o q) = l + m
  BY <1>1, <1>2, Together
<1>4. b \in Seq(Bytes) /\ Len(b) = l + m + k /\ l + m + k \in Nat
  <2>1. b \in Seq(Bytes) /\ Len(b) = l + m + k
    BY <1>2, <1>3, Together DEF q
  <2>2. l + m + k \in Nat
    BY SMT
  <2>3. QED BY <2>1, <2>2
<1>5. Holds(b, 0, u) /\ Holds(b, l, q)
  <2>1. Holds(b, 0, u \o q \o w)
    BY <1>4, HoldsItself DEF q
  <2>2. Holds(b, 0, u \o q)
    BY <1>3, <1>4, <2>1, HoldsParts
  <2>3. Holds(b, 0, u) /\ Holds(b, 0 + l, q)
    BY <1>1, <1>2, <1>4, <2>2, HoldsParts
  <2>4. 0 + l = l
    BY SMT
  <2>5. QED BY <2>3, <2>4
<1>6. SubSeq(b, l + m + 1, Len(b)) = w
  BY <1>3, RestBehind DEF q
<1>7. m <= n
  <2>1. l + m + k <= n
    BY <1>4
  <2>2. QED BY SMT, <2>1
<1>8. PartRead(v, kind, props, b, l)
  <2>1. Holds(b, l, PropsPart(v, props)) /\ Len(PropsPart(v, props)) <= n
    BY <1>2, <1>5, <1>7 DEF q
  <2>2. b \in Seq(Bytes)
    BY <1>4
  <2>3. QED BY <2>1, <2>2, PartReadBack
<1>9. Len(u) + Len(PropsPart(v, props)) = l + m /\ l + m \in Nat
  BY <1>2 DEF q
<1>10. Len(b) = l + m + Len(w) /\ Len(b) \in Nat
  BY <1>2, <1>4
<1>11. QED BY <1>2, <1>4, <1>5, <1>6, <1>8, <1>9, <1>10 DEF Laid

\* Properties that the packet may have.
Parted(v, kind, props, b, u, w) ==
  /\ Laid(v, kind, props, b, u, w)
  /\ ReadPropsIf(v, kind, b, Len(u)) = Ok(props, Len(u) + Len(PropsPart(v, props)))

LEMMA BodyParted ==
  ASSUME NEW v, NEW props, Writable(v, props), NEW u \in Seq(Bytes), NEW w \in Seq(Bytes),
         NEW b, b = u \o PropsPart(v, props) \o w,
         NEW n \in Nat, VarintLen(n) < 5, Len(b) <= n,
         NEW kind, CheckAll(kind, props) = "SUCCESS"
  PROVE  Parted(v, kind, props, b, u, w)
<1>1. Laid(v, kind, props, b, u, w)
  BY BodyLaid
<1>2. PartRead(v, kind, props, b, Len(u))
  BY <1>1 DEF Laid
<1>3. QED BY <1>1, <1>2 DEF Parted, PartRead

\* With nothing behind the properties.
LEMMA PartedLast ==
  ASSUME NEW v, NEW props, Writable(v, props), NEW u \in Seq(Bytes),
         NEW b, b = u \o PropsPart(v, props), VarintLen(Len(b)) < 5,
         NEW kind, CheckAll(kind, props) = "SUCCESS"
  PROVE  Parted(v, kind, props, b, u, <<>>)
<1>1. PICK e \in Seq(Bytes) : e = <<>>
  BY EmptySeq
<1>2. b \in Seq(Bytes)
  BY PartWritten, Together
<1>3. b = u \o PropsPart(v, props) \o e
  BY <1>1, <1>2, ConcatEmptySeq
<1>4. PICK n \in Nat : n = Len(b)
  BY <1>2, LenProperties
<1>5. VarintLen(n) < 5 /\ Len(b) <= n
  BY SMT, <1>4
<1>6. Parted(v, kind, props, b, u, e)
  BY <1>3, <1>5, BodyParted
<1>7. QED BY <1>1, <1>6

\* CONNACK (read_handle.c, handle_connack.c).
LEMMA ConnackDecoded ==
  ASSUME NEW v, NEW p, p \in [kind : {"CONNACK"}, flags : Bytes, reason : Bytes, props : Seq(Property)],
         Writable(v, p.props), CheckAll(p.kind, p.props) = "SUCCESS", Allocates(DraftOf(v, p))
  PROVE  Decoded(v, p)
<1> DEFINE props == p.props
           u == <<p.flags, p.reason>>
           b == u \o PropsPart(v, props)
           d == DraftOf(v, p)
<1>1. /\ p.kind = "CONNACK" /\ p.flags \in Bytes /\ p.reason \in Bytes /\ props \in Seq(Property)
      /\ p = [kind |-> "CONNACK", flags |-> p.flags, reason |-> p.reason, props |-> props]
  OBVIOUS
<1>2. d = Draft(CommandByte("CONNACK"), Len(b), b)
  BY <1>1 DEF DraftOf, BrokerDraft, PropsPart, Acks
<1>3. u \in Seq(Bytes) /\ Len(u) = 2 /\ u[1] = p.flags /\ u[2] = p.reason
  BY SMT, <1>1
<1> HIDE DEF u, d
<1>4. d.announced = Len(b) /\ d.command = CommandByte("CONNACK") /\ d.body = b
  BY <1>2 DEF Draft
<1>5. VarintLen(Len(b)) < 5
  BY <1>4 DEF Allocates, d
<1>6. Parted(v, "CONNACK", props, b, u, <<>>)
  BY <1>1, <1>3, <1>5, PartedLast
<1> DEFINE pos == Len(u) + Len(PropsPart(v, props))
<1>9. /\ Holds(b, 0, u) /\ ReadPropsIf(v, "CONNACK", b, 2) = Ok(props, pos)
      /\ Len(b) \in Nat
  BY <1>3, <1>6 DEF Parted, Laid
<1> HIDE DEF b, pos
<1>10. ReadByte(b, 0) = Ok(p.flags, 1) /\ ReadByte(b, 1) = Ok(p.reason, 2)
  <2>1. 1 \in 1..2 /\ 2 \in 1..2 /\ 0 + 1 = 1 /\ 0 + 2 = 2 /\ 1 + 1 = 2
    BY SMT
  <2>2. 2 <= Len(b) /\ b[1] = p.flags /\ b[2] = p.reason
    BY <1>3, <1>9, <2>1 DEF Holds
  <2>3. ~(1 > Len(b)) /\ ~(2 > Len(b))
    BY SMT, <1>9, <2>2
  <2>4. QED BY <2>1, <2>2, <2>3 DEF ReadByte
<1>11. HandleConnack(v, b) = Ok(p, pos)
  BY <1>1, <1>9, <1>10, ConnackReads DEF Ok, Succeeds
<1>12. HandlePacket(v, d.command, d.body) = Ok(p, pos)
  BY <1>4, <1>11, Dispatch
<1>13. QED BY <1>12 DEF Decoded, d, Ok, Succeeds

\* The identifier in front is read back.
LEMMA MidReadBack ==
  ASSUME NEW mid \in Short \ {0}, NEW b \in Seq(Bytes), Holds(b, 0, Uint16(mid))
  PROVE  ReadUint16(b, 0) = Ok(mid, 2) /\ mid # 0
<1>1. 0 \in Nat /\ 0 + 2 = 2
  BY SMT
<1>2. ReadUint16(b, 0) = Ok(mid, 0 + 2)
  BY <1>1, Uint16ReadBack
<1>3. QED BY <1>1, <1>2

\* SUBACK (handle_suback.c).
LEMMA SubackDecoded ==
  ASSUME NEW v, NEW p,
         p \in [kind : {"SUBACK"}, mid : Short \ {0}, props : Seq(Property), granted : Text],
         Writable(v, p.props), CheckAll(p.kind, p.props) = "SUCCESS", Allocates(DraftOf(v, p))
  PROVE  Decoded(v, p)
<1> DEFINE props == p.props
           u == Uint16(p.mid)
           b == u \o PropsPart(v, props) \o p.granted
           d == DraftOf(v, p)
           pos == Len(u) + Len(PropsPart(v, props))
<1>1. /\ p.kind = "SUBACK" /\ p.mid \in Short \ {0} /\ p.granted \in Seq(Bytes)
      /\ p = [kind |-> "SUBACK", mid |-> p.mid, props |-> props, granted |-> p.granted]
  BY DEF Text
<1>2. d = Draft(CommandByte("SUBACK"), Len(b), b)
  BY <1>1 DEF DraftOf, BrokerDraft, PropsPart, Acks
<1>3. u \in Seq(Bytes) /\ Len(u) = 2
  BY <1>1, TwoBytes
<1> HIDE DEF d
<1>4. d.announced = Len(b) /\ d.command = CommandByte("SUBACK") /\ d.body = b
  BY <1>2 DEF Draft
<1>5. VarintLen(Len(b)) < 5
  BY <1>4 DEF Allocates, d
<1>6. PICK n \in Nat : n = Len(b)
  <2>1. b \in Seq(Bytes)
    BY <1>1, <1>3, PartWritten, Together
  <2>2. QED BY <2>1, LenProperties
<1> HIDE DEF b, u
<1>7. Len(b) <= n
  BY SMT, <1>6
<1>8. Parted(v, "SUBACK", props, b, u, p.granted)
  BY <1>1, <1>3, <1>5, <1>6, <1>7, BodyParted DEF b
<1>9. /\ Holds(b, 0, u) /\ ReadPropsIf(v, "SUBACK", b, 2) = Ok(props, pos) /\ b \in Seq(Bytes)
      /\ SubSeq(b, pos + 1, Len(b)) = p.granted
  BY <1>3, <1>8 DEF Parted, Laid
<1>10. ReadUint16(b, 0) = Ok(p.mid, 2) /\ p.mid # 0
  BY <1>1, <1>9, MidReadBack DEF u
<1> HIDE DEF pos
<1>11. HandleSuback(v, b) = Ok(p, Len(b))
  <2> DEFINE t == ReadPropsIf(v, "SUBACK", b, 2)
  <2>1. Succeeds(t) /\ t.value = props /\ t.pos = pos
    BY <1>9 DEF Ok, Succeeds
  <2>2. Succeeds(t) =>
          HandleSuback(v, b) =
            Ok([kind |-> "SUBACK", mid |-> p.mid, props |-> t.value,
                granted |-> SubSeq(b, t.pos + 1, Len(b))], Len(b))
    BY <1>10, SubackReads
  <2> HIDE DEF t
  <2>3. QED BY <1>1, <1>9, <2>1, <2>2
<1>12. HandlePacket(v, d.command, d.body) = Ok(p, Len(b))
  BY <1>4, <1>11, Dispatch
<1>13. QED BY <1>12 DEF Decoded, d, Ok, Succeeds

\* UNSUBACK (handle_unsuback.c).
LEMMA UnsubackDecoded ==
  ASSUME NEW v, NEW p, p \in [kind : {"UNSUBACK"}, mid : Short \ {0}, props : Seq(Property)],
         Writable(v, p.props), CheckAll(p.kind, p.props) = "SUCCESS", Allocates(DraftOf(v, p))
  PROVE  Decoded(v, p)
<1> DEFINE props == p.props
           u == Uint16(p.mid)
           b == u \o PropsPart(v, props)
           d == DraftOf(v, p)
           pos == Len(u) + Len(PropsPart(v, props))
<1>1. /\ p.kind = "UNSUBACK" /\ p.mid \in Short \ {0}
      /\ p = [kind |-> "UNSUBACK", mid |-> p.mid, props |-> props]
  OBVIOUS
<1>2. d = Draft(CommandByte("UNSUBACK"), Len(b), b)
  BY <1>1 DEF DraftOf, BrokerDraft, PropsPart, Acks
<1>3. u \in Seq(Bytes) /\ Len(u) = 2
  BY <1>1, TwoBytes
<1> HIDE DEF d
<1>4. d.announced = Len(b) /\ d.command = CommandByte("UNSUBACK") /\ d.body = b
  BY <1>2 DEF Draft
<1>5. VarintLen(Len(b)) < 5
  BY <1>4 DEF Allocates, d
<1> HIDE DEF b, u
<1>6. Parted(v, "UNSUBACK", props, b, u, <<>>)
  BY <1>1, <1>3, <1>5, PartedLast DEF b
<1>7. Holds(b, 0, u) /\ ReadPropsIf(v, "UNSUBACK", b, 2) = Ok(props, pos) /\ b \in Seq(Bytes)
  BY <1>3, <1>6 DEF Parted, Laid
<1>8. ReadUint16(b, 0) = Ok(p.mid, 2) /\ p.mid # 0
  BY <1>1, <1>7, MidReadBack DEF u
<1> HIDE DEF pos
<1>9. HandleUnsuback(v, b) = Ok(p, pos)
  BY <1>1, <1>7, <1>8, UnsubackReads DEF Ok, Succeeds
<1>10. HandlePacket(v, d.command, d.body) = Ok(p, pos)
  BY <1>4, <1>9, Dispatch
<1>11. QED BY <1>10 DEF Decoded, d, Ok, Succeeds

\* AUTH (handle_auth.c).
LEMMA AuthDecoded ==
  ASSUME NEW p, p \in [kind : {"AUTH"}, reason : Bytes, props : Seq(Property)],
         Writable("v5", p.props), CheckAll(p.kind, p.props) = "SUCCESS",
         Allocates(DraftOf("v5", p))
  PROVE  Decoded("v5", p)
<1> DEFINE props == p.props
           u == <<p.reason>>
           b == u \o PropsPart("v5", props)
           d == DraftOf("v5", p)
           pos == Len(u) + Len(PropsPart("v5", props))
<1>1. /\ p.kind = "AUTH" /\ p.reason \in Bytes
      /\ p = [kind |-> "AUTH", reason |-> p.reason, props |-> props]
  OBVIOUS
<1>2. d = Draft(CommandByte("AUTH"), Len(b), b)
  BY <1>1 DEF DraftOf, BrokerDraft, PropsPart, Acks
<1>3. u \in Seq(Bytes) /\ Len(u) = 1
  BY <1>1
<1> HIDE DEF d
<1>4. d.announced = Len(b) /\ d.command = CommandByte("AUTH") /\ d.body = b
  BY <1>2 DEF Draft
<1>5. VarintLen(Len(b)) < 5
  BY <1>4 DEF Allocates, d
<1> HIDE DEF b, u
<1>6. Parted("v5", "AUTH", props, b, u, <<>>)
  BY <1>1, <1>3, <1>5, PartedLast DEF b
<1>7. /\ Holds(b, 0, u) /\ ReadAll("AUTH", b, 1) = Ok(props, pos)
      /\ b \in Seq(Bytes) /\ Len(b) \in Nat
  BY <1>3, <1>6 DEF Parted, Laid, ReadPropsIf
<1>8. ReadByte(b, 0) = Ok(p.reason, 1)
  <2>1. 0 \in Nat /\ 0 + 1 = 1
    BY SMT
  <2>2. ReadByte(b, 0) = Ok(p.reason, 0 + 1)
    BY <1>7, <2>1, ByteReadBack DEF u
  <2>3. QED BY <2>1, <2>2
<1> HIDE DEF pos
<1>9. HandleAuth("v5", b) = Ok(p, pos)
  <2>1. b # <<>>
    BY <1>8, EmptySeq DEF ReadByte, Ok, Err
  <2>2. QED BY <1>1, <1>7, <1>8, <2>1, AuthReads DEF Ok, Succeeds
<1>10. HandlePacket("v5", d.command, d.body) = Ok(p, pos)
  BY <1>4, <1>9, Dispatch
<1>11. QED BY <1>10 DEF Decoded, d, Ok, Succeeds

\* Every property takes its identifier at least.
LEMMA PropertyLong ==
  ASSUME NEW p \in Property
  PROVE  PropertyLength(p) \in Nat /\ PropertyLength(p) >= 1
<1>1. PICK n \in Nat : PropertyLength(p) = 1 + n
  BY ReckonValue DEF Reckoned
<1>2. 1 + n \in Nat /\ 1 + n >= 1
  BY SMT
<1>3. QED BY <1>1, <1>2

\* Properties that are there take at least two bytes.
LEMMA PartLong ==
  ASSUME NEW props \in Seq(Property), props # <<>>, Uncut(AllTexts(props))
  PROVE  Len(WriteLengthAndAll(props)) >= 2
<1> DEFINE n == Len(props)
           l == [i \in 1..n |-> PropertyLength(props[i])]
           z == [i \in 1..n |-> 0]
<1>1. n \in Nat /\ DOMAIN props = 1..n /\ \A i \in 1..n : props[i] \in Property
  BY LenProperties, ElementOfSeq
<1>2. n >= 1
  <2>1. n # 0
    BY EmptySeq
  <2>2. QED BY SMT, <1>1, <2>1
<1>3. \A i \in 1..n : PropertyLength(props[i]) \in Nat /\ PropertyLength(props[i]) >= 1
  BY <1>1, PropertyLong
<1>4. LengthAll(props) = SumOf(l)
  BY <1>1 DEF LengthAll, Total, SumOf
<1> HIDE DEF n
<1>5. l \in [1..n -> Nat] /\ z \in [1..n -> Nat] /\ \A i \in 1..n : l[i] >= 1 /\ z[i] = 0
  BY <1>3
<1> HIDE DEF l, z
<1>6. l \in Seq(Nat) /\ Len(l) = n /\ z \in Seq(Nat) /\ Len(z) = n
  BY <1>1, <1>5, SeqOfFunction
<1>7. \A i \in 1..n : l[i] \in Nat
  BY <1>5
<1>8. 1 \in 1..n /\ \A i \in 1..n : l[i] >= z[i] /\ l[i] # z[i]
  BY SMT, <1>2, <1>5, <1>7
<1>9. SumOf(l) >= SumOf(z) /\ SumOf(l) # SumOf(z)
  BY <1>6, <1>8, SumsCompare
<1>10. SumOf(l) \in Nat /\ SumOf(z) \in Nat
  BY <1>6, SumIsNat
<1>11. PICK x \in Nat : x = LengthAll(props) /\ x >= 1
  BY SMT, <1>4, <1>9, <1>10
<1>12. Len(WriteLengthAndAll(props)) = x + VarintBytes(x)
  BY <1>11, ReckonLengthAndAll DEF Reckoned, LengthAndAll
<1>13. VarintBytes(x) \in 1..5
  BY SMT DEF VarintBytes
<1>14. QED BY SMT, <1>11, <1>12, <1>13

\* An acknowledgement or a DISCONNECT with its reason and, if they are there, properties
\* behind it.
ReasonBytes(p) == <<p.reason>> \o If(p.props # <<>>, WriteLengthAndAll(p.props))

ReasonRead(kind, p, b, l) ==
  /\ b \in Seq(Bytes) /\ Len(b) \in Nat
  /\ ReadByte(b, l) = Ok(p.reason, l + 1)
  /\ p.props = <<>> => Len(b) = l + 1
  /\ p.props # <<>> =>
       Len(b) >= l + 3 /\ \E q \in Nat : ReadAll(kind, b, l + 1) = Ok(p.props, q)

LEMMA ReasonParted ==
  ASSUME NEW p, p.reason \in Bytes, Writable("v5", p.props), NEW u \in Seq(Bytes),
         NEW b, b = u \o ReasonBytes(p),
         NEW n \in Nat, VarintLen(n) < 5, Len(b) <= n,
         NEW kind, CheckAll(kind, p.props) = "SUCCESS"
  PROVE  ReasonRead(kind, p, b, Len(u)) /\ Holds(b, 0, u)
<1> DEFINE r == <<p.reason>>
           w == WriteLengthAndAll(p.props)
<1>1. r \in Seq(Bytes) /\ Len(r) = 1
  OBVIOUS
<1>2. PICK l \in Nat : l = Len(u)
  BY LenProperties
<1> HIDE DEF r
<1>3. u \o r \in Seq(Bytes) /\ Len(u \o r) = l + 1
  BY <1>1, <1>2, Together
<1>4. ASSUME b \in Seq(Bytes), Holds(b, 0, u \o r)
      PROVE  Len(b) \in Nat /\ Holds(b, 0, u) /\ ReadByte(b, l) = Ok(p.reason, l + 1)
  <2>1. Len(b) \in Nat /\ 0 + l = l
    BY SMT, <1>4, LenProperties
  <2>2. Holds(b, 0, u) /\ Holds(b, 0 + Len(u), r)
    BY <1>1, <1>4, <2>1, HoldsParts
  <2>3. Holds(b, l, <<p.reason>>)
    BY <1>2, <2>1, <2>2 DEF r
  <2>4. QED BY <2>1, <2>2, <2>3, ByteReadBack
<1>5. CASE p.props = <<>>
  <2>1. ReasonBytes(p) = r
    <3>1. ReasonBytes(p) = r \o <<>>
      BY <1>5 DEF ReasonBytes, If, r
    <3>2. QED BY <1>1, <3>1, ConcatEmptySeq
  <2>2. b = u \o r /\ b \in Seq(Bytes) /\ Holds(b, 0, u \o r)
    BY <1>3, <2>1, HoldsItself
  <2>3. QED BY <1>2, <1>3, <1>4, <1>5, <2>2 DEF ReasonRead
<1>6. CASE p.props # <<>>
  <2>1. PropsPart("v5", p.props) = w /\ ReasonBytes(p) = r \o w
    BY <1>6 DEF PropsPart, If, ReasonBytes, r
  <2>2. w \in Seq(Bytes)
    BY <2>1, PartWritten
  <2> HIDE DEF w
  <2>3. b = (u \o r) \o w
    <3>1. b = u \o (r \o w)
      BY <2>1
    <3>2. (u \o r) \o w = u \o (r \o w)
      BY SMTT(30), <1>1, <2>2, ConcatAssociative
    <3>3. QED BY <3>1, <3>2
  <2>4. PICK m \in Nat : m = Len(w)
    BY <2>2, LenProperties
  <2>5. m >= 2
    BY <1>6, <2>4, PartLong DEF Writable, w
  <2>6. b \in Seq(Bytes) /\ Len(b) = l + 1 + m /\ Holds(b, 0, (u \o r) \o w)
    BY <1>3, <2>2, <2>3, <2>4, Together, HoldsItself
  <2>7. Holds(b, 0, u \o r) /\ Holds(b, l + 1, w)
    <3>1. Len(b) \in Nat /\ 0 + (l + 1) = l + 1
      BY SMT, <2>6
    <3>2. Holds(b, 0, u \o r) /\ Holds(b, 0 + Len(u \o r), w)
      BY <1>3, <2>2, <2>6, <3>1, HoldsParts
    <3>3. QED BY <1>3, <3>1, <3>2
  <2>8. PartRead("v5", kind, p.props, b, l + 1)
    <3>1. l + 1 \in Nat /\ m <= n
      BY SMT, <2>6
    <3>2. Holds(b, l + 1, PropsPart("v5", p.props)) /\ Len(PropsPart("v5", p.props)) <= n
      BY <2>1, <2>4, <2>7, <3>1
    <3>3. QED BY <2>6, <3>1, <3>2, PartReadBack
  <2>9. ReadAll(kind, b, l + 1) = Ok(p.props, l + 1 + m)
    BY <2>1, <2>4, <2>8 DEF PartRead, ReadPropsIf
  <2>10. l + 1 + m \in Nat /\ l + 1 + m >= l + 3
    BY SMT, <2>5
  <2>11. QED BY <1>2, <1>4, <1>6, <2>6, <2>7, <2>9, <2>10 DEF ReasonRead
<1>7. QED BY <1>5, <1>6

\* Which encoder a packet has.
LEMMA DraftIs ==
  ASSUME NEW v, NEW p
  PROVE  /\ p.kind = "CONNECT" => DraftOf(v, p) = ConnectDraft(v, p)
         /\ p.kind = "PUBLISH" => DraftOf(v, p) = PublishDraft(v, p)
         /\ p.kind = "SUBSCRIBE" => DraftOf(v, p) = SubscribeDraft(v, p)
         /\ p.kind = "UNSUBSCRIBE" => DraftOf(v, p) = UnsubscribeDraft(v, p)
         /\ p.kind = "DISCONNECT" => DraftOf(v, p) = DisconnectDraft(v, p)
         /\ p.kind \in Acks => DraftOf(v, p) = AckDraft(v, p)
         /\ p.kind \in {"PINGREQ", "PINGRESP"} => DraftOf(v, p) = SimpleDraft(p.kind)
<1>1. p.kind \in Acks => p.kind \in {"PUBACK", "PUBREC", "PUBREL", "PUBCOMP"}
  BY DEF Acks
<1>2. CASE p.kind \in Acks
  <2>1. p.kind \notin {"CONNECT", "PUBLISH", "SUBSCRIBE", "UNSUBSCRIBE", "DISCONNECT", "PINGREQ",
                       "PINGRESP"}
    BY <1>1, <1>2
  <2>2. QED BY <1>2, <2>1 DEF DraftOf
<1>3. CASE p.kind \in {"CONNECT", "PUBLISH", "SUBSCRIBE", "UNSUBSCRIBE", "DISCONNECT", "PINGREQ",
                       "PINGRESP"}
  <2>1. p.kind \notin Acks
    BY <1>1, <1>3
  <2>2. QED BY <1>3, <2>1 DEF DraftOf
<1>4. CASE /\ p.kind \notin Acks
           /\ p.kind \notin {"CONNECT", "PUBLISH", "SUBSCRIBE", "UNSUBSCRIBE", "DISCONNECT",
                             "PINGREQ", "PINGRESP"}
  BY <1>4
<1>5. QED BY <1>2, <1>3, <1>4

LEMMA DisconnectFails ==
  ASSUME NEW b, Len(b) = 0
  PROVE  ~Succeeds(HandleDisconnect("v5", b))
<1> DEFINE Behind(r) == Then(ReadAll("DISCONNECT", b, r.pos), LAMBDA props, p :
                         Ok([kind |-> "DISCONNECT", reason |-> r.value, props |-> props], p))
           First(r) ==
             IF Succeeds(r)
             THEN IF Len(b) <= 2
                  THEN Ok([kind |-> "DISCONNECT", reason |-> r.value, props |-> <<>>], r.pos)
                  ELSE Behind(r)
             ELSE r
<1>1. HandleDisconnect("v5", b) = The({First(r) : r \in {ReadByte(b, 0)}})
  BY DEF HandleDisconnect, Then
<1>2. 0 + 1 > 0
  BY SMT
<1>3. ~Succeeds(ReadByte(b, 0))
  BY <1>2 DEF ReadByte, Err, Succeeds
<1> HIDE DEF Behind
<1>4. First(ReadByte(b, 0)) = ReadByte(b, 0)
  BY <1>3
<1> HIDE DEF First
<1>5. HandleDisconnect("v5", b) = First(ReadByte(b, 0))
  BY <1>1 DEF The
<1>6. QED BY <1>3, <1>4, <1>5

\* DISCONNECT (handle_disconnect.c).  One that leaves out its reason is not taken.
LEMMA DisconnectDecoded ==
  ASSUME NEW p, p \in [kind : {"DISCONNECT"}, reason : Bytes, props : Seq(Property)],
         Writable("v5", p.props), CheckAll(p.kind, p.props) = "SUCCESS",
         Allocates(DraftOf("v5", p))
  PROVE  Decoded("v5", p)
<1> DEFINE d == DraftOf("v5", p)
           b == ReasonBytes(p)
<1>1. /\ p.kind = "DISCONNECT" /\ p.reason \in Bytes /\ p.props \in Seq(Property)
      /\ p = [kind |-> "DISCONNECT", reason |-> p.reason, props |-> p.props]
  OBVIOUS
<1>2. d = DisconnectDraft("v5", p)
  BY <1>1, DraftIs
<1>3. CASE p.reason = 0 /\ p.props = <<>>
  <2>1. d.body = <<>> /\ d.command = CommandByte("DISCONNECT")
    BY <1>2, <1>3 DEF DisconnectDraft, Draft, Reason, Explained, If
  <2>2. Len(<<>>) = 0
    BY SMT
  <2>3. ~Succeeds(HandlePacket("v5", d.command, d.body))
    BY <2>1, <2>2, Dispatch, DisconnectFails
  <2> HIDE DEF d
  <2>4. QED BY <1>1, <1>3, <2>3 DEF Decoded, Odd, d
<1>4. CASE ~(p.reason = 0 /\ p.props = <<>>)
  <2>1. d.command = CommandByte("DISCONNECT") /\ d.body = b
    BY <1>2, <1>4 DEF DisconnectDraft, Draft, Reason, Explained, If, ReasonBytes
  <2>2. Reckoned(Bytes, d.announced, d.body, AllTexts(p.props))
    BY <1>1, <1>2, DisconnectReckoned
  <2> HIDE DEF d, b
  <2>3. PICK n \in Nat : n = d.announced /\ Len(b) <= n /\ b \in Seq(Bytes)
    BY <2>1, <2>2 DEF Reckoned
  <2>4. VarintLen(n) < 5
    BY <2>3 DEF Allocates, d
  <2>5. PICK e \in Seq(Bytes) : e = <<>> /\ Len(e) = 0
    BY EmptySeq
  <2>6. b = e \o b
    BY <2>3, <2>5, ConcatEmptySeq
  <2>7. ReasonRead("DISCONNECT", p, b, 0)
    <3>1. b = e \o ReasonBytes(p)
      BY <2>6 DEF b
    <3>2. ReasonRead("DISCONNECT", p, b, Len(e))
      BY <1>1, <2>3, <2>4, <3>1, ReasonParted
    <3>3. QED BY <2>5, <3>2
  <2>8. 0 + 1 = 1 /\ 0 + 3 = 3 /\ 1 <= 2 /\ (Len(b) >= 3 => ~(Len(b) <= 2))
    BY SMT, <2>7 DEF ReasonRead
  <2>9. \E q \in Nat : HandleDisconnect("v5", b) = Ok(p, q)
    <3>1. ReadByte(b, 0) = Ok(p.reason, 1)
      BY <2>7, <2>8 DEF ReasonRead
    <3>2. CASE p.props = <<>>
      <4>1. Len(b) <= 2 /\ 1 \in Nat
        BY <2>7, <2>8, <3>2 DEF ReasonRead
      <4>2. HandleDisconnect("v5", b) = Ok(p, 1)
        BY <1>1, <3>1, <3>2, <4>1, DisconnectReads
      <4>3. QED BY <4>1, <4>2
    <3>3. CASE p.props # <<>>
      <4> DEFINE t == ReadAll("DISCONNECT", b, 1)
      <4>1. PICK q \in Nat : t = Ok(p.props, q)
        BY <2>7, <2>8, <3>3 DEF ReasonRead
      <4>2. Succeeds(t) /\ t.value = p.props /\ t.pos = q
        BY <4>1 DEF Ok, Succeeds
      <4>3. ~(Len(b) <= 2)
        BY <2>7, <2>8, <3>3 DEF ReasonRead
      <4>4. Succeeds(t) =>
              HandleDisconnect("v5", b) =
                Ok([kind |-> "DISCONNECT", reason |-> p.reason, props |-> t.value], t.pos)
        BY <3>1, <4>3, DisconnectReads
      <4> HIDE DEF t
      <4>5. QED BY <1>1, <4>2, <4>4
    <3>4. QED BY <3>2, <3>3
  <2>10. HandlePacket("v5", d.command, d.body) = HandleDisconnect("v5", b)
    BY <2>1, Dispatch
  <2>11. QED BY <2>9, <2>10 DEF Decoded, d, Ok, Succeeds
<1>5. QED BY <1>3, <1>4

\* The acknowledgements (handle_pubackcomp.c, handle_pubrec.c, handle_pubrel.c).  PUBCOMP may
\* have the properties that PUBACK may have.
LEMMA CheckedAsPuback ==
  ASSUME NEW props, CheckAll("PUBCOMP", props) = "SUCCESS"
  PROVE  CheckAll("PUBACK", props) = "SUCCESS"
<1>1. ASSUME NEW id
      PROVE  MayAppear("PUBACK", id) <=> MayAppear("PUBCOMP", id)
  BY SMT DEF MayAppear
<1>2. ASSUME NEW i
      PROVE  Verdict("PUBACK", props, i) = Verdict("PUBCOMP", props, i)
  BY <1>1 DEF Verdict
<1>3. CheckAll("PUBACK", props) = CheckAll("PUBCOMP", props)
  BY <1>2 DEF CheckAll
<1>4. QED BY <1>3

LEMMA AckDecoded ==
  ASSUME NEW v, NEW p, p \in [kind : Acks, mid : Short \ {0}, reason : Bytes, props : Seq(Property)],
         Writable(v, p.props), CheckAll(p.kind, p.props) = "SUCCESS", v # "v5" => p.reason = 0,
         Allocates(DraftOf(v, p))
  PROVE  Decoded(v, p)
<1> DEFINE d == DraftOf(v, p)
           u == Uint16(p.mid)
           b == d.body
           command == CommandByte(p.kind)
           checked == IF p.kind = "PUBCOMP" THEN "PUBACK" ELSE p.kind
           Packet(c, l) == [kind |-> p.kind, mid |-> p.mid, reason |-> c, props |-> l]
<1>1. /\ p.kind \in Acks /\ p.mid \in Short \ {0} /\ p.reason \in Bytes
      /\ p.props \in Seq(Property)
      /\ p = Packet(p.reason, p.props)
  OBVIOUS
<1>2. d = AckDraft(v, p)
  BY <1>1, DraftIs
<1>3. u \in Seq(Bytes) /\ Len(u) = 2
  BY <1>1, TwoBytes
<1>4. d.command = command /\ b = u \o Reason(v, p)
  BY <1>2 DEF AckDraft, Draft
<1>5. Reckoned(Bytes, d.announced, b, AllTexts(p.props))
  BY <1>1, <1>2, AckReckoned DEF Writable
<1> HIDE DEF d, b, u
<1>6. PICK n \in Nat : n = d.announced /\ Len(b) <= n /\ b \in Seq(Bytes)
  BY <1>5 DEF Reckoned
<1>7. VarintLen(n) < 5
  BY <1>6 DEF Allocates, d
<1>8. /\ HandlePacket(v, command, b) = HandleAck(v, p.kind, command, b)
      /\ p.kind = "PUBREL" /\ v # "v31" => command % 16 = 2
  BY <1>1, Dispatch
<1> HIDE DEF command
<1>9. CASE Explained(v, p)
  <2>1. v = "v5" /\ b = u \o ReasonBytes(p)
    BY <1>4, <1>9 DEF Explained, Reason, If, ReasonBytes
  <2>2. CheckAll(checked, p.props) = "SUCCESS"
    BY CheckedAsPuback
  <2> HIDE DEF checked
  <2>3. ReasonRead(checked, p, b, 2) /\ Holds(b, 0, u)
    <3>1. ReasonRead(checked, p, b, Len(u)) /\ Holds(b, 0, u)
      BY <1>1, <1>3, <1>6, <1>7, <2>1, <2>2, ReasonParted
    <3>2. QED BY <1>3, <3>1
  <2>4. ReadUint16(b, 0) = Ok(p.mid, 2) /\ p.mid # 0
    BY <1>1, <1>6, <2>3, MidReadBack DEF u
  <2> DEFINE r == ReadByte(b, 2)
  <2>5. Succeeds(r) /\ r.value = p.reason /\ r.pos = 3
    <3>1. 2 + 1 = 3
      BY SMT
    <3>2. QED BY <2>3, <3>1 DEF ReasonRead, Ok, Succeeds
  <2> DEFINE t == ReadAll(checked, b, r.pos)
  <2>6. HandleAck(v, p.kind, command, b) =
          IF Len(b) <= 2 THEN Ok(Packet(0, <<>>), 2)
          ELSE IF Len(b) <= 3 THEN Ok(Packet(r.value, <<>>), r.pos)
          ELSE IF Succeeds(t) THEN Ok(Packet(r.value, t.value), t.pos) ELSE t
    <3>1. HandleAck(v, p.kind, command, b) = AckEnds(v, p.kind, b, p.mid, 2)
      BY <1>8, <2>4, AckReads
    <3>2. QED BY <2>1, <2>5, <3>1 DEF AckEnds, checked
  <2> HIDE DEF r
  <2>7. 2 + 1 = 3 /\ 2 + 3 = 5 /\ (Len(b) = 3 => ~(Len(b) <= 2) /\ Len(b) <= 3)
        /\ (Len(b) >= 5 => ~(Len(b) <= 2) /\ ~(Len(b) <= 3))
    <3>1. PICK m \in Nat : m = Len(b)
      BY <1>6, LenProperties
    <3>2. 2 + 1 = 3 /\ 2 + 3 = 5 /\ (m = 3 => ~(m <= 2) /\ m <= 3)
          /\ (m >= 5 => ~(m <= 2) /\ ~(m <= 3))
      BY SMT
    <3>3. QED BY <3>1, <3>2
  <2>8. CASE p.props = <<>>
    <3>1. Len(b) = 3
      BY <2>3, <2>7, <2>8 DEF ReasonRead
    <3>2. HandleAck(v, p.kind, command, b) = Ok(p, 3)
      BY <1>1, <2>1, <2>5, <2>6, <2>7, <2>8, <3>1
    <3>3. QED BY <1>4, <1>8, <3>2 DEF Decoded, d, b, Ok, Succeeds
  <2>9. CASE p.props # <<>>
    <3>1. Len(b) >= 5
      BY <2>3, <2>7, <2>9 DEF ReasonRead
    <3>2. PICK q \in Nat : t = Ok(p.props, q)
      BY <2>3, <2>5, <2>7, <2>9 DEF ReasonRead
    <3>3. Succeeds(t) /\ t.value = p.props
      BY <3>2 DEF Ok, Succeeds
    <3> HIDE DEF t
    <3>4. HandleAck(v, p.kind, command, b) = Ok(p, t.pos)
      BY <1>1, <2>1, <2>5, <2>6, <2>7, <3>1, <3>3
    <3>5. QED BY <1>4, <1>8, <3>4 DEF Decoded, d, b, Ok, Succeeds
  <2>10. QED BY <2>8, <2>9
<1>10. CASE ~Explained(v, p)
  <2>1. p.reason = 0 /\ p.props = <<>>
    BY <1>10 DEF Explained, Writable
  <2>2. b = u
    <3>1. b = u \o <<>>
      BY <1>4, <1>10 DEF Reason, If
    <3>2. QED BY <1>3, <3>1, ConcatEmptySeq
  <2>3. Len(b) <= 2
    <3>1. 2 <= 2
      BY SMT
    <3>2. QED BY <1>3, <2>2, <3>1
  <2>4. ReadUint16(b, 0) = Ok(p.mid, 2) /\ p.mid # 0
    <3>1. Holds(b, 0, u)
      BY <1>3, <2>2, HoldsItself
    <3>2. QED BY <1>1, <1>6, <3>1, MidReadBack DEF u
  <2>5. HandleAck(v, p.kind, command, b) = Ok(Packet(0, <<>>), 2)
    <3>1. HandleAck(v, p.kind, command, b) = AckEnds(v, p.kind, b, p.mid, 2)
      BY <1>8, <2>4, AckReads
    <3>2. QED BY <2>3, <3>1 DEF AckEnds
  <2>6. QED BY <1>1, <1>4, <1>8, <2>1, <2>5 DEF Decoded, d, b, Ok, Succeeds
<1>11. QED BY <1>9, <1>10

\* PINGREQ and PINGRESP (read_handle.c).
LEMMA PingDecoded ==
  ASSUME NEW v, NEW p, p \in Ping
  PROVE  Decoded(v, p)
<1>1. p = [kind |-> p.kind] /\ p.kind \in {"PINGREQ", "PINGRESP"}
  BY DEF Ping
<1>2. DraftOf(v, p) = Draft(CommandByte(p.kind), 0, <<>>)
  BY <1>1, DraftIs DEF SimpleDraft
<1>3. HandlePacket(v, CommandByte(p.kind), <<>>) = Ok(p, 0)
  BY <1>1, Dispatch
<1>4. QED BY <1>2, <1>3 DEF Decoded, Draft, Ok, Succeeds
\* The command of a PUBLISH carries what handle__publish takes from it.
LEMMA PublishCommand ==
  ASSUME NEW dup \in BOOLEAN, NEW qos \in 0..2, NEW retain \in BOOLEAN,
         NEW c, c = 48 + Bit(dup, 8) + qos * 2 + Bit(retain, 1)
  PROVE  /\ (c \div 16) * 16 = 48 /\ (c \div 2) % 4 = qos
         /\ ((c \div 8) % 2 = 1) = dup /\ (c % 2 = 1) = retain
<1>1. PICK x \in {0, 8}, y \in {0, 1} : x = Bit(dup, 8) /\ y = Bit(retain, 1)
  BY DEF Bit
<1>2. (x = 8) = dup /\ (y = 1) = retain
  <2>1. 8 # 0 /\ 1 # 0
    BY SMT
  <2>2. QED BY <1>1, <2>1 DEF Bit
<1>3. /\ (c \div 16) * 16 = 48 /\ (c \div 2) % 4 = qos
      /\ (c \div 8) % 2 = x \div 8 /\ c % 2 = y
  BY SMT, <1>1
<1>4. (x \div 8 = 1) <=> (x = 8)
  BY SMT, <1>1
<1>5. ((c \div 8) % 2 = 1) <=> (x = 8)
  BY <1>3, <1>4
<1>6. QED BY <1>2, <1>3, <1>5

\* What handle__publish ends with for properties that are read, and for refused ones.
Published(command, topic, mid, props, payload) ==
  [kind |-> "PUBLISH", dup |-> (command \div 8) % 2 = 1, qos |-> (command \div 2) % 4,
   retain |-> command % 2 = 1, topic |-> topic, mid |-> mid, props |-> props,
   payload |-> payload]

LEMMA PublishEnded ==
  ASSUME NEW v, NEW command, NEW b, NEW topic, NEW mid, NEW pos,
         (command \div 2) % 4 \in 0..2, NEW props, NEW q,
         ReadPropsIf(v, "PUBLISH", b, pos) = Ok(props, q),
         NEW payload, SubSeq(b, q + 1, Len(b)) = payload
  PROVE  PublishEnds(v, command, b, topic, mid, pos) =
           Ok(Published(command, topic, mid, props, payload), Len(b))
<1> DEFINE t == ReadPropsIf(v, "PUBLISH", b, pos)
<1>1. (command \div 2) % 4 # 3
  BY SMT
<1>2. Succeeds(t) /\ t.value = props /\ t.pos = q
  BY DEF Ok, Succeeds
<1> HIDE DEF t
<1>3. QED BY <1>1, <1>2 DEF PublishEnds, Published, t

LEMMA PublishRefused ==
  ASSUME NEW v, NEW command, NEW b, NEW topic, NEW mid, NEW pos, NEW code, code # "SUCCESS",
         ReadPropsIf(v, "PUBLISH", b, pos) = Err(code)
  PROVE  PublishEnds(v, command, b, topic, mid, pos) = Err(code)
  BY DEF PublishEnds, Err, Succeeds

\* PUBLISH (handle_publish.c, send_publish.c:132-215).
LEMMA PublishDecoded ==
  ASSUME NEW v, NEW p \in Publication, Identified(p), Writable(v, p.props),
         ValidUtf8(p.topic), Uncut({p.topic}),
         CheckAll("PUBLISH", p.props) = "SUCCESS" \/ SeveralIds(p.props),
         ~DropsProperties(v, p), Allocates(DraftOf(v, p))
  PROVE  Decoded(v, p)
<1> DEFINE topic == p.topic
           mid == p.mid
           props == p.props
           d == DraftOf(v, p)
           b == d.body
           c == d.command
           x == StringBytes(topic)
           y == If(p.qos > 0, Uint16(mid))
           u == x \o y
           q == Len(u) + Len(PropsPart(v, props))
<1>1. /\ p.kind = "PUBLISH" /\ p.dup \in BOOLEAN /\ p.qos \in 0..2 /\ p.retain \in BOOLEAN
      /\ topic \in Seq(Bytes) /\ mid \in Short /\ p.payload \in Seq(Bytes)
      /\ props \in Seq(Property)
      /\ p = [kind |-> "PUBLISH", dup |-> p.dup, qos |-> p.qos, retain |-> p.retain,
              topic |-> topic, mid |-> mid, props |-> props, payload |-> p.payload]
      /\ mid = 0 <=> p.qos = 0
  BY DEF Publication, Text, Identified
<1>2. d = PublishDraft(v, p)
  BY <1>1, DraftIs
<1>3. /\ c = 48 + Bit(p.dup, 8) + p.qos * 2 + Bit(p.retain, 1)
      /\ b = u \o PropsPart(v, props) \o p.payload
  <2>1. CommandByte("PUBLISH") = 48
    BY DEF CommandByte
  <2>2. PublishDraft(v, p).command = 48 + Bit(p.dup, 8) + p.qos * 2 + Bit(p.retain, 1)
    BY <2>1, Zenon DEF PublishDraft, Draft
  <2>3. PublishDraft(v, p).body = u \o PropsPart(v, props) \o p.payload
    BY PublishUndropped DEF PropsPart
  <2>4. QED BY <1>2, <2>2, <2>3
<1>4. Reckoned(Bytes, d.announced, b, {topic} \cup AllTexts(props))
  BY <1>1, <1>2, PublishReckoned DEF Writable, Text
<1> HIDE DEF d, b, c
<1>5. PICK n \in Nat : n = d.announced /\ Len(b) <= n /\ b \in Seq(Bytes) /\ VarintLen(n) < 5
  BY <1>4 DEF Reckoned, Allocates, d
<1>6. x \in Seq(Bytes) /\ y \in Seq(Bytes) /\ u \in Seq(Bytes)
  <2>1. x \in Seq(Bytes)
    BY <1>1, ReckonString DEF Reckoned
  <2>2. y \in Seq(Bytes)
    BY <1>1, ReckonMid DEF Reckoned
  <2>3. QED BY <2>1, <2>2, Together
<1> HIDE DEF x, y
<1>7. PICK l \in Nat : l = Len(x)
  BY <1>6, LenProperties
<1> HIDE DEF u
<1>8. Laid(v, "PUBLISH", props, b, u, p.payload)
  BY <1>1, <1>3, <1>5, <1>6, BodyLaid
<1>9. /\ Holds(b, 0, u) /\ Len(b) \in Nat /\ PartRead(v, "PUBLISH", props, b, Len(u))
      /\ SubSeq(b, q + 1, Len(b)) = p.payload
  BY <1>8 DEF Laid
<1>10. Holds(b, 0, x) /\ Holds(b, l, y)
  <2>1. Holds(b, 0, x) /\ Holds(b, 0 + l, y)
    BY <1>6, <1>7, <1>9, HoldsParts DEF u
  <2>2. 0 + l = l
    BY SMT
  <2>3. QED BY <2>1, <2>2
<1>11. ReadString(b, 0) = Ok(topic, l)
  <2>1. ReadString(b, 0) = Ok(topic, 0 + Len(x))
    BY <1>1, <1>5, <1>10, TextReadBack DEF x
  <2>2. 0 + l = l
    BY SMT
  <2>3. QED BY <1>7, <2>1, <2>2
<1>12. /\ (c \div 16) * 16 = 48 /\ (c \div 2) % 4 = p.qos
       /\ ((c \div 8) % 2 = 1) = p.dup /\ (c % 2 = 1) = p.retain
  BY <1>1, <1>3, PublishCommand
<1>13. HandlePublish(v, c, b) =
         IF topic = <<>> THEN Err("PROTOCOL") ELSE PublishEnds(v, c, b, topic, mid, Len(u))
  <2> DEFINE r == ReadUint16(b, l)
  <2>1. HandlePublish(v, c, b) =
          IF topic = <<>> THEN Err("PROTOCOL")
          ELSE IF (c \div 2) % 4 = 0 THEN PublishEnds(v, c, b, topic, 0, l)
          ELSE IF ~Succeeds(r) THEN r
          ELSE IF r.value = 0 THEN Err("PROTOCOL")
          ELSE PublishEnds(v, c, b, topic, r.value, r.pos)
    BY <1>11, PublishReads
  <2>2. CASE p.qos = 0
    <3>1. y = <<>> /\ mid = 0
      <4>1. ~(0 > 0)
        BY SMT
      <4>2. QED BY <1>1, <2>2, <4>1 DEF y, If
    <3>2. Len(u) = l
      BY <1>6, <1>7, <3>1, ConcatEmptySeq DEF u
    <3>3. QED BY <1>12, <2>1, <2>2, <3>1, <3>2
  <2>3. CASE p.qos # 0
    <3>1. p.qos > 0 /\ mid # 0
      <4>1. p.qos > 0
        BY SMT, <1>1, <2>3
      <4>2. QED BY <1>1, <2>3, <4>1
    <3>2. y = Uint16(mid) /\ Len(y) = 2
      BY <1>1, <3>1, TwoBytes DEF y, If
    <3>3. Len(u) = l + 2
      BY <1>6, <1>7, <3>2, Together DEF u
    <3>4. r = Ok(mid, l + 2)
      BY <1>1, <1>5, <1>10, <3>2, Uint16ReadBack
    <3>5. Succeeds(r) /\ r.value = mid /\ r.pos = l + 2
      BY <3>4 DEF Ok, Succeeds
    <3> HIDE DEF r
    <3>6. QED BY <1>12, <2>1, <2>3, <3>1, <3>3, <3>5
  <2>4. QED BY <2>2, <2>3
<1> HIDE DEF q
<1>14. HandlePacket(v, c, b) = HandlePublish(v, c, b)
  <2>1. 48 # 32
    BY SMT
  <2>2. QED BY <1>12, <2>1 DEF HandlePacket
<1>15. CASE topic = <<>>
  BY <1>1, <1>13, <1>14, <1>15 DEF Decoded, d, b, c, Succeeds, Err, Odd
<1>16. CASE topic # <<>> /\ (v # "v5" \/ CheckAll("PUBLISH", props) = "SUCCESS")
  <2>1. ReadPropsIf(v, "PUBLISH", b, Len(u)) = Ok(props, q)
    BY <1>9, <1>16 DEF PartRead, q
  <2>2. PublishEnds(v, c, b, topic, mid, Len(u)) =
          Ok(Published(c, topic, mid, props, p.payload), Len(b))
    BY <1>1, <1>9, <1>12, <2>1, PublishEnded
  <2>3. Published(c, topic, mid, props, p.payload) = p
    BY <1>1, <1>12 DEF Published
  <2>4. HandlePacket(v, c, b) = Ok(p, Len(b))
    BY <1>13, <1>14, <1>16, <2>2, <2>3
  <2>5. QED BY <2>4 DEF Decoded, d, b, c, Ok, Succeeds
<1>17. CASE topic # <<>> /\ v = "v5" /\ CheckAll("PUBLISH", props) # "SUCCESS"
  <2> DEFINE code == CheckAll("PUBLISH", props)
  <2>1. ReadPropsIf(v, "PUBLISH", b, Len(u)) = Err(code)
    BY <1>9, <1>17 DEF PartRead
  <2>2. code # "SUCCESS" /\ SeveralIds(props)
    BY <1>17
  <2> HIDE DEF code
  <2>3. PublishEnds(v, c, b, topic, mid, Len(u)) = Err(code)
    BY <2>1, <2>2, PublishRefused
  <2>4. HandlePacket(v, c, b) = Err(code)
    BY <1>13, <1>14, <1>17, <2>3
  <2>5. QED BY <1>1, <2>2, <2>4 DEF Decoded, d, b, c, Err, Succeeds, Odd
<1>18. QED BY <1>15, <1>16, <1>17
\* What a client that keeps to the standard can be sent is decoded to what was sent, unless it
\* is a packet of which the client asks more.
LEMMA WellformedDecoded ==
  ASSUME NEW v, NEW p, Wellformed(v, p)
  PROVE  Decoded(v, p)
<1> DEFINE proper == Writable(v, p.props)
           checked == CheckAll(p.kind, p.props) = "SUCCESS"
<1>1. Allocates(DraftOf(v, p)) /\ p \in Publication \cup Answer \cup Ping
  BY DEF Wellformed
<1>2. ASSUME p \notin Ping, p.props \in Seq(Property)
      PROVE  /\ proper
             /\ checked \/ (p.kind = "PUBLISH" /\ SeveralIds(p.props))
             /\ v # "v5" => p.kind \notin {"DISCONNECT", "AUTH"}
  BY <1>2 DEF Wellformed, Writable, Uncut
<1> HIDE DEF proper, checked
<1>3. CASE p \in Ping
  BY <1>3, PingDecoded
<1>4. CASE p \in Publication /\ p \notin Ping
  <2>1. p.kind = "PUBLISH" /\ p.props \in Seq(Property)
    BY <1>4 DEF Publication
  <2>2. /\ Identified(p) /\ ValidUtf8(p.topic) /\ Uncut({p.topic})
        /\ ~DropsProperties(v, p)
    BY <2>1 DEF Wellformed, Uncut
  <2>3. proper /\ (CheckAll("PUBLISH", p.props) = "SUCCESS" \/ SeveralIds(p.props))
    BY <1>2, <1>4, <2>1 DEF checked
  <2>4. QED BY <1>1, <1>4, <2>2, <2>3, PublishDecoded DEF proper
<1>5. CASE p \in Answer /\ p \notin Ping
  <2>1. /\ p.props \in Seq(Property)
        /\ p.kind \in {"CONNACK", "SUBACK", "UNSUBACK", "DISCONNECT", "AUTH"} \cup Acks
        /\ p.kind # "PUBLISH"
        /\ p.kind = "CONNACK" =>
             p \in [kind : {"CONNACK"}, flags : Bytes, reason : Bytes, props : Seq(Property)]
        /\ p.kind \in Acks =>
             p \in [kind : Acks, mid : Short \ {0}, reason : Bytes, props : Seq(Property)]
        /\ p.kind = "SUBACK" =>
             p \in [kind : {"SUBACK"}, mid : Short \ {0}, props : Seq(Property), granted : Text]
        /\ p.kind = "UNSUBACK" =>
             p \in [kind : {"UNSUBACK"}, mid : Short \ {0}, props : Seq(Property)]
        /\ p.kind = "DISCONNECT" =>
             p \in [kind : {"DISCONNECT"}, reason : Bytes, props : Seq(Property)]
        /\ p.kind = "AUTH" => p \in [kind : {"AUTH"}, reason : Bytes, props : Seq(Property)]
    BY <1>5 DEF Answer, Acks
  <2>2. proper /\ checked /\ (v # "v5" => p.kind \notin {"DISCONNECT", "AUTH"})
    BY <1>2, <1>5, <2>1
  <2>3. CASE p.kind = "CONNACK"
    BY <1>1, <2>1, <2>2, <2>3, ConnackDecoded DEF proper, checked
  <2>4. CASE p.kind \in Acks
    <3>1. v # "v5" => p.reason = 0
      BY <2>4 DEF Wellformed
    <3>2. QED BY <1>1, <2>1, <2>2, <2>4, <3>1, AckDecoded DEF proper, checked
  <2>5. CASE p.kind = "SUBACK"
    BY <1>1, <2>1, <2>2, <2>5, SubackDecoded DEF proper, checked
  <2>6. CASE p.kind = "UNSUBACK"
    BY <1>1, <2>1, <2>2, <2>6, UnsubackDecoded DEF proper, checked
  <2>7. CASE p.kind = "DISCONNECT"
    <3>1. v = "v5"
      BY <2>2, <2>7
    <3>2. QED BY <1>1, <2>1, <2>2, <2>7, <3>1, DisconnectDecoded DEF proper, checked
  <2>8. CASE p.kind = "AUTH"
    <3>1. v = "v5"
      BY <2>2, <2>8
    <3>2. QED BY <1>1, <2>1, <2>2, <2>8, <3>1, AuthDecoded DEF proper, checked
  <2>9. QED BY <2>1, <2>3, <2>4, <2>5, <2>6, <2>7, <2>8
<1>6. QED BY <1>1, <1>3, <1>4, <1>5

-----------------------------------------------------------------------------
(* What the client keeps of its calls and of a CONNACK                     *)

\* The value of a property has the type of its identifier.
LEMMA ValueIsThere ==
  ASSUME NEW props \in Seq(Property), NEW id, NEW T, NEW default \in T,
         \A p \in Property : p.id = id => p.value \in T
  PROVE  Value(props, id, default) \in T
<1> DEFINE I == {i \in 1..Len(props) : props[i].id = id}
<1>1. CASE I = {}
  <2>1. SelectInSeq(props, LAMBDA p : p.id = id) = 0
    BY <1>1 DEF SelectInSeq
  <2>2. QED BY <2>1 DEF Value
<1>2. CASE I # {}
  <2> DEFINE i == Min(I)
  <2>1. SelectInSeq(props, LAMBDA p : p.id = id) = i
    BY <1>2 DEF SelectInSeq
  <2>2. i \in I
    <3>1. I \subseteq Nat
      BY SMT
    <3> HIDE DEF I
    <3>2. \E m \in I : \A k \in I : m <= k
      BY <1>2, <3>1, LeastNat
    <3>3. QED BY <3>2 DEF Min
  <2> HIDE DEF i
  <2>3. i \in 1..Len(props) /\ props[i].id = id
    BY <2>2
  <2>4. i # 0 /\ props[i] \in Property
    <3>1. i # 0
      BY SMT, <2>3
    <3>2. QED BY <2>3, <3>1, ElementOfSeq
  <2>5. Value(props, id, default) = props[i].value
    BY <2>1, <2>4 DEF Value
  <2>6. QED BY <2>3, <2>4, <2>5
<1>3. QED BY <1>1, <1>2

\* What becomes of the identifiers of the properties that the client learns from.
LEMMA LearntTypes ==
  ASSUME NEW p \in Property
  PROVE  /\ p.id = AssignedClientIdentifier => p.value \in Text
         /\ p.id = ServerKeepAlive \/ p.id = ReceiveMaximum => p.value \in Short
         /\ p.id = MaximumQos => p.value \in Nat
         /\ p.id = MaximumPacketSize => p.value \in Nat
<1>1. /\ AssignedClientIdentifier \in StringProperties
      /\ ServerKeepAlive \in Int16Properties /\ ReceiveMaximum \in Int16Properties
      /\ MaximumQos \in ByteProperties /\ MaximumPacketSize \in Int32Properties
  BY DEF StringProperties, Int16Properties, ByteProperties, Int32Properties
<1>2. Bytes \subseteq Nat /\ Word \subseteq Nat
  BY SMT DEF Bytes, Word
<1>3. /\ p.id \in StringProperties => p.value \in Text
      /\ p.id \in Int16Properties => p.value \in Short
      /\ p.id \in ByteProperties => p.value \in Bytes
      /\ p.id \in Int32Properties => p.value \in Word
  BY PropertyKinds
<1>4. QED BY <1>1, <1>2, <1>3

\* A list that was built has properties that may be added, and no others.
LEMMA BuiltOf ==
  ASSUME NEW wanted \in Seq(Property)
  PROVE  Built(wanted) \in Seq(Property) /\ \A i \in DOMAIN Built(wanted) : Addable(Built(wanted)[i])
<1> DEFINE n == Len(wanted)
           S == {p \in Property : Addable(p)}
           s == [i \in 1..n |-> IF Addable(wanted[i]) THEN <<wanted[i]>> ELSE <<>>]
<1>1. n \in Nat /\ DOMAIN wanted = 1..n /\ \A i \in 1..n : wanted[i] \in Property
  BY LenProperties, ElementOfSeq
<1>2. Built(wanted) = FlattenSeq(s)
  BY <1>1 DEF Built
<1>3. ASSUME NEW i \in 1..n
      PROVE  (IF Addable(wanted[i]) THEN <<wanted[i]>> ELSE <<>>) \in Seq(S)
  <2>1. CASE Addable(wanted[i])
    <3>1. wanted[i] \in S
      BY <1>1, <2>1
    <3> HIDE DEF S
    <3>2. <<wanted[i]>> \in Seq(S)
      BY <3>1
    <3>3. QED BY <2>1, <3>2
  <2>2. CASE ~Addable(wanted[i])
    BY <2>2, EmptySeq
  <2>3. QED BY <2>1, <2>2
<1> HIDE DEF n
<1>4. s \in [1..n -> Seq(S)]
  BY <1>3
<1> HIDE DEF s
<1>5. s \in Seq(Seq(S))
  BY <1>1, <1>4, SeqOfFunction
<1>6. FlattenSeq(s) \in Seq(S)
  BY <1>5, FlattenLength
<1>7. PICK l \in Seq(S) : l = Built(wanted)
  BY <1>2, <1>6
<1>8. \A i \in DOMAIN l : l[i] \in S
  <2> HIDE DEF S
  <2>1. QED BY LenProperties, ElementOfSeq
<1>9. l \in Seq(Property)
  <2>1. Len(l) \in Nat /\ DOMAIN l = 1..Len(l) /\ l = [i \in 1..Len(l) |-> l[i]]
    BY LenProperties
  <2>2. PICK m \in Nat : m = Len(l)
    BY <2>1
  <2>3. \A i \in 1..m : l[i] \in Property
    BY <1>8, <2>1, <2>2
  <2>4. l \in [1..m -> Property]
    BY <2>1, <2>2, <2>3
  <2>5. QED BY <2>4, SeqOfFunction
<1>10. QED BY <1>7, <1>8, <1>9

\* The properties of a call are written as they are, and there are none without MQTT 5.
LEMMA ChosenOf ==
  ASSUME NEW wanted \in Seq(Property)
  PROVE  /\ Chosen(wanted) \in Seq(Property)
         /\ \A i \in DOMAIN Chosen(wanted) : Addable(Chosen(wanted)[i])
         /\ version # "v5" => Chosen(wanted) = <<>>
<1>1. CASE version = "v5"
  BY <1>1, BuiltOf DEF Chosen
<1>2. CASE version # "v5"
  <2>1. Chosen(wanted) = <<>> /\ DOMAIN <<>> = {}
    BY <1>2 DEF Chosen
  <2>2. QED BY <1>2, <2>1, EmptySeq
<1>3. QED BY <1>1, <1>2
-----------------------------------------------------------------------------
(* The handle                                                              *)

Testaments == {i \in DOMAIN Wills : PubTopicValid(Wills[i].topic)}

\* What the fields of the handle are: set by calls, of the types of their arguments.
Handles ==
  [protocol : Versions, id : SUBSET Text, will : SUBSET Testaments, username : SUBSET Text,
   password : SUBSET Text, keepalive : Short, clean : BOOLEAN, receiveMaximum : Short,
   maximumQos : Nat, maximumPacketSize : Nat]

HandleTyped(m) ==
  /\ m \in Handles
  /\ Pointer(m.id) /\ Pointer(m.will) /\ Pointer(m.username) /\ Pointer(m.password)

\* A will that is sent has a topic that is not cut off, and properties as the calls have.
LEMMA WillIsSent ==
  ASSUME NEW i \in Testaments, NEW w, w = [Wills[i] EXCEPT !.props = Chosen(@)]
  PROVE  /\ w.topic \in Text /\ Uncut({w.topic}) /\ w.payload \in Text
         /\ w.qos \in 0..2 /\ w.retain \in BOOLEAN
         /\ w.props \in Seq(Property) /\ (version # "v5" => w.props = <<>>)
<1>1. i \in DOMAIN Wills /\ PubTopicValid(Wills[i].topic)
  BY DEF Testaments
<1>2. Wills \in Seq(Testament)
  BY WireAssumption
<1>3. PICK t \in Testament : t = Wills[i]
  BY <1>1, <1>2, ElementOfSeq, LenProperties
<1>4. /\ t.topic \in Text /\ t.payload \in Text /\ t.qos \in 0..2 /\ t.retain \in BOOLEAN
      /\ t.props \in Seq(Property)
      /\ w.topic = t.topic /\ w.payload = t.payload /\ w.qos = t.qos /\ w.retain = t.retain
      /\ w.props = Chosen(t.props)
  BY <1>3 DEF Testament
<1>5. Uncut({t.topic})
  <2>1. PICK l \in Nat : l = Len(t.topic)
    BY <1>4, LenProperties DEF Text
  <2>2. l <= 65535
    BY <1>1, <1>3, <2>1 DEF PubTopicValid
  <2>3. l < 65536
    BY SMT, <2>2
  <2>4. QED BY SMT, <2>1, <2>3 DEF Uncut
<1>6. Chosen(t.props) \in Seq(Property) /\ (version # "v5" => Chosen(t.props) = <<>>)
  BY <1>4, ChosenOf
<1>7. QED BY <1>4, <1>5, <1>6

\* What send__connect reckons is what it writes, unless one of the texts that nobody checks is
\* cut off.
LEMMA ConnectAnnounced ==
  ASSUME NEW m, HandleTyped(m), m.protocol = version,
         NEW props \in Seq(Property), version # "v5" => props = <<>>
  PROVE  LET c == ConnectPacket(m, props)
             d == ConnectDraft(m.protocol, c)
         IN Reckoned(Nat, d.announced, d.body, ConnectTexts(c))
<1> DEFINE c == ConnectPacket(m, props)
           Sent(i) == [Wills[i] EXCEPT !.props = Chosen(@)]
<1>1. /\ version \in Versions /\ m.id \subseteq Text /\ m.username \subseteq Text
      /\ m.password \subseteq Text /\ m.keepalive \in Short /\ m.clean \in BOOLEAN
      /\ m.receiveMaximum \in Short /\ m.will \subseteq Testaments
  BY DEF HandleTyped, Handles
<1>2. /\ c.id = m.id /\ c.username = m.username /\ c.password = m.password
      /\ c.keepalive = m.keepalive /\ c.clean = m.clean
      /\ c.will = {Sent(i) : i \in m.will}
      /\ c.props = IF m.protocol # "v5" \/ Has(props, ReceiveMaximum) THEN props
                   ELSE Append(props, Prop(ReceiveMaximum, m.receiveMaximum))
  BY DEF ConnectPacket
<1> HIDE DEF c
<1>3. c.props \in Seq(Property) /\ (version # "v5" => c.props = <<>>)
  <2>1. Prop(ReceiveMaximum, m.receiveMaximum) \in Property
    BY <1>1 DEF Property, Prop, Int16Properties
  <2>2. Append(props, Prop(ReceiveMaximum, m.receiveMaximum)) \in Seq(Property)
    BY <2>1, AppendProperties
  <2>3. QED BY <1>2, <2>2
<1>4. \A x, y \in c.will : x = y
  BY <1>2 DEF HandleTyped, Pointer
<1>5. \A w \in c.will : /\ w.topic \in Text /\ Uncut({w.topic}) /\ w.payload \in Text
                        /\ w.qos \in 0..2 /\ w.retain \in BOOLEAN
                        /\ w.props \in Seq(Property) /\ (version # "v5" => w.props = <<>>)
  <2>1. ASSUME NEW w \in c.will
        PROVE  \E i \in Testaments : w = Sent(i)
    BY <1>1, <1>2
  <2>2. QED BY <2>1, WillIsSent
<1>6. /\ \A x, y \in c.id : x = y
      /\ \A x, y \in c.username : x = y
      /\ \A x, y \in c.password : x = y
  BY <1>2 DEF HandleTyped, Pointer
<1>7. Reckoned(Nat, ConnectDraft(version, c).announced, ConnectDraft(version, c).body,
               c.id \cup c.username \cup c.password \cup AllTexts(c.props)
               \cup UNION {{w.payload} \cup AllTexts(w.props) : w \in c.will})
  BY <1>1, <1>2, <1>3, <1>4, <1>5, <1>6, ConnectReckoned
<1>8. QED BY <1>7 DEF ConnectTexts, c

\* What is known of a draft with these texts, of which the properties may have been left out.
Announces(d, texts, dropped) ==
  /\ d.announced \in Nat
  /\ IF dropped THEN d.announced # Len(d.body) ELSE Reckoned(Nat, d.announced, d.body, texts)

LEMMA AnnouncedOf ==
  ASSUME NEW kind, NEW d, NEW texts, NEW dropped \in BOOLEAN, Announces(d, texts, dropped)
  PROVE  LET w == Lengths(kind, d, texts, dropped) IN
         w.announced = w.body <=> w.uncut /\ ~w.dropped
<1>1. CASE dropped = TRUE
  BY <1>1 DEF Announces, Lengths
<1>2. CASE dropped = FALSE
  BY <1>2 DEF Announces, Reckoned, Lengths, Uncut
<1>3. QED BY <1>1, <1>2

\* mosquitto_int_option and mosquitto_username_pw_set leave a handle with fields of their types,
\* and so do the assignments of mosquitto_connect_bind_v5.
Made(m, n) ==
  /\ HandleTyped(m) /\ m.protocol = version /\ m.id = mosq.id
  /\ HandleTyped(n) /\ n.protocol = version

\* The handle behind mosquitto_username_pw_set, and when CONNECT is sent.
Authenticated(c) ==
  [IntOptions(mosq) EXCEPT
     !.username = Credentials(mosq, version, c.username, c.password).username,
     !.password = Credentials(mosq, version, c.username, c.password).password]
Prepared(c, m) ==
  [m EXCEPT !.keepalive = c.keepalive, !.clean = c.clean,
            !.id = IF @ = {} /\ version # "v5" THEN {GeneratedId} ELSE @]

LEMMA ConnectMakes ==
  ASSUME HandleTyped(mosq), version \in Versions, NEW c \in Connects,
         NEW m, m = Authenticated(c), NEW n, n = Prepared(c, m)
  PROVE  Made(m, n)
<1>15. PICK named : /\ named = Credentials(mosq, version, c.username, c.password)
                    /\ m = [IntOptions(mosq) EXCEPT !.username = named.username,
                                                    !.password = named.password]
  BY Zenon DEF Authenticated
<1>16. n = [m EXCEPT !.keepalive = c.keepalive, !.clean = c.clean,
                     !.id = IF @ = {} /\ version # "v5" THEN {GeneratedId} ELSE @]
  BY Zenon DEF Prepared
<1>1. /\ c.username \subseteq Text /\ c.password \subseteq Text /\ c.keepalive \in Short
      /\ c.clean \in BOOLEAN /\ Pointer(c.username) /\ Pointer(c.password)
  BY WireAssumption DEF Connection
<1>2. /\ named.username \in {c.username, mosq.username, {}}
      /\ named.password \in {c.password, mosq.password, {}}
  BY <1>15 DEF Credentials
<1>3. mosq \in Handles /\ Pointer(mosq.username) /\ Pointer(mosq.password) /\ Pointer(mosq.id)
      /\ Pointer(mosq.will) /\ Pointer({})
  BY DEF HandleTyped, Pointer
<1>4. /\ named.username \in SUBSET Text /\ Pointer(named.username)
      /\ named.password \in SUBSET Text /\ Pointer(named.password)
  BY <1>1, <1>2, <1>3 DEF Handles
<1>5. PICK maximum \in Short :
        maximum = IF version # "v5" THEN mosq.receiveMaximum
                  ELSE IF ReceiveOption = 0 THEN 65535 ELSE ReceiveOption
  <2>1. 65535 \in Short /\ ReceiveOption \in Short
    BY SMT, WireAssumption DEF Short
  <2>2. QED BY <1>3, <2>1 DEF Handles
<1>6. IntOptions(mosq) = [mosq EXCEPT !.protocol = version, !.receiveMaximum = maximum]
  BY <1>3, <1>5 DEF IntOptions, Handles
<1>7. /\ m \in Handles /\ m.protocol = version /\ m.id = mosq.id /\ m.will = mosq.will
      /\ m.username = named.username /\ m.password = named.password
  <2>1. PICK u \in SUBSET Text, w \in SUBSET Text : u = named.username /\ w = named.password
    BY <1>4
  <2>2. PICK base : base = [mosq EXCEPT !.protocol = version, !.receiveMaximum = maximum]
    OBVIOUS
  <2>3. base \in Handles /\ base.protocol = version /\ base.id = mosq.id /\ base.will = mosq.will
    BY <1>3, <2>2 DEF Handles
  <2>4. m = [base EXCEPT !.username = u, !.password = w]
    BY <1>6, <1>15, <2>1, <2>2, Zenon
  <2>5. QED BY <2>1, <2>3, <2>4 DEF Handles
<1>8. HandleTyped(m)
  BY <1>3, <1>4, <1>7 DEF HandleTyped
<1>9. GeneratedId \in Text
  <2>1. GeneratedId \in [1..23 -> Bytes] /\ 23 \in Nat
    BY SMT DEF GeneratedId, Bytes
  <2>2. QED BY <2>1, SeqOfFunction DEF Text
<1>10. PICK id \in SUBSET Text :
         id = (IF m.id = {} /\ version # "v5" THEN {GeneratedId} ELSE m.id) /\ Pointer(id)
  <2>1. m.id \in SUBSET Text /\ Pointer(m.id)
    BY <1>3, <1>7 DEF Handles
  <2>2. {GeneratedId} \in SUBSET Text /\ Pointer({GeneratedId})
    BY <1>9 DEF Pointer
  <2>3. QED BY <2>1, <2>2
<1>11. n = [m EXCEPT !.keepalive = c.keepalive, !.clean = c.clean, !.id = id]
  BY <1>7, <1>10, <1>16 DEF Handles
<1>12. /\ n \in Handles /\ n.protocol = version /\ n.id = id /\ n.will = mosq.will
       /\ n.username = named.username /\ n.password = named.password
  BY <1>1, <1>7, <1>11 DEF Handles
<1>13. HandleTyped(n)
  BY <1>3, <1>4, <1>10, <1>12 DEF HandleTyped
<1>14. QED BY <1>7, <1>8, <1>12, <1>13 DEF Made

\* The RECEIVE_MAXIMUM of the CONNECT is kept.
LEMMA MaximumKept ==
  ASSUME NEW m, HandleTyped(m), NEW props \in Seq(Property),
         NEW n, n = [m EXCEPT !.receiveMaximum = Value(props, ReceiveMaximum, @)]
  PROVE  HandleTyped(n) /\ n.protocol = m.protocol
<1>1. m \in Handles /\ m.receiveMaximum \in Short
  BY DEF HandleTyped, Handles
<1>2. Value(props, ReceiveMaximum, m.receiveMaximum) \in Short
  BY <1>1, LearntTypes, ValueIsThere
<1>3. PICK x \in Short : n = [m EXCEPT !.receiveMaximum = x]
  BY <1>1, <1>2 DEF Handles
<1>4. /\ n \in Handles /\ n.protocol = m.protocol /\ n.id = m.id /\ n.will = m.will
      /\ n.username = m.username /\ n.password = m.password
  BY <1>1, <1>3 DEF Handles
<1>5. QED BY <1>4 DEF HandleTyped

\* handle__connack.
LEMMA LearnsTypes ==
  ASSUME HandleTyped(mosq), NEW p, p.props \in Seq(Property)
  PROVE  HandleTyped(Learns(p)) /\ Learns(p).protocol = mosq.protocol
<1>1. /\ mosq \in Handles /\ mosq.id \in SUBSET Text /\ mosq.maximumQos \in Nat
      /\ mosq.keepalive \in Short /\ mosq.maximumPacketSize \in Nat
  BY DEF HandleTyped, Handles
<1>2. PICK id \in SUBSET Text :
        /\ Pointer(id)
        /\ id = IF Has(p.props, AssignedClientIdentifier)
                THEN {Value(p.props, AssignedClientIdentifier, <<>>)} ELSE mosq.id
  <2>1. <<>> \in Text
    BY EmptySeq DEF Text
  <2>2. Value(p.props, AssignedClientIdentifier, <<>>) \in Text
    BY <2>1, LearntTypes, ValueIsThere
  <2>3. QED BY <1>1, <2>2 DEF HandleTyped, Pointer
<1>3. PICK qos \in Nat : qos = Value(p.props, MaximumQos, mosq.maximumQos)
  BY <1>1, LearntTypes, ValueIsThere
<1>4. PICK keepalive \in Short : keepalive = Value(p.props, ServerKeepAlive, mosq.keepalive)
  BY <1>1, LearntTypes, ValueIsThere
<1>5. PICK size \in Nat : size = Value(p.props, MaximumPacketSize, mosq.maximumPacketSize)
  BY <1>1, LearntTypes, ValueIsThere
<1> DEFINE n == Learns(p)
<1>6. n = [mosq EXCEPT !.id = id, !.maximumQos = qos, !.keepalive = keepalive,
                       !.maximumPacketSize = size]
  BY <1>1, <1>2, <1>3, <1>4, <1>5 DEF Learns, Handles
<1> HIDE DEF n
<1>7. /\ n \in Handles /\ n.protocol = mosq.protocol /\ n.id = id /\ n.will = mosq.will
      /\ n.username = mosq.username /\ n.password = mosq.password
  BY <1>1, <1>6 DEF Handles
<1>8. QED BY <1>2, <1>7 DEF HandleTyped, n
-----------------------------------------------------------------------------
(* The calls of the application                                            *)

\* The calls as the encoders get them.
Asked(v, p) ==
  /\ p \in Publication \cup Subscription \cup Farewell /\ Identified(p)
  /\ p.props \in Seq(Property)
  /\ \A i \in DOMAIN p.props : Addable(p.props[i])
  /\ v # "v5" => p.props = <<>>

LEMMA RequestChosen ==
  ASSUME NEW r \in Requests, NEW p, p = [r EXCEPT !.props = Chosen(@)]
  PROVE  Asked(version, p)
<1>1. r \in Publication \cup Subscription \cup Farewell /\ Identified(r)
  BY WireAssumption
<1>2. r.props \in Seq(Property)
  BY <1>1 DEF Publication, Subscription, Farewell
<1>3. PICK props \in Seq(Property) :
        /\ props = Chosen(r.props)
        /\ \A i \in DOMAIN props : Addable(props[i])
        /\ version # "v5" => props = <<>>
  BY <1>2, ChosenOf
<1>4. p = [r EXCEPT !.props = props]
  BY <1>3
<1>5. CASE r \in Publication
  <2>1. p \in Publication /\ p.props = props /\ p.kind = r.kind /\ p.mid = r.mid /\ p.qos = r.qos
    BY <1>4, <1>5 DEF Publication
  <2>2. QED BY <1>1, <1>3, <2>1 DEF Asked, Identified
<1>6. CASE r \in Subscription
  <2>1. p \in Subscription /\ p.props = props
    BY <1>4, <1>6 DEF Subscription
  <2>2. QED BY <1>3, <2>1 DEF Asked, Identified, Subscription
<1>7. CASE r \in Farewell
  <2>1. p \in Farewell /\ p.props = props
    BY <1>4, <1>7 DEF Farewell
  <2>2. QED BY <1>3, <2>1 DEF Asked, Identified, Farewell
<1>8. QED BY <1>1, <1>5, <1>6, <1>7

\* What a call has been asked when it is accepted.
PublishChecked(p) ==
  /\ CheckAll("PUBLISH", p.props) = "SUCCESS" /\ PubTopicValid(p.topic)
  /\ p.topic # <<>> => ValidUtf8(p.topic)

LEMMA PublishAccepted ==
  ASSUME NEW v, NEW c, NEW p, PublishVerdict(v, c, p) = "SUCCESS"
  PROVE  PublishChecked(p)
<1> DEFINE properties == v # "v5" /\ p.props # <<>>
           qos == p.qos > c.maximumQos
           check == CheckAll("PUBLISH", p.props)
           nowhere == p.topic = <<>> /\ ~(v = "v5" /\ Has(p.props, TopicAlias))
           malformed == p.topic # <<>> /\ ~ValidUtf8(p.topic)
           large == p.topic # <<>> /\ Len(p.payload) > MaxVarint
           wildcard == ~PubTopicValid(p.topic)
           oversize == Oversize(c.maximumPacketSize,
                                3 + Len(p.topic) + Len(p.payload) + LengthAll(p.props)
                                + Bit(p.qos > 0, 1))
<1>1. PublishVerdict(v, c, p) =
        CASE properties -> "NOT_SUPPORTED"
          [] qos -> "QOS_NOT_SUPPORTED"
          [] check # "SUCCESS" -> check
          [] nowhere -> "INVAL"
          [] malformed -> "MALFORMED_UTF8"
          [] large -> "PAYLOAD_SIZE"
          [] wildcard -> "INVAL"
          [] oversize -> "OVERSIZE_PACKET"
          [] OTHER -> "SUCCESS"
  BY Zenon DEF PublishVerdict
<1> HIDE DEF properties, qos, check, nowhere, malformed, large, wildcard, oversize
<1>2. check = "SUCCESS" /\ ~malformed /\ ~wildcard
  BY <1>1
<1>3. QED BY <1>2 DEF PublishChecked, check, malformed, wildcard

LEMMA FiltersAccepted ==
  ASSUME NEW v, NEW c, NEW s, s.filters \in Seq(Text), NEW each, FilterVerdict(v, c, s, each) = "SUCCESS"
  PROVE  /\ \A i \in DOMAIN s.filters : SubTopicValid(s.filters[i])
         /\ ~Oversize(c.maximumPacketSize,
                      2 + LengthAll(s.props)
                      + Total([i \in DOMAIN s.filters |-> 2 + Len(s.filters[i]) + each]))
<1> DEFINE properties == v # "v5" /\ s.props # <<>>
           options == s.kind = "SUBSCRIBE" /\ ~OptionsValid(s.options)
           check == CheckAll(s.kind, s.props)
           wrong == \E i \in DOMAIN s.filters :
                      ~SubTopicValid(s.filters[i]) /\ \A j \in 1..i - 1 : ValidUtf8(s.filters[j])
           malformed == \E i \in DOMAIN s.filters : ~ValidUtf8(s.filters[i])
           oversize == Oversize(c.maximumPacketSize,
                                2 + LengthAll(s.props)
                                + Total([i \in DOMAIN s.filters |-> 2 + Len(s.filters[i]) + each]))
<1>1. FilterVerdict(v, c, s, each) =
        CASE properties -> "NOT_SUPPORTED"
          [] options -> "INVAL"
          [] check # "SUCCESS" -> check
          [] wrong -> "INVAL"
          [] malformed -> "MALFORMED_UTF8"
          [] oversize -> "OVERSIZE_PACKET"
          [] OTHER -> "SUCCESS"
  BY Zenon DEF FilterVerdict
<1> HIDE DEF properties, options, check, wrong, malformed, oversize
<1>2. ~wrong /\ ~malformed /\ ~oversize
  BY <1>1
<1>3. ASSUME NEW i \in DOMAIN s.filters
      PROVE  SubTopicValid(s.filters[i])
  <2>1. PICK n \in Nat : DOMAIN s.filters = 1..n
    BY LenProperties
  <2>2. \A j \in 1..i - 1 : j \in DOMAIN s.filters
    BY SMT, <2>1
  <2>3. QED BY <1>2, <2>2 DEF wrong, malformed
<1>4. QED BY <1>2, <1>3 DEF oversize

\* A text of at most 65535 bytes is not cut off.
LEMMA UncutUpTo ==
  ASSUME NEW s \in Text, Len(s) <= 65535
  PROVE  Uncut({s})
<1>1. PICK l \in Nat : l = Len(s)
  BY LenProperties DEF Text
<1>2. l < 65536
  BY SMT, <1>1
<1>3. QED BY SMT, <1>1, <1>2 DEF Uncut

\* What an accepted call reckons is what it writes, unless its properties are left out or a text
\* of them is cut off.
LEMMA CallReckoned ==
  ASSUME NEW v, NEW c, NEW p \in Publication \cup Subscription \cup Farewell,
         v # "v5" => p.props = <<>>, CallVerdict(v, c, p) = "SUCCESS",
         ~(p.kind = "PUBLISH" /\ DropsProperties(v, p))
  PROVE  Reckoned(Nat, DraftOf(v, p).announced, DraftOf(v, p).body, AllTexts(p.props))
<1>1. Bytes \subseteq Nat
  BY SMT DEF Bytes
<1>2. CASE p \in Publication
  <2>1. /\ p.kind = "PUBLISH" /\ p.topic \in Text /\ p.mid \in Short /\ p.payload \in Text
        /\ p.props \in Seq(Property)
    BY <1>2 DEF Publication
  <2>2. Uncut({p.topic})
    <3>1. PublishChecked(p)
      BY <2>1, PublishAccepted DEF CallVerdict
    <3>2. QED BY <2>1, <3>1, UncutUpTo DEF PublishChecked, PubTopicValid
  <2>3. DraftOf(v, p) = PublishDraft(v, p)
    BY <2>1, DraftIs
  <2>4. Reckoned(Bytes, DraftOf(v, p).announced, DraftOf(v, p).body, {p.topic} \cup AllTexts(p.props))
    BY <2>1, <2>3, PublishReckoned
  <2>5. Uncut({p.topic} \cup AllTexts(p.props)) <=> Uncut(AllTexts(p.props))
    BY <2>2 DEF Uncut
  <2>6. Reckoned(Bytes, DraftOf(v, p).announced, DraftOf(v, p).body, AllTexts(p.props))
    BY <2>4, <2>5, ReckonSame
  <2>7. QED BY <1>1, <2>6, ReckonWider
<1>3. CASE p \in Subscription
  <2>1. /\ p.kind \in {"SUBSCRIBE", "UNSUBSCRIBE"} /\ p.mid \in Short /\ p.filters \in Seq(Text)
        /\ p.qos \in Nat /\ p.options \in Nat /\ p.props \in Seq(Property)
    BY <1>3 DEF Subscription
  <2> DEFINE texts == FilterTexts(p)
  <2>2. \A i \in DOMAIN p.filters : SubTopicValid(p.filters[i])
    BY <2>1, FiltersAccepted DEF CallVerdict
  <2>3. Uncut(texts)
    <3>1. ASSUME NEW i \in DOMAIN p.filters
          PROVE  Uncut({p.filters[i]})
      <4>1. p.filters[i] \in Text
        BY <2>1, ElementOfSeq, LenProperties
      <4>2. QED BY <2>2, <4>1, UncutUpTo DEF SubTopicValid
    <3>2. QED BY <3>1 DEF Uncut, FilterTexts
  <2>4. Reckoned(Nat, DraftOf(v, p).announced, DraftOf(v, p).body, AllTexts(p.props) \cup texts)
    <3>1. CASE p.kind = "SUBSCRIBE"
      <4>1. DraftOf(v, p) = SubscribeDraft(v, p)
        BY <3>1, DraftIs
      <4>2. QED BY <2>1, <4>1, SubscribeReckoned
    <3>2. CASE p.kind = "UNSUBSCRIBE"
      <4>1. DraftOf(v, p) = UnsubscribeDraft(v, p)
        BY <3>2, DraftIs
      <4>2. QED BY <2>1, <4>1, UnsubscribeReckoned
    <3>3. QED BY <2>1, <3>1, <3>2
  <2> HIDE DEF texts
  <2>5. Uncut(AllTexts(p.props) \cup texts) <=> Uncut(AllTexts(p.props))
    BY <2>3 DEF Uncut
  <2>6. QED BY <2>4, <2>5, ReckonSame
<1>4. CASE p \in Farewell
  <2>1. p.kind = "DISCONNECT" /\ p.reason \in Bytes /\ p.props \in Seq(Property)
    BY <1>4 DEF Farewell
  <2>2. Reckoned(Bytes, DraftOf(v, p).announced, DraftOf(v, p).body, AllTexts(p.props))
    BY <2>1, DraftIs, DisconnectReckoned
  <2>3. QED BY <1>1, <2>2, ReckonWider
<1>5. QED BY <1>2, <1>3, <1>4

LEMMA CallAnnounced ==
  ASSUME NEW v, NEW c, NEW p \in Publication \cup Subscription \cup Farewell,
         v # "v5" => p.props = <<>>, CallVerdict(v, c, p) = "SUCCESS"
  PROVE  Announces(DraftOf(v, p), AllTexts(p.props), p.kind = "PUBLISH" /\ DropsProperties(v, p))
<1>1. CASE p.kind = "PUBLISH" /\ DropsProperties(v, p)
  <2>1. /\ p.topic \in Text /\ p.mid \in Short /\ p.payload \in Text /\ p.props \in Seq(Property)
    BY <1>1 DEF Publication, Subscription, Farewell
  <2>2. Uncut({p.topic})
    <3>1. PublishChecked(p)
      BY <1>1, PublishAccepted DEF CallVerdict
    <3>2. QED BY <2>1, <3>1, UncutUpTo DEF PublishChecked, PubTopicValid
  <2>3. DraftOf(v, p) = PublishDraft(v, p)
    BY <1>1, DraftIs
  <2>4. PublishDraft(v, p).announced \in Nat
        /\ PublishDraft(v, p).announced # Len(PublishDraft(v, p).body)
    BY <1>1, <2>1, <2>2, PublishDropped
  <2>5. QED BY <1>1, <2>3, <2>4 DEF Announces
<1>2. CASE ~(p.kind = "PUBLISH" /\ DropsProperties(v, p))
  <2>1. Reckoned(Nat, DraftOf(v, p).announced, DraftOf(v, p).body, AllTexts(p.props))
    BY <1>2, CallReckoned
  <2>2. DraftOf(v, p).announced \in Nat
    BY <2>1 DEF Reckoned
  <2>3. QED BY <1>2, <2>1, <2>2 DEF Announces
<1>3. QED BY <1>1, <1>2

\* More digits for a larger number.
LEMMA MoreBytes ==
  ASSUME NEW m \in Nat, NEW n \in Nat, m <= n
  PROVE  VarintBytes(m) <= VarintBytes(n) /\ VarintBytes(m) \in Nat /\ VarintBytes(n) \in Nat
  BY SMT DEF VarintBytes

\* The calls of subscribe and unsubscribe reckon without the digits of the length of their
\* properties, and the packet is not longer than with those of its own.
LEMMA FiltersFit ==
  ASSUME NEW v, NEW c, c.maximumPacketSize \in Nat, NEW p \in Subscription,
         v # "v5" => p.props = <<>>, CallVerdict(v, c, p) = "SUCCESS", c.maximumPacketSize > 0
  PROVE  DraftOf(v, p).announced <= c.maximumPacketSize
<1> DEFINE each == IF p.kind = "SUBSCRIBE" THEN 1 ELSE 0
           lengths == [i \in DOMAIN p.filters |-> 2 + Len(p.filters[i]) + each]
<1>1. /\ p.kind \in {"SUBSCRIBE", "UNSUBSCRIBE"} /\ p.filters \in Seq(Text)
      /\ p.props \in Seq(Property)
  BY DEF Subscription
<1>2. ~Oversize(c.maximumPacketSize, 2 + LengthAll(p.props) + Total(lengths))
  BY <1>1, FiltersAccepted DEF CallVerdict
<1>3. \A i \in DOMAIN p.filters : Len(p.filters[i]) \in Nat
  BY <1>1, ElementOfSeq, LenProperties DEF Text
<1>4. DraftOf(v, p).announced =
        2 + (IF v = "v5" THEN LengthAndAll(p.props) ELSE 0) + Total(lengths)
  <2>1. CASE p.kind = "SUBSCRIBE"
    <3>1. each = 1 /\ DraftOf(v, p) = SubscribeDraft(v, p)
      BY <2>1, DraftIs
    <3> HIDE DEF each
    <3>2. SubscribeDraft(v, p).announced =
            2 + (IF v = "v5" THEN LengthAndAll(p.props) ELSE 0)
            + Total([i \in DOMAIN p.filters |-> 2 + Len(p.filters[i]) + 1])
      BY Zenon DEF SubscribeDraft, Draft
    <3>3. QED BY <3>1, <3>2
  <2>2. CASE p.kind = "UNSUBSCRIBE"
    <3>1. each = 0
      BY <2>2
    <3> HIDE DEF each
    <3>2. \A i \in DOMAIN p.filters : 2 + Len(p.filters[i]) + each = 2 + Len(p.filters[i])
      BY SMT, <1>3, <3>1
    <3>3. lengths = [i \in DOMAIN p.filters |-> 2 + Len(p.filters[i])]
      BY <3>2
    <3> HIDE DEF lengths
    <3>4. DraftOf(v, p) = UnsubscribeDraft(v, p)
      BY <2>2, DraftIs
    <3>5. UnsubscribeDraft(v, p).announced =
            2 + (IF v = "v5" THEN LengthAndAll(p.props) ELSE 0)
            + Total([i \in DOMAIN p.filters |-> 2 + Len(p.filters[i])])
      BY Zenon DEF UnsubscribeDraft, Draft
    <3>6. QED BY <3>3, <3>4, <3>5
  <2>3. QED BY <1>1, <2>1, <2>2
<1>5. PICK t \in Nat : t = Total(lengths)
  <2>1. PICK n \in Nat : n = Len(p.filters) /\ DOMAIN p.filters = 1..n
    BY <1>1, LenProperties
  <2>2. each \in {0, 1}
    OBVIOUS
  <2> HIDE DEF each
  <2>3. \A i \in 1..n : 2 + Len(p.filters[i]) + each \in Nat
    BY SMT, <1>3, <2>1, <2>2
  <2>4. lengths \in [1..n -> Nat]
    BY <2>1, <2>3
  <2> HIDE DEF lengths
  <2>5. lengths \in Seq(Nat)
    BY <2>4, SeqOfFunction
  <2>6. QED BY <2>5, SumIsNat DEF Total, SumOf
<1> HIDE DEF lengths
<1>6. PICK l \in Nat : l = LengthAll(p.props)
  BY <1>1, ReckonAll DEF Reckoned
<1>7. LengthAndAll(p.props) = l + VarintBytes(l)
  BY <1>6 DEF LengthAndAll
<1>8. l <= 2 + l + t /\ 2 + l + t \in Nat
  BY SMT
<1>9. VarintBytes(l) <= VarintBytes(2 + l + t) /\ VarintBytes(l) \in Nat /\ VarintBytes(2 + l + t) \in Nat
  BY <1>8, MoreBytes
<1>10. PICK m \in Nat, a \in Nat, b \in Nat :
         m = c.maximumPacketSize /\ a = VarintBytes(l) /\ b = VarintBytes(2 + l + t)
  BY <1>9
<1>11. ~(m > 0 /\ 2 + l + t + b > m) /\ m > 0 /\ a <= b
  BY <1>2, <1>5, <1>6, <1>9, <1>10 DEF Oversize
<1>12. 2 + (l + a) + t <= m /\ 2 + 0 + t <= m
  BY SMT, <1>11
<1>13. QED BY <1>4, <1>5, <1>7, <1>10, <1>12

\* A PUBLISH is looked at again with its real length.
LEMMA PublishFits ==
  ASSUME NEW n \in Nat, NEW m \in Nat, m > 0, ~Oversize(m, n)
  PROVE  1 + VarintBytes(n) + n <= m + 1
<1>1. VarintBytes(n) \in Nat
  BY SMT DEF VarintBytes
<1>2. ~(m > 0 /\ n + VarintBytes(n) > m)
  BY DEF Oversize
<1>3. QED BY SMT, <1>1, <1>2

-----------------------------------------------------------------------------
(* Packets on the wire                                                     *)

\* The length of a packet takes k digits.
Framed(c, k) ==
  k \in 1..4 /\ EndsWith(c, 1, k) /\ Len(c) = 1 + k + VarintValue(c, 1, k)

\* It would take more than four.
Endless(c) == Len(c) > 5 /\ \A i \in 2..5 : c[i] >= 128

\* What packet__alloc makes of a draft can be taken apart again.
TakenApart(c, command, body) ==
  /\ c \in Seq(Bytes) /\ Len(c) > 1 /\ c[1] = command
  /\ \E k \in 1..4 : Framed(c, k) /\ SubSeq(c, k + 2, Len(c)) = body

LEMMA PacketFramed ==
  ASSUME NEW command \in Bytes, NEW body \in Seq(Bytes), VarintLen(Len(body)) < 5,
         NEW c, c = <<command>> \o Varint(Len(body)) \o body
  PROVE  TakenApart(c, command, body)
<1>1. PICK n \in Nat : n = Len(body)
  BY LenProperties
<1>2. n <= MaxVarint
  BY <1>1, AllocatedShort
<1> DEFINE a == <<command>>
           w == Varint(n)
           u == a \o w
           k == VarintBytes(n)
<1>3. a \in Seq(Bytes) /\ Len(a) = 1 /\ a[1] = command
  OBVIOUS
<1>4. w \in Seq(Bytes) /\ Len(w) = k
  BY VarintWritten
<1>5. c = u \o body
  BY <1>1
<1> HIDE DEF a, w
<1>6. k \in 1..5 /\ k \in Nat
  BY SMT DEF VarintBytes
<1> HIDE DEF k
<1>7. u \in Seq(Bytes) /\ Len(u) = 1 + k
  BY <1>3, <1>4, Together
<1> HIDE DEF u
<1>8. c \in Seq(Bytes) /\ Len(c) = 1 + k + n
  BY <1>1, <1>5, <1>7, Together
<1>9. Holds(c, 0, a) /\ Holds(c, 1, w)
  <2>1. Holds(c, 0, u) /\ Len(c) \in Nat
    BY <1>5, <1>7, <1>8, HoldsItself, HoldsParts, LenProperties
  <2>2. Holds(c, 0, a) /\ Holds(c, 0 + Len(a), w)
    BY <1>3, <1>4, <2>1, HoldsParts DEF u
  <2>3. 0 + 1 = 1
    BY SMT
  <2>4. QED BY <1>3, <2>2, <2>3
<1>10. /\ k \in 1..4 /\ EndsWith(c, 1, k) /\ VarintValue(c, 1, k) = n
  <2>1. 1 \in Nat
    BY SMT
  <2>2. QED BY <1>2, <1>8, <1>9, <2>1, VarintStands DEF w, k
<1>11. c[1] = command
  <2>1. 1 \in 1..1 /\ 0 + 1 = 1
    BY SMT
  <2>2. QED BY <1>3, <1>9, <2>1 DEF Holds
<1>12. Len(c) > 1
  BY SMT, <1>6, <1>8
<1>13. SubSeq(c, k + 2, Len(c)) = body
  <2>1. SubSeq(c, Len(u) + 1, Len(c)) = body
    BY <1>5, <1>7, RestBehind
  <2>2. 1 + k + 1 = k + 2
    BY SMT, <1>6
  <2>3. QED BY <1>7, <2>1, <2>2
<1>14. Framed(c, k)
  BY <1>8, <1>10 DEF Framed
<1>15. QED BY <1>8, <1>10, <1>11, <1>12, <1>13, <1>14 DEF TakenApart

\* What is announced of a packet of the broker is there, and its first byte is not 0, which
\* would say that nothing has been read yet.
LEMMA WellformedExact ==
  ASSUME NEW v, NEW p, Wellformed(v, p)
  PROVE  LET d == DraftOf(v, p) IN
         /\ d.command \in Bytes \ {0} /\ d.body \in Seq(Bytes) /\ d.announced = Len(d.body)
         /\ p.kind \notin NeedActive => d.command = CommandByte(p.kind)
<1> DEFINE d == DraftOf(v, p)
<1>1. p \in Publication \cup Answer \cup Ping
  BY DEF Wellformed
<1>2. ASSUME p \notin Ping, p.props \in Seq(Property)
      PROVE  Writable(v, p.props) /\ Uncut(AllTexts(p.props)) /\ (v # "v5" => p.props = <<>>)
  BY <1>2 DEF Wellformed, Writable, Uncut
<1>3. \A kind \in Acks \cup {"CONNACK", "SUBACK", "UNSUBACK", "AUTH", "DISCONNECT", "PINGREQ", "PINGRESP"} :
        CommandByte(kind) \in Bytes \ {0}
  <2>1. \A x \in {32, 64, 80, 98, 112, 144, 176, 192, 208, 224, 240} : x \in Bytes \ {0}
    BY SMT DEF Bytes
  <2>2. QED BY <2>1 DEF CommandByte, Acks
<1>4. CASE p \in Ping
  <2>1. p.kind \in {"PINGREQ", "PINGRESP"}
    BY <1>4 DEF Ping
  <2>2. d = [command |-> CommandByte(p.kind), announced |-> 0, body |-> <<>>]
    BY <2>1, DraftIs DEF SimpleDraft, Draft
  <2>3. p.kind \in NeedActive
    BY <2>1 DEF NeedActive
  <2>4. QED BY <1>3, <2>1, <2>2, <2>3, EmptySeq
<1>5. CASE p \in Publication /\ p \notin Ping
  <2>1. /\ p.kind = "PUBLISH" /\ p.topic \in Text /\ p.mid \in Short /\ p.payload \in Text
        /\ p.props \in Seq(Property) /\ p.dup \in BOOLEAN /\ p.qos \in 0..2 /\ p.retain \in BOOLEAN
    BY <1>5 DEF Publication
  <2>2. d = PublishDraft(v, p)
    BY <2>1, DraftIs
  <2>3. Reckoned(Bytes, d.announced, d.body, {p.topic} \cup AllTexts(p.props))
    <3>1. ~DropsProperties(v, p)
      BY <2>1 DEF Wellformed
    <3>2. QED BY <1>2, <1>5, <2>1, <2>2, <3>1, PublishReckoned
  <2>4. Uncut({p.topic} \cup AllTexts(p.props))
    BY <1>2, <1>5, <2>1 DEF Uncut, Wellformed
  <2>5. d.command \in Bytes \ {0}
    <3>1. CommandByte("PUBLISH") = 48
      BY DEF CommandByte
    <3>2. d.command = 48 + Bit(p.dup, 8) + p.qos * 2 + Bit(p.retain, 1)
      <4>1. PublishDraft(v, p).command = 48 + Bit(p.dup, 8) + p.qos * 2 + Bit(p.retain, 1)
        BY <3>1, Zenon DEF PublishDraft, Draft
      <4>2. QED BY <2>2, <4>1
    <3>3. PICK x \in {0, 8}, y \in {0, 1} : x = Bit(p.dup, 8) /\ y = Bit(p.retain, 1)
      BY DEF Bit
    <3>4. PICK q \in 0..2 : q = p.qos
      BY <2>1
    <3>5. 48 + x + q * 2 + y \in Bytes \ {0}
      BY SMT DEF Bytes
    <3>6. QED BY <3>2, <3>3, <3>4, <3>5
  <2>6. p.kind \in NeedActive
    BY <2>1 DEF NeedActive
  <2>7. QED BY <2>3, <2>4, <2>5, <2>6 DEF Reckoned
<1>6. CASE p \in Answer /\ p \notin Ping
  <2>1. /\ p.props \in Seq(Property)
        /\ p.kind \in {"CONNACK", "SUBACK", "UNSUBACK", "DISCONNECT", "AUTH"} \cup Acks
        /\ p.kind = "CONNACK" => p.flags \in Bytes /\ p.reason \in Bytes
        /\ p.kind \in Acks => p.mid \in Short /\ p.reason \in Bytes
        /\ p.kind = "SUBACK" => p.mid \in Short /\ p.granted \in Seq(Bytes)
        /\ p.kind = "UNSUBACK" => p.mid \in Short
        /\ p.kind \in {"DISCONNECT", "AUTH"} => p.reason \in Bytes
    BY <1>6 DEF Answer, Acks, Text
  <2>2. Writable(v, p.props) /\ Uncut(AllTexts(p.props)) /\ (v # "v5" => p.props = <<>>)
    BY <1>2, <1>6, <2>1
  <2>3. CommandByte(p.kind) \in Bytes \ {0}
    BY <1>3, <2>1
  <2>4. CASE p.kind \in Acks
    <3>1. d = AckDraft(v, p)
      BY <2>4, DraftIs
    <3>2. Reckoned(Bytes, d.announced, d.body, AllTexts(p.props))
      BY <2>1, <2>2, <2>4, <3>1, AckReckoned
    <3>3. d.command = CommandByte(p.kind)
      BY <3>1 DEF AckDraft, Draft
    <3>4. QED BY <2>2, <2>3, <3>2, <3>3 DEF Reckoned
  <2>5. CASE p.kind = "DISCONNECT"
    <3>1. d = DisconnectDraft(v, p)
      BY <2>5, DraftIs
    <3>2. Reckoned(Bytes, d.announced, d.body, AllTexts(p.props))
      BY <2>1, <2>2, <2>5, <3>1, DisconnectReckoned
    <3>3. d.command = CommandByte(p.kind)
      BY <2>5, <3>1 DEF DisconnectDraft, Draft
    <3>4. QED BY <2>2, <2>3, <3>2, <3>3 DEF Reckoned
  <2>6. CASE p.kind \in {"CONNACK", "SUBACK", "UNSUBACK", "AUTH"}
    <3> DEFINE q == PropsPart(v, p.props)
    <3>1. q \in Seq(Bytes)
      BY <2>2, PartWritten
    <3>2. d = BrokerDraft(v, p)
      BY <2>6 DEF DraftOf, Acks
    <3>3. /\ p.kind = "CONNACK" => d = Draft(CommandByte(p.kind), Len(<<p.flags, p.reason>> \o q), <<p.flags, p.reason>> \o q)
          /\ p.kind = "SUBACK" => d = Draft(CommandByte(p.kind), Len(Uint16(p.mid) \o q \o p.granted), Uint16(p.mid) \o q \o p.granted)
          /\ p.kind = "UNSUBACK" => d = Draft(CommandByte(p.kind), Len(Uint16(p.mid) \o q), Uint16(p.mid) \o q)
          /\ p.kind = "AUTH" => d = Draft(CommandByte(p.kind), Len(<<p.reason>> \o q), <<p.reason>> \o q)
      BY <3>2 DEF BrokerDraft, PropsPart
    <3> HIDE DEF q
    <3>4. PICK b \in Seq(Bytes) : d = Draft(CommandByte(p.kind), Len(b), b)
      <4>1. CASE p.kind = "CONNACK"
        <5>1. <<p.flags, p.reason>> \in Seq(Bytes)
          BY <2>1, <4>1
        <5>2. <<p.flags, p.reason>> \o q \in Seq(Bytes)
          BY <3>1, <5>1, Together
        <5>3. QED BY <3>3, <4>1, <5>2
      <4>2. CASE p.kind = "SUBACK"
        <5>1. Uint16(p.mid) \o q \o p.granted \in Seq(Bytes)
          BY <2>1, <3>1, <4>2, TwoBytes, Together
        <5>2. QED BY <3>3, <4>2, <5>1
      <4>3. CASE p.kind = "UNSUBACK"
        <5>1. Uint16(p.mid) \o q \in Seq(Bytes)
          BY <2>1, <3>1, <4>3, TwoBytes, Together
        <5>2. QED BY <3>3, <4>3, <5>1
      <4>4. CASE p.kind = "AUTH"
        <5>1. <<p.reason>> \in Seq(Bytes)
          BY <2>1, <4>4
        <5>2. <<p.reason>> \o q \in Seq(Bytes)
          BY <3>1, <5>1, Together
        <5>3. QED BY <3>3, <4>4, <5>2
      <4>5. QED BY <2>6, <4>1, <4>2, <4>3, <4>4
    <3>5. QED BY <2>3, <3>4 DEF Draft
  <2>7. QED BY <2>1, <2>4, <2>5, <2>6
<1>7. QED BY <1>1, <1>4, <1>5, <1>6
-----------------------------------------------------------------------------
(* What the client makes of the bytes of a packet                          *)

\* p keeps to the standard, and its kind can be told from its first byte as far as the handlers
\* that look at the state go.
Acceptable(v, p, command) ==
  Wellformed(v, p) /\ (p.kind \notin NeedActive => command = CommandByte(p.kind))

\* c, the bytes of p, will be decoded to p or be refused for what p is.
Understood(v, p, c) ==
  /\ c \in Seq(Bytes) /\ Len(c) > 1 /\ c[1] \in Bytes \ {0}
  /\ \/ Endless(c) /\ p.kind = "raw"
     \/ \E k \in 1..4 :
          /\ Framed(c, k)
          /\ LET r == HandlePacket(v, c[1], SubSeq(c, k + 2, Len(c))) IN
             IF Succeeds(r) THEN r.value = p /\ Acceptable(v, p, c[1])
             ELSE p.kind = "raw" \/ Odd(p)

LEMMA WellformedUnderstood ==
  ASSUME NEW v, NEW p, Wellformed(v, p)
  PROVE  Understood(v, p, PacketBytes(DraftOf(v, p)))
<1> DEFINE d == DraftOf(v, p)
           c == PacketBytes(d)
<1>1. /\ d.command \in Bytes \ {0} /\ d.body \in Seq(Bytes) /\ d.announced = Len(d.body)
      /\ p.kind \notin NeedActive => d.command = CommandByte(p.kind)
  BY WellformedExact
<1>2. VarintLen(Len(d.body)) < 5 /\ d.command \in Bytes
  <2>1. VarintLen(d.announced) < 5
    BY DEF Wellformed, Allocates
  <2>2. QED BY <1>1, <2>1
<1>3. Decoded(v, p)
  BY WellformedDecoded
<1> HIDE DEF d
<1>4. c = <<d.command>> \o Varint(Len(d.body)) \o d.body
  BY <1>1 DEF PacketBytes
<1> HIDE DEF c
<1>5. /\ c \in Seq(Bytes) /\ Len(c) > 1 /\ c[1] = d.command
      /\ \E k \in 1..4 : Framed(c, k) /\ SubSeq(c, k + 2, Len(c)) = d.body
  <2>1. TakenApart(c, d.command, d.body)
    BY <1>1, <1>2, <1>4, PacketFramed
  <2>2. QED BY <2>1 DEF TakenApart
<1>6. PICK k \in 1..4 : Framed(c, k) /\ SubSeq(c, k + 2, Len(c)) = d.body
  BY <1>5
<1>7. LET r == HandlePacket(v, c[1], SubSeq(c, k + 2, Len(c))) IN
      IF Succeeds(r) THEN r.value = p /\ Acceptable(v, p, c[1]) ELSE p.kind = "raw" \/ Odd(p)
  BY <1>1, <1>3, <1>5, <1>6 DEF Decoded, Acceptable, d
<1>8. Understood(v, p, c)
  BY <1>1, <1>5, <1>6, <1>7 DEF Understood
<1>9. QED BY <1>8 DEF c, d

LEMMA MalformedUnderstood ==
  ASSUME NEW v, NEW p, p.kind = "raw", NEW c, Malformed(v, c)
  PROVE  Understood(v, p, c)
<1>1. c \in Seq(Bytes) /\ Len(c) > 1 /\ c[1] # 0
  BY DEF Malformed, Text
<1>2. c[1] \in Bytes
  <2>1. PICK n \in Nat : n = Len(c)
    BY <1>1, LenProperties
  <2>2. 1 \in 1..n
    BY SMT, <1>1, <2>1
  <2>3. QED BY <1>1, <2>1, <2>2, ElementOfSeq
<1>3. CASE Len(c) > 5 /\ \A i \in 2..5 : c[i] >= 128
  BY <1>1, <1>2, <1>3 DEF Understood, Endless
<1>4. CASE \E k \in 1..4 : /\ EndsWith(c, 1, k)
                           /\ Len(c) = 1 + k + VarintValue(c, 1, k)
                           /\ ~Succeeds(HandlePacket(v, c[1], SubSeq(c, k + 2, Len(c))))
  BY <1>1, <1>2, <1>4 DEF Understood, Framed
<1>5. QED BY <1>3, <1>4 DEF Malformed

\* BrokerBytes, of any version.
BytesOf(v, p) == IF p.kind = "raw" THEN p.bytes ELSE PacketBytes(DraftOf(v, p))

\* What a broker can have sent.
Proper(v, p) == Understood(v, p, BytesOf(v, p))

LEMMA BrokerSendsProper ==
  ASSUME version \in Versions,
         NEW b \in Greetings \cup BrokerPackets, Fits(b)
  PROVE  Proper(version, b.packet)
<1>1. IF b.packet.kind = "raw" THEN Malformed(version, b.packet.bytes)
      ELSE Wellformed(version, b.packet)
  BY WireAssumption DEF Fits
<1>2. QED BY <1>1, WellformedUnderstood, MalformedUnderstood DEF Proper, BytesOf

\* An empty text is valid UTF-8.
LEMMA EmptyIsUtf8 == ValidUtf8(<<>>)
<1> DEFINE Ends(i) == i > 0
           Step(g) == [i \in 1..0 + 1 |->
                         \/ i > 0
                         \/ /\ CodeLen(<<>>[i]) > 0
                            /\ Continued(<<>>, i)
                            /\ Allowed(Codepoint(<<>>, i), CodeLen(<<>>[i]))
                            /\ g[i + CodeLen(<<>>[i])]]
<1>1. Len(<<>>) = 0 /\ 0 <= 65536
  BY SMT
<1>2. ValidUtf8(<<>>) <=> (CHOOSE g : g = Step(g))[1]
  BY <1>1 DEF ValidUtf8
<1>3. \A i \in 1..0 + 1 : i > 0
  BY SMT
<1> DEFINE T == [i \in 1..0 + 1 |-> TRUE]
<1>4. \A g : Step(g) = T
  BY <1>3
<1>5. T[1]
  BY SMT
<1> HIDE DEF Step, T
<1>6. (CHOOSE g : g = Step(g)) = T
  BY <1>4
<1>7. QED BY <1>2, <1>5, <1>6

-----------------------------------------------------------------------------
(* Bytes that are taken from the front                                     *)

\* c without its first n bytes.
From(c, n) == SubSeq(c, n + 1, Len(c))

\* They are taken one piece after the other: x is the next.
Cut(S, c, n, m, x) ==
  /\ From(c, n) = x \o From(c, n + m) /\ x \in Seq(S) /\ Len(x) = m
  /\ From(c, n + m) \in Seq(S) /\ Len(From(c, n + m)) = Len(c) - (n + m)
  /\ \A i \in 1..m : x[i] = c[n + i]

LEMMA PieceOff ==
  ASSUME NEW S, NEW c \in Seq(S), NEW n \in Nat, NEW m \in Nat, n + m <= Len(c)
  PROVE  Cut(S, c, n, m, SubSeq(c, n + 1, n + m))
<1>1. PICK l \in Nat : l = Len(c) /\ n + m <= l
  BY LenProperties
<1>2. \A i \in 1..l : c[i] \in S
  BY <1>1, ElementOfSeq
<1>3. /\ n + 1 \in 1..l + 1 /\ n + m \in (n + 1) - 1..l /\ l \in n + m..l
      /\ n + 1 \in Int /\ n + m \in Int /\ n + m + 1 \in Int /\ l \in Int
      /\ \A i \in n + 1..n + m : i \in 1..l
      /\ \A i \in n + m + 1..l : i \in 1..l
  BY <1>1
<1>4. SubSeq(c, n + 1, n + m) \o SubSeq(c, n + m + 1, l) = SubSeq(c, n + 1, l)
  BY <1>1, <1>3, ConcatAdjacentSubSeq
<1> DEFINE x == SubSeq(c, n + 1, n + m)
           y == SubSeq(c, n + m + 1, l)
<1>5. /\ x \in Seq(S) /\ Len(x) = (IF n + 1 <= n + m THEN n + m - (n + 1) + 1 ELSE 0)
      /\ \A i \in 1..n + m - (n + 1) + 1 : x[i] = c[n + 1 + i - 1]
  BY <1>2, <1>3, SubSeqProperties
<1>6. y \in Seq(S) /\ Len(y) = IF n + m + 1 <= l THEN l - (n + m + 1) + 1 ELSE 0
  BY <1>2, <1>3, SubSeqProperties
<1> HIDE DEF x, y
<1>7. Len(x) = m /\ \A i \in 1..m : x[i] = c[n + i]
  <2>1. n + m - (n + 1) + 1 = m /\ (n + 1 <= n + m \/ m = 0)
    BY SMT
  <2>2. \A i \in 1..m : n + 1 + i - 1 = n + i
    BY SMT
  <2>3. QED BY <1>5, <2>1, <2>2
<1>8. Len(y) = l - (n + m)
  BY SMT, <1>1, <1>6
<1>9. QED BY <1>1, <1>4, <1>5, <1>6, <1>7, <1>8 DEF Cut, From, x, y

\* Behind the first piece there is the rest of what was there.
LEMMA FrontOff ==
  ASSUME NEW S, NEW x \in Seq(S), NEW r \in Seq(S), NEW w, w = x \o r
  PROVE  w \in Seq(S) /\ SubSeq(w, 1, Len(x)) = x /\ SubSeq(w, Len(x) + 1, Len(w)) = r
<1>1. PICK l \in Nat, m \in Nat : l = Len(x) /\ m = Len(r)
  BY LenProperties
<1>2. /\ w \in Seq(S) /\ Len(w) = l + m
      /\ \A i \in 1..l + m : w[i] = IF i <= l THEN x[i] ELSE r[i - l]
  BY <1>1, ConcatProperties
<1>3. \A i \in 1..l : w[i] \in S /\ w[i] = x[i]
  <2>1. ASSUME NEW i \in 1..l
        PROVE  i \in 1..l + m /\ i <= l
    BY SMT
  <2>2. QED BY <1>1, <1>2, <2>1, ElementOfSeq
<1> DEFINE y == SubSeq(w, 1, l)
<1>4. 0 \in Nat /\ 0 + l <= l + m /\ 0 + 1 = 1 /\ 0 + l = l /\ \A i \in 1..l : 0 + i = i
  BY SMT
<1>5. y \in Seq(S) /\ Len(y) = l /\ \A i \in 1..l : y[i] = w[i]
  <2>1. Cut(S, w, 0, l, SubSeq(w, 0 + 1, 0 + l))
    BY <1>2, <1>4, PieceOff
  <2>2. QED BY <1>4, <2>1 DEF Cut
<1> HIDE DEF y
<1>7. y = x
  BY <1>1, <1>3, <1>5, SeqEqual
<1>8. SubSeq(w, Len(x) + 1, Len(w)) = r
  BY RestBehind
<1>9. QED BY <1>1, <1>2, <1>7, <1>8 DEF y

LEMMA ByteOff ==
  ASSUME NEW S, NEW x \in Seq(S), Len(x) = 1, NEW r \in Seq(S), NEW w, w = x \o r
  PROVE  w # <<>> /\ Head(w) = x[1] /\ Tail(w) = r
<1>1. PICK m \in Nat : m = Len(r)
  BY LenProperties
<1>2. /\ w \in Seq(S) /\ Len(w) = 1 + m
      /\ \A i \in 1..1 + m : w[i] = IF i <= 1 THEN x[i] ELSE r[i - 1]
  <2>1. /\ x \o r \in Seq(S) /\ Len(x \o r) = Len(x) + Len(r)
        /\ \A i \in 1..Len(x) + Len(r) : (x \o r)[i] = IF i <= Len(x) THEN x[i] ELSE r[i - Len(x)]
    BY ConcatProperties
  <2>2. QED BY <1>1, <2>1
<1>3. w # <<>>
  <2>1. 1 + m # 0
    BY SMT
  <2>2. QED BY <1>2, <2>1, EmptySeq
<1>4. Head(w) = w[1] /\ w[1] = x[1]
  <2>1. 1 \in 1..1 + m /\ 1 <= 1
    BY SMT
  <2>2. w[1] = x[1]
    BY <1>2, <2>1
  <2>3. Head(w) = w[1]
    BY <1>2, <1>3
  <2>4. QED BY <2>2, <2>3
<1>5. SubSeq(w, 2, Len(w)) = r
  <2>1. SubSeq(w, Len(x) + 1, Len(w)) = r
    BY RestBehind
  <2>2. Len(x) + 1 = 2
    BY SMT
  <2>3. QED BY <2>1, <2>2
<1>6. QED BY <1>2, <1>3, <1>4, <1>5, TailIsSubSeq

\* One digit more.
LEMMA NextDigit ==
  ASSUME NEW c \in Seq(Bytes), NEW j \in 0..3, j + 2 <= Len(c)
  PROVE  /\ VarintValue(c, 1, j) + (c[j + 2] % 128) * Weight[j + 1] = VarintValue(c, 1, j + 1)
         /\ Weight[j + 1] * 128 = Weight[j + 2]
<1>1. \A i \in 1..Len(c) : c[i] \in Bytes
  BY ElementOfSeq
<1>2. PICK l \in Nat : l = Len(c)
  BY LenProperties
<1>3. /\ Weight[1] = 1 /\ Weight[2] = 128 /\ Weight[3] = 16384 /\ Weight[4] = 2097152
      /\ Weight[5] = 268435456
  BY DEF Weight
<1>4. Weight[j + 1] * 128 = Weight[j + 2]
  BY SMT, <1>3
<1> DEFINE Part(k, i) == IF i <= k THEN (c[1 + i] % 128) * Weight[i] ELSE 0
<1>5. \A k \in 0..4 : VarintValue(c, 1, k) = Part(k, 1) + Part(k, 2) + Part(k, 3) + Part(k, 4)
  BY DEF VarintValue
<1>6. \A i \in 1..j + 1 : c[1 + i] % 128 \in 0..127
  <2>1. ASSUME NEW i \in 1..j + 1
        PROVE  1 + i \in 1..l
    BY SMT, <1>2
  <2>2. QED BY <1>1, <1>2, <2>1, DigitOfByte
<1>7. CASE j = 0
  <2>1. PICK d \in 0..127 : d = c[2] % 128
    BY SMT, <1>6, <1>7
  <2>2. c[1 + 1] = c[2] /\ c[j + 2] = c[2]
    BY SMT, <1>7
  <2>3. VarintValue(c, 1, 0) = 0
    <3>1. Part(0, 1) = 0 /\ Part(0, 2) = 0 /\ Part(0, 3) = 0 /\ Part(0, 4) = 0
      BY SMT
    <3> HIDE DEF Part
    <3>2. QED BY <1>5, <3>1, SMT
  <2>4. VarintValue(c, 1, 1) = d
    <3>1. Part(1, 1) = d /\ Part(1, 2) = 0 /\ Part(1, 3) = 0 /\ Part(1, 4) = 0
      BY SMT, <1>3, <2>1, <2>2
    <3> HIDE DEF Part
    <3>2. QED BY <1>5, <3>1, SMT
  <2>5. VarintValue(c, 1, j) = VarintValue(c, 1, 0) /\ VarintValue(c, 1, j + 1) = VarintValue(c, 1, 1)
    BY SMT, <1>7
  <2>6. c[j + 2] % 128 = d
    BY <2>1, <2>2
  <2>7. Weight[j + 1] = 1
    BY SMT, <1>3, <1>7
  <2>8. QED BY <1>4, <2>3, <2>4, <2>5, <2>6, <2>7
<1>8. CASE j = 1
  <2>1. PICK d \in 0..127, e \in 0..127 :
          d = c[2] % 128 /\ e = c[3] % 128
    <3>1. 1 \in 1..j + 1 /\ 1 + 1 = 2 /\ 2 \in 1..j + 1 /\ 1 + 2 = 3
      BY SMT, <1>8
    <3>2. c[2] % 128 \in 0..127 /\ c[3] % 128 \in 0..127
      BY <1>6, <3>1
    <3>3. QED BY <3>2
  <2>2. c[1 + 1] = c[2] /\ c[1 + 2] = c[3] /\ c[j + 2] = c[3]
    BY SMT, <1>8
  <2>3. VarintValue(c, 1, 1) = d
    <3>1. Part(1, 1) = d /\ Part(1, 2) = 0 /\ Part(1, 3) = 0 /\ Part(1, 4) = 0
      BY SMT, <1>3, <2>1, <2>2
    <3> HIDE DEF Part
    <3>2. QED BY <1>5, <3>1, SMT
  <2>4. VarintValue(c, 1, 2) = d + e * 128
    <3>1. Part(2, 1) = d /\ Part(2, 2) = e * 128 /\ Part(2, 3) = 0 /\ Part(2, 4) = 0
      BY SMT, <1>3, <2>1, <2>2
    <3> HIDE DEF Part
    <3>2. QED BY <1>5, <3>1, SMT
  <2>5. VarintValue(c, 1, j) = VarintValue(c, 1, 1) /\ VarintValue(c, 1, j + 1) = VarintValue(c, 1, 2)
    BY SMT, <1>8
  <2>6. c[j + 2] % 128 = e
    BY <2>1, <2>2
  <2>7. Weight[j + 1] = 128
    BY SMT, <1>3, <1>8
  <2>8. QED BY <1>4, <2>3, <2>4, <2>5, <2>6, <2>7
<1>9. CASE j = 2
  <2>1. PICK d \in 0..127, e \in 0..127, f \in 0..127 :
          d = c[2] % 128 /\ e = c[3] % 128 /\ f = c[4] % 128
    <3>1. 1 \in 1..j + 1 /\ 1 + 1 = 2 /\ 2 \in 1..j + 1 /\ 1 + 2 = 3 /\ 3 \in 1..j + 1 /\ 1 + 3 = 4
      BY SMT, <1>9
    <3>2. c[2] % 128 \in 0..127 /\ c[3] % 128 \in 0..127 /\ c[4] % 128 \in 0..127
      BY <1>6, <3>1
    <3>3. QED BY <3>2
  <2>2. c[1 + 1] = c[2] /\ c[1 + 2] = c[3] /\ c[1 + 3] = c[4] /\ c[j + 2] = c[4]
    BY SMT, <1>9
  <2>3. VarintValue(c, 1, 2) = d + e * 128
    <3>1. Part(2, 1) = d /\ Part(2, 2) = e * 128 /\ Part(2, 3) = 0 /\ Part(2, 4) = 0
      BY SMT, <1>3, <2>1, <2>2
    <3> HIDE DEF Part
    <3>2. QED BY <1>5, <3>1, SMT
  <2>4. VarintValue(c, 1, 3) = d + e * 128 + f * 16384
    <3>1. Part(3, 1) = d /\ Part(3, 2) = e * 128 /\ Part(3, 3) = f * 16384 /\ Part(3, 4) = 0
      BY SMT, <1>3, <2>1, <2>2
    <3> HIDE DEF Part
    <3>2. QED BY <1>5, <3>1, SMT
  <2>5. VarintValue(c, 1, j) = VarintValue(c, 1, 2) /\ VarintValue(c, 1, j + 1) = VarintValue(c, 1, 3)
    BY SMT, <1>9
  <2>6. c[j + 2] % 128 = f
    BY <2>1, <2>2
  <2>7. Weight[j + 1] = 16384
    BY SMT, <1>3, <1>9
  <2>8. QED BY <1>4, <2>3, <2>4, <2>5, <2>6, <2>7
<1>10. CASE j = 3
  <2>1. PICK d \in 0..127, e \in 0..127, f \in 0..127, g \in 0..127 :
          d = c[2] % 128 /\ e = c[3] % 128 /\ f = c[4] % 128 /\ g = c[5] % 128
    <3>1. 1 \in 1..j + 1 /\ 1 + 1 = 2 /\ 2 \in 1..j + 1 /\ 1 + 2 = 3 /\ 3 \in 1..j + 1 /\ 1 + 3 = 4 /\ 4 \in 1..j + 1 /\ 1 + 4 = 5
      BY SMT, <1>10
    <3>2. c[2] % 128 \in 0..127 /\ c[3] % 128 \in 0..127 /\ c[4] % 128 \in 0..127 /\ c[5] % 128 \in 0..127
      BY <1>6, <3>1
    <3>3. QED BY <3>2
  <2>2. c[1 + 1] = c[2] /\ c[1 + 2] = c[3] /\ c[1 + 3] = c[4] /\ c[1 + 4] = c[5] /\ c[j + 2] = c[5]
    BY SMT, <1>10
  <2>3. VarintValue(c, 1, 3) = d + e * 128 + f * 16384
    <3>1. Part(3, 1) = d /\ Part(3, 2) = e * 128 /\ Part(3, 3) = f * 16384 /\ Part(3, 4) = 0
      BY SMT, <1>3, <2>1, <2>2
    <3> HIDE DEF Part
    <3>2. QED BY <1>5, <3>1, SMT
  <2>4. VarintValue(c, 1, 4) = d + e * 128 + f * 16384 + g * 2097152
    <3>1. /\ Part(4, 1) = d /\ Part(4, 2) = e * 128 /\ Part(4, 3) = f * 16384
          /\ Part(4, 4) = g * 2097152
      BY SMT, <1>3, <2>1, <2>2
    <3> HIDE DEF Part
    <3>2. QED BY <1>5, <3>1, SMT
  <2>5. VarintValue(c, 1, j) = VarintValue(c, 1, 3) /\ VarintValue(c, 1, j + 1) = VarintValue(c, 1, 4)
    BY SMT, <1>10
  <2>6. c[j + 2] % 128 = g
    BY <2>1, <2>2
  <2>7. Weight[j + 1] = 2097152
    BY SMT, <1>3, <1>10
  <2>8. QED BY <1>4, <2>3, <2>4, <2>5, <2>6, <2>7
<1>11. QED BY SMT, <1>7, <1>8, <1>9, <1>10

-----------------------------------------------------------------------------
(* in_packet and the bytes behind it                                       *)

\* in_packet behind the byte of the command and j digits of a length that goes on.
InLength(c, j) ==
  [command |-> c[1], count |-> 0 - j, mult |-> Weight[j + 1], length |-> VarintValue(c, 1, j),
   toProcess |-> 0, payload |-> <<>>]

\* in_packet behind a length of k digits and n bytes of the payload.
InPayload(c, k, n) ==
  [command |-> c[1], count |-> k, mult |-> Weight[k + 1], length |-> VarintValue(c, 1, k),
   toProcess |-> VarintValue(c, 1, k) - n, payload |-> SubSeq(c, k + 2, k + 1 + n)]

\* A part of c has been read into in; w are the bytes to come, rest those behind c.
Started(c, in, w, rest) ==
  \/ \E j \in 0..4 :
       /\ j + 1 <= Len(c) /\ \A i \in 2..j + 1 : c[i] >= 128
       /\ in = InLength(c, j) /\ w = From(c, j + 1) \o rest
  \/ \E k \in 1..4 : \E n \in 0..VarintValue(c, 1, k) :
       /\ Framed(c, k)
       /\ in = InPayload(c, k, n) /\ w = From(c, k + 1 + n) \o rest

Delimited(c) ==
  /\ c \in Seq(Bytes) /\ Len(c) > 1 /\ c[1] \in Bytes \ {0}
  /\ Endless(c) \/ \E k \in 1..4 : Framed(c, k)

\* The next byte is that of c behind its first n.
Nexts(c, n, w, rest) ==
  w # <<>> /\ Head(w) = c[n + 1] /\ Tail(w) = From(c, n + 1) \o rest

LEMMA NextByte ==
  ASSUME NEW c \in Seq(Bytes), NEW n \in Nat, n + 1 <= Len(c), NEW rest \in Seq(Bytes),
         NEW w, w = From(c, n) \o rest
  PROVE  Nexts(c, n, w, rest)
<1> DEFINE x == SubSeq(c, n + 1, n + 1)
<1>1. 1 \in Nat /\ 1 \in 1..1
  BY SMT
<1>2. /\ From(c, n) = x \o From(c, n + 1) /\ x \in Seq(Bytes) /\ Len(x) = 1
      /\ From(c, n + 1) \in Seq(Bytes) /\ \A i \in 1..1 : x[i] = c[n + i]
  <2>1. Cut(Bytes, c, n, 1, x)
    BY <1>1, PieceOff
  <2>2. QED BY <2>1 DEF Cut
<1>3. x[1] = c[n + 1]
  BY <1>1, <1>2
<1> DEFINE y == From(c, n + 1)
<1> HIDE DEF x, y
<1>4. w = (x \o y) \o rest /\ x \in Seq(Bytes) /\ y \in Seq(Bytes)
  BY <1>2 DEF y
<1>5. (x \o y) \o rest = x \o (y \o rest)
  BY SMTT(30), <1>4, ConcatAssociative
<1>6. y \o rest \in Seq(Bytes)
  BY <1>4, Together
<1> DEFINE r == y \o rest
<1>7. w = x \o r /\ r \in Seq(Bytes)
  BY <1>4, <1>5, <1>6
<1> HIDE DEF r
<1>8. w # <<>> /\ Head(w) = x[1] /\ Tail(w) = r
  BY <1>2, <1>4, <1>7, ByteOff
<1>9. QED BY <1>3, <1>8 DEF Nexts, r, y

\* ReadCommand: the first byte.
LEMMA CommandTaken ==
  ASSUME NEW c, Delimited(c), NEW rest \in Seq(Bytes), NEW w, w = c \o rest
  PROVE  /\ w # <<>> /\ Head(w) = c[1]
         /\ Started(c, [NoPacket EXCEPT !.command = Head(w)], Tail(w), rest)
<1>1. PICK l \in Nat : l = Len(c) /\ l > 1 /\ c \in Seq(Bytes)
  BY LenProperties DEF Delimited
<1>2. 0 \in Nat /\ 1 \in Nat /\ 0 + 1 <= l /\ 0 + 1 = 1
  BY SMT, <1>1
<1>3. From(c, 0) = c
  BY <1>1, <1>2, SubSeqFull DEF From
<1>4. 0 + 1 <= Len(c) /\ w = From(c, 0) \o rest
  BY <1>1, <1>2, <1>3
<1>5. Nexts(c, 0, w, rest)
  BY <1>1, <1>2, <1>4, NextByte
<1>6. w # <<>> /\ Head(w) = c[1] /\ Tail(w) = From(c, 1) \o rest
  BY <1>2, <1>5 DEF Nexts
<1>7. [NoPacket EXCEPT !.command = c[1]] = InLength(c, 0)
  <2>1. VarintValue(c, 1, 0) = 0
    <3> DEFINE Part(i) == IF i <= 0 THEN (c[1 + i] % 128) * Weight[i] ELSE 0
    <3>1. VarintValue(c, 1, 0) = Part(1) + Part(2) + Part(3) + Part(4)
      BY DEF VarintValue
    <3>2. Part(1) = 0 /\ Part(2) = 0 /\ Part(3) = 0 /\ Part(4) = 0
      BY SMT
    <3> HIDE DEF Part
    <3>3. QED BY <3>1, <3>2, SMT
  <2>2. Weight[0 + 1] = 1 /\ 0 - 0 = 0
    <3>1. 0 + 1 = 1 /\ 0 - 0 = 0
      BY SMT
    <3>2. Weight[1] = 1
      BY DEF Weight
    <3>3. QED BY <3>1, <3>2
  <2>3. QED BY <2>1, <2>2 DEF InLength, NoPacket
<1>8. 0 \in 0..4 /\ 0 + 1 <= l /\ \A i \in 2..0 + 1 : c[i] >= 128
  BY SMT, <1>1
<1>9. Started(c, InLength(c, 0), Tail(w), rest)
  BY <1>1, <1>2, <1>6, <1>8 DEF Started
<1>10. QED BY <1>6, <1>7, <1>9

\* There are digits to come, and a fifth one only if the length takes more than four.
LEMMA DigitsToCome ==
  ASSUME NEW c, Delimited(c), NEW j \in 0..4, \A i \in 2..j + 1 : c[i] >= 128
  PROVE  /\ j + 2 <= Len(c)
         /\ j = 4 => Endless(c)
         /\ j < 4 /\ c[j + 2] < 128 => Framed(c, j + 1)
<1>1. PICK l \in Nat : l = Len(c)
  BY LenProperties DEF Delimited
<1>2. CASE Endless(c)
  <2>1. l > 5 /\ \A i \in 2..5 : c[i] >= 128
    BY <1>1, <1>2 DEF Endless
  <2>2. j + 2 <= l /\ (j < 4 => j + 2 \in 2..5)
    BY SMT, <2>1
  <2>3. j < 4 => c[j + 2] >= 128
    BY <2>1, <2>2
  <2>4. j < 4 => c[j + 2] \in Nat
    <3>1. j < 4 => j + 2 \in 1..l
      BY SMT, <2>2
    <3>2. \A i \in 1..l : c[i] \in Nat
      <4>1. Bytes \subseteq Nat
        BY SMT DEF Bytes
      <4>2. QED BY <1>1, <4>1, ElementOfSeq DEF Delimited
    <3>3. QED BY <3>1, <3>2
  <2>5. ~(j < 4 /\ c[j + 2] < 128)
    <3>1. \A x \in Nat : ~(x >= 128 /\ x < 128)
      BY SMT
    <3>2. QED BY <2>3, <2>4, <3>1
  <2>6. QED BY <1>1, <1>2, <2>2, <2>5
<1>3. ASSUME NEW k \in 1..4, Framed(c, k)
      PROVE  /\ j + 2 <= Len(c)
             /\ j = 4 => Endless(c)
             /\ j < 4 /\ c[j + 2] < 128 => Framed(c, j + 1)
  <2>1. 1 + k <= l /\ c[1 + k] < 128 /\ \A i \in 1..k - 1 : c[1 + i] >= 128
    BY <1>1, <1>3 DEF Framed, EndsWith
  <2>2. \A i \in 1..l : c[i] \in Nat
    <3>1. Bytes \subseteq Nat
      BY SMT DEF Bytes
    <3>2. QED BY <1>1, <3>1, ElementOfSeq DEF Delimited
  <2>3. c[1 + k] \in Nat
    <3>1. 1 + k \in 1..l
      BY SMT, <2>1
    <3>2. QED BY <2>2, <3>1
  <2>4. ~(1 + k \in 2..j + 1)
    <3>1. \A x \in Nat : ~(x >= 128 /\ x < 128)
      BY SMT
    <3>2. QED BY <2>1, <2>3, <3>1
  <2>5. k > j /\ j < 4 /\ j + 2 <= l
    BY SMT, <2>1, <2>4
  <2>6. ASSUME c[j + 2] < 128
        PROVE  Framed(c, j + 1)
    <3>1. c[j + 2] \in Nat
      <4>1. j + 2 \in 1..l
        BY SMT, <2>5
      <4>2. QED BY <2>2, <4>1
    <3>2. k > j + 1 => j + 1 \in 1..k - 1 /\ 1 + (j + 1) = j + 2
      BY SMT
    <3>3. ~(k > j + 1)
      <4>1. \A x \in Nat : ~(x >= 128 /\ x < 128)
        BY SMT
      <4>2. QED BY <2>1, <2>6, <3>1, <3>2, <4>1
    <3>4. k = j + 1
      BY SMT, <2>5, <3>3
    <3>5. QED BY <1>3, <3>4
  <2>7. j # 4
    BY SMT, <2>5
  <2>8. QED BY <1>1, <2>5, <2>6, <2>7
<1>4. QED BY <1>2, <1>3 DEF Delimited

LEMMA VarintIsNat ==
  ASSUME NEW c \in Seq(Bytes), NEW k \in 0..4, k + 1 <= Len(c)
  PROVE  VarintValue(c, 1, k) \in Nat
<1> DEFINE Part(i) == IF i <= k THEN (c[1 + i] % 128) * Weight[i] ELSE 0
<1>1. VarintValue(c, 1, k) = Part(1) + Part(2) + Part(3) + Part(4)
  BY DEF VarintValue
<1>2. PICK l \in Nat : l = Len(c) /\ k + 1 <= l
  BY LenProperties
<1>3. ASSUME NEW i \in 1..4, i <= k
      PROVE  c[1 + i] % 128 \in 0..127
  <2>1. 1 + i \in 1..l
    BY SMT, <1>2, <1>3
  <2>2. c[1 + i] \in Bytes
    BY <1>2, <2>1, ElementOfSeq
  <2>3. QED BY <2>2, DigitOfByte
<1>4. /\ Weight[1] = 1 /\ Weight[2] = 128 /\ Weight[3] = 16384 /\ Weight[4] = 2097152
  BY DEF Weight
<1>5. \A i \in 1..4 : Part(i) \in Nat
  <2>1. ASSUME NEW i \in 1..4
        PROVE  Part(i) \in Nat
    <3>1. CASE i <= k
      <4>1. PICK d \in 0..127 : d = c[1 + i] % 128
        BY <1>3, <3>1
      <4>2. Part(i) = d * Weight[i]
        BY <3>1, <4>1
      <4>3. d * 1 \in Nat /\ d * 128 \in Nat /\ d * 16384 \in Nat /\ d * 2097152 \in Nat
        BY SMT
      <4>4. i = 1 \/ i = 2 \/ i = 3 \/ i = 4
        BY SMT
      <4>5. d * Weight[i] \in Nat
        BY <1>4, <4>3, <4>4
      <4>6. QED BY <4>2, <4>5
    <3>2. CASE ~(i <= k)
      BY SMT, <3>2
    <3>3. QED BY <3>1, <3>2
  <2>2. QED BY <2>1
<1>6. Part(1) \in Nat /\ Part(2) \in Nat /\ Part(3) \in Nat /\ Part(4) \in Nat
  <2>1. 1 \in 1..4 /\ 2 \in 1..4 /\ 3 \in 1..4 /\ 4 \in 1..4
    BY SMT
  <2> HIDE DEF Part
  <2>2. QED BY <1>5, <2>1
<1> HIDE DEF Part
<1>7. QED BY SMT, <1>1, <1>6

LEMMA TopBitOrNot == \A x \in Bytes : ~(x < 128) => x >= 128
  BY SMT DEF Bytes

\* ReadLength: one digit.
LEMMA DigitTaken ==
  ASSUME NEW c, Delimited(c), NEW rest \in Seq(Bytes), NEW in, NEW w,
         Started(c, in, w, rest), in.count <= 0,
         NEW next,
         next = [in EXCEPT
                   !.count = IF Head(w) < 128 THEN -(in.count - 1) ELSE in.count - 1,
                   !.length = in.length + (Head(w) % 128) * in.mult,
                   !.mult = @ * 128,
                   !.toProcess = IF Head(w) < 128 THEN in.length + (Head(w) % 128) * in.mult
                                 ELSE @]
  PROVE  /\ in.count - 1 < -4 => Endless(c)
         /\ ~(in.count - 1 < -4) => Started(c, next, Tail(w), rest)
<1>1. PICK j \in 0..4 : /\ j + 1 <= Len(c) /\ \A i \in 2..j + 1 : c[i] >= 128
                        /\ in = InLength(c, j) /\ w = From(c, j + 1) \o rest
  <2>1. ASSUME NEW k \in 1..4, NEW n, in = InPayload(c, k, n)
        PROVE  FALSE
    <3>1. in.count = k
      BY <2>1 DEF InPayload
    <3>2. ~(k <= 0)
      BY SMT
    <3>3. QED BY <3>1, <3>2
  <2>2. QED BY <2>1 DEF Started
<1>2. /\ in.count = 0 - j /\ in.length = VarintValue(c, 1, j) /\ in.mult = Weight[j + 1]
  BY <1>1 DEF InLength
<1>3. /\ j + 2 <= Len(c)
      /\ j = 4 => Endless(c)
      /\ j < 4 /\ c[j + 2] < 128 => Framed(c, j + 1)
  BY <1>1, DigitsToCome
<1>4. in.count - 1 < -4 <=> j = 4
  BY SMT, <1>2
<1>5. PICK l \in Nat : l = Len(c) /\ j + 2 <= l
  BY <1>3, LenProperties DEF Delimited
<1>6. c \in Seq(Bytes)
  BY DEF Delimited
<1>7. j + 1 \in Nat /\ j + 1 + 1 <= l /\ j + 1 + 1 = j + 2
  BY SMT, <1>5
<1>8. j + 1 + 1 <= Len(c)
  BY <1>5, <1>7
<1>9. Nexts(c, j + 1, w, rest)
  BY <1>1, <1>6, <1>7, <1>8, NextByte
<1>10. Head(w) = c[j + 2] /\ Tail(w) = From(c, j + 2) \o rest
  BY <1>7, <1>9 DEF Nexts
<1>11. ASSUME j # 4
       PROVE  Started(c, next, Tail(w), rest)
  <2>1. j \in 0..3 /\ j < 4
    BY SMT, <1>11
  <2>2. /\ VarintValue(c, 1, j) + (c[j + 2] % 128) * Weight[j + 1] = VarintValue(c, 1, j + 1)
        /\ Weight[j + 1] * 128 = Weight[j + 2]
    BY <1>3, <1>6, <2>1, NextDigit
  <2>3. next = [in EXCEPT
                   !.count = IF c[j + 2] < 128 THEN -(in.count - 1) ELSE in.count - 1,
                   !.length = VarintValue(c, 1, j + 1),
                   !.mult = in.mult * 128,
                   !.toProcess = IF c[j + 2] < 128 THEN VarintValue(c, 1, j + 1) ELSE 0]
    <3>1. in.length + (Head(w) % 128) * in.mult = VarintValue(c, 1, j + 1)
      BY <1>2, <1>10, <2>2
    <3>2. in.toProcess = 0
      BY <1>1 DEF InLength
    <3>3. next = [in EXCEPT
                   !.count = IF Head(w) < 128 THEN -(in.count - 1) ELSE in.count - 1,
                   !.length = VarintValue(c, 1, j + 1),
                   !.mult = in.mult * 128,
                   !.toProcess = IF Head(w) < 128 THEN VarintValue(c, 1, j + 1) ELSE 0]
      BY <3>1, <3>2, Zenon
    <3>4. QED BY <1>10, <3>3, Zenon
  <2>4. in.count - 1 = 0 - (j + 1) /\ -(in.count - 1) = j + 1 /\ in.mult * 128 = Weight[j + 1 + 1]
    BY SMT, <1>2, <2>2
  <2>5. CASE c[j + 2] < 128
    <3>1. Framed(c, j + 1) /\ j + 1 \in 1..4
      BY SMT, <1>3, <2>1, <2>5
    <3>2. next = [command |-> c[1], count |-> j + 1, mult |-> Weight[j + 1 + 1],
                  length |-> VarintValue(c, 1, j + 1), toProcess |-> VarintValue(c, 1, j + 1),
                  payload |-> <<>>]
      BY ZenonT(60), <1>1, <2>3, <2>4, <2>5 DEF InLength
    <3>3. PICK v \in Nat : v = VarintValue(c, 1, j + 1)
      <4>1. j + 1 \in 0..4 /\ j + 1 + 1 <= Len(c)
        BY SMT, <1>5, <2>1
      <4>2. VarintValue(c, 1, j + 1) \in Nat
        BY <1>6, <4>1, VarintIsNat
      <4>3. QED BY <4>2
    <3>4. v - 0 = v /\ 0 \in 0..v
      BY SMT
    <3>5. SubSeq(c, j + 1 + 2, j + 1 + 1 + 0) = <<>>
      <4>1. j + 1 + 2 \in Int /\ j + 1 + 1 + 0 \in Int /\ j + 1 + 1 + 0 < j + 1 + 2
        BY SMT
      <4>2. QED BY <4>1, SubSeqEmpty
    <3>6. next = InPayload(c, j + 1, 0)
      BY <3>2, <3>3, <3>4, <3>5 DEF InPayload
    <3>7. j + 1 + 1 + 0 = j + 2
      BY SMT
    <3>8. Tail(w) = From(c, j + 1 + 1 + 0) \o rest
      BY <1>10, <3>7
    <3>9. QED BY <3>1, <3>3, <3>4, <3>6, <3>8 DEF Started
  <2>6. CASE ~(c[j + 2] < 128)
    <3>1. next = [command |-> c[1], count |-> 0 - (j + 1), mult |-> Weight[j + 1 + 1],
                  length |-> VarintValue(c, 1, j + 1), toProcess |-> 0, payload |-> <<>>]
      BY ZenonT(60), <1>1, <2>3, <2>4, <2>6 DEF InLength
    <3>2. next = InLength(c, j + 1)
      BY <3>1 DEF InLength
    <3>3. j + 1 \in 0..4 /\ j + 1 + 1 = j + 2 /\ j + 1 + 1 <= Len(c) /\ j + 2 \in 1..l
      BY SMT, <1>5, <2>1
    <3>4. c[j + 2] \in Bytes
      BY <1>5, <1>6, <3>3, ElementOfSeq
    <3>5. c[j + 2] >= 128
      BY <2>6, <3>4, TopBitOrNot
    <3>6. \A i \in 2..j + 1 + 1 : i \in 2..j + 1 \/ i = j + 2
      BY SMT
    <3>7. \A i \in 2..j + 1 + 1 : c[i] >= 128
      BY <1>1, <3>5, <3>6
    <3>8. Tail(w) = From(c, j + 1 + 1) \o rest
      BY <1>10, <3>3
    <3>9. QED BY <3>2, <3>3, <3>7, <3>8 DEF Started
  <2>7. QED BY <2>5, <2>6
<1>12. QED BY <1>3, <1>4, <1>11

\* The places of a piece of n bytes in a packet of l with a payload of v, of which m have been
\* read.
LEMMA PiecePlaces ==
  ASSUME NEW k \in Nat, NEW l \in Nat, NEW v \in Nat, l = 1 + k + v,
         NEW m \in 0..v, NEW n \in Nat, n <= v - m
  PROVE  /\ m + n \in 0..v /\ k + 1 + m \in Nat /\ k + 1 + m + n <= l
         /\ v - m - n = v - (m + n) /\ k + 1 + (m + n) = k + 1 + m + n
         /\ k + 2 \in 1..l + 1 /\ k + 1 + m \in (k + 2) - 1..l
         /\ k + 1 + m + n \in k + 1 + m..l
  BY SMT

\* ReadPayload: n bytes of the payload, which are there.
LEMMA PayloadTaken ==
  ASSUME NEW c, Delimited(c), NEW rest \in Seq(Bytes), NEW in, NEW w,
         Started(c, in, w, rest), in.count > 0, NEW n \in Nat, n <= in.toProcess,
         NEW next,
         next = [in EXCEPT !.payload = @ \o SubSeq(w, 1, n), !.toProcess = @ - n]
  PROVE  Started(c, next, SubSeq(w, n + 1, Len(w)), rest)
<1>1. PICK k, m :
        /\ k \in 1..4 /\ m \in 0..VarintValue(c, 1, k)
        /\ Framed(c, k)
        /\ in = InPayload(c, k, m) /\ w = From(c, k + 1 + m) \o rest
  <2>1. ASSUME NEW j \in 0..4, in = InLength(c, j)
        PROVE  FALSE
    <3>1. in.count = 0 - j
      BY <2>1 DEF InLength
    <3>2. ~(0 - j > 0)
      BY SMT
    <3>3. QED BY <3>1, <3>2
  <2>2. QED BY <2>1 DEF Started
<1>14. k \in 1..4 /\ m \in 0..VarintValue(c, 1, k)
  BY <1>1
<1>2. PICK l \in Nat : l = Len(c) /\ c \in Seq(Bytes)
  BY LenProperties DEF Delimited
<1>3. PICK v \in Nat : v = VarintValue(c, 1, k) /\ l = 1 + k + v
  <2>1. Len(c) = 1 + k + VarintValue(c, 1, k) /\ 1 + k <= Len(c)
    BY <1>1 DEF Framed, EndsWith
  <2>2. k \in 0..4 /\ k + 1 <= l
    BY SMT, <1>14, <1>2, <2>1
  <2>3. VarintValue(c, 1, k) \in Nat
    BY <1>2, <2>2, VarintIsNat
  <2>4. QED BY <1>2, <2>1, <2>3
<1>4. /\ in.toProcess = v - m /\ in.payload = SubSeq(c, k + 2, k + 1 + m)
      /\ in.count = k /\ in.command = c[1] /\ in.mult = Weight[k + 1] /\ in.length = v
  BY <1>1, <1>3 DEF InPayload
<1>5. /\ m \in 0..v /\ m + n \in 0..v /\ k + 1 + m \in Nat /\ k + 1 + m + n <= l
      /\ v - m - n = v - (m + n) /\ k + 1 + (m + n) = k + 1 + m + n
      /\ k + 2 \in 1..l + 1 /\ k + 1 + m \in (k + 2) - 1..l
      /\ k + 1 + m + n \in k + 1 + m..l
  <2>1. m \in 0..v /\ n <= v - m /\ k \in Nat
    BY <1>1, <1>3, <1>4
  <2>2. QED BY <1>3, <2>1, PiecePlaces
<1> DEFINE x == SubSeq(c, k + 1 + m + 1, k + 1 + m + n)
           y == From(c, k + 1 + m + n)
<1>6. From(c, k + 1 + m) = x \o y /\ x \in Seq(Bytes) /\ Len(x) = n /\ y \in Seq(Bytes)
  <2>1. k + 1 + m + n <= Len(c)
    BY <1>2, <1>5
  <2>2. Cut(Bytes, c, k + 1 + m, n, x)
    BY <1>2, <1>5, <2>1, PieceOff
  <2>3. QED BY <2>2 DEF Cut
<1>7. SubSeq(c, k + 2, k + 1 + m) \o x = SubSeq(c, k + 2, k + 1 + m + n)
  <2> DEFINE a == k + 2
             b == k + 1 + m
             e == k + 1 + m + n
  <2>1. a \in 1..Len(c) + 1 /\ b \in a - 1..Len(c) /\ e \in b..Len(c)
    <3>1. a \in 1..l + 1 /\ b \in a - 1..l /\ e \in b..l
      BY <1>5
    <3> HIDE DEF a, b, e
    <3>2. QED BY <1>2, <3>1
  <2> HIDE DEF a, b, e
  <2>2. SubSeq(c, a, b) \o SubSeq(c, b + 1, e) = SubSeq(c, a, e)
    BY <1>2, <2>1, ConcatAdjacentSubSeq
  <2>3. QED BY <2>2 DEF a, b, e, x
<1> HIDE DEF x, y
<1>8. w = x \o (y \o rest) /\ y \o rest \in Seq(Bytes)
  <2>1. (x \o y) \o rest = x \o (y \o rest)
    BY <1>6, ConcatAssociative
  <2>2. y \o rest \in Seq(Bytes)
    BY <1>6, Together
  <2>3. QED BY <1>1, <1>6, <2>1, <2>2
<1> DEFINE r == y \o rest
<1>9. SubSeq(w, 1, n) = x /\ SubSeq(w, n + 1, Len(w)) = r
  <2>1. w = x \o r /\ r \in Seq(Bytes)
    BY <1>8
  <2> HIDE DEF r
  <2>2. SubSeq(w, 1, Len(x)) = x /\ SubSeq(w, Len(x) + 1, Len(w)) = r
    BY SMTT(30), <1>6, <2>1, FrontOff
  <2>3. QED BY <1>6, <2>2
<1>10. next = InPayload(c, k, m + n)
  <2>1. in.payload \o x = SubSeq(c, k + 2, k + 1 + (m + n))
    BY <1>4, <1>5, <1>7
  <2>2. in.toProcess - n = VarintValue(c, 1, k) - (m + n)
    BY <1>3, <1>4, <1>5
  <2>3. next = [in EXCEPT !.payload = SubSeq(c, k + 2, k + 1 + (m + n)),
                          !.toProcess = VarintValue(c, 1, k) - (m + n)]
    BY <1>9, <2>1, <2>2, Zenon
  <2>4. QED BY <1>1, <2>3 DEF InPayload
<1>11. SubSeq(w, n + 1, Len(w)) = From(c, k + 1 + (m + n)) \o rest
  BY <1>5, <1>9 DEF r, y
<1>12. m + n \in 0..VarintValue(c, 1, k)
  BY <1>3, <1>5
<1>13. QED BY <1>1, <1>10, <1>11, <1>12 DEF Started

\* Handle: the payload is whole, and behind it is what follows.
LEMMA PayloadWhole ==
  ASSUME NEW c, Delimited(c), NEW rest \in Seq(Bytes), NEW in, NEW w,
         Started(c, in, w, rest), in.count > 0, in.toProcess = 0
  PROVE  /\ in.command = c[1] /\ w = rest
         /\ \E k \in 1..4 : Framed(c, k) /\ in.payload = SubSeq(c, k + 2, Len(c))
<1>1. PICK k, m :
        /\ k \in 1..4 /\ m \in 0..VarintValue(c, 1, k)
        /\ Framed(c, k)
        /\ in = InPayload(c, k, m) /\ w = From(c, k + 1 + m) \o rest
  <2>1. ASSUME NEW j \in 0..4, in = InLength(c, j)
        PROVE  FALSE
    <3>1. in.count = 0 - j
      BY <2>1 DEF InLength
    <3>2. ~(0 - j > 0)
      BY SMT
    <3>3. QED BY <3>1, <3>2
  <2>2. QED BY <2>1 DEF Started
<1>14. k \in 1..4 /\ m \in 0..VarintValue(c, 1, k)
  BY <1>1
<1>2. PICK l \in Nat : l = Len(c) /\ c \in Seq(Bytes)
  BY LenProperties DEF Delimited
<1>3. PICK v \in Nat : v = VarintValue(c, 1, k) /\ l = 1 + k + v
  <2>1. Len(c) = 1 + k + VarintValue(c, 1, k) /\ 1 + k <= Len(c)
    BY <1>1 DEF Framed, EndsWith
  <2>2. k \in 0..4 /\ k + 1 <= l
    BY SMT, <1>14, <1>2, <2>1
  <2>3. VarintValue(c, 1, k) \in Nat
    BY <1>2, <2>2, VarintIsNat
  <2>4. QED BY <1>2, <2>1, <2>3
<1>4. /\ in.toProcess = v - m /\ in.payload = SubSeq(c, k + 2, k + 1 + m) /\ in.command = c[1]
  BY <1>1, <1>3 DEF InPayload
<1>5. k + 1 + m = l
  <2>1. m \in 0..v /\ v - m = 0
    BY <1>1, <1>3, <1>4
  <2>2. QED BY SMT, <1>14, <1>3, <2>1
<1>6. in.payload = SubSeq(c, k + 2, Len(c))
  BY <1>2, <1>4, <1>5
<1>7. From(c, k + 1 + m) = <<>>
  <2>1. l + 1 \in Int /\ l \in Int /\ l < l + 1
    BY SMT
  <2>2. SubSeq(c, l + 1, l) = <<>>
    BY <2>1, SubSeqEmpty
  <2>3. QED BY <1>2, <1>5, <2>2 DEF From
<1>8. w = rest
  BY <1>1, <1>7, ConcatEmptySeq
<1>9. QED BY <1>1, <1>4, <1>6, <1>8

-----------------------------------------------------------------------------
(* The inductive invariant                                                 *)

\* The packets that a broker can have sent.
Sendable == Publication \cup {b.packet : b \in Greetings \cup BrokerPackets}

\* R[i] are the bytes of the packets of s behind the i-th.
Rests(v, s, R) ==
  /\ R \in [0..Len(s) -> Seq(Bytes)] /\ R[Len(s)] = <<>>
  /\ \A i \in 1..Len(s) : R[i - 1] = BytesOf(v, s[i]) \o R[i]

\* Of the packets s, h have been read.  Between packets w are the bytes of the others; otherwise
\* the next has been read into in as far as w does not have it.
Under(v, s, h, in, w, R) ==
  IF in.command = 0 THEN in = NoPacket /\ w = R[h]
  ELSE h < Len(s) /\ Started(BytesOf(v, s[h + 1]), in, w, R[h + 1])

Stream(v, s, h, in, w) == \E R : Rests(v, s, R) /\ Under(v, s, h, in, w, R)

Typed ==
  /\ version \in Versions /\ HandleTyped(mosq) /\ conns \in Nat
  /\ conns > 0 => mosq.protocol = version
  /\ sock => conns > 0 /\ failure = "none"

Settled ==
  /\ sent \in Seq(Sendable) /\ \A i \in 1..Len(sent) : Proper(version, sent[i])
  /\ handled \in Seq(Sendable) /\ Len(handled) <= Len(sent)
  /\ \A i \in 1..Len(handled) : handled[i] = sent[i]

Underway == sock => Stream(version, sent, Len(handled), incoming, wire)

\* The reader has closed the connection over a packet that is unwelcome, or over a CONNACK that
\* refuses it.
Blamed ==
  \/ Len(handled) < Len(sent) /\ Unwelcome(sent[Len(handled) + 1])
  \/ handled # <<>> /\ Last(handled).kind = "CONNACK" /\ Last(handled).reason # 0
Blame == failure # "none" => ~sock /\ conns > 0 /\ Blamed

IInv == Typed /\ Settled /\ Underway /\ Blame

-----------------------------------------------------------------------------
(* What the client reads, step by step                                     *)

\* A packet that a broker can have sent is taken apart by its length.
LEMMA ProperDelimited ==
  ASSUME NEW v, NEW p, Proper(v, p)
  PROVE  Delimited(BytesOf(v, p))
  BY DEF Proper, Understood, Delimited

LEMMA TopBitOnce == \A x \in Bytes : ~(x < 128 /\ x >= 128)
  BY SMT DEF Bytes

\* A length of five digits has no end, and one that ends does so once.
LEMMA EndlessUnframed ==
  ASSUME NEW c \in Seq(Bytes), Endless(c), NEW k \in 1..4
  PROVE  ~Framed(c, k)
<1>1. PICK l \in Nat : l = Len(c)
  BY LenProperties
<1>2. ASSUME Framed(c, k)
      PROVE  FALSE
  <2>1. 1 + k <= l /\ c[1 + k] < 128
    BY <1>1, <1>2 DEF Framed, EndsWith
  <2>2. 1 + k \in 2..5
    BY SMT
  <2>3. 1 + k \in 1..l
    BY SMT, <2>1
  <2>4. c[1 + k] \in Bytes
    BY <1>1, <2>3, ElementOfSeq
  <2>5. c[1 + k] >= 128
    BY <2>2 DEF Endless
  <2>6. QED BY <2>1, <2>4, <2>5, TopBitOnce
<1>3. QED BY <1>2

LEMMA FramedOnce ==
  ASSUME NEW c \in Seq(Bytes), NEW j \in 1..4, NEW k \in 1..4, Framed(c, j), Framed(c, k)
  PROVE  j = k
<1>1. PICK l \in Nat : l = Len(c)
  BY LenProperties
<1>2. ASSUME NEW i \in 1..4, NEW m \in 1..4, Framed(c, i), Framed(c, m), i < m
      PROVE  FALSE
  <2>1. 1 + i <= l /\ c[1 + i] < 128 /\ \A n \in 1..m - 1 : c[1 + n] >= 128
    BY <1>1, <1>2 DEF Framed, EndsWith
  <2>2. 1 + i \in 1..l /\ i \in 1..m - 1
    BY SMT, <1>2, <2>1
  <2>3. c[1 + i] \in Bytes /\ c[1 + i] >= 128
    BY <1>1, <2>1, <2>2, ElementOfSeq
  <2>4. QED BY <2>1, <2>3, TopBitOnce
<1>3. ~(j < k) /\ ~(k < j)
  BY <1>2
<1>4. QED BY SMT, <1>3

\* Only a malformed one goes on for ever.
LEMMA EndlessIsRaw ==
  ASSUME NEW v, NEW p, Proper(v, p), Endless(BytesOf(v, p))
  PROVE  p.kind = "raw"
<1>1. BytesOf(v, p) \in Seq(Bytes)
  BY DEF Proper, Understood
<1>2. QED BY <1>1, EndlessUnframed DEF Proper, Understood

\* Nothing has been sent on a connection that has just been opened.
LEMMA NothingSent ==
  ASSUME NEW v
  PROVE  Stream(v, <<>>, 0, NoPacket, <<>>)
<1> DEFINE R == [i \in 0..0 |-> <<>>]
<1>1. Len(<<>>) = 0 /\ <<>> \in Seq(Bytes) /\ 0 \in 0..0 /\ 1..0 = {}
  BY SMT, EmptySeq
<1>2. R \in [0..0 -> Seq(Bytes)] /\ R[0] = <<>>
  BY <1>1
<1> HIDE DEF R
<1>3. Rests(v, <<>>, R)
  BY <1>1, <1>2 DEF Rests
<1>4. Under(v, <<>>, 0, NoPacket, <<>>, R)
  BY <1>2 DEF Under, NoPacket
<1>5. QED BY <1>3, <1>4 DEF Stream

\* A packet more behind the others.
LEMMA MoreSent ==
  ASSUME NEW v, NEW s \in Seq(Sendable), \A i \in 1..Len(s) : Proper(v, s[i]),
         NEW p \in Sendable, Proper(v, p),
         NEW h \in Nat, h <= Len(s), NEW in, in.command = 0, NEW w, Stream(v, s, h, in, w)
  PROVE  Stream(v, Append(s, p), h, in, w \o BytesOf(v, p))
<1>1. PICK R : Rests(v, s, R) /\ Under(v, s, h, in, w, R)
  BY DEF Stream
<1>2. PICK n \in Nat : n = Len(s) /\ h <= n
  BY LenProperties
<1> DEFINE t == Append(s, p)
           x == BytesOf(v, p)
<1>3. Len(t) = n + 1 /\ t[n + 1] = p /\ \A i \in 1..n : t[i] = s[i]
  BY <1>2, AppendProperties
<1>4. x \in Seq(Bytes)
  BY ProperDelimited DEF Delimited
<1>5. /\ R \in [0..n -> Seq(Bytes)] /\ R[n] = <<>>
      /\ \A i \in 1..n : R[i - 1] = BytesOf(v, s[i]) \o R[i]
  BY <1>1, <1>2 DEF Rests
<1> HIDE DEF t, x
<1> DEFINE Q == [i \in 0..n + 1 |-> IF i <= n THEN R[i] \o x ELSE <<>>]
<1>6. /\ \A i \in 0..n : i \in 0..n + 1 /\ i <= n
      /\ n + 1 \in 0..n + 1 /\ ~(n + 1 <= n) /\ n \in 0..n /\ (n + 1) - 1 = n
      /\ \A i \in 1..n : i \in 0..n /\ i - 1 \in 0..n
      /\ \A i \in 1..n + 1 : i \in 1..n \/ i = n + 1
      /\ h \in 0..n
  BY SMT, <1>2
<1>7. (\A i \in 0..n : Q[i] = R[i] \o x) /\ Q[n + 1] = <<>>
  BY <1>6
<1>8. Q \in [0..n + 1 -> Seq(Bytes)]
  <2>1. ASSUME NEW i \in 0..n + 1, i <= n
        PROVE  R[i] \o x \in Seq(Bytes)
    <3>1. i \in 0..n
      BY SMT, <2>1
    <3>2. R[i] \in Seq(Bytes)
      BY <1>5, <3>1
    <3>3. QED BY <1>4, <3>2, Together
  <2>2. <<>> \in Seq(Bytes)
    BY EmptySeq
  <2>3. QED BY <2>1, <2>2
<1> HIDE DEF Q
<1>9. ASSUME NEW i \in 1..n + 1
      PROVE  Q[i - 1] = BytesOf(v, t[i]) \o Q[i]
  <2>1. CASE i \in 1..n
    <3>1. Q[i - 1] = R[i - 1] \o x /\ Q[i] = R[i] \o x
      BY <1>6, <1>7, <2>1
    <3>2. R[i - 1] = BytesOf(v, s[i]) \o R[i] /\ t[i] = s[i]
      BY <1>3, <1>5, <2>1
    <3>3. R[i] \in Seq(Bytes)
      BY <1>5, <1>6, <2>1
    <3>4. BytesOf(v, s[i]) \in Seq(Bytes)
      BY <1>2, <2>1, ProperDelimited DEF Delimited
    <3>5. (BytesOf(v, s[i]) \o R[i]) \o x = BytesOf(v, s[i]) \o (R[i] \o x)
      <4>1. PICK a \in Seq(Bytes), b \in Seq(Bytes) : a = BytesOf(v, s[i]) /\ b = R[i]
        BY <3>3, <3>4
      <4>2. (a \o b) \o x = a \o (b \o x)
        BY <1>4, ConcatAssociative
      <4>3. QED BY <4>1, <4>2
    <3>6. QED BY <3>1, <3>2, <3>5
  <2>2. CASE i = n + 1
    <3>1. Q[i - 1] = R[n] \o x /\ Q[i] = <<>>
      BY <1>6, <1>7, <2>2
    <3>2. R[n] \o x = x /\ x \o <<>> = x
      BY <1>4, <1>5, ConcatEmptySeq
    <3>3. QED BY <1>3, <2>2, <3>1, <3>2 DEF x
  <2>3. QED BY <1>6, <2>1, <2>2
<1>10. Rests(v, t, Q)
  BY <1>3, <1>7, <1>8, <1>9 DEF Rests
<1>11. in = NoPacket /\ w = R[h]
  BY <1>1 DEF Under
<1>12. Under(v, t, h, in, w \o x, Q)
  BY <1>6, <1>7, <1>11 DEF Under
<1>13. QED BY <1>10, <1>12 DEF Stream, t, x

\* The next packet of those that have been sent, and the bytes behind it.
NextIs(v, s, h, R) ==
  /\ R[h] = BytesOf(v, s[h + 1]) \o R[h + 1] /\ R[h + 1] \in Seq(Bytes)
  /\ Proper(v, s[h + 1]) /\ Delimited(BytesOf(v, s[h + 1]))

LEMMA NextPacket ==
  ASSUME NEW v, NEW s, \A i \in 1..Len(s) : Proper(v, s[i]), Len(s) \in Nat,
         NEW h \in Nat, h < Len(s), NEW R, Rests(v, s, R)
  PROVE  NextIs(v, s, h, R)
<1>1. PICK n \in Nat : n = Len(s) /\ h < n
  OBVIOUS
<1>2. h + 1 \in 1..n /\ h + 1 \in 0..n /\ (h + 1) - 1 = h
  BY SMT, <1>1
<1>3. /\ R \in [0..n -> Seq(Bytes)]
      /\ \A i \in 1..n : R[i - 1] = BytesOf(v, s[i]) \o R[i]
  BY <1>1 DEF Rests
<1>4. R[(h + 1) - 1] = BytesOf(v, s[h + 1]) \o R[h + 1] /\ R[h + 1] \in Seq(Bytes)
  BY <1>2, <1>3
<1>5. Proper(v, s[h + 1])
  BY <1>1, <1>2
<1>6. QED BY <1>2, <1>4, <1>5, ProperDelimited DEF NextIs

\* ReadCommand.
LEMMA StreamCommand ==
  ASSUME NEW v, NEW s, \A i \in 1..Len(s) : Proper(v, s[i]), Len(s) \in Nat,
         NEW h \in Nat, h <= Len(s), NEW in, NEW w, Stream(v, s, h, in, w),
         in.command = 0, w # <<>>
  PROVE  Stream(v, s, h, [in EXCEPT !.command = Head(w)], Tail(w))
<1>1. PICK R : Rests(v, s, R) /\ in = NoPacket /\ w = R[h]
  BY DEF Stream, Under
<1>2. h < Len(s)
  <2>1. R[Len(s)] = <<>>
    BY <1>1 DEF Rests
  <2>2. h # Len(s)
    BY <1>1, <2>1
  <2>3. PICK n \in Nat : n = Len(s)
    OBVIOUS
  <2>4. h < n
    BY SMT, <2>2, <2>3
  <2>5. QED BY <2>3, <2>4
<1> DEFINE c == BytesOf(v, s[h + 1])
           next == [NoPacket EXCEPT !.command = Head(w)]
<1>3. w = c \o R[h + 1] /\ R[h + 1] \in Seq(Bytes) /\ Delimited(c)
  <2>1. /\ R[h] = BytesOf(v, s[h + 1]) \o R[h + 1] /\ R[h + 1] \in Seq(Bytes)
        /\ Proper(v, s[h + 1]) /\ Delimited(BytesOf(v, s[h + 1]))
    BY <1>1, <1>2, NextPacket DEF NextIs
  <2>2. QED BY <1>1, <2>1
<1>4. Head(w) = c[1] /\ Started(c, next, Tail(w), R[h + 1])
  BY <1>3, CommandTaken
<1>5. next.command = c[1]
  BY <1>4 DEF NoPacket
<1>6. c[1] # 0
  BY <1>3 DEF Delimited
<1> HIDE DEF c, next
<1>7. Under(v, s, h, next, Tail(w), R)
  BY <1>2, <1>4, <1>5, <1>6 DEF Under, c
<1>8. Stream(v, s, h, next, Tail(w))
  BY <1>1, <1>7 DEF Stream
<1>9. QED BY <1>1, <1>8 DEF next

\* What is being read.
LEMMA StreamStarted ==
  ASSUME NEW v, NEW s, \A i \in 1..Len(s) : Proper(v, s[i]), Len(s) \in Nat,
         NEW h \in Nat, h <= Len(s), NEW in, NEW w, Stream(v, s, h, in, w), in.command # 0
  PROVE  \E R :
           LET c == BytesOf(v, s[h + 1]) IN
           /\ Rests(v, s, R) /\ h < Len(s) /\ R[h + 1] \in Seq(Bytes)
           /\ Delimited(c) /\ Proper(v, s[h + 1]) /\ Started(c, in, w, R[h + 1])
<1>1. PICK R : /\ Rests(v, s, R) /\ h < Len(s)
               /\ Started(BytesOf(v, s[h + 1]), in, w, R[h + 1])
  BY DEF Stream, Under
<1>2. R[h + 1] \in Seq(Bytes) /\ Proper(v, s[h + 1]) /\ Delimited(BytesOf(v, s[h + 1]))
  BY <1>1, NextPacket DEF NextIs
<1>3. QED BY <1>1, <1>2

\* ReadLength.
LengthRead(in, byte) ==
  [in EXCEPT
     !.count = IF byte < 128 THEN -(in.count - 1) ELSE in.count - 1,
     !.length = in.length + (byte % 128) * in.mult,
     !.mult = @ * 128,
     !.toProcess = IF byte < 128 THEN in.length + (byte % 128) * in.mult ELSE @]

DigitRead(v, s, h, in, w, next) ==
  IF in.count - 1 < -4 THEN h < Len(s) /\ s[h + 1].kind = "raw"
  ELSE Stream(v, s, h, next, Tail(w))

LEMMA StreamLength ==
  ASSUME NEW v, NEW s, \A i \in 1..Len(s) : Proper(v, s[i]), Len(s) \in Nat,
         NEW h \in Nat, h <= Len(s), NEW in, NEW w, Stream(v, s, h, in, w),
         in.command # 0, in.count <= 0,
         NEW next, next = LengthRead(in, Head(w))
  PROVE  DigitRead(v, s, h, in, w, next)
<1> DEFINE c == BytesOf(v, s[h + 1])
<1>1. PICK R : /\ Rests(v, s, R) /\ h < Len(s) /\ R[h + 1] \in Seq(Bytes)
               /\ Delimited(c) /\ Proper(v, s[h + 1]) /\ Started(c, in, w, R[h + 1])
  BY StreamStarted
<1> DEFINE r == R[h + 1]
<1> HIDE DEF c, r
<1>2. Delimited(c) /\ r \in Seq(Bytes) /\ Started(c, in, w, r)
  BY <1>1 DEF r
<1>3. /\ in.count - 1 < -4 => Endless(c)
      /\ ~(in.count - 1 < -4) => Started(c, next, Tail(w), r)
  BY ZenonT(60), <1>2, DigitTaken DEF LengthRead
<1>4. next.command = in.command
  BY <1>2 DEF Started, InLength, InPayload, LengthRead
<1>5. ASSUME Started(c, next, Tail(w), r)
      PROVE  Stream(v, s, h, next, Tail(w))
  <2>1. Under(v, s, h, next, Tail(w), R)
    BY <1>1, <1>4, <1>5 DEF Under, c, r
  <2>2. QED BY <1>1, <2>1 DEF Stream
<1>6. Endless(c) => s[h + 1].kind = "raw"
  BY <1>1, EndlessIsRaw DEF c
<1>7. QED BY <1>1, <1>3, <1>5, <1>6 DEF DigitRead

\* ReadPayload.
LEMMA StreamPayload ==
  ASSUME NEW v, NEW s, \A i \in 1..Len(s) : Proper(v, s[i]), Len(s) \in Nat,
         NEW h \in Nat, h <= Len(s), NEW in, NEW w, Stream(v, s, h, in, w),
         in.count > 0, NEW n \in Nat, n <= in.toProcess,
         NEW next,
         next = [in EXCEPT !.payload = @ \o SubSeq(w, 1, n), !.toProcess = @ - n]
  PROVE  Stream(v, s, h, next, SubSeq(w, n + 1, Len(w)))
<1> DEFINE c == BytesOf(v, s[h + 1])
           y == SubSeq(w, n + 1, Len(w))
<1>1. in.command # 0
  <2>1. NoPacket.count = 0 /\ ~(0 > 0)
    BY SMT DEF NoPacket
  <2>2. in # NoPacket
    BY <2>1
  <2>3. QED BY <2>2 DEF Stream, Under
<1>2. PICK R : /\ Rests(v, s, R) /\ h < Len(s) /\ R[h + 1] \in Seq(Bytes)
               /\ Delimited(c) /\ Proper(v, s[h + 1]) /\ Started(c, in, w, R[h + 1])
  BY <1>1, StreamStarted
<1> DEFINE r == R[h + 1]
<1> HIDE DEF c, r
<1>3. Delimited(c) /\ r \in Seq(Bytes) /\ Started(c, in, w, r)
  BY <1>2 DEF r
<1>4. Started(c, next, y, r)
  BY <1>3, PayloadTaken, Zenon
<1>5. next.command = in.command
  BY <1>3 DEF Started, InLength, InPayload
<1>6. Under(v, s, h, next, y, R)
  BY <1>1, <1>2, <1>4, <1>5 DEF Under, c, r
<1>7. QED BY <1>2, <1>6 DEF Stream

\* Handle: the packet that was sent is decoded, or it is refused for what it is.
PacketRead(v, s, h, w, command, r) ==
  /\ h < Len(s) /\ Stream(v, s, h + 1, NoPacket, w)
  /\ Succeeds(r) => r.value = s[h + 1] /\ Acceptable(v, s[h + 1], command)
  /\ ~Succeeds(r) => s[h + 1].kind = "raw" \/ Odd(s[h + 1])

LEMMA StreamPacket ==
  ASSUME NEW v, NEW s, \A i \in 1..Len(s) : Proper(v, s[i]), Len(s) \in Nat,
         NEW h \in Nat, h <= Len(s), NEW in, NEW w, Stream(v, s, h, in, w),
         in.count > 0, in.toProcess = 0,
         NEW r, r = HandlePacket(v, in.command, in.payload)
  PROVE  PacketRead(v, s, h, w, in.command, r)
<1> DEFINE p == s[h + 1]
           c == BytesOf(v, p)
<1>1. in.command # 0
  <2>1. NoPacket.count = 0 /\ ~(0 > 0)
    BY SMT DEF NoPacket
  <2>2. in # NoPacket
    BY <2>1
  <2>3. QED BY <2>2 DEF Stream, Under
<1>2. PICK R : /\ Rests(v, s, R) /\ h < Len(s) /\ R[h + 1] \in Seq(Bytes)
               /\ Delimited(c) /\ Proper(v, p) /\ Started(c, in, w, R[h + 1])
  BY <1>1, StreamStarted
<1> DEFINE rest == R[h + 1]
<1>3. Understood(v, p, c)
  BY <1>2 DEF Proper
<1> HIDE DEF c, rest, p
<1>4. Delimited(c) /\ rest \in Seq(Bytes) /\ Started(c, in, w, rest)
  BY <1>2 DEF rest
<1>5. /\ in.command = c[1] /\ w = rest
      /\ \E k \in 1..4 : Framed(c, k) /\ in.payload = SubSeq(c, k + 2, Len(c))
  BY <1>4, PayloadWhole
<1>6. Stream(v, s, h + 1, NoPacket, w)
  <2>1. NoPacket.command = 0
    BY DEF NoPacket
  <2>2. Under(v, s, h + 1, NoPacket, w, R)
    BY <1>5, <2>1 DEF Under, rest
  <2>3. QED BY <1>2, <2>2 DEF Stream
<1>7. PICK k \in 1..4 : Framed(c, k) /\ in.payload = SubSeq(c, k + 2, Len(c))
  BY <1>5
<1> DEFINE Right(q) == IF Succeeds(q) THEN q.value = p /\ Acceptable(v, p, c[1])
                       ELSE p.kind = "raw" \/ Odd(p)
<1>8. \/ Endless(c) /\ p.kind = "raw"
      \/ \E j \in 1..4 : Framed(c, j) /\ Right(HandlePacket(v, c[1], SubSeq(c, j + 2, Len(c))))
  BY <1>3 DEF Understood
<1> HIDE DEF Right
<1>9. ~Endless(c)
  BY <1>4, <1>7, EndlessUnframed DEF Delimited
<1>10. Right(r)
  <2>1. PICK j \in 1..4 : /\ Framed(c, j)
                          /\ Right(HandlePacket(v, c[1], SubSeq(c, j + 2, Len(c))))
    BY <1>8, <1>9
  <2>2. j = k
    BY <1>4, <1>7, <2>1, FramedOnce DEF Delimited
  <2>3. r = HandlePacket(v, c[1], SubSeq(c, j + 2, Len(c)))
    BY <1>5, <1>7, <2>2
  <2>4. QED BY <2>1, <2>3
<1>11. QED BY <1>2, <1>5, <1>6, <1>10 DEF Right, p, PacketRead

-----------------------------------------------------------------------------
(* Every step keeps the invariant                                          *)

\* What the client publishes a broker can send: it is well-formed.
Relayed(p) ==
  /\ p \in Publication /\ Proper(version, p)
  /\ BytesOf(version, p) = PacketBytes(DraftOf(version, p))

\* What the Swift client makes of a call.
Requested(r) == [r EXCEPT !.props = Chosen(@)]

LEMMA OwnIsProper ==
  ASSUME version \in Versions, NEW r \in Requests,
         NEW p, p = Requested(r), p.kind = "PUBLISH",
         CallVerdict(version, mosq, p) = "SUCCESS", Allocates(DraftOf(version, p)),
         ~DropsProperties(version, p),
         \A s \in AllTexts(p.props) : Len(s) < 65536
  PROVE  Relayed(p)
<1>1. /\ p \in Publication \cup Subscription \cup Farewell /\ Identified(p)
      /\ p.props \in Seq(Property)
      /\ \A i \in DOMAIN p.props : Addable(p.props[i])
      /\ version # "v5" => p.props = <<>>
  <2>1. Asked(version, p)
    BY RequestChosen DEF Requested
  <2>2. QED BY <2>1 DEF Asked
<1>2. p \in Publication
  BY <1>1 DEF Subscription, Farewell
<1>3. CheckAll("PUBLISH", p.props) = "SUCCESS" /\ PubTopicValid(p.topic)
      /\ (p.topic # <<>> => ValidUtf8(p.topic))
  <2>1. PublishVerdict(version, mosq, p) = "SUCCESS"
    BY DEF CallVerdict
  <2>2. PublishChecked(p)
    BY <2>1, PublishAccepted
  <2>3. QED BY <2>2 DEF PublishChecked
<1>4. ValidUtf8(p.topic)
  BY <1>3, EmptyIsUtf8
<1>5. Len(p.topic) < 65536
  <2>1. p.topic \in Text
    BY <1>2 DEF Publication
  <2>2. PICK l \in Nat : l = Len(p.topic)
    BY <2>1, LenProperties DEF Text
  <2>3. l <= 65535
    BY <1>3, <2>2 DEF PubTopicValid
  <2>4. QED BY SMT, <2>2, <2>3
<1>6. p.kind \notin Acks \cup {"DISCONNECT", "AUTH", "raw"}
  BY DEF Acks
<1>7. Wellformed(version, p)
  BY <1>1, <1>2, <1>3, <1>4, <1>5, <1>6 DEF Wellformed
<1>8. BytesOf(version, p) = PacketBytes(DraftOf(version, p))
  BY <1>6 DEF BytesOf
<1>9. QED BY <1>2, <1>7, <1>8, WellformedUnderstood DEF Relayed, Proper

\* A packet that is not allocated is not written.
LEMMA SendAllocates ==
  ASSUME NEW p, NEW d, SendVerdict(p, d) = "SUCCESS"
  PROVE  /\ Allocates(d)
         /\ p.kind = "PUBLISH" => ~Oversize(mosq.maximumPacketSize, d.announced)
  BY DEF SendVerdict

\* A will that is accepted has a topic that can be written.
LEMMA WillAccepted ==
  ASSUME NEW v, NEW w, WillVerdict(v, w) = "SUCCESS"
  PROVE  PubTopicValid(w.topic)
<1> DEFINE check == CheckAll("WILL", w.props)
           large == Len(w.payload) > MaxVarint
           wildcard == ~PubTopicValid(w.topic)
           malformed == ~ValidUtf8(w.topic)
           properties == v # "v5" /\ w.props # <<>>
<1>1. WillVerdict(v, w) =
        CASE check # "SUCCESS" -> check
          [] large -> "PAYLOAD_SIZE"
          [] wildcard -> "INVAL"
          [] malformed -> "MALFORMED_UTF8"
          [] properties -> "NOT_SUPPORTED"
          [] OTHER -> "SUCCESS"
  BY Zenon DEF WillVerdict
<1> HIDE DEF check, large, wildcard, malformed, properties
<1>2. ~wildcard
  BY <1>1
<1>3. QED BY <1>2 DEF wildcard

\* The will is not among what the rest of the invariant looks at.
LEMMA WillChanged ==
  ASSUME IInv, NEW will \in SUBSET Testaments, Pointer(will), ~sock,
         mosq' = [mosq EXCEPT !.will = will], UNCHANGED version, UNCHANGED ConnVars
  PROVE  IInv'
<1>1. Typed /\ Settled /\ Underway /\ Blame
  BY DEF IInv
<1>2. mosq \in Handles
  BY <1>1 DEF Typed, HandleTyped
<1>3. /\ mosq' \in Handles /\ mosq'.protocol = mosq.protocol /\ mosq'.id = mosq.id
      /\ mosq'.will = will /\ mosq'.username = mosq.username /\ mosq'.password = mosq.password
  BY <1>2 DEF Handles
<1>4. Typed'
  BY <1>1, <1>3 DEF Typed, HandleTyped, ConnVars
<1>5. Settled'
  BY <1>1 DEF Settled, ConnVars
<1>6. Underway'
  BY DEF Underway, ConnVars
<1>7. Blame'
  BY <1>1, <1>3 DEF Blame, Blamed, Unwelcome, ConnVars
<1>8. QED BY <1>4, <1>5, <1>6, <1>7 DEF IInv

LEMMA SetWillKeeps == ASSUME IInv, SetWill PROVE IInv'
<1>1. PICK i \in DOMAIN Wills :
        LET verdict == WillVerdict(mosq.protocol, [Wills[i] EXCEPT !.props = Chosen(@)]) IN
        mosq' = IF verdict = "SUCCESS" THEN [mosq EXCEPT !.will = {i}] ELSE mosq
  BY DEF SetWill
<1>2. ~sock /\ UNCHANGED version /\ UNCHANGED ConnVars
  BY DEF SetWill, NextWill
<1> DEFINE w == [Wills[i] EXCEPT !.props = Chosen(@)]
<1>3. mosq \in Handles /\ Pointer(mosq.will)
  BY DEF IInv, Typed, HandleTyped
<1>4. CASE WillVerdict(mosq.protocol, w) = "SUCCESS"
  <2>1. PubTopicValid(w.topic)
    BY <1>4, WillAccepted
  <2>2. Wills[i] \in Testament
    BY ElementOfSeq, LenProperties, WireAssumption
  <2>3. w.topic = Wills[i].topic
    BY <2>2 DEF Testament
  <2>4. {i} \in SUBSET Testaments /\ Pointer({i})
    BY <2>1, <2>3 DEF Testaments, Pointer
  <2>5. mosq' = [mosq EXCEPT !.will = {i}]
    BY <1>1, <1>4
  <2>6. QED BY <1>2, <2>4, <2>5, WillChanged
<1>5. CASE WillVerdict(mosq.protocol, w) # "SUCCESS"
  <2>1. mosq' = mosq
    BY <1>1, <1>5
  <2>2. mosq' = [mosq EXCEPT !.will = mosq.will] /\ mosq.will \in SUBSET Testaments
    BY <1>3, <2>1 DEF Handles
  <2>3. QED BY <1>2, <1>3, <2>2, WillChanged
<1>6. QED BY <1>4, <1>5

LEMMA ClearWillKeeps == ASSUME IInv, ClearWill PROVE IInv'
<1>1. {} \in SUBSET Testaments /\ Pointer({})
  BY DEF Pointer
<1>2. ~sock /\ mosq' = [mosq EXCEPT !.will = {}] /\ UNCHANGED version /\ UNCHANGED ConnVars
  BY DEF ClearWill, NextWill
<1>3. QED BY <1>1, <1>2, WillChanged

\* mosquitto__reconnect: everything starts anew but the handle.
LEMMA OpensKeeps ==
  ASSUME IInv, NEW m, HandleTyped(m), m.protocol = version, NEW props \in Seq(Property),
         Opens(m, props), UNCHANGED version
  PROVE  IInv'
<1>1. /\ version \in Versions /\ conns \in Nat
  BY DEF IInv, Typed
<1>2. /\ mosq' = [m EXCEPT !.receiveMaximum = Value(props, ReceiveMaximum, @)]
      /\ incoming' = NoPacket /\ wire' = <<>> /\ sent' = <<>> /\ handled' = <<>>
      /\ failure' = "none"
      /\ conns' = conns + 1 \/ (conns' = conns /\ sock' = FALSE)
  <2> DEFINE fits == Allocates(ConnectDraft(m.protocol, ConnectPacket(m, props)))
  <2>1. /\ mosq' = [m EXCEPT !.receiveMaximum = Value(props, ReceiveMaximum, @)]
        /\ incoming' = NoPacket /\ wire' = <<>> /\ sent' = <<>> /\ handled' = <<>>
        /\ failure' = "none" /\ sock' = fits
        /\ conns' = IF fits THEN conns + 1 ELSE conns
    BY DEF Opens, Clean
  <2>2. fits = TRUE \/ fits = FALSE
    BY DEF Allocates
  <2> HIDE DEF fits
  <2>3. QED BY <2>1, <2>2
<1>3. HandleTyped(mosq') /\ mosq'.protocol = m.protocol
  <2> DEFINE n == [m EXCEPT !.receiveMaximum = Value(props, ReceiveMaximum, @)]
  <2>1. HandleTyped(n) /\ n.protocol = m.protocol
    BY MaximumKept
  <2>2. mosq' = n
    BY <1>2
  <2> HIDE DEF n
  <2>3. QED BY <2>1, <2>2
<1>4. conns' \in Nat /\ (conns' > 0 \/ sock' = FALSE)
  BY <1>1, <1>2
<1>5. Typed'
  BY <1>1, <1>2, <1>3, <1>4 DEF Typed, HandleTyped
<1>6. Settled'
  <2>1. /\ sent' \in Seq(Sendable) /\ handled' \in Seq(Sendable)
        /\ Len(sent') = 0 /\ Len(handled') = 0
    BY <1>2, EmptySeq
  <2>2. 1..0 = {} /\ 0 <= 0
    BY SMT
  <2>3. QED BY <2>1, <2>2 DEF Settled
<1>7. Underway'
  <2>1. Stream(version', <<>>, 0, NoPacket, <<>>)
    BY NothingSent
  <2>2. Len(<<>>) = 0
    BY EmptySeq
  <2>3. QED BY <1>2, <2>1, <2>2 DEF Underway
<1>8. Blame'
  BY <1>2 DEF Blame
<1>9. QED BY <1>5, <1>6, <1>7, <1>8 DEF IInv

\* What connect does: it opens a connection with the handle n, or leaves m.
ConnectDoes(m, n, props) ==
  /\ Made(m, n) /\ props \in Seq(Property) /\ (version # "v5" => props = <<>>)
  /\ \/ Opens(n, props)
     \/ mosq' = m /\ UNCHANGED written /\ UNCHANGED ConnVars
  /\ UNCHANGED version

LEMMA ConnectDone ==
  ASSUME HandleTyped(mosq), version \in Versions, Connect
  PROVE  \E m, n, props : ConnectDoes(m, n, props)
<1>1. PICK c \in Connects :
        LET props == Chosen(c.props)
            named == Credentials(mosq, version, c.username, c.password)
            m == [IntOptions(mosq) EXCEPT !.username = named.username, !.password = named.password]
            verdict == ConnectVerdict([c EXCEPT !.props = props])
        IN /\ IF verdict = "SUCCESS"
              THEN Opens([m EXCEPT !.keepalive = c.keepalive, !.clean = c.clean,
                                   !.id = IF @ = {} /\ version # "v5" THEN {GeneratedId} ELSE @],
                         props)
              ELSE /\ rc' = verdict
                   /\ mosq' = m
                   /\ UNCHANGED written /\ UNCHANGED ConnVars
           /\ UNCHANGED version
  BY Zenon DEF Connect
<1> DEFINE props == Chosen(c.props)
<1>2. PICK m : m = Authenticated(c)
  OBVIOUS
<1>3. PICK n : n = Prepared(c, m)
  OBVIOUS
<1>4. /\ \/ Opens(n, props)
         \/ mosq' = m /\ UNCHANGED written /\ UNCHANGED ConnVars
      /\ UNCHANGED version
  BY <1>1, <1>2, <1>3, Zenon DEF Authenticated, Prepared
<1>5. Made(m, n)
  BY <1>2, <1>3, ConnectMakes
<1>6. props \in Seq(Property) /\ (version # "v5" => props = <<>>)
  <2>1. c.props \in Seq(Property)
    BY WireAssumption DEF Connection
  <2>2. QED BY <2>1, ChosenOf
<1> HIDE DEF props
<1>7. ConnectDoes(m, n, props)
  BY <1>4, <1>5, <1>6, Zenon DEF ConnectDoes
<1>8. QED BY <1>7

LEMMA ConnectKeeps == ASSUME IInv, Connect PROVE IInv'
<1>1. HandleTyped(mosq) /\ version \in Versions /\ conns \in Nat /\ conns = 0
      /\ (sock => conns > 0 /\ failure = "none")
  BY DEF IInv, Typed, Connect
<1>2. PICK m, n, props : ConnectDoes(m, n, props)
  BY <1>1, ConnectDone
<1>3. /\ HandleTyped(m) /\ m.protocol = version
      /\ HandleTyped(n) /\ n.protocol = version /\ props \in Seq(Property)
      /\ UNCHANGED version
  BY <1>2 DEF ConnectDoes, Made
<1>4. CASE Opens(n, props)
  BY <1>3, <1>4, OpensKeeps
<1>5. CASE mosq' = m /\ UNCHANGED ConnVars
  <2>1. ~sock /\ failure = "none" /\ ~(conns > 0) /\ Settled
    <3>1. ~(0 > 0)
      BY SMT
    <3>2. QED BY <1>1, <3>1 DEF IInv, Blame
  <2>2. Typed'
    BY <1>1, <1>3, <1>5, <2>1 DEF Typed, HandleTyped, ConnVars
  <2>3. Settled'
    BY <1>3, <1>5, <2>1 DEF Settled, ConnVars
  <2>4. Underway' /\ Blame'
    BY <1>5, <2>1 DEF Underway, Blame, ConnVars
  <2>5. QED BY <2>2, <2>3, <2>4 DEF IInv
<1>6. QED BY <1>2, <1>4, <1>5 DEF ConnectDoes

LEMMA ReconnectKeeps == ASSUME IInv, Reconnect PROVE IInv'
<1>1. conns > 0 /\ Opens(mosq, <<>>) /\ UNCHANGED version
  BY DEF Reconnect
<1>2. HandleTyped(mosq) /\ mosq.protocol = version
  BY <1>1 DEF IInv, Typed
<1>3. <<>> \in Seq(Property)
  BY EmptySeq
<1>4. QED BY <1>1, <1>2, <1>3, OpensKeeps

\* A packet more that a broker can send; nothing of it has been read.
LEMMA SendingKeeps ==
  ASSUME IInv, sock, incoming.command = 0, NEW p \in Sendable, Proper(version, p),
         wire' = wire \o BytesOf(version, p), sent' = Append(sent, p),
         UNCHANGED <<mosq, version, sock, incoming, handled, failure, conns>>
  PROVE  IInv'
<1>1. Typed /\ Settled /\ Underway /\ failure = "none"
  BY DEF IInv, Typed
<1>2. Typed'
  BY <1>1 DEF Typed, HandleTyped
<1>3. /\ sent \in Seq(Sendable) /\ \A i \in 1..Len(sent) : Proper(version, sent[i])
      /\ handled \in Seq(Sendable) /\ Len(handled) <= Len(sent)
      /\ \A i \in 1..Len(handled) : handled[i] = sent[i]
  BY <1>1 DEF Settled
<1>4. PICK n \in Nat, h \in Nat : n = Len(sent) /\ h = Len(handled) /\ h <= n
  BY <1>3, LenProperties
<1>5. /\ sent' \in Seq(Sendable) /\ Len(sent') = n + 1 /\ sent'[n + 1] = p
      /\ \A i \in 1..n : sent'[i] = sent[i]
  BY <1>3, <1>4, AppendProperties
<1>6. Settled'
  <2>1. h <= n + 1 /\ (\A i \in 1..h : i \in 1..n) /\ (\A i \in 1..n + 1 : i \in 1..n \/ i = n + 1)
    BY SMT, <1>4
  <2>2. \A i \in 1..n + 1 : Proper(version, sent'[i])
    BY <1>3, <1>4, <1>5, <2>1
  <2>3. \A i \in 1..h : handled[i] = sent'[i]
    BY <1>3, <1>4, <1>5, <2>1
  <2>4. QED BY <1>3, <1>4, <1>5, <2>1, <2>2, <2>3 DEF Settled
<1>7. Underway'
  <2>1. Stream(version, sent, Len(handled), incoming, wire)
    BY <1>1 DEF Underway
  <2>2. Stream(version, Append(sent, p), Len(handled), incoming, wire \o BytesOf(version, p))
    BY <1>3, <1>4, <2>1, MoreSent
  <2>3. QED BY <2>2 DEF Underway
<1>8. Blame'
  BY <1>1 DEF Blame
<1>9. QED BY <1>2, <1>6, <1>7, <1>8 DEF IInv

\* Nothing that the invariant looks at changes but the state of a connection that is open.
LEMMA StateChanged ==
  ASSUME IInv, sock \/ state' = state,
         UNCHANGED <<mosq, version, sock, incoming, wire, sent, handled, failure, conns>>
  PROVE  IInv'
<1>1. Typed /\ Settled /\ Underway /\ Blame /\ (sock => failure = "none")
  BY DEF IInv, Typed
<1>2. Typed'
  BY <1>1 DEF Typed, HandleTyped
<1>3. Settled'
  BY <1>1 DEF Settled
<1>4. Underway'
  BY <1>1 DEF Underway
<1>5. Blame'
  BY <1>1 DEF Blame, Blamed, Unwelcome
<1>6. QED BY <1>2, <1>3, <1>4, <1>5 DEF IInv

\* A call whose properties are left out.
Dropped(p) == p.kind = "PUBLISH" /\ DropsProperties(version, p)

\* What a call does: a packet leaves, or none.
CallDoes(p) ==
  /\ Asked(version, p) /\ CallVerdict(version, mosq, p) = "SUCCESS"
  /\ SendVerdict(p, DraftOf(version, p)) = "SUCCESS"
  /\ written' = Lengths(p.kind, DraftOf(version, p), AllTexts(p.props), Dropped(p))
  /\ \/ UNCHANGED <<wire, sent>>
     \/ /\ p.kind = "PUBLISH" /\ written'.uncut /\ ~Dropped(p)
        /\ wire' = wire \o PacketBytes(DraftOf(version, p)) /\ sent' = Append(sent, p)

LEMMA CallDone ==
  ASSUME Call, mosq.protocol = version
  PROVE  \/ UNCHANGED <<wire, sent, written>>
         \/ \E r \in Requests : CallDoes(Requested(r))
<1>1. PICK r \in Requests :
        LET p == [r EXCEPT !.props = Chosen(@)]
            verdict == CallVerdict(mosq.protocol, mosq, p)
        IN \/ UNCHANGED <<wire, sent, written>>
           \/ verdict = "SUCCESS" /\ Sends(p)
  BY DEF Call, Refuses
<1>2. PICK p : p = Requested(r)
  OBVIOUS
<1>3. \/ UNCHANGED <<wire, sent, written>>
      \/ CallVerdict(version, mosq, p) = "SUCCESS" /\ Sends(p)
  BY <1>1, <1>2, Zenon DEF Requested
<1>4. ASSUME CallVerdict(version, mosq, p) = "SUCCESS", Sends(p)
      PROVE  UNCHANGED <<wire, sent, written>> \/ CallDoes(p)
  <2>1. Asked(version, p)
    BY <1>2, RequestChosen DEF Requested
  <2> DEFINE draft == DraftOf(version, p)
  <2>2. \/ UNCHANGED <<wire, sent, written>>
        \/ /\ SendVerdict(p, draft) = "SUCCESS"
           /\ written' = Lengths(p.kind, draft, AllTexts(p.props), Dropped(p))
           /\ \/ UNCHANGED <<wire, sent>>
              \/ /\ p.kind = "PUBLISH" /\ written'.uncut /\ ~Dropped(p)
                 /\ wire' = wire \o PacketBytes(draft) /\ sent' = Append(sent, p)
    BY <1>4 DEF Sends, Refuses, Dropped
  <2>3. QED BY <1>4, <2>1, <2>2, Zenon DEF CallDoes
<1>5. QED BY <1>2, <1>3, <1>4

LEMMA CallKeeps == ASSUME IInv, Call PROVE IInv'
<1>1. sock /\ incoming.command = 0
  BY DEF Call, Quiet, BetweenPackets
<1>2. version \in Versions /\ mosq.protocol = version
  BY <1>1 DEF IInv, Typed
<1>3. UNCHANGED <<mosq, version, sock, incoming, handled, failure, conns>>
  BY DEF Call
<1>4. CASE UNCHANGED <<wire, sent>>
  BY <1>1, <1>3, <1>4, StateChanged
<1>5. CASE ~UNCHANGED <<wire, sent>>
  <2>1. PICK r \in Requests : CallDoes(Requested(r))
    BY <1>2, <1>5, CallDone
  <2>2. PICK p : p = Requested(r)
    OBVIOUS
  <2>3. /\ CallVerdict(version, mosq, p) = "SUCCESS"
        /\ SendVerdict(p, DraftOf(version, p)) = "SUCCESS"
        /\ p.kind = "PUBLISH" /\ \A s \in AllTexts(p.props) : Len(s) < 65536
        /\ ~DropsProperties(version, p)
        /\ wire' = wire \o PacketBytes(DraftOf(version, p)) /\ sent' = Append(sent, p)
    BY <1>5, <2>1, <2>2 DEF CallDoes, Dropped, Lengths
  <2>4. Allocates(DraftOf(version, p))
    BY <2>3, SendAllocates
  <2>5. Relayed(p)
    BY <1>2, <2>2, <2>3, <2>4, OwnIsProper
  <2>6. /\ p \in Sendable /\ Proper(version, p)
        /\ BytesOf(version, p) = PacketBytes(DraftOf(version, p))
    BY <2>5 DEF Relayed, Sendable
  <2>7. wire' = wire \o BytesOf(version, p) /\ sent' = Append(sent, p)
    BY <2>3, <2>6
  <2>8. QED BY <1>1, <1>3, <2>6, <2>7, SendingKeeps
<1>6. QED BY <1>4, <1>5

LEMMA ReturnKeeps == ASSUME IInv, Return PROVE IInv'
  BY StateChanged DEF Return, ConnVars

LEMMA BrokerSendsKeeps == ASSUME IInv, BrokerSends PROVE IInv'
<1>1. sock /\ incoming.command = 0 /\ version \in Versions
      /\ UNCHANGED <<mosq, version, sock, incoming, handled, failure, conns>>
  BY DEF BrokerSends, BetweenPackets, IInv, Typed
<1>2. PICK b \in Greetings \cup BrokerPackets :
        /\ Fits(b) /\ wire' = wire \o BrokerBytes(b.packet) /\ sent' = Append(sent, b.packet)
  BY DEF BrokerSends
<1>3. Proper(version, b.packet) /\ BrokerBytes(b.packet) = BytesOf(version, b.packet)
  BY <1>1, <1>2, BrokerSendsProper DEF BrokerBytes, BytesOf
<1>4. b.packet \in Sendable
  BY DEF Sendable
<1>5. QED BY <1>1, <1>2, <1>3, <1>4, SendingKeeps

LEMMA LoseKeeps == ASSUME IInv, Lose PROVE IInv'
<1>1. /\ sock /\ ~sock' /\ Typed /\ Settled /\ failure = "none"
      /\ UNCHANGED <<mosq, version, state, incoming, sent, handled, failure, conns>>
  BY DEF Lose, Closes, IInv, Typed
<1>2. Typed'
  BY <1>1 DEF Typed, HandleTyped
<1>3. Settled'
  BY <1>1 DEF Settled
<1>4. Underway' /\ Blame'
  BY <1>1 DEF Underway, Blame
<1>5. QED BY <1>2, <1>3, <1>4 DEF IInv

-----------------------------------------------------------------------------
(* What the reader does keeps the invariant                                *)

LEMMA DigitsTaken == \A k \in 1..4 : \A l \in Nat : 1 + k <= l => k \in 0..4 /\ k + 1 <= l
  BY SMT

LEMMA RestInside ==
  \A k \in 1..4 : \A v \in Nat : \A m \in 0..v :
    v - m \in Nat /\ k + 1 + m \in Nat /\ 0 \in Nat /\ (k + 1 + m) + 0 <= 1 + k + v
    /\ (k + 1 + m) + 0 = k + 1 + m
  BY SMT

\* The bytes of the payload that are to come are counted.
LEMMA PayloadToCome ==
  ASSUME NEW c, Delimited(c), NEW rest \in Seq(Bytes), NEW in, NEW w,
         Started(c, in, w, rest), in.count > 0
  PROVE  in.toProcess \in Nat /\ w \in Seq(Bytes)
<1>1. PICK k, m :
        /\ k \in 1..4 /\ m \in 0..VarintValue(c, 1, k)
        /\ Framed(c, k)
        /\ in = InPayload(c, k, m) /\ w = From(c, k + 1 + m) \o rest
  <2>1. ASSUME NEW j \in 0..4, in = InLength(c, j)
        PROVE  FALSE
    <3>1. in.count = 0 - j
      BY <2>1 DEF InLength
    <3>2. ~(0 - j > 0)
      BY SMT
    <3>3. QED BY <3>1, <3>2
  <2>2. QED BY <2>1 DEF Started
<1>2. PICK l \in Nat : l = Len(c) /\ c \in Seq(Bytes)
  BY LenProperties DEF Delimited
<1>3. PICK v \in Nat : v = VarintValue(c, 1, k) /\ l = 1 + k + v
  <2>1. Len(c) = 1 + k + VarintValue(c, 1, k) /\ 1 + k <= Len(c)
    BY <1>1 DEF Framed, EndsWith
  <2>2. k \in 0..4 /\ k + 1 <= Len(c)
    BY <1>1, <1>2, <2>1, DigitsTaken
  <2>3. VarintValue(c, 1, k) \in Nat
    BY <1>2, <2>2, VarintIsNat
  <2>4. QED BY <1>2, <2>1, <2>3
<1>4. m \in 0..v
  BY <1>1, <1>3
<1>5. PICK n \in Nat : /\ n = k + 1 + m /\ n + 0 <= Len(c) /\ n + 0 = n
                       /\ v - m \in Nat /\ 0 \in Nat
  BY <1>1, <1>2, <1>3, <1>4, RestInside
<1>6. From(c, n) \in Seq(Bytes)
  <2>1. Cut(Bytes, c, n, 0, SubSeq(c, n + 1, n + 0))
    BY <1>2, <1>5, PieceOff
  <2>2. From(c, n + 0) \in Seq(Bytes)
    BY <2>1 DEF Cut
  <2>3. QED BY <1>5, <2>2
<1>7. w \in Seq(Bytes)
  BY <1>1, <1>5, <1>6, Together
<1>8. in.toProcess = VarintValue(c, 1, k) - m
  BY <1>1 DEF InPayload
<1>9. QED BY <1>3, <1>5, <1>7, <1>8

\* What holds while a connection is read.
Reading(h) ==
  /\ sock /\ h \in Nat /\ h = Len(handled) /\ Len(sent) \in Nat /\ h <= Len(sent)
  /\ \A i \in 1..Len(sent) : Proper(version, sent[i])
  /\ Stream(version, sent, h, incoming, wire)
  /\ version \in Versions /\ mosq.protocol = version /\ HandleTyped(mosq)
  /\ failure = "none" /\ conns > 0

LEMMA ConnectionReading == ASSUME IInv, sock PROVE \E h : Reading(h)
<1>1. Typed /\ Settled /\ Underway
  BY DEF IInv
<1>2. PICK h, n : h \in Nat /\ n \in Nat /\ h = Len(handled) /\ n = Len(sent)
  BY <1>1, LenProperties DEF Settled
<1>3. Reading(h)
  BY <1>1, <1>2 DEF Reading, Typed, Settled, Underway
<1>4. QED BY <1>3

\* A part of a packet more, or less.
LEMMA ReadKeeps ==
  ASSUME IInv, NEW h, Reading(h), Stream(version, sent, h, incoming', wire'),
         UNCHANGED <<mosq, version, sock, state, sent, handled, failure, conns>>
  PROVE  IInv'
<1>1. Typed /\ Settled
  BY DEF IInv
<1>2. Typed'
  BY <1>1 DEF Typed, HandleTyped
<1>3. Settled'
  BY <1>1 DEF Settled
<1>4. Underway'
  BY DEF Underway, Reading
<1>5. Blame'
  BY DEF Blame, Reading
<1>6. QED BY <1>2, <1>3, <1>4, <1>5 DEF IInv

LEMMA ReadCommandKeeps == ASSUME IInv, ReadCommand PROVE IInv'
<1>1. /\ sock /\ wire # <<>> /\ incoming.command = 0
      /\ incoming' = [incoming EXCEPT !.command = Head(wire)] /\ wire' = Tail(wire)
      /\ UNCHANGED <<mosq, version, sock, state, sent, handled, failure, conns>>
  BY DEF ReadCommand
<1>2. PICK h : Reading(h)
  BY <1>1, ConnectionReading
<1>3. Stream(version, sent, h, [incoming EXCEPT !.command = Head(wire)], Tail(wire))
  BY <1>1, <1>2, StreamCommand DEF Reading
<1>4. Stream(version, sent, h, incoming', wire')
  BY <1>1, <1>3
<1>5. QED BY <1>1, <1>2, <1>4, ReadKeeps

\* The reader closes the connection over a packet that is unwelcome.
LEMMA RefusesKeeps ==
  ASSUME IInv, NEW h, Reading(h), h < Len(sent), Unwelcome(sent[h + 1]),
         sock' = FALSE, UNCHANGED <<mosq, version, state, sent, handled, conns>>
  PROVE  IInv'
<1>1. Typed /\ Settled
  BY DEF IInv
<1>2. Typed'
  BY <1>1 DEF Typed, HandleTyped
<1>3. Settled'
  BY <1>1 DEF Settled
<1>4. Underway'
  BY DEF Underway
<1>5. Blame'
  BY DEF Blame, Blamed, Unwelcome, Reading
<1>6. QED BY <1>2, <1>3, <1>4, <1>5 DEF IInv

LEMMA ReadLengthKeeps == ASSUME IInv, ReadLength PROVE IInv'
<1> DEFINE over == incoming.count - 1 < -4
<1>1. /\ sock /\ incoming.command # 0 /\ incoming.count <= 0
      /\ UNCHANGED <<mosq, version, state, sent, handled, conns>>
  BY DEF ReadLength
<1>2. PICK h : Reading(h)
  BY <1>1, ConnectionReading
<1>3. PICK next : next = LengthRead(incoming, Head(wire))
  OBVIOUS
<1>4. \/ over /\ Closes
      \/ ~over /\ incoming' = next /\ wire' = Tail(wire) /\ UNCHANGED <<sock, failure>>
  BY <1>3, Zenon DEF ReadLength, LengthRead
<1>5. DigitRead(version, sent, h, incoming, wire, next)
  BY <1>1, <1>2, <1>3, StreamLength DEF Reading
<1>9. /\ over => h < Len(sent) /\ sent[h + 1].kind = "raw"
      /\ ~over => Stream(version, sent, h, next, Tail(wire))
  BY <1>5 DEF DigitRead
<1> HIDE DEF over
<1>6. CASE over /\ Closes
  <2>1. h < Len(sent) /\ Unwelcome(sent[h + 1])
    BY <1>9, <1>6 DEF Unwelcome
  <2>2. QED BY <1>1, <1>2, <1>6, <2>1, RefusesKeeps DEF Closes
<1>7. CASE ~over /\ incoming' = next /\ wire' = Tail(wire) /\ UNCHANGED <<sock, failure>>
  <2>1. Stream(version, sent, h, incoming', wire')
    BY <1>9, <1>7
  <2>2. QED BY <1>1, <1>2, <1>7, <2>1, ReadKeeps
<1>8. QED BY <1>4, <1>6, <1>7

LEMMA ReadPayloadKeeps == ASSUME IInv, ReadPayload PROVE IInv'
<1>1. /\ sock /\ incoming.count > 0
      /\ UNCHANGED <<mosq, version, sock, state, sent, handled, failure, conns>>
  BY DEF ReadPayload
<1>2. PICK h : Reading(h)
  BY <1>1, ConnectionReading
<1>3. PICK piece \in Pieces :
        LET n == Min({piece, incoming.toProcess, Len(wire)}) IN
        /\ incoming' = [incoming EXCEPT
             !.payload = @ \o SubSeq(wire, 1, n), !.toProcess = @ - n]
        /\ wire' = SubSeq(wire, n + 1, Len(wire))
  BY DEF ReadPayload
<1>4. incoming.toProcess \in Nat /\ wire \in Seq(Bytes)
  <2>1. incoming.command # 0
    <3>1. NoPacket.count = 0 /\ ~(0 > 0)
      BY SMT DEF NoPacket
    <3>2. incoming # NoPacket
      BY <1>1, <3>1
    <3>3. QED BY <1>2, <3>2 DEF Reading, Stream, Under
  <2>2. PICK R : /\ R[h + 1] \in Seq(Bytes) /\ Delimited(BytesOf(version, sent[h + 1]))
                 /\ Started(BytesOf(version, sent[h + 1]), incoming, wire, R[h + 1])
    BY <1>2, <2>1, StreamStarted DEF Reading
  <2>3. QED BY <1>1, <2>2, PayloadToCome
<1>5. PICK n \in Nat : n = Min({piece, incoming.toProcess, Len(wire)}) /\ n <= incoming.toProcess
  <2>1. PICK a, b, c : /\ a \in Nat /\ b \in Nat /\ c \in Nat
                       /\ a = piece /\ b = incoming.toProcess /\ c = Len(wire)
    BY <1>4, LenProperties, WireAssumption
  <2>2. PICK m \in {a, b, c} : \A x \in {a, b, c} : m <= x
    BY <2>1, LeastNat
  <2>3. Min({a, b, c}) \in {a, b, c} /\ Min({a, b, c}) <= b
    BY <2>2 DEF Min
  <2>4. QED BY <2>1, <2>3
<1>6. PICK next :
        next = [incoming EXCEPT !.payload = @ \o SubSeq(wire, 1, n), !.toProcess = @ - n]
  OBVIOUS
<1>7. incoming' = next /\ wire' = SubSeq(wire, n + 1, Len(wire))
  BY <1>3, <1>5, <1>6, Zenon
<1>8. Stream(version, sent, h, next, SubSeq(wire, n + 1, Len(wire)))
  BY <1>1, <1>2, <1>5, <1>6, StreamPayload, Zenon DEF Reading
<1>9. QED BY <1>1, <1>2, <1>7, <1>8, ReadKeeps

-----------------------------------------------------------------------------
(* What becomes of a packet keeps the invariant                            *)

\* A packet more has been decoded, the next one of those that were sent.
LEMMA MoreHandled ==
  ASSUME Settled, NEW h, Reading(h), h < Len(sent),
         handled' = Append(handled, sent[h + 1]), UNCHANGED <<version, sent>>
  PROVE  Settled' /\ Len(handled') = h + 1 /\ handled' # <<>> /\ Last(handled') = sent[h + 1]
<1>1. /\ sent \in Seq(Sendable) /\ \A i \in 1..Len(sent) : Proper(version, sent[i])
      /\ handled \in Seq(Sendable) /\ \A i \in 1..Len(handled) : handled[i] = sent[i]
  BY DEF Settled
<1>2. PICK n \in Nat : n = Len(sent) /\ h < n /\ h \in Nat /\ h = Len(handled)
  BY DEF Reading
<1>3. /\ h + 1 \in 1..n /\ h + 1 <= n /\ \A i \in 1..h + 1 : i \in 1..h \/ i = h + 1
      /\ h + 1 # 0
  BY SMT, <1>2
<1>4. PICK p \in Sendable : p = sent[h + 1]
  BY <1>1, <1>2, <1>3, ElementOfSeq
<1>5. /\ handled' \in Seq(Sendable) /\ Len(handled') = h + 1 /\ handled'[h + 1] = p
      /\ \A i \in 1..h : handled'[i] = handled[i]
  BY <1>1, <1>2, <1>4, AppendProperties
<1>6. \A i \in 1..h + 1 : handled'[i] = sent[i]
  BY <1>1, <1>2, <1>3, <1>4, <1>5
<1>7. Settled'
  BY <1>1, <1>2, <1>3, <1>5, <1>6 DEF Settled
<1>8. handled' # <<>>
  BY <1>3, <1>5, EmptySeq
<1>9. QED BY <1>4, <1>5, <1>7, <1>8 DEF Last

\* The packets of a broker have properties but the pings.
LEMMA WellformedProps ==
  ASSUME NEW v, NEW p, Wellformed(v, p), p.kind = "CONNACK"
  PROVE  p.props \in Seq(Property)
<1>1. p \in Publication \cup Answer \cup Ping
  BY DEF Wellformed
<1>2. p \notin Ping /\ p \notin Publication
  BY DEF Ping, Publication
<1>3. QED BY <1>1, <1>2 DEF Answer

\* The connection stays open.
LEMMA TakesKeeps ==
  ASSUME IInv, NEW h, Reading(h), h < Len(sent),
         handled' = Append(handled, sent[h + 1]), HandleTyped(mosq'), mosq'.protocol = version,
         Stream(version, sent, h + 1, incoming', wire'),
         UNCHANGED <<version, sock, sent, failure, conns>>
  PROVE  IInv'
<1>1. Typed /\ Settled
  BY DEF IInv
<1>2. Settled' /\ Len(handled') = h + 1
  BY <1>1, MoreHandled
<1>3. Typed'
  BY <1>1 DEF Typed
<1>4. Underway'
  BY <1>2 DEF Underway
<1>5. Blame'
  BY DEF Blame, Reading
<1>6. QED BY <1>2, <1>3, <1>4, <1>5 DEF IInv

\* The connection is closed over a packet that was taken.
LEMMA EndsKeeps ==
  ASSUME IInv, NEW h, Reading(h), h < Len(sent),
         handled' = Append(handled, sent[h + 1]), HandleTyped(mosq'), mosq'.protocol = version,
         sock' = FALSE, UNCHANGED <<version, sent, conns>>,
         \/ failure' = failure
         \/ sent[h + 1].kind = "CONNACK" /\ sent[h + 1].reason # 0
  PROVE  IInv'
<1>1. Typed /\ Settled
  BY DEF IInv
<1>2. Settled' /\ handled' # <<>> /\ Last(handled') = sent[h + 1]
  BY <1>1, MoreHandled
<1>3. Typed'
  BY <1>1 DEF Typed
<1>4. Underway'
  BY DEF Underway
<1>5. Blame'
  BY <1>2 DEF Blame, Blamed, Reading
<1>6. QED BY <1>2, <1>3, <1>4, <1>5 DEF IInv

\* The handlers of CONNACK, DISCONNECT and AUTH do not look at the state.
LEMMA OthersInactive ==
  ASSUME NEW kind \in {"CONNACK", "DISCONNECT", "AUTH"}
  PROVE  ~NeedsActive(CommandByte(kind))
<1>1. PICK c \in {32, 224, 240} : c = CommandByte(kind)
  <2>1. /\ CommandByte("CONNACK") = 32 /\ CommandByte("DISCONNECT") = 224
        /\ CommandByte("AUTH") = 240
    BY DEF CommandByte
  <2>2. QED BY <2>1
<1>2. \A other \in NeedActive :
        CommandByte(other) \in {48, 64, 80, 98, 112, 144, 176, 192, 208}
  BY DEF NeedActive, CommandByte
<1>3. \A o \in {48, 64, 80, 98, 112, 144, 176, 192, 208} : o \div 16 # c \div 16
  BY SMT, <1>1
<1>4. QED BY <1>1, <1>2, <1>3 DEF NeedsActive

LEMMA WellformedKinds ==
  ASSUME NEW v, NEW p, Wellformed(v, p)
  PROVE  p.kind \in NeedActive \cup {"CONNACK", "DISCONNECT", "AUTH"}
<1>1. p \in Publication \cup Answer \cup Ping
  BY DEF Wellformed
<1>2. QED BY <1>1 DEF Publication, Answer, Ping, Acks, NeedActive

LEMMA HandleKeeps == ASSUME IInv, Handle PROVE IInv'
<1>1. /\ sock /\ incoming.count > 0 /\ incoming.toProcess = 0
      /\ incoming' = NoPacket /\ UNCHANGED <<version, sent, conns>>
  BY DEF Handle, Clean
<1>2. PICK h : Reading(h)
  BY <1>1, ConnectionReading
<1> DEFINE command == incoming.command
<1>3. PICK result :
        /\ result = HandlePacket(mosq.protocol, incoming.command, incoming.payload)
        /\ IF Objection(command, result) = "SUCCESS" THEN HandleDecoded(result.value)
           ELSE /\ Closes
                /\ failure' = Objection(command, result)
                /\ UNCHANGED <<mosq, state, handled>>
  BY DEF Handle
<1>4. PacketRead(version, sent, h, wire, command, result)
  <2>1. result = HandlePacket(version, incoming.command, incoming.payload)
    BY <1>2, <1>3 DEF Reading
  <2>2. QED BY <1>1, <1>2, <2>1, StreamPacket DEF Reading
<1> DEFINE p == sent[h + 1]
           fails == ~Succeeds(result)
           early == NeedsActive(command) /\ state # "active"
           assigned == /\ result.value.kind = "CONNACK"
                       /\ Has(result.value.props, AssignedClientIdentifier) /\ mosq.id # {}
<1>5. /\ h < Len(sent) /\ Stream(version, sent, h + 1, NoPacket, wire)
      /\ ~fails => result.value = p /\ Acceptable(version, p, command)
      /\ fails => p.kind = "raw" \/ Odd(p)
  BY <1>4 DEF PacketRead
<1>6. Objection(command, result) = CASE early -> "PROTOCOL"
                            [] fails -> result.rc
                            [] assigned -> "PROTOCOL"
                            [] OTHER -> "SUCCESS"
  BY Zenon DEF Objection
<1>7. fails => result.rc # "SUCCESS"
  BY DEF Succeeds
<1>8. fails \/ early \/ assigned => Unwelcome(p)
  <2>1. CASE fails
    BY <1>5, <2>1 DEF Odd, Unwelcome
  <2>2. CASE ~fails /\ (early \/ assigned)
    <3>1. early => p.kind \in NeedActive \/ p.kind \in {"CONNACK", "DISCONNECT", "AUTH"}
      BY <1>5, <2>2, WellformedKinds DEF Acceptable
    <3>2. early => p.kind \in NeedActive
      BY <1>5, <2>2, <3>1, OthersInactive DEF Acceptable, NeedActive
    <3>3. QED BY <1>5, <2>2, <3>2 DEF Unwelcome
  <2>3. QED BY <2>1, <2>2
<1> HIDE DEF fails, early, assigned
<1>9. CASE fails \/ early \/ assigned
  <2>1. Objection(command, result) # "SUCCESS"
    BY <1>6, <1>7, <1>9
  <2>2. Closes /\ UNCHANGED <<mosq, state, handled>>
    BY <1>3, <2>1
  <2>3. QED BY <1>1, <1>2, <1>5, <1>8, <1>9, <2>2, RefusesKeeps DEF Closes
<1>10. CASE ~(fails \/ early \/ assigned)
  <2>1. Objection(command, result) = "SUCCESS"
    BY <1>6, <1>10
  <2>2. HandleDecoded(p) /\ Wellformed(version, p)
    BY <1>3, <1>5, <1>10, <2>1 DEF Acceptable
  <2> HIDE DEF p
  <2>3. handled' = Append(handled, sent[h + 1])
    BY <2>2 DEF HandleDecoded, p
  <2>4. HandleTyped(mosq) /\ mosq.protocol = version
    BY <1>2 DEF Reading
  <2>5. CASE p.kind = "CONNACK"
    <3>1. /\ mosq' = Learns(p)
          /\ IF p.reason = 0 THEN UNCHANGED <<sock, wire, failure>> ELSE Closes
      BY <2>2, <2>5 DEF HandleDecoded
    <3>2. p.props \in Seq(Property)
      BY <2>2, <2>5, WellformedProps
    <3>3. HandleTyped(mosq') /\ mosq'.protocol = version
      <4>1. HandleTyped(Learns(p)) /\ Learns(p).protocol = mosq.protocol
        BY <2>4, <3>2, LearnsTypes
      <4>2. QED BY <2>4, <3>1, <4>1
    <3>4. CASE p.reason = 0
      <4>1. Stream(version, sent, h + 1, incoming', wire') /\ UNCHANGED <<sock, failure>>
        BY <1>1, <1>5, <3>1, <3>4
      <4>2. QED BY <1>1, <1>2, <1>5, <2>3, <3>3, <4>1, TakesKeeps
    <3>5. CASE p.reason # 0
      <4>1. sock' = FALSE /\ sent[h + 1].kind = "CONNACK" /\ sent[h + 1].reason # 0
        BY <2>5, <3>1, <3>5 DEF Closes, p
      <4>2. QED BY <1>1, <1>2, <1>5, <2>3, <3>3, <4>1, EndsKeeps
    <3>6. QED BY <3>4, <3>5
  <2>6. CASE p.kind = "DISCONNECT"
    <3>1. sock' = FALSE /\ UNCHANGED <<mosq, failure>>
      BY <2>2, <2>6 DEF HandleDecoded, Closes
    <3>2. HandleTyped(mosq') /\ mosq'.protocol = version
      BY <2>4, <3>1
    <3>3. QED BY <1>1, <1>2, <1>5, <2>3, <3>1, <3>2, EndsKeeps
  <2>7. CASE p.kind \notin {"CONNACK", "DISCONNECT"}
    <3>1. UNCHANGED <<mosq, sock, wire, failure>>
      BY <2>2, <2>7 DEF HandleDecoded
    <3>2. HandleTyped(mosq') /\ mosq'.protocol = version
      BY <2>4, <3>1
    <3>3. Stream(version, sent, h + 1, incoming', wire')
      BY <1>1, <1>5, <3>1
    <3>4. QED BY <1>1, <1>2, <1>5, <2>3, <3>1, <3>2, <3>3, TakesKeeps
  <2>8. QED BY <2>5, <2>6, <2>7
<1>11. QED BY <1>9, <1>10

-----------------------------------------------------------------------------
(* The invariant                                                           *)

LEMMA InitIInv == Init => IInv
<1> SUFFICES ASSUME Init PROVE IInv
  OBVIOUS
<1>1. PICK id \in Ids :
        mosq = [protocol |-> "v311", id |-> id, will |-> {}, username |-> {},
                password |-> {}, keepalive |-> 60, clean |-> TRUE,
                receiveMaximum |-> 20, maximumQos |-> 2, maximumPacketSize |-> 0]
  BY DEF Init
<1>2. id \in SUBSET Text /\ Pointer(id) /\ Pointer({})
  BY WireAssumption DEF Pointer
<1>3. 60 \in Short /\ 20 \in Short /\ 2 \in Nat /\ 0 \in Nat /\ "v311" \in Versions
  BY SMT DEF Short, Versions
<1>4. mosq \in Handles
  BY <1>1, <1>2, <1>3 DEF Handles
<1>5. HandleTyped(mosq)
  BY <1>1, <1>2, <1>4 DEF HandleTyped
<1>6. ~(0 > 0)
  BY SMT
<1>7. Typed
  BY <1>3, <1>5, <1>6 DEF Typed, Init
<1>8. Settled
  <2>1. Len(<<>>) = 0 /\ <<>> \in Seq(Sendable) /\ 1..0 = {} /\ 0 <= 0
    BY SMT, EmptySeq
  <2>2. QED BY <2>1 DEF Settled, Init
<1>9. Underway /\ Blame
  BY DEF Underway, Blame, Init
<1>10. QED BY <1>7, <1>8, <1>9 DEF IInv

LEMMA NextIInv == IInv /\ [Next]_vars => IInv'
<1> SUFFICES ASSUME IInv, [Next]_vars PROVE IInv'
  OBVIOUS
<1>1. CASE UNCHANGED vars
  BY <1>1, StateChanged DEF vars
<1>2. CASE Next
  BY <1>2, SetWillKeeps, ClearWillKeeps, ConnectKeeps, ReconnectKeeps, CallKeeps, ReturnKeeps,
     BrokerSendsKeeps, LoseKeeps, ReadCommandKeeps, ReadLengthKeeps, ReadPayloadKeeps,
     HandleKeeps DEF Next
<1>3. QED BY <1>1, <1>2

THEOREM Inductive == Spec => []IInv
  BY InitIInv, NextIInv, PTL DEF Spec

-----------------------------------------------------------------------------
(* Round trip                                                              *)

LEMMA SomethingMore == \A a, b \in Nat : a > 1 => a + b # 0
  BY SMT

\* While bytes of a packet are to come there are some.
LEMMA SomethingToCome ==
  ASSUME NEW h, Reading(h), wire = <<>>, incoming = NoPacket
  PROVE  h = Len(sent)
<1>1. PICK n \in Nat : n = Len(sent) /\ h \in Nat /\ h <= n
  BY DEF Reading
<1>2. NoPacket.command = 0
  BY DEF NoPacket
<1>3. PICK R : Rests(version, sent, R) /\ R[h] = <<>>
  BY <1>2 DEF Reading, Stream, Under
<1>4. ASSUME h < n
      PROVE  FALSE
  <2>1. /\ R[h] = BytesOf(version, sent[h + 1]) \o R[h + 1] /\ R[h + 1] \in Seq(Bytes)
        /\ Proper(version, sent[h + 1]) /\ Delimited(BytesOf(version, sent[h + 1]))
    <3>1. h \in Nat /\ h < Len(sent) /\ Len(sent) \in Nat
      BY <1>1, <1>4
    <3>2. \A i \in 1..Len(sent) : Proper(version, sent[i])
      BY DEF Reading
    <3>3. NextIs(version, sent, h, R)
      BY <1>3, <3>1, <3>2, NextPacket
    <3>4. QED BY <3>3 DEF NextIs
  <2>2. PICK a \in Seq(Bytes), b \in Seq(Bytes) : /\ a = BytesOf(version, sent[h + 1])
                                                  /\ b = R[h + 1] /\ Len(a) > 1
    BY <2>1 DEF Delimited
  <2>3. a \o b = <<>>
    BY <1>3, <2>1, <2>2
  <2>4. Len(a \o b) = Len(a) + Len(b) /\ Len(a) \in Nat /\ Len(b) \in Nat /\ Len(<<>>) = 0
    BY ConcatProperties, LenProperties, EmptySeq
  <2>5. Len(a) + Len(b) = 0
    BY <2>3, <2>4
  <2>6. QED BY <2>2, <2>4, <2>5, SomethingMore
<1>5. QED BY <1>1, <1>4

LEMMA IInvRoundTrip == IInv => RoundTrip
<1> SUFFICES ASSUME IInv PROVE RoundTrip
  OBVIOUS
<1>1. Typed /\ Settled /\ Underway /\ Blame
  BY DEF IInv
<1>2. PICK h, n : h \in Nat /\ n \in Nat /\ h = Len(handled) /\ n = Len(sent) /\ h <= n
  BY <1>1, LenProperties DEF Settled
<1>3. /\ handled \in Seq(Sendable) /\ sent \in Seq(Sendable)
      /\ \A i \in 1..h : handled[i] = sent[i]
  BY <1>1, <1>2 DEF Settled
<1>4. SubSeq(handled, 1, h) = handled
  BY <1>2, <1>3, SubSeqFull
<1>5. SubSeq(sent, 1, h) = handled
  <2>1. 1 \in Int /\ h \in Int /\ h - 1 + 1 = h /\ (\A i \in 1..h : i \in 1..n /\ 1 + i - 1 = i)
    BY SMT, <1>2
  <2>2. \A i \in 1..h : sent[i] \in Sendable
    BY <1>2, <1>3, <2>1, ElementOfSeq
  <2>3. PICK t : t = SubSeq(sent, 1, h)
    OBVIOUS
  <2>4. t \in Seq(Sendable) /\ Len(t) = h /\ \A i \in 1..h : t[i] = sent[i]
    BY <2>1, <2>2, <2>3, SubSeqProperties, <1>2
  <2>5. t = handled
    BY <1>2, <1>3, <2>4, SeqEqual
  <2>6. QED BY <2>3, <2>5
<1>6. IsPrefix(handled, sent)
  BY <1>2, <1>4, <1>5 DEF IsPrefix
<1>7. sock /\ wire = <<>> /\ incoming = NoPacket => handled = sent
  <2> SUFFICES ASSUME sock, wire = <<>>, incoming = NoPacket PROVE handled = sent
    OBVIOUS
  <2>1. PICK g : Reading(g)
    BY ConnectionReading
  <2>2. g = n /\ g = h
    BY <1>2, <2>1, SomethingToCome DEF Reading
  <2>3. SubSeq(sent, 1, n) = sent
    BY <1>2, <1>3, SubSeqFull
  <2>4. QED BY <1>5, <2>2, <2>3
<1>8. failure # "none" => Blamed
  BY <1>1 DEF Blame
<1>9. QED BY <1>6, <1>7, <1>8 DEF RoundTrip, Blamed

\* Whatever the wills, connects, calls, packets of the broker and pieces in which bytes are read
\* are, and however many connections there are: the client decodes the packets of a connection as
\* they were sent, and refuses none but the unwelcome ones (packet_mosq.c:313-498, read_handle.c,
\* handle_*.c, send_*.c, connect.c:175).
THEOREM PacketsRoundTrip == Spec => []RoundTrip
  BY Inductive, IInvRoundTrip, PTL

-----------------------------------------------------------------------------
(* What is written                                                         *)

\* What was reckoned of a packet stands in written, and the limit was looked at.
LEMMA LengthsKept ==
  ASSUME NEW kind, NEW d, NEW texts, NEW dropped \in BOOLEAN, mosq.maximumPacketSize \in Nat,
         Announces(d, texts, dropped),
         kind = "PUBLISH" => ~Oversize(mosq.maximumPacketSize, d.announced),
         kind \in {"SUBSCRIBE", "UNSUBSCRIBE"} /\ mosq.maximumPacketSize > 0 =>
           d.announced <= mosq.maximumPacketSize,
         written' = Lengths(kind, d, texts, dropped)
  PROVE  AnnouncedIsWritten' /\ OversizeByHeader'
<1>1. /\ written'.kind = kind /\ written'.announced = d.announced
      /\ written'.total = 1 + VarintBytes(d.announced) + d.announced
      /\ written'.limit = mosq.maximumPacketSize
  BY DEF Lengths
<1>2. AnnouncedIsWritten'
  <2>1. PICK w : w = Lengths(kind, d, texts, dropped)
    OBVIOUS
  <2>2. w.announced = w.body <=> w.uncut /\ ~w.dropped
    BY <2>1, AnnouncedOf
  <2>3. QED BY <2>1, <2>2 DEF AnnouncedIsWritten
<1>3. ASSUME kind = "PUBLISH", mosq.maximumPacketSize > 0
      PROVE  1 + VarintBytes(d.announced) + d.announced <= mosq.maximumPacketSize + 1
  <2>1. d.announced \in Nat
    BY DEF Announces
  <2>2. QED BY <1>3, <2>1, PublishFits
<1>4. OversizeByHeader'
  BY <1>1, <1>3 DEF OversizeByHeader
<1>5. QED BY <1>2, <1>4

\* Nothing is written.
LEMMA NothingKept ==
  ASSUME written' = Nothing
  PROVE  AnnouncedIsWritten' /\ OversizeByHeader'
<1>1. ~(0 > 0)
  BY SMT
<1>2. QED BY <1>1 DEF AnnouncedIsWritten, OversizeByHeader, Nothing

\* mosquitto__reconnect.
LEMMA OpensWrites ==
  ASSUME AnnouncedIsWritten, OversizeByHeader,
         mosq.maximumPacketSize \in Nat, NEW m, HandleTyped(m), m.protocol = version, NEW props \in Seq(Property), version # "v5" => props = <<>>, Opens(m, props)
  PROVE  AnnouncedIsWritten' /\ OversizeByHeader'
<1>1. PICK c, d : c = ConnectPacket(m, props) /\ d = ConnectDraft(m.protocol, c)
  OBVIOUS
<1>2. written' = Lengths("CONNECT", d, ConnectTexts(c), FALSE) \/ UNCHANGED written
  BY <1>1 DEF Opens
<1>3. Announces(d, ConnectTexts(c), FALSE)
  <2>1. Reckoned(Nat, d.announced, d.body, ConnectTexts(c))
    BY <1>1, ConnectAnnounced
  <2>2. QED BY <2>1 DEF Announces, Reckoned
<1>4. "CONNECT" # "PUBLISH" /\ "CONNECT" \notin {"SUBSCRIBE", "UNSUBSCRIBE"}
  OBVIOUS
<1>5. CASE UNCHANGED written
  BY <1>5 DEF AnnouncedIsWritten, OversizeByHeader
<1>6. QED BY <1>2, <1>3, <1>4, <1>5, LengthsKept

LEMMA NextWritten ==
  IInv /\ (AnnouncedIsWritten /\ OversizeByHeader) /\ [Next]_vars
    => (AnnouncedIsWritten /\ OversizeByHeader)'
<1> SUFFICES ASSUME IInv, AnnouncedIsWritten, OversizeByHeader, [Next]_vars
             PROVE  (AnnouncedIsWritten /\ OversizeByHeader)'
  OBVIOUS
<1>1. version \in Versions /\ HandleTyped(mosq) /\ mosq.maximumPacketSize \in Nat
  BY DEF IInv, Typed, HandleTyped, Handles
<1>2. CASE UNCHANGED written
  BY <1>2 DEF AnnouncedIsWritten, OversizeByHeader
<1>3. CASE Connect
  <2>1. PICK m, n, props : ConnectDoes(m, n, props)
    BY <1>1, <1>3, ConnectDone
  <2>2. /\ HandleTyped(n) /\ n.protocol = version /\ props \in Seq(Property)
        /\ (version # "v5" => props = <<>>) /\ (Opens(n, props) \/ UNCHANGED written)
    BY <2>1 DEF ConnectDoes, Made
  <2>3. QED BY <1>1, <1>2, <2>2, OpensWrites
<1>4. CASE Reconnect
  <2>1. conns > 0 /\ Opens(mosq, <<>>)
    BY <1>4 DEF Reconnect
  <2>2. mosq.protocol = version
    BY <2>1 DEF IInv, Typed
  <2>3. <<>> \in Seq(Property)
    BY EmptySeq
  <2>4. QED BY <1>1, <2>1, <2>2, <2>3, OpensWrites
<1>5. CASE Call
  <2>1. mosq.protocol = version
    BY <1>5 DEF Call, IInv, Typed
  <2>2. ASSUME NEW r \in Requests, CallDoes(Requested(r))
        PROVE  (AnnouncedIsWritten /\ OversizeByHeader)'
    <3>1. PICK p, d : p = Requested(r) /\ d = DraftOf(version, p)
      OBVIOUS
    <3>2. /\ p \in Publication \cup Subscription \cup Farewell
          /\ (version # "v5" => p.props = <<>>)
          /\ CallVerdict(version, mosq, p) = "SUCCESS" /\ SendVerdict(p, d) = "SUCCESS"
          /\ written' = Lengths(p.kind, d, AllTexts(p.props), Dropped(p))
      BY <2>2, <3>1 DEF CallDoes, Asked
    <3>3. Announces(d, AllTexts(p.props), Dropped(p)) /\ Dropped(p) \in BOOLEAN
      BY <3>1, <3>2, CallAnnounced DEF Dropped
    <3>4. p.kind = "PUBLISH" => ~Oversize(mosq.maximumPacketSize, d.announced)
      BY <3>2, SendAllocates
    <3>5. p.kind \in {"SUBSCRIBE", "UNSUBSCRIBE"} /\ mosq.maximumPacketSize > 0 =>
            d.announced <= mosq.maximumPacketSize
      <4>1. p.kind \in {"SUBSCRIBE", "UNSUBSCRIBE"} => p \in Subscription
        BY <3>2 DEF Publication, Farewell
      <4>2. QED BY <1>1, <3>1, <3>2, <4>1, FiltersFit
    <3>6. QED BY <1>1, <3>2, <3>3, <3>4, <3>5, LengthsKept
  <2>3. QED BY <1>2, <1>5, <2>1, <2>2, CallDone
<1>6. CASE Return
  BY <1>6, NothingKept DEF Return
<1>7. QED
  BY <1>2, <1>3, <1>4, <1>5, <1>6 DEF Next, vars, SetWill, ClearWill, BrokerSends, Lose,
     ReadCommand, ReadLength, ReadPayload, Handle, NoCall

LEMMA InitWritten == Init => AnnouncedIsWritten /\ OversizeByHeader
<1>1. ~(0 > 0)
  BY SMT
<1>2. QED BY <1>1 DEF AnnouncedIsWritten, OversizeByHeader, Nothing, Init

THEOREM Written == Spec => [](AnnouncedIsWritten /\ OversizeByHeader)
  BY Inductive, InitWritten, NextWritten, PTL DEF Spec

\* Of every packet that a call or a connection writes, what is announced is what follows, unless
\* one of its texts has more bytes than a length of two bytes can say, or the properties of a
\* PUBLISH have so many that they are left out but for their length; in these cases it never is
\* (send_connect.c:84-205, send_publish.c:132-215, send_subscribe.c, property_mosq.c:265-432,
\* utf8_mosq.c:31).
THEOREM PacketsAsAnnounced == Spec => []AnnouncedIsWritten
  BY Written, PTL

\* Of the fixed header a PUBLISH exceeds the maximum packet size of the broker with one byte at
\* most, a SUBSCRIBE or UNSUBSCRIBE with all of it at most (packet_mosq.c:187-199,
\* actions.c:202-208, actions.c:267-273).
THEOREM PacketsWithinLimit == Spec => []OversizeByHeader
  BY Written, PTL

=============================================================================
