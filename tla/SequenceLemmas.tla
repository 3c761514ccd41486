--------------------------- MODULE SequenceLemmas ---------------------------
(***************************************************************************)
(* Lemmas about lists: what replacing and removing an entry does to them   *)
(* (msgs_out and msgs_in), what their sums and joins are (the lengths of   *)
(* packets and of their parts), and functions defined by recursion over    *)
(* places in them (the decoders).                                          *)
(***************************************************************************)
EXTENDS Integers, Sequences, SequencesExt, SequenceTheorems, WellFoundedInduction, TLAPS

\* Replacing one entry of a list.
LEMMA ReplaceEntry ==
  ASSUME NEW S, NEW s \in Seq(S), NEW i \in DOMAIN s, NEW e \in S
  PROVE  /\ [s EXCEPT ![i] = e] \in Seq(S)
         /\ Len([s EXCEPT ![i] = e]) = Len(s)
         /\ DOMAIN [s EXCEPT ![i] = e] = DOMAIN s
         /\ \A j \in DOMAIN s : [s EXCEPT ![i] = e][j] = IF j = i THEN e ELSE s[j]
  BY ExceptSeq, LenProperties

\* Removing one entry of a list (message__remove).
LEMMA RemoveEntry ==
  ASSUME NEW S, NEW s \in Seq(S), NEW i \in DOMAIN s
  PROVE  /\ RemoveAt(s, i) \in Seq(S)
         /\ Len(RemoveAt(s, i)) = Len(s) - 1
         /\ \A j \in 1 .. Len(s) - 1 :
              RemoveAt(s, i)[j] = IF j < i THEN s[j] ELSE s[j + 1]
<1>1. i \in 1 .. Len(s) /\ Len(s) \in Nat
  BY LenProperties
<1>2. \A j \in 1 .. Len(s) : s[j] \in S
  BY ElementOfSeq
<1>3. /\ SubSeq(s, 1, i - 1) \in Seq(S)
      /\ Len(SubSeq(s, 1, i - 1)) = i - 1
      /\ \A j \in 1 .. i - 1 : SubSeq(s, 1, i - 1)[j] = s[j]
  <2>1. /\ SubSeq(s, 1, i - 1) \in Seq(S)
        /\ Len(SubSeq(s, 1, i - 1)) = IF 1 <= i - 1 THEN (i - 1) - 1 + 1 ELSE 0
        /\ \A j \in 1 .. (i - 1) - 1 + 1 : SubSeq(s, 1, i - 1)[j] = s[1 + j - 1]
    BY <1>1, <1>2, SubSeqProperties
  <2>2. QED BY <1>1, <2>1
<1>4. /\ SubSeq(s, i + 1, Len(s)) \in Seq(S)
      /\ Len(SubSeq(s, i + 1, Len(s))) = Len(s) - i
      /\ \A j \in 1 .. Len(s) - i : SubSeq(s, i + 1, Len(s))[j] = s[i + j]
  <2>1. /\ SubSeq(s, i + 1, Len(s)) \in Seq(S)
        /\ Len(SubSeq(s, i + 1, Len(s))) =
             IF i + 1 <= Len(s) THEN Len(s) - (i + 1) + 1 ELSE 0
        /\ \A j \in 1 .. Len(s) - (i + 1) + 1 :
             SubSeq(s, i + 1, Len(s))[j] = s[i + 1 + j - 1]
    BY <1>1, <1>2, SubSeqProperties
  <2>2. QED BY <1>1, <2>1
<1> DEFINE a == SubSeq(s, 1, i - 1)
           b == SubSeq(s, i + 1, Len(s))
<1> HIDE DEF a, b
<1>5. /\ a \o b \in Seq(S)
      /\ Len(a \o b) = Len(a) + Len(b)
      /\ \A j \in 1 .. Len(a) + Len(b) :
           (a \o b)[j] = IF j <= Len(a) THEN a[j] ELSE b[j - Len(a)]
  <2>1. a \in Seq(S) /\ b \in Seq(S)
    BY <1>3, <1>4 DEF a, b
  <2>2. QED BY <2>1, ConcatProperties
<1>6. Len(a) = i - 1 /\ Len(b) = Len(s) - i
  BY <1>3, <1>4 DEF a, b
<1>7. ASSUME NEW j \in 1 .. Len(s) - 1
      PROVE  (a \o b)[j] = IF j < i THEN s[j] ELSE s[j + 1]
  <2>1. CASE j < i
    <3>1. (a \o b)[j] = a[j]
      BY <1>1, <1>5, <1>6, <2>1
    <3>2. a[j] = s[j]
      BY <1>1, <1>3, <2>1 DEF a
    <3>3. QED BY <2>1, <3>1, <3>2
  <2>2. CASE ~(j < i)
    <3>1. (a \o b)[j] = b[j - (i - 1)]
      <4>1. j \in 1 .. Len(a) + Len(b) /\ ~(j <= Len(a))
        BY <1>1, <1>6, <2>2
      <4>2. (a \o b)[j] = b[j - Len(a)]
        BY <1>5, <4>1
      <4>3. QED BY <1>6, <4>2
    <3>2. j - (i - 1) \in 1 .. Len(s) - i /\ i + (j - (i - 1)) = j + 1
      BY <1>1, <2>2
    <3>3. b[j - (i - 1)] = s[i + (j - (i - 1))]
      BY <1>4, <3>2 DEF b
    <3>4. QED BY <2>2, <3>1, <3>2, <3>3
  <2>3. QED BY <2>1, <2>2
<1> DEFINE c == a \o b
<1>8. RemoveAt(s, i) = c
  BY DEF RemoveAt, a, b
<1>9. /\ c \in Seq(S)
      /\ Len(c) = Len(s) - 1
      /\ \A j \in 1 .. Len(s) - 1 : c[j] = IF j < i THEN s[j] ELSE s[j + 1]
  <2>1. c \in Seq(S)
    BY <1>5
  <2>2. Len(c) = (i - 1) + (Len(s) - i)
    BY <1>5, <1>6
  <2>3. (i - 1) + (Len(s) - i) = Len(s) - 1
    BY <1>1
  <2>4. QED BY <1>7, <2>1, <2>2, <2>3
<1> HIDE DEF c
<1>10. QED BY <1>8, <1>9

\* The elements of a list after an element is appended, and where they stand.
LEMMA AppendElements ==
  ASSUME NEW S, NEW s \in Seq(S), NEW e \in S
  PROVE  /\ ToSet(Append(s, e)) = ToSet(s) \cup {e}
         /\ DOMAIN Append(s, e) = DOMAIN s \cup {Len(s) + 1}
         /\ Len(s) + 1 \notin DOMAIN s
         /\ Append(s, e)[Len(s) + 1] = e
         /\ \A k \in DOMAIN s : Append(s, e)[k] = s[k]
<1> DEFINE a == Append(s, e)
           n == Len(s) + 1
<1>1. /\ a \in Seq(S) /\ Len(a) = n
      /\ \A k \in 1 .. Len(s) : a[k] = s[k]
      /\ a[n] = e
  BY AppendProperties
<1>2. DOMAIN s = 1 .. Len(s) /\ DOMAIN a = 1 .. n /\ Len(s) \in Nat
  BY <1>1, LenProperties
<1> HIDE DEF a
<1>3. DOMAIN a = DOMAIN s \cup {n} /\ n \notin DOMAIN s
  BY <1>2
<1> HIDE DEF n
<1>4. ToSet(a) = ToSet(s) \cup {e}
  BY SMTT(30), <1>1, <1>2, <1>3 DEF ToSet
<1>5. QED BY <1>1, <1>2, <1>3, <1>4 DEF a, n

\* The elements of a list after its head is taken off, and where they stand.
LEMMA TailElements ==
  ASSUME NEW S, NEW s \in Seq(S), s # <<>>
  PROVE  /\ Head(s) \in S /\ Tail(s) \in Seq(S)
         /\ ToSet(s) = ToSet(Tail(s)) \cup {Head(s)}
         /\ 1 \in DOMAIN s /\ s[1] = Head(s)
         /\ \A k \in DOMAIN Tail(s) : k + 1 \in DOMAIN s /\ Tail(s)[k] = s[k + 1]
                                                         /\ k + 1 # 1
<1> DEFINE t == Tail(s)
<1>1. /\ Head(s) \in S /\ Head(s) = s[1]
      /\ t \in Seq(S) /\ Len(t) = Len(s) - 1
      /\ \A k \in 1 .. Len(t) : t[k] = s[k + 1]
  BY HeadTailProperties
<1>2. DOMAIN s = 1 .. Len(s) /\ DOMAIN t = 1 .. Len(s) - 1 /\ Len(s) \in Nat
      /\ Len(s) # 0
  <2>1. Len(s) # 0
    BY EmptySeq
  <2>2. QED BY <1>1, <2>1, LenProperties
<1> HIDE DEF t
<1>3. \A k \in DOMAIN t : k + 1 \in DOMAIN s /\ t[k] = s[k + 1] /\ k + 1 # 1
  BY <1>1, <1>2
<1>4. \A k \in DOMAIN s : k = 1 \/ \E j \in DOMAIN t : k = j + 1
  <2>1. ASSUME NEW k \in DOMAIN s, k # 1
        PROVE  k - 1 \in DOMAIN t /\ k = (k - 1) + 1
    BY <1>2, <2>1
  <2>2. QED BY <2>1
<1>5. ToSet(s) = ToSet(t) \cup {Head(s)}
  <2>1. ASSUME NEW x \in ToSet(s) PROVE x \in ToSet(t) \cup {Head(s)}
    <3>1. PICK k \in DOMAIN s : x = s[k]
      BY DEF ToSet
    <3>2. CASE k = 1
      BY <1>1, <3>1, <3>2
    <3>3. CASE \E j \in DOMAIN t : k = j + 1
      BY <1>3, <3>1, <3>3 DEF ToSet
    <3>4. QED BY <1>4, <3>2, <3>3
  <2>2. ASSUME NEW x \in ToSet(t) \cup {Head(s)} PROVE x \in ToSet(s)
    BY <1>1, <1>2, <1>3 DEF ToSet
  <2>3. QED BY <2>1, <2>2
<1>6. QED BY <1>1, <1>2, <1>3, <1>5 DEF t

-----------------------------------------------------------------------------
(* Induction over natural numbers, and functions that are defined by recursion *)

\* A set of natural numbers that is not empty has a least element.
LEMMA LeastNat ==
  ASSUME NEW T, T \subseteq Nat, T # {}
  PROVE  \E m \in T : \A k \in T : m <= k
<1> DEFINE R == OpToRel(<, Nat)
<1>1. IsWellFoundedOn(R, Nat)
  BY NatLessThanWellFounded
<1>2. \A x, y \in Nat : <<x, y>> \in R <=> x < y
  BY DEF OpToRel
<1> HIDE DEF R
<1>3. PICK m \in T : \A k \in T : ~(<<k, m>> \in R)
  BY <1>1, WFMin
<1>4. \A k \in T : ~(k < m)
  BY <1>2, <1>3
<1>5. QED BY SMT, <1>3, <1>4

\* Induction: a set that has 0 and with each number below n the next one has all up to n.
LEMMA UpTo ==
  ASSUME NEW n \in Nat, NEW T, 0 \in T, \A k \in 0..n - 1 : k \in T => k + 1 \in T
  PROVE  \A k \in 0..n : k \in T
<1> DEFINE Out == {k \in 0..n : k \notin T}
<1>1. SUFFICES ASSUME Out # {} PROVE FALSE
  BY DEF Out
<1>2. PICK m \in Out : \A k \in Out : m <= k
  <2>1. Out \subseteq Nat
    BY SMT DEF Out
  <2>2. QED BY <1>1, <2>1, LeastNat
<1>3. m \in 0..n /\ m \notin T /\ \A k \in 0..n : k \notin T => m <= k
  BY <1>2 DEF Out
<1>4. m # 0
  BY <1>3
<1>5. m - 1 \in 0..n - 1 /\ m - 1 \in 0..n /\ ~(m <= m - 1) /\ (m - 1) + 1 = m
  BY SMT, <1>3, <1>4
<1>6. QED BY <1>3, <1>5

\* f begins with base and goes on as the step says.
Unfolds(f, n, base, step) == f[0] = base /\ \A i \in 1..n : f[i] = step[i][f[i - 1]]

\* Recursion upwards from 0: the function that a step defines exists.
LEMMA UpwardRecursion ==
  ASSUME NEW n \in Nat, NEW V, NEW base \in V, NEW step \in [1..n -> [V -> V]]
  PROVE  \E f \in [0..n -> V] : Unfolds(f, n, base, step)
<1> USE DEF Unfolds
<1> DEFINE Good(k) == \E f \in [0..k -> V] :
             f[0] = base /\ \A i \in 1..k : f[i] = step[i][f[i - 1]]
           T == {k \in 0..n : Good(k)}
<1>1. 0 \in T
  <2>1. [i \in 0..0 |-> base] \in [0..0 -> V]
    OBVIOUS
  <2>2. 0 \in 0..0 /\ (1..0) = {} /\ 0 \in 0..n
    BY SMT
  <2>3. [i \in 0..0 |-> base][0] = base
    BY <2>2
  <2>4. Good(0)
    BY <2>1, <2>2, <2>3
  <2>5. QED BY <2>2, <2>4
<1>2. ASSUME NEW k \in 0..n - 1, k \in T PROVE k + 1 \in T
  <2>1. PICK f \in [0..k -> V] : f[0] = base /\ \A i \in 1..k : f[i] = step[i][f[i - 1]]
    BY <1>2
  <2> DEFINE g == [i \in 0..k + 1 |-> IF i = k + 1 THEN step[k + 1][f[k]] ELSE f[i]]
  <2>2. k + 1 \in 1..n /\ k \in 0..k /\ k + 1 \in 0..n /\ k + 1 \in 0..k + 1 /\ 0 \in 0..k + 1
        /\ 0 # k + 1 /\ k # k + 1 /\ k \in Nat
    BY SMT
  <2>3. \A i \in 0..k + 1 : i # k + 1 => i \in 0..k
    BY SMT
  <2>4. f[k] \in V /\ step[k + 1] \in [V -> V]
    BY <2>1, <2>2
  <2>5. g \in [0..k + 1 -> V]
    BY <2>1, <2>3, <2>4
  <2>6. g[0] = base
    BY <2>1, <2>2
  <2>7. ASSUME NEW i \in 1..k + 1 PROVE g[i] = step[i][g[i - 1]]
    <3>1. i \in 0..k + 1 /\ i - 1 \in 0..k + 1 /\ i - 1 # k + 1 /\ (i # k + 1 => i \in 1..k)
          /\ (i = k + 1 => i - 1 = k)
      BY SMT
    <3>2. g[i - 1] = f[i - 1]
      BY <3>1
    <3>3. CASE i = k + 1
      BY <3>1, <3>2, <3>3
    <3>4. CASE i # k + 1
      BY <2>1, <3>1, <3>2, <3>4
    <3>5. QED BY <3>3, <3>4
  <2> HIDE DEF g
  <2>8. Good(k + 1)
    BY <2>5, <2>6, <2>7
  <2>9. QED BY <2>2, <2>8
<1> HIDE DEF T
<1>3. n \in T
  <2>1. \A k \in 0..n : k \in T
    BY <1>1, <1>2, UpTo
  <2>2. n \in 0..n
    BY SMT
  <2>3. QED BY <2>1, <2>2
<1>4. QED BY <1>3 DEF T

\* The greatest element of a set of numbers up to n is one of them.
LEMMA MaxIsThere ==
  ASSUME NEW n \in Nat, NEW T, T \subseteq 1..n, T # {}
  PROVE  Max(T) \in T /\ \A k \in T : k <= Max(T)
<1> DEFINE Below == {n - k : k \in T}
<1>1. Below \subseteq Nat /\ Below # {}
  <2>1. \A k \in T : n - k \in Nat
    BY SMT
  <2>2. QED BY <2>1
<1>2. PICK m \in Below : \A k \in Below : m <= k
  BY <1>1, LeastNat
<1>3. PICK x \in T : m = n - x
  BY <1>2
<1>4. \A y \in T : x >= y
  <2>1. SUFFICES ASSUME NEW y \in T PROVE x >= y
    OBVIOUS
  <2>2. n - y \in Below
    OBVIOUS
  <2>3. n - x <= n - y
    BY <1>2, <1>3, <2>2
  <2>4. x \in Int /\ y \in Int
    BY SMT
  <2>5. QED BY SMT, <2>3, <2>4
<1>5. Max(T) \in T /\ \A y \in T : Max(T) >= y
  BY <1>3, <1>4 DEF Max
<1>6. QED BY SMT, <1>5

\* The sum of a sequence, and the sums of what it begins with.
SumOf(s) == FoldLeft(LAMBDA sum, n : sum + n, 0, s)
Sums(P, s) ==
  P \in [0..Len(s) -> Nat] /\ P[0] = 0 /\ \A k \in 1..Len(s) : P[k] = P[k - 1] + s[k]

\* Adding up a sequence goes from one of these sums to the next.
LEMMA PartialSums ==
  ASSUME NEW s \in Seq(Nat)
  PROVE  \E P : Sums(P, s) /\ SumOf(s) = P[Len(s)]
<1> DEFINE n == Len(s)
           W == SUBSET (1..n)
           V == [W -> Nat]
           zero == [t \in W |-> 0]
           Longer(k, g) == [t \in W |-> IF k \in t THEN g[t] + s[k] ELSE g[t]]
           step == [k \in 1..n |-> [g \in V |-> Longer(k, g)]]
<1>1. n \in Nat /\ DOMAIN s = 1..n /\ \A i \in 1..n : s[i] \in Nat
  BY LenProperties, ElementOfSeq
<1>2. \A k \in 1..n, g \in V : Longer(k, g) \in V
  <2>1. SUFFICES ASSUME NEW k \in 1..n, NEW g \in V PROVE Longer(k, g) \in V
    OBVIOUS
  <2>2. \A t \in W : g[t] \in Nat /\ g[t] + s[k] \in Nat
    <3>1. ASSUME NEW t \in W PROVE g[t] \in Nat /\ g[t] + s[k] \in Nat
      <4>1. g[t] \in Nat /\ s[k] \in Nat
        BY <1>1
      <4>2. QED BY SMT, <4>1
    <3>2. QED BY <3>1
  <2>3. QED BY <2>2
<1>3. PICK G \in [0..n -> V] : G[0] = zero /\ \A i \in 1..n : G[i] = step[i][G[i - 1]]
  <2>1. zero \in V
    OBVIOUS
  <2>2. step \in [1..n -> [V -> V]]
    <3> HIDE DEF Longer
    <3>1. QED BY <1>2
  <2>3. n \in Nat
    BY <1>1
  <2> HIDE DEF step, Longer, zero, V, W, n
  <2>4. \E f \in [0..n -> V] : Unfolds(f, n, zero, step)
    BY <2>1, <2>2, <2>3, UpwardRecursion
  <2>5. QED BY <2>4 DEF Unfolds
<1>4. \A i \in 1..n : G[i - 1] \in V /\ G[i] = Longer(i, G[i - 1])
  <2>1. SUFFICES ASSUME NEW i \in 1..n PROVE G[i - 1] \in V /\ G[i] = Longer(i, G[i - 1])
    OBVIOUS
  <2>2. i - 1 \in 0..n
    BY SMT, <1>1
  <2>3. G[i - 1] \in V
    BY <1>3, <2>2
  <2>5. step[i][G[i - 1]] = Longer(i, G[i - 1])
    <3> HIDE DEF Longer, V
    <3>1. QED BY <2>3
  <2> HIDE DEF step, Longer
  <2>6. QED BY <1>3, <2>3, <2>5
<1>5. \A i \in 1..n : \A t \in W : G[i - 1][t] \in Nat /\ s[i] \in Nat
        /\ G[i][t] = IF i \in t THEN G[i - 1][t] + s[i] ELSE G[i - 1][t]
  <2>1. SUFFICES ASSUME NEW i \in 1..n, NEW t \in W
                 PROVE  /\ G[i - 1][t] \in Nat /\ s[i] \in Nat
                        /\ G[i][t] = IF i \in t THEN G[i - 1][t] + s[i] ELSE G[i - 1][t]
    OBVIOUS
  <2>2. G[i - 1] \in V /\ G[i] = Longer(i, G[i - 1])
    BY <1>4
  <2>3. G[i - 1][t] \in Nat
    BY <2>2
  <2>4. s[i] \in Nat
    BY <1>1
  <2>5. QED BY <2>2, <2>3, <2>4
<1>6. \A t \in W : G[0][t] = 0
  BY <1>3
<1> DEFINE F == G[n]
<1>7. ASSUME NEW t \in W, NEW x \in t PROVE F[t] = F[t \ {x}] + s[x]
  <2> DEFINE T == {k \in 0..n : G[k][t] = IF k >= x THEN G[k][t \ {x}] + s[x] ELSE G[k][t \ {x}]}
  <2>1. t \ {x} \in W /\ x \in 1..n
    OBVIOUS
  <2>2. 0 \in T
    <3>1. ~(0 >= x) /\ 0 \in 0..n
      BY SMT, <2>1, <1>1
    <3>2. QED BY <1>6, <2>1, <3>1
  <2>3. ASSUME NEW k \in 0..n - 1, k \in T PROVE k + 1 \in T
    <3>1. k + 1 \in 1..n /\ k + 1 \in 0..n /\ (k + 1) - 1 = k
      BY SMT, <1>1
    <3>2. /\ G[k][t] \in Nat /\ G[k][t \ {x}] \in Nat /\ s[k + 1] \in Nat /\ s[x] \in Nat
          /\ G[k + 1][t] = IF k + 1 \in t THEN G[k][t] + s[k + 1] ELSE G[k][t]
          /\ G[k + 1][t \ {x}] =
               IF k + 1 \in t \ {x} THEN G[k][t \ {x}] + s[k + 1] ELSE G[k][t \ {x}]
      <4>1. /\ G[(k + 1) - 1][t] \in Nat /\ s[k + 1] \in Nat
            /\ G[k + 1][t] = IF k + 1 \in t THEN G[(k + 1) - 1][t] + s[k + 1]
                            ELSE G[(k + 1) - 1][t]
        <5>1. t \in W /\ k + 1 \in 1..n
          BY <3>1
        <5>2. QED BY SMTT(30), <1>5, <5>1
      <4>2. /\ G[(k + 1) - 1][t \ {x}] \in Nat
            /\ G[k + 1][t \ {x}] =
                 IF k + 1 \in t \ {x} THEN G[(k + 1) - 1][t \ {x}] + s[k + 1]
                 ELSE G[(k + 1) - 1][t \ {x}]
        BY ZenonT(60), <1>5, <2>1, <3>1
      <4>3. s[x] \in Nat
        BY <1>1, <2>1
      <4>4. QED BY <3>1, <4>1, <4>2, <4>3
    <3>3. G[k][t] = IF k >= x THEN G[k][t \ {x}] + s[x] ELSE G[k][t \ {x}]
      BY <2>3
    <3>4. (k + 1 # x => (k + 1 \in t <=> k + 1 \in t \ {x})) /\ (k + 1 = x => k + 1 \in t /\ ~(k + 1 \in t \ {x}))
      OBVIOUS
    <3>5. G[k + 1][t] = IF k + 1 >= x THEN G[k + 1][t \ {x}] + s[x] ELSE G[k + 1][t \ {x}]
      <4>1. PICK a \in Nat, b \in Nat, c \in Nat, d \in Nat :
              a = G[k][t] /\ b = G[k][t \ {x}] /\ c = s[k + 1] /\ d = s[x]
        BY <3>2
      <4>2. CASE k + 1 = x
        <5>1. G[k + 1][t] = a + c /\ G[k + 1][t \ {x}] = b /\ c = d
          BY <3>2, <3>4, <4>1, <4>2
        <5>2. a = b
          <6>1. ~(k >= x)
            BY SMT, <4>2, <2>1
          <6>2. QED BY <3>3, <4>1, <6>1
        <5>3. k + 1 >= x
          BY SMT, <4>2
        <5>4. QED BY <4>1, <5>1, <5>2, <5>3
      <4>3. CASE k + 1 # x
        <5>1. k + 1 >= x <=> k >= x
          BY SMT, <4>3, <2>1
        <5>2. a = IF k >= x THEN b + d ELSE b
          BY <3>3, <4>1
        <5>3. CASE k + 1 \in t
          <6>1. G[k + 1][t] = a + c /\ G[k + 1][t \ {x}] = b + c
            BY <3>2, <3>4, <4>1, <4>3, <5>3
          <6>2. a + c = IF k + 1 >= x THEN (b + c) + d ELSE b + c
            BY SMT, <5>1, <5>2
          <6>3. QED BY <4>1, <6>1, <6>2
        <5>4. CASE k + 1 \notin t
          <6>1. G[k + 1][t] = a /\ G[k + 1][t \ {x}] = b
            BY <3>2, <3>4, <4>1, <4>3, <5>4
          <6>2. QED BY <4>1, <5>1, <5>2, <6>1
        <5>5. QED BY <5>3, <5>4
      <4>4. QED BY <4>2, <4>3
    <3>6. QED BY <3>1, <3>5
  <2> HIDE DEF T
  <2>4. n \in T
    <3>1. \A k \in 0..n : k \in T
      BY <1>1, <2>2, <2>3, UpTo
    <3>2. n \in 0..n
      BY SMT, <1>1
    <3>3. QED BY <3>1, <3>2
  <2>5. n >= x
    BY SMT, <1>1, <2>1
  <2>6. QED BY <2>4, <2>5 DEF T
<1>8. F[{}] = 0
  <2> DEFINE T == {k \in 0..n : G[k][{}] = 0}
  <2>1. {} \in W
    OBVIOUS
  <2>2. 0 \in T
    <3>1. 0 \in 0..n
      BY SMT, <1>1
    <3>2. QED BY <1>6, <2>1, <3>1
  <2>3. ASSUME NEW k \in 0..n - 1, k \in T PROVE k + 1 \in T
    <3>1. k + 1 \in 1..n /\ k + 1 \in 0..n /\ (k + 1) - 1 = k
      BY SMT, <1>1
    <3>2. G[k + 1][{}] = G[k][{}]
      BY <1>5, <2>1, <3>1
    <3>3. QED BY <2>3, <3>1, <3>2
  <2> HIDE DEF T
  <2>4. \A k \in 0..n : k \in T
    BY <1>1, <2>2, <2>3, UpTo
  <2>5. n \in 0..n
    BY SMT, <1>1
  <2>6. QED BY <2>4, <2>5 DEF T
<1>9. F = [t \in SUBSET (DOMAIN s) |-> IF t = {} THEN 0 ELSE F[t \ {Max(t)}] + s[Max(t)]]
  <2>1. F \in [W -> Nat]
    <3>1. n \in 0..n
      BY SMT, <1>1
    <3>2. QED BY <1>3, <3>1
  <2>2. \A t \in W : F[t] = IF t = {} THEN 0 ELSE F[t \ {Max(t)}] + s[Max(t)]
    <3> HIDE DEF F
    <3>1. ASSUME NEW t \in W, t # {} PROVE F[t] = F[t \ {Max(t)}] + s[Max(t)]
      <4>1. Max(t) \in t
        BY <1>1, <3>1, MaxIsThere
      <4>2. QED BY <1>7, <4>1
    <3>2. QED BY <1>8, <3>1
  <2> HIDE DEF F
  <2>3. QED BY <1>1, <2>1, <2>2
<1> HIDE DEF F
<1> DEFINE C == CHOOSE f : f = [t \in SUBSET (DOMAIN s) |->
                                  IF t = {} THEN 0 ELSE f[t \ {Max(t)}] + s[Max(t)]]
<1>10. C = [t \in SUBSET (DOMAIN s) |-> IF t = {} THEN 0 ELSE C[t \ {Max(t)}] + s[Max(t)]]
  BY <1>9
<1>11. SumOf(s) = C[DOMAIN s]
  BY DEF SumOf, FoldLeft, MapThenFoldSet
<1> HIDE DEF C
<1>12. \A t \in W : C[t] = IF t = {} THEN 0 ELSE C[t \ {Max(t)}] + s[Max(t)]
  BY <1>1, <1>10
<1> DEFINE P == [k \in 0..n |-> C[1..k]]
<1>13. P[0] = 0
  <2>1. 1..0 = {} /\ 0 \in 0..n /\ {} \in W
    BY SMT, <1>1
  <2>2. C[{}] = 0
    BY <1>12, <2>1
  <2>3. QED BY <2>1, <2>2
<1>14. ASSUME NEW k \in 1..n PROVE P[k] = P[k - 1] + s[k]
  <2>1. /\ k \in 0..n /\ k - 1 \in 0..n /\ k \in Nat
        /\ k \in 1..k /\ 1..k \subseteq 1..n /\ (1..k) \ {k} = 1..k - 1
    BY SMT, <1>1
  <2>2. Max(1..k) = k
    <3>1. 1..k # {} /\ 1..k \subseteq 1..k
      BY <2>1
    <3>2. Max(1..k) \in 1..k /\ \A j \in 1..k : j <= Max(1..k)
      BY <2>1, <3>1, MaxIsThere
    <3>3. PICK x \in 1..k : x = Max(1..k) /\ k <= x
      BY <2>1, <3>2
    <3>4. x = k
      BY SMT, <2>1, <3>3
    <3>5. QED BY <3>3, <3>4
  <2>3. C[1..k] = C[1..k - 1] + s[k]
    <3>1. 1..k \in W /\ 1..k # {}
      BY <2>1
    <3>2. QED BY <1>12, <2>1, <2>2, <3>1
  <2>4. QED BY <2>1, <2>3
<1>15. \A k \in 0..n : P[k] \in Nat
  <2> DEFINE T == {k \in 0..n : P[k] \in Nat}
  <2>1. 0 \in T
    <3>1. 0 \in 0..n
      BY SMT, <1>1
    <3> HIDE DEF P
    <3>2. QED BY <1>13, <3>1
  <2>2. ASSUME NEW k \in 0..n - 1, k \in T PROVE k + 1 \in T
    <3>1. k + 1 \in 1..n /\ k + 1 \in 0..n /\ (k + 1) - 1 = k
      BY SMT, <1>1
    <3> HIDE DEF P
    <3>2. P[k + 1] = P[k] + s[k + 1] /\ P[k] \in Nat /\ s[k + 1] \in Nat
      BY <1>1, <1>14, <2>2, <3>1
    <3>3. PICK a \in Nat, b \in Nat : P[k + 1] = a + b
      BY <3>2
    <3>4. a + b \in Nat
      BY SMT
    <3>5. QED BY <3>1, <3>3, <3>4
  <2> HIDE DEF T
  <2>3. \A k \in 0..n : k \in T
    BY <1>1, <2>1, <2>2, UpTo
  <2>4. QED BY <2>3 DEF T
<1>16. P \in [0..n -> Nat]
  BY <1>15
<1>17. SumOf(s) = P[n]
  <2>1. n \in 0..n
    BY SMT, <1>1
  <2>2. QED BY <1>1, <1>11, <2>1
<1> HIDE DEF P, C
<1>18. QED BY <1>13, <1>14, <1>16, <1>17 DEF Sums

\* The sum is a natural number.
LEMMA SumIsNat == ASSUME NEW s \in Seq(Nat) PROVE SumOf(s) \in Nat
<1>1. PICK P : Sums(P, s) /\ SumOf(s) = P[Len(s)]
  BY PartialSums
<1>2. Len(s) \in Nat
  BY LenProperties
<1>3. Len(s) \in 0..Len(s)
  BY SMT, <1>2
<1>4. QED BY <1>1, <1>3 DEF Sums

\* Of two sequences the one with the greater elements has the greater sum, and the same
\* sum only if all elements are the same.
LEMMA SumsCompare ==
  ASSUME NEW s \in Seq(Nat), NEW t \in Seq(Nat), Len(s) = Len(t),
         \A i \in 1..Len(s) : s[i] >= t[i]
  PROVE  /\ SumOf(s) >= SumOf(t)
         /\ SumOf(s) = SumOf(t) <=> \A i \in 1..Len(s) : s[i] = t[i]
<1> DEFINE n == Len(s)
<1>1. /\ n \in Nat /\ n = Len(t)
      /\ \A i \in 1..n : s[i] \in Nat /\ t[i] \in Nat /\ s[i] >= t[i]
  BY LenProperties, ElementOfSeq
<1>2. PICK P : Sums(P, s) /\ SumOf(s) = P[n]
  BY PartialSums
<1>3. PICK Q : Sums(Q, t) /\ SumOf(t) = Q[n]
  BY <1>1, PartialSums
<1>4. /\ P[0] = 0 /\ Q[0] = 0
      /\ \A k \in 0..n : P[k] \in Nat /\ Q[k] \in Nat
      /\ \A k \in 1..n : P[k] = P[k - 1] + s[k] /\ Q[k] = Q[k - 1] + t[k]
  BY <1>1, <1>2, <1>3 DEF Sums
<1> HIDE DEF n
<1> DEFINE Fine(k) == /\ P[k] >= Q[k]
                      /\ P[k] = Q[k] <=> \A i \in 1..k : s[i] = t[i]
           T == {k \in 0..n : Fine(k)}
<1>5. 0 \in T
  <2>1. 0 \in 0..n /\ 1..0 = {} /\ 0 >= 0
    BY SMT, <1>1
  <2>2. QED BY <1>4, <2>1
<1>6. ASSUME NEW k \in 0..n - 1, k \in T PROVE k + 1 \in T
  <2>1. k + 1 \in 1..n /\ k + 1 \in 0..n /\ (k + 1) - 1 = k /\ k \in 0..n
    BY SMT, <1>1
  <2>2. PICK a \in Nat, b \in Nat, c \in Nat, d \in Nat :
          a = P[k] /\ b = Q[k] /\ c = s[k + 1] /\ d = t[k + 1]
    BY <1>1, <1>4, <2>1
  <2>3. P[k + 1] = a + c /\ Q[k + 1] = b + d /\ c >= d
    BY <1>1, <1>4, <2>1, <2>2
  <2>4. a >= b /\ (a = b <=> \A i \in 1..k : s[i] = t[i])
    BY <1>6, <2>2
  <2>5. (\A i \in 1..k + 1 : s[i] = t[i]) <=> (\A i \in 1..k : s[i] = t[i]) /\ c = d
    <3>1. 1..k + 1 = 1..k \cup {k + 1}
      BY SMT, <2>1
    <3>2. QED BY <2>2, <3>1
  <2>6. a + c >= b + d /\ (a + c = b + d <=> a = b /\ c = d)
    BY SMT, <2>3, <2>4
  <2>7. QED BY <2>1, <2>3, <2>4, <2>5, <2>6
<1> HIDE DEF T
<1>7. n \in T
  <2>1. \A k \in 0..n : k \in T
    BY <1>1, <1>5, <1>6, UpTo
  <2>2. n \in 0..n
    BY SMT, <1>1
  <2>3. QED BY <2>1, <2>2
<1>8. Fine(n)
  BY <1>7 DEF T
<1>9. QED BY <1>2, <1>3, <1>8 DEF n

\* The concatenations of the first of a sequence of sequences.
Joins(F, s, S) ==
  F \in [0..Len(s) -> Seq(S)] /\ F[0] = <<>> /\ \A k \in 1..Len(s) : F[k] = F[k - 1] \o s[k]

\* FlattenSeq goes from one of these concatenations to the next.
LEMMA PartialJoins ==
  ASSUME NEW S, NEW s \in Seq(Seq(S))
  PROVE  \E F : Joins(F, s, S) /\ FlattenSeq(s) = F[Len(s)]
<1> DEFINE n == Len(s)
           V == Seq(S)
           step == [k \in 1..n |-> [u \in V |-> u \o s[k]]]
<1>1. n \in Nat /\ DOMAIN s = 1..n /\ \A i \in 1..n : s[i] \in V
  BY LenProperties, ElementOfSeq
<1>2. <<>> \in V /\ \A u, v \in V : u \o v \in V /\ <<>> \o v = v
  BY ConcatProperties, EmptySeq
<1>3. PICK G \in [0..n -> V] : G[0] = <<>> /\ \A i \in 1..n : G[i] = step[i][G[i - 1]]
  <2>1. step \in [1..n -> [V -> V]]
    BY <1>1, <1>2
  <2>2. n \in Nat /\ <<>> \in V
    BY <1>1, <1>2
  <2> HIDE DEF step, V, n
  <2>3. \E f \in [0..n -> V] : Unfolds(f, n, <<>>, step)
    BY <2>1, <2>2, UpwardRecursion
  <2>4. QED BY <2>3 DEF Unfolds
<1>4. \A i \in 1..n : G[i] = IF i = 1 THEN s[i] ELSE G[i - 1] \o s[i]
  <2>1. ASSUME NEW i \in 1..n PROVE G[i] = IF i = 1 THEN s[i] ELSE G[i - 1] \o s[i]
    <3>1. i - 1 \in 0..n /\ 1 - 1 = 0
      BY SMT, <1>1
    <3>2. G[i - 1] \in V
      BY <1>3, <3>1
    <3>3. G[i] = G[i - 1] \o s[i]
      BY <1>3, <3>2
    <3>4. i = 1 => G[i - 1] \o s[i] = s[i]
      BY <1>1, <1>2, <1>3, <3>1
    <3>5. QED BY <3>3, <3>4
  <2>2. QED BY <2>1
<1> DEFINE H == [i \in 1..n |-> G[i]]
<1>5. H = [i \in 1..n |-> IF i = 1 THEN s[i] ELSE H[i - 1] \o s[i]]
  <2>1. \A i \in 1..n : i # 1 => i - 1 \in 1..n
    BY SMT, <1>1
  <2>2. QED BY <1>4, <2>1
<1> HIDE DEF H
<1> DEFINE C == CHOOSE f : f = [i \in 1..n |-> IF i = 1 THEN s[i] ELSE f[i - 1] \o s[i]]
<1>6. C = [i \in 1..n |-> IF i = 1 THEN s[i] ELSE C[i - 1] \o s[i]]
  BY <1>5
<1>7. FlattenSeq(s) = IF n = 0 THEN s ELSE C[n]
  BY DEF FlattenSeq
<1> HIDE DEF C
<1> DEFINE F == [i \in 0..n |-> IF i = 0 THEN <<>> ELSE C[i]]
<1>8. ASSUME NEW k \in 1..n, F[k - 1] \in V PROVE F[k] = F[k - 1] \o s[k]
  <2>1. k \in 0..n /\ k - 1 \in 0..n /\ k # 0 /\ (k = 1 => k - 1 = 0) /\ (k # 1 => k - 1 # 0)
    BY SMT, <1>1
  <2>2. F[k] = C[k] /\ (k = 1 => F[k - 1] = <<>>) /\ (k # 1 => F[k - 1] = C[k - 1])
    BY <2>1
  <2>3. C[k] = IF k = 1 THEN s[k] ELSE C[k - 1] \o s[k]
    BY <1>6
  <2> HIDE DEF F
  <2>4. QED BY <1>1, <1>2, <2>2, <2>3
<1>9. F[0] = <<>>
  <2>1. 0 \in 0..n
    BY SMT, <1>1
  <2>2. QED BY <2>1
<1>10. \A k \in 0..n : F[k] \in V
  <2> DEFINE T == {k \in 0..n : F[k] \in V}
  <2>1. 0 \in T
    <3>1. 0 \in 0..n
      BY SMT, <1>1
    <3> HIDE DEF F
    <3>2. QED BY <1>2, <1>9, <3>1
  <2>2. ASSUME NEW k \in 0..n - 1, k \in T PROVE k + 1 \in T
    <3>1. k + 1 \in 1..n /\ k + 1 \in 0..n /\ (k + 1) - 1 = k
      BY SMT, <1>1
    <3> HIDE DEF F
    <3>2. F[(k + 1) - 1] \in V /\ F[k] \in V
      BY <2>2, <3>1
    <3>3. F[k + 1] = F[(k + 1) - 1] \o s[k + 1]
      BY <1>8, <3>1, <3>2
    <3>4. QED BY <1>1, <1>2, <3>1, <3>2, <3>3
  <2> HIDE DEF T, F
  <2>3. \A k \in 0..n : k \in T
    BY <1>1, <2>1, <2>2, UpTo
  <2>4. QED BY <2>3 DEF T
<1>11. F \in [0..n -> V]
  BY <1>10
<1>12. \A k \in 1..n : F[k] = F[k - 1] \o s[k]
  <2>1. \A k \in 1..n : k - 1 \in 0..n
    BY SMT, <1>1
  <2> HIDE DEF F
  <2>2. QED BY <1>8, <1>10, <2>1
<1>13. FlattenSeq(s) = F[n]
  <2>1. n \in 0..n
    BY SMT, <1>1
  <2>2. n = 0 => s = <<>>
    BY EmptySeq
  <2>3. QED BY <1>7, <2>1, <2>2
<1> HIDE DEF F
<1>14. QED BY <1>9, <1>11, <1>12, <1>13 DEF Joins

\* A flattened sequence is as long as its elements together.
LEMMA FlattenLength ==
  ASSUME NEW S, NEW s \in Seq(Seq(S))
  PROVE  /\ FlattenSeq(s) \in Seq(S)
         /\ Len(FlattenSeq(s)) = SumOf([i \in DOMAIN s |-> Len(s[i])])
<1> DEFINE n == Len(s)
           l == [i \in DOMAIN s |-> Len(s[i])]
<1>1. n \in Nat /\ DOMAIN s = 1..n /\ \A i \in 1..n : s[i] \in Seq(S) /\ Len(s[i]) \in Nat
  <2>1. n \in Nat /\ DOMAIN s = 1..n /\ \A i \in 1..n : s[i] \in Seq(S)
    BY LenProperties, ElementOfSeq
  <2>2. QED BY <2>1, LenProperties
<1>2. l \in Seq(Nat) /\ Len(l) = n /\ \A i \in 1..n : l[i] = Len(s[i])
  <2>1. l = [i \in 1..n |-> Len(s[i])]
    BY <1>1
  <2>2. l \in [1..n -> Nat]
    BY <1>1, <2>1
  <2> HIDE DEF n
  <2>3. l \in Seq(Nat) /\ Len(l) = n
    BY <1>1, <2>2, SMT
  <2>4. QED BY <1>1, <2>3 DEF n
<1>3. PICK F : Joins(F, s, S) /\ FlattenSeq(s) = F[n]
  BY PartialJoins
<1>4. PICK P : Sums(P, l) /\ SumOf(l) = P[n]
  BY <1>2, PartialSums
<1> HIDE DEF l
<1>5. /\ F[0] = <<>> /\ P[0] = 0
      /\ \A k \in 0..n : F[k] \in Seq(S)
      /\ \A k \in 1..n : F[k] = F[k - 1] \o s[k] /\ P[k] = P[k - 1] + l[k]
  BY <1>2, <1>3, <1>4 DEF Sums, Joins
<1> DEFINE T == {k \in 0..n : Len(F[k]) = P[k]}
<1>6. 0 \in T
  <2>1. 0 \in 0..n /\ Len(<<>>) = 0
    BY SMT, <1>1
  <2>2. QED BY <1>5, <2>1
<1>7. ASSUME NEW k \in 0..n - 1, k \in T PROVE k + 1 \in T
  <2>1. k + 1 \in 1..n /\ k + 1 \in 0..n /\ (k + 1) - 1 = k /\ k \in 0..n
    BY SMT, <1>1
  <2>2. F[k + 1] = F[k] \o s[k + 1] /\ P[k + 1] = P[k] + Len(s[k + 1])
    BY <1>2, <1>5, <2>1
  <2>3. Len(F[k] \o s[k + 1]) = Len(F[k]) + Len(s[k + 1])
    BY <1>1, <1>5, <2>1, ConcatProperties
  <2>4. QED BY <1>7, <2>1, <2>2, <2>3
<1> HIDE DEF T
<1>8. n \in T
  <2>1. \A k \in 0..n : k \in T
    BY <1>1, <1>6, <1>7, UpTo
  <2>2. n \in 0..n
    BY SMT, <1>1
  <2>3. QED BY <2>1, <2>2
<1>9. F[n] \in Seq(S)
  <2>1. n \in 0..n
    BY SMT, <1>1
  <2>2. QED BY <1>5, <2>1
<1>10. QED BY <1>3, <1>4, <1>8, <1>9 DEF T, l

\* f is base where it is done, and elsewhere goes on from a greater argument.
Descends(f, n, done, base, next, comb) ==
  \A i \in 0..n : f[i] = IF i \in done THEN base[i] ELSE comb[i][f[next[i]]]

\* Recursion downwards from n: the function that this defines exists.
LEMMA DownwardRecursion ==
  ASSUME NEW n \in Nat, NEW V, NEW done, NEW base \in [0..n -> V], NEW next,
         NEW comb \in [0..n -> [V -> V]],
         \A i \in 0..n : i \notin done => next[i] \in i + 1..n
  PROVE  \E f \in [0..n -> V] : Descends(f, n, done, base, next, comb)
<1> DEFINE Good(k) == \E f \in [n - k..n -> V] :
             \A i \in n - k..n : f[i] = IF i \in done THEN base[i] ELSE comb[i][f[next[i]]]
           T == {k \in 0..n : Good(k)}
<1>1. 0 \in T
  <2> DEFINE f == [i \in n - 0..n |-> base[i]]
  <2>1. 0 \in 0..n /\ n - 0..n \subseteq 0..n /\ n \in 0..n /\ \A i \in n - 0..n : i = n
    BY SMT
  <2>2. n \in done
    <3>1. n + 1..n = {}
      BY SMT
    <3>2. QED BY <2>1, <3>1
  <2>3. f \in [n - 0..n -> V]
    BY <2>1
  <2>4. \A i \in n - 0..n : f[i] = IF i \in done THEN base[i] ELSE comb[i][f[next[i]]]
    BY <2>1, <2>2
  <2> HIDE DEF f
  <2>5. QED BY <2>1, <2>3, <2>4
<1>2. ASSUME NEW k \in 0..n - 1, k \in T PROVE k + 1 \in T
  <2> DEFINE p == n - (k + 1)
  <2>1. PICK f \in [n - k..n -> V] :
          \A i \in n - k..n : f[i] = IF i \in done THEN base[i] ELSE comb[i][f[next[i]]]
    BY <1>2
  <2>2. /\ k + 1 \in 0..n /\ p \in 0..n /\ p \in p..n /\ p + 1 = n - k /\ p \notin n - k..n
        /\ p..n = {p} \cup (n - k..n) /\ n - k..n \subseteq 0..n
        /\ \A i \in n - k..n : i + 1..n \subseteq n - k..n
    BY SMT
  <2> HIDE DEF p
  <2> DEFINE v == IF p \in done THEN base[p] ELSE comb[p][f[next[p]]]
             g == [i \in p..n |-> IF i = p THEN v ELSE f[i]]
  <2>3. p \notin done => next[p] \in n - k..n
    BY <2>2
  <2>4. v \in V
    <3>1. base[p] \in V /\ comb[p] \in [V -> V]
      BY <2>2
    <3>2. p \notin done => f[next[p]] \in V
      BY <2>1, <2>3
    <3>3. QED BY <3>1, <3>2
  <2> HIDE DEF v
  <2>5. g \in [p..n -> V]
    BY <2>1, <2>2, <2>4
  <2>6. \A i \in n - k..n : g[i] = f[i]
    BY <2>2
  <2>7. g[p] = v
    BY <2>2
  <2> HIDE DEF g
  <2>8. ASSUME NEW i \in p..n
        PROVE  g[i] = IF i \in done THEN base[i] ELSE comb[i][g[next[i]]]
    <3>1. CASE i = p
      BY <2>3, <2>6, <2>7, <3>1 DEF v
    <3>2. CASE i # p
      <4>1. i \in n - k..n
        BY <2>2, <3>2
      <4>2. i \notin done => next[i] \in n - k..n
        BY <2>2, <4>1
      <4>3. QED BY <2>1, <2>6, <4>1, <4>2
    <3>3. QED BY <3>1, <3>2
  <2>9. Good(k + 1)
    BY <2>5, <2>8 DEF p
  <2>10. QED BY <2>2, <2>9
<1> HIDE DEF T
<1>3. n \in T
  <2>1. \A k \in 0..n : k \in T
    BY <1>1, <1>2, UpTo
  <2>2. n \in 0..n
    BY SMT
  <2>3. QED BY <2>1, <2>2
<1>4. PICK f \in [n - n..n -> V] :
        \A i \in n - n..n : f[i] = IF i \in done THEN base[i] ELSE comb[i][f[next[i]]]
  BY <1>3 DEF T
<1>5. n - n = 0
  BY SMT
<1>6. QED BY <1>4, <1>5 DEF Descends

=============================================================================
