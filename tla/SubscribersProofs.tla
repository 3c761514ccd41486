------------------------- MODULE SubscribersProofs --------------------------
(***************************************************************************)
(* Proofs about Topics and Subscribers, for any subscribers whose patterns *)
(* are valid, with any identifiers, for any valid topics and any number of *)
(* messages and connections.                                               *)
(*                                                                         *)
(* The first part is about the match of a topic: the loop over characters  *)
(* finds what a comparison level by level finds.  The second part is about *)
(* who is handed a message.  It counts: how often a subscriber has been    *)
(* handed a message, whether it is yet to be seen by the message callback, *)
(* and the copies for it under way are together no more than the copies    *)
(* the broker has made for it.                                             *)
(***************************************************************************)
EXTENDS Subscribers, SequenceLemmas, FiniteSetTheorems

-----------------------------------------------------------------------------
\* f ends with base and each entry before is made from the one behind it.
Folds(f, n, base, step) == f[n + 1] = base /\ \A i \in 1..n : f[i] = step[i][f[i + 1]]

\* Recursion downwards to 1: the function that a step defines exists.
LEMMA BackwardRecursion ==
  ASSUME NEW n \in Nat, NEW V, NEW base \in V, NEW step \in [1..n -> [V -> V]]
  PROVE  \E f \in [1..n + 1 -> V] : Folds(f, n, base, step)
<1> DEFINE forth == [i \in 1..n |-> step[n + 1 - i]]
<1>1. \A i \in 1..n : n + 1 - i \in 1..n
  BY SMT
<1>2. forth \in [1..n -> [V -> V]]
  BY <1>1
<1>3. PICK g \in [0..n -> V] : Unfolds(g, n, base, forth)
  <2> HIDE DEF forth
  <2>1. QED BY <1>2, UpwardRecursion
<1> DEFINE f == [i \in 1..n + 1 |-> g[n + 1 - i]]
<1>4. \A i \in 1..n + 1 : n + 1 - i \in 0..n
  BY SMT
<1>5. f \in [1..n + 1 -> V]
  BY <1>3, <1>4
<1>6. f[n + 1] = base
  <2>1. n + 1 \in 1..n + 1 /\ n + 1 - (n + 1) = 0
    BY SMT
  <2>2. QED BY <1>3, <2>1 DEF Unfolds
<1>7. ASSUME NEW i \in 1..n PROVE f[i] = step[i][f[i + 1]]
  <2> DEFINE k == n + 1 - i
  <2>1. k \in 1..n /\ n + 1 - k = i /\ k - 1 = n + 1 - (i + 1) /\ i \in 1..n + 1 /\ i + 1 \in 1..n + 1
    BY SMT
  <2>2. g[k] = forth[k][g[k - 1]]
    BY <1>3, <2>1 DEF Unfolds
  <2>3. forth[k] = step[i]
    BY <2>1
  <2>4. f[i] = g[k] /\ f[i + 1] = g[k - 1]
    BY <2>1
  <2>5. QED BY <2>2, <2>3, <2>4
<1> HIDE DEF f
<1>8. QED BY <1>5, <1>6, <1>7 DEF Folds

-----------------------------------------------------------------------------
(* The levels of a text                                                    *)

\* Lists of levels: there is always one.
LevelLists == {x \in Seq(CString) : x # <<>>}

\* X has the levels of s from each place on.
Leveled(s, X) ==
  /\ X \in [1..Len(s) + 1 -> LevelLists]
  /\ Head(X[Len(s) + 1]) = <<>> /\ Tail(X[Len(s) + 1]) = <<>>
  /\ \A i \in 1..Len(s) :
       IF s[i] = Slash THEN Head(X[i]) = <<>> /\ Tail(X[i]) = X[i + 1]
       ELSE Head(X[i]) = <<s[i]>> \o Head(X[i + 1]) /\ Tail(X[i]) = Tail(X[i + 1])

\* A list with something put before it.
LEMMA Headed ==
  ASSUME NEW S, NEW e \in S, NEW x \in Seq(S)
  PROVE  /\ <<e>> \o x \in Seq(S) /\ <<e>> \o x # <<>>
         /\ Head(<<e>> \o x) = e /\ Tail(<<e>> \o x) = x
<1>1. /\ <<e>> \in Seq(S) /\ Len(<<e>>) = 1 /\ <<e>>[1] = e
  OBVIOUS
<1>2. <<e>> \o x \in Seq(S) /\ Len(<<e>> \o x) = 1 + Len(x)
  BY <1>1, ConcatProperties
<1>3. Len(x) \in Nat /\ 1 + Len(x) # 0
  BY SMT, LenProperties
<1>4. <<e>> \o x # <<>>
  BY <1>2, <1>3, EmptySeq
<1>5. Head(<<e>> \o x) = e
  BY <1>2, <1>4
<1>6. Tail(<<e>> \o x) = x
  BY <1>2, <1>4
<1>7. QED BY <1>2, <1>4, <1>5, <1>6

\* LevelsFrom is such a function.
LEMMA LevelsFromIs ==
  ASSUME NEW s \in CString
  PROVE  Leveled(s, LevelsFrom(s))
<1>1. PICK n \in Nat : n = Len(s)
  BY LenProperties DEF CString
<1>2. \A i \in 1..n : s[i] \in 1..255
  BY <1>1, ElementOfSeq DEF CString
<1>3. <<>> \in CString
  BY EmptySeq DEF CString
<1> DEFINE Step(i, x) ==
             IF s[i] = Slash THEN << <<>> >> \o x
             ELSE << <<s[i]>> \o Head(x) >> \o Tail(x)
           step == [i \in 1..n |-> [x \in LevelLists |-> Step(i, x)]]
           base == << <<>> >>
<1>4. base \in LevelLists /\ Head(base) = <<>> /\ Tail(base) = <<>>
  <2>1. <<>> \in Seq(CString) /\ base \o <<>> = base
    BY <1>3, EmptySeq, ConcatEmptySeq
  <2>2. QED BY <1>3, <2>1, Headed DEF LevelLists
<1>5. ASSUME NEW i \in 1..n, NEW x \in LevelLists
      PROVE  /\ Step(i, x) \in LevelLists
             /\ s[i] = Slash => Head(Step(i, x)) = <<>> /\ Tail(Step(i, x)) = x
             /\ s[i] # Slash => Head(Step(i, x)) = <<s[i]>> \o Head(x) /\ Tail(Step(i, x)) = Tail(x)
  <2>1. x \in Seq(CString) /\ x # <<>> /\ Head(x) \in CString /\ Tail(x) \in Seq(CString)
    BY HeadTailProperties DEF LevelLists
  <2>2. CASE s[i] = Slash
    BY <1>3, <2>1, <2>2, Headed DEF LevelLists
  <2>3. CASE s[i] # Slash
    <3>1. <<s[i]>> \o Head(x) \in CString
      BY <1>2, <2>1, Headed DEF CString
    <3>2. QED BY <2>1, <2>3, <3>1, Headed DEF LevelLists
  <2>4. QED BY <2>2, <2>3
<1>6. step \in [1..n -> [LevelLists -> LevelLists]]
  BY <1>5
<1>7. \A i \in 1..n, x \in LevelLists : step[i][x] = Step(i, x)
  OBVIOUS
<1> HIDE DEF step
<1>8. PICK f \in [1..n + 1 -> LevelLists] : Folds(f, n, base, step)
  BY <1>4, <1>6, BackwardRecursion
<1> HIDE DEF base
<1>9. \A i \in 1..n + 1 : /\ i > n => i = n + 1 /\ i \notin 1..n
                          /\ ~(i > n) => i \in 1..n /\ i + 1 \in 1..n + 1
  BY SMT
<1>10. n + 1 \in 1..n + 1 /\ \A i \in 1..n : i \in 1..n + 1 /\ ~(i > n)
  BY SMT
<1> DEFINE Is(g) == g = [i \in 1..Len(s) + 1 |->
                          IF i > Len(s) THEN << <<>> >>
                          ELSE IF s[i] = Slash THEN << <<>> >> \o g[i + 1]
                          ELSE << <<s[i]>> \o Head(g[i + 1]) >> \o Tail(g[i + 1])]
<1>11. Is(f)
  <2>1. ASSUME NEW i \in 1..n + 1
        PROVE  f[i] = IF i > n THEN << <<>> >> ELSE Step(i, f[i + 1])
    <3>1. CASE i > n
      BY <1>8, <1>9, <3>1 DEF Folds, base
    <3>2. CASE ~(i > n)
      <4>1. i \in 1..n /\ f[i + 1] \in LevelLists
        BY <1>8, <1>9, <3>2
      <4>2. QED BY <1>7, <1>8, <3>2, <4>1 DEF Folds
    <3>3. QED BY <3>1, <3>2
  <2>2. QED BY <1>1, <1>8, <2>1
<1>12. LevelsFrom(s) = CHOOSE g : Is(g)
  BY DEF LevelsFrom
<1>13. PICK X : X = LevelsFrom(s)
  OBVIOUS
<1>14. Is(X)
  BY <1>11, <1>12, <1>13
<1>15. ASSUME NEW i \in 1..n + 1
       PROVE  X[i] = IF i > n THEN base ELSE Step(i, X[i + 1])
  BY <1>1, <1>14 DEF base
<1>16. X = f
  <2> DEFINE T == {k \in 0..n : X[n + 1 - k] = f[n + 1 - k]}
  <2>1. 0 \in T
    <3>1. 0 \in 0..n /\ n + 1 - 0 = n + 1 /\ n + 1 > n
      BY SMT
    <3>2. QED BY <1>8, <1>10, <1>15, <3>1 DEF Folds
  <2>2. ASSUME NEW k \in 0..n - 1, k \in T PROVE k + 1 \in T
    <3>1. /\ k + 1 \in 0..n /\ n + 1 - (k + 1) \in 1..n /\ n + 1 - (k + 1) + 1 = n + 1 - k
          /\ n + 1 - k \in 1..n + 1
      BY SMT
    <3> DEFINE i == n + 1 - (k + 1)
    <3>2. i \in 1..n + 1 /\ ~(i > n) /\ f[i + 1] \in LevelLists /\ X[i + 1] = f[i + 1]
      BY <1>8, <1>10, <2>2, <3>1
    <3>3. X[i] = Step(i, X[i + 1])
      BY <1>15, <3>2
    <3>4. f[i] = Step(i, f[i + 1])
      BY <1>7, <1>8, <3>1, <3>2 DEF Folds
    <3>5. QED BY <3>1, <3>2, <3>3, <3>4
  <2>3. \A k \in 0..n : k \in T
    <3> HIDE DEF T
    <3>1. QED BY <2>1, <2>2, UpTo
  <2>4. ASSUME NEW i \in 1..n + 1 PROVE X[i] = f[i]
    <3>1. n + 1 - i \in 0..n /\ n + 1 - (n + 1 - i) = i
      BY SMT
    <3>2. QED BY <2>3, <3>1
  <2>5. X = [i \in 1..n + 1 |-> X[i]]
    BY <1>1, <1>14
  <2>6. QED BY <1>8, <2>4, <2>5
<1>17. X \in [1..n + 1 -> LevelLists]
  BY <1>8, <1>16
<1>18. Head(X[n + 1]) = <<>> /\ Tail(X[n + 1]) = <<>>
  <2>1. n + 1 > n
    BY SMT
  <2>2. QED BY <1>4, <1>10, <1>15, <2>1
<1>19. \A i \in 1..n :
         IF s[i] = Slash THEN Head(X[i]) = <<>> /\ Tail(X[i]) = X[i + 1]
         ELSE Head(X[i]) = <<s[i]>> \o Head(X[i + 1]) /\ Tail(X[i]) = Tail(X[i + 1])
  <2> SUFFICES ASSUME NEW i \in 1..n
               PROVE  IF s[i] = Slash THEN Head(X[i]) = <<>> /\ Tail(X[i]) = X[i + 1]
                      ELSE Head(X[i]) = <<s[i]>> \o Head(X[i + 1]) /\ Tail(X[i]) = Tail(X[i + 1])
    OBVIOUS
  <2>1. i \in 1..n + 1 /\ ~(i > n) /\ i + 1 \in 1..n + 1
    BY <1>9, <1>10
  <2>2. X[i] = Step(i, X[i + 1]) /\ X[i + 1] \in LevelLists
    BY <1>15, <1>17, <2>1
  <2>3. PICK x \in LevelLists : x = X[i + 1]
    BY <2>2
  <2>4. X[i] = Step(i, x)
    BY <2>2, <2>3
  <2> HIDE DEF Step
  <2>5. /\ s[i] = Slash => Head(Step(i, x)) = <<>> /\ Tail(Step(i, x)) = x
        /\ s[i] # Slash => Head(Step(i, x)) = <<s[i]>> \o Head(x) /\ Tail(Step(i, x)) = Tail(x)
    BY <1>5
  <2>6. QED BY <2>3, <2>4, <2>5
<1>20. QED BY <1>1, <1>13, <1>17, <1>18, <1>19 DEF Leveled

-----------------------------------------------------------------------------
(* The match by levels, one level at a time                                *)

\* Places of a list and of what is behind its head.
LEMMA TailPlaces ==
  ASSUME NEW S, NEW x \in Seq(S), x # <<>>
  PROVE  /\ Len(x) \in Nat \ {0} /\ Len(Tail(x)) = Len(x) - 1 /\ x[1] = Head(x)
         /\ Head(x) \in S /\ Tail(x) \in Seq(S)
         /\ \A k \in 1..Len(x) - 1 : Tail(x)[k] = x[k + 1]
         /\ Tail(x) = <<>> <=> Len(x) = 1
<1>1. Len(x) \in Nat /\ Len(x) # 0
  BY LenProperties, EmptySeq
<1>2. Head(x) \in S /\ Tail(x) \in Seq(S) /\ x[1] = Head(x)
  BY HeadTailProperties
<1>3. Len(Tail(x)) = Len(x) - 1 /\ \A k \in 1..Len(x) - 1 : Tail(x)[k] = x[k + 1]
  BY TailElements
<1>4. Tail(x) = <<>> <=> Len(Tail(x)) = 0
  BY <1>2, EmptySeq
<1>5. QED BY SMT, <1>1, <1>2, <1>3, <1>4

\* Nothing matches a filter only if that is "#".
LEMMA MatchesNothing ==
  ASSUME NEW x \in LevelLists
  PROVE  MatchesLevels(x, <<>>) <=> Head(x) = <<Hash>> /\ Tail(x) = <<>>
<1>1. x \in Seq(CString) /\ x # <<>>
  BY DEF LevelLists
<1>2. Len(x) \in Nat \ {0} /\ x[1] = Head(x) /\ (Tail(x) = <<>> <=> Len(x) = 1)
  BY <1>1, TailPlaces
<1>3. Len(<<>>) = 0
  OBVIOUS
<1>4. CASE Len(x) = 1
  <2>1. MatchesLevels(x, <<>>) <=> x[1] = <<Hash>>
    <3>1. 1 - 1 = 0 /\ 0 >= 0 /\ 0 # 1 /\ 1..0 = {}
      BY SMT
    <3>2. QED BY <1>3, <1>4, <3>1 DEF MatchesLevels
  <2>2. QED BY <1>2, <1>4, <2>1
<1>5. CASE Len(x) # 1
  <2>1. ~(0 >= Len(x) - 1) /\ 0 # Len(x)
    BY SMT, <1>2, <1>5
  <2>2. QED BY <1>2, <1>3, <1>5, <2>1 DEF MatchesLevels
<1>6. QED BY <1>4, <1>5

\* The first level of a filter is its last one, or it is for the first level.
LEMMA MatchesHead ==
  ASSUME NEW x \in LevelLists, NEW y \in LevelLists
  PROVE  MatchesLevels(x, y) <=>
           IF Tail(x) = <<>>
           THEN Head(x) = <<Hash>> \/ (Tail(y) = <<>> /\ Head(x) \in {<<Plus>>, Head(y)})
           ELSE Head(x) \in {<<Plus>>, Head(y)} /\ MatchesLevels(Tail(x), Tail(y))
<1>1. PICK n \in Nat \ {0} :
        /\ n = Len(x) /\ Len(Tail(x)) = n - 1 /\ x[1] = Head(x)
        /\ \A k \in 1..n - 1 : Tail(x)[k] = x[k + 1]
        /\ Tail(x) = <<>> <=> n = 1
  BY TailPlaces DEF LevelLists
<1>2. PICK m \in Nat \ {0} :
        /\ m = Len(y) /\ Len(Tail(y)) = m - 1 /\ y[1] = Head(y)
        /\ \A k \in 1..m - 1 : Tail(y)[k] = y[k + 1]
        /\ Tail(y) = <<>> <=> m = 1
  BY TailPlaces DEF LevelLists
<1>3. CASE n = 1
  <2>1. 1 - 1 = 0 /\ 1..0 = {} /\ 1..1 = {1} /\ m >= 0 /\ 0 # 1
    BY SMT, <1>2
  <2>2. CASE x[1] = <<Hash>>
    <3>1. MatchesLevels(x, y)
      BY <1>1, <1>2, <1>3, <2>1, <2>2 DEF MatchesLevels
    <3>2. QED BY <1>1, <1>3, <2>2, <3>1
  <2>3. CASE x[1] # <<Hash>>
    <3>1. MatchesLevels(x, y) <=> m = 1 /\ x[1] \in {<<Plus>>, y[1]}
      BY <1>1, <1>2, <1>3, <2>1, <2>3 DEF MatchesLevels
    <3>2. QED BY <1>1, <1>2, <1>3, <2>3, <3>1
  <2>4. QED BY <2>2, <2>3
<1>4. CASE n # 1
  <2> DEFINE Fits(f, i, j) == IF f THEN j >= i - 1 ELSE j = i
             hash == x[n] = <<Hash>>
             k1 == IF hash THEN n - 1 ELSE n
  <2>1. Tail(x)[n - 1] = x[n] /\ n - 1 \in Nat \ {0}
    BY SMT, <1>1, <1>4
  <2>2. MatchesLevels(x, y) <=>
          Fits(hash, n, m) /\ \A k \in 1..k1 : x[k] \in {<<Plus>>, y[k]}
    <3>1. n - 1 # n
      BY SMT
    <3>2. QED BY <1>1, <1>2, <3>1 DEF MatchesLevels
  <2>3. MatchesLevels(Tail(x), Tail(y)) <=>
          Fits(hash, n - 1, m - 1) /\ \A k \in 1..k1 - 1 : Tail(x)[k] \in {<<Plus>>, Tail(y)[k]}
    <3>1. n - 1 - 1 # n - 1
      BY SMT
    <3>2. MatchesLevels(Tail(x), Tail(y)) <=>
            /\ Fits(hash, n - 1, m - 1)
            /\ \A k \in 1..(IF hash THEN n - 1 - 1 ELSE n - 1) : Tail(x)[k] \in {<<Plus>>, Tail(y)[k]}
      BY <1>1, <1>2, <2>1, <3>1 DEF MatchesLevels
    <3>3. (IF hash THEN n - 1 - 1 ELSE n - 1) = k1 - 1
      OBVIOUS
    <3>4. QED BY <3>2, <3>3
  <2>4. /\ Fits(hash, n, m) <=> Fits(hash, n - 1, m - 1)
        /\ Fits(hash, n, m) => k1 <= m
        /\ k1 \in 1..n
    BY SMT, <1>1, <1>2, <1>4
  <2> HIDE DEF Fits, hash, k1
  <2>5. ASSUME Fits(hash, n, m)
        PROVE  (\A k \in 1..k1 : x[k] \in {<<Plus>>, y[k]}) <=>
                 /\ x[1] \in {<<Plus>>, y[1]}
                 /\ \A k \in 1..k1 - 1 : Tail(x)[k] \in {<<Plus>>, Tail(y)[k]}
    <3>1. \A k \in 1..k1 - 1 : k \in 1..n - 1 /\ k \in 1..m - 1 /\ k + 1 \in 1..k1
      BY SMT, <1>1, <1>2, <2>4, <2>5
    <3>2. \A k \in 1..k1 - 1 : Tail(x)[k] = x[k + 1] /\ Tail(y)[k] = y[k + 1]
      BY <1>1, <1>2, <3>1
    <3>3. 1 \in 1..k1 /\ \A k \in 1..k1 : k # 1 => k - 1 \in 1..k1 - 1 /\ k - 1 + 1 = k
      BY SMT, <2>4
    <3>4. ASSUME NEW k \in 1..k1, x[1] \in {<<Plus>>, y[1]},
                 \A j \in 1..k1 - 1 : Tail(x)[j] \in {<<Plus>>, Tail(y)[j]}
          PROVE  x[k] \in {<<Plus>>, y[k]}
      <4>1. CASE k = 1
        BY <3>4, <4>1
      <4>2. CASE k # 1
        BY <3>2, <3>3, <3>4, <4>2
      <4>3. QED BY <4>1, <4>2
    <3>5. QED BY <3>1, <3>2, <3>3, <3>4
  <2>6. QED BY <1>1, <1>2, <1>4, <2>2, <2>3, <2>4, <2>5
<1>5. QED BY <1>3, <1>4

\* The first level of a filter is no wildcard.
LEMMA MatchesPlain ==
  ASSUME NEW x \in LevelLists, NEW y \in LevelLists, Head(x) # <<Plus>>, Head(x) # <<Hash>>
  PROVE  MatchesLevels(x, y) <=>
           /\ Head(x) = Head(y)
           /\ IF Tail(x) = <<>> THEN Tail(y) = <<>> ELSE MatchesLevels(Tail(x), Tail(y))
BY MatchesHead

-----------------------------------------------------------------------------
(* Places in a text                                                        *)

\* LevelEnd is the end of the level.
LEMMA LevelEndIs ==
  ASSUME NEW s \in CString, NEW t \in 1..Len(s) + 1
  PROVE  /\ LevelEnd(s, t) \in t..Len(s) + 1
         /\ CharAt(s, LevelEnd(s, t)) \in {0, Slash}
         /\ \A i \in t..LevelEnd(s, t) - 1 : s[i] # Slash
<1>1. PICK n \in Nat : n = Len(s) /\ DOMAIN s = 1..n
  BY LenProperties DEF CString
<1> DEFINE T == {e \in t..n + 1 : CharAt(s, e) \in {0, Slash}}
<1>2. n + 1 \in T
  <2>1. n + 1 \in t..n + 1 /\ n + 1 \notin 1..n
    BY SMT, <1>1
  <2>2. QED BY <1>1, <2>1 DEF CharAt
<1>3. T \subseteq Nat
  BY SMT, <1>1
<1>4. PICK e \in T : \A k \in T : e <= k
  <2> HIDE DEF T
  <2>1. QED BY <1>2, <1>3, LeastNat
<1>5. ASSUME NEW i \in t..e - 1, s[i] = Slash PROVE FALSE
  <2>1. i \in t..n + 1 /\ i \in 1..n /\ ~(e <= i)
    BY SMT, <1>1, <1>4
  <2>2. i \in T
    BY <1>1, <1>5, <2>1 DEF CharAt
  <2>3. QED BY <1>4, <2>1, <2>2
<1>6. \E x \in t..Len(s) + 1 : CharAt(s, x) \in {0, Slash} /\ \A i \in t..x - 1 : s[i] # Slash
  BY <1>1, <1>4, <1>5
<1>7. QED BY <1>6 DEF LevelEnd

\* The levels behind the end of a level are those behind every place in it.
LEMMA LevelSkipped ==
  ASSUME NEW s \in CString, NEW Y, Leveled(s, Y), NEW t \in 1..Len(s) + 1
  PROVE  Head(Y[LevelEnd(s, t)]) = <<>> /\ Tail(Y[LevelEnd(s, t)]) = Tail(Y[t])
<1>1. PICK n \in Nat : n = Len(s) /\ DOMAIN s = 1..n /\ \A i \in 1..n : s[i] \in 1..255
  BY LenProperties, ElementOfSeq DEF CString
<1>2. PICK e : e = LevelEnd(s, t)
  OBVIOUS
<1>3. e \in t..n + 1 /\ CharAt(s, e) \in {0, Slash} /\ \A i \in t..e - 1 : s[i] # Slash
  BY <1>1, <1>2, LevelEndIs
<1>4. /\ Head(Y[n + 1]) = <<>>
      /\ \A i \in 1..n : /\ s[i] = Slash => Head(Y[i]) = <<>>
                         /\ s[i] # Slash => Tail(Y[i]) = Tail(Y[i + 1])
  BY <1>1 DEF Leveled
<1>5. Head(Y[e]) = <<>>
  <2>1. CASE e \in 1..n
    <3>1. s[e] = Slash
      <4>1. s[e] \in {0, Slash} /\ s[e] \in 1..255
        BY <1>1, <1>3, <2>1 DEF CharAt
      <4>2. 0 \notin 1..255
        BY SMT
      <4>3. QED BY <4>1, <4>2
    <3>2. QED BY <1>4, <2>1, <3>1
  <2>2. CASE e \notin 1..n
    <3>1. e = n + 1
      BY SMT, <1>1, <1>3, <2>2
    <3>2. QED BY <1>4, <3>1
  <2>3. QED BY <2>1, <2>2
<1> DEFINE T == {k \in 0..e - t : Tail(Y[e - k]) = Tail(Y[e])}
<1>6. 0 \in T
  <2>1. 0 \in 0..e - t /\ e - 0 = e
    BY SMT, <1>1, <1>3
  <2>2. QED BY <2>1
<1>7. ASSUME NEW k \in 0..(e - t) - 1, k \in T PROVE k + 1 \in T
  <2>1. /\ k + 1 \in 0..e - t /\ e - (k + 1) \in t..e - 1 /\ e - (k + 1) \in 1..n
        /\ e - (k + 1) + 1 = e - k
    BY SMT, <1>1, <1>3
  <2>2. Tail(Y[e - (k + 1)]) = Tail(Y[e - k])
    BY <1>3, <1>4, <2>1
  <2>3. QED BY <1>7, <2>1, <2>2
<1>8. Tail(Y[t]) = Tail(Y[e])
  <2>1. e - t \in Nat /\ e - t \in 0..e - t /\ e - (e - t) = t
    BY SMT, <1>1, <1>3
  <2>2. \A k \in 0..e - t : k \in T
    <3> HIDE DEF T
    <3>1. QED BY <1>6, <1>7, <2>1, UpTo
  <2>3. QED BY <2>1, <2>2
<1>9. QED BY <1>2, <1>5, <1>8

\* A level that begins with a character other than a separator is not empty.
LEMMA LevelBegins ==
  ASSUME NEW s \in CString, NEW X, Leveled(s, X), NEW i \in 1..Len(s), s[i] # Slash
  PROVE  /\ Head(X[i]) \in CString /\ Head(X[i]) # <<>> /\ Head(X[i])[1] = s[i]
         /\ \A c : Head(X[i]) = <<c>> => s[i] = c
<1>1. PICK n \in Nat : n = Len(s) /\ \A k \in 1..n : s[k] \in 1..255
  BY LenProperties, ElementOfSeq DEF CString
<1>2. i + 1 \in 1..n + 1
  BY SMT, <1>1
<1>3. X[i + 1] \in LevelLists
  BY <1>1, <1>2 DEF Leveled
<1>4. Head(X[i + 1]) \in CString
  BY <1>3, HeadTailProperties DEF LevelLists
<1>5. Head(X[i]) = <<s[i]>> \o Head(X[i + 1])
  BY DEF Leveled
<1>6. Head(X[i]) \in CString /\ Head(X[i]) # <<>> /\ Head(Head(X[i])) = s[i]
  <2>1. PICK c \in 1..255 : c = s[i]
    BY <1>1
  <2>2. PICK x \in Seq(1..255) : x = Head(X[i + 1])
    BY <1>4 DEF CString
  <2>3. <<c>> \o x \in Seq(1..255) /\ <<c>> \o x # <<>> /\ Head(<<c>> \o x) = c
    BY Headed
  <2>4. Head(X[i]) = <<c>> \o x
    BY <1>5, <2>1, <2>2
  <2>5. QED BY <2>1, <2>3, <2>4 DEF CString
<1>7. Head(X[i])[1] = s[i]
  BY <1>6, HeadTailProperties DEF CString
<1>8. \A c : <<c>>[1] = c
  OBVIOUS
<1>9. QED BY <1>6, <1>7, <1>8

OnlyHash(x) == Head(x) = <<Hash>> /\ Tail(x) = <<>>

\* A filter and its levels.
FilterLeveled(s, X) == s \in CString /\ SubTopicValid(s) /\ Leveled(s, X)

\* A '+' is a level of its own.
LEMMA PlusIsLevel ==
  ASSUME NEW s, NEW X, FilterLeveled(s, X), NEW i \in 1..Len(s), s[i] = Plus
  PROVE  Head(X[i]) = <<Plus>> /\ Head(X[i + 1]) = <<>> /\ Tail(X[i]) = Tail(X[i + 1])
<1>1. s \in CString /\ Leveled(s, X) /\ SubTopicValid(s)
  BY DEF FilterLeveled
<1>2. PICK n \in Nat : n = Len(s) /\ DOMAIN s = 1..n /\ \A k \in 1..n : s[k] \in 1..255
  BY <1>1, LenProperties, ElementOfSeq DEF CString
<1>3. Plus # Slash /\ 0 \notin 1..255 /\ i + 1 \in 1..n + 1 /\ (i + 1 \notin 1..n => i + 1 = n + 1)
  BY SMT, <1>2 DEF Plus, Slash
<1>4. CharAt(s, i + 1) \in {0, Slash}
  BY <1>1, <1>2 DEF SubTopicValid
<1>5. Head(X[i + 1]) = <<>>
  <2>1. CASE i + 1 \in 1..n
    <3>1. s[i + 1] = Slash
      BY <1>2, <1>3, <1>4, <2>1 DEF CharAt
    <3>2. QED BY <1>1, <1>2, <2>1, <3>1 DEF Leveled
  <2>2. CASE i + 1 = n + 1
    BY <1>1, <1>2, <2>2 DEF Leveled
  <2>3. QED BY <1>3, <2>1, <2>2
<1>6. Head(X[i]) = <<Plus>> \o <<>> /\ Tail(X[i]) = Tail(X[i + 1])
  BY <1>1, <1>3, <1>5 DEF Leveled
<1>7. <<Plus>> \o <<>> = <<Plus>>
  BY DEF Plus
<1>8. QED BY <1>5, <1>6, <1>7

\* Nothing but a '#' at the end is the last level "#".
LEMMA HashIsLevel ==
  ASSUME NEW s, NEW X, FilterLeveled(s, X), NEW i \in 1..Len(s) + 1
  PROVE  /\ OnlyHash(X[i]) <=> i = Len(s) /\ s[i] = Hash
         /\ i \in 1..Len(s) /\ s[i] = Hash => OnlyHash(X[i])
<1>1. s \in CString /\ Leveled(s, X) /\ SubTopicValid(s)
  BY DEF FilterLeveled
<1>2. PICK n \in Nat : n = Len(s) /\ DOMAIN s = 1..n
  BY <1>1, LenProperties DEF CString
<1>3. Hash # Slash /\ Hash \in Wildcards
  BY SMT DEF Hash, Slash, Wildcards
<1>4. ASSUME i \in 1..n, s[i] = Hash PROVE i = n /\ OnlyHash(X[i])
  <2>1. i = n
    BY <1>1, <1>2, <1>4 DEF SubTopicValid
  <2>2. Head(X[i]) = <<Hash>> \o <<>> /\ Tail(X[i]) = <<>>
    BY <1>1, <1>2, <1>3, <1>4, <2>1 DEF Leveled
  <2>3. <<Hash>> \o <<>> = <<Hash>>
    BY DEF Hash
  <2>4. QED BY <2>1, <2>2, <2>3 DEF OnlyHash
<1>5. ASSUME OnlyHash(X[i]) PROVE i \in 1..n /\ s[i] = Hash
  <2>1. <<Hash>> # <<>>
    OBVIOUS
  <2>2. i \in 1..n
    <3>1. i \notin 1..n => i = n + 1
      BY SMT, <1>2
    <3>2. QED BY <1>1, <1>2, <1>5, <2>1, <3>1 DEF OnlyHash, Leveled
  <2>3. s[i] # Slash
    BY <1>1, <1>2, <1>5, <2>1, <2>2 DEF OnlyHash, Leveled
  <2>4. QED BY <1>1, <1>2, <1>5, <2>2, <2>3, LevelBegins DEF OnlyHash
<1>6. n \in 1..n + 1 => (i = n /\ s[i] = Hash => i \in 1..n)
  <2>1. CASE n = 0
    <3>1. i = 0 => i \notin 1..Len(s) + 1
      BY SMT, <1>2
    <3>2. QED BY <2>1, <3>1
  <2>2. CASE n # 0
    BY SMT, <1>2, <2>2
  <2>3. QED BY <2>1, <2>2
<1>7. i = n => n \in 1..n + 1
  BY <1>2
<1>8. QED BY <1>2, <1>4, <1>5, <1>6, <1>7

\* What is left of a filter is "/#".
LEMMA RestIsParent ==
  ASSUME NEW s, NEW X, FilterLeveled(s, X), NEW i \in 1..Len(s)
  PROVE  ParentMatches(s, i) <=> s[i] = Slash /\ OnlyHash(X[i + 1])
<1>1. s \in CString
  BY DEF FilterLeveled
<1>2. PICK n \in Nat : n = Len(s)
  BY <1>1, LenProperties DEF CString
<1>3. i \in 1..n /\ i + 1 \in 1..n + 1 /\ n - i + 1 \in Nat /\ (n - i + 1 = 2 <=> i + 1 = n)
  BY SMT, <1>2
<1>4. OnlyHash(X[i + 1]) <=> i + 1 = n /\ s[i + 1] = Hash
  BY <1>2, <1>3, HashIsLevel
<1>5. /\ Len(Rest(s, i)) = n - i + 1
      /\ \A k \in 1..n - i + 1 : Rest(s, i)[k] = s[i + k - 1]
      /\ Rest(s, i) \in Seq(1..255)
  <2>1. i \in Int /\ n \in Int /\ i <= n
    BY SMT, <1>2
  <2>2. \A k \in i..n : k \in 1..n /\ s[k] \in 1..255
    BY SMT, <1>1, <1>2, <1>3, ElementOfSeq DEF CString
  <2>3. QED BY <1>2, <2>1, <2>2, SubSeqProperties DEF Rest
<1>6. PICK r : r = Rest(s, i)
  OBVIOUS
<1>7. r = <<Slash, Hash>> <=> Len(r) = 2 /\ r[1] = Slash /\ r[2] = Hash
  <2>1. r \in Seq(1..255)
    BY <1>5, <1>6
  <2>2. ASSUME Len(r) = 2, r[1] = Slash, r[2] = Hash PROVE r = <<Slash, Hash>>
    BY <2>1, <2>2
  <2>3. QED BY <2>2
<1>8. n - i + 1 = 2 => 1 \in 1..n - i + 1 /\ 2 \in 1..n - i + 1 /\ i + 1 - 1 = i /\ i + 2 - 1 = i + 1
  BY SMT, <1>2
<1>9. QED BY <1>3, <1>4, <1>5, <1>6, <1>7, <1>8 DEF ParentMatches

-----------------------------------------------------------------------------
(* How the match by levels goes on from one place to the next              *)

\* A topic and its levels.
TopicLeveled(s, Y) == s \in CString /\ PubTopicValid(s) /\ Leveled(s, Y)

\* What is known of a character of a text and of the levels that begin there.
LEMMA PlaceIn ==
  ASSUME NEW s \in CString, NEW X, Leveled(s, X), NEW i \in 1..Len(s) + 1
  PROVE  /\ Len(s) \in Nat /\ DOMAIN s = 1..Len(s)
         /\ X[i] \in LevelLists /\ Head(X[i]) \in CString
         /\ i \in 1..Len(s) => /\ s[i] \in 1..255 /\ i + 1 \in 1..Len(s) + 1 /\ i # Len(s) + 1
                               /\ X[i + 1] \in LevelLists /\ Head(X[i + 1]) \in CString
                               /\ CharAt(s, i) = s[i]
         /\ i \notin 1..Len(s) => i = Len(s) + 1 /\ CharAt(s, i) = 0
                                  /\ Head(X[i]) = <<>> /\ Tail(X[i]) = <<>>
<1>1. PICK n \in Nat : n = Len(s) /\ DOMAIN s = 1..n /\ \A k \in 1..n : s[k] \in 1..255
  BY LenProperties, ElementOfSeq DEF CString
<1>2. /\ i \in 1..n => i + 1 \in 1..n + 1 /\ i # n + 1
      /\ i \notin 1..n => i = n + 1
  BY SMT, <1>1
<1>3. \A x \in LevelLists : Head(x) \in CString
  BY HeadTailProperties DEF LevelLists
<1>4. X[i] \in LevelLists /\ (i \in 1..n => X[i + 1] \in LevelLists)
  BY <1>1, <1>2 DEF Leveled
<1>5. i = n + 1 => Head(X[i]) = <<>> /\ Tail(X[i]) = <<>>
  BY <1>1 DEF Leveled
<1>6. QED BY <1>1, <1>2, <1>3, <1>4, <1>5 DEF CharAt

\* The end of the filter matches the end of the topic, and no other place.
LEMMA EndMatches ==
  ASSUME NEW sub, NEW X, FilterLeveled(sub, X), NEW topic, NEW Y, TopicLeveled(topic, Y),
         NEW t \in 1..Len(topic) + 1
  PROVE  MatchesLevels(X[Len(sub) + 1], Y[t]) <=> t = Len(topic) + 1
<1>1. sub \in CString /\ Leveled(sub, X) /\ topic \in CString /\ Leveled(topic, Y)
  BY DEF FilterLeveled, TopicLeveled
<1>2. PICK n \in Nat : n = Len(sub)
  BY <1>1, LenProperties DEF CString
<1>3. n + 1 \in 1..n + 1 /\ n + 1 \notin 1..n
  BY SMT
<1>4. X[n + 1] \in LevelLists /\ Head(X[n + 1]) = <<>> /\ Tail(X[n + 1]) = <<>>
  BY <1>1, <1>2, <1>3, PlaceIn
<1>5. Y[t] \in LevelLists
  BY <1>1, PlaceIn
<1>6. <<Hash>> # <<>> /\ <<Plus>> # <<>>
  OBVIOUS
<1>7. MatchesLevels(X[n + 1], Y[t]) <=> Tail(Y[t]) = <<>> /\ Head(Y[t]) = <<>>
  BY <1>4, <1>5, <1>6, MatchesHead
<1>8. CASE t \notin 1..Len(topic)
  BY <1>1, <1>2, <1>7, <1>8, PlaceIn
<1>9. CASE t \in 1..Len(topic)
  <2>1. t # Len(topic) + 1 /\ Y[t + 1] # <<>>
    BY <1>1, <1>9, PlaceIn DEF LevelLists
  <2>2. CASE topic[t] = Slash
    BY <1>1, <1>2, <1>7, <1>9, <2>1, <2>2 DEF Leveled
  <2>3. CASE topic[t] # Slash
    <3>1. Head(Y[t]) # <<>>
      BY <1>1, <1>9, <2>3, LevelBegins
    <3>2. QED BY <1>2, <1>7, <2>1, <3>1
  <2>4. QED BY <2>2, <2>3
<1>10. QED BY <1>8, <1>9

\* A '+' takes what is left of the level of the topic.
LEMMA PlusMatches ==
  ASSUME NEW sub, NEW X, FilterLeveled(sub, X), NEW topic, NEW Y, TopicLeveled(topic, Y),
         NEW s \in 1..Len(sub), NEW t \in 1..Len(topic) + 1, sub[s] = Plus
  PROVE  MatchesLevels(X[s], Y[t]) <=> MatchesLevels(X[s + 1], Y[LevelEnd(topic, t)])
<1>1. sub \in CString /\ Leveled(sub, X) /\ topic \in CString /\ Leveled(topic, Y)
  BY DEF FilterLeveled, TopicLeveled
<1>2. s \in 1..Len(sub) + 1
  <2>1. PICK n \in Nat : n = Len(sub)
    BY <1>1, LenProperties DEF CString
  <2>2. QED BY SMT, <2>1
<1>3. PICK e \in 1..Len(topic) + 1 : e = LevelEnd(topic, t)
  <2>1. PICK m \in Nat : m = Len(topic)
    BY <1>1, LenProperties DEF CString
  <2>2. LevelEnd(topic, t) \in t..m + 1
    BY <1>1, <2>1, LevelEndIs
  <2>3. t \in 1..m + 1
    BY <2>1
  <2>4. LevelEnd(topic, t) \in 1..m + 1
    BY SMT, <2>1, <2>2, <2>3
  <2>5. QED BY <2>1, <2>4
<1>4. Head(Y[e]) = <<>> /\ Tail(Y[e]) = Tail(Y[t])
  BY <1>1, <1>3, LevelSkipped
<1>5. Head(X[s]) = <<Plus>> /\ Head(X[s + 1]) = <<>> /\ Tail(X[s]) = Tail(X[s + 1])
  BY PlusIsLevel
<1>6. X[s] \in LevelLists /\ X[s + 1] \in LevelLists /\ Y[t] \in LevelLists /\ Y[e] \in LevelLists
  BY <1>1, <1>2, <1>3, PlaceIn
<1>7. <<Hash>> # <<>> /\ <<Plus>> # <<Hash>>
  BY DEF Hash, Plus
<1>8. MatchesLevels(X[s], Y[t]) <=>
        IF Tail(X[s]) = <<>> THEN Tail(Y[t]) = <<>> ELSE MatchesLevels(Tail(X[s]), Tail(Y[t]))
  BY <1>5, <1>6, <1>7, MatchesHead
<1>9. MatchesLevels(X[s + 1], Y[e]) <=>
        IF Tail(X[s]) = <<>> THEN Tail(Y[t]) = <<>> ELSE MatchesLevels(Tail(X[s]), Tail(Y[t]))
  BY <1>4, <1>5, <1>6, <1>7, MatchesHead
<1>10. QED BY <1>3, <1>8, <1>9

\* A '#' takes all that is left.
LEMMA HashMatches ==
  ASSUME NEW sub, NEW X, FilterLeveled(sub, X), NEW topic, NEW Y, TopicLeveled(topic, Y),
         NEW s \in 1..Len(sub), NEW t \in 1..Len(topic) + 1, sub[s] = Hash
  PROVE  MatchesLevels(X[s], Y[t])
<1>1. sub \in CString /\ Leveled(sub, X) /\ topic \in CString /\ Leveled(topic, Y)
  BY DEF FilterLeveled, TopicLeveled
<1>2. s \in 1..Len(sub) + 1
  <2>1. PICK n \in Nat : n = Len(sub)
    BY <1>1, LenProperties DEF CString
  <2>2. QED BY SMT, <2>1
<1>3. OnlyHash(X[s])
  BY <1>2, HashIsLevel
<1>4. X[s] \in LevelLists /\ Y[t] \in LevelLists
  BY <1>1, <1>2, PlaceIn
<1>5. QED BY <1>3, <1>4, MatchesHead DEF OnlyHash

\* A level that begins with a character of its own begins neither with '+' nor with '#'.
LEMMA NoWildcard ==
  ASSUME NEW sub, NEW X, FilterLeveled(sub, X), NEW s \in 1..Len(sub),
         sub[s] \notin Wildcards
  PROVE  Head(X[s]) # <<Plus>> /\ Head(X[s]) # <<Hash>>
<1>1. sub \in CString /\ Leveled(sub, X)
  BY DEF FilterLeveled
<1>2. CASE sub[s] = Slash
  <2>1. Head(X[s]) = <<>> /\ <<Plus>> # <<>> /\ <<Hash>> # <<>>
    BY <1>1, <1>2 DEF Leveled
  <2>2. QED BY <2>1
<1>3. CASE sub[s] # Slash
  BY <1>1, <1>3, LevelBegins DEF Wildcards
<1>4. QED BY <1>2, <1>3

\* Characters that differ do not match.
LEMMA OthersDiffer ==
  ASSUME NEW sub, NEW X, FilterLeveled(sub, X), NEW topic, NEW Y, TopicLeveled(topic, Y),
         NEW s \in 1..Len(sub), NEW t \in 1..Len(topic),
         sub[s] # topic[t], sub[s] \notin Wildcards
  PROVE  ~MatchesLevels(X[s], Y[t])
<1>1. sub \in CString /\ Leveled(sub, X) /\ topic \in CString /\ Leveled(topic, Y)
  BY DEF FilterLeveled, TopicLeveled
<1>2. s \in 1..Len(sub) + 1 /\ t \in 1..Len(topic) + 1
  <2>1. PICK n \in Nat, m \in Nat : n = Len(sub) /\ m = Len(topic)
    BY <1>1, LenProperties DEF CString
  <2>2. QED BY SMT, <2>1
<1>3. X[s] \in LevelLists /\ Y[t] \in LevelLists
  BY <1>1, <1>2, PlaceIn
<1>4. Head(X[s]) # <<Plus>> /\ Head(X[s]) # <<Hash>>
  BY NoWildcard
<1>5. MatchesLevels(X[s], Y[t]) => Head(X[s]) = Head(Y[t])
  BY <1>3, <1>4, MatchesHead
<1>6. sub[s] = Slash => Head(X[s]) = <<>>
  BY <1>1 DEF Leveled
<1>7. sub[s] # Slash => Head(X[s]) # <<>> /\ Head(X[s])[1] = sub[s]
  BY <1>1, LevelBegins
<1>8. topic[t] = Slash => Head(Y[t]) = <<>>
  BY <1>1 DEF Leveled
<1>9. topic[t] # Slash => Head(Y[t]) # <<>> /\ Head(Y[t])[1] = topic[t]
  BY <1>1, LevelBegins
<1>10. QED BY <1>5, <1>6, <1>7, <1>8, <1>9

\* Of what does not begin with a wildcard, only "/#" matches the end of the topic.
LEMMA BehindMatches ==
  ASSUME NEW sub, NEW X, FilterLeveled(sub, X), NEW topic, NEW Y, TopicLeveled(topic, Y),
         NEW s \in 1..Len(sub), sub[s] \notin Wildcards
  PROVE  MatchesLevels(X[s], Y[Len(topic) + 1]) <=> ParentMatches(sub, s)
<1>1. sub \in CString /\ Leveled(sub, X) /\ topic \in CString /\ Leveled(topic, Y)
  BY DEF FilterLeveled, TopicLeveled
<1>2. PICK n \in Nat, m \in Nat : n = Len(sub) /\ m = Len(topic)
  BY <1>1, LenProperties DEF CString
<1>3. s \in 1..n /\ s \in 1..n + 1 /\ m + 1 \in 1..m + 1 /\ m + 1 \notin 1..m
  BY SMT, <1>2
<1>4. X[s] \in LevelLists /\ X[s + 1] \in LevelLists /\ Y[m + 1] \in LevelLists
  BY <1>1, <1>2, <1>3, PlaceIn
<1>5. Head(Y[m + 1]) = <<>> /\ Tail(Y[m + 1]) = <<>>
  BY <1>1, <1>2, <1>3, PlaceIn
<1>6. Head(X[s]) # <<Plus>> /\ Head(X[s]) # <<Hash>>
  BY NoWildcard
<1>7. CASE sub[s] = Slash
  <2>1. Head(X[s]) = <<>> /\ Tail(X[s]) = X[s + 1] /\ X[s + 1] # <<>>
    BY <1>1, <1>2, <1>3, <1>4, <1>7 DEF Leveled, LevelLists
  <2>2. MatchesLevels(X[s], Y[m + 1]) <=> MatchesLevels(X[s + 1], <<>>)
    <3>1. PICK x \in LevelLists, y \in LevelLists : x = X[s] /\ y = Y[m + 1]
      BY <1>4
    <3>2. /\ Head(x) = Head(y) /\ Tail(x) # <<>>
          /\ Head(x) # <<Plus>> /\ Head(x) # <<Hash>>
      BY <1>5, <1>6, <2>1, <3>1
    <3>3. MatchesLevels(x, y) <=> MatchesLevels(Tail(x), Tail(y))
      BY <3>2, MatchesPlain
    <3>4. QED BY <1>5, <2>1, <3>1, <3>3
  <2>3. MatchesLevels(X[s + 1], <<>>) <=> OnlyHash(X[s + 1])
    BY <1>4, MatchesNothing DEF OnlyHash
  <2>4. QED BY <1>2, <1>7, <2>2, <2>3, RestIsParent
<1>8. CASE sub[s] # Slash
  <2>1. Head(X[s]) # <<>>
    BY <1>1, <1>8, LevelBegins
  <2>2. ~MatchesLevels(X[s], Y[m + 1])
    BY <1>4, <1>5, <1>6, <2>1, MatchesHead
  <2>3. QED BY <1>2, <1>8, <2>2, RestIsParent
<1>9. QED BY <1>7, <1>8

\* The same character of both is passed.
LEMMA SameMatches ==
  ASSUME NEW sub, NEW X, FilterLeveled(sub, X), NEW topic, NEW Y, TopicLeveled(topic, Y),
         NEW s \in 1..Len(sub), NEW t \in 1..Len(topic), sub[s] = topic[t]
  PROVE  MatchesLevels(X[s], Y[t]) <=> MatchesLevels(X[s + 1], Y[t + 1])
<1>1. sub \in CString /\ Leveled(sub, X) /\ topic \in CString /\ Leveled(topic, Y)
      /\ SubTopicValid(sub) /\ PubTopicValid(topic)
  BY DEF FilterLeveled, TopicLeveled
<1>2. PICK n \in Nat, m \in Nat : n = Len(sub) /\ m = Len(topic) /\ DOMAIN topic = 1..m /\ DOMAIN sub = 1..n
  BY <1>1, LenProperties DEF CString
<1>3. s \in 1..n /\ s \in 1..n + 1 /\ t \in 1..m /\ t \in 1..m + 1 /\ s + 1 \in 1..n + 1
      /\ t + 1 \in 1..m + 1 /\ (s + 1 \notin 1..n => s + 1 = n + 1) /\ s + 1 - 1 = s
  BY SMT, <1>2
<1>4. X[s] \in LevelLists /\ X[s + 1] \in LevelLists /\ Y[t] \in LevelLists /\ Y[t + 1] \in LevelLists
  BY <1>1, <1>2, <1>3, PlaceIn
<1>5. sub[s] \notin Wildcards
  BY <1>1, <1>2, <1>3 DEF PubTopicValid
<1>6. Head(X[s]) # <<Plus>> /\ Head(X[s]) # <<Hash>>
  BY <1>5, NoWildcard
<1>7. CASE sub[s] = Slash
  <2>1. Head(X[s]) = <<>> /\ Tail(X[s]) = X[s + 1] /\ X[s + 1] # <<>>
    BY <1>1, <1>2, <1>3, <1>4, <1>7 DEF Leveled, LevelLists
  <2>2. Head(Y[t]) = <<>> /\ Tail(Y[t]) = Y[t + 1]
    BY <1>1, <1>2, <1>3, <1>4, <1>7 DEF Leveled, LevelLists
  <2>3. PICK x \in LevelLists, y \in LevelLists : x = X[s] /\ y = Y[t]
    BY <1>4
  <2>4. MatchesLevels(x, y) <=> MatchesLevels(Tail(x), Tail(y))
    <3>1. Head(x) # <<Plus>> /\ Head(x) # <<Hash>>
      BY <1>6, <2>3
    <3>2. MatchesLevels(x, y) <=>
            /\ Head(x) = Head(y)
            /\ IF Tail(x) = <<>> THEN Tail(y) = <<>> ELSE MatchesLevels(Tail(x), Tail(y))
      BY <3>1, MatchesPlain
    <3>3. QED BY <2>1, <2>2, <2>3, <3>2
  <2>5. QED BY <2>1, <2>2, <2>3, <2>4
<1>8. CASE sub[s] # Slash
  <2>1. PICK c \in 1..255 : c = sub[s] /\ c = topic[t]
    BY <1>1, <1>3, <1>2, PlaceIn
  <2>2. PICK x \in Seq(1..255), y \in Seq(1..255) : x = Head(X[s + 1]) /\ y = Head(Y[t + 1])
    <3>1. Head(X[s + 1]) \in CString /\ Head(Y[t + 1]) \in CString
      BY <1>1, <1>2, <1>3, PlaceIn
    <3>2. QED BY <3>1 DEF CString
  <2>3. Head(X[s]) = <<c>> \o x /\ Tail(X[s]) = Tail(X[s + 1])
    BY <1>1, <1>2, <1>3, <1>8, <2>1, <2>2 DEF Leveled
  <2>4. Head(Y[t]) = <<c>> \o y /\ Tail(Y[t]) = Tail(Y[t + 1])
    BY <1>1, <1>2, <1>3, <1>8, <2>1, <2>2 DEF Leveled
  <2>5. <<c>> \o x = <<c>> \o y <=> x = y
    <3>1. Tail(<<c>> \o x) = x /\ Tail(<<c>> \o y) = y
      BY ZenonT(60), Headed
    <3>2. QED BY <3>1
  <2>6. x # <<Plus>> /\ x # <<Hash>>
    <3>1. ASSUME s + 1 \in 1..n PROVE sub[s + 1] \notin Wildcards
      <4>1. CharAt(sub, s) = sub[s] /\ sub[s] # 0
        <5>1. c # 0
          BY SMT
        <5>2. QED BY <1>2, <1>3, <2>1, <5>1 DEF CharAt
      <4>2. sub[s + 1] \in Wildcards => CharAt(sub, s + 1 - 1) \in {0, Slash}
        BY <1>1, <1>2, <3>1 DEF SubTopicValid
      <4>3. QED BY <1>3, <1>8, <4>1, <4>2
    <3>2. CASE s + 1 \in 1..n
      BY <1>2, <2>2, <3>1, <3>2, NoWildcard
    <3>3. CASE s + 1 = n + 1
      <4>1. x = <<>> /\ <<Plus>> # <<>> /\ <<Hash>> # <<>>
        BY <1>1, <1>2, <2>2, <3>3 DEF Leveled
      <4>2. QED BY <4>1
    <3>4. QED BY <1>3, <3>2, <3>3
  <2>7. MatchesLevels(X[s], Y[t]) <=>
          x = y /\ IF Tail(X[s]) = <<>> THEN Tail(Y[t]) = <<>> ELSE MatchesLevels(Tail(X[s]), Tail(Y[t]))
    <3>1. PICK u \in LevelLists, v \in LevelLists : u = X[s] /\ v = Y[t]
      BY <1>4
    <3>2. MatchesLevels(u, v) <=>
            /\ Head(u) = Head(v)
            /\ IF Tail(u) = <<>> THEN Tail(v) = <<>> ELSE MatchesLevels(Tail(u), Tail(v))
      <4>1. Head(u) # <<Plus>> /\ Head(u) # <<Hash>>
        BY <1>6, <3>1
      <4>2. QED BY <4>1, MatchesPlain
    <3>3. QED BY <2>3, <2>4, <2>5, <3>1, <3>2
  <2>8. MatchesLevels(X[s + 1], Y[t + 1]) <=>
          x = y /\ IF Tail(X[s]) = <<>> THEN Tail(Y[t]) = <<>> ELSE MatchesLevels(Tail(X[s]), Tail(Y[t]))
    <3>1. PICK u \in LevelLists, v \in LevelLists : u = X[s + 1] /\ v = Y[t + 1]
      BY <1>4
    <3>2. MatchesLevels(u, v) <=>
            /\ Head(u) = Head(v)
            /\ IF Tail(u) = <<>> THEN Tail(v) = <<>> ELSE MatchesLevels(Tail(u), Tail(v))
      <4>1. Head(u) # <<Plus>> /\ Head(u) # <<Hash>>
        BY <2>2, <2>6, <3>1
      <4>2. QED BY <4>1, MatchesPlain
    <3>3. QED BY <2>2, <2>3, <2>4, <3>1, <3>2
  <2>9. QED BY <2>7, <2>8
<1>9. QED BY <1>7, <1>8

-----------------------------------------------------------------------------
(* The loop over the filter                                                *)

\* F is the function that the loop defines.
Loops(F, sub, topic) ==
  \A s \in 1..Len(sub) + 1, t \in 1..Len(topic) + 1 :
    F[s][t] =
      IF s > Len(sub) THEN FALSE
      ELSE IF sub[s] # CharAt(topic, t)
      THEN CASE sub[s] = Plus ->
                  LET e == LevelEnd(topic, t) IN
                  /\ Bounds(sub, s - 1) /\ Bounds(sub, s + 1)
                  /\ (e > Len(topic) /\ s = Len(sub)) \/ F[s + 1][e]
             [] sub[s] = Hash -> Bounds(sub, s - 1) /\ s = Len(sub)
             [] OTHER -> t > Len(topic) /\ PlusParentMatches(sub, s)
      ELSE \/ t = Len(topic) /\ ParentMatches(sub, s + 1)
           \/ s = Len(sub) /\ t = Len(topic)
           \/ t = Len(topic) /\ Rest(sub, s + 1) = <<Plus>> /\ sub[s] = Slash
           \/ F[s + 1][t + 1]

\* What is left of the filter is "/#" and what is before it is no '+': at the end of the topic
\* the loop would have come to its end a step earlier.
Bare(sub, topic, s, t) ==
  t = Len(topic) + 1 /\ ParentMatches(sub, s) /\ ~(s > 1 /\ CharAt(sub, s - 1) = Plus)

\* What the loop says of a place is what the match by levels says of it, but for two places
\* that it does not come to.
Says(F, sub, X, topic, Y, s, t) ==
  F[s][t] <=> /\ MatchesLevels(X[s], Y[t])
              /\ ~(s = Len(sub) + 1 /\ t = Len(topic) + 1)
              /\ ~Bare(sub, topic, s, t)

\* What is left begins with the character at its place.
LEMMA RestBegins ==
  ASSUME NEW s \in CString, NEW i \in 1..Len(s) + 1, NEW r, Rest(s, i) = r,
         Len(r) \in Nat \ {0}
  PROVE  i \in 1..Len(s) /\ r[1] = s[i] /\ Len(r) = Len(s) - i + 1
<1>1. PICK n \in Nat : n = Len(s) /\ \A k \in 1..n : s[k] \in 1..255
  BY LenProperties, ElementOfSeq DEF CString
<1>2. i \in Int /\ n \in Int /\ \A k \in i..n : k \in 1..n
  BY SMT, <1>1
<1>3. /\ Len(r) = IF i <= n THEN n - i + 1 ELSE 0
      /\ \A k \in 1..n - i + 1 : r[k] = s[i + k - 1]
  BY <1>1, <1>2, SubSeqProperties DEF Rest
<1>4. i <= n
  BY <1>3
<1>5. i \in 1..n /\ 1 \in 1..n - i + 1 /\ i + 1 - 1 = i
  BY SMT, <1>1, <1>4
<1>6. QED BY <1>1, <1>3, <1>4, <1>5

\* The last character of a filter is a '+'.
LEMMA RestIsPlus ==
  ASSUME NEW s \in CString, NEW i \in 1..Len(s) + 1, Rest(s, i) = <<Plus>>
  PROVE  i = Len(s) /\ i \in 1..Len(s) /\ s[i] = Plus
<1>1. PICK r : r = <<Plus>>
  OBVIOUS
<1>2. Len(r) = 1 /\ r[1] = Plus /\ 1 \in Nat \ {0}
  BY <1>1
<1>3. i \in 1..Len(s) /\ r[1] = s[i] /\ Len(r) = Len(s) - i + 1
  BY <1>1, <1>2, RestBegins
<1>4. i = Len(s)
  <2>1. PICK n \in Nat : n = Len(s)
    BY LenProperties DEF CString
  <2>2. i \in 1..n /\ 1 = n - i + 1
    BY <1>2, <1>3, <2>1
  <2>3. QED BY SMT, <2>1, <2>2
<1>5. QED BY <1>2, <1>3, <1>4

\* What is left of a filter is "/#", at which two places.
LEMMA ParentIs ==
  ASSUME NEW s, NEW X, FilterLeveled(s, X), NEW i \in 1..Len(s) + 1
  PROVE  ParentMatches(s, i) <=> i + 1 = Len(s) /\ i \in 1..Len(s) /\ s[i] = Slash /\ s[i + 1] = Hash
<1>1. s \in CString
  BY DEF FilterLeveled
<1>2. PICK n \in Nat : n = Len(s)
  BY <1>1, LenProperties DEF CString
<1>3. CASE i \in 1..n
  <2>1. i + 1 \in 1..n + 1
    BY SMT, <1>2, <1>3
  <2>2. OnlyHash(X[i + 1]) <=> i + 1 = n /\ s[i + 1] = Hash
    BY <1>2, <2>1, HashIsLevel
  <2>3. QED BY <1>2, <1>3, <2>2, RestIsParent
<1>4. CASE i \notin 1..n
  <2>1. PICK r : r = <<Slash, Hash>>
    OBVIOUS
  <2>2. Len(r) \in Nat \ {0}
    BY <2>1
  <2>3. ~ParentMatches(s, i)
    BY <1>1, <1>2, <1>4, <2>1, <2>2, RestBegins DEF ParentMatches
  <2>4. QED BY <1>2, <1>4, <2>3
<1>5. QED BY <1>3, <1>4

\* At the end of the filter.
LEMMA SaysAtEnd ==
  ASSUME NEW sub, NEW X, FilterLeveled(sub, X), NEW topic, NEW Y, TopicLeveled(topic, Y),
         NEW F, Loops(F, sub, topic), NEW t \in 1..Len(topic) + 1
  PROVE  Says(F, sub, X, topic, Y, Len(sub) + 1, t)
<1>1. PICK n \in Nat : n = Len(sub)
  BY LenProperties DEF CString, FilterLeveled
<1>2. n + 1 \in 1..n + 1 /\ n + 1 > n /\ n + 1 \notin 1..n
  BY SMT
<1>3. F[n + 1][t] = FALSE
  BY <1>1, <1>2 DEF Loops
<1>4. MatchesLevels(X[n + 1], Y[t]) <=> t = Len(topic) + 1
  BY <1>1, EndMatches
<1>5. QED BY <1>1, <1>3, <1>4 DEF Says

\* At a '+', if the next place is right.
LEMMA SaysAtPlus ==
  ASSUME NEW sub, NEW X, FilterLeveled(sub, X), NEW topic, NEW Y, TopicLeveled(topic, Y),
         NEW F, Loops(F, sub, topic), NEW s \in 1..Len(sub), NEW t \in 1..Len(topic) + 1,
         sub[s] = Plus,
         \A e \in 1..Len(topic) + 1 : Says(F, sub, X, topic, Y, s + 1, e)
  PROVE  Says(F, sub, X, topic, Y, s, t)
<1>1. /\ sub \in CString /\ Leveled(sub, X) /\ SubTopicValid(sub)
      /\ topic \in CString /\ Leveled(topic, Y) /\ PubTopicValid(topic)
  BY DEF FilterLeveled, TopicLeveled
<1>2. PICK n \in Nat, m \in Nat : n = Len(sub) /\ m = Len(topic) /\ DOMAIN sub = 1..n /\ DOMAIN topic = 1..m
  BY <1>1, LenProperties DEF CString
<1>3. PICK e \in t..m + 1 : e = LevelEnd(topic, t)
  BY <1>1, <1>2, LevelEndIs
<1>4. /\ s \in 1..n /\ s \in 1..n + 1 /\ ~(s > n) /\ s # n + 1 /\ e \in 1..m + 1 /\ (e > m <=> e = m + 1)
      /\ (s = n <=> s + 1 = n + 1) /\ s + 1 > 1 /\ s + 1 - 1 = s
  BY SMT, <1>2, <1>3
<1>5. sub[s] # CharAt(topic, t)
  <2>1. Plus # 0 /\ Plus \in Wildcards
    BY DEF Plus, Wildcards
  <2>2. QED BY <1>1, <1>2, <2>1 DEF CharAt, PubTopicValid
<1>6. F[s][t] = ((e > m /\ s = n) \/ F[s + 1][e])
  <2>1. F[s][t] = CASE sub[s] = Plus ->
                         LET x == LevelEnd(topic, t) IN
                         /\ Bounds(sub, s - 1) /\ Bounds(sub, s + 1)
                         /\ (x > Len(topic) /\ s = Len(sub)) \/ F[s + 1][x]
                    [] sub[s] = Hash -> Bounds(sub, s - 1) /\ s = Len(sub)
                    [] OTHER -> t > Len(topic) /\ PlusParentMatches(sub, s)
    BY <1>2, <1>4, <1>5 DEF Loops
  <2>2. Plus # Hash
    BY DEF Plus, Hash
  <2>3. Bounds(sub, s - 1) /\ Bounds(sub, s + 1)
    BY <1>1, <1>2, <1>4 DEF SubTopicValid, Wildcards, Bounds
  <2>4. QED BY <1>2, <1>3, <2>1, <2>2, <2>3
<1>7. CharAt(sub, s + 1 - 1) = Plus
  BY <1>2, <1>4 DEF CharAt
<1>8. F[s + 1][e] <=> MatchesLevels(X[s + 1], Y[e]) /\ ~(s = n /\ e = m + 1)
  BY <1>2, <1>4, <1>7 DEF Says, Bare
<1>9. MatchesLevels(X[s], Y[t]) <=> MatchesLevels(X[s + 1], Y[e])
  BY <1>3, PlusMatches
<1>10. s = n /\ e = m + 1 => MatchesLevels(X[s + 1], Y[e])
  <2>1. MatchesLevels(X[n + 1], Y[e]) <=> e = m + 1
    BY <1>2, <1>4, EndMatches
  <2>2. QED BY <2>1
<1>11. ~ParentMatches(sub, s)
  <2>1. Plus # Slash
    BY DEF Plus, Slash
  <2>2. QED BY <1>2, <1>4, <2>1, ParentIs
<1>12. QED BY <1>2, <1>4, <1>6, <1>8, <1>9, <1>10, <1>11 DEF Says, Bare

\* At a '#'.
LEMMA SaysAtHash ==
  ASSUME NEW sub, NEW X, FilterLeveled(sub, X), NEW topic, NEW Y, TopicLeveled(topic, Y),
         NEW F, Loops(F, sub, topic), NEW s \in 1..Len(sub), NEW t \in 1..Len(topic) + 1,
         sub[s] = Hash
  PROVE  Says(F, sub, X, topic, Y, s, t)
<1>1. /\ sub \in CString /\ Leveled(sub, X) /\ SubTopicValid(sub)
      /\ topic \in CString /\ Leveled(topic, Y) /\ PubTopicValid(topic)
  BY DEF FilterLeveled, TopicLeveled
<1>2. PICK n \in Nat, m \in Nat : n = Len(sub) /\ m = Len(topic) /\ DOMAIN sub = 1..n /\ DOMAIN topic = 1..m
  BY <1>1, LenProperties DEF CString
<1>3. s \in 1..n + 1 /\ ~(s > n) /\ s # n + 1
  BY SMT, <1>2
<1>4. sub[s] # CharAt(topic, t)
  <2>1. Hash # 0 /\ Hash \in Wildcards
    BY DEF Hash, Wildcards
  <2>2. QED BY <1>1, <1>2, <2>1 DEF CharAt, PubTopicValid
<1>5. F[s][t]
  <2>1. F[s][t] = CASE sub[s] = Plus ->
                         LET x == LevelEnd(topic, t) IN
                         /\ Bounds(sub, s - 1) /\ Bounds(sub, s + 1)
                         /\ (x > Len(topic) /\ s = Len(sub)) \/ F[s + 1][x]
                    [] sub[s] = Hash -> Bounds(sub, s - 1) /\ s = Len(sub)
                    [] OTHER -> t > Len(topic) /\ PlusParentMatches(sub, s)
    BY <1>2, <1>3, <1>4 DEF Loops
  <2>2. Plus # Hash
    BY DEF Plus, Hash
  <2>3. Bounds(sub, s - 1) /\ s = Len(sub)
    BY <1>1, <1>2 DEF SubTopicValid, Wildcards, Bounds
  <2>4. QED BY <2>1, <2>2, <2>3
<1>6. ~ParentMatches(sub, s)
  <2>1. Hash # Slash
    BY DEF Hash, Slash
  <2>2. QED BY <1>2, <1>3, <2>1, ParentIs
<1>7. QED BY <1>2, <1>3, <1>5, <1>6, HashMatches DEF Says, Bare

\* At a character that differs from that of the topic.
LEMMA SaysAtOther ==
  ASSUME NEW sub, NEW X, FilterLeveled(sub, X), NEW topic, NEW Y, TopicLeveled(topic, Y),
         NEW F, Loops(F, sub, topic), NEW s \in 1..Len(sub), NEW t \in 1..Len(topic) + 1,
         sub[s] \notin Wildcards, sub[s] # CharAt(topic, t)
  PROVE  Says(F, sub, X, topic, Y, s, t)
<1>1. /\ sub \in CString /\ Leveled(sub, X) /\ SubTopicValid(sub)
      /\ topic \in CString /\ Leveled(topic, Y) /\ PubTopicValid(topic)
  BY DEF FilterLeveled, TopicLeveled
<1>2. PICK n \in Nat, m \in Nat : n = Len(sub) /\ m = Len(topic) /\ DOMAIN sub = 1..n /\ DOMAIN topic = 1..m
  BY <1>1, LenProperties DEF CString
<1>3. s \in 1..n /\ s \in 1..n + 1 /\ ~(s > n) /\ s # n + 1 /\ (t > m <=> t = m + 1) /\ (t # m + 1 => t \in 1..m)
  BY SMT, <1>2
<1>4. F[s][t] = (t > m /\ PlusParentMatches(sub, s))
  <2>1. F[s][t] = CASE sub[s] = Plus ->
                         LET x == LevelEnd(topic, t) IN
                         /\ Bounds(sub, s - 1) /\ Bounds(sub, s + 1)
                         /\ (x > Len(topic) /\ s = Len(sub)) \/ F[s + 1][x]
                    [] sub[s] = Hash -> Bounds(sub, s - 1) /\ s = Len(sub)
                    [] OTHER -> t > Len(topic) /\ PlusParentMatches(sub, s)
    <3>1. s \in 1..Len(sub) + 1 /\ ~(s > Len(sub)) /\ sub[s] # CharAt(topic, t)
      BY <1>2, <1>3
    <3>2. QED BY <3>1 DEF Loops
  <2>2. sub[s] # Plus /\ sub[s] # Hash
    BY DEF Wildcards
  <2>3. QED BY <1>2, <2>1, <2>2
<1>5. CASE t = m + 1
  <2>1. MatchesLevels(X[s], Y[t]) <=> ParentMatches(sub, s)
    BY <1>2, <1>5, BehindMatches
  <2>2. PlusParentMatches(sub, s) <=> ParentMatches(sub, s) /\ s > 1 /\ CharAt(sub, s - 1) = Plus
    <3>1. CharAt(sub, s) = sub[s]
      BY <1>2, <1>3 DEF CharAt
    <3>2. CharAt(sub, s + 1) = Hash <=> s + 1 = n /\ s + 1 \in 1..n /\ sub[s + 1] = Hash
      <4>1. Hash # 0
        BY DEF Hash
      <4>2. s + 1 \in 1..n /\ sub[s + 1] = Hash => s + 1 = n
        BY <1>1, <1>2 DEF SubTopicValid
      <4>3. QED BY <1>2, <4>1, <4>2 DEF CharAt
    <3>3. s + 1 = n => s + 1 \in 1..n
      BY SMT, <1>2, <1>3
    <3>4. QED BY <1>2, <1>3, <3>1, <3>2, <3>3, ParentIs DEF PlusParentMatches
  <2>3. QED BY <1>2, <1>3, <1>4, <1>5, <2>1, <2>2 DEF Says, Bare
<1>6. CASE t # m + 1
  <2>1. t \in 1..m /\ sub[s] # topic[t]
    BY <1>2, <1>3, <1>6 DEF CharAt
  <2>2. ~MatchesLevels(X[s], Y[t])
    BY <1>2, <2>1, OthersDiffer
  <2>3. QED BY <1>2, <1>3, <1>4, <1>6, <2>2 DEF Says, Bare
<1>7. QED BY <1>5, <1>6

\* At the character that the topic has, if the next place is right.
LEMMA SaysAtSame ==
  ASSUME NEW sub, NEW X, FilterLeveled(sub, X), NEW topic, NEW Y, TopicLeveled(topic, Y),
         NEW F, Loops(F, sub, topic), NEW s \in 1..Len(sub), NEW t \in 1..Len(topic) + 1,
         sub[s] = CharAt(topic, t),
         \A e \in 1..Len(topic) + 1 : Says(F, sub, X, topic, Y, s + 1, e)
  PROVE  Says(F, sub, X, topic, Y, s, t)
<1>1. /\ sub \in CString /\ Leveled(sub, X) /\ SubTopicValid(sub)
      /\ topic \in CString /\ Leveled(topic, Y) /\ PubTopicValid(topic)
  BY DEF FilterLeveled, TopicLeveled
<1>2. PICK n \in Nat, m \in Nat :
        /\ n = Len(sub) /\ m = Len(topic) /\ DOMAIN sub = 1..n /\ DOMAIN topic = 1..m
        /\ \A k \in 1..n : sub[k] \in 1..255
  BY ZenonT(60), <1>1, LenProperties, ElementOfSeq DEF CString
<1>3. t \in 1..m /\ sub[s] = topic[t]
  <2>1. 0 \notin 1..255
    BY SMT
  <2>2. QED BY <1>2, <2>1 DEF CharAt
<1>4. /\ s \in 1..n /\ s \in 1..n + 1 /\ ~(s > n) /\ s # n + 1 /\ t # m + 1
      /\ t + 1 \in 1..m + 1 /\ s + 1 \in 1..n + 1
      /\ (s = n <=> s + 1 = n + 1) /\ (t = m <=> t + 1 = m + 1) /\ s + 1 > 1 /\ s + 1 - 1 = s
  BY SMT, <1>2, <1>3
<1>5. sub[s] # Plus
  BY <1>1, <1>2, <1>3 DEF PubTopicValid, Wildcards
<1>6. F[s][t] <=> \/ t = m /\ ParentMatches(sub, s + 1)
                  \/ s = n /\ t = m
                  \/ t = m /\ Rest(sub, s + 1) = <<Plus>> /\ sub[s] = Slash
                  \/ F[s + 1][t + 1]
  BY <1>2, <1>4 DEF Loops
<1>7. CharAt(sub, s + 1 - 1) # Plus
  BY <1>2, <1>4, <1>5 DEF CharAt
<1>8. F[s + 1][t + 1] <=> /\ MatchesLevels(X[s + 1], Y[t + 1])
                          /\ ~(s = n /\ t = m) /\ ~(t = m /\ ParentMatches(sub, s + 1))
  BY <1>2, <1>4, <1>7 DEF Says, Bare
<1>9. MatchesLevels(X[s], Y[t]) <=> MatchesLevels(X[s + 1], Y[t + 1])
  BY <1>2, <1>3, SameMatches
<1>10. t = m /\ s = n => MatchesLevels(X[s + 1], Y[t + 1])
  BY <1>2, <1>4, EndMatches
<1>11. t = m /\ ParentMatches(sub, s + 1) => MatchesLevels(X[s + 1], Y[t + 1])
  <2>1. ParentMatches(sub, s + 1) => s + 1 \in 1..n /\ sub[s + 1] \notin Wildcards
    <3>1. Slash \notin Wildcards
      BY SMT DEF Slash, Wildcards, Plus, Hash
    <3>2. QED BY <1>2, <1>4, <3>1, ParentIs
  <2>2. QED BY <1>2, <2>1, BehindMatches
<1>12. t = m /\ Rest(sub, s + 1) = <<Plus>> => MatchesLevels(X[s + 1], Y[t + 1]) /\ s # n
                                               /\ ~ParentMatches(sub, s + 1)
  <2> HAVE t = m /\ Rest(sub, s + 1) = <<Plus>>
  <2>1. s + 1 = n /\ s + 1 \in 1..n /\ sub[s + 1] = Plus
    BY <1>1, <1>2, <1>4, RestIsPlus
  <2>2. LevelEnd(topic, t + 1) = m + 1
    <3>1. LevelEnd(topic, t + 1) \in m + 1..m + 1
      BY <1>1, <1>2, <1>4, LevelEndIs
    <3>2. \A x \in m + 1..m + 1 : x = m + 1
      BY SMT
    <3>3. QED BY <3>1, <3>2
  <2>3. MatchesLevels(X[n], Y[t + 1]) <=> MatchesLevels(X[n + 1], Y[m + 1])
    BY ZenonT(60), <1>2, <1>4, <2>1, <2>2, PlusMatches
  <2>4. MatchesLevels(X[n + 1], Y[m + 1])
    <3>1. m + 1 \in 1..m + 1
      BY <1>4
    <3>2. QED BY <1>2, <3>1, EndMatches
  <2>5. s # n
    BY SMT, <1>2, <1>4, <2>1
  <2>6. ~ParentMatches(sub, s + 1)
    <3>1. Plus # Slash
      BY DEF Plus, Slash
    <3>2. QED BY <1>2, <1>4, <2>1, <3>1, ParentIs
  <2>7. QED BY <2>1, <2>3, <2>4, <2>5, <2>6
<1>13. QED BY <1>2, <1>4, <1>6, <1>8, <1>9, <1>10, <1>11, <1>12 DEF Says, Bare

\* MatchesFrom is the function that the loop defines.
LEMMA MatchesFromLoops ==
  ASSUME NEW sub \in CString, NEW topic \in CString
  PROVE  Loops(MatchesFrom(sub, topic), sub, topic)
<1> DEFINE n == Len(sub)
           m == Len(topic)
<1>1. n \in Nat /\ m \in Nat /\ DOMAIN topic = 1..m
  BY LenProperties DEF CString
<1> DEFINE Cell(s, t, next) ==
             IF sub[s] # CharAt(topic, t)
             THEN CASE sub[s] = Plus ->
                         LET e == LevelEnd(topic, t) IN
                         /\ Bounds(sub, s - 1) /\ Bounds(sub, s + 1)
                         /\ (e > m /\ s = n) \/ next[e]
                    [] sub[s] = Hash -> Bounds(sub, s - 1) /\ s = n
                    [] OTHER -> t > m /\ PlusParentMatches(sub, s)
             ELSE \/ t = m /\ ParentMatches(sub, s + 1)
                  \/ s = n /\ t = m
                  \/ t = m /\ Rest(sub, s + 1) = <<Plus>> /\ sub[s] = Slash
                  \/ next[t + 1]
           Row(s, next) == [t \in 1..m + 1 |-> Cell(s, t, next)]
           V == [1..m + 1 -> BOOLEAN]
           base == [t \in 1..m + 1 |-> FALSE]
           step == [s \in 1..n |-> [next \in V |-> Row(s, next)]]
           All(s, next) == [t \in 1..m + 1 |-> IF s > n THEN FALSE ELSE Cell(s, t, next)]
           Is(g) == g = [s \in 1..n + 1 |-> All(s, g[s + 1])]
<1>0. MatchesFrom(sub, topic) = CHOOSE g : Is(g)
  BY DEF MatchesFrom
<1> HIDE DEF n, m
<1>2. base \in V
  OBVIOUS
<1>3. ASSUME NEW s \in 1..n, NEW next \in V PROVE Row(s, next) \in V
  <2>1. ASSUME NEW t \in 1..m + 1 PROVE Cell(s, t, next) \in BOOLEAN
    <3>1. LevelEnd(topic, t) \in 1..m + 1
      <4>1. LevelEnd(topic, t) \in t..m + 1
        BY <1>1, LevelEndIs DEF n, m
      <4>2. QED BY SMT, <1>1, <4>1
    <3>2. sub[s] = CharAt(topic, t) => t + 1 \in 1..m + 1
      <4>1. t \notin 1..m => CharAt(topic, t) = 0
        BY <1>1 DEF CharAt
      <4>2. sub[s] \in 1..255
        BY <1>1, ElementOfSeq DEF CString, n
      <4>3. 0 \notin 1..255 /\ (t \in 1..m => t + 1 \in 1..m + 1)
        BY SMT, <1>1
      <4>4. QED BY <4>1, <4>2, <4>3
    <3>3. next[LevelEnd(topic, t)] \in BOOLEAN /\ (sub[s] = CharAt(topic, t) => next[t + 1] \in BOOLEAN)
      BY <3>1, <3>2
    <3>4. PICK e : e = LevelEnd(topic, t)
      OBVIOUS
    <3>5. QED BY <3>3, <3>4
  <2> HIDE DEF Cell
  <2>2. QED BY <2>1
<1>4. \A s \in 1..n, next \in V : step[s][next] = Row(s, next)
  OBVIOUS
<1>5. step \in [1..n -> [V -> V]]
  <2> HIDE DEF Row, V
  <2>1. QED BY <1>3
<1> HIDE DEF step
<1>6. PICK f \in [1..n + 1 -> V] : Folds(f, n, base, step)
  <2> HIDE DEF base, V
  <2>1. QED BY <1>1, <1>2, <1>5, BackwardRecursion
<1>7. \A i \in 1..n + 1 : (i > n => i = n + 1) /\ (~(i > n) => i \in 1..n /\ i + 1 \in 1..n + 1)
  BY SMT, <1>1
<1>8. f = [s \in 1..n + 1 |-> f[s]]
  BY <1>6
<1> HIDE DEF Cell
<1>9. ASSUME NEW s \in 1..n + 1 PROVE f[s] = All(s, f[s + 1])
  <2>1. CASE s > n
    <3>1. f[s] = base
      BY <1>6, <1>7, <2>1 DEF Folds
    <3>2. All(s, f[s + 1]) = base
      BY <2>1
    <3>3. QED BY <3>1, <3>2
  <2>2. CASE ~(s > n)
    <3>1. s \in 1..n /\ f[s + 1] \in V
      BY <1>6, <1>7, <2>2
    <3>2. f[s] = Row(s, f[s + 1])
      BY <1>4, <1>6, <3>1 DEF Folds
    <3>3. All(s, f[s + 1]) = Row(s, f[s + 1])
      BY <2>2
    <3>4. QED BY <3>2, <3>3
  <2>3. QED BY <2>1, <2>2
<1>10. Is(f)
  <2> HIDE DEF All
  <2>1. QED BY <1>8, <1>9
<1>11. PICK F : F = MatchesFrom(sub, topic)
  OBVIOUS
<1>12. Is(F)
  <2> HIDE DEF Is
  <2>1. QED BY <1>0, <1>10, <1>11
<1>13. ASSUME NEW s \in 1..n + 1, NEW t \in 1..m + 1
       PROVE  F[s][t] = IF s > n THEN FALSE ELSE Cell(s, t, F[s + 1])
  <2>1. F[s] = All(s, F[s + 1])
    <3> HIDE DEF All
    <3>1. QED BY <1>12
  <2>2. QED BY <2>1
<1> HIDE DEF Is
<1>14. Loops(F, sub, topic)
  BY <1>13 DEF Loops, Cell, n, m
<1>15. QED BY <1>11, <1>14

\* What the loop says of every place.
LEMMA SaysEverywhere ==
  ASSUME NEW sub, NEW X, FilterLeveled(sub, X), NEW topic, NEW Y, TopicLeveled(topic, Y),
         NEW F, Loops(F, sub, topic)
  PROVE  \A s \in 1..Len(sub) + 1, t \in 1..Len(topic) + 1 : Says(F, sub, X, topic, Y, s, t)
<1>1. PICK n \in Nat : n = Len(sub)
  BY LenProperties DEF CString, FilterLeveled
<1> DEFINE Right(s) == \A t \in 1..Len(topic) + 1 : Says(F, sub, X, topic, Y, s, t)
           T == {k \in 0..n : Right(n + 1 - k)}
<1>2. 0 \in T
  <2>1. 0 \in 0..n /\ n + 1 - 0 = n + 1
    BY SMT
  <2>2. Right(n + 1)
    BY <1>1, SaysAtEnd
  <2> HIDE DEF Right
  <2>3. QED BY <2>1, <2>2
<1>3. ASSUME NEW k \in 0..n - 1, k \in T PROVE k + 1 \in T
  <2>1. k + 1 \in 0..n /\ n + 1 - (k + 1) \in 1..n /\ n + 1 - (k + 1) + 1 = n + 1 - k
    BY SMT
  <2>2. PICK s \in 1..n : s = n + 1 - (k + 1) /\ Right(s + 1)
    <3> HIDE DEF Right
    <3>1. QED BY <1>3, <2>1
  <2>3. ASSUME NEW t \in 1..Len(topic) + 1 PROVE Says(F, sub, X, topic, Y, s, t)
    <3>1. CASE sub[s] = Plus
      BY <1>1, <2>2, <3>1, SaysAtPlus
    <3>2. CASE sub[s] = Hash
      BY <1>1, <3>2, SaysAtHash
    <3>3. CASE sub[s] = CharAt(topic, t)
      BY <1>1, <2>2, <3>3, SaysAtSame
    <3>4. CASE sub[s] \notin Wildcards /\ sub[s] # CharAt(topic, t)
      BY <1>1, <3>4, SaysAtOther
    <3>5. QED BY <3>1, <3>2, <3>3, <3>4 DEF Wildcards
  <2>4. Right(s)
    BY <2>3
  <2> HIDE DEF Right
  <2>5. QED BY <2>1, <2>2, <2>4
<1> HIDE DEF Right
<1>4. \A k \in 0..n : k \in T
  <2> HIDE DEF T
  <2>1. QED BY <1>2, <1>3, UpTo
<1>5. ASSUME NEW s \in 1..n + 1 PROVE Right(s)
  <2>1. n + 1 - s \in 0..n /\ n + 1 - (n + 1 - s) = s
    BY SMT
  <2>2. QED BY <1>4, <2>1
<1>6. QED BY <1>1, <1>5 DEF Right

\* The loop of mosquitto_topic_matches_sub, which goes over both strings character by
\* character, finds the same as a comparison level by level, for every valid filter and every
\* topic that has no wildcard (util_topic.c:203-312).
THEOREM LoopMatchesByLevel ==
  ASSUME NEW sub \in CString, NEW topic \in CString, topic # <<>>,
         SubTopicValid(sub), PubTopicValid(topic)
  PROVE  TopicMatches(sub, topic) <=> MatchesByLevel(sub, topic)
<1>1. PICK X : X = LevelsFrom(sub)
  OBVIOUS
<1>2. PICK Y : Y = LevelsFrom(topic)
  OBVIOUS
<1>3. FilterLeveled(sub, X) /\ TopicLeveled(topic, Y)
  BY <1>1, <1>2, LevelsFromIs DEF FilterLeveled, TopicLeveled
<1>4. PICK n \in Nat, m \in Nat :
        n = Len(sub) /\ m = Len(topic) /\ m # 0 /\ (n = 0 <=> sub = <<>>)
  BY LenProperties, EmptySeq DEF CString
<1>5. 1 \in 1..m /\ 1 \in 1..n + 1 /\ 1 \in 1..m + 1 /\ 1 # m + 1
  BY SMT, <1>4
<1>6. CASE sub = <<>>
  <2>1. 1 = Len(sub) + 1
    BY SMT, <1>4, <1>6
  <2>2. ~MatchesLevels(X[1], Y[1])
    BY <1>3, <1>4, <1>5, <2>1, EndMatches
  <2>3. QED BY <1>1, <1>2, <1>6, <2>2 DEF TopicMatches, MatchesByLevel, Levels
<1>7. CASE sub # <<>>
  <2>1. 1 \in 1..n
    BY SMT, <1>4, <1>7
  <2>2. MatchesFrom(sub, topic)[1][1] <=> MatchesLevels(X[1], Y[1])
    <3>1. Says(MatchesFrom(sub, topic), sub, X, topic, Y, 1, 1)
      BY <1>3, <1>4, <1>5, MatchesFromLoops, SaysEverywhere
    <3>2. QED BY <1>4, <1>5, <3>1 DEF Says, Bare
  <2>3. sub[1] = Dollar /\ MatchesLevels(X[1], Y[1]) => topic[1] = Dollar
    <3>1. Dollar \notin Wildcards
      BY SMT DEF Dollar, Wildcards, Plus, Hash
    <3>2. QED BY <1>3, <1>4, <1>5, <2>1, <3>1, OthersDiffer
  <2>4. QED BY <1>1, <1>2, <1>7, <2>2, <2>3 DEF TopicMatches, MatchesByLevel, Levels
<1>8. QED BY <1>6, <1>7

-----------------------------------------------------------------------------
USE DEF app, broker, vars, CallbackVars

-----------------------------------------------------------------------------
(* Lists of properties                                                     *)

\* The values that the properties of the model have, and lists of them.
PropValues == Nat \cup (Seq(Nat) \X Seq(Nat))
PropLists == Seq([id : {SubscriptionIdentifier, UserProperty}, value : PropValues])

\* All values of an identifier.
Values(props, id) == {props[i].value : i \in {i \in DOMAIN props : props[i].id = id}}

\* What read_prop_value has collected, and where it has found the next one.
Reads(first, next, props, id) ==
  \/ first = {} /\ next = GetProperty(props, id, FALSE)
  \/ /\ GetProperty(props, id, FALSE) # 0
     /\ first = {props[GetProperty(props, id, FALSE)].value}
     /\ next = GetProperty(props, id, TRUE)

\* Whose message the callback hands around: the identifier of the copy is that of the subscription.
Theirs(props) == Values(props, SubscriptionIdentifier)

-----------------------------------------------------------------------------
(* The inductive invariant                                                 *)

Unique(s) == \A i, j \in DOMAIN s : s[i] = s[j] => i = j

\* All identifiers that are asked for
AllIds == UNION {IdOf(s) : s \in Subscriber}

\* A copy of a message that has been published, with some of the identifiers
GoodCopy(c) ==
  /\ c = [message |-> c.message, ids |-> c.ids]
  /\ c.message \in DOMAIN published
  /\ \E ids \in SUBSET AllIds : c.ids = SetToSeq(ids)

AppOk == version \in {"v311", "v5"} /\ group \in Groups
SubjectOk == subject \in Seq(Subscriber) /\ Unique(subject) /\ queue \in Seq(Subscriber)
\* What is sent and what the broker knows are valid patterns.
Valid == {s \in Subscriber : SubTopicValid(group[s].pattern)}
OutgoingOk == outgoing \in Seq({Packet(s) : s \in Valid})
TableOk == IsFiniteSet(table) /\ \A e \in table : e.id \subseteq AllIds /\ SubTopicValid(e.pattern)
PublishedOk ==
  /\ published \in Seq([name : Names, users : UserProperties, copies : Seq([message : Nat, ids : Seq(Nat)])])
  /\ Len(published) <= MaxMessages
  /\ wire \in Seq([message : Nat, ids : Seq(Nat)])
  /\ \A i \in DOMAIN wire : GoodCopy(wire[i])

CallbackType ==
  callback \in [at : {"idle", "filters", "theirs", "ours", "hands", "reads"}, message : Nat,
                props : PropLists, todo : Seq(Subscriber), next : Nat,
                first : SUBSET PropValues, theirs : SUBSET PropValues]

\* Who has yet to be handed the message of the callback
Waiting == Range(IF callback.at = "reads" THEN Tail(callback.todo) ELSE callback.todo)
Awaits(m, s) ==
  callback.message = m /\ s \in Waiting /\ Theirs(callback.props) = IdOf(s)

CallbackOk ==
  /\ callback.at = "idle" => callback = Idle
  /\ callback.at # "idle" => callback.message \in DOMAIN published
  /\ Unique(callback.todo)
  /\ version = "v311" => Theirs(callback.props) = {}
  /\ callback.at \in {"theirs", "ours", "hands", "reads"} =>
       /\ callback.todo # <<>>
       /\ TopicMatches(group[Head(callback.todo)].pattern, published[callback.message].name)
  /\ callback.at \in {"theirs", "ours"} => version = "v5"
  /\ IsReading => Reads(callback.first, callback.next, Reading[1], Reading[2])
  /\ callback.at = "ours" => callback.theirs = Theirs(callback.props)
  /\ callback.at = "hands" => Theirs(callback.props) = IdOf(Head(callback.todo))

Mine(m, s) == {i \in DOMAIN published[m].copies : published[m].copies[i].ids = SetToSeq(IdOf(s))}
InWire(m, s) == {i \in DOMAIN wire : wire[i].message = m /\ wire[i].ids = SetToSeq(IdOf(s))}

HandedOk ==
  /\ handed \in [Message -> [Subscriber -> Nat]]
  /\ \A m \in Message, s \in Subscriber :
       m \notin DOMAIN published => handed[m][s] = 0
  /\ \A m \in DOMAIN published, s \in Subscriber :
       /\ handed[m][s] > 0 => TopicMatches(group[s].pattern, published[m].name)
       /\ handed[m][s] + (IF Awaits(m, s) THEN 1 ELSE 0) + Cardinality(InWire(m, s))
            <= Cardinality(Mine(m, s))

OwedOk ==
  \A o \in owed :
    \E m \in DOMAIN published, s \in Range(subject) :
      /\ o = <<m, s>>
      /\ TopicMatches(group[s].pattern, published[m].name)
      /\ handed[m][s] > 0 \/ Awaits(m, s) \/ InWire(m, s) # {}

IInv ==
  /\ AppOk /\ SubjectOk /\ OutgoingOk /\ TableOk /\ PublishedOk
  /\ CallbackType /\ CallbackOk /\ HandedOk /\ OwedOk

-----------------------------------------------------------------------------
(* What the reader of properties finds                                     *)

\* The places of an identifier in a list.
Places(props, id) == {i \in DOMAIN props : props[i].id = id}

\* The least of some places.
LEMMA LeastPlace ==
  ASSUME NEW T, T \subseteq Nat, T # {}
  PROVE  Min(T) \in T /\ \A i \in T : Min(T) <= i
<1>1. PICK m \in T : \A k \in T : m <= k
  BY LeastNat
<1>2. QED BY <1>1 DEF Min

\* f is the first of some places, or 0 if there is none; so is g, which is another one.
Finds(f, g, places) ==
  /\ f \in Nat /\ g \in Nat
  /\ f # 0 => f \in places
  /\ g # 0 => g \in places /\ f # 0
  /\ f = 0 => places = {}
  /\ g = 0 => \A i \in places : i = f

\* What GetProperty finds.
LEMMA Found ==
  ASSUME NEW props \in PropLists, NEW id
  PROVE  Finds(GetProperty(props, id, FALSE), GetProperty(props, id, TRUE), Places(props, id))
<1>1. PICK n \in Nat : n = Len(props) /\ DOMAIN props = 1..n
  BY LenProperties DEF PropLists
<1>2. PICK P : P = Places(props, id)
  OBVIOUS
<1>3. P \subseteq 1..n /\ P \subseteq Nat /\ 0 \notin P
  <2>1. 1..n \subseteq Nat /\ 0 \notin 1..n
    BY SMT
  <2>2. QED BY <1>1, <1>2, <2>1 DEF Places
<1>4. PICK f, g : f = GetProperty(props, id, FALSE) /\ g = GetProperty(props, id, TRUE)
  OBVIOUS
<1>5. SelectInSeq(props, LAMBDA p : p.id = id) = IF P # {} THEN Min(P) ELSE 0
  BY <1>1, <1>2 DEF SelectInSeq, Places
<1>6. f = SelectInSeq(props, LAMBDA p : p.id = id)
  BY <1>4 DEF GetProperty
<1>7. f = IF P # {} THEN Min(P) ELSE 0
  BY <1>5, <1>6
<1>8. CASE P = {}
  <2>1. f = 0
    BY <1>7, <1>8
  <2>2. g = 0
    BY <1>4, <1>6, <2>1 DEF GetProperty
  <2>3. Finds(f, g, P)
    BY <1>8, <2>1, <2>2 DEF Finds
  <2>4. QED BY <1>2, <1>4, <2>3
<1>9. CASE P # {}
  <2>1. f \in P /\ f # 0 /\ f \in Nat /\ \A i \in P : f <= i
    BY <1>3, <1>7, <1>9, LeastPlace
  <2>2. PICK others : others = {i \in f + 1..n : props[i].id = id}
    OBVIOUS
  <2>3. others = {i \in P : f + 1 <= i}
    <3>1. \A i : i \in f + 1..n <=> i \in 1..n /\ f + 1 <= i
      BY SMT, <1>1, <2>1
    <3>2. QED BY <1>1, <1>2, <2>2, <3>1 DEF Places
  <2>4. g = IF others = {} THEN 0 ELSE Min(others)
    BY <1>1, <1>4, <1>6, <2>1, <2>2 DEF GetProperty
  <2>5. CASE others = {}
    <3>1. \A i \in P : i = f
      BY SMT, <1>3, <2>1, <2>3, <2>5
    <3>2. g = 0
      BY <2>4, <2>5
    <3>3. Finds(f, g, P)
      BY <2>1, <3>1, <3>2 DEF Finds
    <3>4. QED BY <1>2, <1>4, <3>3
  <2>6. CASE others # {}
    <3>1. others \subseteq Nat /\ others \subseteq P
      BY <1>3, <2>3
    <3>2. Min(others) \in others
      BY <2>6, <3>1, LeastPlace
    <3>3. Min(others) \in P /\ Min(others) \in Nat /\ Min(others) # 0
      BY <1>3, <3>1, <3>2
    <3>4. Finds(f, g, P)
      BY <2>1, <2>4, <2>6, <3>3 DEF Finds
    <3>5. QED BY <1>2, <1>4, <3>4
  <2>7. QED BY <2>5, <2>6
<1>10. QED BY <1>8, <1>9

\* When the reader finds nothing more it has all values.
LEMMA ReaderEnds ==
  ASSUME NEW props \in PropLists, NEW id, NEW first, Reads(first, 0, props, id)
  PROVE  first = Values(props, id)
<1>1. PICK f, g : f = GetProperty(props, id, FALSE) /\ g = GetProperty(props, id, TRUE)
  OBVIOUS
<1>2. Values(props, id) = {props[i].value : i \in Places(props, id)}
  BY DEF Values, Places
<1>3. CASE first = {} /\ f = 0
  <2>1. Places(props, id) = {}
    BY <1>1, <1>3, Found DEF Finds
  <2>2. QED BY <1>2, <1>3, <2>1
<1>4. CASE f # 0 /\ first = {props[f].value} /\ g = 0
  <2>1. Places(props, id) = {f}
    BY <1>1, <1>4, Found DEF Finds
  <2>2. QED BY <1>2, <1>4, <2>1
<1>5. QED BY <1>1, <1>3, <1>4 DEF Reads

\* Otherwise it goes on.
LEMMA ReaderGoesOn ==
  ASSUME NEW props \in PropLists, NEW id, NEW first, NEW next, next # 0,
         Reads(first, next, props, id)
  PROVE  /\ Reads(IF first = {} THEN {props[next].value} ELSE first,
                  GetProperty(props, id, TRUE), props, id)
         /\ props[next].value \in PropValues
<1>1. PICK f, g : f = GetProperty(props, id, FALSE) /\ g = GetProperty(props, id, TRUE)
  OBVIOUS
<1>2. f # 0 /\ next \in Places(props, id)
  BY <1>1, Found DEF Reads, Finds
<1>3. props[next].value \in PropValues
  <2>1. next \in 1..Len(props)
    BY <1>2, LenProperties DEF Places, PropLists
  <2>2. props[next] \in [id : {SubscriptionIdentifier, UserProperty}, value : PropValues]
    BY <2>1, ElementOfSeq DEF PropLists
  <2>3. QED BY <2>2
<1>4. QED BY <1>1, <1>2, <1>3 DEF Reads

\* A reader that begins.
LEMMA ReaderBegins ==
  ASSUME NEW props \in PropLists, NEW id
  PROVE  Reads({}, GetProperty(props, id, FALSE), props, id)
BY DEF Reads

-----------------------------------------------------------------------------
(* Sets and their sequences                                                *)

\* SetToSeq gives each element once.
LEMMA SetToSeqIs ==
  ASSUME NEW S, IsFiniteSet(S)
  PROVE  /\ Cardinality(S) \in Nat
         /\ SetToSeq(S) \in [1..Cardinality(S) -> S]
         /\ SetToSeq(S) \in Seq(S) /\ Len(SetToSeq(S)) = Cardinality(S)
         /\ \A x \in S : \E i \in 1..Cardinality(S) : SetToSeq(S)[i] = x
<1>1. PICK n \in Nat : n = Cardinality(S) /\ ExistsBijection(1..n, S)
  BY FS_CardinalityType
<1>2. PICK f \in Bijection(1..n, S) : TRUE
  BY <1>1 DEF ExistsBijection
<1>3. f \in [1..n -> S] /\ IsInjective(f)
  BY <1>2 DEF Bijection, Injection, IsInjective
<1>4. PICK g : g = SetToSeq(S)
  OBVIOUS
<1>5. g \in [1..n -> S] /\ IsInjective(g)
  BY <1>1, <1>3, <1>4 DEF SetToSeq
<1>6. g \in Injection(1..n, S)
  BY <1>5 DEF Injection, IsInjective
<1>7. Cardinality(1..n) = n
  BY SMT, FS_Interval
<1>8. g \in Surjection(1..n, S)
  BY <1>1, <1>6, <1>7, FS_Injection
<1>9. \A x \in S : \E i \in 1..n : g[i] = x
  BY <1>8 DEF Surjection
<1>10. g \in Seq(S) /\ Len(g) = n
  BY <1>5
<1>11. QED BY <1>1, <1>4, <1>5, <1>9, <1>10

\* A union of finitely many finite sets is finite.
LEMMA FiniteUnion ==
  ASSUME NEW n \in Nat, NEW f, \A i \in 1..n : IsFiniteSet(f[i])
  PROVE  IsFiniteSet(UNION {f[i] : i \in 1..n})
<1> DEFINE T == {k \in 0..n : IsFiniteSet(UNION {f[i] : i \in 1..k})}
<1>1. 0 \in T
  <2>1. 0 \in 0..n /\ 1..0 = {}
    BY SMT
  <2>2. UNION {f[i] : i \in 1..0} = {}
    BY <2>1
  <2>3. QED BY <2>1, <2>2, FS_EmptySet
<1>2. ASSUME NEW k \in 0..n - 1, k \in T PROVE k + 1 \in T
  <2>1. k + 1 \in 0..n /\ k + 1 \in 1..n /\ 1..k + 1 = 1..k \cup {k + 1}
    BY SMT
  <2>2. UNION {f[i] : i \in 1..k + 1} = (UNION {f[i] : i \in 1..k}) \cup f[k + 1]
    BY <2>1
  <2>3. IsFiniteSet(UNION {f[i] : i \in 1..k}) /\ IsFiniteSet(f[k + 1])
    BY <1>2, <2>1
  <2>4. IsFiniteSet((UNION {f[i] : i \in 1..k}) \cup f[k + 1])
    BY <2>3, FS_Union
  <2>5. QED BY <2>1, <2>2, <2>4
<1>3. n \in T
  <2> HIDE DEF T
  <2>1. \A k \in 0..n : k \in T
    BY <1>1, <1>2, UpTo
  <2>2. n \in 0..n
    BY SMT
  <2>3. QED BY <2>1, <2>2
<1>4. QED BY <1>3

\* The values of a sequence are finitely many.
LEMMA FiniteValues ==
  ASSUME NEW n \in Nat, NEW f
  PROVE  IsFiniteSet({f[i] : i \in 1..n})
<1> DEFINE T == {k \in 0..n : IsFiniteSet({f[i] : i \in 1..k})}
<1>1. 0 \in T
  <2>1. 0 \in 0..n /\ 1..0 = {}
    BY SMT
  <2>2. {f[i] : i \in 1..0} = {}
    BY <2>1
  <2>3. QED BY <2>1, <2>2, FS_EmptySet
<1>2. ASSUME NEW k \in 0..n - 1, k \in T PROVE k + 1 \in T
  <2>1. k + 1 \in 0..n /\ 1..k + 1 = 1..k \cup {k + 1}
    BY SMT
  <2>2. {f[i] : i \in 1..k + 1} = {f[i] : i \in 1..k} \cup {f[k + 1]}
    BY <2>1
  <2>3. IsFiniteSet({f[i] : i \in 1..k} \cup {f[k + 1]})
    BY <1>2, FS_AddElement
  <2>4. QED BY <2>1, <2>2, <2>3
<1>3. n \in T
  <2> HIDE DEF T
  <2>1. \A k \in 0..n : k \in T
    BY <1>1, <1>2, UpTo
  <2>2. n \in 0..n
    BY SMT
  <2>3. QED BY <2>1, <2>2
<1>4. QED BY <1>3

-----------------------------------------------------------------------------
(* The identifiers of subscriptions                                        *)

\* A subscriber of the model.
LEMMA SubscriberIs ==
  ASSUME AppOk, NEW s \in Subscriber
  PROVE  /\ group[s].pattern \in CString
         /\ group[s].ids \in Seq(Nat)
         /\ \E n \in Nat : Subscriber = 1..n
<1>1. group \in Seq([pattern : CString, ids : Seq(Nat)])
  BY SubscribersAssumption DEF AppOk
<1>2. group[s] \in [pattern : CString, ids : Seq(Nat)]
  <2>1. s \in 1..Len(group)
    BY <1>1, LenProperties DEF Subscriber
  <2>2. QED BY <1>1, <2>1, ElementOfSeq
<1>3. \E n \in Nat : Subscriber = 1..n
  BY <1>1, LenProperties DEF Subscriber
<1>4. QED BY <1>2, <1>3

\* The properties of a subscription.
LEMMA OptionsIs ==
  ASSUME AppOk, NEW s \in Subscriber
  PROVE  /\ Options(s) \in PropLists
         /\ Values(Options(s), SubscriptionIdentifier) = {p.value : p \in Range(Options(s))}
         /\ IsFiniteSet(IdOf(s)) /\ IdOf(s) \subseteq Nat
         /\ version = "v311" => IdOf(s) = {}
<1> DEFINE S == [id : {SubscriptionIdentifier}, value : Nat]
           ids == group[s].ids
           wanted == [i \in DOMAIN ids |-> Prop(SubscriptionIdentifier, ids[i])]
           parts == [i \in DOMAIN wanted |-> IF Addable(wanted[i]) THEN <<wanted[i]>> ELSE <<>>]
<1>1. PICK n \in Nat : n = Len(ids) /\ DOMAIN ids = 1..n /\ \A i \in 1..n : ids[i] \in Nat
  <2>1. ids \in Seq(Nat)
    BY SubscriberIs
  <2>2. QED BY <2>1, LenProperties, ElementOfSeq
<1>2. DOMAIN wanted = 1..n /\ \A i \in 1..n : wanted[i] \in S
  BY <1>1 DEF Prop
<1> HIDE DEF wanted, S
<1>3. \A i \in 1..n : <<wanted[i]>> \in Seq(S) /\ <<>> \in Seq(S)
  BY <1>2
<1>4. parts \in Seq(Seq(S))
  <2>1. parts = [i \in 1..n |-> parts[i]] /\ \A i \in 1..n : parts[i] \in Seq(S)
    BY <1>2, <1>3
  <2> HIDE DEF parts
  <2>2. QED BY <2>1
<1>5. PICK o : o = FlattenSeq(parts)
  OBVIOUS
<1>6. o \in Seq(S)
  <2> HIDE DEF parts
  <2>1. QED BY <1>4, <1>5, FlattenLength
<1>7. o = Options(s)
  BY <1>5 DEF Options, Built, wanted
<1>8. PICK m \in Nat : m = Len(o) /\ DOMAIN o = 1..m /\ \A i \in 1..m : o[i] \in S
  BY <1>6, LenProperties, ElementOfSeq
<1>9. \A i \in 1..m : o[i].id = SubscriptionIdentifier /\ o[i].value \in Nat
  BY <1>8 DEF S
<1>10. Options(s) \in PropLists
  <2>1. S \subseteq [id : {SubscriptionIdentifier, UserProperty}, value : PropValues]
    BY DEF S, PropValues
  <2>2. PICK T : T = [id : {SubscriptionIdentifier, UserProperty}, value : PropValues]
    OBVIOUS
  <2>3. o = [i \in 1..m |-> o[i]] /\ \A i \in 1..m : o[i] \in T
    BY <1>6, <1>8, <2>1, <2>2
  <2>4. o \in Seq(T)
    BY <2>3
  <2>5. QED BY <1>7, <2>2, <2>4 DEF PropLists
<1>11. {i \in DOMAIN o : o[i].id = SubscriptionIdentifier} = 1..m
  BY <1>8, <1>9
<1>12. Values(o, SubscriptionIdentifier) = {o[i].value : i \in 1..m}
  BY <1>11 DEF Values
<1>13. {p.value : p \in Range(o)} = {o[i].value : i \in 1..m}
  BY <1>8 DEF Range
<1>14. IsFiniteSet({o[i].value : i \in 1..m})
  <2>1. PICK v : v = [i \in 1..m |-> o[i].value]
    OBVIOUS
  <2>2. {v[i] : i \in 1..m} = {o[i].value : i \in 1..m}
    BY <2>1
  <2>3. QED BY <2>2, FiniteValues
<1>15. IsFiniteSet(IdOf(s)) /\ IdOf(s) \subseteq Nat /\ (version = "v311" => IdOf(s) = {})
  <2>1. CASE version = "v5"
    <3>1. IdOf(s) = {o[i].value : i \in 1..m}
      BY <1>7, <1>13, <2>1 DEF IdOf
    <3>2. QED BY <1>9, <1>14, <2>1, <3>1
  <2>2. CASE version # "v5"
    <3>1. IdOf(s) = {}
      BY <2>2 DEF IdOf
    <3>2. QED BY <3>1, FS_EmptySet
  <2>3. QED BY <2>1, <2>2
<1>16. QED BY <1>7, <1>10, <1>12, <1>13, <1>15

\* All identifiers together.
LEMMA AllIdsFinite ==
  ASSUME AppOk
  PROVE  /\ IsFiniteSet(AllIds) /\ AllIds \subseteq Nat
         /\ version = "v311" => AllIds = {}
         /\ \A s \in Subscriber : IdOf(s) \subseteq AllIds
<1>1. PICK n \in Nat : Subscriber = 1..n
  <2>1. group \in Seq([pattern : CString, ids : Seq(Nat)])
    BY SubscribersAssumption DEF AppOk
  <2>2. QED BY <2>1, LenProperties DEF Subscriber
<1>2. PICK f : f = [s \in 1..n |-> IdOf(s)]
  OBVIOUS
<1>3. \A s \in 1..n : f[s] = IdOf(s) /\ IsFiniteSet(f[s])
  BY <1>1, <1>2, OptionsIs
<1>4. AllIds = UNION {f[s] : s \in 1..n}
  BY <1>1, <1>3 DEF AllIds
<1>5. IsFiniteSet(AllIds)
  BY <1>3, <1>4, FiniteUnion
<1>6. QED BY <1>5, OptionsIs DEF AllIds

-----------------------------------------------------------------------------
(* The properties of a copy                                                *)

\* The list of a copy, and the identifiers in it.
LEMMA PropsOfIs ==
  ASSUME PublishedOk, NEW c, c.message \in DOMAIN published, c.ids \in Seq(Nat)
  PROVE  /\ PropsOf(c) \in PropLists
         /\ Theirs(PropsOf(c)) = {c.ids[i] : i \in 1..Len(c.ids)}
<1> DEFINE T == [id : {SubscriptionIdentifier, UserProperty}, value : PropValues]
           k == published[c.message].users
           l == Len(c.ids)
           a == [i \in 1..k |-> Prop(UserProperty, <<<<i>>, <<i>>>>)]
           b == [i \in DOMAIN c.ids |-> Prop(SubscriptionIdentifier, c.ids[i])]
<1>1. k \in Nat
  <2>1. PICK P : P = Seq([message : Nat, ids : Seq(Nat)])
    OBVIOUS
  <2>2. published \in Seq([name : Names, users : UserProperties, copies : P])
    BY <2>1 DEF PublishedOk
  <2>3. c.message \in 1..Len(published)
    BY <2>2, LenProperties
  <2>4. published[c.message] \in [name : Names, users : UserProperties, copies : P]
    BY <2>2, <2>3, ElementOfSeq
  <2>5. QED BY <2>4, SubscribersAssumption
<1>2. l \in Nat /\ DOMAIN c.ids = 1..l /\ \A i \in 1..l : c.ids[i] \in Nat
  BY LenProperties, ElementOfSeq
<1> HIDE DEF k, l
<1>3. a \in Seq(T) /\ Len(a) = k /\ \A i \in 1..k : a[i] \in T /\ a[i].id = UserProperty
  <2>1. \A i \in 1..k : i \in Nat
    BY SMT, <1>1
  <2>2. \A i \in 1..k : <<i>> \in Seq(Nat)
    BY <2>1
  <2>3. \A i \in 1..k : <<<<i>>, <<i>>>> \in PropValues
    BY <2>2 DEF PropValues
  <2>4. \A i \in 1..k : a[i] \in T /\ a[i].id = UserProperty
    BY <2>3 DEF Prop
  <2>5. a \in [1..k -> T]
    BY <2>4
  <2> HIDE DEF a, T
  <2>6. QED BY <1>1, <2>4, <2>5
<1>4. b \in Seq(T) /\ Len(b) = l /\ \A i \in 1..l : b[i] \in T /\ b[i].id = SubscriptionIdentifier /\ b[i].value = c.ids[i]
  <2>1. \A i \in 1..l : c.ids[i] \in PropValues
    BY <1>2 DEF PropValues
  <2>2. \A i \in 1..l : b[i] \in T /\ b[i].id = SubscriptionIdentifier /\ b[i].value = c.ids[i]
    BY <1>2, <2>1 DEF Prop
  <2>3. b \in [1..l -> T]
    BY <1>2, <2>2
  <2> HIDE DEF b, T
  <2>4. QED BY <1>2, <2>2, <2>3
<1>5. PICK o : o = PropsOf(c)
  OBVIOUS
<1>6. o = a \o b
  BY <1>5 DEF PropsOf, k
<1> HIDE DEF a, b, T
<1>7. /\ o \in Seq(T) /\ Len(o) = k + l
      /\ \A i \in 1..k + l : o[i] = IF i <= k THEN a[i] ELSE b[i - k]
  BY <1>3, <1>4, <1>6, ConcatProperties
<1>8. o \in PropLists
  BY <1>7 DEF PropLists, T
<1>9. DOMAIN o = 1..k + l
  BY <1>7, LenProperties
<1>10. SubscriptionIdentifier # UserProperty
  BY DEF SubscriptionIdentifier, UserProperty
<1>11. \A i \in 1..k + l : /\ i <= k => i \in 1..k
                           /\ ~(i <= k) => i - k \in 1..l /\ k + (i - k) = i
  BY SMT, <1>1, <1>2
<1>12. \A i \in 1..l : k + i \in 1..k + l /\ ~(k + i <= k) /\ k + i - k = i
  BY SMT, <1>1, <1>2
<1>13. \A i \in 1..k + l : i <= k => o[i].id # SubscriptionIdentifier
  BY <1>3, <1>7, <1>10, <1>11
<1>14. \A i \in 1..l : o[k + i].id = SubscriptionIdentifier /\ o[k + i].value = c.ids[i]
  <2>1. SUFFICES ASSUME NEW i \in 1..l
                 PROVE  o[k + i].id = SubscriptionIdentifier /\ o[k + i].value = c.ids[i]
    OBVIOUS
  <2>2. o[k + i] = b[i]
    <3>1. PICK j : j \in 1..k + l /\ j = k + i /\ ~(j <= k) /\ j - k = i
      BY SMT, <1>1, <1>2
    <3>2. o[j] = b[j - k]
      BY <1>7, <3>1
    <3>3. QED BY <3>1, <3>2
  <2>3. QED BY <1>4, <2>2
<1>15. Theirs(o) \subseteq {c.ids[i] : i \in 1..l}
  <2>1. SUFFICES ASSUME NEW j \in DOMAIN o, o[j].id = SubscriptionIdentifier
                 PROVE  o[j].value \in {c.ids[i] : i \in 1..l}
    BY DEF Theirs, Values
  <2>2. j - k \in 1..l /\ k + (j - k) = j
    BY <1>9, <1>11, <1>13, <2>1
  <2>3. o[j].value = c.ids[j - k]
    BY <1>14, <2>2
  <2>4. QED BY <2>2, <2>3
<1>16. {c.ids[i] : i \in 1..l} \subseteq Theirs(o)
  BY <1>9, <1>12, <1>14 DEF Theirs, Values
<1>17. QED BY <1>5, <1>8, <1>15, <1>16 DEF l

\* A copy is for those whose identifiers it has.
LEMMA WhoseCopy ==
  ASSUME AppOk, PublishedOk, NEW c, GoodCopy(c)
  PROVE  /\ c.ids \in Seq(Nat) /\ PropsOf(c) \in PropLists
         /\ version = "v311" => Theirs(PropsOf(c)) = {}
         /\ \A s \in Subscriber : c.ids = SetToSeq(IdOf(s)) <=> Theirs(PropsOf(c)) = IdOf(s)
<1>1. PICK ids \in SUBSET AllIds : c.ids = SetToSeq(ids)
  BY DEF GoodCopy
<1>2. IsFiniteSet(ids) /\ ids \subseteq Nat /\ (version = "v311" => ids = {})
  <2>1. IsFiniteSet(AllIds) /\ AllIds \subseteq Nat /\ (version = "v311" => AllIds = {})
    BY AllIdsFinite
  <2>2. IsFiniteSet(ids)
    BY <1>1, <2>1, FS_Subset
  <2>3. QED BY <1>1, <2>1, <2>2
<1>3. PICK n \in Nat :
        /\ n = Cardinality(ids) /\ c.ids \in [1..n -> ids] /\ c.ids \in Seq(ids) /\ Len(c.ids) = n
        /\ \A x \in ids : \E i \in 1..n : c.ids[i] = x
  BY <1>1, <1>2, SetToSeqIs
<1>4. c.ids \in Seq(Nat)
  <2>1. c.ids \in [1..n -> Nat]
    BY <1>2, <1>3
  <2>2. QED BY <2>1
<1>5. c.message \in DOMAIN published
  BY DEF GoodCopy
<1>6. PICK o : o = PropsOf(c)
  OBVIOUS
<1>7. o \in PropLists /\ Theirs(o) = {c.ids[i] : i \in 1..n}
  BY <1>3, <1>4, <1>5, <1>6, PropsOfIs
<1>8. Theirs(o) = ids
  BY <1>3, <1>7
<1>9. ASSUME NEW s \in Subscriber, c.ids = SetToSeq(IdOf(s))
      PROVE  ids = IdOf(s)
  <2>1. IsFiniteSet(IdOf(s))
    BY OptionsIs
  <2>2. PICK d \in Nat :
          /\ d = Cardinality(IdOf(s)) /\ c.ids \in [1..d -> IdOf(s)] /\ Len(c.ids) = d
          /\ \A x \in IdOf(s) : \E i \in 1..d : c.ids[i] = x
    BY <1>9, <2>1, SetToSeqIs
  <2>3. d = n
    BY <1>3, <2>2
  <2>4. IdOf(s) = {c.ids[i] : i \in 1..n}
    BY <2>2, <2>3
  <2>5. ids = {c.ids[i] : i \in 1..n}
    BY <1>3
  <2>6. QED BY <2>4, <2>5
<1>10. QED BY <1>1, <1>2, <1>4, <1>6, <1>7, <1>8, <1>9

-----------------------------------------------------------------------------
(* The invariant holds at first and implies HandedAsOwed                   *)

\* At first nothing is published, and nobody is in the callback.
LEMMA InvariantInit == Init => IInv
<1> SUFFICES ASSUME Init PROVE IInv
  OBVIOUS
<1>1. AppOk
  BY DEF Init, AppOk
<1>2. <<>> \in Seq(Subscriber) /\ Len(<<>>) = 0 /\ DOMAIN <<>> = {}
  BY EmptySeq
<1>3. SubjectOk /\ OutgoingOk
  BY <1>2, EmptySeq DEF Init, SubjectOk, OutgoingOk, Unique
<1>4. TableOk
  BY FS_EmptySet DEF Init, TableOk
<1>5. PublishedOk
  BY <1>2, EmptySeq, SubscribersAssumption DEF Init, PublishedOk
<1>6. CallbackType
  BY <1>2, EmptySeq DEF Init, Idle, CallbackType, PropLists
<1>7. Theirs(<<>>) = {}
  BY <1>2 DEF Theirs, Values
<1>8. callback.at = "idle" /\ callback = Idle /\ callback.todo = <<>> /\ callback.props = <<>>
  BY DEF Init, Idle
<1>9. CallbackOk
  BY <1>2, <1>7, <1>8 DEF CallbackOk, IsReading, Unique
<1>10. HandedOk
  BY <1>2 DEF Init, HandedOk
<1>11. OwedOk
  BY DEF Init, OwedOk
<1>12. QED BY <1>1, <1>3, <1>4, <1>5, <1>6, <1>9, <1>10, <1>11 DEF IInv

\* What is published is typed.
LEMMA PublicationIs ==
  ASSUME PublishedOk, NEW m \in DOMAIN published
  PROVE  /\ published[m].name \in Names /\ published[m].users \in UserProperties
         /\ published[m].copies \in Seq([message : Nat, ids : Seq(Nat)])
         /\ m \in 1..Len(published) /\ m \in Message /\ Len(published) \in Nat
<1>1. PICK P : P = Seq([message : Nat, ids : Seq(Nat)])
  OBVIOUS
<1>2. published \in Seq([name : Names, users : UserProperties, copies : P])
  BY <1>1 DEF PublishedOk
<1>3. m \in 1..Len(published) /\ Len(published) \in Nat
  BY <1>2, LenProperties
<1>4. published[m] \in [name : Names, users : UserProperties, copies : P]
  BY <1>2, <1>3, ElementOfSeq
<1>5. m \in Message
  <2>1. Len(published) <= MaxMessages /\ MaxMessages \in Nat
    BY SubscribersAssumption DEF PublishedOk
  <2>2. QED BY SMT, <1>3, <2>1 DEF Message
<1>6. QED BY <1>1, <1>3, <1>4, <1>5

\* The copies of a message that are for a subscriber, and those that are under way, are finitely many.
LEMMA FiniteCopies ==
  ASSUME PublishedOk
  PROVE  /\ \A m, s : IsFiniteSet(InWire(m, s)) /\ Cardinality(InWire(m, s)) \in Nat
                      /\ (Cardinality(InWire(m, s)) = 0 <=> InWire(m, s) = {})
         /\ \A m \in DOMAIN published, s \in Subscriber : IsFiniteSet(Mine(m, s)) /\ Cardinality(Mine(m, s)) \in Nat
<1>1. PICK l \in Nat : DOMAIN wire = 1..l
  BY LenProperties DEF PublishedOk
<1>2. ASSUME NEW l2 \in Nat, NEW T, T \subseteq 1..l2
      PROVE  IsFiniteSet(T) /\ Cardinality(T) \in Nat
  <2>1. IsFiniteSet(1..l2)
    BY SMT, FS_Interval
  <2>2. IsFiniteSet(T)
    BY <1>2, <2>1, FS_Subset
  <2>3. QED BY <2>2, FS_CardinalityType
<1>3. ASSUME NEW m, NEW s PROVE IsFiniteSet(InWire(m, s)) /\ Cardinality(InWire(m, s)) \in Nat
  BY <1>1, <1>2 DEF InWire
<1>4. ASSUME NEW m \in DOMAIN published, NEW s \in Subscriber PROVE IsFiniteSet(Mine(m, s)) /\ Cardinality(Mine(m, s)) \in Nat
  <2>1. PICK k \in Nat : DOMAIN published[m].copies = 1..k
    BY PublicationIs, LenProperties
  <2>2. QED BY <1>2, <2>1 DEF Mine
<1>5. QED BY <1>3, <1>4, FS_EmptySet

\* The loop over the characters says of a valid pattern what the match by levels says.
LEMMA MatchesAlike ==
  ASSUME AppOk, NEW name \in Names, NEW s \in Subscriber, SubTopicValid(group[s].pattern)
  PROVE  TopicMatches(group[s].pattern, name) <=> MatchesByLevel(group[s].pattern, name)
BY SubscriberIs, SubscribersAssumption, LoopMatchesByLevel

\* The bound on the sum is one on each part, and the loop matches as the levels do.
LEMMA InvariantImplies == IInv => HandedAsOwed
<1> SUFFICES ASSUME IInv PROVE HandedAsOwed
  OBVIOUS
<1>1. AppOk /\ PublishedOk /\ HandedOk /\ OwedOk
  BY DEF IInv
<1>2. SUFFICES ASSUME NEW m \in DOMAIN published, NEW s \in Subscriber
               PROVE  /\ handed[m][s] > 0 /\ SubTopicValid(group[s].pattern)
                           => MatchesByLevel(group[s].pattern, published[m].name)
                      /\ handed[m][s] <= Cardinality(Mine(m, s))
                      /\ <<m, s>> \in owed => handed[m][s] > 0 \/ UnderWay(m)
  BY DEF HandedAsOwed, Mine
<1>3. handed[m][s] > 0 /\ SubTopicValid(group[s].pattern)
        => MatchesByLevel(group[s].pattern, published[m].name)
  BY <1>1, PublicationIs, MatchesAlike DEF HandedOk
<1>4. handed[m][s] <= Cardinality(Mine(m, s))
  <2>1. PICK a, b, c, h : /\ a = (IF Awaits(m, s) THEN 1 ELSE 0)
                          /\ b = Cardinality(InWire(m, s)) /\ c = Cardinality(Mine(m, s))
                          /\ h = handed[m][s]
    OBVIOUS
  <2>2. b \in Nat /\ c \in Nat /\ a \in {0, 1}
    BY <1>1, <2>1, FiniteCopies
  <2>3. h \in Nat
    BY <1>1, <2>1, PublicationIs DEF HandedOk
  <2>4. h + a + b <= c
    BY <1>1, <2>1 DEF HandedOk
  <2>5. h <= c
    BY SMT, <2>2, <2>3, <2>4
  <2>6. QED BY <2>1, <2>5
<1>5. <<m, s>> \in owed => handed[m][s] > 0 \/ UnderWay(m)
  BY <1>1 DEF OwedOk, UnderWay, Awaits, InWire
<1>6. QED BY <1>3, <1>4, <1>5

-----------------------------------------------------------------------------
(* What stays                                                              *)

\* The subscribers and what they ask for do not change.
LEMMA AppSame ==
  ASSUME UNCHANGED app
  PROVE  /\ Subscriber' = Subscriber /\ AllIds' = AllIds /\ Valid' = Valid
         /\ \A s : Options(s)' = Options(s) /\ IdOf(s)' = IdOf(s) /\ Packet(s)' = Packet(s)
         /\ \A s : group'[s].pattern = group[s].pattern
         /\ AppOk => AppOk'
<1>1. version' = version /\ group' = group
  OBVIOUS
<1>2. Subscriber' = Subscriber
  BY <1>1 DEF Subscriber
<1>3. ASSUME NEW s PROVE Options(s)' = Options(s)
  BY <1>1 DEF Options
<1>4. ASSUME NEW s PROVE IdOf(s)' = IdOf(s)
  BY <1>1, <1>3 DEF IdOf
<1>5. ASSUME NEW s PROVE Packet(s)' = Packet(s)
  BY <1>1, <1>3 DEF Packet
<1>6. AllIds' = AllIds
  BY <1>2, <1>4 DEF AllIds
<1>7. AppOk => AppOk'
  BY <1>1 DEF AppOk
<1>8. Valid' = Valid
  BY <1>1, <1>2 DEF Valid
<1>9. QED BY <1>1, <1>2, <1>3, <1>4, <1>5, <1>6, <1>7, <1>8

\* So do the parts of the invariant whose variables do not change.
LEMMA PublishedSame ==
  ASSUME UNCHANGED <<app, published, wire>>
  PROVE  /\ PublishedOk => PublishedOk'
         /\ \A m, s : Mine(m, s)' = Mine(m, s) /\ InWire(m, s)' = InWire(m, s)
<1>1. AllIds' = AllIds /\ \A s : IdOf(s)' = IdOf(s)
  BY AppSame
<1>2. ASSUME NEW c PROVE GoodCopy(c)' = GoodCopy(c)
  BY <1>1 DEF GoodCopy
<1>3. PublishedOk => PublishedOk'
  BY <1>2 DEF PublishedOk
<1>4. ASSUME NEW m, NEW s PROVE Mine(m, s)' = Mine(m, s) /\ InWire(m, s)' = InWire(m, s)
  BY <1>1 DEF Mine, InWire
<1>5. QED BY <1>3, <1>4

LEMMA CallbackSame ==
  ASSUME UNCHANGED <<app, callback>>
  PROVE  /\ CallbackType => CallbackType'
         /\ published' = published /\ CallbackOk => CallbackOk'
         /\ \A m, s : Awaits(m, s)' = Awaits(m, s)
<1>1. Subscriber' = Subscriber /\ \A s : Options(s)' = Options(s) /\ IdOf(s)' = IdOf(s)
  BY AppSame
<1>2. CallbackType => CallbackType'
  BY <1>1 DEF CallbackType
<1>3. IsReading' = IsReading /\ Reading' = Reading /\ Waiting' = Waiting
  BY <1>1 DEF IsReading, Reading, Waiting
<1>4. published' = published /\ CallbackOk => CallbackOk'
  BY <1>1, <1>3 DEF CallbackOk
<1>5. ASSUME NEW m, NEW s PROVE Awaits(m, s)' = Awaits(m, s)
  BY <1>1, <1>3 DEF Awaits
<1>6. QED BY <1>2, <1>4, <1>5

LEMMA HandedSame ==
  ASSUME HandedOk, UNCHANGED <<app, callback, published, wire, handed>>
  PROVE  HandedOk'
<1>1. Subscriber' = Subscriber
  BY AppSame
<1>2. \A m, s : Mine(m, s)' = Mine(m, s) /\ InWire(m, s)' = InWire(m, s)
  BY PublishedSame
<1>3. \A m, s : Awaits(m, s)' = Awaits(m, s)
  BY CallbackSame
<1>4. QED BY <1>1, <1>2, <1>3 DEF HandedOk

LEMMA OwedSame ==
  ASSUME OwedOk, UNCHANGED <<app, callback, published, wire, handed>>,
         owed' \subseteq owed, Range(subject) \subseteq Range(subject')
  PROVE  OwedOk'
<1>1. \A m, s : InWire(m, s)' = InWire(m, s) /\ Awaits(m, s)' = Awaits(m, s)
  BY PublishedSame, CallbackSame
<1>2. QED BY <1>1 DEF OwedOk

-----------------------------------------------------------------------------
(* Subscriptions                                                           *)

\* Something appended.
LEMMA AppendIs ==
  ASSUME NEW S, NEW s \in Seq(S), NEW e \in S
  PROVE  /\ Append(s, e) \in Seq(S)
         /\ Range(s) \subseteq Range(Append(s, e))
         /\ Unique(s) /\ e \notin Range(s) => Unique(Append(s, e))
<1>1. PICK n \in Nat : n = Len(s) /\ DOMAIN s = 1..n
  BY LenProperties
<1>2. PICK a : a = Append(s, e)
  OBVIOUS
<1>3. a \in Seq(S) /\ DOMAIN a = 1..n + 1 /\ a[n + 1] = e /\ \A i \in 1..n : a[i] = s[i]
  <2>1. a \in Seq(S) /\ Len(a) = n + 1 /\ a[n + 1] = e /\ \A i \in 1..n : a[i] = s[i]
    BY <1>1, <1>2, AppendProperties
  <2>2. QED BY <2>1, LenProperties
<1>4. \A i \in 1..n + 1 : i \in 1..n \/ i = n + 1
  BY SMT
<1>5. \A i \in 1..n : i \in 1..n + 1
  BY SMT
<1>6. Range(s) \subseteq Range(a)
  BY <1>1, <1>3, <1>5 DEF Range
<1>7. ASSUME Unique(s), e \notin Range(s) PROVE Unique(a)
  <2>1. SUFFICES ASSUME NEW i \in 1..n + 1, NEW j \in 1..n + 1, a[i] = a[j] PROVE i = j
    BY <1>3 DEF Unique
  <2>2. \A k \in 1..n : a[k] # e
    BY <1>1, <1>3, <1>7 DEF Range
  <2>3. QED BY <1>1, <1>3, <1>4, <1>7, <2>1, <2>2 DEF Unique
<1>8. QED BY <1>2, <1>3, <1>6, <1>7

\* One more subscriber is registered.
LEMMA KeepsSubscribe ==
  ASSUME IInv, NEW s \in Subscriber, Subscribe(s)
  PROVE  IInv'
<1>1. /\ subject' = Append(subject, s) /\ queue' = Append(queue, s) /\ s \notin Range(subject)
      /\ UNCHANGED <<app, sock, outgoing, broker, wire, callback, conns, handed>>
  BY DEF Subscribe
<1>2. Subscriber' = Subscriber /\ AllIds' = AllIds /\ (\A x : Packet(x)' = Packet(x)) /\ AppOk' /\ Valid' = Valid
  BY <1>1, AppSame DEF IInv
<1>3. SubjectOk' /\ Range(subject) \subseteq Range(subject')
  <2>1. SubjectOk
    BY DEF IInv
  <2>2. subject' \in Seq(Subscriber) /\ Unique(subject') /\ queue' \in Seq(Subscriber)
        /\ Range(subject) \subseteq Range(subject')
    BY <1>1, <2>1, AppendIs DEF SubjectOk
  <2>3. QED BY <1>2, <2>2 DEF SubjectOk
<1>4. OutgoingOk' /\ TableOk'
  BY <1>1, <1>2 DEF IInv, OutgoingOk, TableOk
<1>5. PublishedOk' /\ CallbackType' /\ CallbackOk' /\ HandedOk'
  BY <1>1, PublishedSame, CallbackSame, HandedSame DEF IInv
<1>6. OwedOk'
  BY <1>1, <1>3, OwedSame DEF IInv
<1>7. QED BY <1>2, <1>3, <1>4, <1>5, <1>6 DEF IInv

\* A call of subscribe succeeds only with a valid pattern.
LEMMA SentIsValid ==
  ASSUME NEW c, NEW s \in Subscriber, CallVerdict(version, c, Packet(s)) = "SUCCESS"
  PROVE  s \in Valid
<1>1. PICK p : p = Packet(s)
  OBVIOUS
<1>2. p.kind = "SUBSCRIBE" /\ p.options = 0 /\ p.filters = <<group[s].pattern>>
  BY <1>1 DEF Packet
<1>3. FilterVerdict(version, c, p, 1) = "SUCCESS"
  BY <1>1, <1>2 DEF CallVerdict
<1>4. \A i \in DOMAIN p.filters : SubTopicValid(p.filters[i])
  <2>1. 1..1 - 1 = {} /\ DOMAIN p.filters = {1}
    BY SMT, <1>2
  <2>2. ~(~SubTopicValid(p.filters[1]) /\ \A j \in 1..1 - 1 : ValidUtf8(p.filters[j]))
    BY <1>3, <2>1 DEF FilterVerdict
  <2>3. QED BY <2>1, <2>2
<1>5. 1 \in DOMAIN p.filters /\ p.filters[1] = group[s].pattern
  BY <1>2
<1>6. QED BY <1>4, <1>5 DEF Valid

\* A packet is queued or the call is forgotten; the identifiers are those of its options.
LEMMA KeepsCallSubscribe ==
  ASSUME IInv, CallSubscribe
  PROVE  IInv'
<1>1. /\ queue # <<>> /\ queue' = Tail(queue)
      /\ \/ /\ outgoing' = Append(outgoing, Packet(Head(queue)))
            /\ CallVerdict(version, [maximumPacketSize |-> 0], Packet(Head(queue))) = "SUCCESS"
         \/ outgoing' = outgoing
      /\ UNCHANGED <<app, subject, sock, broker, wire, callback, conns, handed>>
  BY DEF CallSubscribe
<1>2. Subscriber' = Subscriber /\ AllIds' = AllIds /\ (\A x : Packet(x)' = Packet(x)) /\ AppOk' /\ Valid' = Valid
  BY <1>1, AppSame DEF IInv
<1>3. Head(queue) \in Subscriber /\ Tail(queue) \in Seq(Subscriber) /\ SubjectOk'
  <2>1. Head(queue) \in Subscriber /\ Tail(queue) \in Seq(Subscriber)
    BY <1>1, HeadTailProperties DEF IInv, SubjectOk
  <2>2. QED BY <1>1, <1>2, <2>1 DEF IInv, SubjectOk
<1>4. OutgoingOk'
  <2>1. PICK P : P = {Packet(s) : s \in Valid}
    OBVIOUS
  <2>2. outgoing \in Seq(P)
    BY <2>1 DEF IInv, OutgoingOk
  <2>3. outgoing' \in Seq(P)
    <3>1. CASE outgoing' = outgoing
      BY <2>2, <3>1
    <3>2. CASE outgoing' # outgoing
      <4>1. Head(queue) \in Valid
        BY <1>1, <1>3, <3>2, SentIsValid
      <4>2. QED BY <1>1, <2>1, <2>2, <3>2, <4>1, AppendProperties
    <3>3. QED BY <3>1, <3>2
  <2>4. {Packet(s)' : s \in Valid'} = P
    BY <1>2, <2>1
  <2>5. QED BY <2>3, <2>4 DEF OutgoingOk
<1>5. TableOk'
  BY <1>1, <1>2 DEF IInv, TableOk
<1>6. PublishedOk' /\ CallbackType' /\ CallbackOk' /\ HandedOk'
  BY <1>1, PublishedSame, CallbackSame, HandedSame DEF IInv
<1>7. OwedOk'
  BY <1>1, OwedSame DEF IInv
<1>8. QED BY <1>2, <1>3, <1>4, <1>5, <1>6, <1>7 DEF IInv

\* An entry of the table has the identifiers of a subscriber.
LEMMA KeepsTakesSubscribe ==
  ASSUME IInv, TakesSubscribe
  PROVE  IInv'
<1>1. /\ outgoing # <<>> /\ outgoing' = Tail(outgoing)
      /\ \E e \in {Entry(Head(outgoing))} :
           table' = {f \in table : f.pattern # e.pattern} \cup {e}
      /\ UNCHANGED <<app, subject, queue, sock, wire, callback, conns, published, owed, handed>>
  BY DEF TakesSubscribe
<1>2. Subscriber' = Subscriber /\ AllIds' = AllIds /\ (\A x : Packet(x)' = Packet(x)) /\ AppOk' /\ Valid' = Valid
  BY <1>1, AppSame DEF IInv
<1>3. PICK P : P = {Packet(s) : s \in Valid}
  OBVIOUS
<1>4. Head(outgoing) \in P /\ Tail(outgoing) \in Seq(P)
  BY <1>1, <1>3, HeadTailProperties DEF IInv, OutgoingOk
<1>5. OutgoingOk'
  <2>1. {Packet(s)' : s \in Valid'} = P
    BY <1>2, <1>3
  <2>2. QED BY <1>1, <1>4, <2>1 DEF OutgoingOk
<1>6. PICK s \in Valid : Head(outgoing) = Packet(s)
  BY <1>3, <1>4
<1>7. PICK e : e = Entry(Packet(s)) /\ table' = {f \in table : f.pattern # e.pattern} \cup {e}
  BY <1>1, <1>6
<1>8. e.id = IdOf(s)
  <2>1. PICK p : p = Packet(s).props
    OBVIOUS
  <2>2. e.id = {p[i].value : i \in DOMAIN p}
    BY <1>7, <2>1 DEF Entry
  <2>3. CASE version = "v5"
    <3>1. p = Options(s)
      BY <2>1, <2>3 DEF Packet
    <3>2. {p[i].value : i \in DOMAIN p} = {q.value : q \in Range(p)}
      BY DEF Range
    <3>3. QED BY <2>2, <2>3, <3>1, <3>2 DEF IdOf
  <2>4. CASE version # "v5"
    <3>1. p = <<>> /\ DOMAIN <<>> = {}
      BY <2>1, <2>4 DEF Packet
    <3>2. QED BY <2>2, <2>4, <3>1 DEF IdOf
  <2>5. QED BY <2>3, <2>4
<1>9. TableOk'
  <2>1. TableOk
    BY DEF IInv
  <2>2. IsFiniteSet({f \in table : f.pattern # e.pattern})
    BY <2>1, FS_Subset DEF TableOk
  <2>3. IsFiniteSet(table')
    BY <1>7, <2>2, FS_AddElement
  <2>4. e.id \subseteq AllIds
    BY <1>8 DEF AllIds, Valid
  <2>5. SubTopicValid(e.pattern)
    <3>1. Packet(s).filters[1] = group[s].pattern
      BY DEF Packet
    <3>2. QED BY <1>7, <3>1 DEF Entry, Valid
  <2>6. QED BY <1>2, <1>7, <2>1, <2>3, <2>4, <2>5 DEF TableOk
<1>10. SubjectOk'
  BY <1>1, <1>2 DEF IInv, SubjectOk
<1>11. PublishedOk' /\ CallbackType' /\ CallbackOk' /\ HandedOk'
  BY <1>1, PublishedSame, CallbackSame, HandedSame DEF IInv
<1>12. OwedOk'
  BY <1>1, OwedSame DEF IInv
<1>13. QED BY <1>2, <1>5, <1>9, <1>10, <1>11, <1>12 DEF IInv

\* The table is kept or emptied.
LEMMA KeepsConnects ==
  ASSUME IInv, Connects
  PROVE  IInv'
<1>1. /\ table' = {} \/ table' = table
      /\ UNCHANGED <<app, subject, queue, outgoing, wire, callback, published, owed, handed>>
  BY DEF Connects
<1>2. Subscriber' = Subscriber /\ AllIds' = AllIds /\ (\A x : Packet(x)' = Packet(x)) /\ AppOk' /\ Valid' = Valid
  BY <1>1, AppSame DEF IInv
<1>3. SubjectOk' /\ OutgoingOk'
  BY <1>1, <1>2 DEF IInv, SubjectOk, OutgoingOk
<1>4. TableOk'
  BY <1>1, <1>2, FS_EmptySet DEF IInv, TableOk
<1>5. PublishedOk' /\ CallbackType' /\ CallbackOk' /\ HandedOk'
  BY <1>1, PublishedSame, CallbackSame, HandedSame DEF IInv
<1>6. OwedOk'
  BY <1>1, OwedSame DEF IInv
<1>7. QED BY <1>2, <1>3, <1>4, <1>5, <1>6 DEF IInv

-----------------------------------------------------------------------------
(* Copies of messages                                                      *)

\* Places that have been moved are as many.
LEMMA MovedPlaces ==
  ASSUME NEW d \in Nat, NEW T, T \subseteq Nat, IsFiniteSet(T)
  PROVE  LET U == {i + d : i \in T} IN IsFiniteSet(U) /\ Cardinality(U) = Cardinality(T)
<1>1. PICK U : U = {i + d : i \in T}
  OBVIOUS
<1>2. PICK f : f = [i \in T |-> i + d]
  OBVIOUS
<1>3. f \in [T -> U] /\ \A i \in T : f[i] = i + d
  BY <1>1, <1>2
<1>4. \A i, j \in T : i + d = j + d => i = j
  <2>1. SUFFICES ASSUME NEW i \in T, NEW j \in T, i + d = j + d PROVE i = j
    OBVIOUS
  <2>2. i \in Nat /\ j \in Nat
    OBVIOUS
  <2>3. QED BY SMT, <2>1, <2>2
<1>5. f \in Injection(T, U)
  BY <1>3, <1>4 DEF Injection, IsInjective
<1>6. f \in Surjection(T, U)
  BY <1>1, <1>3 DEF Surjection
<1>7. ExistsBijection(T, U)
  BY <1>5, <1>6 DEF Bijection, ExistsBijection
<1>8. QED BY <1>1, <1>7, FS_Bijection

\* The network thread is not in the callback: nobody waits.
LEMMA NobodyWaits ==
  ASSUME callback = Idle
  PROVE  \A m, s : ~Awaits(m, s)
<1>1. callback.todo = <<>> /\ callback.at = "idle"
  BY DEF Idle
<1>2. Range(<<>>) = {}
  BY DEF Range
<1>3. QED BY <1>1, <1>2 DEF Awaits, Waiting

\* A message that has not been published is not under way.
LEMMA NothingAhead ==
  ASSUME PublishedOk, CallbackOk, NEW m, m \notin DOMAIN published
  PROVE  \A s : ~Awaits(m, s) /\ InWire(m, s) = {}
<1>1. \A i \in DOMAIN wire : wire[i].message \in DOMAIN published
  BY DEF PublishedOk, GoodCopy
<1>2. CASE callback.at = "idle"
  BY <1>1, <1>2, NobodyWaits DEF CallbackOk, InWire
<1>3. CASE callback.at # "idle"
  BY <1>1, <1>3 DEF CallbackOk, Awaits, InWire
<1>4. QED BY <1>2, <1>3

\* What was under way is no longer owed; the sums can only become less.
LEMMA KeepsCloses ==
  ASSUME IInv, callback = Idle, Closes
  PROVE  IInv'
<1>1. /\ outgoing' = <<>> /\ wire' = <<>>
      /\ owed' = {o \in owed : \A i \in DOMAIN wire : wire[i].message # o[1]}
      /\ UNCHANGED <<app, subject, queue, table, callback, conns, published, handed>>
  BY DEF Closes
<1>2. Subscriber' = Subscriber /\ AllIds' = AllIds /\ AppOk' /\ Valid' = Valid /\ \A s : IdOf(s)' = IdOf(s)
  BY <1>1, AppSame DEF IInv
<1>3. SubjectOk' /\ TableOk'
  BY <1>1, <1>2 DEF IInv, SubjectOk, TableOk
<1>4. OutgoingOk'
  BY <1>1, EmptySeq DEF OutgoingOk
<1>5. PublishedOk'
  <2>1. wire' \in Seq([message : Nat, ids : Seq(Nat)]) /\ DOMAIN wire' = {}
    BY <1>1, EmptySeq
  <2>2. QED BY <1>1, <2>1 DEF IInv, PublishedOk
<1>6. CallbackType' /\ CallbackOk'
  BY <1>1, CallbackSame DEF IInv
<1>7. \A m, s : ~Awaits(m, s) /\ ~Awaits(m, s)'
  BY <1>1, NobodyWaits, CallbackSame
<1>8. \A m, s : InWire(m, s)' = {} /\ Mine(m, s)' = Mine(m, s)
  BY <1>1, <1>2 DEF InWire, Mine
<1>9. HandedOk'
  <2>1. HandedOk /\ PublishedOk
    BY DEF IInv
  <2>2. ASSUME NEW m \in DOMAIN published, NEW s \in Subscriber
        PROVE  handed[m][s] + 0 + 0 <= Cardinality(Mine(m, s))
    <3>1. PICK b, c, h : b = Cardinality(InWire(m, s)) /\ c = Cardinality(Mine(m, s)) /\ h = handed[m][s]
      OBVIOUS
    <3>2. b \in Nat /\ c \in Nat /\ h \in Nat
      BY <2>1, <3>1, FiniteCopies, PublicationIs DEF HandedOk
    <3>3. h + 0 + b <= c
      BY <1>7, <2>1, <3>1 DEF HandedOk
    <3>4. QED BY SMT, <3>1, <3>2, <3>3
  <2>3. Cardinality({}) = 0
    BY FS_EmptySet
  <2>4. QED BY <1>1, <1>2, <1>7, <1>8, <2>1, <2>2, <2>3 DEF HandedOk
<1>10. OwedOk'
  <2>1. SUFFICES ASSUME NEW o \in owed'
                 PROVE  \E m \in DOMAIN published, s \in Range(subject) :
                          /\ o = <<m, s>>
                          /\ TopicMatches(group[s].pattern, published[m].name)
                          /\ handed[m][s] > 0
    BY <1>1 DEF OwedOk
  <2>2. o \in owed /\ \A i \in DOMAIN wire : wire[i].message # o[1]
    BY <1>1, <2>1
  <2>3. PICK m \in DOMAIN published, s \in Range(subject) :
          /\ o = <<m, s>>
          /\ TopicMatches(group[s].pattern, published[m].name)
          /\ handed[m][s] > 0 \/ Awaits(m, s) \/ InWire(m, s) # {}
    BY <2>2 DEF IInv, OwedOk
  <2>4. InWire(m, s) = {}
    BY <2>2, <2>3 DEF InWire
  <2>5. QED BY <1>7, <2>3, <2>4
<1>11. QED BY <1>2, <1>3, <1>4, <1>5, <1>6, <1>9, <1>10 DEF IInv

\* What of the copies under way is for a subscriber, without the first one.
LEMMA OneLess ==
  ASSUME PublishedOk, wire # <<>>, UNCHANGED app, wire' = Tail(wire), NEW m, NEW s
  PROVE  /\ IsFiniteSet(InWire(m, s)')
         /\ Cardinality(InWire(m, s)) = Cardinality(InWire(m, s)') + (IF 1 \in InWire(m, s) THEN 1 ELSE 0)
         /\ Cardinality(InWire(m, s)') \in Nat
         /\ \A i \in InWire(m, s) : i # 1 => InWire(m, s)' # {}
<1>1. PICK n \in Nat \ {0} : n = Len(wire) /\ DOMAIN wire = 1..n
  <2>1. Len(wire) \in Nat /\ DOMAIN wire = 1..Len(wire) /\ Len(wire) # 0
    BY LenProperties, EmptySeq DEF PublishedOk
  <2>2. QED BY <2>1
<1>2. DOMAIN wire' = 1..n - 1 /\ \A i \in 1..n - 1 : wire'[i] = wire[i + 1]
  <2>1. Tail(wire) \in Seq([message : Nat, ids : Seq(Nat)]) /\ Len(Tail(wire)) = n - 1
        /\ \A i \in 1..n - 1 : Tail(wire)[i] = wire[i + 1]
    BY <1>1, TailElements DEF PublishedOk
  <2>2. QED BY <2>1, LenProperties
<1>3. PICK T : T = InWire(m, s)
  OBVIOUS
<1>4. PICK U : U = InWire(m, s)'
  OBVIOUS
<1>5. T = {i \in 1..n : wire[i].message = m /\ wire[i].ids = SetToSeq(IdOf(s))}
  BY <1>1, <1>3 DEF InWire
<1>6. U = {i \in 1..n - 1 : wire[i + 1].message = m /\ wire[i + 1].ids = SetToSeq(IdOf(s))}
  <2>1. IdOf(s)' = IdOf(s)
    BY AppSame
  <2>2. QED BY <1>2, <1>4, <2>1 DEF InWire
<1>7. /\ \A i \in 1..n : i # 1 => i - 1 \in 1..n - 1 /\ i - 1 + 1 = i
      /\ \A i \in 1..n - 1 : i \in Nat /\ i + 1 \in 1..n /\ i + 1 # 1
  BY SMT, <1>1
<1>8. T \ {1} = {i + 1 : i \in U}
  <2>1. ASSUME NEW i \in T, i # 1 PROVE i - 1 \in U /\ i = i - 1 + 1
    BY <1>5, <1>6, <1>7, <2>1
  <2>2. ASSUME NEW i \in U PROVE i + 1 \in T /\ i + 1 # 1
    BY <1>5, <1>6, <1>7
  <2>3. T \ {1} \subseteq {i + 1 : i \in U}
    BY <2>1
  <2>4. {i + 1 : i \in U} \subseteq T \ {1}
    BY <2>2
  <2>5. QED BY <2>3, <2>4
<1>9. IsFiniteSet(T)
  BY <1>3, FiniteCopies
<1>10. U \subseteq Nat /\ IsFiniteSet(U)
  <2>1. IsFiniteSet(1..n - 1)
    BY SMT, FS_Interval
  <2>2. QED BY <1>6, <1>7, <2>1, FS_Subset
<1>11. Cardinality(T \ {1}) = Cardinality(U)
  <2>1. 1 \in Nat
    OBVIOUS
  <2>2. Cardinality({i + 1 : i \in U}) = Cardinality(U)
    BY <1>10, <2>1, MovedPlaces
  <2>3. QED BY <1>8, <2>2
<1>12. Cardinality(U) \in Nat /\ Cardinality(T) \in Nat
  BY <1>9, <1>10, FS_CardinalityType
<1>13. Cardinality(T \ {1}) = IF 1 \in T THEN Cardinality(T) - 1 ELSE Cardinality(T)
  BY <1>9, FS_RemoveElement
<1>14. Cardinality(T) = Cardinality(U) + (IF 1 \in T THEN 1 ELSE 0)
  BY SMT, <1>11, <1>12, <1>13
<1>15. \A i \in T : i # 1 => U # {}
  BY <1>8
<1>16. QED BY <1>3, <1>4, <1>10, <1>12, <1>14, <1>15

\* A copy that arrives is one less under way, and each of those it is for waits for it.
LEMMA KeepsArrives ==
  ASSUME IInv, Arrives
  PROVE  IInv'
<1>1. CASE Closes
  BY <1>1, KeepsCloses DEF Arrives
<1>2. CASE ~Closes
  <2>1. PICK c : c = Head(wire)
    OBVIOUS
  <2>2. /\ wire # <<>> /\ callback = Idle
        /\ callback' = [Idle EXCEPT !.at = "filters", !.message = c.message,
                                    !.props = PropsOf(c), !.todo = subject]
        /\ wire' = Tail(wire)
        /\ UNCHANGED <<app, subject, queue, sock, outgoing, broker, conns, handed>>
    BY <1>2, <2>1 DEF Arrives
  <2>3. AppOk /\ SubjectOk /\ PublishedOk /\ CallbackOk /\ HandedOk /\ OwedOk
    BY DEF IInv
  <2>4. /\ Subscriber' = Subscriber /\ AllIds' = AllIds /\ AppOk' /\ Valid' = Valid
        /\ (\A x : Packet(x)' = Packet(x)) /\ \A s : IdOf(s)' = IdOf(s)
    BY <2>2, AppSame DEF IInv
  <2>5. 1 \in DOMAIN wire /\ c = wire[1] /\ Tail(wire) \in Seq([message : Nat, ids : Seq(Nat)])
        /\ \A k \in DOMAIN Tail(wire) : k + 1 \in DOMAIN wire /\ Tail(wire)[k] = wire[k + 1]
    BY <2>1, <2>2, <2>3, TailElements DEF PublishedOk
  <2>6. GoodCopy(c)
    BY <2>3, <2>5 DEF PublishedOk
  <2>7. /\ c.message \in DOMAIN published /\ c.message \in Nat /\ PropsOf(c) \in PropLists
        /\ version = "v311" => Theirs(PropsOf(c)) = {}
        /\ \A s \in Subscriber : c.ids = SetToSeq(IdOf(s)) <=> Theirs(PropsOf(c)) = IdOf(s)
    <3>1. c.message \in DOMAIN published
      BY <2>6 DEF GoodCopy
    <3>2. c.message \in Nat
      <4>1. c.message \in 1..Len(published)
        BY <2>3, <3>1, PublicationIs
      <4>2. QED BY SMT, <2>3, <3>1, <4>1, PublicationIs
    <3>3. QED BY <2>3, <2>6, <3>1, <3>2, WhoseCopy
  <2>8. /\ callback'.at = "filters" /\ callback'.message = c.message /\ callback'.props = PropsOf(c)
        /\ callback'.todo = subject /\ callback'.next = 0 /\ callback'.first = {} /\ callback'.theirs = {}
        /\ callback' = [at |-> "filters", message |-> c.message, props |-> PropsOf(c), todo |-> subject,
                        next |-> 0, first |-> {}, theirs |-> {}]
    BY <2>2 DEF Idle
  <2>9. SubjectOk' /\ TableOk' /\ OutgoingOk'
    BY <2>2, <2>4 DEF IInv, SubjectOk, TableOk, OutgoingOk
  <2>10. PublishedOk'
    <3>1. ASSUME NEW x PROVE GoodCopy(x)' = GoodCopy(x)
      BY <2>2, <2>4 DEF GoodCopy
    <3>2. QED BY <2>2, <2>3, <2>5, <3>1 DEF PublishedOk
  <2>11. CallbackType'
    BY <2>3, <2>4, <2>7, <2>8 DEF CallbackType, SubjectOk
  <2>12. CallbackOk'
    BY <2>2, <2>3, <2>7, <2>8 DEF CallbackOk, IsReading, SubjectOk
  <2>13. Waiting' = Range(subject)
    BY <2>2, <2>8 DEF Waiting
  <2>14. \A m, s : ~Awaits(m, s)
    BY <2>2, NobodyWaits
  <2>15. ASSUME NEW m, NEW s \in Subscriber
         PROVE  /\ Awaits(m, s)' => 1 \in InWire(m, s)
                /\ s \in Range(subject) /\ 1 \in InWire(m, s) => Awaits(m, s)'
    BY <2>4, <2>5, <2>7, <2>8, <2>13 DEF Awaits, InWire
  <2>16. \A m, s : Mine(m, s)' = Mine(m, s)
    BY <2>2, <2>4 DEF Mine
  <2>17. HandedOk'
    <3>1. ASSUME NEW m \in DOMAIN published, NEW s \in Subscriber
          PROVE  handed[m][s] + (IF Awaits(m, s)' THEN 1 ELSE 0) + Cardinality(InWire(m, s)')
                   <= Cardinality(Mine(m, s))
      <4>1. PICK b, b1, c1, h, one : /\ b = Cardinality(InWire(m, s)) /\ b1 = Cardinality(InWire(m, s)')
                                /\ c1 = Cardinality(Mine(m, s)) /\ h = handed[m][s]
                                /\ one = (IF 1 \in InWire(m, s) THEN 1 ELSE 0)
        OBVIOUS
      <4>2. b \in Nat /\ b1 \in Nat /\ c1 \in Nat /\ h \in Nat /\ one \in {0, 1} /\ b = b1 + one
        <5>1. b \in Nat /\ c1 \in Nat
          BY <2>3, <4>1, FiniteCopies
        <5>2. b1 \in Nat /\ b = b1 + one /\ one \in {0, 1}
          BY <2>2, <2>3, <4>1, OneLess
        <5>3. h \in Nat
          BY <2>3, <4>1, PublicationIs DEF HandedOk
        <5>4. QED BY <5>1, <5>2, <5>3
      <4>3. h + 0 + b <= c1
        BY <2>3, <2>14, <4>1 DEF HandedOk
      <4>4. h + one + b1 <= c1 /\ h + 0 + b1 <= c1
        BY SMT, <4>2, <4>3
      <4>5. QED BY <2>15, <4>1, <4>4
    <3>2. QED BY <2>2, <2>3, <2>4, <2>16, <3>1 DEF HandedOk
  <2>18. OwedOk'
    <3>1. SUFFICES ASSUME NEW o \in owed
                   PROVE  \E m \in DOMAIN published, s \in Range(subject) :
                            /\ o = <<m, s>>
                            /\ TopicMatches(group[s].pattern, published[m].name)
                            /\ handed[m][s] > 0 \/ Awaits(m, s)' \/ InWire(m, s)' # {}
      BY <2>2 DEF OwedOk
    <3>2. PICK m \in DOMAIN published, s \in Range(subject) :
            /\ o = <<m, s>>
            /\ TopicMatches(group[s].pattern, published[m].name)
            /\ handed[m][s] > 0 \/ Awaits(m, s) \/ InWire(m, s) # {}
      BY <2>3 DEF OwedOk
    <3>3. s \in Subscriber
      BY <2>3, <3>2, ElementOfSeq, LenProperties DEF SubjectOk, Range
    <3>4. InWire(m, s) # {} => Awaits(m, s)' \/ InWire(m, s)' # {}
      <4>1. \A i \in InWire(m, s) : i # 1 => InWire(m, s)' # {}
        BY <2>2, <2>3, OneLess
      <4>2. QED BY <2>15, <3>2, <3>3, <4>1
    <3>5. QED BY <2>14, <3>2, <3>4
  <2>19. QED BY <2>4, <2>9, <2>10, <2>11, <2>12, <2>17, <2>18 DEF IInv
<1>3. QED BY <1>1, <1>2

\* The copies that the broker makes of a message.
LEMMA CopiesAre ==
  ASSUME IInv, NEW matching, matching \subseteq table, NEW copies \in Copies(matching)
  PROVE  /\ copies \in Seq([message : Nat, ids : Seq(Nat)])
         /\ \A i \in DOMAIN copies :
              /\ copies[i] = [message |-> copies[i].message, ids |-> copies[i].ids]
              /\ copies[i].message = Len(published) + 1
              /\ \E ids \in SUBSET AllIds : copies[i].ids = SetToSeq(ids)
<1> DEFINE Copy(ids) == [message |-> Len(published) + 1, ids |-> SetToSeq(ids)]
           Good(x) == /\ x = [message |-> x.message, ids |-> x.ids]
                      /\ x.message = Len(published) + 1
                      /\ \E ids \in SUBSET AllIds : x.ids = SetToSeq(ids)
           C == [message : Nat, ids : Seq(Nat)]
<1>1. AppOk /\ TableOk /\ PublishedOk
  BY DEF IInv
<1>2. Len(published) \in Nat
  BY <1>1, LenProperties DEF PublishedOk
<1>3. \A e \in matching : e.id \subseteq AllIds
  BY <1>1 DEF TableOk
<1>4. IsFiniteSet(matching)
  BY <1>1, FS_Subset DEF TableOk
<1>5. ASSUME NEW ids \in SUBSET AllIds PROVE Copy(ids) \in C /\ Good(Copy(ids))
  <2>1. IsFiniteSet(ids) /\ ids \subseteq Nat
    BY <1>1, AllIdsFinite, FS_Subset
  <2>2. SetToSeq(ids) \in Seq(Nat)
    <3>1. PICK n, f : n \in Nat /\ n = Cardinality(ids) /\ f = SetToSeq(ids) /\ f \in [1..n -> ids]
      BY <2>1, SetToSeqIs
    <3>2. f \in [1..n -> Nat]
      BY <2>1, <3>1
    <3>3. f \in Seq(Nat)
      <4>1. n \in Nat
        BY <3>1
      <4>2. QED BY <3>2, <4>1
    <3>4. QED BY <3>1, <3>3
  <2>3. QED BY <1>2, <2>2
<1> DEFINE u == UNION {e.id : e \in matching}
           all == [i \in 1..Cardinality(matching) |-> Copy(SetToSeq(matching)[i].id)]
<1>6. copies = <<Copy(u)>> \/ copies = all
  BY DEF Copies
<1> HIDE DEF Copy, Good, C
<1>7. CASE copies = <<Copy(u)>>
  <2>1. u \in SUBSET AllIds
    BY <1>3
  <2>2. PICK x : x = Copy(u)
    OBVIOUS
  <2>3. x \in C /\ Good(x)
    BY <1>5, <2>1, <2>2
  <2>4. copies = <<x>>
    BY <1>7, <2>2
  <2>5. copies \in Seq(C) /\ \A i \in DOMAIN copies : copies[i] = x
    BY <2>3, <2>4
  <2>6. QED BY <2>3, <2>5 DEF C, Good
<1>8. CASE copies = all
  <2>1. PICK n, f : n \in Nat /\ n = Cardinality(matching) /\ f = SetToSeq(matching) /\ f \in [1..n -> matching]
    BY <1>4, SetToSeqIs
  <2>2. copies = [i \in 1..n |-> Copy(f[i].id)]
    BY <1>8, <2>1
  <2>3. \A i \in 1..n : f[i].id \in SUBSET AllIds
    BY <1>3, <2>1
  <2>4. DOMAIN copies = 1..n /\ \A i \in 1..n : copies[i] \in C /\ Good(copies[i])
    BY <1>5, <2>2, <2>3
  <2>5. copies \in [1..n -> C]
    BY <2>2, <2>4
  <2>6. copies \in Seq(C)
    <3>1. n \in Nat
      BY <2>1
    <3>2. QED BY <2>5, <3>1
  <2>7. QED BY <2>4, <2>6 DEF C, Good
<1>9. QED BY <1>6, <1>7, <1>8

\* What the copies of a new message add to those under way.
Grown(copies, new, s) ==
  /\ wire' \in Seq([message : Nat, ids : Seq(Nat)])
  /\ \A i \in DOMAIN wire' : \/ i \in DOMAIN wire /\ wire'[i] = wire[i]
                             \/ \E j \in DOMAIN copies : wire'[i] = copies[j]
  /\ \A m : m # new => InWire(m, s)' = InWire(m, s)
  /\ InWire(new, s) = {} =>
       \E d \in Nat : InWire(new, s)' = {i + d : i \in {i \in DOMAIN copies : copies[i].ids = SetToSeq(IdOf(s))}}

LEMMA WireGrows ==
  ASSUME PublishedOk, UNCHANGED app, NEW copies \in Seq([message : Nat, ids : Seq(Nat)]),
         wire' = wire \o copies, NEW new,
         \A i \in DOMAIN copies : copies[i].message = new, NEW s
  PROVE  Grown(copies, new, s)
<1>1. PICK l \in Nat, k \in Nat : l = Len(wire) /\ DOMAIN wire = 1..l /\ k = Len(copies) /\ DOMAIN copies = 1..k
  BY LenProperties DEF PublishedOk
<1>2. /\ wire' \in Seq([message : Nat, ids : Seq(Nat)]) /\ DOMAIN wire' = 1..l + k
      /\ \A i \in 1..l + k : wire'[i] = IF i <= l THEN wire[i] ELSE copies[i - l]
  <2>1. PICK C : C = [message : Nat, ids : Seq(Nat)]
    OBVIOUS
  <2>2. wire \in Seq(C) /\ copies \in Seq(C)
    BY <2>1 DEF PublishedOk
  <2>3. /\ wire \o copies \in Seq(C) /\ Len(wire \o copies) = l + k
        /\ \A i \in 1..l + k : (wire \o copies)[i] = IF i <= l THEN wire[i] ELSE copies[i - l]
    BY <1>1, <2>2, ConcatProperties
  <2>4. QED BY <2>1, <2>3, LenProperties
<1>3. /\ \A i \in 1..l + k : /\ i <= l => i \in 1..l
                             /\ ~(i <= l) => i - l \in 1..k /\ i - l + l = i /\ i \notin 1..l
      /\ \A i \in 1..l : i \in 1..l + k /\ i <= l
      /\ \A i \in 1..k : i + l \in 1..l + k /\ ~(i + l <= l) /\ i + l - l = i
  BY SMT, <1>1
<1>4. \A i \in 1..l : wire'[i] = wire[i]
  BY <1>2, <1>3
<1>5. ASSUME NEW i \in 1..k PROVE wire'[i + l] = copies[i]
  <2>1. PICK j \in 1..l + k : j = i + l /\ ~(j <= l) /\ j - l = i
    BY <1>3
  <2>2. QED BY <1>2, <2>1
<1>6. IdOf(s)' = IdOf(s)
  BY AppSame
<1>7. \A i \in 1..l + k : i \in 1..l \/ \E j \in 1..k : i = j + l
  BY <1>3
<1>8. ASSUME NEW m, m # new PROVE InWire(m, s)' = InWire(m, s)
  <2>1. InWire(m, s)' = {i \in 1..l + k : wire'[i].message = m /\ wire'[i].ids = SetToSeq(IdOf(s))}
    BY <1>2, <1>6 DEF InWire
  <2>2. InWire(m, s) = {i \in 1..l : wire[i].message = m /\ wire[i].ids = SetToSeq(IdOf(s))}
    BY <1>1 DEF InWire
  <2>3. \A j \in 1..k : wire'[j + l].message # m
    BY <1>1, <1>5, <1>8
  <2>4. \A i \in 1..l + k : wire'[i].message = m => i \in 1..l
    BY <1>7, <2>3
  <2>5. \A i \in 1..l : i \in 1..l + k
    BY <1>3
  <2>6. QED BY <1>4, <2>1, <2>2, <2>4, <2>5
<1>9. ASSUME InWire(new, s) = {}
      PROVE  InWire(new, s)' = {i + l : i \in {i \in 1..k : copies[i].ids = SetToSeq(IdOf(s))}}
  <2>1. InWire(new, s)' = {i \in 1..l + k : wire'[i].message = new /\ wire'[i].ids = SetToSeq(IdOf(s))}
    BY <1>2, <1>6 DEF InWire
  <2>2. \A i \in 1..l : ~(wire[i].message = new /\ wire[i].ids = SetToSeq(IdOf(s)))
    BY <1>1, <1>9 DEF InWire
  <2>3. \A j \in 1..k : wire'[j + l].message = new /\ wire'[j + l].ids = copies[j].ids /\ j + l \in 1..l + k
    BY <1>1, <1>3, <1>5
  <2>4. ASSUME NEW x \in InWire(new, s)'
        PROVE  \E j \in 1..k : x = j + l /\ copies[j].ids = SetToSeq(IdOf(s))
    <3>1. x \in 1..l + k /\ wire'[x].message = new /\ wire'[x].ids = SetToSeq(IdOf(s))
      BY <2>1, <2>4
    <3>2. x \notin 1..l
      BY <1>4, <2>2, <3>1
    <3>3. PICK j \in 1..k : x = j + l
      BY <1>7, <3>1, <3>2
    <3>4. QED BY <2>3, <3>1, <3>3
  <2>5. ASSUME NEW j \in 1..k, copies[j].ids = SetToSeq(IdOf(s))
        PROVE  j + l \in InWire(new, s)'
    BY <2>1, <2>3, <2>5
  <2>6. QED BY <2>4, <2>5
<1>10. ASSUME NEW i \in DOMAIN wire'
       PROVE  \/ i \in DOMAIN wire /\ wire'[i] = wire[i]
              \/ \E j \in DOMAIN copies : wire'[i] = copies[j]
  <2>1. i \in 1..l \/ \E j \in 1..k : i = j + l
    BY <1>2, <1>7
  <2>2. CASE i \in 1..l
    BY <1>1, <1>4, <2>2
  <2>3. CASE i \notin 1..l
    <3>1. PICK j \in 1..k : i = j + l
      BY <2>1, <2>3
    <3>2. QED BY <1>1, <1>5, <3>1
  <2>4. QED BY <2>2, <2>3
<1>11. ASSUME InWire(new, s) = {}
       PROVE  \E d \in Nat : InWire(new, s)' = {i + d : i \in {i \in DOMAIN copies : copies[i].ids = SetToSeq(IdOf(s))}}
  <2>1. InWire(new, s)' = {i + l : i \in {i \in DOMAIN copies : copies[i].ids = SetToSeq(IdOf(s))}}
    BY <1>1, <1>9, <1>11
  <2> WITNESS l \in Nat
  <2>2. QED BY <2>1
<1>12. QED BY <1>2, <1>8, <1>10, <1>11 DEF Grown

\* The copies that are for a subscriber are those under way: nobody waits for a new message.
LEMMA KeepsPublishes ==
  ASSUME IInv, Publishes
  PROVE  IInv'
<1>1. /\ Len(published) < MaxMessages
      /\ UNCHANGED <<app, subject, queue, sock, outgoing, table, callback, conns, handed>>
  BY DEF Publishes
<1>2. PICK name, users, matching, copies :
        /\ name \in Names /\ users \in UserProperties /\ copies \in Copies(matching)
        /\ matching = {e \in table : MatchesByLevel(e.pattern, name)}
        /\ published' = Append(published, [name |-> name, users |-> users, copies |-> copies])
        /\ wire' = wire \o copies
        /\ owed' = owed \cup
             { <<Len(published) + 1, s>> :
                 s \in {s \in Range(subject) :
                          /\ InPlace(s)
                          /\ MatchesByLevel(group[s].pattern, name)
                          /\ \E i \in DOMAIN copies : copies[i].ids = SetToSeq(IdOf(s))} }
  BY DEF Publishes
<1>3. AppOk /\ SubjectOk /\ PublishedOk /\ CallbackOk /\ HandedOk /\ OwedOk
  BY DEF IInv
<1>4. /\ Subscriber' = Subscriber /\ AllIds' = AllIds /\ AppOk' /\ Valid' = Valid
      /\ (\A x : Packet(x)' = Packet(x)) /\ \A s : IdOf(s)' = IdOf(s)
  BY <1>1, AppSame DEF IInv
<1>5. PICK new, n : n \in Nat /\ n = Len(published) /\ DOMAIN published = 1..n /\ new = n + 1 /\ n < MaxMessages
  BY <1>1, <1>3, LenProperties DEF PublishedOk
<1>6. /\ copies \in Seq([message : Nat, ids : Seq(Nat)])
      /\ \A i \in DOMAIN copies :
           /\ copies[i] = [message |-> copies[i].message, ids |-> copies[i].ids]
           /\ copies[i].message = new
           /\ \E ids \in SUBSET AllIds : copies[i].ids = SetToSeq(ids)
  BY <1>2, <1>5, CopiesAre
<1>7. /\ new \notin 1..n /\ 1..n + 1 = 1..n \cup {new} /\ new \in Message /\ n + 1 <= MaxMessages
      /\ 1..n \subseteq Message
  BY SMT, <1>5, SubscribersAssumption DEF Message
<1>8. PICK p : p = [name |-> name, users |-> users, copies |-> copies]
  OBVIOUS
<1>9. /\ published' \in Seq([name : Names, users : UserProperties, copies : Seq([message : Nat, ids : Seq(Nat)])])
      /\ Len(published') = n + 1 /\ DOMAIN published' = 1..n \cup {new}
      /\ published'[new] = p /\ \A m \in 1..n : published'[m] = published[m]
  <2>1. PICK P : P = [name : Names, users : UserProperties, copies : Seq([message : Nat, ids : Seq(Nat)])]
    OBVIOUS
  <2>2. p \in P
    BY <1>2, <1>6, <1>8, <2>1
  <2>3. published \in Seq(P)
    BY <1>3, <2>1 DEF PublishedOk
  <2>4. published' = Append(published, p)
    BY <1>2, <1>8
  <2>5. published' \in Seq(P) /\ Len(published') = n + 1 /\ published'[n + 1] = p
        /\ \A m \in 1..n : published'[m] = published[m]
    BY <1>5, <2>2, <2>3, <2>4, AppendProperties
  <2>6. DOMAIN published' = 1..n + 1
    BY <2>5, LenProperties
  <2>7. QED BY <1>5, <1>7, <2>1, <2>5, <2>6
<1>10. /\ wire' \in Seq([message : Nat, ids : Seq(Nat)])
       /\ \A i \in DOMAIN wire' : \/ i \in DOMAIN wire /\ wire'[i] = wire[i]
                                  \/ \E j \in DOMAIN copies : wire'[i] = copies[j]
       /\ \A m, s : m # new => InWire(m, s)' = InWire(m, s)
       /\ \A s : InWire(new, s) = {} =>
            \E d \in Nat : InWire(new, s)' = {i + d : i \in {i \in DOMAIN copies : copies[i].ids = SetToSeq(IdOf(s))}}
  <2>1. UNCHANGED app
    BY <1>1
  <2>2. wire' = wire \o copies
    BY <1>2
  <2>3. PublishedOk /\ \A i \in DOMAIN copies : copies[i].message = new
    BY <1>3, <1>6
  <2>4. copies \in Seq([message : Nat, ids : Seq(Nat)])
    BY <1>6
  <2>5. \A s : Grown(copies, new, s)
    BY <2>1, <2>2, <2>3, <2>4, WireGrows
  <2>6. QED BY <2>5 DEF Grown
<1>11. PublishedOk'
  <2>1. ASSUME NEW i \in DOMAIN wire', NEW c, c = wire'[i] PROVE GoodCopy(c)'
    <3>1. CASE i \in DOMAIN wire /\ wire'[i] = wire[i]
      BY <1>3, <1>4, <1>5, <1>9, <2>1, <3>1 DEF PublishedOk, GoodCopy
    <3>2. CASE \E j \in DOMAIN copies : wire'[i] = copies[j]
      BY <1>4, <1>6, <1>9, <2>1, <3>2 DEF GoodCopy
    <3>3. QED BY <1>10, <3>1, <3>2
  <2>2. QED BY <1>7, <1>9, <1>10, <2>1 DEF PublishedOk
<1>12. SubjectOk' /\ TableOk' /\ OutgoingOk' /\ CallbackType'
  BY <1>1, <1>4, CallbackSame DEF IInv, SubjectOk, TableOk, OutgoingOk
<1>13. (\A m, s : Awaits(m, s)' = Awaits(m, s))
  BY <1>1, CallbackSame
<1>14. CallbackOk'
  <2>1. IsReading' = IsReading /\ Reading' = Reading /\ callback' = callback
        /\ version' = version /\ group' = group
    BY <1>1, AppSame DEF IsReading, Reading
  <2>2. callback.at # "idle" => /\ callback.message \in DOMAIN published /\ callback.message \in DOMAIN published'
                                /\ published'[callback.message] = published[callback.message]
    BY <1>3, <1>5, <1>9 DEF CallbackOk
  <2>3. QED BY <1>3, <1>4, <2>1, <2>2 DEF CallbackOk
<1>15. \A s : ~Awaits(new, s) /\ InWire(new, s) = {}
  BY <1>3, <1>5, <1>7, NothingAhead
<1>16. ASSUME NEW m \in 1..n, NEW s PROVE InWire(m, s)' = InWire(m, s) /\ Mine(m, s)' = Mine(m, s)
  <2>1. InWire(m, s)' = InWire(m, s)
    BY <1>7, <1>10
  <2>2. Mine(m, s)' = Mine(m, s)
    BY <1>4, <1>9 DEF Mine
  <2>3. QED BY <2>1, <2>2
<1>17. ASSUME NEW s
       PROVE  /\ \E d \in Nat : InWire(new, s)' = {i + d : i \in Mine(new, s)'}
              /\ Mine(new, s)' = {i \in DOMAIN copies : copies[i].ids = SetToSeq(IdOf(s))}
              /\ Cardinality(InWire(new, s)') = Cardinality(Mine(new, s)')
              /\ Cardinality(Mine(new, s)') \in Nat
  <2>1. Mine(new, s)' = {i \in DOMAIN copies : copies[i].ids = SetToSeq(IdOf(s))}
    BY <1>4, <1>8, <1>9 DEF Mine
  <2>2. PICK d \in Nat : InWire(new, s)' = {i + d : i \in Mine(new, s)'}
    BY <1>10, <1>15, <2>1
  <2>3. PICK k \in Nat : DOMAIN copies = 1..k
    BY <1>6, LenProperties
  <2>4. Mine(new, s)' \subseteq Nat /\ IsFiniteSet(Mine(new, s)')
    <3>1. IsFiniteSet(1..k) /\ 1..k \subseteq Nat
      BY SMT, FS_Interval
    <3>2. QED BY <2>1, <2>3, <3>1, FS_Subset
  <2>5. Cardinality(InWire(new, s)') = Cardinality(Mine(new, s)')
    BY <2>2, <2>4, MovedPlaces
  <2>6. Cardinality(Mine(new, s)') \in Nat
    BY <2>4, FS_CardinalityType
  <2>7. QED BY <2>1, <2>2, <2>5, <2>6
<1>18. HandedOk'
  <2>1. \A m \in DOMAIN published' : m \in 1..n \/ m = new
    BY <1>9
  <2>2. ASSUME NEW m \in 1..n, NEW s \in Subscriber
        PROVE  /\ handed'[m][s] > 0 => TopicMatches(group'[s].pattern, published'[m].name)
               /\ handed'[m][s] + (IF Awaits(m, s)' THEN 1 ELSE 0) + Cardinality(InWire(m, s)')
                    <= Cardinality(Mine(m, s)')
    BY <1>1, <1>3, <1>5, <1>9, <1>13, <1>16 DEF HandedOk
  <2>3. ASSUME NEW s \in Subscriber
        PROVE  /\ handed'[new][s] = 0
               /\ handed'[new][s] + (IF Awaits(new, s)' THEN 1 ELSE 0) + Cardinality(InWire(new, s)')
                    <= Cardinality(Mine(new, s)')
    <3>1. handed'[new][s] = 0
      BY <1>1, <1>3, <1>5, <1>7 DEF HandedOk
    <3>2. PICK k \in Nat : k = Cardinality(Mine(new, s)') /\ k = Cardinality(InWire(new, s)')
      BY <1>17
    <3>3. 0 + 0 + k <= k
      BY SMT
    <3>4. QED BY <1>13, <1>15, <3>1, <3>2, <3>3
  <2>4. \A m \in Message, s \in Subscriber : m \notin DOMAIN published' => handed'[m][s] = 0
    BY <1>1, <1>3, <1>5, <1>9 DEF HandedOk
  <2>5. handed' \in [Message -> [Subscriber' -> Nat]]
    BY <1>1, <1>3, <1>4 DEF HandedOk
  <2>6. ~(0 > 0)
    BY SMT
  <2>7. QED BY <1>4, <2>1, <2>2, <2>3, <2>4, <2>5, <2>6 DEF HandedOk
<1>19. OwedOk'
  <2>1. SUFFICES ASSUME NEW o \in owed'
                 PROVE  \E m \in DOMAIN published', s \in Range(subject) :
                          /\ o = <<m, s>>
                          /\ TopicMatches(group[s].pattern, published'[m].name)
                          /\ handed[m][s] > 0 \/ Awaits(m, s)' \/ InWire(m, s)' # {}
    BY <1>1 DEF OwedOk
  <2>2. CASE o \in owed
    <3>1. PICK m \in 1..n, s \in Range(subject) :
            /\ o = <<m, s>>
            /\ TopicMatches(group[s].pattern, published[m].name)
            /\ handed[m][s] > 0 \/ Awaits(m, s) \/ InWire(m, s) # {}
      BY <1>3, <1>5, <2>2 DEF OwedOk
    <3>2. QED BY <1>9, <1>13, <1>16, <3>1
  <2>3. CASE o \notin owed
    <3>1. PICK s \in Range(subject) :
            /\ o = <<new, s>> /\ InPlace(s) /\ MatchesByLevel(group[s].pattern, name)
            /\ \E i \in DOMAIN copies : copies[i].ids = SetToSeq(IdOf(s))
      BY <1>2, <1>5, <2>1, <2>3
    <3>2. InWire(new, s)' # {}
      <4>1. Mine(new, s)' # {}
        BY <1>17, <3>1
      <4>2. QED BY <1>17, <4>1
    <3>3. s \in Subscriber /\ SubTopicValid(group[s].pattern)
      <4>1. s \in Subscriber
        BY <1>3, <3>1, ElementOfSeq, LenProperties DEF SubjectOk, Range
      <4>2. PICK e \in table : e.pattern = group[s].pattern
        BY <3>1 DEF InPlace
      <4>3. QED BY <4>1, <4>2 DEF IInv, TableOk
    <3>4. TopicMatches(group[s].pattern, name)
      BY <1>2, <1>3, <3>1, <3>3, MatchesAlike
    <3>5. QED BY <1>8, <1>9, <3>1, <3>2, <3>4
  <2>4. QED BY <2>2, <2>3
<1>20. QED BY <1>4, <1>11, <1>12, <1>14, <1>18, <1>19 DEF IInv

\* A connection is lost only while the network thread is not in the callback.
LEMMA KeepsLoses ==
  ASSUME IInv, Loses
  PROVE  IInv'
BY KeepsCloses DEF Loses

-----------------------------------------------------------------------------
(* The message callback                                                    *)

\* The first of a sequence without repetitions is not in the rest of it.
LEMMA TailUnique ==
  ASSUME NEW S, NEW t \in Seq(S), t # <<>>, Unique(t)
  PROVE  /\ Head(t) \in S /\ Head(t) \in Range(t)
         /\ Tail(t) \in Seq(S) /\ Unique(Tail(t))
         /\ Range(Tail(t)) = Range(t) \ {Head(t)}
<1>1. PICK n : n \in Nat \ {0} /\ n = Len(t) /\ DOMAIN t = 1..n
  <2>1. Len(t) \in Nat /\ DOMAIN t = 1..Len(t) /\ Len(t) # 0
    BY LenProperties, EmptySeq
  <2>2. QED BY <2>1
<1>2. PICK u : u = Tail(t)
  OBVIOUS
<1>3. u \in Seq(S) /\ DOMAIN u = 1..n - 1 /\ \A i \in 1..n - 1 : u[i] = t[i + 1]
  <2>1. u \in Seq(S) /\ Len(u) = n - 1 /\ \A i \in 1..n - 1 : u[i] = t[i + 1]
    BY <1>1, <1>2, TailElements
  <2>2. QED BY <2>1, LenProperties
<1>4. /\ 1 \in 1..n
      /\ \A i \in 1..n - 1 : i + 1 \in 1..n /\ i + 1 # 1 /\ i + 1 - 1 = i
      /\ \A i \in 1..n : i # 1 => i - 1 \in 1..n - 1 /\ i - 1 + 1 = i
  BY SMT, <1>1
<1>5. Head(t) = t[1] /\ t[1] \in S /\ t[1] \in Range(t)
  <2>1. t[1] \in S
    BY <1>1, <1>4, ElementOfSeq
  <2>2. Head(t) = t[1]
    BY HeadTailProperties
  <2>3. QED BY <1>1, <1>4, <2>1, <2>2 DEF Range
<1>6. \A i, j \in 1..n : t[i] = t[j] => i = j
  BY <1>1 DEF Unique
<1>7. Unique(u)
  <2>1. SUFFICES ASSUME NEW i \in 1..n - 1, NEW j \in 1..n - 1, u[i] = u[j] PROVE i = j
    BY <1>3 DEF Unique
  <2>2. i + 1 = j + 1
    BY <1>3, <1>4, <1>6, <2>1
  <2>3. i + 1 - 1 = j + 1 - 1
    BY <2>2
  <2>4. QED BY <1>4, <2>3
<1>8. ASSUME NEW x \in Range(u) PROVE x \in Range(t) /\ x # t[1]
  <2>1. PICK i \in 1..n - 1 : x = t[i + 1]
    BY <1>3 DEF Range
  <2>2. QED BY <1>1, <1>4, <1>6, <2>1 DEF Range
<1>9. ASSUME NEW x \in Range(t), x # t[1] PROVE x \in Range(u)
  <2>1. PICK i \in 1..n : x = t[i] /\ i # 1
    BY <1>1, <1>9 DEF Range
  <2>2. i - 1 \in 1..n - 1 /\ u[i - 1] = x
    BY <1>3, <1>4, <2>1
  <2>3. QED BY <1>3, <2>2 DEF Range
<1>10. QED BY <1>2, <1>3, <1>5, <1>7, <1>8, <1>9

\* Where the callback is when there is a subscriber left to see.
LEMMA InTheCallback ==
  ASSUME IInv, callback.todo # <<>>
  PROVE  /\ callback.at # "idle" /\ callback.message \in DOMAIN published
         /\ callback.props \in PropLists
         /\ Head(callback.todo) \in Subscriber
         /\ Options(Head(callback.todo)) \in PropLists
         /\ Tail(callback.todo) \in Seq(Subscriber) /\ Unique(Tail(callback.todo))
         /\ Range(Tail(callback.todo)) = Range(callback.todo) \ {Head(callback.todo)}
         /\ Head(callback.todo) \in Range(callback.todo)
<1>1. callback.at # "idle" /\ callback.message \in DOMAIN published /\ Unique(callback.todo)
  BY DEF IInv, CallbackOk, Idle
<1>2. callback.props \in PropLists /\ callback.todo \in Seq(Subscriber)
  BY DEF IInv, CallbackType
<1>3. AppOk
  BY DEF IInv
<1>4. QED BY <1>1, <1>2, <1>3, TailUnique, OptionsIs

\* The callback goes on without a message handed over: nobody is forgotten that waits for a
\* message that matches.
LEMMA CallbackMoves ==
  ASSUME IInv, UNCHANGED CallbackVars, UNCHANGED handed, CallbackType', CallbackOk',
         \A m, s : Awaits(m, s)' => Awaits(m, s),
         \A m \in DOMAIN published, s \in Subscriber :
           Awaits(m, s) /\ TopicMatches(group[s].pattern, published[m].name) => Awaits(m, s)'
  PROVE  IInv'
<1>1. /\ Subscriber' = Subscriber /\ AllIds' = AllIds /\ AppOk' /\ Valid' = Valid
      /\ (\A x : Packet(x)' = Packet(x)) /\ \A s : IdOf(s)' = IdOf(s)
  BY AppSame DEF IInv
<1>2. AppOk /\ SubjectOk /\ PublishedOk /\ HandedOk /\ OwedOk
  BY DEF IInv
<1>3. SubjectOk' /\ OutgoingOk' /\ TableOk'
  BY <1>1 DEF IInv, SubjectOk, OutgoingOk, TableOk
<1>4. PublishedOk' /\ \A m, s : Mine(m, s)' = Mine(m, s) /\ InWire(m, s)' = InWire(m, s)
  BY <1>2, PublishedSame
<1>5. HandedOk'
  <2>1. ASSUME NEW m \in DOMAIN published, NEW s \in Subscriber
        PROVE  handed[m][s] + (IF Awaits(m, s)' THEN 1 ELSE 0) + Cardinality(InWire(m, s))
                 <= Cardinality(Mine(m, s))
    <3>1. PICK a, a1, b, c, h : /\ a = (IF Awaits(m, s) THEN 1 ELSE 0)
                                /\ a1 = (IF Awaits(m, s)' THEN 1 ELSE 0)
                                /\ b = Cardinality(InWire(m, s)) /\ c = Cardinality(Mine(m, s))
                                /\ h = handed[m][s]
      OBVIOUS
    <3>2. a \in {0, 1} /\ a1 \in {0, 1} /\ (a1 = 1 => a = 1)
      BY <3>1
    <3>3. b \in Nat /\ c \in Nat
      BY <1>2, <3>1, FiniteCopies
    <3>4. h \in Nat
      BY <1>2, <3>1, PublicationIs DEF HandedOk
    <3>5. h + a + b <= c
      BY <1>2, <3>1 DEF HandedOk
    <3>6. h + a1 + b <= c
      BY SMT, <3>2, <3>3, <3>4, <3>5
    <3>7. QED BY <3>1, <3>6
  <2>2. QED BY <1>1, <1>2, <1>4, <2>1 DEF HandedOk
<1>6. OwedOk'
  <2>1. SUFFICES ASSUME NEW o \in owed
                 PROVE  \E m \in DOMAIN published, s \in Range(subject) :
                          /\ o = <<m, s>>
                          /\ TopicMatches(group[s].pattern, published[m].name)
                          /\ handed[m][s] > 0 \/ Awaits(m, s)' \/ InWire(m, s) # {}
    BY <1>4 DEF OwedOk
  <2>2. PICK m \in DOMAIN published, s \in Range(subject) :
          /\ o = <<m, s>>
          /\ TopicMatches(group[s].pattern, published[m].name)
          /\ handed[m][s] > 0 \/ Awaits(m, s) \/ InWire(m, s) # {}
    BY <1>2 DEF OwedOk
  <2>3. s \in Subscriber
    BY <1>2, <2>2, ElementOfSeq, LenProperties DEF SubjectOk, Range
  <2>4. QED BY <2>2, <2>3
<1>7. QED BY <1>1, <1>3, <1>4, <1>5, <1>6 DEF IInv

\* What a step of the callback is, by its fields.
Becomes(at, todo, next, first, theirs) ==
  callback' = [at |-> at, message |-> callback.message, props |-> callback.props, todo |-> todo,
               next |-> next, first |-> first, theirs |-> theirs]

\* The callback is a record with these fields.
LEMMA CallbackIs ==
  ASSUME CallbackType
  PROVE  callback = [at |-> callback.at, message |-> callback.message, props |-> callback.props,
                     todo |-> callback.todo, next |-> callback.next, first |-> callback.first,
                     theirs |-> callback.theirs]
BY DEF CallbackType

\* The fields are these, then, and so are those who wait.
Became(at, todo, next, first, theirs) ==
  /\ CallbackType'
  /\ callback'.at = at /\ callback'.message = callback.message
  /\ callback'.props = callback.props /\ callback'.todo = todo
  /\ callback'.next = next /\ callback'.first = first /\ callback'.theirs = theirs
  /\ \A m, s : Awaits(m, s)' <=> /\ callback.message = m /\ Theirs(callback.props) = IdOf(s)
                                 /\ s \in Range(IF at = "reads" THEN Tail(todo) ELSE todo)

LEMMA BecomesIs ==
  ASSUME IInv, UNCHANGED CallbackVars,
         NEW at, at \in {"filters", "theirs", "ours", "hands", "reads"},
         NEW todo \in Seq(Subscriber), NEW next \in Nat,
         NEW first \in SUBSET PropValues, NEW theirs \in SUBSET PropValues,
         Becomes(at, todo, next, first, theirs)
  PROVE  Became(at, todo, next, first, theirs)
<1>1. Subscriber' = Subscriber /\ \A s : IdOf(s)' = IdOf(s)
  BY AppSame
<1>2. callback.message \in Nat /\ callback.props \in PropLists
  BY DEF IInv, CallbackType
<1>3. /\ callback'.at = at /\ callback'.message = callback.message
      /\ callback'.props = callback.props /\ callback'.todo = todo
      /\ callback'.next = next /\ callback'.first = first /\ callback'.theirs = theirs
  BY DEF Becomes
<1>4. CallbackType'
  BY <1>1, <1>2 DEF Becomes, CallbackType
<1>5. ASSUME NEW m, NEW s
      PROVE  Awaits(m, s)' <=> /\ callback.message = m /\ Theirs(callback.props) = IdOf(s)
                               /\ s \in Range(IF at = "reads" THEN Tail(todo) ELSE todo)
  BY <1>1, <1>3 DEF Awaits, Waiting
<1>6. QED BY <1>3, <1>4, <1>5 DEF Became

\* The callback turns to the next subscriber.
LEMMA NextIs ==
  ASSUME IInv, UNCHANGED CallbackVars, callback.todo # <<>>, callback' = NextSubscriber
  PROVE  /\ CallbackType' /\ CallbackOk'
         /\ \A m, s : Awaits(m, s)' <=> /\ callback.message = m /\ Theirs(callback.props) = IdOf(s)
                                        /\ s \in Range(callback.todo) \ {Head(callback.todo)}
<1>1. CallbackType /\ CallbackOk
  BY DEF IInv
<1>2. PICK t : t = Tail(callback.todo)
  OBVIOUS
<1>3. /\ callback.at # "idle" /\ callback.message \in DOMAIN published
      /\ t \in Seq(Subscriber) /\ Unique(t)
      /\ Range(t) = Range(callback.todo) \ {Head(callback.todo)}
  BY <1>2, InTheCallback
<1>4. Becomes("filters", t, callback.next, callback.first, callback.theirs)
  <2>1. callback' = [callback EXCEPT !.at = "filters", !.todo = t]
    BY <1>2 DEF NextSubscriber
  <2>2. QED BY <1>1, <2>1, CallbackIs DEF Becomes
<1>5. callback.next \in Nat /\ callback.first \in SUBSET PropValues /\ callback.theirs \in SUBSET PropValues
  BY <1>1 DEF CallbackType
<1>6. /\ CallbackType'
      /\ callback'.at = "filters" /\ callback'.message = callback.message
      /\ callback'.props = callback.props /\ callback'.todo = t
      /\ \A m, s : Awaits(m, s)' <=> /\ callback.message = m /\ Theirs(callback.props) = IdOf(s)
                                     /\ s \in Range(IF "filters" = "reads" THEN Tail(t) ELSE t)
  BY ZenonT(60), <1>3, <1>4, <1>5, BecomesIs DEF Became
<1>7. CallbackOk'
  BY <1>1, <1>3, <1>6 DEF CallbackOk, IsReading
<1>8. QED BY <1>3, <1>6, <1>7

\* It turns to the next one when this one is not waiting for a message that matches.
LEMMA KeepsNext ==
  ASSUME IInv, UNCHANGED CallbackVars, UNCHANGED handed, callback.todo # <<>>, callback' = NextSubscriber,
         LET s == Head(callback.todo) IN
           Awaits(callback.message, s)
             => ~TopicMatches(group[s].pattern, published[callback.message].name)
  PROVE  IInv'
<1>1. PICK s0 : s0 = Head(callback.todo)
  OBVIOUS
<1>2. /\ CallbackType' /\ CallbackOk'
      /\ \A m, s : Awaits(m, s)' <=> /\ callback.message = m /\ Theirs(callback.props) = IdOf(s)
                                     /\ s \in Range(callback.todo) \ {s0}
  BY <1>1, NextIs
<1>3. Range(Tail(callback.todo)) = Range(callback.todo) \ {s0}
  BY <1>1, InTheCallback
<1>4. ASSUME NEW m, NEW s, Awaits(m, s)' PROVE Awaits(m, s)
  BY <1>2, <1>3, <1>4 DEF Awaits, Waiting
<1>5. ASSUME NEW m \in DOMAIN published, NEW s \in Subscriber,
             Awaits(m, s), TopicMatches(group[s].pattern, published[m].name)
      PROVE  Awaits(m, s)'
  <2>1. m = callback.message /\ Theirs(callback.props) = IdOf(s) /\ s \in Waiting
    BY <1>5 DEF Awaits
  <2>2. s # s0
    BY <1>1, <1>5, <2>1
  <2>3. s \in Range(callback.todo) \ {s0}
    BY <1>3, <2>1, <2>2 DEF Waiting
  <2>4. QED BY <1>2, <2>1, <2>3
<1>6. QED BY <1>2, <1>4, <1>5, CallbackMoves

\* A step that stays with the subscriber.  What is to hold at the step that comes next:
StaysOk(at, next, first, theirs) ==
  LET s == Head(callback.todo) IN
  /\ at \in {"theirs", "ours"} => version = "v5"
  /\ at = "theirs" => Reads(first, next, callback.props, SubscriptionIdentifier)
  /\ at = "ours" => Reads(first, next, Options(s), SubscriptionIdentifier)
  /\ at = "reads" => Reads(first, next, callback.props, UserProperty)
  /\ at = "ours" => theirs = Theirs(callback.props)
  /\ at = "hands" => Theirs(callback.props) = IdOf(s)

LEMMA StaysIs ==
  ASSUME IInv, UNCHANGED CallbackVars, callback.todo # <<>>,
         TopicMatches(group[Head(callback.todo)].pattern, published[callback.message].name),
         NEW at, at \in {"theirs", "ours", "hands", "reads"},
         NEW next \in Nat, NEW first \in SUBSET PropValues, NEW theirs \in SUBSET PropValues,
         Becomes(at, callback.todo, next, first, theirs),
         StaysOk(at, next, first, theirs)
  PROVE  /\ CallbackType' /\ CallbackOk'
         /\ \A m, s : Awaits(m, s)' <=>
              /\ callback.message = m /\ Theirs(callback.props) = IdOf(s)
              /\ s \in Range(IF at = "reads" THEN Tail(callback.todo) ELSE callback.todo)
<1>1. CallbackOk /\ callback.todo \in Seq(Subscriber)
  BY DEF IInv, CallbackType
<1>2. callback.at # "idle" /\ callback.message \in DOMAIN published
  BY InTheCallback
<1>3. /\ CallbackType'
      /\ callback'.at = at /\ callback'.message = callback.message
      /\ callback'.props = callback.props /\ callback'.todo = callback.todo
      /\ callback'.next = next /\ callback'.first = first /\ callback'.theirs = theirs
      /\ \A m, s : Awaits(m, s)' <=>
              /\ callback.message = m /\ Theirs(callback.props) = IdOf(s)
              /\ s \in Range(IF at = "reads" THEN Tail(callback.todo) ELSE callback.todo)
  <2>1. PICK t : t = callback.todo
    OBVIOUS
  <2>2. t \in Seq(Subscriber) /\ Becomes(at, t, next, first, theirs)
    BY <1>1, <2>1
  <2>3. at \in {"filters", "theirs", "ours", "hands", "reads"}
    OBVIOUS
  <2>4. Became(at, t, next, first, theirs)
    BY <2>2, <2>3, BecomesIs
  <2>5. QED BY <2>1, <2>4 DEF Became
<1>4. \A s : Options(s)' = Options(s) /\ IdOf(s)' = IdOf(s)
  BY AppSame
<1>5. IsReading' => Reads(callback'.first, callback'.next, Reading'[1], Reading'[2])
  <2>1. CASE at = "theirs"
    <3>1. Reading' = <<callback.props, SubscriptionIdentifier>>
      BY <1>3, <2>1 DEF Reading
    <3>2. QED BY <1>3, <2>1, <3>1 DEF StaysOk
  <2>2. CASE at = "ours"
    <3>1. Reading' = <<Options(Head(callback.todo)), SubscriptionIdentifier>>
      BY <1>3, <1>4, <2>2 DEF Reading
    <3>2. QED BY <1>3, <2>2, <3>1 DEF StaysOk
  <2>3. CASE at = "reads"
    <3>1. Reading' = <<callback.props, UserProperty>>
      BY <1>3, <2>3 DEF Reading
    <3>2. QED BY <1>3, <2>3, <3>1 DEF StaysOk
  <2>4. CASE at = "hands"
    BY <1>3, <2>4 DEF IsReading
  <2>5. QED BY <2>1, <2>2, <2>3, <2>4
<1>6. CallbackOk'
  <2>1. Theirs(callback'.props) = Theirs(callback.props)
    BY <1>3
  <2>2. QED BY <1>1, <1>2, <1>3, <1>4, <1>5, <2>1 DEF CallbackOk, StaysOk
<1>7. QED BY <1>3, <1>6

\* Nobody that waits is forgotten by such a step, but for the one that is handed the message.
LEMMA KeepsStays ==
  ASSUME IInv, UNCHANGED CallbackVars, UNCHANGED handed, callback.todo # <<>>,
         TopicMatches(group[Head(callback.todo)].pattern, published[callback.message].name),
         NEW at, at \in {"theirs", "ours", "hands", "reads"},
         NEW next \in Nat, NEW first \in SUBSET PropValues, NEW theirs \in SUBSET PropValues,
         Becomes(at, callback.todo, next, first, theirs),
         StaysOk(at, next, first, theirs),
         at = "reads" <=> callback.at = "reads"
  PROVE  IInv'
<1>1. /\ CallbackType' /\ CallbackOk'
      /\ \A m, s : Awaits(m, s)' <=>
              /\ callback.message = m /\ Theirs(callback.props) = IdOf(s)
              /\ s \in Range(IF at = "reads" THEN Tail(callback.todo) ELSE callback.todo)
  BY StaysIs
<1>2. \A m, s : Awaits(m, s)' <=> Awaits(m, s)
  BY <1>1 DEF Awaits, Waiting
<1>3. QED BY <1>1, <1>2, CallbackMoves

\* Where a reader begins.
LEMMA StartsIs ==
  ASSUME CallbackType, NEW at, NEW props \in PropLists, NEW id
  PROVE  /\ StartsReading(at, props, id) =
              [at |-> at, message |-> callback.message, props |-> callback.props, todo |-> callback.todo,
               next |-> GetProperty(props, id, FALSE), first |-> {}, theirs |-> callback.theirs]
         /\ GetProperty(props, id, FALSE) \in Nat /\ GetProperty(props, id, TRUE) \in Nat
         /\ Reads({}, GetProperty(props, id, FALSE), props, id)
<1>1. GetProperty(props, id, FALSE) \in Nat /\ GetProperty(props, id, TRUE) \in Nat
  BY Found DEF Finds
<1>2. StartsReading(at, props, id) =
              [at |-> at, message |-> callback.message, props |-> callback.props, todo |-> callback.todo,
               next |-> GetProperty(props, id, FALSE), first |-> {}, theirs |-> callback.theirs]
  <2>1. PICK n : n = GetProperty(props, id, FALSE)
    OBVIOUS
  <2>2. PICK m, p, t, th : m = callback.message /\ p = callback.props /\ t = callback.todo /\ th = callback.theirs
    OBVIOUS
  <2>3. PICK a, x, f : callback = [at |-> a, message |-> m, props |-> p, todo |-> t, next |-> x,
                                  first |-> f, theirs |-> th]
    BY <2>2, CallbackIs
  <2>4. [callback EXCEPT !.at = at, !.first = {}, !.next = n] =
              [at |-> at, message |-> m, props |-> p, todo |-> t,
               next |-> n, first |-> {}, theirs |-> th]
    <3>1. PICK c : c = [callback EXCEPT !.at = at]
      OBVIOUS
    <3>2. c = [at |-> at, message |-> m, props |-> p, todo |-> t, next |-> x, first |-> f, theirs |-> th]
      BY <2>3, <3>1
    <3>3. PICK d : d = [c EXCEPT !.first = {}]
      OBVIOUS
    <3>4. d = [at |-> at, message |-> m, props |-> p, todo |-> t, next |-> x, first |-> {}, theirs |-> th]
      BY <3>2, <3>3
    <3>5. [d EXCEPT !.next = n] = [at |-> at, message |-> m, props |-> p, todo |-> t, next |-> n,
                                   first |-> {}, theirs |-> th]
      BY <3>4
    <3>6. QED BY <3>1, <3>3, <3>5
  <2>5. QED BY <2>1, <2>2, <2>4 DEF StartsReading
<1>3. QED BY <1>1, <1>2, ReaderBegins

\* A subscriber is passed over when its pattern does not match.
LEMMA KeepsFilters ==
  ASSUME IInv, Filters
  PROVE  IInv'
<1>1. callback.at = "filters" /\ callback.todo # <<>> /\ UNCHANGED CallbackVars /\ UNCHANGED handed
  BY DEF Filters
<1>2. PICK s : s = Head(callback.todo)
  OBVIOUS
<1>3. AppOk /\ PublishedOk /\ CallbackType /\ CallbackOk
  BY DEF IInv
<1>4. s \in Subscriber /\ callback.message \in DOMAIN published /\ callback.props \in PropLists
  BY <1>1, <1>2, InTheCallback
<1>5. callback.next \in Nat /\ callback.first \in SUBSET PropValues /\ callback.theirs \in SUBSET PropValues
  BY <1>3 DEF CallbackType
<1>6. CASE ~TopicMatches(group[s].pattern, published[callback.message].name)
  <2>1. callback' = NextSubscriber
    BY <1>2, <1>6 DEF Filters
  <2>2. QED BY <1>1, <1>2, <1>6, <2>1, KeepsNext
<1>7. CASE TopicMatches(group[s].pattern, published[callback.message].name)
  <2>1. CASE version = "v5"
    <3>1. callback' = StartsReading("theirs", callback.props, SubscriptionIdentifier)
      BY <1>2, <1>7, <2>1 DEF Filters
    <3>2. PICK n \in Nat : /\ Becomes("theirs", callback.todo, n, {}, callback.theirs)
                           /\ Reads({}, n, callback.props, SubscriptionIdentifier)
      BY <1>3, <1>4, <3>1, StartsIs DEF Becomes
    <3>3. StaysOk("theirs", n, {}, callback.theirs)
      BY <2>1, <3>2 DEF StaysOk
    <3>4. QED BY <1>1, <1>2, <1>5, <1>7, <3>2, <3>3, KeepsStays
  <2>2. CASE version # "v5"
    <3>1. callback' = [callback EXCEPT !.at = "hands"]
      BY <1>2, <1>7, <2>2 DEF Filters
    <3>2. Becomes("hands", callback.todo, callback.next, callback.first, callback.theirs)
      BY <1>3, <3>1, CallbackIs DEF Becomes
    <3>3. Theirs(callback.props) = IdOf(s)
      BY <1>3, <1>4, <2>2, OptionsIs DEF AppOk, CallbackOk
    <3>4. StaysOk("hands", callback.next, callback.first, callback.theirs)
      BY <1>2, <3>3 DEF StaysOk
    <3>5. QED BY <1>1, <1>2, <1>5, <1>7, <3>2, <3>4, KeepsStays
  <2>3. QED BY <2>1, <2>2
<1>8. QED BY <1>6, <1>7

\* The reader goes on; nobody is passed over.
LEMMA KeepsCollects ==
  ASSUME IInv, Collects
  PROVE  IInv'
<1>1. IsReading /\ callback.next # 0 /\ UNCHANGED CallbackVars /\ UNCHANGED handed
  BY DEF Collects
<1>2. CallbackType /\ CallbackOk
  BY DEF IInv
<1>3. /\ callback.todo # <<>> /\ callback.at \in {"theirs", "ours", "reads"}
      /\ TopicMatches(group[Head(callback.todo)].pattern, published[callback.message].name)
  BY <1>1, <1>2 DEF CallbackOk, IsReading
<1>4. callback.props \in PropLists /\ Options(Head(callback.todo)) \in PropLists
  BY <1>3, InTheCallback
<1>5. PICK props, id : props = Reading[1] /\ id = Reading[2]
  OBVIOUS
<1>6. /\ callback.at = "theirs" => props = callback.props /\ id = SubscriptionIdentifier
      /\ callback.at = "ours" => props = Options(Head(callback.todo)) /\ id = SubscriptionIdentifier
      /\ callback.at = "reads" => props = callback.props /\ id = UserProperty
  BY <1>5 DEF Reading
<1>7. props \in PropLists
  BY <1>3, <1>4, <1>6
<1>8. Reads(callback.first, callback.next, props, id)
  BY <1>1, <1>2, <1>5 DEF CallbackOk
<1>9. PICK first, n : /\ first = (IF callback.first = {} THEN {props[callback.next].value} ELSE callback.first)
                      /\ n = GetProperty(props, id, TRUE)
  OBVIOUS
<1>10. Reads(first, n, props, id) /\ props[callback.next].value \in PropValues
  BY <1>1, <1>7, <1>8, <1>9, ReaderGoesOn
<1>11. n \in Nat
  BY <1>2, <1>7, <1>9, StartsIs
<1>12. first \in SUBSET PropValues /\ callback.theirs \in SUBSET PropValues
  BY <1>2, <1>9, <1>10 DEF CallbackType
<1>13. callback' = [callback EXCEPT !.first = first, !.next = n]
  <2>1. callback' = [callback EXCEPT !.first = IF @ = {} THEN {props[callback.next].value} ELSE @,
                                     !.next = GetProperty(props, id, TRUE)]
    BY <1>5 DEF Collects
  <2>2. QED BY <1>9, <2>1
<1>14. Becomes(callback.at, callback.todo, n, first, callback.theirs)
  <2>1. PICK a, m, p, t, x, f, th :
          /\ callback = [at |-> a, message |-> m, props |-> p, todo |-> t, next |-> x,
                         first |-> f, theirs |-> th]
          /\ a = callback.at /\ m = callback.message /\ p = callback.props /\ t = callback.todo
          /\ th = callback.theirs
    BY <1>2, CallbackIs
  <2>2. callback' = [at |-> a, message |-> m, props |-> p, todo |-> t, next |-> n,
                     first |-> first, theirs |-> th]
    BY <1>13, <2>1
  <2>3. QED BY <2>1, <2>2 DEF Becomes
<1>15. StaysOk(callback.at, n, first, callback.theirs)
  BY <1>2, <1>3, <1>6, <1>10 DEF StaysOk, CallbackOk
<1>16. callback.at \in {"theirs", "ours", "hands", "reads"}
  BY <1>3
<1>17. QED BY <1>1, <1>3, <1>11, <1>12, <1>14, <1>15, <1>16, KeepsStays

\* A subscriber is passed over when its identifiers are not those of the message.
LEMMA KeepsCollected ==
  ASSUME IInv, Collected
  PROVE  IInv'
<1>1. IsReading /\ callback.next = 0 /\ UNCHANGED CallbackVars /\ UNCHANGED handed
  BY DEF Collected
<1>2. AppOk /\ PublishedOk /\ CallbackType /\ CallbackOk
  BY DEF IInv
<1>3. /\ callback.todo # <<>> /\ callback.at \in {"theirs", "ours", "reads"}
      /\ TopicMatches(group[Head(callback.todo)].pattern, published[callback.message].name)
  BY <1>1, <1>2 DEF CallbackOk, IsReading
<1>4. PICK s : s = Head(callback.todo)
  OBVIOUS
<1>5. s \in Subscriber /\ callback.props \in PropLists /\ Options(s) \in PropLists
  BY <1>3, <1>4, InTheCallback
<1>6. Reads(callback.first, 0, Reading[1], Reading[2])
  BY <1>1, <1>2 DEF CallbackOk
<1>7. callback.first \in SUBSET PropValues /\ callback.theirs \in SUBSET PropValues
  BY <1>2 DEF CallbackType
<1>8. CASE callback.at = "theirs"
  <2>1. callback.first = Theirs(callback.props)
    <3>1. Reads(callback.first, 0, callback.props, SubscriptionIdentifier)
      BY <1>6, <1>8 DEF Reading
    <3>2. QED BY <1>5, <3>1, ReaderEnds DEF Theirs
  <2>2. callback' = [StartsReading("ours", Options(s), SubscriptionIdentifier) EXCEPT !.theirs = callback.first]
    BY <1>4, <1>8 DEF Collected
  <2>3. PICK n \in Nat :
          /\ Reads({}, n, Options(s), SubscriptionIdentifier)
          /\ StartsReading("ours", Options(s), SubscriptionIdentifier) =
              [at |-> "ours", message |-> callback.message, props |-> callback.props, todo |-> callback.todo,
               next |-> n, first |-> {}, theirs |-> callback.theirs]
    BY <1>2, <1>5, StartsIs
  <2>4. Becomes("ours", callback.todo, n, {}, callback.first)
    <3>1. PICK m, p, t, th, f : m = callback.message /\ p = callback.props /\ t = callback.todo
                                /\ th = callback.theirs /\ f = callback.first
      OBVIOUS
    <3>2. PICK c : c = [at |-> "ours", message |-> m, props |-> p, todo |-> t,
                        next |-> n, first |-> {}, theirs |-> th]
      OBVIOUS
    <3>3. callback' = [c EXCEPT !.theirs = f]
      BY <2>2, <2>3, <3>1, <3>2
    <3>4. callback' = [at |-> "ours", message |-> m, props |-> p, todo |-> t,
                        next |-> n, first |-> {}, theirs |-> f]
      BY <3>2, <3>3
    <3>5. QED BY <3>1, <3>4 DEF Becomes
  <2>5. version = "v5"
    BY <1>2, <1>8 DEF CallbackOk
  <2>6. StaysOk("ours", n, {}, callback.first)
    BY <1>4, <2>1, <2>3, <2>5 DEF StaysOk
  <2>7. QED BY <1>1, <1>3, <1>7, <1>8, <2>4, <2>6, KeepsStays
<1>9. CASE callback.at = "ours"
  <2>1. callback.first = IdOf(s)
    <3>1. Reads(callback.first, 0, Options(s), SubscriptionIdentifier)
      BY <1>4, <1>6, <1>9 DEF Reading
    <3>2. callback.first = Values(Options(s), SubscriptionIdentifier)
      BY <1>5, <3>1, ReaderEnds
    <3>3. version = "v5"
      BY <1>2, <1>9 DEF CallbackOk
    <3>4. QED BY <1>2, <1>5, <3>2, <3>3, OptionsIs DEF IdOf
  <2>2. callback.theirs = Theirs(callback.props)
    BY <1>2, <1>9 DEF CallbackOk
  <2>3. callback' = IF callback.first = callback.theirs THEN [callback EXCEPT !.at = "hands"] ELSE NextSubscriber
    BY <1>9 DEF Collected
  <2>4. CASE callback.first = callback.theirs
    <3>1. callback' = [callback EXCEPT !.at = "hands"]
      BY <2>3, <2>4
    <3>2. Becomes("hands", callback.todo, callback.next, callback.first, callback.theirs)
      BY <1>2, <3>1, CallbackIs DEF Becomes
    <3>3. StaysOk("hands", callback.next, callback.first, callback.theirs)
      BY <1>4, <2>1, <2>2, <2>4 DEF StaysOk
    <3>4. callback.next \in Nat
      BY <1>2 DEF CallbackType
    <3>5. QED BY <1>1, <1>3, <1>7, <1>9, <3>2, <3>3, <3>4, KeepsStays
  <2>5. CASE callback.first # callback.theirs
    <3>1. ~Awaits(callback.message, s)
      BY <2>1, <2>2, <2>5 DEF Awaits
    <3>2. callback' = NextSubscriber
      BY <2>3, <2>5
    <3>3. QED BY <1>1, <1>3, <1>4, <3>1, <3>2, KeepsNext
  <2>6. QED BY <2>4, <2>5
<1>10. CASE callback.at = "reads"
  <2>1. callback' = NextSubscriber
    BY <1>10 DEF Collected
  <2>2. s \notin Waiting
    BY <1>3, <1>4, <1>10, InTheCallback DEF Waiting
  <2>3. ~Awaits(callback.message, s)
    BY <2>2 DEF Awaits
  <2>4. QED BY <1>1, <1>3, <1>4, <2>1, <2>3, KeepsNext
<1>11. QED BY <1>3, <1>8, <1>9, <1>10

\* What handing the message over does: it is counted, and the subscriber waits no longer.
LEMMA HandsIs ==
  ASSUME IInv, Hands
  PROVE  LET m0 == callback.message
             s0 == Head(callback.todo)
         IN  /\ CallbackType' /\ CallbackOk'
             /\ m0 \in DOMAIN published /\ s0 \in Subscriber /\ Awaits(m0, s0)
             /\ TopicMatches(group[s0].pattern, published[m0].name)
             /\ handed' = [handed EXCEPT ![m0][s0] = @ + 1]
             /\ \A m, s : Awaits(m, s)' <=> Awaits(m, s) /\ s # s0
<1>1. /\ callback.at = "hands" /\ UNCHANGED CallbackVars
      /\ handed' = [handed EXCEPT ![callback.message][Head(callback.todo)] = @ + 1]
      /\ callback' \in {NextSubscriber, StartsReading("reads", callback.props, UserProperty)}
  BY DEF Hands
<1>2. PICK s0 : s0 = Head(callback.todo)
  OBVIOUS
<1>3. CallbackOk /\ CallbackType
  BY DEF IInv
<1>4. /\ callback.todo # <<>> /\ Theirs(callback.props) = IdOf(s0)
      /\ TopicMatches(group[s0].pattern, published[callback.message].name)
  BY <1>1, <1>2, <1>3 DEF CallbackOk
<1>5. /\ s0 \in Subscriber /\ callback.message \in DOMAIN published /\ callback.props \in PropLists
      /\ Range(Tail(callback.todo)) = Range(callback.todo) \ {s0} /\ s0 \in Range(callback.todo)
  BY <1>2, <1>4, InTheCallback
<1>6. Waiting = Range(callback.todo)
  BY <1>1 DEF Waiting
<1>7. Awaits(callback.message, s0)
  BY <1>4, <1>5, <1>6 DEF Awaits
<1>8. /\ CallbackType' /\ CallbackOk'
      /\ \A m, s : Awaits(m, s)' <=> /\ callback.message = m /\ Theirs(callback.props) = IdOf(s)
                                     /\ s \in Range(callback.todo) \ {s0}
  <2>1. CASE callback' = NextSubscriber
    BY <1>1, <1>2, <1>4, <2>1, NextIs
  <2>2. CASE callback' = StartsReading("reads", callback.props, UserProperty)
    <3>1. PICK n \in Nat : /\ Becomes("reads", callback.todo, n, {}, callback.theirs)
                           /\ Reads({}, n, callback.props, UserProperty)
      BY <1>3, <1>5, <2>2, StartsIs DEF Becomes
    <3>2. StaysOk("reads", n, {}, callback.theirs)
      BY <3>1 DEF StaysOk
    <3>3. callback.theirs \in SUBSET PropValues
      BY <1>3 DEF CallbackType
    <3>4. /\ CallbackType' /\ CallbackOk'
          /\ \A m, s : Awaits(m, s)' <=>
              /\ callback.message = m /\ Theirs(callback.props) = IdOf(s)
              /\ s \in Range(IF "reads" = "reads" THEN Tail(callback.todo) ELSE callback.todo)
      BY <1>1, <1>2, <1>4, <3>1, <3>2, <3>3, StaysIs
    <3>5. QED BY <1>5, <3>4
  <2>3. QED BY <1>1, <2>1, <2>2
<1>9. \A m, s : Awaits(m, s)' <=> Awaits(m, s) /\ s # s0
  BY <1>6, <1>8 DEF Awaits
<1>10. QED BY <1>1, <1>2, <1>4, <1>5, <1>7, <1>8, <1>9

\* Who is handed the message waits no longer, so that the sum stays the same.
LEMMA KeepsHands ==
  ASSUME IInv, Hands
  PROVE  IInv'
<1>1. UNCHANGED CallbackVars
  BY DEF Hands
<1>2. PICK m0, s0 :
        /\ CallbackType' /\ CallbackOk'
        /\ m0 \in DOMAIN published /\ s0 \in Subscriber /\ Awaits(m0, s0)
        /\ TopicMatches(group[s0].pattern, published[m0].name)
        /\ handed' = [handed EXCEPT ![m0][s0] = @ + 1]
        /\ \A m, s : Awaits(m, s)' <=> Awaits(m, s) /\ s # s0
  BY HandsIs
<1>3. /\ Subscriber' = Subscriber /\ AllIds' = AllIds /\ AppOk' /\ Valid' = Valid
      /\ (\A x : Packet(x)' = Packet(x)) /\ \A s : IdOf(s)' = IdOf(s)
  BY <1>1, AppSame DEF IInv
<1>4. AppOk /\ SubjectOk /\ PublishedOk /\ HandedOk /\ OwedOk
  BY DEF IInv
<1>5. SubjectOk' /\ OutgoingOk' /\ TableOk'
  BY <1>1, <1>3 DEF IInv, SubjectOk, OutgoingOk, TableOk
<1>6. PublishedOk' /\ \A m, s : Mine(m, s)' = Mine(m, s) /\ InWire(m, s)' = InWire(m, s)
  BY <1>1, <1>4, PublishedSame
<1>7. \A m, s : Awaits(m, s) => m = m0
  BY <1>2 DEF Awaits
<1>8. m0 \in Message /\ handed \in [Message -> [Subscriber -> Nat]]
  BY <1>2, <1>4, PublicationIs DEF HandedOk
<1>9. PICK h : h = handed[m0][s0] /\ h \in Nat
  BY <1>2, <1>8
<1>10. /\ handed' \in [Message -> [Subscriber -> Nat]]
       /\ handed'[m0][s0] = h + 1
       /\ \A m \in Message, s \in Subscriber : m # m0 \/ s # s0 => handed'[m][s] = handed[m][s]
  <2>1. h + 1 \in Nat
    BY <1>9
  <2>2. handed' = [handed EXCEPT ![m0] = [handed[m0] EXCEPT ![s0] = h + 1]]
    BY <1>2, <1>9
  <2>3. PICK g : g = [handed[m0] EXCEPT ![s0] = h + 1]
    OBVIOUS
  <2>4. g \in [Subscriber -> Nat] /\ g[s0] = h + 1 /\ \A s \in Subscriber : s # s0 => g[s] = handed[m0][s]
    BY <1>2, <1>8, <2>1, <2>3
  <2>5. handed' \in [Message -> [Subscriber -> Nat]] /\ handed'[m0] = g
        /\ \A m \in Message : m # m0 => handed'[m] = handed[m]
    BY <1>8, <2>2, <2>3, <2>4
  <2>6. QED BY <2>4, <2>5
<1>11. HandedOk'
  <2>1. ASSUME NEW m \in DOMAIN published, NEW s \in Subscriber
        PROVE  /\ handed'[m][s] > 0 => TopicMatches(group[s].pattern, published[m].name)
               /\ handed'[m][s] + (IF Awaits(m, s)' THEN 1 ELSE 0) + Cardinality(InWire(m, s))
                    <= Cardinality(Mine(m, s))
    <3>1. m \in Message
      BY <1>4, PublicationIs
    <3>2. CASE m = m0 /\ s = s0
      <4>1. PICK b, c : b = Cardinality(InWire(m0, s0)) /\ c = Cardinality(Mine(m0, s0))
        OBVIOUS
      <4>2. b \in Nat /\ c \in Nat
        BY <1>2, <1>4, <4>1, FiniteCopies
      <4>3. h + 1 + b <= c
        BY <1>2, <1>4, <1>9, <4>1 DEF HandedOk
      <4>4. h + 1 + 0 + b <= c
        BY SMT, <1>9, <4>2, <4>3
      <4>5. ~Awaits(m0, s0)'
        BY <1>2
      <4>6. QED BY <1>2, <1>10, <3>2, <4>1, <4>4, <4>5
    <3>3. CASE m # m0 \/ s # s0
      <4>1. handed'[m][s] = handed[m][s]
        BY <1>10, <3>1, <3>3
      <4>2. Awaits(m, s)' <=> Awaits(m, s)
        BY <1>2, <1>7, <3>3
      <4>3. QED BY <1>4, <4>1, <4>2 DEF HandedOk
    <3>4. QED BY <3>2, <3>3
  <2>2. \A m \in Message, s \in Subscriber : m \notin DOMAIN published => handed'[m][s] = 0
    BY <1>2, <1>4, <1>10 DEF HandedOk
  <2>3. QED BY <1>1, <1>3, <1>6, <1>10, <2>1, <2>2 DEF HandedOk
<1>12. OwedOk'
  <2>1. SUFFICES ASSUME NEW o \in owed
                 PROVE  \E m \in DOMAIN published, s \in Range(subject) :
                          /\ o = <<m, s>>
                          /\ TopicMatches(group[s].pattern, published[m].name)
                          /\ handed'[m][s] > 0 \/ Awaits(m, s)' \/ InWire(m, s) # {}
    BY <1>1, <1>6 DEF OwedOk
  <2>2. PICK m \in DOMAIN published, s \in Range(subject) :
          /\ o = <<m, s>>
          /\ TopicMatches(group[s].pattern, published[m].name)
          /\ handed[m][s] > 0 \/ Awaits(m, s) \/ InWire(m, s) # {}
    BY <1>4 DEF OwedOk
  <2>3. s \in Subscriber /\ m \in Message
    BY <1>4, <2>2, PublicationIs, ElementOfSeq, LenProperties DEF SubjectOk, Range
  <2>4. CASE m = m0 /\ s = s0
    <3>1. h + 1 > 0
      BY SMT, <1>9
    <3>2. handed'[m][s] > 0
      BY <1>10, <2>4, <3>1
    <3>3. QED BY <2>2, <3>2
  <2>5. CASE m # m0 \/ s # s0
    <3>1. handed'[m][s] = handed[m][s]
      BY <1>10, <2>3, <2>5
    <3>2. Awaits(m, s)' <=> Awaits(m, s)
      BY <1>2, <1>7, <2>5
    <3>3. QED BY <2>2, <3>1, <3>2
  <2>6. QED BY <2>4, <2>5
<1>13. QED BY <1>2, <1>3, <1>5, <1>6, <1>11, <1>12 DEF IInv

\* Nobody is left that waits.
LEMMA KeepsCallbackReturns ==
  ASSUME IInv, CallbackReturns
  PROVE  IInv'
<1>1. /\ callback.at = "filters" /\ callback.todo = <<>> /\ callback' = Idle
      /\ UNCHANGED CallbackVars /\ UNCHANGED handed
  BY DEF CallbackReturns
<1>2. /\ callback'.at = "idle" /\ callback'.todo = <<>> /\ callback'.props = <<>>
      /\ Idle' = Idle
  BY <1>1 DEF Idle
<1>3. CallbackType'
  BY <1>1, EmptySeq DEF Idle, CallbackType, PropLists
<1>4. CallbackOk'
  <2>1. Theirs(<<>>) = {} /\ Unique(<<>>)
    BY EmptySeq DEF Theirs, Values, Unique
  <2>2. QED BY <1>1, <1>2, <2>1 DEF CallbackOk, IsReading
<1>5. Range(<<>>) = {}
  BY DEF Range
<1>6. \A m, s : ~Awaits(m, s) /\ ~Awaits(m, s)'
  BY <1>1, <1>2, <1>5 DEF Awaits, Waiting
<1>7. QED BY <1>1, <1>3, <1>4, <1>6, CallbackMoves

-----------------------------------------------------------------------------
(* The theorem                                                             *)

\* Every step keeps the invariant.
LEMMA InvariantNext ==
  ASSUME IInv, [Next]_vars
  PROVE  IInv'
<1>1. ASSUME NEW s \in Subscriber, Subscribe(s) PROVE IInv'
  BY <1>1, KeepsSubscribe
<1>2. CASE CallSubscribe
  BY <1>2, KeepsCallSubscribe
<1>3. CASE TakesSubscribe
  BY <1>3, KeepsTakesSubscribe
<1>4. CASE Publishes
  BY <1>4, KeepsPublishes
<1>5. CASE Connects
  BY <1>5, KeepsConnects
<1>6. CASE Loses
  BY <1>6, KeepsLoses
<1>7. CASE Arrives
  BY <1>7, KeepsArrives
<1>8. CASE InCallback
  BY <1>8, KeepsFilters, KeepsCollects, KeepsCollected, KeepsHands, KeepsCallbackReturns DEF InCallback
<1>9. CASE UNCHANGED vars
  <2>1. CallbackType' /\ CallbackOk' /\ (\A m, s : Awaits(m, s)' = Awaits(m, s))
    BY <1>9, CallbackSame DEF IInv
  <2>2. UNCHANGED CallbackVars /\ UNCHANGED handed
    BY <1>9
  <2>3. QED BY <2>1, <2>2, CallbackMoves
<1>10. QED BY <1>1, <1>2, <1>3, <1>4, <1>5, <1>6, <1>7, <1>8, <1>9 DEF Next

\* A subscriber is handed only messages that match its pattern level by level, no more often
\* than the broker has sent copies with its identifier, and it misses none for which its
\* subscription is in place and the broker has sent such a copy, unless the connection was
\* lost or closed before it arrived: for any subscribers whose patterns are valid, with any
\* identifiers, and for any valid topics (Artemisia.swift:104-122, util_topic.c:176-312,
\* Mosquitto+Properties.swift:149-160).
THEOREM SubscribersHandedAsOwed == Spec => []HandedAsOwed
<1>1. Init => IInv
  BY InvariantInit
<1>2. IInv /\ [Next]_vars => IInv'
  BY InvariantNext
<1>3. IInv => HandedAsOwed
  BY InvariantImplies
<1>4. QED BY <1>1, <1>2, <1>3, PTL DEF Spec

=============================================================================
