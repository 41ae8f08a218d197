--------------------------- MODULE StatusBoardProofs ---------------------------
(***************************************************************************)
(* Theorems about the status board, for every mission, any outcomes of its *)
(* phases and any capacity: types, that a mission shown as done is done,   *)
(* that no commit takes a phase back behind done, that the order of the    *)
(* phases is topological and complete, and that what the status shows as   *)
(* next, running or ready has all that it depends on done.                 *)
(***************************************************************************)
EXTENDS StatusBoard, FiniteSetTheorems, WellFoundedInduction, TLAPS

-----------------------------------------------------------------------------
(* Numbers, steps and finite sets *)

\* A set of numbers that is not empty has a least one.
LEMMA LeastExists ==
  ASSUME NEW S \in SUBSET Nat, S # {}
  PROVE  \E i \in S : \A k \in S : i <= k
  <1>1. PICK i \in S : \A k \in S : ~(<<k, i>> \in OpToRel(<, Nat))
    BY NatLessThanWellFounded, WFMin, Zenon
  <1>2. \A k \in S : ~(k < i)
    BY <1>1 DEF OpToRel
  <1>3. QED BY <1>2

\* A set that has zero, and with a number its successor, has all numbers: what is
\* left out would have a least member.
LEMMA AllNumbers ==
  ASSUME NEW S, 0 \in S, \A n \in Nat : n \in S => n + 1 \in S
  PROVE  Nat \subseteq S
  <1>1. SUFFICES ASSUME Nat \ S # {} PROVE FALSE
    OBVIOUS
  <1>2. PICK i \in Nat \ S : \A k \in Nat \ S : i <= k
    BY <1>1, LeastExists
  <1>3. i - 1 \in Nat /\ i - 1 \in S
    BY <1>2
  <1>4. QED BY <1>2, <1>3

\* The values of f from 0 to N begin with the first, and each is made of the one before it.
Steps(f, N, first, step) == f[0] = first /\ \A n \in 1..N : f[n] = step[n][f[n - 1]]

\* A sequence of values that is given by its first one and a step exists.
LEMMA RecursionExists ==
  ASSUME NEW N \in Nat, NEW T, NEW first \in T, NEW step \in [1..N -> [T -> T]]
  PROVE  \E f \in [0..N -> T] : Steps(f, N, first, step)
  <1> USE DEF Steps
  <1> DEFINE Good(m, f) == Steps(f, m, first, step)
             S == {m \in Nat : m <= N => \E f \in [0..m -> T] : Good(m, f)}
  <1>1. 0 \in S
    <2>1. [n \in 0..0 |-> first] \in [0..0 -> T] /\ Good(0, [n \in 0..0 |-> first])
      OBVIOUS
    <2>2. QED BY <2>1
  <1>2. ASSUME NEW m \in Nat, m \in S PROVE m + 1 \in S
    <2>1. SUFFICES ASSUME m + 1 <= N PROVE \E g \in [0..m + 1 -> T] : Good(m + 1, g)
      OBVIOUS
    <2>2. PICK f \in [0..m -> T] : Good(m, f)
      BY <1>2, <2>1
    <2> DEFINE g == [n \in 0..m + 1 |-> IF n <= m THEN f[n] ELSE step[m + 1][f[m]]]
    <2>3. step[m + 1][f[m]] \in T
      BY <2>1, <2>2
    <2>4. g \in [0..m + 1 -> T]
      BY <2>2, <2>3
    <2>5. \A n \in 0..m : g[n] = f[n]
      OBVIOUS
    <2>6. g[m + 1] = step[m + 1][f[m]]
      OBVIOUS
    <2> HIDE DEF g
    <2>7. Good(m + 1, g)
      <3>1. g[0] = first
        BY <2>2, <2>5
      <3>2. ASSUME NEW n \in 1..m + 1 PROVE g[n] = step[n][g[n - 1]]
        <4>1. CASE n = m + 1
          BY <2>5, <2>6, <4>1
        <4>2. CASE n # m + 1
          <5>1. n \in 1..m /\ n \in 0..m /\ n - 1 \in 0..m
            BY <4>2
          <5>2. QED BY <2>2, <2>5, <5>1
        <4>3. QED BY <4>1, <4>2
      <3>3. QED BY <3>1, <3>2
    <2>8. QED BY <2>4, <2>7
  <1> HIDE DEF S
  <1>3. N \in S
    BY <1>1, <1>2, AllNumbers
  <1>4. QED BY <1>3 DEF S

\* What holds of the first value, and is kept by every step, holds of all values.
LEMMA StepsKeep ==
  ASSUME NEW N \in Nat, NEW T, NEW f, f[0] \in T,
         \A n \in 1..N : f[n - 1] \in T => f[n] \in T
  PROVE  \A n \in 0..N : f[n] \in T
  <1> DEFINE S == {n \in Nat : n <= N => f[n] \in T}
  <1>1. 0 \in S
    OBVIOUS
  <1>2. ASSUME NEW n \in Nat, n \in S PROVE n + 1 \in S
    <2>1. CASE n + 1 <= N
      <3>1. n + 1 \in 1..N /\ (n + 1) - 1 = n /\ n <= N
        BY <2>1
      <3>2. QED BY <1>2, <3>1
    <2>2. QED BY <2>1
  <1>3. Nat \subseteq S
    <2> HIDE DEF S
    <2>1. QED BY <1>1, <1>2, AllNumbers
  <1>4. QED BY <1>3

\* A part of a finite set has fewer elements than all of it.
LEMMA PartIsSmaller ==
  ASSUME NEW S, IsFiniteSet(S), NEW T \in SUBSET S, T # S
  PROVE  /\ Cardinality(T) < Cardinality(S)
         /\ Cardinality(T) \in Nat /\ Cardinality(S) \in Nat
  <1>1. IsFiniteSet(T) /\ Cardinality(T) <= Cardinality(S) /\ Cardinality(S) # Cardinality(T)
    BY FS_Subset
  <1>2. Cardinality(T) \in Nat /\ Cardinality(S) \in Nat
    BY <1>1, FS_CardinalityType
  <1>3. QED BY <1>1, <1>2

-----------------------------------------------------------------------------
(* The order of the phases *)

\* A key is appended, if it is of the set.
Sift(ready, n, s) == IF KeyOrder[n] \in ready THEN Append(s, KeyOrder[n]) ELSE s

\* A set is sorted key by key.
LEMMA SortedSifts ==
  ASSUME NEW ready
  PROVE  \E f \in [0..Len(KeyOrder) -> Seq(Phase)] :
           /\ f[0] = <<>> /\ \A n \in 1..Len(KeyOrder) : f[n] = Sift(ready, n, f[n - 1])
           /\ Sorted(ready) = f[Len(KeyOrder)]
  <1> DEFINE N == Len(KeyOrder)
             Upto(f) == f = [n \in 0..N |->
                          IF n = 0 THEN <<>>
                          ELSE IF KeyOrder[n] \in ready THEN Append(f[n - 1], KeyOrder[n])
                               ELSE f[n - 1]]
             T == Seq(Phase)
             step == [n \in 1..N |-> [s \in T |-> Sift(ready, n, s)]]
             empty == <<>>
             value(f, n) == IF n = 0 THEN empty ELSE Sift(ready, n, f[n - 1])
  <1>1. N \in Nat /\ \A n \in 1..N : KeyOrder[n] \in Phase
    BY MissionAssumption
  <1>2. \A n \in 1..N, s \in T : Sift(ready, n, s) \in T
    BY <1>1 DEF Sift
  <1>3. step \in [1..N -> [T -> T]]
    BY <1>2
  <1>4. \A n \in 1..N, s \in T : step[n][s] = Sift(ready, n, s)
    OBVIOUS
  <1>5. empty \in T
    OBVIOUS
  <1>6. \A f : Upto(f) <=> f = [n \in 0..N |-> value(f, n)]
    BY DEF Sift
  <1>7. (\E f : Upto(f)) => \E f : Upto(f) /\ Sorted(ready) = f[N]
    BY DEF Sorted
  <1> HIDE DEF N, step, Upto, empty, T
  <1>8. \E f \in [0..N -> T] : Steps(f, N, empty, step)
    BY <1>1, <1>3, <1>5, RecursionExists
  <1>9. PICK f \in [0..N -> T] : f[0] = empty /\ \A n \in 1..N : f[n] = step[n][f[n - 1]]
    BY <1>8 DEF Steps
  <1>10. \A n \in 0..N : f[n] = value(f, n)
    <2>1. SUFFICES ASSUME NEW n \in 0..N, n # 0 PROVE f[n] = Sift(ready, n, f[n - 1])
      BY <1>9
    <2>2. n \in 1..N /\ n - 1 \in 0..N
      BY <1>1, <2>1
    <2>3. QED BY <1>4, <1>9, <2>2
  <1>11. Upto(f)
    BY <1>6, <1>9, <1>10
  <1>12. PICK g : Upto(g) /\ Sorted(ready) = g[N]
    BY <1>7, <1>11
  <1>13. g = [n \in 0..N |-> value(g, n)]
    BY <1>6, <1>12
  <1>14. \A n \in 0..N : g[n] = value(g, n)
    <2> HIDE DEF value
    <2>1. QED BY <1>13
  <1>15. g[0] = empty /\ \A n \in 1..N : g[n] = Sift(ready, n, g[n - 1])
    BY <1>1, <1>14
  <1>16. \A n \in 0..N : g[n] \in T
    BY <1>1, <1>2, <1>5, <1>15, StepsKeep
  <1>17. g \in [0..N -> T]
    BY <1>13, <1>14, <1>16
  <1>18. QED BY <1>12, <1>15, <1>17 DEF N, T, empty

\* The phases of a set whose keys are among the first n, each once, in the order of the keys.
Sifted(ready, n, s) ==
  /\ s \in Seq(Phase)
  /\ \A k \in 1..Len(s) : s[k] \in ready /\ \E m \in 1..n : s[k] = KeyOrder[m]
  /\ \A m \in 1..n : KeyOrder[m] \in ready => \E k \in 1..Len(s) : s[k] = KeyOrder[m]
  /\ \A j, k \in 1..Len(s) : j < k =>
       \E a, b \in 1..n : a < b /\ s[j] = KeyOrder[a] /\ s[k] = KeyOrder[b]

\* One more key is sorted in.
LEMMA SiftSorts ==
  ASSUME NEW ready, NEW n \in 0..Len(KeyOrder), n < Len(KeyOrder), NEW s, Sifted(ready, n, s)
  PROVE  Sifted(ready, n + 1, Sift(ready, n + 1, s))
  <1> DEFINE t == Sift(ready, n + 1, s)
  <1>1. n \in Nat /\ n + 1 \in 1..Len(KeyOrder) /\ KeyOrder[n + 1] \in Phase
    BY MissionAssumption
  <1>2. CASE KeyOrder[n + 1] \notin ready
    <2>1. t = s
      BY <1>2 DEF Sift
    <2>2. \A m \in 1..n : m \in 1..n + 1
      BY <1>1
    <2>3. \A m \in 1..n + 1 : KeyOrder[m] \in ready => m \in 1..n
      BY <1>1, <1>2
    <2>4. Sifted(ready, n + 1, s)
      BY <2>2, <2>3 DEF Sifted
    <2>5. QED BY <2>1, <2>4
  <1>3. CASE KeyOrder[n + 1] \in ready
    <2>1. /\ t \in Seq(Phase) /\ Len(t) = Len(s) + 1 /\ Len(s) \in Nat
          /\ \A k \in 1..Len(s) : t[k] = s[k]
          /\ t[Len(s) + 1] = KeyOrder[n + 1]
      BY <1>1, <1>3 DEF Sift, Sifted
    <2> HIDE DEF t
    <2>2. \A k \in 1..Len(t) : t[k] \in ready /\ \E m \in 1..n + 1 : t[k] = KeyOrder[m]
      <3>1. SUFFICES ASSUME NEW k \in 1..Len(t)
                     PROVE t[k] \in ready /\ \E m \in 1..n + 1 : t[k] = KeyOrder[m]
        OBVIOUS
      <3>2. CASE k = Len(s) + 1
        BY <1>1, <1>3, <2>1, <3>2
      <3>3. CASE k \in 1..Len(s)
        <4>1. PICK m \in 1..n : s[k] = KeyOrder[m]
          BY <3>3 DEF Sifted
        <4>2. s[k] \in ready
          BY <3>3 DEF Sifted
        <4>3. QED BY <1>1, <2>1, <3>3, <4>1, <4>2
      <3>4. QED BY <2>1, <3>2, <3>3
    <2>3. \A m \in 1..n + 1 : KeyOrder[m] \in ready => \E k \in 1..Len(t) : t[k] = KeyOrder[m]
      <3>1. SUFFICES ASSUME NEW m \in 1..n + 1, KeyOrder[m] \in ready
                     PROVE \E k \in 1..Len(t) : t[k] = KeyOrder[m]
        OBVIOUS
      <3>2. CASE m = n + 1
        BY <2>1, <3>2
      <3>3. CASE m \in 1..n
        <4>1. PICK k \in 1..Len(s) : s[k] = KeyOrder[m]
          BY <3>1, <3>3 DEF Sifted
        <4>2. QED BY <2>1, <4>1
      <3>4. QED BY <1>1, <3>2, <3>3
    <2>4. \A j, k \in 1..Len(t) : j < k =>
             \E a, b \in 1..n + 1 : a < b /\ t[j] = KeyOrder[a] /\ t[k] = KeyOrder[b]
      <3>1. SUFFICES ASSUME NEW j \in 1..Len(t), NEW k \in 1..Len(t), j < k
                     PROVE \E a, b \in 1..n + 1 :
                             a < b /\ t[j] = KeyOrder[a] /\ t[k] = KeyOrder[b]
        OBVIOUS
      <3>2. j \in 1..Len(s) /\ t[j] = s[j]
        BY <2>1, <3>1
      <3>3. CASE k = Len(s) + 1
        <4>1. PICK a \in 1..n : s[j] = KeyOrder[a]
          BY <3>2 DEF Sifted
        <4>2. a \in 1..n + 1 /\ n + 1 \in 1..n + 1 /\ a < n + 1
          BY <1>1
        <4>3. QED BY <2>1, <3>2, <3>3, <4>1, <4>2
      <3>4. CASE k \in 1..Len(s)
        <4>1. PICK a \in 1..n, b \in 1..n : a < b /\ s[j] = KeyOrder[a] /\ s[k] = KeyOrder[b]
          BY <3>1, <3>2, <3>4 DEF Sifted
        <4>2. a \in 1..n + 1 /\ b \in 1..n + 1
          BY <1>1
        <4>3. QED BY <2>1, <3>2, <3>4, <4>1, <4>2
      <3>5. QED BY <2>1, <3>3, <3>4
    <2>5. QED BY <2>1, <2>2, <2>3, <2>4 DEF Sifted, t
  <1>4. QED BY <1>2, <1>3

\* Sorting keeps the phases of a set, each once, in the order of the keys.
LEMMA SortedIsSorted ==
  ASSUME NEW ready
  PROVE  Sifted(ready, Len(KeyOrder), Sorted(ready))
  <1> DEFINE N == Len(KeyOrder)
  <1>1. N \in Nat
    BY MissionAssumption
  <1>2. PICK f \in [0..N -> Seq(Phase)] :
          /\ f[0] = <<>> /\ \A n \in 1..N : f[n] = Sift(ready, n, f[n - 1])
          /\ Sorted(ready) = f[N]
    BY SortedSifts
  <1> DEFINE S == {n \in Nat : n <= N => Sifted(ready, n, f[n])}
  <1>3. 0 \in S
    BY <1>2 DEF Sifted
  <1>4. ASSUME NEW n \in Nat, n \in S PROVE n + 1 \in S
    <2>1. CASE n + 1 <= N
      <3>1. n + 1 \in 1..N /\ (n + 1) - 1 = n /\ n \in 0..N /\ n < N
        BY <1>1, <2>1
      <3>2. Sifted(ready, n, f[n]) /\ f[n + 1] = Sift(ready, n + 1, f[n])
        BY <1>2, <1>4, <3>1
      <3>3. Sifted(ready, n + 1, f[n + 1])
        BY <3>1, <3>2, SiftSorts
      <3>4. QED BY <3>3
    <2>2. QED BY <2>1
  <1>5. Nat \subseteq S
    <2> HIDE DEF S
    <2>1. QED BY <1>3, <1>4, AllNumbers
  <1>6. QED BY <1>1, <1>2, <1>5

\* What is sorted are the phases of the set, and no phase is there twice.
LEMMA SortedIsList ==
  ASSUME NEW ready \in SUBSET Phase
  PROVE  /\ Sorted(ready) \in Seq(Phase)
         /\ Range(Sorted(ready)) = ready
         /\ \A j, k \in 1..Len(Sorted(ready)) : Sorted(ready)[j] = Sorted(ready)[k] => j = k
  <1> DEFINE s == Sorted(ready)
  <1>1. Sifted(ready, Len(KeyOrder), s)
    BY SortedIsSorted
  <1> HIDE DEF s
  <1>2. s \in Seq(Phase) /\ Len(s) \in Nat /\ DOMAIN s = 1..Len(s)
    BY <1>1 DEF Sifted
  <1>3. \A p \in ready : \E k \in 1..Len(s) : s[k] = p
    <2>1. SUFFICES ASSUME NEW p \in ready PROVE \E k \in 1..Len(s) : s[k] = p
      OBVIOUS
    <2>2. PICK m \in 1..Len(KeyOrder) : KeyOrder[m] = p
      BY MissionAssumption
    <2>3. QED BY <1>1, <2>2 DEF Sifted
  <1>4. Range(s) = ready
    BY <1>1, <1>2, <1>3 DEF Sifted, Range
  <1>5. ASSUME NEW j \in 1..Len(s), NEW k \in 1..Len(s), j < k PROVE s[j] # s[k]
    <2>1. PICK a \in 1..Len(KeyOrder), b \in 1..Len(KeyOrder) :
            a < b /\ s[j] = KeyOrder[a] /\ s[k] = KeyOrder[b]
      BY <1>1, <1>5 DEF Sifted
    <2>2. QED BY <2>1, MissionAssumption
  <1>6. \A j, k \in 1..Len(s) : s[j] = s[k] => j = k
    BY <1>2, <1>5
  <1>7. QED BY <1>2, <1>4, <1>6 DEF s

\* Another wave is put behind a list.
Longer(list) == list \o Sorted(Unblocked(list))

\* The order is made wave by wave.
LEMMA OrderIsMade ==
  \E f \in [0..Len(KeyOrder) -> Seq(Phase)] :
    /\ f[0] = <<>> /\ \A n \in 1..Len(KeyOrder) : f[n] = Longer(f[n - 1])
    /\ Order = f[Len(KeyOrder)]
  <1> DEFINE N == Len(KeyOrder)
             Wave(f) == f = [n \in 0..N |->
                          IF n = 0 THEN <<>> ELSE f[n - 1] \o Sorted(Unblocked(f[n - 1]))]
             T == Seq(Phase)
             step == [n \in 1..N |-> [s \in T |-> Longer(s)]]
             empty == <<>>
             value(f, n) == IF n = 0 THEN empty ELSE Longer(f[n - 1])
  <1>1. N \in Nat
    BY MissionAssumption
  <1>2. \A s \in T : Longer(s) \in T
    <2>1. \A s \in T : Unblocked(s) \in SUBSET Phase
      BY DEF Unblocked
    <2>2. \A s \in T : Sorted(Unblocked(s)) \in T
      BY <2>1, SortedIsList
    <2>3. QED BY <2>2 DEF Longer
  <1>3. step \in [1..N -> [T -> T]]
    BY <1>2
  <1>4. \A n \in 1..N, s \in T : step[n][s] = Longer(s)
    OBVIOUS
  <1>5. empty \in T
    OBVIOUS
  <1>6. \A f : Wave(f) <=> f = [n \in 0..N |-> value(f, n)]
    BY DEF Longer
  <1>7. (\E f : Wave(f)) => \E f : Wave(f) /\ Order = f[N]
    BY DEF Order
  <1> HIDE DEF N, step, Wave, empty, T
  <1>8. \E f \in [0..N -> T] : Steps(f, N, empty, step)
    BY <1>1, <1>3, <1>5, RecursionExists
  <1>9. PICK f \in [0..N -> T] : f[0] = empty /\ \A n \in 1..N : f[n] = step[n][f[n - 1]]
    BY <1>8 DEF Steps
  <1>10. \A n \in 0..N : f[n] = value(f, n)
    <2>1. SUFFICES ASSUME NEW n \in 0..N, n # 0 PROVE f[n] = Longer(f[n - 1])
      BY <1>9
    <2>2. n \in 1..N /\ n - 1 \in 0..N
      BY <1>1, <2>1
    <2>3. QED BY <1>4, <1>9, <2>2
  <1>11. Wave(f)
    BY <1>6, <1>9, <1>10
  <1>12. PICK g : Wave(g) /\ Order = g[N]
    BY <1>7, <1>11
  <1>13. g = [n \in 0..N |-> value(g, n)]
    BY <1>6, <1>12
  <1>14. \A n \in 0..N : g[n] = value(g, n)
    <2> HIDE DEF value
    <2>1. QED BY <1>13
  <1>15. g[0] = empty /\ \A n \in 1..N : g[n] = Longer(g[n - 1])
    BY <1>1, <1>14
  <1>16. \A n \in 0..N : g[n] \in T
    BY <1>1, <1>2, <1>5, <1>15, StepsKeep
  <1>17. g \in [0..N -> T]
    BY <1>13, <1>14, <1>16
  <1>18. QED BY <1>12, <1>15, <1>17 DEF N, T, empty

\* A list in which no phase is twice, and each is behind all that it depends on.
Ordered(list) ==
  /\ list \in Seq(Phase)
  /\ \A j, k \in 1..Len(list) : list[j] = list[k] => j = k
  /\ \A k \in 1..Len(list) : \A q \in Deps[list[k]] : \E j \in 1..k - 1 : list[j] = q

\* A wave keeps a list so, and adds what was not blocked.
LEMMA LongerIsOrdered ==
  ASSUME NEW list, Ordered(list)
  PROVE  Ordered(Longer(list)) /\ Range(Longer(list)) = Range(list) \cup Unblocked(list)
  <1> DEFINE s == Sorted(Unblocked(list))
             t == Longer(list)
  <1>1. /\ s \in Seq(Phase) /\ Range(s) = Unblocked(list)
        /\ \A j, k \in 1..Len(s) : s[j] = s[k] => j = k
    <2>1. Unblocked(list) \in SUBSET Phase
      BY DEF Unblocked
    <2>2. QED BY <2>1, SortedIsList
  <1>2. list \in Seq(Phase) /\ Len(list) \in Nat /\ DOMAIN list = 1..Len(list)
    BY DEF Ordered
  <1>3. t = list \o s
    BY DEF Longer
  <1> HIDE DEF s, t
  <1>4. Len(s) \in Nat /\ DOMAIN s = 1..Len(s)
    BY <1>1
  <1>5. /\ t \in Seq(Phase) /\ Len(t) = Len(list) + Len(s) /\ DOMAIN t = 1..Len(list) + Len(s)
        /\ \A k \in 1..Len(list) : t[k] = list[k]
        /\ \A k \in 1..Len(s) : t[Len(list) + k] = s[k]
    BY <1>1, <1>2, <1>3, <1>4
  <1>6. \A k \in 1..Len(t) :
          \/ k \in 1..Len(list)
          \/ k - Len(list) \in 1..Len(s) /\ k = Len(list) + (k - Len(list))
    BY <1>2, <1>4, <1>5
  <1>7. Range(list) = {list[k] : k \in 1..Len(list)} /\ Range(s) = {s[k] : k \in 1..Len(s)}
    BY <1>2, <1>4 DEF Range
  <1>8. Range(t) = Range(list) \cup Range(s)
    <2>1. Range(t) = {t[k] : k \in 1..Len(t)}
      BY <1>5 DEF Range
    <2>2. ASSUME NEW k \in 1..Len(t) PROVE t[k] \in Range(list) \cup Range(s)
      <3>1. CASE k \in 1..Len(list)
        BY <1>5, <1>7, <3>1
      <3>2. CASE k - Len(list) \in 1..Len(s) /\ k = Len(list) + (k - Len(list))
        BY <1>5, <1>7, <3>2
      <3>3. QED BY <1>6, <3>1, <3>2
    <2>3. ASSUME NEW k \in 1..Len(list) PROVE list[k] \in Range(t)
      <3>1. k \in 1..Len(t)
        BY <1>2, <1>4, <1>5
      <3>2. QED BY <1>5, <2>1, <3>1
    <2>4. ASSUME NEW k \in 1..Len(s) PROVE s[k] \in Range(t)
      <3>1. Len(list) + k \in 1..Len(t)
        BY <1>2, <1>4, <1>5
      <3>2. QED BY <1>5, <2>1, <3>1
    <2>5. QED BY <1>7, <2>1, <2>2, <2>3, <2>4
  <1>9. \A k \in 1..Len(s) : s[k] \notin Range(list) /\ Deps[s[k]] \subseteq Range(list)
    BY <1>1, <1>7 DEF Unblocked
  <1>10. ASSUME NEW j \in 1..Len(t), NEW k \in 1..Len(t), t[j] = t[k] PROVE j = k
    <2>1. CASE j \in 1..Len(list) /\ k \in 1..Len(list)
      BY <1>5, <1>10, <2>1 DEF Ordered
    <2>2. CASE j - Len(list) \in 1..Len(s) /\ k - Len(list) \in 1..Len(s)
      <3>1. s[j - Len(list)] = s[k - Len(list)]
        BY <1>5, <1>6, <1>10, <2>2, <1>2
      <3>2. QED BY <1>1, <1>2, <2>2, <3>1
    <2>3. CASE j \in 1..Len(list) /\ k - Len(list) \in 1..Len(s)
      <3>1. t[j] \in Range(list) /\ t[k] = s[k - Len(list)]
        BY <1>2, <1>5, <1>7, <2>3
      <3>2. QED BY <1>9, <1>10, <2>3, <3>1
    <2>4. CASE k \in 1..Len(list) /\ j - Len(list) \in 1..Len(s)
      <3>1. t[k] \in Range(list) /\ t[j] = s[j - Len(list)]
        BY <1>2, <1>5, <1>7, <2>4
      <3>2. QED BY <1>9, <1>10, <2>4, <3>1
    <2>5. QED BY <1>6, <2>1, <2>2, <2>3, <2>4
  <1>11. ASSUME NEW k \in 1..Len(t), NEW q \in Deps[t[k]] PROVE \E j \in 1..k - 1 : t[j] = q
    <2>1. CASE k \in 1..Len(list)
      <3>1. PICK j \in 1..k - 1 : list[j] = q
        BY <1>5, <1>11, <2>1 DEF Ordered
      <3>2. QED BY <1>2, <1>5, <2>1, <3>1
    <2>2. CASE k - Len(list) \in 1..Len(s)
      <3>1. t[k] = s[k - Len(list)]
        BY <1>2, <1>5, <2>2
      <3>2. q \in Range(list)
        BY <1>9, <1>11, <2>2, <3>1
      <3>3. PICK j \in 1..Len(list) : list[j] = q
        BY <1>7, <3>2
      <3>4. j \in 1..k - 1
        BY <1>2, <2>2
      <3>5. QED BY <1>5, <3>3, <3>4
    <2>3. QED BY <1>6, <2>1, <2>2
  <1>12. QED BY <1>1, <1>5, <1>8, <1>10, <1>11 DEF Ordered, t

\* Each phase of the order is behind all that it depends on, and none is there twice.
LEMMA OrderGrows ==
  \E f \in [0..Len(KeyOrder) -> Seq(Phase)] :
    /\ f[0] = <<>> /\ \A n \in 1..Len(KeyOrder) : f[n] = Longer(f[n - 1])
    /\ \A n \in 0..Len(KeyOrder) : Ordered(f[n])
    /\ Order = f[Len(KeyOrder)]
  <1>1. Len(KeyOrder) \in Nat
    BY MissionAssumption
  <1>2. PICK f \in [0..Len(KeyOrder) -> Seq(Phase)] :
          /\ f[0] = <<>> /\ \A n \in 1..Len(KeyOrder) : f[n] = Longer(f[n - 1])
          /\ Order = f[Len(KeyOrder)]
    BY OrderIsMade
  <1> DEFINE T == {list \in Seq(Phase) : Ordered(list)}
  <1>3. f[0] \in T
    BY <1>2 DEF Ordered
  <1>4. \A n \in 1..Len(KeyOrder) : f[n - 1] \in T => f[n] \in T
    BY <1>2, LongerIsOrdered
  <1>5. \A n \in 0..Len(KeyOrder) : f[n] \in T
    <2> HIDE DEF T
    <2>1. QED BY <1>1, <1>3, <1>4, StepsKeep
  <1>6. QED BY <1>2, <1>5

\* Each phase of the order is behind all that it depends on, and none is there twice.
LEMMA OrderIsOrdered == Ordered(Order)
  <1>1. Len(KeyOrder) \in 0..Len(KeyOrder)
    BY MissionAssumption
  <1>2. QED BY <1>1, OrderGrows

\* The phase shown as next is due, whatever the states are: all that is before it in
\* the order is done.
LEMMA NextHasDoneNeeds ==
  ASSUME NEW states, NEW p \in NextPhases(states), NEW q \in Deps[p]
  PROVE  states[q] = "done"
  <1>1. PICK k \in 1..Len(Order) :
          /\ p = Order[k]
          /\ \A m \in 1..Len(Order) : states[Order[m]] # "done" => k <= m
    BY DEF NextPhases
  <1>2. Len(Order) \in Nat
    BY OrderIsOrdered DEF Ordered
  <1>3. PICK j \in 1..k - 1 : Order[j] = q
    BY <1>1, OrderIsOrdered DEF Ordered
  <1>4. j \in 1..Len(Order) /\ ~(k <= j)
    BY <1>2
  <1>5. QED BY <1>1, <1>3, <1>4

\* Every phase has a place in the list of the keys.
LEMMA PhasesCounted == IsFiniteSet(Phase) /\ Cardinality(Phase) <= Len(KeyOrder)
  <1>1. KeyOrder \in Surjection(1..Len(KeyOrder), Phase)
    BY MissionAssumption DEF Surjection
  <1>2. IsFiniteSet(1..Len(KeyOrder)) /\ Cardinality(1..Len(KeyOrder)) = Len(KeyOrder)
    <2>1. Len(KeyOrder) \in Nat /\ 1 \in Int /\ Len(KeyOrder) \in Int
      BY MissionAssumption
    <2>2. QED BY <2>1, FS_Interval
  <1>3. QED BY <1>1, <1>2, FS_Surjection

\* Sets of phases that grow until they stop have stopped after as many steps as there
\* are phases, or are all phases then.
LEMMA GrowthStops ==
  ASSUME NEW f \in [0..Len(KeyOrder) -> SUBSET Phase], NEW Stop,
         \A n \in 1..Len(KeyOrder) : f[n - 1] \subseteq f[n],
         \A n \in 1..Len(KeyOrder) : f[n - 1] = f[n] => f[n] \in Stop,
         \A n \in 1..Len(KeyOrder) : f[n - 1] \in Stop => f[n] \in Stop
  PROVE  f[Len(KeyOrder)] \in Stop \/ f[Len(KeyOrder)] = Phase
  <1> DEFINE N == Len(KeyOrder)
             S == {n \in Nat : n <= N => f[n] \in Stop \/ Cardinality(f[n]) >= n}
  <1>1. N \in Nat
    BY MissionAssumption
  <1>2. \A n \in 0..N : IsFiniteSet(f[n]) /\ Cardinality(f[n]) \in Nat /\ f[n] \in SUBSET Phase
    BY PhasesCounted, FS_Subset, FS_CardinalityType
  <1>3. 0 \in S
    BY <1>1, <1>2
  <1>4. ASSUME NEW n \in Nat, n \in S PROVE n + 1 \in S
    <2>1. SUFFICES ASSUME n + 1 <= N, f[n + 1] \notin Stop PROVE Cardinality(f[n + 1]) >= n + 1
      OBVIOUS
    <2>2. n + 1 \in 1..N /\ (n + 1) - 1 = n /\ n \in 0..N /\ n + 1 \in 0..N
      BY <1>1, <2>1
    <2>3. f[n] \subseteq f[n + 1] /\ f[n] # f[n + 1] /\ f[n] \notin Stop
      BY <2>1, <2>2
    <2>4. Cardinality(f[n]) >= n
      BY <1>4, <2>2, <2>3
    <2>5. Cardinality(f[n]) < Cardinality(f[n + 1])
      BY <1>2, <2>2, <2>3, PartIsSmaller
    <2>6. QED BY <1>2, <2>2, <2>4, <2>5
  <1>5. Nat \subseteq S
    <2> HIDE DEF S
    <2>1. QED BY <1>3, <1>4, AllNumbers
  <1>6. f[N] \in Stop \/ Cardinality(f[N]) >= N
    BY <1>1, <1>5
  <1>7. ASSUME Cardinality(f[N]) >= N PROVE f[N] = Phase
    <2>1. Cardinality(Phase) \in Nat /\ Cardinality(Phase) <= N
      BY PhasesCounted, FS_CardinalityType
    <2>2. f[N] \in SUBSET Phase /\ Cardinality(f[N]) \in Nat
      BY <1>1, <1>2
    <2>3. f[N] # Phase => Cardinality(f[N]) < Cardinality(Phase)
      BY <2>2, PhasesCounted, PartIsSmaller
    <2>4. QED BY <1>1, <1>7, <2>1, <2>2, <2>3
  <1>8. QED BY <1>6, <1>7

\* The phases of a set, and what they depend on.
Wider(set) == set \cup UNION {Deps[q] : q \in set}

\* The ancestors are made step by step.
LEMMA AncestorsAreMade ==
  ASSUME NEW p \in Phase
  PROVE  \E f \in [0..Len(KeyOrder) -> SUBSET Phase] :
           /\ f[0] = Deps[p] /\ \A n \in 1..Len(KeyOrder) : f[n] = Wider(f[n - 1])
           /\ Ancestors(p) = f[Len(KeyOrder)]
  <1> DEFINE N == Len(KeyOrder)
             Above(f) == f = [n \in 0..N |->
                           IF n = 0 THEN Deps[p]
                           ELSE f[n - 1] \cup UNION {Deps[q] : q \in f[n - 1]}]
             T == SUBSET Phase
             step == [n \in 1..N |-> [s \in T |-> Wider(s)]]
             first == Deps[p]
             value(f, n) == IF n = 0 THEN first ELSE Wider(f[n - 1])
  <1>1. N \in Nat
    BY MissionAssumption
  <1>2. \A s \in T : Wider(s) \in T
    BY MissionAssumption DEF Wider
  <1>3. step \in [1..N -> [T -> T]]
    BY <1>2
  <1>4. \A n \in 1..N, s \in T : step[n][s] = Wider(s)
    OBVIOUS
  <1>5. first \in T
    BY MissionAssumption
  <1>6. \A f : Above(f) <=> f = [n \in 0..N |-> value(f, n)]
    BY DEF Wider
  <1>7. (\E f : Above(f)) => \E f : Above(f) /\ Ancestors(p) = f[N]
    BY DEF Ancestors
  <1> HIDE DEF N, step, Above, first, T
  <1>8. \E f \in [0..N -> T] : Steps(f, N, first, step)
    BY <1>1, <1>3, <1>5, RecursionExists
  <1>9. PICK f \in [0..N -> T] : f[0] = first /\ \A n \in 1..N : f[n] = step[n][f[n - 1]]
    BY <1>8 DEF Steps
  <1>10. \A n \in 0..N : f[n] = value(f, n)
    <2>1. SUFFICES ASSUME NEW n \in 0..N, n # 0 PROVE f[n] = Wider(f[n - 1])
      BY <1>9
    <2>2. n \in 1..N /\ n - 1 \in 0..N
      BY <1>1, <2>1
    <2>3. QED BY <1>4, <1>9, <2>2
  <1>11. Above(f)
    BY <1>6, <1>9, <1>10
  <1>12. PICK g : Above(g) /\ Ancestors(p) = g[N]
    BY <1>7, <1>11
  <1>13. g = [n \in 0..N |-> value(g, n)]
    BY <1>6, <1>12
  <1>14. \A n \in 0..N : g[n] = value(g, n)
    <2> HIDE DEF value
    <2>1. QED BY <1>13
  <1>15. g[0] = first /\ \A n \in 1..N : g[n] = Wider(g[n - 1])
    BY <1>1, <1>14
  <1>16. \A n \in 0..N : g[n] \in T
    BY <1>1, <1>2, <1>5, <1>15, StepsKeep
  <1>17. g \in [0..N -> T]
    BY <1>13, <1>14, <1>16
  <1>18. QED BY <1>12, <1>15, <1>17 DEF N, T, first

\* What the ancestors of a phase depend on are ancestors of it, and so is what it
\* depends on itself.
LEMMA AncestorsClosed ==
  ASSUME NEW p \in Phase
  PROVE  /\ Ancestors(p) \in SUBSET Phase /\ Deps[p] \subseteq Ancestors(p)
         /\ \A q \in Ancestors(p) : Deps[q] \subseteq Ancestors(p)
  <1> DEFINE N == Len(KeyOrder)
             Stop == {set \in SUBSET Phase : \A q \in set : Deps[q] \subseteq set}
             Wide == {set \in SUBSET Phase : Deps[p] \subseteq set}
  <1>1. N \in Nat
    BY MissionAssumption
  <1>2. PICK f \in [0..N -> SUBSET Phase] :
          /\ f[0] = Deps[p] /\ \A n \in 1..N : f[n] = Wider(f[n - 1])
          /\ Ancestors(p) = f[N]
    BY AncestorsAreMade
  <1>3. \A n \in 1..N : f[n - 1] \subseteq f[n]
    BY <1>2 DEF Wider
  <1>4. \A n \in 0..N : f[n] \in SUBSET Phase
    BY <1>2
  <1>5. \A n \in 1..N : f[n - 1] = f[n] => f[n] \in Stop
    <2>1. SUFFICES ASSUME NEW n \in 1..N, f[n - 1] = f[n] PROVE f[n] \in Stop
      OBVIOUS
    <2>2. f[n] = Wider(f[n]) /\ n \in 0..N
      BY <1>1, <1>2, <2>1
    <2>3. QED BY <1>4, <2>2 DEF Wider
  <1>6. \A n \in 1..N : f[n - 1] \in Stop => f[n] \in Stop
    <2>1. SUFFICES ASSUME NEW n \in 1..N, f[n - 1] \in Stop PROVE f[n] = f[n - 1]
      OBVIOUS
    <2>2. QED BY <1>2, <2>1 DEF Wider
  <1>7. f[N] \in Stop \/ f[N] = Phase
    <2> HIDE DEF Stop
    <2>1. QED BY <1>2, <1>3, <1>5, <1>6, GrowthStops
  <1>8. f[N] \in Wide
    <2>1. f[0] \in Wide
      BY <1>1, <1>2, <1>4
    <2>2. \A n \in 1..N : f[n - 1] \in Wide => f[n] \in Wide
      BY <1>1, <1>3, <1>4
    <2>3. \A n \in 0..N : f[n] \in Wide
      <3> HIDE DEF Wide
      <3>1. QED BY <1>1, <2>1, <2>2, StepsKeep
    <2>4. QED BY <1>1, <2>3
  <1>9. f[N] = Phase => \A q \in Phase : Deps[q] \subseteq Phase
    BY MissionAssumption
  <1>10. QED BY <1>2, <1>7, <1>8, <1>9

\* The ancestors of an ancestor are ancestors.
LEMMA AncestorsInherited ==
  ASSUME NEW p \in Phase, NEW q \in Ancestors(p)
  PROVE  Ancestors(q) \subseteq Ancestors(p)
  <1> DEFINE N == Len(KeyOrder)
             T == SUBSET Ancestors(p)
  <1>1. N \in Nat /\ q \in Phase
    BY MissionAssumption, AncestorsClosed
  <1>2. PICK f \in [0..N -> SUBSET Phase] :
          /\ f[0] = Deps[q] /\ \A n \in 1..N : f[n] = Wider(f[n - 1])
          /\ Ancestors(q) = f[N]
    BY <1>1, AncestorsAreMade
  <1>3. f[0] \in T
    BY <1>2, AncestorsClosed
  <1>4. \A n \in 1..N : f[n - 1] \in T => f[n] \in T
    BY <1>2, AncestorsClosed DEF Wider
  <1>5. \A n \in 0..N : f[n] \in T
    <2> HIDE DEF T
    <2>1. QED BY <1>1, <1>3, <1>4, StepsKeep
  <1>6. QED BY <1>1, <1>2, <1>5

\* As long as phases are left, some are not blocked: of those left, one with the
\* fewest ancestors depends on none of them.
LEMMA SomeUnblocked ==
  ASSUME NEW list, Phase \ Range(list) # {}
  PROVE  Unblocked(list) # {}
  <1> DEFINE left == Phase \ Range(list)
             counts == {n \in Nat : \E p \in left : Cardinality(Ancestors(p)) = n}
  <1>1. \A p \in Phase : /\ IsFiniteSet(Ancestors(p)) /\ Cardinality(Ancestors(p)) \in Nat
                         /\ p \notin Ancestors(p)
    <2>1. SUFFICES ASSUME NEW p \in Phase
                   PROVE /\ IsFiniteSet(Ancestors(p)) /\ Cardinality(Ancestors(p)) \in Nat
                         /\ p \notin Ancestors(p)
      OBVIOUS
    <2>2. IsFiniteSet(Ancestors(p))
      BY AncestorsClosed, PhasesCounted, FS_Subset
    <2>3. QED BY <2>2, FS_CardinalityType, GraphAssumption DEF ValidGraph
  <1>2. counts # {} /\ counts \subseteq Nat
    BY <1>1
  <1>3. PICK least \in counts : \A n \in counts : least <= n
    <2> HIDE DEF counts
    <2>1. QED BY <1>2, LeastExists
  <1>4. PICK p \in left : Cardinality(Ancestors(p)) = least
    BY <1>3
  <1>5. ASSUME NEW q \in Deps[p], q \in left PROVE FALSE
    <2>1. q \in Ancestors(p) /\ q \in Phase
      BY <1>4, <1>5, AncestorsClosed
    <2>2. Ancestors(q) \subseteq Ancestors(p) /\ Ancestors(q) # Ancestors(p)
      BY <1>1, <1>4, <2>1, AncestorsInherited
    <2>3. Cardinality(Ancestors(q)) < Cardinality(Ancestors(p))
      BY <1>1, <1>4, <2>2, PartIsSmaller
    <2>4. Cardinality(Ancestors(q)) \in counts
      BY <1>1, <1>5, <2>1
    <2> HIDE DEF counts
    <2>5. least <= Cardinality(Ancestors(q)) /\ least \in Nat
      BY <1>2, <1>3, <2>4
    <2>6. QED BY <1>1, <1>4, <2>1, <2>3, <2>5
  <1>6. Deps[p] \subseteq Range(list)
    BY <1>4, <1>5, MissionAssumption
  <1>7. QED BY <1>4, <1>6 DEF Unblocked

\* The order has every phase: the waves never stop early, as topological_phases fears.
LEMMA OrderIsComplete == Range(Order) = Phase
  <1> DEFINE N == Len(KeyOrder)
  <1>1. N \in Nat
    BY MissionAssumption
  <1>2. PICK f \in [0..N -> Seq(Phase)] :
          /\ f[0] = <<>> /\ \A n \in 1..N : f[n] = Longer(f[n - 1])
          /\ \A n \in 0..N : Ordered(f[n])
          /\ Order = f[N]
    BY OrderGrows
  <1>4. \A n \in 1..N : Range(f[n]) = Range(f[n - 1]) \cup Unblocked(f[n - 1])
    <2>1. SUFFICES ASSUME NEW n \in 1..N
                   PROVE Range(f[n]) = Range(f[n - 1]) \cup Unblocked(f[n - 1])
      OBVIOUS
    <2>2. n - 1 \in 0..N /\ f[n] = Longer(f[n - 1])
      BY <1>1, <1>2
    <2>3. QED BY <1>2, <2>2, LongerIsOrdered
  <1> DEFINE r == [n \in 0..N |-> Range(f[n])]
  <1>5. r \in [0..N -> SUBSET Phase]
    BY <1>2 DEF Range
  <1>6. \A n \in 1..N : /\ r[n] = r[n - 1] \cup Unblocked(f[n - 1])
                        /\ r[n - 1] = Range(f[n - 1]) /\ r[n - 1] \subseteq Phase
                        /\ r[n] \subseteq Phase
    <2>1. SUFFICES ASSUME NEW n \in 1..N
                   PROVE /\ r[n] = r[n - 1] \cup Unblocked(f[n - 1])
                         /\ r[n - 1] = Range(f[n - 1]) /\ r[n - 1] \subseteq Phase
                         /\ r[n] \subseteq Phase
      OBVIOUS
    <2>2. n \in 0..N /\ n - 1 \in 0..N
      BY <1>1
    <2>3. QED BY <1>4, <1>5, <2>2
  <1>7. r[N] = Range(Order)
    BY <1>1, <1>2
  <1> HIDE DEF r
  <1>8. \A n \in 1..N : r[n - 1] = r[n] => r[n] \in {Phase}
    <2>1. SUFFICES ASSUME NEW n \in 1..N, r[n - 1] = r[n] PROVE r[n] = Phase
      OBVIOUS
    <2>2. Unblocked(f[n - 1]) \subseteq Range(f[n - 1])
      BY <1>6, <2>1
    <2>3. Unblocked(f[n - 1]) = {}
      BY <2>2 DEF Unblocked
    <2>4. Phase \ Range(f[n - 1]) = {}
      BY <2>3, SomeUnblocked
    <2>5. QED BY <1>6, <2>1, <2>4
  <1>9. \A n \in 1..N : r[n - 1] \in {Phase} => r[n] \in {Phase}
    BY <1>6
  <1>10. \A n \in 1..N : r[n - 1] \subseteq r[n]
    BY <1>6
  <1>11. r[N] \in {Phase} \/ r[N] = Phase
    BY <1>5, <1>8, <1>9, <1>10, GrowthStops
  <1>12. QED BY <1>7, <1>11

-----------------------------------------------------------------------------
(* What a tick derives from its collection *)

\* A phase is derived to be done exactly if its card was collected as done.
LEMMA StatesTyped ==
  ASSUME NEW kinds \in [Phase -> Kind]
  PROVE  /\ States(kinds) \in [Phase -> State]
         /\ \A p \in Phase : States(kinds)[p] = "done" <=> kinds[p] = "done"
  <1>1. ASSUME NEW kind \in Kind, NEW done, NEW needs
        PROVE  /\ StateOf(kind, done, needs) \in State
               /\ StateOf(kind, done, needs) = "done" <=> kind = "done"
    BY <1>1 DEF StateOf, Kind, State
  <1>2. QED BY <1>1 DEF States

\* In one pass over the order, a phase is judged when all that it depends on has been:
\* its state is what the collection says of it and of all that it depends on.
LEMMA OnePassIsEnough ==
  ASSUME NEW kinds \in [Phase -> Kind], NEW p \in Phase
  PROVE  States(kinds)[p] = StateOf(kinds[p], {q \in Phase : kinds[q] = "done"}, Deps[p])
  <1> DEFINE before == {Order[n] : n \in {k \in 1..Len(Order) :
                         kinds[Order[k]] = "done" /\ \E m \in k + 1..Len(Order) : Order[m] = p}}
             done == {q \in Phase : kinds[q] = "done"}
  <1>1. /\ Order \in Seq(Phase) /\ Len(Order) \in Nat /\ DOMAIN Order = 1..Len(Order)
        /\ \A n \in 1..Len(Order) : Order[n] \in Phase
    BY OrderIsOrdered DEF Ordered
  <1>2. PICK m \in 1..Len(Order) : Order[m] = p
    BY <1>1, OrderIsComplete DEF Range
  <1>3. ASSUME NEW q \in Deps[p], q \in done PROVE q \in before
    <2>1. PICK k \in 1..m - 1 : Order[k] = q
      BY <1>2, <1>3, OrderIsOrdered DEF Ordered
    <2>2. k \in 1..Len(Order) /\ m \in k + 1..Len(Order)
      BY <1>1, <2>1
    <2>3. QED BY <1>2, <1>3, <2>1, <2>2
  <1>4. before \subseteq done
    BY <1>1
  <1>5. States(kinds)[p] = StateOf(kinds[p], before, Deps[p])
    BY DEF States
  <1> HIDE DEF before, done
  <1>6. Deps[p] \subseteq before <=> Deps[p] \subseteq done
    BY <1>3, <1>4
  <1>7. StateOf(kinds[p], before, Deps[p]) = StateOf(kinds[p], done, Deps[p])
    BY <1>6 DEF StateOf
  <1>8. QED BY <1>5, <1>7 DEF done

\* A mission of which not all phases are done has a next phase.
LEMMA NextUnlessDone ==
  ASSUME NEW states, NEW p \in Phase, states[p] # "done"
  PROVE  NextPhases(states) # {}
  <1> DEFINE left == {n \in 1..Len(Order) : states[Order[n]] # "done"}
  <1>1. Order \in Seq(Phase) /\ Len(Order) \in Nat /\ DOMAIN Order = 1..Len(Order)
    BY OrderIsOrdered DEF Ordered
  <1>2. left \subseteq Nat /\ left # {}
    BY <1>1, OrderIsComplete DEF Range
  <1>3. PICK k \in left : \A m \in left : k <= m
    <2> HIDE DEF left
    <2>1. QED BY <1>2, LeastExists
  <1>4. QED BY <1>3 DEF NextPhases

\* Only a mission whose phases are all done has the outcome done.
LEMMA OutcomeDone ==
  ASSUME NEW states \in [Phase -> State], Outcome(states) = "done"
  PROVE  \A p \in Phase : states[p] = "done"
  BY DEF Outcome

\* There are finitely many phases, and so finitely many incidents.
LEMMA IncidentsFinite == IsFiniteSet(Incident)
  <1>1. KeyOrder \in Surjection(1..Len(KeyOrder), Phase)
    BY MissionAssumption DEF Surjection
  <1>2. IsFiniteSet(1..Len(KeyOrder))
    BY MissionAssumption, FS_Interval
  <1>3. IsFiniteSet(Phase)
    BY <1>1, <1>2, FS_Surjection
  <1>4. IsFiniteSet({}) /\ IsFiniteSet({"unknown"}) /\ IsFiniteSet(Bad)
    <2>1. IsFiniteSet({})
      BY FS_EmptySet
    <2>2. IsFiniteSet({} \cup {"unknown"})
      BY <2>1, FS_AddElement
    <2>3. IsFiniteSet(({} \cup {"unknown"}) \cup {"failed"})
      BY <2>2, FS_AddElement
    <2>4. IsFiniteSet((({} \cup {"unknown"}) \cup {"failed"}) \cup {"blocked"})
      BY <2>3, FS_AddElement
    <2>5. /\ (({} \cup {"unknown"}) \cup {"failed"}) \cup {"blocked"} = Bad
          /\ {} \cup {"unknown"} = {"unknown"}
      BY DEF Bad
    <2>6. QED BY <2>1, <2>2, <2>4, <2>5
  <1>5. QED BY <1>3, <1>4, FS_Product DEF Incident

\* The card that is read next is one of those left to be read.
LEMMA NextCardIsLeft ==
  ASSUME NEW left \in SUBSET Phase, left # {}
  PROVE  NextCard(left) \in left
  <1> DEFINE places == {n \in 1..Len(KeyOrder) : KeyOrder[n] \in left}
  <1>1. places \subseteq Nat /\ places # {}
    BY MissionAssumption
  <1>2. PICK n \in places : \A m \in places : n <= m
    <2> HIDE DEF places
    <2>1. QED BY <1>1, LeastExists
  <1>4. \A m \in 1..n - 1 : KeyOrder[m] \notin left
    <2>1. Len(KeyOrder) \in Nat /\ n \in 1..Len(KeyOrder)
      BY MissionAssumption
    <2>2. SUFFICES ASSUME NEW m \in 1..n - 1, KeyOrder[m] \in left PROVE FALSE
      OBVIOUS
    <2>3. m \in places /\ ~(n <= m)
      BY <2>1, <2>2
    <2>4. QED BY <1>2, <2>3
  <1>5. \E p \in left : \E k \in 1..Len(KeyOrder) :
          KeyOrder[k] = p /\ \A m \in 1..k - 1 : KeyOrder[m] \notin left
    BY <1>2, <1>4
  <1>6. QED BY <1>5 DEF NextCard

-----------------------------------------------------------------------------
(* Types *)

\* The blank status and the blank process have their types.
LEMMA BlanksTyped == NoStatus \in Status /\ Critical \in Status /\ TickerIdle \in TickerState
  <1>1. NoStatus \in Status /\ Critical \in Status
    BY DEF NoStatus, Critical, Nothing, Status, State
  <1>2. 0 \in 0..Capacity + 1
    BY StatusAssumption
  <1>3. QED BY <1>1, <1>2 DEF TickerIdle, TickerState, Kind

\* The states of the processes, of which t goes to me.
LEMMA GoesTyped ==
  ASSUME TypeOK, NEW t \in Ticker, NEW me \in TickerState, Goes(t, me)
  PROVE  ticker' \in [Ticker -> TickerState]
  BY DEF TypeOK, Goes

\* A process begins in its type.
LEMMA BeginTyped ==
  ASSUME TypeOK, NEW t \in Ticker, Begin(t)
  PROVE  ticker' \in [Ticker -> TickerState]
  <1>1. CASE usable = TRUE
    <2>1. Goes(t, [TickerIdle EXCEPT !.pc = IF bound = {} THEN "commit" ELSE "collect",
                                     !.left = bound])
      BY <1>1 DEF Begin
    <2>2. [TickerIdle EXCEPT !.pc = IF bound = {} THEN "commit" ELSE "collect",
                             !.left = bound] \in TickerState
      BY BlanksTyped DEF TypeOK, TickerState
    <2>3. QED BY <2>1, <2>2, GoesTyped
  <1>2. CASE usable # TRUE
    <2>1. Goes(t, [TickerIdle EXCEPT !.pc = "write", !.status = Critical])
      BY <1>2 DEF Begin
    <2>2. [TickerIdle EXCEPT !.pc = "write", !.status = Critical] \in TickerState
      BY BlanksTyped DEF TickerState
    <2>3. QED BY <2>1, <2>2, GoesTyped
  <1>3. QED BY <1>1, <1>2

\* Every step preserves the types.
LEMMA TypeStep == ASSUME TypeOK, [Next]_vars PROVE TypeOK'
  <1> USE StatusAssumption
  <1>1. \A t \in Ticker : ticker[t] \in TickerState
    BY DEF TypeOK
  <1>2. ASSUME NEW t \in Ticker, Begin(t), UNCHANGED faults \/ Fault PROVE TypeOK'
    <2>1. ticker' \in [Ticker -> TickerState]
      BY <1>2, BeginTyped
    <2>2. faults' \in 0..MaxFaults
      BY <1>2 DEF Fault, TypeOK
    <2>3. UNCHANGED <<board, bound, usable, rows, last, status>>
      BY <1>2 DEF Begin
    <2>4. QED BY <2>1, <2>2, <2>3 DEF TypeOK
  <1>3. ASSUME NEW t \in Ticker, Collect(t) PROVE TypeOK'
    <2> DEFINE p == NextCard(ticker[t].left)
               new == [ticker[t] EXCEPT !.seen[p] = board[p], !.left = @ \ {p},
                         !.pc = IF ticker[t].left = {p} THEN "commit" ELSE @]
    <2>1. Goes(t, new)
      BY <1>3 DEF Collect
    <2>2. board[p] \in Kind \/ p \notin Phase
      BY DEF TypeOK
    <2>3. [ticker[t].seen EXCEPT ![p] = board[p]] \in [Phase -> Kind]
      BY <1>1, <2>2 DEF TickerState
    <2>4. new \in TickerState
      BY <1>1, <2>3 DEF TickerState
    <2> HIDE DEF new
    <2>5. QED BY <1>3, <2>1, <2>4, GoesTyped DEF Collect, TypeOK
  <1>4. ASSUME NEW t \in Ticker, Commit(t) PROVE TypeOK'
    <2> DEFINE states == States(ticker[t].seen)
               count == rows + Cardinality(Observed(states) \ Observed(last))
               drafted == [kind |-> "mission", states |-> states, overtaken |-> FALSE]
               new == [TickerIdle EXCEPT !.pc = "write", !.listed = rows', !.status = drafted]
    <2>1. states \in [Phase -> State]
      BY <1>1, StatesTyped DEF TickerState
    <2>2. CASE Unmoved(ticker[t])
      <3>1. count \in Nat
        <4>1. Observed(states) \ Observed(last) \in SUBSET Incident
          BY DEF Observed
        <4>2. Cardinality(Observed(states) \ Observed(last)) \in Nat
          BY <4>1, IncidentsFinite, FS_Subset, FS_CardinalityType
        <4>3. QED BY <4>2 DEF TypeOK
      <3>2. drafted \in Status
        BY <2>1 DEF Status
      <3>3. rows' \in 0..Capacity + 1 /\ last' = states
        BY <1>4, <2>2, <3>1 DEF Commit
      <3>4. new \in TickerState
        BY <3>2, <3>3, BlanksTyped DEF TickerState
      <3>5. \A u \in Ticker : [ticker[u] EXCEPT !.overtaken = TRUE] \in TickerState
        BY <1>1 DEF TickerState
      <3>6. ticker' = [u \in Ticker |->
                         IF u = t THEN new ELSE [ticker[u] EXCEPT !.overtaken = TRUE]]
        BY <1>4, <2>2 DEF Commit
      <3> HIDE DEF new
      <3>7. ticker' \in [Ticker -> TickerState]
        BY <3>4, <3>5, <3>6
      <3>8. status' \in Status
        BY <1>4, <2>2 DEF Commit, TypeOK, Status
      <3>9. QED BY <1>4, <2>1, <3>3, <3>7, <3>8 DEF Commit, TypeOK
    <2>3. CASE ~Unmoved(ticker[t])
      BY <1>4, <2>3, GoesTyped, BlanksTyped DEF Commit, TypeOK
    <2>4. QED BY <2>2, <2>3
  <1>5. ASSUME NEW t \in Ticker, Write(t) PROVE TypeOK'
    <2>1. [ticker[t].status EXCEPT !.overtaken = ticker[t].overtaken] \in Status
      BY <1>1 DEF TickerState, Status
    <2>2. status' \in Status
      BY <1>5, <2>1 DEF Write, TypeOK
    <2>3. QED BY <1>5, <2>2, GoesTyped, BlanksTyped DEF Write, TypeOK
  <1>6. ASSUME NEW t \in Ticker, Abort(t) PROVE TypeOK'
    BY <1>6, GoesTyped, BlanksTyped DEF Abort, Fault, TypeOK
  <1>7. ASSUME NEW p \in Phase, Work(p) PROVE TypeOK'
    <2>1. board' \in [Phase -> Kind \ {"none"}]
      BY <1>7 DEF Work, TypeOK, Kind
    <2>2. QED BY <1>7, <2>1 DEF Work, Fault, TypeOK
  <1>8. ASSUME NEW p \in Phase, Bind(p) PROVE TypeOK'
    BY <1>8 DEF Bind, TypeOK
  <1>9. CASE LedgerTurns
    BY <1>9 DEF LedgerTurns, Fault, TypeOK
  <1>10. CASE UNCHANGED vars
    BY <1>10 DEF vars, TypeOK
  <1>11. QED
    BY <1>2, <1>3, <1>4, <1>5, <1>6, <1>7, <1>8, <1>9, <1>10
    DEF Next, TimerBegin, ManualBegin, Run, Ticker

\* The status file, the ledger and the processes keep their types.
THEOREM BoardIsTyped == Spec => []TypeOK
  <1>1. Init => TypeOK
    BY StatusAssumption, BlanksTyped DEF Init, TypeOK, Kind, State
  <1>2. QED BY <1>1, TypeStep, PTL DEF Spec

-----------------------------------------------------------------------------
(* What is done stays done *)

\* Done cards stay done, and done is only said of done cards that are bound: by
\* a collection, a draft of the status, the status and the ledger.
Truth ==
  /\ \A t \in Ticker, p \in Phase :
       /\ ticker[t].seen[p] = "done" => board[p] = "done" /\ p \in bound
       /\ ticker[t].status.states[p] = "done" => board[p] = "done"
  /\ \A p \in Phase :
       /\ status.states[p] = "done" => board[p] = "done"
       /\ last[p] = "done" => board[p] = "done" /\ p \in bound

\* A tick that nobody has overtaken finds done whatever the last commit found
\* done: it has read those cards so, or is still to read them.
Fresh ==
  \A t \in Ticker :
    /\ ticker[t].left \subseteq bound
    /\ ticker[t].pc = "collect" => ticker[t].left # {}
    /\ ticker[t].pc = "commit" => ticker[t].left = {}
    /\ ticker[t].pc \in {"collect", "commit"} /\ ~ticker[t].overtaken
         => \A p \in Phase :
              last[p] = "done" => ticker[t].seen[p] = "done" \/ p \in ticker[t].left

\* What a process is when it is idle says nothing of any card.
LEMMA IdleSaysNothing ==
  /\ \A p \in Phase : TickerIdle.seen[p] # "done" /\ TickerIdle.status.states[p] # "done"
  /\ \A p \in Phase : Critical.states[p] # "done" /\ NoStatus.states[p] # "done"
  /\ TickerIdle.left = {} /\ TickerIdle.pc = "idle" /\ ~TickerIdle.overtaken
  BY DEF TickerIdle, NoStatus, Critical, Nothing

\* A process that ends keeps both parts.
LEMMA EndKeeps ==
  ASSUME TypeOK, Truth, Fresh, NEW t \in Ticker, Goes(t, TickerIdle),
         UNCHANGED <<board, bound, last, status>>
  PROVE  Truth' /\ Fresh'
  <1>1. ticker'[t] = TickerIdle /\ \A u \in Ticker \ {t} : ticker'[u] = ticker[u]
    BY DEF Goes, TypeOK
  <1>2. QED BY <1>1, IdleSaysNothing DEF Truth, Fresh

\* Every step keeps both parts.
LEMMA TruthStep == ASSUME TypeOK, Truth, Fresh, [Next]_vars PROVE Truth' /\ Fresh'
  <1>1. \A t \in Ticker : ticker[t] \in TickerState
    BY DEF TypeOK
  <1>2. ASSUME NEW t \in Ticker, Begin(t) PROVE Truth' /\ Fresh'
    <2> DEFINE new == [TickerIdle EXCEPT !.pc = IF bound = {} THEN "commit" ELSE "collect",
                                         !.left = bound]
               bad == [TickerIdle EXCEPT !.pc = "write", !.status = Critical]
    <2>1. UNCHANGED <<board, bound, last, status>>
      BY <1>2 DEF Begin
    <2>2. \A u \in Ticker \ {t} : ticker'[u] = ticker[u]
      BY <1>2 DEF Begin, Goes, TypeOK
    <2>3. CASE usable = TRUE
      <3>1. ticker'[t] = new
        BY <1>2, <2>3 DEF Begin, Goes, TypeOK
      <3>2. /\ new.seen = TickerIdle.seen /\ new.status = TickerIdle.status
            /\ new.left = bound
            /\ new.pc = IF bound = {} THEN "commit" ELSE "collect"
        BY DEF TickerIdle
      <3>3. \A p \in Phase : last[p] = "done" => p \in bound
        BY DEF Truth
      <3> HIDE DEF new
      <3>4. Truth'
        BY <2>1, <2>2, <3>1, <3>2, IdleSaysNothing DEF Truth
      <3>5. QED BY <2>1, <2>2, <3>1, <3>2, <3>3, <3>4 DEF Fresh
    <2>4. CASE usable # TRUE
      <3>1. ticker'[t] = bad
        BY <1>2, <2>4 DEF Begin, Goes, TypeOK
      <3>2. /\ bad.seen = TickerIdle.seen /\ bad.status = Critical
            /\ bad.left = {} /\ bad.pc = "write"
        BY DEF TickerIdle
      <3> HIDE DEF bad
      <3>3. QED BY <2>1, <2>2, <3>1, <3>2, IdleSaysNothing DEF Truth, Fresh
    <2>5. QED BY <2>3, <2>4
  <1>3. ASSUME NEW t \in Ticker, Collect(t) PROVE Truth' /\ Fresh'
    <2> DEFINE p == NextCard(ticker[t].left)
               new == [ticker[t] EXCEPT !.seen[p] = board[p], !.left = @ \ {p},
                         !.pc = IF ticker[t].left = {p} THEN "commit" ELSE @]
    <2>1. UNCHANGED <<board, bound, last, status>>
      BY <1>3 DEF Collect
    <2>2. ticker'[t] = new /\ \A u \in Ticker \ {t} : ticker'[u] = ticker[u]
      BY <1>3 DEF Collect, Goes, TypeOK
    <2>3. /\ new.seen = [ticker[t].seen EXCEPT ![p] = board[p]]
          /\ new.left = ticker[t].left \ {p}
          /\ new.pc = IF ticker[t].left = {p} THEN "commit" ELSE "collect"
          /\ new.overtaken = ticker[t].overtaken /\ new.status = ticker[t].status
      BY <1>1, <1>3 DEF Collect, TickerState
    <2>4. p \in ticker[t].left
      BY <1>1, <1>3, NextCardIsLeft DEF TickerState, Collect, Fresh
    <2> HIDE DEF p, new
    <2>5. ticker[t].seen \in [Phase -> Kind]
      BY <1>1 DEF TickerState
    <2>6. Truth'
      BY <1>1, <2>1, <2>2, <2>3, <2>4, <2>5 DEF Truth, Fresh
    <2>7. Fresh'
      BY <1>1, <1>3, <2>1, <2>2, <2>3, <2>4, <2>5 DEF Collect, Truth, Fresh
    <2>8. QED BY <2>6, <2>7
  <1>4. ASSUME NEW t \in Ticker, Commit(t) PROVE Truth' /\ Fresh'
    <2> DEFINE states == States(ticker[t].seen)
               drafted == [kind |-> "mission", states |-> states, overtaken |-> FALSE]
               new == [TickerIdle EXCEPT !.pc = "write", !.listed = rows', !.status = drafted]
    <2>1. \A p \in Phase : states[p] = "done" => ticker[t].seen[p] = "done"
      BY <1>1, StatesTyped DEF TickerState
    <2> HIDE DEF states
    <2>2. CASE Unmoved(ticker[t])
      <3>1. /\ UNCHANGED <<board, bound>>
            /\ last' = states
            /\ status' = [status EXCEPT !.overtaken = TRUE]
            /\ ticker'[t] = new
            /\ \A u \in Ticker \ {t} : ticker'[u] = [ticker[u] EXCEPT !.overtaken = TRUE]
        BY <1>4, <2>2 DEF Commit, states
      <3>2. new.seen = TickerIdle.seen /\ new.status.states = states
            /\ new.left = {} /\ new.pc = "write"
        BY DEF TickerIdle
      <3> HIDE DEF new
      <3>3. \A u \in Ticker \ {t} :
              /\ ticker'[u].seen = ticker[u].seen /\ ticker'[u].status = ticker[u].status
              /\ ticker'[u].left = ticker[u].left /\ ticker'[u].pc = ticker[u].pc
              /\ ticker'[u].overtaken
        BY <1>1, <3>1 DEF TickerState
      <3>4. status'.states = status.states
        BY <3>1 DEF TypeOK, Status
      <3>5. Truth'
        BY <2>1, <3>1, <3>2, <3>3, <3>4, IdleSaysNothing DEF Truth
      <3>6. Fresh'
        BY <3>1, <3>2, <3>3 DEF Fresh
      <3>7. QED BY <3>5, <3>6
    <2>3. CASE ~Unmoved(ticker[t])
      BY <1>4, <2>3, EndKeeps DEF Commit
    <2>4. QED BY <2>2, <2>3
  <1>5. ASSUME NEW t \in Ticker, Write(t) PROVE Truth' /\ Fresh'
    <2>1. status'.states \in {status.states, ticker[t].status.states}
      BY <1>1, <1>5 DEF Write, TickerState, Status
    <2>2. ticker'[t] = TickerIdle /\ \A u \in Ticker \ {t} : ticker'[u] = ticker[u]
      BY <1>5 DEF Write, Goes, TypeOK
    <2>3. UNCHANGED <<board, bound, last>>
      BY <1>5 DEF Write
    <2>4. QED BY <2>1, <2>2, <2>3, IdleSaysNothing DEF Truth, Fresh
  <1>6. ASSUME NEW t \in Ticker, Abort(t) PROVE Truth' /\ Fresh'
    BY <1>6, EndKeeps DEF Abort
  <1>7. ASSUME NEW p \in Phase, Work(p) PROVE Truth' /\ Fresh'
    <2>1. \A q \in Phase : board[q] = "done" => board'[q] = "done"
      BY <1>7 DEF Work, TypeOK
    <2>2. QED BY <1>7, <2>1 DEF Work, Truth, Fresh
  <1>8. ASSUME NEW p \in Phase, Bind(p) PROVE Truth' /\ Fresh'
    BY <1>8 DEF Bind, Truth, Fresh
  <1>9. CASE LedgerTurns
    BY <1>9 DEF LedgerTurns, Truth, Fresh
  <1>10. CASE UNCHANGED vars
    BY <1>10 DEF vars, Truth, Fresh
  <1>11. QED
    BY <1>2, <1>3, <1>4, <1>5, <1>6, <1>7, <1>8, <1>9, <1>10
    DEF Next, TimerBegin, ManualBegin, Run, Ticker

\* Both parts hold always.
LEMMA AlwaysTrue == Spec => [](Truth /\ Fresh)
  <1>1. Init => Truth /\ Fresh
    BY IdleSaysNothing DEF Init, Truth, Fresh
  <1>2. QED BY <1>1, BoardIsTyped, TruthStep, PTL DEF Spec

\* A mission shown as done is done, with all its evidence, however ticks overlap
\* with each other and with the work.
THEOREM ShownDoneIsDone == Spec => []DoneIsDone
  <1>1. TypeOK /\ Truth => DoneIsDone
    BY OutcomeDone DEF TypeOK, Status, Truth, DoneIsDone
  <1>2. QED BY <1>1, BoardIsTyped, AlwaysTrue, PTL

\* From commit to commit no phase falls back behind done.
THEOREM CommitsKeepProgress == Spec => ProgressIsKept
  <1> DEFINE Kept == \A p \in Phase : last[p] = "done" => last'[p] = "done"
  <1>1. ASSUME TypeOK, Truth, Fresh, [Next]_vars PROVE Kept \/ UNCHANGED vars
    <2>1. \A t \in Ticker : ticker[t] \in TickerState
      BY <1>1 DEF TypeOK
    <2>2. ASSUME NEW t \in Ticker, Commit(t) PROVE Kept
      <3>1. CASE Unmoved(ticker[t])
        <4>1. last' = States(ticker[t].seen)
          BY <2>2, <3>1 DEF Commit
        <4>2. \A p \in Phase : last[p] = "done" => ticker[t].seen[p] = "done"
          <5>1. ticker[t].pc = "commit" /\ ~ticker[t].overtaken
            BY <2>2, <3>1 DEF Commit, Unmoved
          <5>2. QED BY <1>1, <5>1 DEF Fresh
        <4>3. QED BY <2>1, <4>1, <4>2, StatesTyped DEF TickerState
      <3>2. CASE ~Unmoved(ticker[t])
        BY <2>2, <3>2 DEF Commit
      <3>3. QED BY <3>1, <3>2
    <2>3. UNCHANGED last => Kept
      OBVIOUS
    <2> HIDE DEF Kept
    <2>4. QED
      BY <1>1, <2>2, <2>3
      DEF Next, TimerBegin, ManualBegin, Run, Ticker, Begin, Collect, Write, Abort, Work, Bind,
          LedgerTurns, vars
  <1>2. QED BY <1>1, BoardIsTyped, AlwaysTrue, PTL DEF Spec, ProgressIsKept

-----------------------------------------------------------------------------
(* What is shown of the order *)

\* The order of a mission has each of its phases once, behind all that it depends on:
\* for a manifest that was accepted, topological_phases never finds its graph unordered.
THEOREM OrderIsTopological ==
  /\ Order \in Seq(Phase) /\ Range(Order) = Phase
  /\ \A j, k \in 1..Len(Order) : Order[j] = Order[k] => j = k
  /\ \A k \in 1..Len(Order) : \A q \in Deps[Order[k]] : \E j \in 1..k - 1 : Order[j] = q
  BY OrderIsOrdered, OrderIsComplete DEF Ordered

\* The phase shown as next is due, in every mission, and there is one until it is done.
THEOREM ShownNextIsDue == Spec => []NextIsDue
  <1>1. ASSUME TypeOK PROVE NextIsDue
    <2> DEFINE states == status.states
    <2>1. states \in [Phase -> State]
      BY <1>1 DEF TypeOK, Status
    <2>2. \A p \in NextPhases(states), q \in Phase : q \in Deps[p] => states[q] = "done"
      BY NextHasDoneNeeds
    <2>3. ASSUME NextPhases(states) = {} PROVE Outcome(states) = "done"
      <3>1. \A p \in Phase : states[p] = "done"
        BY <2>3, NextUnlessDone
      <3>2. QED BY <3>1 DEF Outcome
    <2>4. QED BY <2>2, <2>3 DEF NextIsDue
  <1>2. QED BY <1>1, BoardIsTyped, PTL

\* What runs, or is ready to, has all that it depends on done.
Sound(states) ==
  \A p \in Phase : states[p] \in {"running", "ready"} =>
    \A q \in Deps[p] : states[q] = "done"

\* What is shown is sound, and what is going to be written.
Sounds == Sound(status.states) /\ \A t \in Ticker : Sound(ticker[t].status.states)

\* The states that a tick derives are sound, whatever it has collected.
LEMMA StatesSound ==
  ASSUME NEW kinds \in [Phase -> Kind]
  PROVE  Sound(States(kinds))
  <1>1. SUFFICES ASSUME NEW p \in Phase, States(kinds)[p] \in {"running", "ready"},
                        NEW q \in Deps[p]
                 PROVE States(kinds)[q] = "done"
    BY DEF Sound
  <1>2. q \in Phase
    BY <1>1, MissionAssumption
  <1> DEFINE done == {r \in Phase : kinds[r] = "done"}
  <1>3. StateOf(kinds[p], done, Deps[p]) \in {"running", "ready"}
    BY <1>1, OnePassIsEnough
  <1>4. kinds[p] \in Kind
    OBVIOUS
  <1>5. Deps[p] \subseteq done
    <2> HIDE DEF done
    <2>1. QED BY <1>3, <1>4 DEF StateOf, Kind
  <1>6. QED BY <1>1, <1>2, <1>5, StatesTyped

\* Blank states are sound.
LEMMA BlanksSound ==
  Sound(NoStatus.states) /\ Sound(Critical.states) /\ Sound(TickerIdle.status.states)
  BY DEF Sound, NoStatus, Critical, Nothing, TickerIdle

\* Every step keeps what is shown sound.
LEMMA SoundStep == ASSUME TypeOK, Sounds, [Next]_vars PROVE Sounds'
  <1>1. \A t \in Ticker : ticker[t] \in TickerState
    BY DEF TypeOK
  <1>2. ASSUME NEW t \in Ticker, NEW me \in TickerState, Goes(t, me), Sound(me.status.states),
               Sound(status'.states)
        PROVE  Sounds'
    <2>1. \A u \in Ticker : ticker'[u] = IF u = t THEN me ELSE ticker[u]
      BY <1>2 DEF Goes, TypeOK
    <2>2. \A u \in Ticker : Sound(ticker'[u].status.states)
      BY <1>2, <2>1 DEF Sounds
    <2>3. QED BY <1>2, <2>2 DEF Sounds, Sound
  <1>3. ASSUME NEW t \in Ticker, Goes(t, TickerIdle), Sound(status'.states) PROVE Sounds'
    BY <1>2, <1>3, BlanksSound, BlanksTyped
  <1>4. ASSUME NEW t \in Ticker, Begin(t) PROVE Sounds'
    <2>1. Sound(status'.states)
      BY <1>4 DEF Begin, Sounds
    <2>2. PICK me \in TickerState :
            Goes(t, me) /\ me.status.states \in {NoStatus.states, Critical.states}
      <3> DEFINE new == [TickerIdle EXCEPT !.pc = IF bound = {} THEN "commit" ELSE "collect",
                                           !.left = bound]
                 bad == [TickerIdle EXCEPT !.pc = "write", !.status = Critical]
      <3>1. new \in TickerState /\ bad \in TickerState
        BY BlanksTyped DEF TypeOK, TickerState
      <3>2. new.status = NoStatus /\ bad.status = Critical
        BY DEF TickerIdle
      <3>3. Goes(t, new) \/ Goes(t, bad)
        BY <1>4 DEF Begin
      <3> HIDE DEF new, bad
      <3>4. QED BY <3>1, <3>2, <3>3
    <2>3. QED BY <1>2, <2>1, <2>2, BlanksSound
  <1>5. ASSUME NEW t \in Ticker, Collect(t) PROVE Sounds'
    <2> DEFINE p == NextCard(ticker[t].left)
               new == [ticker[t] EXCEPT !.seen[p] = board[p], !.left = @ \ {p},
                         !.pc = IF ticker[t].left = {p} THEN "commit" ELSE @]
    <2>1. status' = status /\ ticker' = [ticker EXCEPT ![t] = new]
      BY <1>5 DEF Collect, Goes
    <2>2. new.status = ticker[t].status
      BY <1>1 DEF TickerState
    <2> HIDE DEF new
    <2>3. \A u \in Ticker : ticker'[u].status = ticker[u].status
      BY <2>1, <2>2 DEF TypeOK
    <2>4. QED BY <2>1, <2>3 DEF Sounds, Sound
  <1>6. ASSUME NEW t \in Ticker, Commit(t) PROVE Sounds'
    <2> DEFINE states == States(ticker[t].seen)
               drafted == [kind |-> "mission", states |-> states, overtaken |-> FALSE]
               new == [TickerIdle EXCEPT !.pc = "write", !.listed = rows', !.status = drafted]
    <2>1. Sound(states)
      BY <1>1, StatesSound DEF TickerState
    <2> HIDE DEF states
    <2>2. CASE Unmoved(ticker[t])
      <3>1. /\ status' = [status EXCEPT !.overtaken = TRUE]
            /\ ticker'[t] = new
            /\ \A u \in Ticker \ {t} : ticker'[u] = [ticker[u] EXCEPT !.overtaken = TRUE]
        BY <1>6, <2>2 DEF Commit, states
      <3>2. new.status.states = states
        BY DEF TickerIdle
      <3> HIDE DEF new
      <3>3. \A u \in Ticker \ {t} : ticker'[u].status = ticker[u].status
        BY <1>1, <3>1 DEF TickerState
      <3>4. status'.states = status.states
        BY <3>1 DEF TypeOK, Status
      <3>5. Sound(status'.states) /\ \A u \in Ticker : Sound(ticker'[u].status.states)
        BY <2>1, <3>1, <3>2, <3>3, <3>4 DEF Sounds
      <3>6. QED BY <3>5 DEF Sounds, Sound
    <2>3. CASE ~Unmoved(ticker[t])
      BY <1>3, <1>6, <2>3 DEF Commit, Sounds
    <2>4. QED BY <2>2, <2>3
  <1>7. ASSUME NEW t \in Ticker, Write(t) PROVE Sounds'
    <2>1. status'.states \in {status.states, ticker[t].status.states}
      BY <1>1, <1>7 DEF Write, TickerState, Status
    <2>2. Sound(status'.states)
      BY <2>1 DEF Sounds
    <2>3. QED BY <1>3, <1>7, <2>2 DEF Write
  <1>8. ASSUME NEW t \in Ticker, Abort(t) PROVE Sounds'
    BY <1>3, <1>8 DEF Abort, Sounds
  <1>9. ASSUME UNCHANGED <<status, ticker>> PROVE Sounds'
    BY <1>9 DEF Sounds, Sound
  <1>10. (\E p \in Phase : Work(p) \/ Bind(p)) \/ LedgerTurns \/ UNCHANGED vars =>
           UNCHANGED <<status, ticker>>
    BY DEF Work, Bind, LedgerTurns, vars
  <1>11. QED
    BY <1>4, <1>5, <1>6, <1>7, <1>8, <1>9, <1>10
    DEF Next, TimerBegin, ManualBegin, Run, Ticker

\* No phase is shown as running or ready before what it depends on is shown as done.
THEOREM ShownRunningIsDue == Spec => []RunningIsDue
  <1>1. Init => Sounds
    BY BlanksSound DEF Init, Sounds
  <1>2. Sounds => RunningIsDue
    BY DEF Sounds, Sound, RunningIsDue
  <1>3. QED BY <1>1, <1>2, BoardIsTyped, SoundStep, PTL DEF Spec

================================================================================
