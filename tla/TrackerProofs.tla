---------------------------- MODULE TrackerProofs ----------------------------
(***************************************************************************)
(* Proofs about the gateway's statistics: what GET /stats reports for the  *)
(* last hour and day is exact, and the file is whole as long as no two     *)
(* saves overlapped.                                                       *)
(***************************************************************************)
EXTENDS Tracker, FiniteSetTheorems, FunctionTheorems, SequenceTheorems, WellFoundedInduction, TLAPS

(***************************************************************************)
(* Numbers and sequences.                                                  *)
(***************************************************************************)

\* A set of naturals that is not empty has a least element.
LEMMA LeastOf ==
    ASSUME NEW T, T \subseteq Nat, T # {}
    PROVE  \E x \in T : \A y \in T : x <= y
  <1>1. PICK x \in T : \A y \in T : ~(<<y, x>> \in OpToRel(<, Nat))
    BY NatLessThanWellFounded, WFMin, Zenon
  <1>2. \A y \in T : ~(y < x)
    BY <1>1, Zenon DEF OpToRel
  <1> QED
    BY <1>2, SMT

\* A set of numbers up to n that is not empty has a greatest element.
LEMMA GreatestOf ==
    ASSUME NEW n \in Nat, NEW T, T \subseteq 1 .. n, T # {}
    PROVE  \E x \in T : \A y \in T : y <= x
  <1> DEFINE D == {d \in Nat : n - d \in T}
  <1>1. D # {}
    <2>1. PICK t \in T : TRUE
      BY Zenon
    <2>2. n - t \in Nat /\ n - (n - t) = t
      BY <2>1, SMT
    <2> QED
      BY <2>1, <2>2, Zenon
  <1>2. PICK d \in D : \A e \in D : d <= e
    BY <1>1, LeastOf, Zenon
  <1>3. ASSUME NEW y \in T
        PROVE  y <= n - d
    <2>1. n - y \in Nat /\ n - (n - y) = y
      BY SMT
    <2>2. n - y \in D
      BY <2>1, Zenon
    <2>3. d <= n - y
      BY <1>2, <2>2, Zenon
    <2> QED
      BY <2>3, <1>2, SMT
  <1> QED
    BY <1>2, <1>3, Zenon

\* The indices in I can be picked in their order.
LEMMA PickExists ==
    ASSUME NEW n \in Nat, NEW I \in SUBSET (1 .. n)
    PROVE  \E p \in [1 .. Cardinality(I) -> I] : \A i, j \in DOMAIN p : i < j => p[i] < p[j]
  <1> DEFINE Ordered(p) == \A i, j \in DOMAIN p : i < j => p[i] < p[j]
             Has(J) == \E p \in [1 .. Cardinality(J) -> J] : Ordered(p)
             Bad == {m \in Nat : \E J \in SUBSET (1 .. m) : ~Has(J)}
  <1>1. ASSUME Bad # {}
        PROVE  FALSE
    <2>1. PICK m \in Bad : \A k \in Bad : m <= k
      BY <1>1, LeastOf, Zenon
    <2>2. PICK J \in SUBSET (1 .. m) : ~Has(J)
      BY <2>1, Zenon
    <2>3. IsFiniteSet(J) /\ Cardinality(J) \in Nat
      <3>1. IsFiniteSet(1 .. m)
        BY FS_Interval, m \in Int, 1 \in Int, Zenon
      <3>2. IsFiniteSet(J)
        BY <3>1, FS_Subset, Zenon
      <3> QED
        BY <3>2, FS_CardinalityType, Zenon
    <2>4. m # 0
      <3>1. SUFFICES ASSUME m = 0 PROVE FALSE
        BY Zenon
      <3>2. J = {} /\ Cardinality(J) = 0
        <4>1. 1 .. m = {}
          BY <3>1
        <4>2. J = {}
          BY <4>1, Zenon
        <4> QED
          BY <4>2, FS_EmptySet, Zenon
      <3>3. 1 .. Cardinality(J) = {}
        BY <3>2
      <3>4. [x \in {} |-> x] \in [1 .. Cardinality(J) -> J] /\ Ordered([x \in {} |-> x])
        BY <3>3, Zenon
      <3> QED
        BY <3>4, <2>2, Zenon
    <2>5. m - 1 \in Nat /\ m - 1 \notin Bad
      <3>1. m \in Nat
        BY <2>1, Zenon
      <3>2. m - 1 \in Nat /\ ~(m <= m - 1)
        BY <3>1, <2>4
      <3> QED
        BY <3>2, <2>1, Zenon
    <2>6. m \in J
      <3>1. SUFFICES ASSUME m \notin J PROVE FALSE
        BY Zenon
      <3>2. J \in SUBSET (1 .. m - 1)
        BY <3>1, <2>5
      <3> QED
        BY <3>2, <2>5, <2>2, Zenon
    <2> DEFINE K == J \ {m}
    <2>7. K \in SUBSET (1 .. m - 1)
      BY <2>5
    <2>8. PICK q \in [1 .. Cardinality(K) -> K] : Ordered(q)
      BY <2>7, <2>5, Zenon
    <2>9. Cardinality(K) \in Nat /\ Cardinality(J) = Cardinality(K) + 1
      <3>1. IsFiniteSet(K) /\ Cardinality(K) = Cardinality(J) - 1
        BY <2>3, <2>6, FS_RemoveElement, Zenon
      <3>2. Cardinality(K) \in Nat
        BY <3>1, FS_CardinalityType, Zenon
      <3> QED
        BY <3>1, <3>2, <2>3
    <2> DEFINE c == Cardinality(K)
               p == [i \in 1 .. c + 1 |-> IF i = c + 1 THEN m ELSE q[i]]
    <2>10. p \in [1 .. Cardinality(J) -> J]
      <3>1. ASSUME NEW i \in 1 .. c + 1 PROVE p[i] \in J
        <4>1. CASE i = c + 1
          BY <4>1, <2>6, Zenon
        <4>2. CASE i # c + 1
          <5>1. i \in 1 .. c
            BY <4>2, <2>9
          <5> QED
            BY <5>1, <4>2, <2>8, Zenon
        <4> QED
          BY <4>1, <4>2, Zenon
      <3> QED
        BY <3>1, <2>9, Zenon
    <2>11. Ordered(p)
      <3>1. SUFFICES ASSUME NEW i \in 1 .. c + 1, NEW j \in 1 .. c + 1, i < j
                     PROVE  p[i] < p[j]
        BY Zenon
      <3>2. i \in 1 .. c /\ p[i] = q[i] /\ q[i] \in K
        <4>1. i \in 1 .. c /\ i # c + 1
          BY <3>1, <2>9
        <4> QED
          BY <4>1, <2>8, Zenon
      <3>3. CASE j = c + 1
        <4>1. p[j] = m
          BY <3>3, Zenon
        <4>2. q[i] \in 1 .. m - 1 /\ m \in Nat
          BY <3>2, <2>7, Zenon
        <4>3. q[i] < m
          BY <4>2
        <4> QED
          BY <4>1, <4>3, <3>2, Zenon
      <3>4. CASE j # c + 1
        <4>1. j \in 1 .. c /\ p[j] = q[j]
          BY <3>4, <2>9
        <4> QED
          BY <4>1, <3>2, <3>1, <2>8, Zenon
      <3> QED
        BY <3>3, <3>4, Zenon
    <2> QED
      BY <2>10, <2>11, <2>2, Zenon
  <1> QED
    BY <1>1, Zenon

\* Load keeps times, in whatever order they come (stats.go:920).
LEMMA SiftType ==
    ASSUME NEW s \in Seq(Nat), NEW I \in SUBSET DOMAIN s
    PROVE  Sift(s, I) \in Seq(Nat)
  <1> DEFINE Picks == {p \in [1 .. Cardinality(I) -> I] : \A i, j \in DOMAIN p : i < j => p[i] < p[j]}
             pick == CHOOSE p \in [1 .. Cardinality(I) -> I] : \A i, j \in DOMAIN p : i < j => p[i] < p[j]
  <1>1. DOMAIN s = 1 .. Len(s) /\ Len(s) \in Nat
    BY LenProperties, Zenon
  <1>2. \E p \in [1 .. Cardinality(I) -> I] : \A i, j \in DOMAIN p : i < j => p[i] < p[j]
    BY <1>1, PickExists, Zenon
  <1>3. pick \in [1 .. Cardinality(I) -> I]
    BY <1>2, Zenon
  <1>4. Cardinality(I) \in Nat
    <2>1. IsFiniteSet(1 .. Len(s))
      BY <1>1, FS_Interval, 1 \in Int, Len(s) \in Int, Zenon
    <2> QED
      BY <2>1, <1>1, FS_Subset, FS_CardinalityType, Zenon
  <1> HIDE DEF pick
  <1> DEFINE t == [i \in 1 .. Cardinality(I) |-> s[pick[i]]]
  <1>5. t \in [1 .. Cardinality(I) -> Nat]
    BY <1>1, <1>3
  <1>6. t \in Seq(Nat)
    <2>1. \A i \in 1 .. Cardinality(I) : s[pick[i]] \in Nat
      BY <1>1, <1>3
    <2> QED
      BY <1>4, <2>1, IsASeq
  <1>7. Sift(s, I) = [i \in DOMAIN pick |-> s[pick[i]]]
    BY Zenon DEF Sift, pick
  <1> QED
    BY <1>3, <1>6, <1>7, Zenon

(***************************************************************************)
(* The events of a series are those of its log from some index on.         *)
(***************************************************************************)
Suffix(events, all, n) ==
    /\ n \in 0 .. Len(all) /\ Len(events) = Len(all) - n
    /\ \A i \in 1 .. Len(events) : events[i] = all[n + i]

\* Recording an event adds it to both.
LEMMA AppendSuffix ==
    ASSUME NEW events \in Seq(Nat), NEW all \in Seq(Nat), NEW n \in Nat, NEW at \in Nat,
           Suffix(events, all, n)
    PROVE  Suffix(Append(events, at), Append(all, at), n)
  <1> DEFINE e == Append(events, at)
             a == Append(all, at)
  <1>1. /\ Len(e) = Len(events) + 1 /\ e[Len(events) + 1] = at
        /\ \A i \in 1 .. Len(events) : e[i] = events[i]
    BY AppendProperties
  <1>2. /\ Len(a) = Len(all) + 1 /\ a[Len(all) + 1] = at
        /\ \A i \in 1 .. Len(all) : a[i] = all[i]
    BY AppendProperties
  <1>3. Len(events) \in Nat /\ Len(all) \in Nat
    BY LenProperties, Zenon
  <1>4. n \in 0 .. Len(all) /\ Len(events) = Len(all) - n /\ \A i \in 1 .. Len(events) : events[i] = all[n + i]
    BY Zenon DEF Suffix
  <1> HIDE DEF e, a
  <1>5. ASSUME NEW i \in 1 .. Len(e)
        PROVE  e[i] = a[n + i]
    <2>1. CASE i = Len(events) + 1
      <3>1. n + i = Len(all) + 1
        BY <2>1, <1>3, <1>4
      <3> QED
        BY <2>1, <3>1, <1>1, <1>2, Zenon
    <2>2. CASE i # Len(events) + 1
      <3>1. i \in 1 .. Len(events) /\ n + i \in 1 .. Len(all)
        <4>1. i \in 1 .. Len(events) + 1
          BY <1>1, Zenon
        <4> QED
          BY <4>1, <2>2, <1>3, <1>4
      <3> QED
        BY <3>1, <1>1, <1>2, <1>4, Zenon
    <2> QED
      BY <2>1, <2>2, Zenon
  <1>6. n \in 0 .. Len(a) /\ Len(e) = Len(a) - n
    BY <1>1, <1>2, <1>3, <1>4
  <1>7. Suffix(e, a, n)
    BY <1>5, <1>6, Zenon DEF Suffix
  <1> QED
    BY <1>7, Zenon DEF e, a

\* prune leaves a shorter suffix, and what it drops is too old for every
\* window (stats.go:459).
LEMMA PruneSuffix ==
    ASSUME NEW events \in Seq(Nat), NEW all \in Seq(Nat), NEW n \in Nat, NEW now \in Nat,
           Suffix(events, all, n)
    PROVE  /\ Prune(events, now) \in Seq(Nat)
           /\ \E m \in Nat : /\ Suffix(Prune(events, now), all, m)
                             /\ \A i \in 1 .. m : i <= n \/ now - all[i] > Keep
  <1> DEFINE young == {i \in DOMAIN events : now - events[i] <= Keep}
             first == CHOOSE i \in young : \A j \in young : i <= j
  <1>1. Len(events) \in Nat /\ Len(all) \in Nat /\ DOMAIN events = 1 .. Len(events)
    BY LenProperties, Zenon
  <1>2. n \in 0 .. Len(all) /\ Len(events) = Len(all) - n /\ \A i \in 1 .. Len(events) : events[i] = all[n + i]
    BY Zenon DEF Suffix
  <1>3. Keep \in Nat
    BY TrackerAssumption, Zenon
  <1>4. ASSUME NEW i \in 1 .. Len(all), ~(i <= n)
        PROVE  i - n \in 1 .. Len(events) /\ all[i] = events[i - n]
    <2>1. i - n \in 1 .. Len(events) /\ n + (i - n) = i
      BY <1>1, <1>2, <1>4
    <2> QED
      BY <2>1, <1>2, Zenon
  <1>5. CASE young = {}
    <2>1. Prune(events, now) = <<>>
      BY <1>5, Zenon DEF Prune
    <2>2. Suffix(<<>>, all, Len(all))
      BY <1>1 DEF Suffix
    <2>3. ASSUME NEW i \in 1 .. Len(all), ~(i <= n)
          PROVE  now - all[i] > Keep
      <3>1. events[i - n] \in Nat /\ ~(now - events[i - n] <= Keep) /\ all[i] = events[i - n]
        <4>1. i - n \in 1 .. Len(events) /\ all[i] = events[i - n]
          BY <1>4, <2>3, Zenon
        <4>2. i - n \in DOMAIN events /\ events[i - n] \in Nat
          BY <4>1, <1>1
        <4> QED
          BY <4>1, <4>2, <1>5, Zenon
      <3> QED
        BY <3>1, <1>3
    <2> QED
      BY <2>1, <2>2, <2>3, <1>1
  <1>6. CASE young # {}
    <2>1. young \subseteq Nat
      BY <1>1
    <2>2. \E i \in young : \A j \in young : i <= j
      BY <1>6, <2>1, LeastOf, Zenon
    <2>3. first \in young /\ \A j \in young : first <= j
      BY <2>2, Zenon
    <2>4. Prune(events, now) = SubSeq(events, first, Len(events))
      BY <1>6, Zenon DEF Prune
    <2>5. first \in 1 .. Len(events)
      BY <2>3, <1>1, Zenon
    <2> HIDE DEF first
    <2> DEFINE kept == SubSeq(events, first, Len(events))
               m == n + first - 1
    <2>6. \A i \in first .. Len(events) : events[i] \in Nat
      BY <2>5, <1>1
    <2>7. /\ kept \in Seq(Nat) /\ Len(kept) = Len(events) - first + 1
          /\ \A i \in 1 .. Len(events) - first + 1 : kept[i] = events[first + i - 1]
      <3>1. first \in Int /\ Len(events) \in Int /\ first <= Len(events)
        BY <2>5, <1>1
      <3> QED
        BY <3>1, <2>6, SubSeqProperties
    <2> HIDE DEF kept
    <2>8. m \in 0 .. Len(all) /\ Len(kept) = Len(all) - m
      BY <2>7, <2>5, <1>1, <1>2
    <2>9. ASSUME NEW i \in 1 .. Len(kept)
          PROVE  kept[i] = all[m + i]
      <3>1. first + i - 1 \in 1 .. Len(events) /\ n + (first + i - 1) = m + i /\ i \in 1 .. Len(events) - first + 1
        BY <2>7, <2>5, <1>1, <1>2
      <3> QED
        BY <3>1, <2>7, <1>2, Zenon
    <2>10. Suffix(kept, all, m)
      BY <2>8, <2>9, Zenon DEF Suffix
    <2>11. ASSUME NEW i \in 1 .. m, ~(i <= n)
           PROVE  now - all[i] > Keep
      <3>1. i \in 1 .. Len(all)
        BY <2>8, <1>1
      <3>2. i - n \in 1 .. Len(events) /\ all[i] = events[i - n]
        BY <3>1, <1>4, <2>11, Zenon
      <3>3. ~(first <= i - n)
        BY <2>5, <1>2, <1>1
      <3>4. i - n \notin young
        BY <3>3, <2>3, Zenon
      <3>5. events[i - n] \in Nat /\ ~(now - events[i - n] <= Keep)
        BY <3>2, <3>4, <1>1
      <3> QED
        BY <3>2, <3>5, <1>3
    <2>12. m \in Nat
      BY <2>8, <1>1
    <2> QED
      BY <2>10, <2>11, <2>12, <2>4, <2>7, Zenon DEF kept
  <1> QED
    BY <1>5, <1>6, Zenon

\* The backward scan of windowSums counts exactly the young events of a log
\* in the order of its times (stats.go:472).
LEMMA WindowExact ==
    ASSUME NEW events \in Seq(Nat), NEW all \in Seq(Nat), NEW n \in Nat, NEW window \in Nat,
           Suffix(events, all, n), Sorted(all), clock \in Nat, window <= Keep,
           \A i \in 1 .. n : clock - all[i] > Keep
    PROVE  WindowSums(events, window) = Cardinality({i \in DOMAIN all : clock - all[i] <= window})
  <1> DEFINE stop == {i \in DOMAIN events : clock - events[i] > window}
             last == CHOOSE i \in stop : \A j \in stop : j <= i
             m == IF stop = {} THEN 0 ELSE last
             young == {i \in DOMAIN all : clock - all[i] <= window}
  <1>1. /\ Len(events) \in Nat /\ DOMAIN events = 1 .. Len(events)
        /\ Len(all) \in Nat /\ DOMAIN all = 1 .. Len(all)
    BY LenProperties, Zenon
  <1>2. n \in 0 .. Len(all) /\ Len(events) = Len(all) - n /\ \A i \in 1 .. Len(events) : events[i] = all[n + i]
    BY Zenon DEF Suffix
  <1>3. Keep \in Nat
    BY TrackerAssumption, Zenon
  <1>4. /\ m \in 0 .. Len(events) /\ \A j \in stop : j <= m
        /\ m = 0 \/ m \in stop
    <2>1. CASE stop = {}
      BY <2>1, <1>1
    <2>2. CASE stop # {}
      <3>1. stop \subseteq 1 .. Len(events)
        BY <1>1, Zenon
      <3>2. \E i \in stop : \A j \in stop : j <= i
        BY <3>1, <2>2, <1>1, GreatestOf, Zenon
      <3>3. last \in stop /\ \A j \in stop : j <= last
        BY <3>2, Zenon
      <3> HIDE DEF last
      <3> QED
        BY <3>3, <3>1, <2>2, <1>1
    <2> QED
      BY <2>1, <2>2, Zenon
  <1>5. WindowSums(events, window) = Len(events) - m
    BY Zenon DEF WindowSums
  <1> HIDE DEF m
  <1>6. ASSUME NEW i \in 1 .. Len(all), i > n + m
        PROVE  clock - all[i] <= window
    <2>1. i - n \in 1 .. Len(events) /\ n + (i - n) = i /\ ~(i - n <= m)
      BY <1>1, <1>2, <1>4, <1>6
    <2>2. i - n \notin stop
      BY <2>1, <1>4, Zenon
    <2>3. events[i - n] \in Nat /\ ~(clock - events[i - n] > window)
      BY <2>1, <2>2, <1>1
    <2>4. events[i - n] = all[i]
      BY <2>1, <1>2, Zenon
    <2> QED
      BY <2>3, <2>4
  <1>7. ASSUME NEW i \in 1 .. Len(all), ~(i > n + m)
        PROVE  ~(clock - all[i] <= window)
    <2>1. all[i] \in Nat
      BY <1>1
    <2>2. CASE i \in 1 .. n
      <3>1. clock - all[i] > Keep
        BY <2>2, Zenon
      <3> QED
        BY <3>1, <2>1, <1>3
    <2>3. CASE i \notin 1 .. n
      <3>1. m # 0 /\ n + m \in 1 .. Len(all) /\ i <= n + m
        BY <2>3, <1>7, <1>1, <1>2, <1>4
      <3>2. m \in stop /\ m \in 1 .. Len(events)
        BY <3>1, <1>4, <1>1, Zenon
      <3>3. events[m] = all[n + m] /\ clock - events[m] > window
        BY <3>2, <1>2, Zenon
      <3>4. all[i] <= all[n + m]
        BY <3>1, <1>1, Zenon DEF Sorted
      <3>5. all[n + m] \in Nat
        BY <3>1, <1>1
      <3> QED
        BY <3>3, <3>4, <3>5, <2>1
    <2> QED
      BY <2>2, <2>3, Zenon
  <1>8. young = n + m + 1 .. Len(all)
    <2>1. ASSUME NEW i \in young PROVE i \in n + m + 1 .. Len(all)
      <3>1. i \in 1 .. Len(all) /\ clock - all[i] <= window
        BY <1>1, Zenon
      <3>2. i > n + m
        BY <3>1, <1>7, Zenon
      <3> QED
        BY <3>1, <3>2, <1>1, <1>4
    <2>2. ASSUME NEW i \in n + m + 1 .. Len(all) PROVE i \in young
      <3>1. i \in 1 .. Len(all) /\ i > n + m
        BY <1>1, <1>4
      <3> QED
        BY <3>1, <1>6, <1>1, Zenon
    <2> HIDE DEF young
    <2> QED
      BY <2>1, <2>2, Zenon
  <1>9. n + m + 1 \in Int /\ Len(all) \in Int /\ n + m <= Len(all)
    BY <1>1, <1>2, <1>4
  <1>10. Cardinality(n + m + 1 .. Len(all)) = IF n + m + 1 > Len(all) THEN 0 ELSE Len(all) - (n + m + 1) + 1
    BY <1>9, FS_Interval, Zenon
  <1>11. Cardinality(young) = Len(events) - m
    <2>1. m \in Nat
      BY <1>4, <1>1
    <2>2. n \in Nat /\ Len(all) \in Nat /\ Len(events) = Len(all) - n /\ n + m <= Len(all)
      BY <1>9, <1>1, <1>2, Zenon
    <2>3. PICK l \in Nat : l = Len(all)
      BY <2>2
    <2>4. PICK c : c = Cardinality(n + m + 1 .. Len(all))
      OBVIOUS
    <2>5. c = IF n + m + 1 > l THEN 0 ELSE l - (n + m + 1) + 1
      BY <1>10, <2>3, <2>4, Zenon
    <2>6. c = (l - n) - m
      BY <2>1, <2>2, <2>3, <2>5
    <2> HIDE DEF young
    <2> QED
      BY <1>8, <2>2, <2>3, <2>4, <2>6, Zenon
  <1> QED
    BY <1>5, <1>11, Zenon

(***************************************************************************)
(* The inductive invariant.                                                *)
(***************************************************************************)
FileIds == 1 .. Cardinality(Savers) + 1
SeriesState == [events : Seq(Nat), total : Nat]
SavedState == UNION {[S -> SeriesState] : S \in SUBSET Keys}
RecState == [pc : {"idle", "get", "insert", "stamp", "append"}, entered : BOOLEAN, todo : Seq(Keys), now : Nat]
SaveState == [pc : {"idle", "clear", "keys", "read", "open", "write", "rename"},
              todo : SUBSET Keys, state : SavedState, fd : FileIds \cup {0}]

MemoryType ==
    /\ clock \in Nat /\ known \in SUBSET Keys
    /\ series \in [Keys -> SeriesState] /\ log \in [Keys -> Seq(Nat)]
    /\ rec \in [Recorders -> RecState]
DiskType ==
    /\ save \in [Savers -> SaveState] /\ files \in [FileIds -> SavedState \cup {Blank, Mixed}]
    /\ tmp \in FileIds \cup {0} /\ path \in FileIds \cup {0} /\ (tmp # 0 => tmp # path)
    /\ \A p \in Savers : save[p].pc # "write" => save[p].fd = 0

\* A request under way has a series to be recorded in, and its time has come.
RecordOK(r) ==
    /\ rec[r].now <= clock
    /\ rec[r].pc # "idle" => Len(rec[r].todo) > (IF rec[r].entered THEN 0 ELSE 1)
    /\ rec[r].pc \in {"stamp", "append"} => rec[r].entered

\* What the events of a series lack of its log is too old for every window.
SeriesOK(k) ==
    \E n \in Nat : /\ Suffix(series[k].events, log[k], n)
                   /\ \A i \in 1 .. n : clock - log[k][i] > Keep

\* The one saver under way writes to the temporary file from its start, and
\* renames it when it holds everything; the file itself is whole.
DiskOK ==
    /\ \A p, q \in Savers : Busy(p) /\ Busy(q) => p = q
    /\ \A p \in Savers : /\ save[p].pc = "write" => tmp # 0 /\ save[p].fd = tmp /\ files[tmp] = Blank
                         /\ save[p].pc = "rename" => tmp # 0 /\ Whole(files[tmp])
    /\ path # 0 => Whole(files[path])

MemoryInv ==
    /\ MemoryType
    /\ \A r \in Recorders : RecordOK(r)
    /\ \A k \in Keys : SeriesOK(k)
DiskInv == DiskType /\ (overlap \/ DiskOK)
TrackerInv == MemoryInv /\ DiskInv

-----------------------------------------------------------------------------
(* What is saved.                                                           *)

LEMMA EmptyType == Empty \in SeriesState
  <1>1. <<>> \in Seq(Nat) /\ 0 \in Nat
    BY EmptySeq, Zenon
  <1> QED
    BY <1>1, Zenon DEF Empty, SeriesState

\* No save is mistaken for an empty or a mixed file.
LEMMA SavedWhole ==
    ASSUME NEW state \in SavedState
    PROVE  Whole(state)
  <1>1. PICK S \in SUBSET Keys : state \in [S -> SeriesState]
    BY Zenon DEF SavedState
  <1>2. DOMAIN state \subseteq Keys
    BY <1>1, Zenon
  <1>3. "blank" \in DOMAIN Blank /\ "mixed" \in DOMAIN Mixed
    BY Zenon DEF Blank, Mixed
  <1>4. "blank" \notin Keys /\ "mixed" \notin Keys
    BY TrackerAssumption, Zenon
  <1> QED
    BY <1>2, <1>3, <1>4, Zenon DEF Whole

LEMMA NoneSaved == [k \in {} |-> Empty] \in SavedState
  <1>1. [k \in {} |-> Empty] \in [{} -> SeriesState]
    BY Zenon
  <1>2. {} \in SUBSET Keys
    BY Zenon
  <1> QED
    BY <1>1, <1>2, Zenon DEF SavedState

\* Save adds the copy of a series to what it has read (stats.go:1010).
LEMMA CopiedSaved ==
    ASSUME NEW state \in SavedState, NEW k \in Keys, series \in [Keys -> SeriesState]
    PROVE  Copied(state, k) \in SavedState
  <1>1. PICK S \in SUBSET Keys : state \in [S -> SeriesState]
    BY Zenon DEF SavedState
  <1>2. series[k] \in SeriesState
    BY Zenon
  <1>3. Copied(state, k) \in [S \cup {k} -> SeriesState]
    BY <1>1, <1>2, Zenon DEF Copied
  <1>4. S \cup {k} \in SUBSET Keys
    BY <1>1, Zenon
  <1> QED
    BY <1>3, <1>4, Zenon DEF SavedState

\* What a start reads from the disk is a save, whatever the file holds.
LEMMA DiskSaved ==
    ASSUME DiskType
    PROVE  Disk \in SavedState
  <1>1. CASE path # 0 /\ Whole(files[path])
    <2>1. files[path] \in SavedState
      BY <1>1, Zenon DEF DiskType, Whole
    <2> QED
      BY <2>1, <1>1, Zenon DEF Disk
  <1>2. CASE ~(path # 0 /\ Whole(files[path]))
    BY <1>2, NoneSaved, Zenon DEF Disk
  <1> QED
    BY <1>1, <1>2, Zenon

\* ... and every series loaded from it is one (stats.go:912).
LEMMA LoadType ==
    ASSUME DiskType, NEW k \in Keys
    PROVE  Load(k) \in SeriesState
  <1>1. PICK S \in SUBSET Keys : Disk \in [S -> SeriesState]
    BY DiskSaved, Zenon DEF SavedState
  <1>2. CASE k \notin DOMAIN Disk
    BY <1>2, EmptyType, Zenon DEF Load
  <1>3. CASE k \in DOMAIN Disk
    <2> DEFINE ev == Disk[k].events
               I == {i \in DOMAIN ev : clock - ev[i] <= Keep}
    <2>1. Disk[k] \in SeriesState
      BY <1>1, <1>3, Zenon
    <2>2. ev \in Seq(Nat)
      BY <2>1, Zenon DEF SeriesState
    <2>3. Sift(ev, I) \in Seq(Nat)
      BY <2>2, SiftType, Zenon
    <2>4. Load(k) = [Disk[k] EXCEPT !.events = Sift(ev, I)]
      BY <1>3, Zenon DEF Load
    <2> HIDE DEF ev, I
    <2> QED
      BY <2>1, <2>3, <2>4, Zenon DEF SeriesState
  <1> QED
    BY <1>2, <1>3, Zenon

\* There is always a file to be created: a saver that opens one has none open.
LEMMA FreeFileExists ==
    ASSUME DiskType, tmp = 0, NEW p \in Savers, save[p].fd = 0
    PROVE  FreeFile \in FileIds /\ FreeFile # path /\ \A q \in Savers : FreeFile # save[q].fd
  <1> DEFINE g == [q \in Savers |-> IF q = p THEN path ELSE save[q].fd]
             R == {g[q] : q \in Savers}
             taken == {tmp, path} \cup {save[q].fd : q \in Savers}
  <1>1. IsFiniteSet(Savers) /\ Cardinality(Savers) \in Nat
    BY TrackerAssumption, FS_CardinalityType, Zenon
  <1>2. g \in Surjection(Savers, R)
    BY Zenon DEF Surjection
  <1>3. IsFiniteSet(R) /\ Cardinality(R) <= Cardinality(Savers)
    BY <1>1, <1>2, FS_Surjection, Zenon
  <1>4. Cardinality(R) \in Nat
    BY <1>3, FS_CardinalityType, Zenon
  <1>5. Cardinality(FileIds) = Cardinality(Savers) + 1
    <2>1. ASSUME NEW n \in Nat PROVE Cardinality(1 .. n + 1) = n + 1
      <3>1. Cardinality(1 .. n + 1) = IF 1 > n + 1 THEN 0 ELSE (n + 1) - 1 + 1
        BY FS_Interval, 1 \in Int, n + 1 \in Int, Zenon
      <3> QED
        BY <3>1
    <2> QED
      BY <1>1, <2>1, Zenon DEF FileIds
  <1>6. PICK f \in FileIds : f \notin taken
    <2>1. SUFFICES ASSUME \A f \in FileIds : f \in taken PROVE FALSE
      BY Zenon
    <2>2. ASSUME NEW f \in FileIds PROVE f \in R
      <3>1. f # 0
        BY <1>1 DEF FileIds
      <3>2. g[p] = path
        BY Zenon
      <3>3. CASE f = path
        BY <3>2, <3>3, Zenon
      <3>4. CASE f # path
        <4>1. PICK q \in Savers : f = save[q].fd
          BY <3>1, <3>4, <2>1, Zenon
        <4>2. q # p /\ g[q] = f
          BY <4>1, <3>1, Zenon
        <4> QED
          BY <4>2, Zenon
      <3> QED
        BY <3>3, <3>4, Zenon
    <2> HIDE DEF R
    <2>3. FileIds \in SUBSET R
      BY <2>2, Zenon
    <2>4. Cardinality(FileIds) <= Cardinality(R)
      BY <2>3, <1>3, FS_Subset, Zenon
    <2> QED
      BY <2>4, <1>1, <1>3, <1>4, <1>5
  <1>7. DOMAIN files = FileIds
    BY Zenon DEF DiskType
  <1>8. FreeFile \in FileIds /\ FreeFile \notin taken
    BY <1>6, <1>7, Zenon DEF FreeFile
  <1> QED
    BY <1>8, Zenon

-----------------------------------------------------------------------------
(* Steps that leave a part alone.                                           *)

LEMMA NoneType ==
    /\ NoRec \in RecState /\ NoRec.pc = "idle" /\ ~NoRec.entered /\ NoRec.now = 0
    /\ NoSave \in SaveState /\ NoSave.pc = "idle" /\ NoSave.fd = 0
  <1>1. <<>> \in Seq(Keys)
    BY EmptySeq, Zenon
  <1>2. {} \in SUBSET Keys
    BY Zenon
  <1>3. NoRec \in RecState /\ NoRec.pc = "idle" /\ ~NoRec.entered /\ NoRec.now = 0
    BY <1>1, Zenon DEF NoRec, RecState
  <1> QED
    BY NoneSaved, <1>2, <1>3, Zenon DEF NoSave, SaveState

LEMMA MemoryFrame ==
    ASSUME MemoryInv, UNCHANGED <<clock, known, series, log, rec>>
    PROVE  MemoryInv'
  BY Zenon DEF MemoryInv, MemoryType, RecordOK, SeriesOK

LEMMA DiskFrame ==
    ASSUME DiskInv, UNCHANGED <<save, files, tmp, path, overlap>>
    PROVE  DiskInv'
  BY Zenon DEF DiskInv, DiskType, DiskOK, Busy

\* A recorder goes on to x.
RecorderMove(r, x) ==
    /\ x \in RecState /\ x.now <= clock
    /\ x.pc # "idle" => Len(x.todo) > (IF x.entered THEN 0 ELSE 1)
    /\ x.pc \in {"stamp", "append"} => x.entered
    /\ rec' = [rec EXCEPT ![r] = x]
    /\ clock' = clock

LEMMA RecorderFrame ==
    ASSUME MemoryInv, NEW r \in Recorders, NEW x, RecorderMove(r, x),
           known' \in SUBSET Keys, UNCHANGED <<series, log>>
    PROVE  MemoryInv'
  <1>1. rec' \in [Recorders -> RecState] /\ \A q \in Recorders : rec'[q] = IF q = r THEN x ELSE rec[q]
    BY Zenon DEF MemoryInv, MemoryType, RecorderMove
  <1>2. MemoryType'
    BY <1>1, Zenon DEF MemoryInv, MemoryType, RecorderMove
  <1>3. ASSUME NEW q \in Recorders PROVE RecordOK(q)'
    <2>1. CASE q = r
      BY <1>1, <2>1, Zenon DEF RecordOK, RecorderMove
    <2>2. CASE q # r
      <3>1. rec'[q] = rec[q] /\ clock' = clock /\ RecordOK(q)
        BY <1>1, <2>2, Zenon DEF MemoryInv, RecorderMove
      <3> QED
        BY <3>1, Zenon DEF RecordOK
    <2> QED
      BY <2>1, <2>2, Zenon
  <1>4. ASSUME NEW k \in Keys PROVE SeriesOK(k)'
    <2>1. series' = series /\ log' = log /\ clock' = clock /\ SeriesOK(k)
      BY Zenon DEF MemoryInv, RecorderMove
    <2> QED
      BY <2>1, Zenon DEF SeriesOK
  <1> QED
    BY <1>2, <1>3, <1>4, Zenon DEF MemoryInv

-----------------------------------------------------------------------------
(* The initial state.                                                       *)

LEMMA TrackerInitInv == TrackerInit => TrackerInv
  <1> SUFFICES ASSUME TrackerInit PROVE TrackerInv
    BY Zenon
  <1>1. <<>> \in Seq(Nat) /\ <<>> \in Seq(Keys) /\ Len(<<>>) = 0
    BY EmptySeq, Zenon
  <1>2. NoRec \in RecState
    BY NoneType, Zenon
  <1>3. NoSave \in SaveState
    BY NoneType, Zenon
  <1>4. known \in SUBSET Keys
    BY TrackerAssumption, Zenon DEF TrackerInit
  <1>5. MemoryType
    BY <1>1, <1>2, <1>4, EmptyType, Zenon DEF MemoryType, TrackerInit
  <1>6. ASSUME NEW r \in Recorders PROVE RecordOK(r)
    BY DEF RecordOK, TrackerInit, NoRec
  <1>7. ASSUME NEW k \in Keys PROVE SeriesOK(k)
    <2>1. series[k].events = <<>> /\ log[k] = <<>>
      BY Zenon DEF TrackerInit, Empty
    <2>2. Suffix(<<>>, <<>>, 0)
      BY <1>1 DEF Suffix
    <2>3. 0 \in Nat /\ 1 .. 0 = {}
      OBVIOUS
    <2> QED
      BY <2>1, <2>2, <2>3, Zenon DEF SeriesOK
  <1>8. MemoryInv
    BY <1>5, <1>6, <1>7, Zenon DEF MemoryInv
  <1>9. /\ save = [p \in Savers |-> NoSave] /\ tmp = 0 /\ path = 0
        /\ files \in [FileIds -> {Blank}]
    BY Zenon DEF TrackerInit, FileIds
  <1>10. NoSave.pc = "idle" /\ NoSave.fd = 0
    BY Zenon DEF NoSave
  <1>11. DiskType
    BY <1>3, <1>9, <1>10, Zenon DEF DiskType
  <1>12. DiskOK
    BY <1>9, <1>10, Zenon DEF DiskOK, Busy
  <1> QED
    BY <1>8, <1>11, <1>12, Zenon DEF TrackerInv, DiskInv

-----------------------------------------------------------------------------
(* Recording.                                                               *)

LEMMA ArriveInv ==
    ASSUME TrackerInv, NEW r \in Recorders, NEW work \in Works, Arrive(r, work)
    PROVE  TrackerInv'
  <1> DEFINE x == [NoRec EXCEPT !.pc = "get", !.todo = work]
  <1>1. work \in Seq(Keys) /\ Len(work) > 1
    BY TrackerAssumption, Zenon
  <1>2. NoRec \in RecState /\ ~NoRec.entered /\ NoRec.now = 0
    BY NoneType, Zenon
  <1>3. x \in RecState /\ x.pc = "get" /\ x.todo = work /\ ~x.entered /\ x.now = 0
    BY <1>1, <1>2, Zenon DEF RecState
  <1>4. clock \in Nat /\ known \in SUBSET Keys
    BY Zenon DEF TrackerInv, MemoryInv, MemoryType
  <1>5. rec' = [rec EXCEPT ![r] = x] /\ UNCHANGED <<clock, known, series, log>>
    BY Zenon DEF Arrive, memVars
  <1> HIDE DEF x
  <1>6. RecorderMove(r, x)
    BY <1>1, <1>3, <1>4, <1>5 DEF RecorderMove
  <1>7. MemoryInv'
    BY <1>4, <1>5, <1>6, RecorderFrame, Zenon DEF TrackerInv
  <1>8. DiskInv'
    BY DiskFrame, Zenon DEF TrackerInv, Arrive, diskVars
  <1> QED
    BY <1>7, <1>8, Zenon DEF TrackerInv

LEMMA StampInv ==
    ASSUME TrackerInv, NEW r \in Recorders, Stamp(r)
    PROVE  TrackerInv'
  <1> DEFINE pc == IF Head(rec[r].todo) = Errors THEN "append" ELSE "get"
             x == [rec[r] EXCEPT !.pc = pc, !.now = clock]
  <1>1. rec[r] \in RecState /\ clock \in Nat /\ known \in SUBSET Keys
    BY Zenon DEF TrackerInv, MemoryInv, MemoryType
  <1>2. rec[r].pc = "stamp" /\ rec[r].entered /\ Len(rec[r].todo) > 0
    BY Zenon DEF TrackerInv, MemoryInv, RecordOK, Stamp
  <1>3. pc \in {"append", "get"}
    BY Zenon
  <1>4. rec' = [rec EXCEPT ![r] = x] /\ UNCHANGED <<clock, known, series, log>>
    BY Zenon DEF Stamp, memVars, boundVars
  <1> HIDE DEF pc
  <1>5. x \in RecState
    BY <1>1, <1>3, Zenon DEF RecState
  <1>6. x.pc = pc /\ x.now = clock /\ x.entered = rec[r].entered /\ x.todo = rec[r].todo
    BY <1>1, Zenon DEF RecState
  <1> HIDE DEF x
  <1>7. RecorderMove(r, x)
    BY <1>1, <1>2, <1>4, <1>5, <1>6 DEF RecorderMove
  <1>8. MemoryInv'
    BY <1>1, <1>4, <1>7, RecorderFrame, Zenon DEF TrackerInv
  <1>9. DiskInv'
    BY DiskFrame, Zenon DEF TrackerInv, Stamp, diskVars
  <1> QED
    BY <1>8, <1>9, Zenon DEF TrackerInv

\* With the entry in hand, a recorder goes on with a series it has.
LEMMA GotMove ==
    ASSUME MemoryInv, NEW r \in Recorders, rec[r].pc \in {"get", "insert"},
           rec' = [rec EXCEPT ![r] = Got(r)], clock' = clock
    PROVE  RecorderMove(r, Got(r))
  <1>1. rec[r] \in RecState /\ RecordOK(r) /\ rec[r].todo \in Seq(Keys)
    BY Zenon DEF MemoryInv, MemoryType, RecState
  <1>2. Len(rec[r].todo) > (IF rec[r].entered THEN 0 ELSE 1) /\ rec[r].now <= clock
    BY <1>1, Zenon DEF RecordOK
  <1>3. Len(rec[r].todo) \in Nat
    BY <1>1, LenProperties, Zenon
  <1>4. CASE rec[r].entered
    <2>1. Got(r) = [rec[r] EXCEPT !.pc = "append"]
      BY <1>4, Zenon DEF Got
    <2> QED
      BY <2>1, <1>1, <1>2, <1>4, Zenon DEF RecorderMove, RecState
  <1>5. CASE ~rec[r].entered
    <2> DEFINE todo == Tail(rec[r].todo)
               x == [rec[r] EXCEPT !.pc = "stamp", !.entered = TRUE, !.todo = todo]
    <2>1. rec[r].todo # <<>>
      BY <1>2, <1>5, EmptySeq
    <2>2. todo \in Seq(Keys) /\ Len(todo) = Len(rec[r].todo) - 1
      BY <2>1, <1>1, HeadTailProperties, Zenon
    <2>3. Len(todo) > 0
      BY <2>2, <1>2, <1>3, <1>5
    <2>4. Got(r) = x
      BY <1>5, Zenon DEF Got
    <2> HIDE DEF todo
    <2>5. x \in RecState /\ x.pc = "stamp" /\ x.entered = TRUE /\ x.todo = todo /\ x.now = rec[r].now
      BY <1>1, <2>2, Zenon DEF RecState
    <2> HIDE DEF x
    <2> QED
      BY <2>3, <2>4, <2>5, <1>2, Zenon DEF RecorderMove
  <1> QED
    BY <1>4, <1>5, Zenon

LEMMA GetInv ==
    ASSUME TrackerInv, NEW r \in Recorders, Get(r)
    PROVE  TrackerInv'
  <1>1. rec[r] \in RecState /\ RecordOK(r) /\ known \in SUBSET Keys
    BY Zenon DEF TrackerInv, MemoryInv, MemoryType
  <1>2. rec[r].pc = "get" /\ UNCHANGED <<clock, known, series, log>>
    BY Zenon DEF Get, memVars, boundVars
  <1>3. MemoryInv'
    <2>1. CASE Head(rec[r].todo) \in known
      <3>1. rec' = [rec EXCEPT ![r] = Got(r)]
        BY <2>1, Zenon DEF Get
      <3>2. RecorderMove(r, Got(r))
        BY <3>1, <1>2, GotMove, Zenon DEF TrackerInv
      <3> QED
        BY <3>2, <1>1, <1>2, RecorderFrame, Zenon DEF TrackerInv
    <2>2. CASE Head(rec[r].todo) \notin known
      <3> DEFINE x == [rec[r] EXCEPT !.pc = "insert"]
      <3>1. rec' = [rec EXCEPT ![r] = x]
        BY <2>2, Zenon DEF Get
      <3>2. x \in RecState /\ x.pc = "insert" /\ x.entered = rec[r].entered /\ x.todo = rec[r].todo /\ x.now = rec[r].now
        BY <1>1, Zenon DEF RecState
      <3> HIDE DEF x
      <3>3. RecorderMove(r, x)
        BY <3>1, <3>2, <1>1, <1>2, Zenon DEF RecorderMove, RecordOK
      <3> QED
        BY <3>3, <1>1, <1>2, RecorderFrame, Zenon DEF TrackerInv
    <2> QED
      BY <2>1, <2>2, Zenon
  <1>4. DiskInv'
    BY DiskFrame, Zenon DEF TrackerInv, Get, diskVars
  <1> QED
    BY <1>3, <1>4, Zenon DEF TrackerInv

LEMMA InsertInv ==
    ASSUME TrackerInv, NEW r \in Recorders, Insert(r)
    PROVE  TrackerInv'
  <1>1. rec[r].pc = "insert" /\ UNCHANGED <<clock, series, log>> /\ known' = known \cup {Head(rec[r].todo)}
        /\ rec' = [rec EXCEPT ![r] = Got(r)]
    BY Zenon DEF Insert, boundVars
  <1>2. known' \in SUBSET Keys
    <2>1. rec[r].todo \in Seq(Keys) /\ known \in SUBSET Keys
      BY Zenon DEF TrackerInv, MemoryInv, MemoryType, RecState
    <2>2. Len(rec[r].todo) > (IF rec[r].entered THEN 0 ELSE 1)
      BY <1>1, Zenon DEF TrackerInv, MemoryInv, RecordOK
    <2>3. rec[r].todo # <<>>
      BY <2>2, EmptySeq
    <2>4. Head(rec[r].todo) \in Keys
      BY <2>1, <2>3, HeadTailProperties, Zenon
    <2> QED
      BY <2>1, <2>4, <1>1, Zenon
  <1>3. RecorderMove(r, Got(r))
    BY <1>1, GotMove, Zenon DEF TrackerInv
  <1>4. MemoryInv'
    BY <1>1, <1>2, <1>3, RecorderFrame, Zenon DEF TrackerInv
  <1>5. DiskInv'
    BY DiskFrame, Zenon DEF TrackerInv, Insert, diskVars
  <1> QED
    BY <1>4, <1>5, Zenon DEF TrackerInv

\* The heart of the matter: Record appends and prunes, and drops nothing that
\* a later report would count.
LEMMA RecordInv ==
    ASSUME TrackerInv, NEW r \in Recorders, Record(r)
    PROVE  TrackerInv'
  <1>1. PICK k : k = Head(rec[r].todo)
    BY Zenon
  <1>2. PICK now : now = rec[r].now
    BY Zenon
  <1> DEFINE todo == rec[r].todo
             events == Prune(Append(series[k].events, now), now)
             x == IF Len(todo) = 1 THEN NoRec
                  ELSE [rec[r] EXCEPT !.pc = IF k = Errors THEN "stamp" ELSE "get", !.todo = Tail(todo)]
  <1>3. /\ rec[r] \in RecState /\ todo \in Seq(Keys) /\ now \in Nat /\ clock \in Nat
        /\ known \in SUBSET Keys /\ series \in [Keys -> SeriesState] /\ log \in [Keys -> Seq(Nat)]
    BY <1>2, Zenon DEF TrackerInv, MemoryInv, MemoryType, RecState
  <1>4. rec[r].pc = "append" /\ rec[r].entered /\ Len(todo) > 0 /\ now <= clock
    BY <1>2, Zenon DEF Record, TrackerInv, MemoryInv, RecordOK
  <1>5. /\ series' = [series EXCEPT ![k] = [events |-> events, total |-> series[k].total + 1]]
        /\ log' = [log EXCEPT ![k] = Append(log[k], now)]
        /\ rec' = [rec EXCEPT ![r] = x]
        /\ UNCHANGED <<clock, known, save, files, tmp, path, overlap>>
    <2>1. series' = [series EXCEPT ![k] = [events |-> events, total |-> series[k].total + 1]]
      BY <1>1, <1>2, Zenon DEF Record
    <2>2. log' = [log EXCEPT ![k] = Append(log[k], now)]
      BY <1>1, <1>2, Zenon DEF Record
    <2>3. rec' = [rec EXCEPT ![r] = x]
      BY <1>1, <1>2, Zenon DEF Record
    <2>4. UNCHANGED <<clock, known, save, files, tmp, path, overlap>>
      BY Zenon DEF Record, boundVars, diskVars
    <2> QED
      BY <2>1, <2>2, <2>3, <2>4, Zenon
  <1>6. todo # <<>> /\ Len(todo) \in Nat
    BY <1>3, <1>4, EmptySeq, LenProperties
  <1>7. k \in Keys /\ Tail(todo) \in Seq(Keys) /\ Len(Tail(todo)) = Len(todo) - 1
    BY <1>1, <1>3, <1>6, HeadTailProperties, Zenon
  <1>8. /\ x \in RecState /\ x.now <= clock
        /\ x.pc # "idle" => Len(x.todo) > (IF x.entered THEN 0 ELSE 1)
        /\ x.pc \in {"stamp", "append"} => x.entered
    <2>1. CASE Len(todo) = 1
      BY <2>1, <1>3, NoneType
    <2>2. CASE Len(todo) # 1
      <3> DEFINE pc == IF k = Errors THEN "stamp" ELSE "get"
                 y == [rec[r] EXCEPT !.pc = pc, !.todo = Tail(todo)]
      <3>1. x = y /\ pc \in {"stamp", "get"}
        BY <2>2, Zenon
      <3>2. Len(Tail(todo)) > 0
        <4>1. \A l \in Nat : l > 0 /\ l # 1 => l - 1 > 0
          OBVIOUS
        <4>2. Len(todo) - 1 > 0
          BY <4>1, <2>2, <1>4, <1>6, Zenon
        <4> QED
          BY <4>2, <1>7, Zenon
      <3> HIDE DEF pc
      <3>3. y \in RecState /\ y.pc = pc /\ y.todo = Tail(todo) /\ y.entered = rec[r].entered /\ y.now = rec[r].now
        BY <1>3, <1>7, <3>1, Zenon DEF RecState
      <3> HIDE DEF x, y
      <3> QED
        BY <3>1, <3>2, <3>3, <1>2, <1>4, Zenon
    <2> QED
      BY <2>1, <2>2, Zenon
  <1> HIDE DEF x
  <1>9. rec' \in [Recorders -> RecState] /\ \A q \in Recorders : rec'[q] = IF q = r THEN x ELSE rec[q]
    BY <1>5, <1>8, Zenon DEF TrackerInv, MemoryInv, MemoryType
  <1>10. ASSUME NEW q \in Recorders PROVE RecordOK(q)'
    <2>1. CASE q = r
      BY <1>5, <1>8, <1>9, <2>1, Zenon DEF RecordOK
    <2>2. CASE q # r
      <3>1. rec'[q] = rec[q] /\ clock' = clock /\ RecordOK(q)
        BY <1>5, <1>9, <2>2, Zenon DEF TrackerInv, MemoryInv
      <3> QED
        BY <3>1, Zenon DEF RecordOK
    <2> QED
      BY <2>1, <2>2, Zenon
  <1>11. series[k].events \in Seq(Nat) /\ series[k].total \in Nat /\ log[k] \in Seq(Nat)
    BY <1>3, <1>7, Zenon DEF SeriesState
  <1>12. PICK n \in Nat : Suffix(series[k].events, log[k], n) /\ \A i \in 1 .. n : clock - log[k][i] > Keep
    BY <1>7, Zenon DEF TrackerInv, MemoryInv, SeriesOK
  <1> DEFINE longer == Append(series[k].events, now)
             all == Append(log[k], now)
  <1>13. longer \in Seq(Nat) /\ all \in Seq(Nat) /\ \A i \in 1 .. Len(log[k]) : all[i] = log[k][i]
    BY <1>3, <1>11, AppendProperties
  <1>14. Suffix(longer, all, n)
    BY <1>3, <1>11, <1>12, AppendSuffix, Zenon
  <1> HIDE DEF longer, all
  <1>15. /\ Prune(longer, now) \in Seq(Nat)
         /\ \E m \in Nat : /\ Suffix(Prune(longer, now), all, m)
                           /\ \A i \in 1 .. m : i <= n \/ now - all[i] > Keep
    BY <1>3, <1>13, <1>14, PruneSuffix, Zenon
  <1>16. PICK m \in Nat : /\ Suffix(Prune(longer, now), all, m)
                          /\ \A i \in 1 .. m : i <= n \/ now - all[i] > Keep
    BY <1>15, Zenon
  <1>17. events = Prune(longer, now) /\ events \in Seq(Nat)
    BY <1>15, Zenon DEF longer
  <1>18. ASSUME NEW i \in 1 .. m
         PROVE  clock - all[i] > Keep
    <2>1. Keep \in Nat
      BY TrackerAssumption, Zenon
    <2>2. m <= Len(all) /\ Len(all) \in Nat
      BY <1>13, <1>16, LenProperties DEF Suffix
    <2>3. all[i] \in Nat
      <3>1. i \in 1 .. Len(all)
        BY <2>2
      <3> QED
        BY <3>1, <1>13, ElementOfSeq, Zenon
    <2>4. CASE i <= n
      <3>1. n <= Len(log[k]) /\ Len(log[k]) \in Nat
        BY <1>11, <1>12, LenProperties DEF Suffix
      <3>2. i \in 1 .. n /\ i \in 1 .. Len(log[k])
        BY <3>1, <2>4
      <3> QED
        BY <3>2, <1>12, <1>13, Zenon
    <2>5. CASE ~(i <= n)
      <3>1. now - all[i] > Keep
        BY <2>5, <1>16, Zenon
      <3> QED
        BY <3>1, <2>1, <2>3, <1>3, <1>4
    <2> QED
      BY <2>4, <2>5, Zenon
  <1> HIDE DEF events
  <1>19. /\ series' \in [Keys -> SeriesState] /\ log' \in [Keys -> Seq(Nat)]
         /\ series'[k].events = events /\ log'[k] = all
         /\ \A j \in Keys \ {k} : series'[j] = series[j] /\ log'[j] = log[j]
    <2> DEFINE y == [events |-> events, total |-> series[k].total + 1]
    <2>1. y \in SeriesState /\ y.events = events
      BY <1>11, <1>17 DEF SeriesState
    <2> HIDE DEF y
    <2>2. series' = [series EXCEPT ![k] = y]
      BY <1>5, Zenon DEF y
    <2> QED
      BY <2>1, <2>2, <1>3, <1>5, <1>7, <1>13, Zenon DEF all
  <1>20. ASSUME NEW j \in Keys PROVE SeriesOK(j)'
    <2>1. CASE j = k
      BY <2>1, <1>5, <1>16, <1>17, <1>18, <1>19, Zenon DEF SeriesOK
    <2>2. CASE j # k
      <3>1. series'[j] = series[j] /\ log'[j] = log[j] /\ clock' = clock /\ SeriesOK(j)
        BY <2>2, <1>5, <1>19, Zenon DEF TrackerInv, MemoryInv
      <3> QED
        BY <3>1, Zenon DEF SeriesOK
    <2> QED
      BY <2>1, <2>2, Zenon
  <1>21. MemoryInv'
    BY <1>3, <1>5, <1>9, <1>10, <1>19, <1>20, Zenon DEF MemoryInv, MemoryType
  <1>22. DiskInv'
    BY <1>5, DiskFrame, Zenon DEF TrackerInv
  <1> QED
    BY <1>21, <1>22, Zenon DEF TrackerInv

LEMMA TickInv ==
    ASSUME TrackerInv, Tick
    PROVE  TrackerInv'
  <1>1. clock \in Nat /\ clock' = clock + 1 /\ UNCHANGED <<known, series, log, rec>>
    BY Zenon DEF TrackerInv, MemoryInv, MemoryType, Tick, memVars
  <1>2. MemoryType'
    BY <1>1 DEF TrackerInv, MemoryInv, MemoryType
  <1>3. ASSUME NEW r \in Recorders PROVE RecordOK(r)'
    <2>1. RecordOK(r) /\ rec[r].now \in Nat
      BY Zenon DEF TrackerInv, MemoryInv, MemoryType, RecState
    <2> QED
      BY <1>1, <2>1 DEF RecordOK
  <1>4. ASSUME NEW k \in Keys PROVE SeriesOK(k)'
    <2>1. PICK n \in Nat : Suffix(series[k].events, log[k], n) /\ \A i \in 1 .. n : clock - log[k][i] > Keep
      BY Zenon DEF TrackerInv, MemoryInv, SeriesOK
    <2>2. log[k] \in Seq(Nat) /\ Keep \in Nat
      BY TrackerAssumption, Zenon DEF TrackerInv, MemoryInv, MemoryType
    <2>3. n <= Len(log[k]) /\ Len(log[k]) \in Nat
      BY <2>1, <2>2, LenProperties DEF Suffix
    <2>4. ASSUME NEW i \in 1 .. n PROVE clock' - log[k][i] > Keep
      <3>1. i \in 1 .. Len(log[k]) /\ clock - log[k][i] > Keep
        BY <2>1, <2>3
      <3>2. log[k][i] \in Nat
        BY <3>1, <2>2, ElementOfSeq, Zenon
      <3> QED
        <4>1. \A c, at, keep \in Nat : c - at > keep => (c + 1) - at > keep
          OBVIOUS
        <4>2. (clock + 1) - log[k][i] > Keep
          BY <4>1, <3>1, <3>2, <2>2, <1>1, Zenon
        <4> QED
          BY <4>2, <1>1, Zenon
    <2> QED
      BY <2>1, <2>4, <1>1, Zenon DEF SeriesOK
  <1>5. MemoryInv'
    BY <1>2, <1>3, <1>4, Zenon DEF MemoryInv
  <1>6. DiskInv'
    BY DiskFrame, Zenon DEF TrackerInv, Tick, diskVars
  <1> QED
    BY <1>5, <1>6, Zenon DEF TrackerInv

-----------------------------------------------------------------------------
(* Saving.                                                                  *)

FileType(fs, t, f) ==
    /\ fs \in [FileIds -> SavedState \cup {Blank, Mixed}]
    /\ t \in FileIds \cup {0} /\ f \in FileIds \cup {0} /\ (t # 0 => t # f)

\* A saver goes on to s, with its files in order when it is the only one.
SaverMove(p, s) ==
    /\ s \in SaveState /\ (s.pc # "write" => s.fd = 0)
    /\ save' = [save EXCEPT ![p] = s]
    /\ FileType(files', tmp', path')
    /\ overlap' \/ /\ \A q \in Savers \ {p} : ~Busy(q)
                   /\ s.pc = "write" => tmp' # 0 /\ s.fd = tmp' /\ files'[tmp'] = Blank
                   /\ s.pc = "rename" => tmp' # 0 /\ Whole(files'[tmp'])
                   /\ path' # 0 => Whole(files'[path'])

LEMMA SaverFrame ==
    ASSUME DiskInv, NEW p \in Savers, NEW s, SaverMove(p, s)
    PROVE  DiskInv'
  <1>1. save' \in [Savers -> SaveState] /\ \A q \in Savers : save'[q] = IF q = p THEN s ELSE save[q]
    BY Zenon DEF DiskInv, DiskType, SaverMove
  <1>2. DiskType'
    <2>1. ASSUME NEW q \in Savers, save'[q].pc # "write" PROVE save'[q].fd = 0
      BY <1>1, <2>1, Zenon DEF DiskInv, DiskType, SaverMove
    <2> QED
      BY <1>1, <2>1, Zenon DEF DiskType, SaverMove, FileType
  <1>3. CASE overlap'
    BY <1>2, <1>3, Zenon DEF DiskInv
  <1>4. CASE ~overlap'
    <2>1. /\ \A q \in Savers \ {p} : ~Busy(q)
          /\ s.pc = "write" => tmp' # 0 /\ s.fd = tmp' /\ files'[tmp'] = Blank
          /\ s.pc = "rename" => tmp' # 0 /\ Whole(files'[tmp'])
          /\ path' # 0 => Whole(files'[path'])
      BY <1>4, Zenon DEF SaverMove
    <2>2. \A q \in Savers \ {p} : save'[q] = NoSave
      BY <2>1, <1>1, Zenon DEF Busy
    <2>3. \A q1, q2 \in Savers : Busy(q1)' /\ Busy(q2)' => q1 = q2
      BY <2>2, Zenon DEF Busy
    <2>4. ASSUME NEW q \in Savers
          PROVE  /\ save'[q].pc = "write" => tmp' # 0 /\ save'[q].fd = tmp' /\ files'[tmp'] = Blank
                 /\ save'[q].pc = "rename" => tmp' # 0 /\ Whole(files'[tmp'])
      <3>1. CASE q = p
        BY <3>1, <1>1, <2>1, Zenon
      <3>2. CASE q # p
        BY <3>2, <2>2, NoneType, Zenon
      <3> QED
        BY <3>1, <3>2, Zenon
    <2>5. Whole(files[path])' = Whole(files'[path']) /\ Whole(files[tmp])' = Whole(files'[tmp'])
      BY Zenon DEF Whole, Blank, Mixed
    <2>6. DiskOK'
      BY <2>1, <2>3, <2>4, <2>5, Zenon DEF DiskOK
    <2> QED
      BY <1>2, <2>6, Zenon DEF DiskInv
  <1> QED
    BY <1>3, <1>4, Zenon

LEMMA FilesTyped ==
    ASSUME DiskInv
    PROVE  FileType(files, tmp, path)
  BY Zenon DEF DiskInv, DiskType, FileType

\* As long as no two saves overlapped, a saver under way is the only one.
LEMMA Alone ==
    ASSUME DiskInv, ~overlap, NEW p \in Savers, save[p].pc # "idle"
    PROVE  \A q \in Savers \ {p} : ~Busy(q)
  BY NoneType, Zenon DEF DiskInv, DiskOK, Busy

LEMMA ResetBeginsInv ==
    ASSUME TrackerInv, ResetBegins
    PROVE  TrackerInv'
  <1> DEFINE s == [NoSave EXCEPT !.pc = "clear", !.todo = known]
  <1>1. "reset" \in Savers /\ known \in SUBSET Keys /\ FileType(files, tmp, path)
    BY TrackerAssumption, FilesTyped, Zenon DEF TrackerInv, MemoryInv, MemoryType
  <1>2. s \in SaveState /\ s.pc = "clear" /\ s.fd = 0
    BY <1>1, NoneType, Zenon DEF SaveState
  <1>3. /\ save' = [save EXCEPT !["reset"] = s] /\ overlap' = Overlapped("reset")
        /\ UNCHANGED <<files, tmp, path, clock, known, series, log, rec>>
    BY Zenon DEF ResetBegins, diskVars, memVars
  <1> HIDE DEF s
  <1>4. overlap' \/ /\ \A q \in Savers \ {"reset"} : ~Busy(q)
                    /\ path # 0 => Whole(files[path])
    BY <1>3, Zenon DEF Overlapped, TrackerInv, DiskInv, DiskOK
  <1>5. SaverMove("reset", s)
    BY <1>1, <1>2, <1>3, <1>4, Zenon DEF SaverMove
  <1>6. DiskInv'
    BY <1>1, <1>5, SaverFrame, Zenon DEF TrackerInv
  <1>7. MemoryInv'
    BY <1>3, MemoryFrame, Zenon DEF TrackerInv
  <1> QED
    BY <1>6, <1>7, Zenon DEF TrackerInv

LEMMA SaveKeysInv ==
    ASSUME TrackerInv, NEW p \in Savers, SaveKeys(p)
    PROVE  TrackerInv'
  <1> DEFINE s == [save[p] EXCEPT !.pc = "read", !.todo = known]
  <1>1. known \in SUBSET Keys /\ FileType(files, tmp, path) /\ save[p] \in SaveState
    BY FilesTyped, Zenon DEF TrackerInv, MemoryInv, MemoryType, DiskInv, DiskType
  <1>2. save[p].pc \in {"idle", "keys"}
    BY NoneType, Zenon DEF SaveKeys, Busy
  <1>3. save[p].fd = 0
    BY <1>2, Zenon DEF TrackerInv, DiskInv, DiskType
  <1>4. s \in SaveState /\ s.pc = "read" /\ s.fd = 0
    BY <1>1, <1>3, Zenon DEF SaveState
  <1>5. /\ save' = [save EXCEPT ![p] = s] /\ overlap' = Overlapped(p)
        /\ UNCHANGED <<files, tmp, path, clock, known, series, log, rec>>
    BY Zenon DEF SaveKeys, diskVars, memVars, boundVars
  <1> HIDE DEF s
  <1>6. overlap' \/ /\ \A q \in Savers \ {p} : ~Busy(q)
                    /\ path # 0 => Whole(files[path])
    BY <1>5, Zenon DEF Overlapped, TrackerInv, DiskInv, DiskOK
  <1>7. SaverMove(p, s)
    BY <1>1, <1>4, <1>5, <1>6, Zenon DEF SaverMove
  <1>8. DiskInv'
    BY <1>7, SaverFrame, Zenon DEF TrackerInv
  <1>9. MemoryInv'
    BY <1>5, MemoryFrame, Zenon DEF TrackerInv
  <1> QED
    BY <1>8, <1>9, Zenon DEF TrackerInv

\* A saver that has visited a series has fewer to visit, and no file.
LEMMA VisitedType ==
    ASSUME NEW s \in SaveState, NEW k, NEW then \in {"keys", "open"}
    PROVE  /\ Visited(s, k, then) \in SaveState /\ Visited(s, k, then).pc \in {s.pc, then}
           /\ Visited(s, k, then).fd = s.fd /\ Visited(s, k, then).state = s.state
  <1> DEFINE pc == IF s.todo = {k} THEN then ELSE s.pc
  <1>1. pc \in {s.pc, then} /\ s.todo \ {k} \in SUBSET Keys
    BY Zenon DEF SaveState
  <1>2. Visited(s, k, then) = [s EXCEPT !.todo = s.todo \ {k}, !.pc = pc]
    BY Zenon DEF Visited, SaveState
  <1> HIDE DEF pc
  <1> QED
    BY <1>1, <1>2, Zenon DEF SaveState

LEMMA ResetInv ==
    ASSUME TrackerInv, Reset
    PROVE  TrackerInv'
  <1>1. PICK k \in NextToClear(save["reset"].todo) :
            /\ save["reset"].pc = "clear"
            /\ series' = [series EXCEPT ![k] = Empty]
            /\ log' = [log EXCEPT ![k] = <<>>]
            /\ save' = [save EXCEPT !["reset"] = Visited(save["reset"], k, "keys")]
            /\ UNCHANGED <<known, diskVars, boundVars, rec, overlap, fatal>>
    BY Zenon DEF Reset
  <1> DEFINE s == Visited(save["reset"], k, "keys")
  <1>2. "reset" \in Savers
    BY TrackerAssumption, Zenon
  <1>3. save["reset"] \in SaveState /\ save["reset"].fd = 0
    BY <1>1, <1>2, Zenon DEF TrackerInv, DiskInv, DiskType
  <1>4. k \in Keys
    BY <1>1, <1>3, Zenon DEF NextToClear, SaveState
  <1>5. s \in SaveState /\ s.pc \in {"clear", "keys"} /\ s.fd = 0
    BY <1>1, <1>3, VisitedType, Zenon
  <1>6. /\ save' = [save EXCEPT !["reset"] = s] /\ overlap' = overlap
        /\ UNCHANGED <<files, tmp, path, clock, known, rec>>
    BY <1>1, Zenon DEF diskVars, boundVars
  <1> HIDE DEF s
  <1>7. FileType(files, tmp, path)
    BY FilesTyped, Zenon DEF TrackerInv
  <1>8. overlap \/ /\ \A q \in Savers \ {"reset"} : ~Busy(q)
                   /\ path # 0 => Whole(files[path])
    BY <1>1, <1>2, Alone, Zenon DEF TrackerInv, DiskInv, DiskOK
  <1>9. SaverMove("reset", s)
    BY <1>5, <1>6, <1>7, <1>8, Zenon DEF SaverMove
  <1>10. DiskInv'
    BY <1>2, <1>9, SaverFrame, Zenon DEF TrackerInv
  <1>11. /\ series' \in [Keys -> SeriesState] /\ log' \in [Keys -> Seq(Nat)]
         /\ series'[k] = Empty /\ log'[k] = <<>>
         /\ \A j \in Keys \ {k} : series'[j] = series[j] /\ log'[j] = log[j]
    BY <1>1, <1>4, EmptyType, EmptySeq, Zenon DEF TrackerInv, MemoryInv, MemoryType
  <1>12. MemoryType'
    BY <1>6, <1>11, Zenon DEF TrackerInv, MemoryInv, MemoryType
  <1>13. ASSUME NEW r \in Recorders PROVE RecordOK(r)'
    BY <1>6, Zenon DEF TrackerInv, MemoryInv, RecordOK
  <1>14. ASSUME NEW j \in Keys PROVE SeriesOK(j)'
    <2>1. CASE j = k
      <3>1. Suffix(<<>>, <<>>, 0)
        BY EmptySeq DEF Suffix
      <3>2. series'[j].events = <<>> /\ log'[j] = <<>>
        BY <2>1, <1>11 DEF Empty
      <3>3. 0 \in Nat /\ 1 .. 0 = {}
        OBVIOUS
      <3> QED
        BY <3>1, <3>2, <3>3, Zenon DEF SeriesOK
    <2>2. CASE j # k
      <3>1. series'[j] = series[j] /\ log'[j] = log[j] /\ clock' = clock /\ SeriesOK(j)
        BY <2>2, <1>6, <1>11, Zenon DEF TrackerInv, MemoryInv
      <3> QED
        BY <3>1, Zenon DEF SeriesOK
    <2> QED
      BY <2>1, <2>2, Zenon
  <1> QED
    BY <1>10, <1>12, <1>13, <1>14, Zenon DEF TrackerInv, MemoryInv

LEMMA SaveReadInv ==
    ASSUME TrackerInv, NEW p \in Savers, SaveRead(p)
    PROVE  TrackerInv'
  <1>1. PICK k \in NextToSave(save[p].todo) :
            /\ save[p].pc = "read"
            /\ save' = [save EXCEPT ![p] = [Visited(save[p], k, "open") EXCEPT
                                               !.state = Copied(save[p].state, k)]]
            /\ UNCHANGED <<memVars, diskVars, boundVars, rec, overlap, fatal>>
    BY Zenon DEF SaveRead
  <1> DEFINE v == Visited(save[p], k, "open")
             s == [v EXCEPT !.state = Copied(save[p].state, k)]
  <1>2. save[p] \in SaveState /\ save[p].fd = 0 /\ series \in [Keys -> SeriesState]
    BY <1>1, Zenon DEF TrackerInv, MemoryInv, MemoryType, DiskInv, DiskType
  <1>3. k \in Keys
    BY <1>1, <1>2, Zenon DEF NextToSave, SaveState
  <1>4. v \in SaveState /\ v.pc \in {"read", "open"} /\ v.fd = 0
    BY <1>1, <1>2, VisitedType, Zenon
  <1>5. save' = [save EXCEPT ![p] = s]
    BY <1>1, Zenon
  <1> HIDE DEF v
  <1>6. Copied(save[p].state, k) \in SavedState
    BY <1>2, <1>3, <1>4, CopiedSaved, Zenon DEF SaveState
  <1>7. s \in SaveState /\ s.pc \in {"read", "open"} /\ s.fd = 0
    BY <1>4, <1>6, Zenon DEF SaveState
  <1> HIDE DEF s
  <1>8. UNCHANGED <<files, tmp, path, overlap, clock, known, series, log, rec>>
    BY <1>1, Zenon DEF diskVars, memVars, boundVars
  <1>9. FileType(files, tmp, path)
    BY FilesTyped, Zenon DEF TrackerInv
  <1>10. overlap \/ /\ \A q \in Savers \ {p} : ~Busy(q)
                    /\ path # 0 => Whole(files[path])
    BY <1>1, Alone, Zenon DEF TrackerInv, DiskInv, DiskOK
  <1>11. SaverMove(p, s)
    BY <1>5, <1>7, <1>8, <1>9, <1>10, Zenon DEF SaverMove
  <1>12. DiskInv'
    BY <1>11, SaverFrame, Zenon DEF TrackerInv
  <1>13. MemoryInv'
    BY <1>8, MemoryFrame, Zenon DEF TrackerInv
  <1> QED
    BY <1>12, <1>13, Zenon DEF TrackerInv

LEMMA OpenTmpInv ==
    ASSUME TrackerInv, NEW p \in Savers, OpenTmp(p)
    PROVE  TrackerInv'
  <1> DEFINE f == IF tmp = 0 THEN FreeFile ELSE tmp
             s == [save[p] EXCEPT !.pc = "write", !.fd = f]
  <1>1. save[p].pc = "open" /\ save[p] \in SaveState /\ save[p].fd = 0 /\ DiskType /\ FileType(files, tmp, path)
    BY FilesTyped, Zenon DEF OpenTmp, TrackerInv, DiskInv, DiskType
  <1>2. f \in FileIds /\ f # path /\ f # 0
    <2>1. 0 \notin FileIds
      BY DEF FileIds
    <2>2. CASE tmp = 0
      BY <2>1, <2>2, <1>1, FreeFileExists, Zenon
    <2>3. CASE tmp # 0
      BY <2>1, <2>3, <1>1, Zenon DEF DiskType
    <2> QED
      BY <2>2, <2>3, Zenon
  <1>3. /\ save' = [save EXCEPT ![p] = s] /\ tmp' = f /\ files' = [files EXCEPT ![f] = Blank]
        /\ UNCHANGED <<path, overlap, clock, known, series, log, rec>>
    BY Zenon DEF OpenTmp, memVars, boundVars
  <1> HIDE DEF f
  <1>4. s \in SaveState /\ s.pc = "write" /\ s.fd = f
    BY <1>1, <1>2, Zenon DEF SaveState
  <1> HIDE DEF s
  <1>5. FileType(files', tmp', path') /\ files'[f] = Blank /\ files'[path] = files[path]
    BY <1>1, <1>2, <1>3 DEF FileType
  <1>6. overlap \/ /\ \A q \in Savers \ {p} : ~Busy(q)
                   /\ path # 0 => Whole(files[path])
    BY <1>1, Alone, Zenon DEF TrackerInv, DiskInv, DiskOK
  <1>7. SaverMove(p, s)
    BY <1>2, <1>3, <1>4, <1>5, <1>6, Zenon DEF SaverMove
  <1>8. DiskInv'
    BY <1>7, SaverFrame, Zenon DEF TrackerInv
  <1>9. MemoryInv'
    BY <1>3, MemoryFrame, Zenon DEF TrackerInv
  <1> QED
    BY <1>8, <1>9, Zenon DEF TrackerInv

LEMMA WriteTmpInv ==
    ASSUME TrackerInv, NEW p \in Savers, WriteTmp(p)
    PROVE  TrackerInv'
  <1> DEFINE s == [save[p] EXCEPT !.pc = "rename", !.fd = 0]
  <1>1. save[p].pc = "write" /\ save[p] \in SaveState /\ FileType(files, tmp, path)
    BY FilesTyped, Zenon DEF WriteTmp, TrackerInv, DiskInv, DiskType
  <1>2. PICK content \in {save[p].state} \cup (IF files[save[p].fd] \in {Blank, save[p].state} THEN {} ELSE {Mixed}) :
            files' = [files EXCEPT ![save[p].fd] = content]
    BY Zenon DEF WriteTmp
  <1>3. save[p].state \in SavedState
    BY <1>1, Zenon DEF SaveState
  <1>4. content \in SavedState \cup {Blank, Mixed}
    BY <1>2, <1>3, Zenon
  <1>5. s \in SaveState /\ s.pc = "rename" /\ s.fd = 0
    BY <1>1, Zenon DEF SaveState
  <1>6. save' = [save EXCEPT ![p] = s] /\ UNCHANGED <<tmp, path, overlap, clock, known, series, log, rec>>
    BY Zenon DEF WriteTmp, memVars, boundVars
  <1> HIDE DEF s
  <1>7. FileType(files', tmp', path')
    BY <1>1, <1>2, <1>4, <1>6, Zenon DEF FileType
  <1>8. ASSUME ~overlap
        PROVE  /\ \A q \in Savers \ {p} : ~Busy(q)
               /\ tmp # 0 /\ Whole(files'[tmp])
               /\ path # 0 => Whole(files'[path])
    <2>1. tmp # 0 /\ save[p].fd = tmp /\ files[tmp] = Blank /\ (path # 0 => Whole(files[path])) /\ tmp # path
      BY <1>1, <1>8, Zenon DEF TrackerInv, DiskInv, DiskOK, DiskType
    <2>2. content = save[p].state
      BY <2>1, <1>2, Zenon
    <2>3. files'[tmp] = content /\ files'[path] = files[path]
      BY <2>1, <1>1, <1>2 DEF FileType
    <2>4. Whole(content)
      BY <2>2, <1>3, SavedWhole, Zenon
    <2>5. \A q \in Savers \ {p} : ~Busy(q)
      BY <1>1, <1>8, Alone, Zenon DEF TrackerInv
    <2> QED
      BY <2>1, <2>3, <2>4, <2>5, Zenon
  <1>9. SaverMove(p, s)
    BY <1>5, <1>6, <1>7, <1>8, Zenon DEF SaverMove
  <1>10. DiskInv'
    BY <1>9, SaverFrame, Zenon DEF TrackerInv
  <1>11. MemoryInv'
    BY <1>6, MemoryFrame, Zenon DEF TrackerInv
  <1> QED
    BY <1>10, <1>11, Zenon DEF TrackerInv

LEMMA RenameInv ==
    ASSUME TrackerInv, NEW p \in Savers, Rename(p)
    PROVE  TrackerInv'
  <1>1. save[p].pc = "rename" /\ FileType(files, tmp, path)
    BY FilesTyped, Zenon DEF Rename, TrackerInv
  <1>2. save' = [save EXCEPT ![p] = NoSave] /\ UNCHANGED <<overlap, clock, known, series, log, rec>>
    BY Zenon DEF Rename, memVars, boundVars
  <1>3. ASSUME ~overlap
        PROVE  /\ \A q \in Savers \ {p} : ~Busy(q)
               /\ tmp # 0 /\ Whole(files[tmp])
    BY <1>1, <1>3, Alone, Zenon DEF TrackerInv, DiskInv, DiskOK
  <1>4. CASE tmp = 0
    <2>1. UNCHANGED <<files, tmp, path>>
      BY <1>4, Zenon DEF Rename, diskVars
    <2>2. SaverMove(p, NoSave)
      BY <2>1, <1>1, <1>2, <1>3, <1>4, NoneType, Zenon DEF SaverMove
    <2> QED
      BY <2>2, <1>2, SaverFrame, MemoryFrame, Zenon DEF TrackerInv
  <1>5. CASE tmp # 0
    <2>1. /\ path' = tmp /\ tmp' = 0
          /\ files' = [f \in DOMAIN files |-> IF f \in {tmp} \cup {save[q].fd : q \in Savers} THEN files[f] ELSE Blank]
      BY <1>5, Zenon DEF Rename
    <2>2. FileType(files', tmp', path') /\ files'[tmp] = files[tmp]
      BY <2>1, <1>1, <1>5, Zenon DEF FileType
    <2>3. SaverMove(p, NoSave)
      BY <2>1, <2>2, <1>2, <1>3, NoneType, Zenon DEF SaverMove
    <2> QED
      BY <2>3, <1>2, SaverFrame, MemoryFrame, Zenon DEF TrackerInv
  <1> QED
    BY <1>4, <1>5, Zenon

LEMMA SaveFailsInv ==
    ASSUME TrackerInv, NEW p \in Savers, SaveFails(p)
    PROVE  TrackerInv'
  <1>1. save[p].pc \in {"write", "rename"} /\ FileType(files, tmp, path)
    BY FilesTyped, Zenon DEF SaveFails, TrackerInv
  <1>2. /\ save' = [save EXCEPT ![p] = NoSave] /\ tmp' \in {tmp, 0}
        /\ UNCHANGED <<files, path, overlap, clock, known, series, log, rec>>
    BY Zenon DEF SaveFails, memVars
  <1>3. ASSUME ~overlap
        PROVE  /\ \A q \in Savers \ {p} : ~Busy(q)
               /\ path # 0 => Whole(files[path])
    BY <1>1, <1>3, Alone, Zenon DEF TrackerInv, DiskInv, DiskOK
  <1>4. FileType(files', tmp', path')
    BY <1>1, <1>2, Zenon DEF FileType
  <1>5. SaverMove(p, NoSave)
    BY <1>2, <1>3, <1>4, NoneType, Zenon DEF SaverMove
  <1> QED
    BY <1>2, <1>5, SaverFrame, MemoryFrame, Zenon DEF TrackerInv

\* After a restart the log is what was loaded, and nobody is saving.
LEMMA RestartedInv ==
    ASSUME TrackerInv, Restarted
    PROVE  TrackerInv'
  <1>1. /\ known' = {Errors} \cup DOMAIN Disk
        /\ series' = [k \in Keys |-> Load(k)] /\ log' = [k \in Keys |-> Load(k).events]
        /\ rec' = [r \in Recorders |-> NoRec] /\ save' = [p \in Savers |-> NoSave]
        /\ UNCHANGED <<clock, files, tmp, path, overlap>>
    BY Zenon DEF Restarted, diskVars
  <1>2. DiskType /\ clock \in Nat
    BY Zenon DEF TrackerInv, DiskInv, MemoryInv, MemoryType
  <1>3. \A k \in Keys : Load(k) \in SeriesState /\ Load(k).events \in Seq(Nat)
    BY <1>2, LoadType, Zenon DEF SeriesState
  <1>4. known' \in SUBSET Keys
    BY <1>1, <1>2, DiskSaved, TrackerAssumption, Zenon DEF SavedState
  <1>5. series' \in [Keys -> SeriesState] /\ log' \in [Keys -> Seq(Nat)]
    BY <1>1, <1>3, Zenon
  <1>6. MemoryType'
    BY <1>1, <1>2, <1>4, <1>5, NoneType, Zenon DEF MemoryType
  <1>7. ASSUME NEW r \in Recorders PROVE RecordOK(r)'
    BY <1>1, <1>2, NoneType DEF RecordOK
  <1>8. ASSUME NEW k \in Keys PROVE SeriesOK(k)'
    <2> DEFINE ev == Load(k).events
    <2>1. series'[k].events = ev /\ log'[k] = ev /\ ev \in Seq(Nat)
      BY <1>1, <1>3, Zenon
    <2> HIDE DEF ev
    <2>2. Len(ev) \in Nat
      BY <2>1, LenProperties, Zenon
    <2>3. Suffix(ev, ev, 0)
      BY <2>2 DEF Suffix
    <2>4. 0 \in Nat /\ 1 .. 0 = {}
      OBVIOUS
    <2> QED
      BY <2>1, <2>3, <2>4, Zenon DEF SeriesOK
  <1>9. MemoryInv'
    BY <1>6, <1>7, <1>8, Zenon DEF MemoryInv
  <1>10. DiskType'
    BY <1>1, <1>2, NoneType, Zenon DEF DiskType
  <1>11. ASSUME ~overlap PROVE DiskOK'
    <2>1. path' # 0 => Whole(files'[path'])
      BY <1>1, <1>11, Zenon DEF TrackerInv, DiskInv, DiskOK
    <2> QED
      BY <2>1, <1>1, NoneType, Zenon DEF DiskOK, Busy, Whole
  <1> QED
    BY <1>1, <1>9, <1>10, <1>11, Zenon DEF TrackerInv, DiskInv

-----------------------------------------------------------------------------
(* The theorems.                                                            *)

LEMMA TrackerStep ==
    ASSUME TrackerInv, [TrackerNext]_trackerVars
    PROVE  TrackerInv'
  <1>1. CASE UNCHANGED trackerVars
    <2>1. UNCHANGED <<clock, known, series, log, rec, save, files, tmp, path, overlap>>
      BY <1>1, Zenon DEF trackerVars, memVars, diskVars, boundVars
    <2> QED
      BY <2>1, MemoryFrame, DiskFrame, Zenon DEF TrackerInv
  <1>2. ASSUME NEW r \in Recorders, RecorderStep(r) PROVE TrackerInv'
    BY <1>2, StampInv, GetInv, InsertInv, RecordInv, Zenon DEF RecorderStep
  <1>3. ASSUME NEW p \in Savers, SaverStep(p) \/ SaveFails(p) PROVE TrackerInv'
    BY <1>3, SaveKeysInv, SaveReadInv, OpenTmpInv, WriteTmpInv, RenameInv, SaveFailsInv, Zenon DEF SaverStep
  <1>4. CASE Kill \/ ConcurrentMapAccess
    BY <1>4, RestartedInv, Zenon DEF Kill, ConcurrentMapAccess
  <1> QED
    BY <1>1, <1>2, <1>3, <1>4, ArriveInv, ResetBeginsInv, ResetInv, TickInv, Zenon DEF TrackerNext

\* The invariant on which the other theorems rest.
THEOREM TrackerInvariant == TrackerSpec => []TrackerInv
  <1>1. TrackerInit => TrackerInv
    BY TrackerInitInv, Zenon
  <1>2. TrackerInv /\ [TrackerNext]_trackerVars => TrackerInv'
    BY TrackerStep, Zenon
  <1> QED
    BY <1>1, <1>2, PTL DEF TrackerSpec

\* What GET /stats reports for the last hour and day is exact for a series
\* recorded in the order of its times, whatever is recorded, pruned, reset,
\* saved and loaded, for any windows shorter than what prune keeps
\* (stats.go:459, 472).
THEOREM WindowsAreExact == TrackerSpec => []WindowsExact
  <1>1. TrackerInv => WindowsExact
    <2> SUFFICES ASSUME TrackerInv, NEW k \in Keys, Sorted(log[k])
                 PROVE  /\ Snapshot(k).hour = Within(k, Hour)
                        /\ Snapshot(k).day = Within(k, Day)
      BY Zenon DEF WindowsExact
    <2>1. series[k].events \in Seq(Nat) /\ log[k] \in Seq(Nat) /\ clock \in Nat
      BY Zenon DEF TrackerInv, MemoryInv, MemoryType, SeriesState
    <2>2. PICK n \in Nat : Suffix(series[k].events, log[k], n) /\ \A i \in 1 .. n : clock - log[k][i] > Keep
      BY Zenon DEF TrackerInv, MemoryInv, SeriesOK
    <2>3. Hour \in Nat /\ Day \in Nat /\ Hour <= Keep /\ Day <= Keep
      BY TrackerAssumption
    <2>4. ASSUME NEW window \in Nat, window <= Keep
          PROVE  WindowSums(series[k].events, window) = Within(k, window)
      BY <2>1, <2>2, <2>4, WindowExact DEF Within
    <2> QED
      BY <2>3, <2>4, Zenon DEF Snapshot
  <1> QED
    BY <1>1, TrackerInvariant, PTL

\* The file that a start would load is a complete save at every moment, as
\* long as the ticker's and the reset's saves did not overlap: they share one
\* temporary name (stats.go:1079).
THEOREM FileStaysWhole == TrackerSpec => []FileWhole
  <1>1. TrackerInv => FileWhole
    BY Zenon DEF TrackerInv, DiskInv, DiskOK, FileWhole
  <1> QED
    BY <1>1, TrackerInvariant, PTL
==============================================================================
