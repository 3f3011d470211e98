--------------------------- MODULE MonitorsProofs ---------------------------
(***************************************************************************)
(* Proofs about the monitors: what the agent shows as active sessions and  *)
(* connections is what there is, up to what nobody could see or the caps   *)
(* of the histories have pushed out, and nothing new enters a history      *)
(* unnoticed.                                                              *)
(***************************************************************************)
EXTENDS Monitors, TLAPS

-----------------------------------------------------------------------------
(* Histories as sequences.                                                  *)

IsHistory(h) == h \in Seq({h[i] : i \in DOMAIN h})

LEMMA HistoryFacts ==
    ASSUME NEW h, IsHistory(h)
    PROVE  Len(h) \in Nat /\ DOMAIN h = 1 .. Len(h)
BY DEF IsHistory

LEMMA EmptyHistory == IsHistory(<<>>) /\ Len(<<>>) = 0 /\ DOMAIN <<>> = {}
BY DEF IsHistory

LEMMA TypedHistory ==
    ASSUME NEW E, NEW h \in Seq(E)
    PROVE  IsHistory(h)
BY DEF IsHistory

\* What appending one list of events to another gives.
LEMMA Joined ==
    ASSUME NEW h, NEW g, IsHistory(h), IsHistory(g)
    PROVE  /\ IsHistory(h \o g) /\ Len(h \o g) = Len(h) + Len(g)
           /\ \A i \in 1 .. Len(h) : (h \o g)[i] = h[i]
           /\ \A i \in 1 .. Len(g) : (h \o g)[Len(h) + i] = g[i]
<1> DEFINE E == {h[i] : i \in DOMAIN h} \cup {g[i] : i \in DOMAIN g}
<1>1. h \in Seq(E) /\ g \in Seq(E)
  BY DEF IsHistory
<1> HIDE DEF E
<1>2. h \o g \in Seq(E)
  BY <1>1
<1>3. IsHistory(h \o g)
  BY <1>2, TypedHistory, Zenon
<1> QED BY <1>1, <1>3

\* Every entry of a joined history comes from one of the two.
LEMMA JoinedEntries ==
    ASSUME NEW h, NEW g, IsHistory(h), IsHistory(g), NEW i \in DOMAIN (h \o g)
    PROVE  \/ i \in DOMAIN h /\ (h \o g)[i] = h[i]
           \/ i - Len(h) \in DOMAIN g /\ (h \o g)[i] = g[i - Len(h)]
<1>1. i \in 1 .. Len(h) + Len(g) /\ DOMAIN h = 1 .. Len(h) /\ DOMAIN g = 1 .. Len(g)
      /\ Len(h) \in Nat /\ Len(g) \in Nat
  BY Joined, HistoryFacts
<1>2. CASE i <= Len(h)
  BY <1>1, <1>2, Joined
<1>3. CASE ~(i <= Len(h))
  <2>1. i - Len(h) \in 1 .. Len(g) /\ Len(h) + (i - Len(h)) = i
    BY <1>1, <1>3
  <2> QED BY <2>1, <1>1, Joined
<1> QED BY <1>2, <1>3

\* k holds the entries of h from the d-th on: all, or the newest n.
SuffixOf(k, h, n, d) ==
    /\ Len(h) = Len(k) + d /\ (d = 0 \/ d = Len(h) - n)
    /\ \A i \in 1 .. Len(k) : k[i] = h[i + d]

LEMMA FromPlace ==
    ASSUME NEW E, NEW h \in Seq(E), NEW d \in Nat, d <= Len(h)
    PROVE  /\ SubSeq(h, d + 1, Len(h)) \in Seq(E)
           /\ Len(h) = Len(SubSeq(h, d + 1, Len(h))) + d
           /\ \A i \in 1 .. Len(SubSeq(h, d + 1, Len(h))) : SubSeq(h, d + 1, Len(h))[i] = h[i + d]
<1>1. SubSeq(h, d + 1, Len(h)) \in Seq(E)
  OBVIOUS
<1>2. Len(h) = Len(SubSeq(h, d + 1, Len(h))) + d
  OBVIOUS
<1>3. \A i \in 1 .. Len(SubSeq(h, d + 1, Len(h))) : SubSeq(h, d + 1, Len(h))[i] = h[i + d]
  OBVIOUS
<1> QED BY <1>1, <1>2, <1>3, Zenon

LEMMA Suffix ==
    ASSUME NEW h, IsHistory(h), NEW n \in Nat,
           NEW k, k = SubSeq(h, IF Len(h) > n THEN Len(h) - n + 1 ELSE 1, Len(h))
    PROVE  /\ IsHistory(k)
           /\ \E d \in Nat : SuffixOf(k, h, n, d)
<1> DEFINE E == {h[i] : i \in DOMAIN h}
<1>1. h \in Seq(E) /\ Len(h) \in Nat
  BY DEF IsHistory
<1> HIDE DEF E
<1>2. PICK d \in Nat : /\ k = SubSeq(h, d + 1, Len(h)) /\ d <= Len(h) /\ (d = 0 \/ d = Len(h) - n)
  <2>1. CASE Len(h) > n
    <3>1. Len(h) - n \in Nat /\ Len(h) - n <= Len(h) /\ k = SubSeq(h, (Len(h) - n) + 1, Len(h))
      BY <1>1, <2>1
    <3> QED BY <3>1, Zenon
  <2>2. CASE ~(Len(h) > n)
    BY <1>1, <2>2
  <2> QED BY <2>1, <2>2, Zenon
<1>3. k \in Seq(E) /\ Len(h) = Len(k) + d /\ \A i \in 1 .. Len(k) : k[i] = h[i + d]
  <2>1. d <= Len(h) /\ k = SubSeq(h, d + 1, Len(h))
    BY <1>2, Zenon
  <2>2. /\ SubSeq(h, d + 1, Len(h)) \in Seq(E)
        /\ Len(h) = Len(SubSeq(h, d + 1, Len(h))) + d
        /\ \A i \in 1 .. Len(SubSeq(h, d + 1, Len(h))) : SubSeq(h, d + 1, Len(h))[i] = h[i + d]
    BY <1>1, <2>1, FromPlace, Zenon
  <2> QED BY <2>1, <2>2, Zenon
<1>4. SuffixOf(k, h, n, d)
  BY <1>2, <1>3, Zenon DEF SuffixOf
<1> QED BY <1>3, <1>4, TypedHistory, Zenon

\* The lists of a set.
LEMMA ListingFacts ==
    ASSUME NEW S, NEW q \in Listings(S)
    PROVE  /\ IsHistory(q)
           /\ \A i \in DOMAIN q : q[i] \in S
           /\ \A x \in S : \E i \in DOMAIN q : q[i] = x
<1>1. PICK n \in 0 .. Cardinality(S) : q \in [1 .. n -> S]
  BY DEF Listings
<1>2. n \in Nat
  OBVIOUS
<1>3. q \in Seq(S)
  BY <1>1, <1>2
<1>4. \A x \in S : \E i \in DOMAIN q : q[i] = x
  BY DEF Listings
<1> QED BY <1>1, <1>3, <1>4, TypedHistory

-----------------------------------------------------------------------------
(* Active sessions of a history.                                            *)

\* Appending events: what they leave open, and what was open and is not
\* closed by them.
LEMMA SessionsJoined ==
    ASSUME NEW h, NEW g, IsHistory(h), IsHistory(g), NEW s
    PROVE  s \in ActiveSessions(h \o g) <=>
             \/ s \in ActiveSessions(g)
             \/ s \in ActiveSessions(h) /\ \A j \in DOMAIN g : g[j].sid = s => Opens(g[j])
<1> SUFFICES ASSUME s \in Sid
             PROVE  s \in ActiveSessions(h \o g) <=>
                      \/ s \in ActiveSessions(g)
                      \/ s \in ActiveSessions(h) /\ \A j \in DOMAIN g : g[j].sid = s => Opens(g[j])
  BY Zenon DEF ActiveSessions
<1> DEFINE f == h \o g
<1>1. /\ Len(h) \in Nat /\ Len(g) \in Nat /\ Len(f) = Len(h) + Len(g)
      /\ DOMAIN h = 1 .. Len(h) /\ DOMAIN g = 1 .. Len(g) /\ DOMAIN f = 1 .. Len(f)
  BY Joined, HistoryFacts
<1>2. \A i \in 1 .. Len(h) : f[i] = h[i]
  BY Joined
<1>3. \A i \in 1 .. Len(g) : f[Len(h) + i] = g[i]
  BY Joined
<1> HIDE DEF f
<1>4. ASSUME s \in ActiveSessions(f)
      PROVE  \/ s \in ActiveSessions(g)
             \/ s \in ActiveSessions(h) /\ \A j \in DOMAIN g : g[j].sid = s => Opens(g[j])
  <2>1. PICK i \in DOMAIN f : /\ Opens(f[i]) /\ f[i].sid = s
                              /\ \A j \in i + 1 .. Len(f) : f[j].sid = s => Opens(f[j])
    BY <1>4 DEF ActiveSessions
  <2>2. CASE i <= Len(h)
    <3>1. i \in DOMAIN h /\ f[i] = h[i]
      BY <2>1, <2>2, <1>1, <1>2
    <3>2. ASSUME NEW j \in i + 1 .. Len(h), h[j].sid = s PROVE Opens(h[j])
      <4>1. j \in i + 1 .. Len(f) /\ j \in 1 .. Len(h)
        BY <3>1, <1>1
      <4> QED BY <4>1, <3>2, <2>1, <1>2
    <3>3. ASSUME NEW j \in DOMAIN g, g[j].sid = s PROVE Opens(g[j])
      <4>1. Len(h) + j \in i + 1 .. Len(f) /\ j \in 1 .. Len(g)
        BY <2>2, <2>1, <1>1
      <4> QED BY <4>1, <3>3, <2>1, <1>3
    <3>4. s \in ActiveSessions(h)
      BY <3>1, <3>2, <2>1 DEF ActiveSessions
    <3> QED BY <3>3, <3>4
  <2>3. CASE ~(i <= Len(h))
    <3>1. PICK k \in DOMAIN g : i = Len(h) + k
      <4>1. i - Len(h) \in 1 .. Len(g) /\ i = Len(h) + (i - Len(h))
        BY <2>1, <2>3, <1>1
      <4> QED BY <4>1, <1>1
    <3>2. f[i] = g[k]
      BY <3>1, <1>1, <1>3
    <3>3. ASSUME NEW j \in k + 1 .. Len(g), g[j].sid = s PROVE Opens(g[j])
      <4>1. Len(h) + j \in i + 1 .. Len(f) /\ j \in 1 .. Len(g)
        BY <3>1, <1>1
      <4> QED BY <4>1, <3>3, <2>1, <1>3
    <3> QED BY <3>1, <3>2, <3>3, <2>1 DEF ActiveSessions
  <2> QED BY <2>2, <2>3
<1>5. ASSUME s \in ActiveSessions(g) PROVE s \in ActiveSessions(f)
  <2>1. PICK i \in DOMAIN g : /\ Opens(g[i]) /\ g[i].sid = s
                              /\ \A j \in i + 1 .. Len(g) : g[j].sid = s => Opens(g[j])
    BY <1>5 DEF ActiveSessions
  <2>2. Len(h) + i \in DOMAIN f /\ f[Len(h) + i] = g[i]
    BY <2>1, <1>1, <1>3
  <2>3. ASSUME NEW j \in Len(h) + i + 1 .. Len(f), f[j].sid = s PROVE Opens(f[j])
    <3>1. j - Len(h) \in i + 1 .. Len(g) /\ j - Len(h) \in 1 .. Len(g) /\ j = Len(h) + (j - Len(h))
      BY <1>1
    <3>2. f[j] = g[j - Len(h)]
      BY <3>1, <1>3
    <3> QED BY <3>1, <3>2, <2>3, <2>1
  <2> QED BY <2>1, <2>2, <2>3 DEF ActiveSessions
<1>6. ASSUME s \in ActiveSessions(h), \A j \in DOMAIN g : g[j].sid = s => Opens(g[j])
      PROVE  s \in ActiveSessions(f)
  <2>1. PICK i \in DOMAIN h : /\ Opens(h[i]) /\ h[i].sid = s
                              /\ \A j \in i + 1 .. Len(h) : h[j].sid = s => Opens(h[j])
    BY <1>6 DEF ActiveSessions
  <2>2. i \in DOMAIN f /\ f[i] = h[i]
    BY <2>1, <1>1, <1>2
  <2>3. ASSUME NEW j \in i + 1 .. Len(f), f[j].sid = s PROVE Opens(f[j])
    <3>1. CASE j <= Len(h)
      <4>1. j \in i + 1 .. Len(h) /\ f[j] = h[j]
        BY <3>1, <2>1, <1>1, <1>2
      <4> QED BY <4>1, <2>1, <2>3
    <3>2. CASE ~(j <= Len(h))
      <4>1. j - Len(h) \in 1 .. Len(g) /\ j = Len(h) + (j - Len(h))
        BY <3>2, <2>1, <1>1
      <4>2. f[j] = g[j - Len(h)]
        BY <4>1, <1>3
      <4> QED BY <4>1, <4>2, <2>3, <1>6, <1>1
    <3> QED BY <3>1, <3>2
  <2> QED BY <2>1, <2>2, <2>3 DEF ActiveSessions
<1> QED BY <1>4, <1>5, <1>6 DEF f

\* The newest events show as open only what all of them do; what they miss
\* had an event among the older ones.
\* What a suffix shows, and what was cut off before it.
StillShown(k, h, n, s) ==
    /\ s \in ActiveSessions(k) => s \in ActiveSessions(h)
    /\ s \in ActiveSessions(h) => s \in ActiveSessions(k) \/ \E i \in 1 .. Len(h) - n : h[i].sid = s

LEMMA SessionsSuffix ==
    ASSUME NEW h, NEW k, IsHistory(h), IsHistory(k),
           NEW n \in Nat, NEW d \in Nat, SuffixOf(k, h, n, d), NEW s
    PROVE  StillShown(k, h, n, s)
<1> SUFFICES ASSUME s \in Sid
             PROVE  /\ s \in ActiveSessions(k) => s \in ActiveSessions(h)
                    /\ s \in ActiveSessions(h) =>
                         s \in ActiveSessions(k) \/ \E i \in 1 .. Len(h) - n : h[i].sid = s
  BY DEF ActiveSessions, StillShown
<1>1. Len(h) \in Nat /\ Len(k) \in Nat /\ DOMAIN h = 1 .. Len(h) /\ DOMAIN k = 1 .. Len(k)
  BY HistoryFacts
<1>2. /\ Len(h) = Len(k) + d /\ (d = 0 \/ d = Len(h) - n)
      /\ \A i \in 1 .. Len(k) : k[i] = h[i + d]
  BY DEF SuffixOf
<1>3. ASSUME s \in ActiveSessions(k) PROVE s \in ActiveSessions(h)
  <2>1. PICK i \in DOMAIN k : /\ Opens(k[i]) /\ k[i].sid = s
                              /\ \A j \in i + 1 .. Len(k) : k[j].sid = s => Opens(k[j])
    BY <1>3 DEF ActiveSessions
  <2>2. i + d \in DOMAIN h /\ k[i] = h[i + d]
    BY <2>1, <1>1, <1>2
  <2>3. ASSUME NEW j \in i + d + 1 .. Len(h), h[j].sid = s PROVE Opens(h[j])
    <3>1. j - d \in i + 1 .. Len(k) /\ j - d \in 1 .. Len(k) /\ (j - d) + d = j
      BY <2>1, <1>1, <1>2
    <3>2. k[j - d] = h[j]
      BY <3>1, <1>2
    <3> QED BY <3>1, <3>2, <2>1, <2>3
  <2> QED BY <2>1, <2>2, <2>3 DEF ActiveSessions
<1>4. ASSUME s \in ActiveSessions(h), s \notin ActiveSessions(k)
      PROVE  \E i \in 1 .. Len(h) - n : h[i].sid = s
  <2>1. PICK i \in DOMAIN h : /\ Opens(h[i]) /\ h[i].sid = s
                              /\ \A j \in i + 1 .. Len(h) : h[j].sid = s => Opens(h[j])
    BY <1>4 DEF ActiveSessions
  <2>2. CASE i <= d
    <3>1. i \in 1 .. Len(h) - n
      BY <2>1, <2>2, <1>1, <1>2
    <3> QED BY <3>1, <2>1
  <2>3. CASE ~(i <= d)
    <3>1. PICK m \in DOMAIN k : i = m + d
      <4>1. i - d \in 1 .. Len(k) /\ i = (i - d) + d
        BY <2>1, <2>3, <1>1, <1>2
      <4> QED BY <4>1, <1>1
    <3>2. k[m] = h[i]
      BY <3>1, <1>1, <1>2
    <3>3. ASSUME NEW j \in m + 1 .. Len(k), k[j].sid = s PROVE Opens(k[j])
      <4>1. j + d \in i + 1 .. Len(h) /\ j \in 1 .. Len(k)
        BY <3>1, <1>1, <1>2
      <4> QED BY <4>1, <3>3, <2>1, <1>2
    <3> QED BY <3>1, <3>2, <3>3, <2>1, <1>4 DEF ActiveSessions
  <2> QED BY <2>2, <2>3
<1> QED BY <1>3, <1>4

-----------------------------------------------------------------------------
(* Active connections of a history.                                         *)

\* Appending events: what they leave open, and what was open and is not
\* closed by them.
LEMMA ConnectionsJoined ==
    ASSUME NEW h, NEW g, IsHistory(h), IsHistory(g), NEW s
    PROVE  s \in ActiveConnections(h \o g) <=>
             \/ s \in ActiveConnections(g)
             \/ s \in ActiveConnections(h) /\ \A j \in DOMAIN g : g[j].conn = s => IsOpening(g[j])
<1> DEFINE f == h \o g
<1>1. /\ Len(h) \in Nat /\ Len(g) \in Nat /\ Len(f) = Len(h) + Len(g)
      /\ DOMAIN h = 1 .. Len(h) /\ DOMAIN g = 1 .. Len(g) /\ DOMAIN f = 1 .. Len(f)
  BY Joined, HistoryFacts
<1>2. \A i \in 1 .. Len(h) : f[i] = h[i]
  BY Joined
<1>3. \A i \in 1 .. Len(g) : f[Len(h) + i] = g[i]
  BY Joined
<1> HIDE DEF f
<1>4. ASSUME s \in ActiveConnections(f)
      PROVE  \/ s \in ActiveConnections(g)
             \/ s \in ActiveConnections(h) /\ \A j \in DOMAIN g : g[j].conn = s => IsOpening(g[j])
  <2>1. PICK i \in DOMAIN f : /\ IsOpening(f[i]) /\ f[i].conn = s
                              /\ \A j \in i + 1 .. Len(f) : f[j].conn = s => IsOpening(f[j])
    BY <1>4 DEF ActiveConnections
  <2>2. CASE i <= Len(h)
    <3>1. i \in DOMAIN h /\ f[i] = h[i]
      BY <2>1, <2>2, <1>1, <1>2
    <3>2. ASSUME NEW j \in i + 1 .. Len(h), h[j].conn = s PROVE IsOpening(h[j])
      <4>1. j \in i + 1 .. Len(f) /\ j \in 1 .. Len(h)
        BY <3>1, <1>1
      <4> QED BY <4>1, <3>2, <2>1, <1>2
    <3>3. ASSUME NEW j \in DOMAIN g, g[j].conn = s PROVE IsOpening(g[j])
      <4>1. Len(h) + j \in i + 1 .. Len(f) /\ j \in 1 .. Len(g)
        BY <2>2, <2>1, <1>1
      <4> QED BY <4>1, <3>3, <2>1, <1>3
    <3>4. s \in ActiveConnections(h)
      BY <3>1, <3>2, <2>1 DEF ActiveConnections
    <3> QED BY <3>3, <3>4
  <2>3. CASE ~(i <= Len(h))
    <3>1. PICK k \in DOMAIN g : i = Len(h) + k
      <4>1. i - Len(h) \in 1 .. Len(g) /\ i = Len(h) + (i - Len(h))
        BY <2>1, <2>3, <1>1
      <4> QED BY <4>1, <1>1
    <3>2. f[i] = g[k]
      BY <3>1, <1>1, <1>3
    <3>3. ASSUME NEW j \in k + 1 .. Len(g), g[j].conn = s PROVE IsOpening(g[j])
      <4>1. Len(h) + j \in i + 1 .. Len(f) /\ j \in 1 .. Len(g)
        BY <3>1, <1>1
      <4> QED BY <4>1, <3>3, <2>1, <1>3
    <3> QED BY <3>1, <3>2, <3>3, <2>1 DEF ActiveConnections
  <2> QED BY <2>2, <2>3
<1>5. ASSUME s \in ActiveConnections(g) PROVE s \in ActiveConnections(f)
  <2>1. PICK i \in DOMAIN g : /\ IsOpening(g[i]) /\ g[i].conn = s
                              /\ \A j \in i + 1 .. Len(g) : g[j].conn = s => IsOpening(g[j])
    BY <1>5 DEF ActiveConnections
  <2>2. Len(h) + i \in DOMAIN f /\ f[Len(h) + i] = g[i]
    BY <2>1, <1>1, <1>3
  <2>3. ASSUME NEW j \in Len(h) + i + 1 .. Len(f), f[j].conn = s PROVE IsOpening(f[j])
    <3>1. j - Len(h) \in i + 1 .. Len(g) /\ j - Len(h) \in 1 .. Len(g) /\ j = Len(h) + (j - Len(h))
      BY <1>1
    <3>2. f[j] = g[j - Len(h)]
      BY <3>1, <1>3
    <3> QED BY <3>1, <3>2, <2>3, <2>1
  <2> QED BY <2>1, <2>2, <2>3 DEF ActiveConnections
<1>6. ASSUME s \in ActiveConnections(h), \A j \in DOMAIN g : g[j].conn = s => IsOpening(g[j])
      PROVE  s \in ActiveConnections(f)
  <2>1. PICK i \in DOMAIN h : /\ IsOpening(h[i]) /\ h[i].conn = s
                              /\ \A j \in i + 1 .. Len(h) : h[j].conn = s => IsOpening(h[j])
    BY <1>6 DEF ActiveConnections
  <2>2. i \in DOMAIN f /\ f[i] = h[i]
    BY <2>1, <1>1, <1>2
  <2>3. ASSUME NEW j \in i + 1 .. Len(f), f[j].conn = s PROVE IsOpening(f[j])
    <3>1. CASE j <= Len(h)
      <4>1. j \in i + 1 .. Len(h) /\ f[j] = h[j]
        BY <3>1, <2>1, <1>1, <1>2
      <4> QED BY <4>1, <2>1, <2>3
    <3>2. CASE ~(j <= Len(h))
      <4>1. j - Len(h) \in 1 .. Len(g) /\ j = Len(h) + (j - Len(h))
        BY <3>2, <2>1, <1>1
      <4>2. f[j] = g[j - Len(h)]
        BY <4>1, <1>3
      <4> QED BY <4>1, <4>2, <2>3, <1>6, <1>1
    <3> QED BY <3>1, <3>2
  <2> QED BY <2>1, <2>2, <2>3 DEF ActiveConnections
<1> QED BY <1>4, <1>5, <1>6 DEF f

\* The newest events show as open only what all of them do; what they miss
\* had an event among the older ones.
LEMMA ConnectionsSuffix ==
    ASSUME NEW h, NEW k, IsHistory(h), IsHistory(k),
           NEW n \in Nat, NEW d \in Nat, SuffixOf(k, h, n, d), NEW s
    PROVE  /\ s \in ActiveConnections(k) => s \in ActiveConnections(h)
           /\ s \in ActiveConnections(h) => s \in ActiveConnections(k) \/ \E i \in 1 .. Len(h) - n : h[i].conn = s
<1>1. Len(h) \in Nat /\ Len(k) \in Nat /\ DOMAIN h = 1 .. Len(h) /\ DOMAIN k = 1 .. Len(k)
  BY HistoryFacts
<1>2. /\ Len(h) = Len(k) + d /\ (d = 0 \/ d = Len(h) - n)
      /\ \A i \in 1 .. Len(k) : k[i] = h[i + d]
  BY DEF SuffixOf
<1>3. ASSUME s \in ActiveConnections(k) PROVE s \in ActiveConnections(h)
  <2>1. PICK i \in DOMAIN k : /\ IsOpening(k[i]) /\ k[i].conn = s
                              /\ \A j \in i + 1 .. Len(k) : k[j].conn = s => IsOpening(k[j])
    BY <1>3 DEF ActiveConnections
  <2>2. i + d \in DOMAIN h /\ k[i] = h[i + d]
    BY <2>1, <1>1, <1>2
  <2>3. ASSUME NEW j \in i + d + 1 .. Len(h), h[j].conn = s PROVE IsOpening(h[j])
    <3>1. j - d \in i + 1 .. Len(k) /\ j - d \in 1 .. Len(k) /\ (j - d) + d = j
      BY <2>1, <1>1, <1>2
    <3>2. k[j - d] = h[j]
      BY <3>1, <1>2
    <3> QED BY <3>1, <3>2, <2>1, <2>3
  <2> QED BY <2>1, <2>2, <2>3 DEF ActiveConnections
<1>4. ASSUME s \in ActiveConnections(h), s \notin ActiveConnections(k)
      PROVE  \E i \in 1 .. Len(h) - n : h[i].conn = s
  <2>1. PICK i \in DOMAIN h : /\ IsOpening(h[i]) /\ h[i].conn = s
                              /\ \A j \in i + 1 .. Len(h) : h[j].conn = s => IsOpening(h[j])
    BY <1>4 DEF ActiveConnections
  <2>2. CASE i <= d
    <3>1. i \in 1 .. Len(h) - n
      BY <2>1, <2>2, <1>1, <1>2
    <3> QED BY <3>1, <2>1
  <2>3. CASE ~(i <= d)
    <3>1. PICK m \in DOMAIN k : i = m + d
      <4>1. i - d \in 1 .. Len(k) /\ i = (i - d) + d
        BY <2>1, <2>3, <1>1, <1>2
      <4> QED BY <4>1, <1>1
    <3>2. k[m] = h[i]
      BY <3>1, <1>1, <1>2
    <3>3. ASSUME NEW j \in m + 1 .. Len(k), k[j].conn = s PROVE IsOpening(k[j])
      <4>1. j + d \in i + 1 .. Len(h) /\ j \in 1 .. Len(k)
        BY <3>1, <1>1, <1>2
      <4> QED BY <4>1, <3>3, <2>1, <1>2
    <3> QED BY <3>1, <3>2, <3>3, <2>1, <1>4 DEF ActiveConnections
  <2> QED BY <2>2, <2>3
<1> QED BY <1>3, <1>4

-----------------------------------------------------------------------------
(* The login history.                                                       *)

\* The sessions whose events leave the history when evs are recorded.
Pushed(h, evs, readOk) ==
    {h[i].sid : i \in {i \in DOMAIN h : ~readOk}}
    \cup {(h \o evs)[i].sid : i \in 1 .. Len(h) + Len(evs) - MaxHistory}

\* Every entry of k is an old one that could be read, or one of the events.
FromEither(k, h, evs, readOk) ==
    \A i \in DOMAIN k : \/ \E j \in DOMAIN h : k[i] = h[j] /\ readOk
                        \/ \E j \in DOMAIN evs : k[i] = evs[j]

\* An append, of an unreadable history too, shows what the new events leave
\* open and what they do not close; the rest has been pushed out.
LEMMA Recorded ==
    ASSUME NEW h, NEW evs, IsHistory(h), IsHistory(evs), NEW readOk \in BOOLEAN,
           NEW k, k = Newest((IF readOk THEN h ELSE <<>>) \o evs, MaxHistory), NEW s
    PROVE  /\ IsHistory(k) /\ FromEither(k, h, evs, readOk)
           /\ s \in ActiveSessions(k) =>
                \/ s \in ActiveSessions(evs)
                \/ s \in ActiveSessions(h) /\ \A j \in DOMAIN evs : evs[j].sid = s => Opens(evs[j])
           /\ \/ s \in ActiveSessions(evs)
              \/ s \in ActiveSessions(h) /\ \A j \in DOMAIN evs : evs[j].sid = s => Opens(evs[j])
              => s \in ActiveSessions(k) \/ s \in Pushed(h, evs, readOk)
<1> DEFINE keep == \A j \in DOMAIN evs : evs[j].sid = s => Opens(evs[j])
<1>1. PICK p : p = IF readOk THEN h ELSE <<>>
  OBVIOUS
<1>2. PICK f : f = p \o evs
  BY Zenon
<1>3. IsHistory(p) /\ (readOk => p = h) /\ (~readOk => p = <<>>)
  BY <1>1, EmptyHistory
<1>4. IsHistory(f) /\ Len(f) = Len(p) + Len(evs) /\ Len(f) \in Nat /\ Len(p) \in Nat /\ Len(evs) \in Nat
  BY <1>2, <1>3, Joined, HistoryFacts
<1>5. k = SubSeq(f, IF Len(f) > MaxHistory THEN Len(f) - MaxHistory + 1 ELSE 1, Len(f))
  BY <1>1, <1>2, Zenon DEF Newest
<1>6. IsHistory(k) /\ \E d \in Nat : SuffixOf(k, f, MaxHistory, d)
  BY <1>4, <1>5, Suffix, LoginAssumption, Zenon
<1>7. PICK d \in Nat : SuffixOf(k, f, MaxHistory, d)
  BY <1>6
<1>8. /\ s \in ActiveSessions(k) => s \in ActiveSessions(f)
      /\ s \in ActiveSessions(f) =>
           s \in ActiveSessions(k) \/ \E i \in 1 .. Len(f) - MaxHistory : f[i].sid = s
  <2>1. IsHistory(f) /\ IsHistory(k) /\ MaxHistory \in Nat
    BY <1>4, <1>6, LoginAssumption, Zenon
  <2>2. StillShown(k, f, MaxHistory, s)
    BY <2>1, <1>7, SessionsSuffix, Zenon
  <2> QED BY <2>2, Zenon DEF StillShown
<1>9. s \in ActiveSessions(f) <=> s \in ActiveSessions(evs) \/ (s \in ActiveSessions(p) /\ keep)
  BY <1>2, <1>3, SessionsJoined
<1>10. s \in ActiveSessions(p) => s \in ActiveSessions(h) /\ readOk
  BY <1>3, EmptyHistory DEF ActiveSessions
<1>11. s \in ActiveSessions(h) => s \in ActiveSessions(p) \/ s \in Pushed(h, evs, readOk)
  <2>1. CASE readOk
    BY <2>1, <1>3, Zenon
  <2>2. CASE ~readOk
    BY <2>2 DEF ActiveSessions, Pushed
  <2> QED BY <2>1, <2>2
<1>12. ASSUME NEW i \in 1 .. Len(f) - MaxHistory, f[i].sid = s
       PROVE  s \in Pushed(h, evs, readOk)
  <2>1. CASE readOk
    <3>1. f = h \o evs /\ Len(f) = Len(h) + Len(evs)
      BY <2>1, <1>2, <1>3, <1>4
    <3>2. i \in 1 .. Len(h) + Len(evs) - MaxHistory
      <4>1. Len(f) = Len(h) + Len(evs) /\ Len(h) \in Nat /\ Len(evs) \in Nat /\ Len(f) \in Nat
        BY <3>1, <1>4, HistoryFacts, Zenon
      <4> QED BY <4>1, LoginAssumption
    <3>3. (h \o evs)[i].sid = s
      BY <3>1, <1>12, Zenon
    <3> QED BY <3>2, <3>3, Zenon DEF Pushed
  <2>2. CASE ~readOk
    <3>1. Len(p) = 0 /\ Len(f) = Len(evs) /\ Len(h) \in Nat
      BY <2>2, <1>3, <1>4, EmptyHistory, HistoryFacts
    <3>2. i \in 1 .. Len(evs) /\ Len(h) + i \in 1 .. Len(h) + Len(evs) - MaxHistory
      BY <3>1, <1>4, LoginAssumption
    <3>3. f[i] = evs[i]
      <4>1. (p \o evs)[Len(p) + i] = evs[i] /\ Len(p) + i = i
        BY <3>1, <3>2, <1>3, Joined
      <4> QED BY <4>1, <1>2, Zenon
    <3>4. (h \o evs)[Len(h) + i] = evs[i]
      BY <3>2, Joined
    <3> QED BY <3>2, <3>3, <3>4, <1>12 DEF Pushed
  <2> QED BY <2>1, <2>2
<1>13. ASSUME NEW i \in DOMAIN k
       PROVE  (\E j \in DOMAIN h : k[i] = h[j] /\ readOk) \/ \E j \in DOMAIN evs : k[i] = evs[j]
  <2>1. Len(k) \in Nat /\ i \in 1 .. Len(k) /\ DOMAIN f = 1 .. Len(f)
    BY <1>4, <1>6, HistoryFacts
  <2>2. i + d \in DOMAIN f /\ k[i] = f[i + d]
    BY <2>1, <1>4, <1>7 DEF SuffixOf
  <2>3. \A x \in DOMAIN (p \o evs) :
           \/ x \in DOMAIN p /\ (p \o evs)[x] = p[x]
           \/ x - Len(p) \in DOMAIN evs /\ (p \o evs)[x] = evs[x - Len(p)]
    BY <1>3, JoinedEntries, Zenon
  <2>4. PICK x \in DOMAIN f : k[i] = f[x]
    BY <2>2, Zenon
  <2>5. \/ x \in DOMAIN p /\ f[x] = p[x]
        \/ x - Len(p) \in DOMAIN evs /\ f[x] = evs[x - Len(p)]
    BY <2>3, <1>2, Zenon
  <2>6. x \in DOMAIN p => readOk /\ p = h
    BY <1>3, EmptyHistory
  <2> QED BY <2>4, <2>5, <2>6, Zenon
<1>14. s \in ActiveSessions(k) => s \in ActiveSessions(evs) \/ (s \in ActiveSessions(h) /\ keep)
  BY <1>8, <1>9, <1>10
<1>15. s \in ActiveSessions(evs) \/ (s \in ActiveSessions(h) /\ keep)
         => s \in ActiveSessions(k) \/ s \in Pushed(h, evs, readOk)
  BY <1>8, <1>9, <1>11, <1>12
<1>16. FromEither(k, h, evs, readOk)
  BY <1>13 DEF FromEither
<1> QED BY <1>6, <1>16, <1>14, <1>15

-----------------------------------------------------------------------------
(* The login watcher.                                                       *)

Waiting(kind, s) == \E i \in DOMAIN signals : signals[i] = <<kind, s>>
Pending(s) == \E i \in DOMAIN pending : pending[i] = s

\* A session whose end is signalled has ended; one whose start is signalled
\* is open, or its end is signalled further back.
SignalOK(i, s) ==
    /\ signals[i] = <<"removed", s>> => sess[s] = "closed"
    /\ signals[i] = <<"new", s>> =>
         sess[s] = "open" \/ \E j \in i + 1 .. Len(signals) : signals[j] = <<"removed", s>>

\* The history shows a session that is not open only if its end was lost or
\* is still to be handled; it lacks one that is open only if its start was
\* lost, is still to be handled or recorded, or was pushed out; and a session
\* still to be recorded is open, or its end was lost.
SessionOK(s) ==
    /\ s \in ActiveSessions(lhist) /\ sess[s] # "open" => s \in stale \/ Waiting("removed", s)
    /\ sess[s] = "open" /\ s \notin ActiveSessions(lhist) =>
         s \in unseen \/ s \in aged \/ Waiting("new", s) \/ Pending(s)
    /\ Pending(s) => sess[s] = "open" \/ s \in stale

LoginTyped ==
    /\ sess \in [Sid -> {"none", "open", "closed"}]
    /\ lm \in {"down", "listed", "watching"}
    /\ signals \in Seq({"new", "removed"} \X Sid) /\ (signals # <<>> => lm = "watching")
    /\ pending \in Seq(Sid) /\ (pending # <<>> => lm = "listed")
    /\ IsHistory(lhist)

LoginInv ==
    /\ LoginTyped
    /\ \A s \in Sid : SessionOK(s) /\ \A i \in DOMAIN signals : SignalOK(i, s)
    /\ NoSilentOrigin

watchVars == <<sess, lm, pending, signals, lhist, unseen, stale, aged, vetted>>

\* The invariant speaks of these variables only.
LEMMA LoginFrame ==
    ASSUME LoginInv, UNCHANGED watchVars
    PROVE  LoginInv'
BY Zenon
DEF LoginInv, LoginTyped, SessionOK, SignalOK, Waiting, Pending, NoSilentOrigin, ActiveSessions,
    watchVars

LEMMA LoginInitInv ==
    ASSUME LoginInit
    PROVE  LoginInv
<1>1. LoginTyped /\ signals = <<>> /\ lhist = <<>> /\ pending = <<>>
      /\ unseen = {s \in Sid : sess[s] = "open"}
  BY EmptyHistory DEF LoginInit, LoginTyped
<1>2. \A s \in Sid : s \notin ActiveSessions(lhist)
  BY <1>1, EmptyHistory DEF ActiveSessions
<1>3. \A s \in Sid : ~Pending(s)
  BY <1>1, EmptyHistory DEF Pending
<1>4. \A s \in Sid : SessionOK(s)
  BY <1>1, <1>2, <1>3 DEF SessionOK
<1>5. DOMAIN signals = {} /\ DOMAIN lhist = {}
  BY <1>1, EmptyHistory
<1> QED BY <1>1, <1>4, <1>5 DEF LoginInv, NoSilentOrigin

LEMMA QueuedWaiting ==
    ASSUME NEW kind, NEW s, Waiting(kind, s)
    PROVE  s \in Queued(kind)
<1>1. PICK i \in DOMAIN signals : signals[i] = <<kind, s>>
  BY DEF Waiting
<1>2. signals[i][1] = kind /\ signals[i][2] = s
  BY <1>1
<1> QED BY <1>2 DEF Queued

LEMMA LoginInvShown ==
    ASSUME LoginInv
    PROVE  ShownSessionsAccurate /\ NoSilentOrigin
<1>1. \A s \in Sid : SessionOK(s)
  BY DEF LoginInv
<1> SUFFICES ShownSessionsAccurate
  BY Zenon DEF LoginInv
<1>2. CASE lhist = <<>>
  <2>1. ShownSessions(lhist) = LiveSessions
    BY <1>2, Zenon DEF ShownSessions
  <2> QED BY <2>1, Zenon DEF ShownSessionsAccurate
<1>3. CASE lhist # <<>>
  <2>1. /\ ShownSessions(lhist) = ActiveSessions(lhist)
        /\ ActiveSessions(lhist) \subseteq Sid /\ LiveSessions \subseteq Sid
    BY <1>3 DEF ShownSessions, ActiveSessions, LiveSessions
  <2>2. \A s : Pending(s) => s \in {pending[i] : i \in DOMAIN pending}
    BY DEF Pending
  <2>3. ASSUME NEW s \in Sid
        PROVE  /\ s \in ActiveSessions(lhist) /\ s \notin LiveSessions => s \in stale \cup Queued("removed")
               /\ s \in LiveSessions /\ s \notin ActiveSessions(lhist)
                    => s \in unseen \cup Queued("new") \cup {pending[i] : i \in DOMAIN pending} \cup aged
    BY <1>1, <2>2, QueuedWaiting DEF SessionOK, LiveSessions
  <2> QED BY <2>1, <2>3, Zenon DEF ShownSessionsAccurate
<1> QED BY <1>2, <1>3

\* A sequence and one element more.
LEMMA Appended ==
    ASSUME NEW S, NEW q \in Seq(S), NEW x \in S, NEW u, u = Append(q, x)
    PROVE  /\ u \in Seq(S) /\ Len(u) = Len(q) + 1 /\ Len(u) >= Len(q) /\ u[Len(u)] = x
           /\ Len(q) \in Nat /\ DOMAIN q = 1 .. Len(q) /\ Len(u) \in Nat /\ DOMAIN u = 1 .. Len(u)
           /\ \A i \in DOMAIN q : i \in DOMAIN u /\ u[i] = q[i]
           /\ \A i \in DOMAIN u : i \in DOMAIN q \/ u[i] = x
           /\ \E i \in DOMAIN u : u[i] = x
<1>1. Len(q) \in Nat /\ DOMAIN q = 1 .. Len(q) /\ u \in Seq(S) /\ Len(u) = Len(q) + 1
  OBVIOUS
<1>2. Len(u) \in Nat /\ DOMAIN u = 1 .. Len(u) /\ Len(u) >= Len(q)
  BY <1>1
<1>3. u[Len(u)] = x /\ \A i \in 1 .. Len(q) : u[i] = q[i]
  BY <1>1
<1>4. \A i \in DOMAIN u : i \in DOMAIN q \/ i = Len(u)
  BY <1>1, <1>2
<1>5. Len(u) \in DOMAIN u /\ \A i \in DOMAIN q : i \in DOMAIN u
  BY <1>1, <1>2
<1> QED BY <1>1, <1>2, <1>3, <1>4, <1>5, Zenon

\* A session opens: the signal is queued, nobody listens, or its start is lost.
LEMMA SessionOpensInv ==
    ASSUME LoginInv, NEW t \in Sid, SessionOpens(t)
    PROVE  LoginInv'
<1>1. LoginTyped /\ NoSilentOrigin /\ sess[t] = "none"
  BY DEF LoginInv, SessionOpens
<1>2. /\ sess' = [sess EXCEPT ![t] = "open"] /\ UNCHANGED <<lm, pending, lhist, stale, aged, vetted>>
      /\ signals' = IF lm = "watching" THEN Append(signals, <<"new", t>>) ELSE signals
      /\ unseen' = IF lm = "watching" THEN unseen ELSE unseen \cup {t}
  BY DEF SessionOpens
<1>3. sess'[t] = "open" /\ \A s \in Sid : s # t => sess'[s] = sess[s]
  BY <1>1, <1>2 DEF LoginTyped
<1>4. /\ \A i \in DOMAIN signals : i \in DOMAIN signals' /\ signals'[i] = signals[i]
      /\ Len(signals') >= Len(signals)
      /\ \A i \in DOMAIN signals' : i \in DOMAIN signals \/ signals'[i] = <<"new", t>>
      /\ lm = "watching" => \E i \in DOMAIN signals' : signals'[i] = <<"new", t>>
      /\ Len(signals) \in Nat /\ DOMAIN signals = 1 .. Len(signals) /\ Len(signals') \in Nat
  <2>1. signals \in Seq({"new", "removed"} \X Sid) /\ <<"new", t>> \in {"new", "removed"} \X Sid
    BY <1>1, Zenon DEF LoginTyped
  <2>2. CASE lm = "watching"
    <3>1. signals' = Append(signals, <<"new", t>>)
      BY <2>2, <1>2
    <3> QED BY <2>1, <3>1, Appended
  <2>3. CASE lm # "watching"
    BY <2>1, <2>3, <1>2
  <2> QED BY <2>2, <2>3
<1>5. LoginTyped'
  BY <1>1, <1>2 DEF LoginTyped
<1>6. unseen \subseteq unseen' /\ (lm # "watching" => t \in unseen')
  BY <1>2
<1>7. \A kind, s : Waiting(kind, s) => Waiting(kind, s)'
  BY <1>4, Zenon DEF Waiting
<1>8. lm = "watching" => Waiting("new", t)'
  BY <1>4 DEF Waiting
<1>9. ASSUME NEW s \in Sid PROVE SessionOK(s)'
  <2>1. SessionOK(s) /\ (s \in ActiveSessions(lhist))' = (s \in ActiveSessions(lhist))
        /\ Pending(s)' = Pending(s)
    BY <1>2 DEF LoginInv, ActiveSessions, Pending
  <2>2. CASE s # t
    BY <2>1, <2>2, <1>2, <1>3, <1>6, <1>7 DEF SessionOK
  <2>3. CASE s = t
    BY <2>3, <1>3, <1>6, <1>8 DEF SessionOK
  <2> QED BY <2>2, <2>3
<1>10. ASSUME NEW s \in Sid, NEW i \in DOMAIN signals' PROVE SignalOK(i, s)'
  <2>1. CASE i \notin DOMAIN signals
    <3>1. signals'[i] = <<"new", t>>
      BY <2>1, <1>4
    <3> QED BY <3>1, <1>3 DEF SignalOK
  <2>2. CASE i \in DOMAIN signals
    <3>1. SignalOK(i, s) /\ signals'[i] = signals[i]
      BY <2>2, <1>4 DEF LoginInv
    <3>2. signals[i] = <<"removed", s>> => sess'[s] = "closed"
      BY <3>1, <1>1, <1>3 DEF SignalOK
    <3>3. ASSUME signals[i] = <<"new", s>>, sess'[s] # "open"
          PROVE  \E j \in i + 1 .. Len(signals') : signals'[j] = <<"removed", s>>
      <4>1. PICK j \in i + 1 .. Len(signals) : signals[j] = <<"removed", s>>
        BY <3>1, <3>3, <1>3 DEF SignalOK
      <4>2. j \in DOMAIN signals /\ j \in i + 1 .. Len(signals')
        BY <2>2, <1>4
      <4> QED BY <4>1, <4>2, <1>4
    <3> QED BY <3>1, <3>2, <3>3 DEF SignalOK
  <2> QED BY <2>1, <2>2
<1>11. NoSilentOrigin'
  BY <1>1, <1>2 DEF NoSilentOrigin
<1> QED BY <1>5, <1>9, <1>10, <1>11 DEF LoginInv

\* A session closes: the signal is queued, or the end is lost.
LEMMA SessionClosesInv ==
    ASSUME LoginInv, NEW t \in Sid, SessionCloses(t)
    PROVE  LoginInv'
<1>1. LoginTyped /\ NoSilentOrigin /\ sess[t] = "open"
  BY DEF LoginInv, SessionCloses
<1>2. /\ sess' = [sess EXCEPT ![t] = "closed"] /\ UNCHANGED <<lm, pending, lhist, unseen, aged, vetted>>
      /\ signals' = IF lm = "watching" THEN Append(signals, <<"removed", t>>) ELSE signals
      /\ stale' = IF lm = "watching" THEN stale ELSE stale \cup {t}
  BY DEF SessionCloses
<1>3. sess'[t] = "closed" /\ \A s \in Sid : s # t => sess'[s] = sess[s]
  BY <1>1, <1>2 DEF LoginTyped
<1>4. /\ \A i \in DOMAIN signals : i \in DOMAIN signals' /\ signals'[i] = signals[i]
      /\ Len(signals') >= Len(signals)
      /\ \A i \in DOMAIN signals' : i \in DOMAIN signals \/ signals'[i] = <<"removed", t>>
      /\ lm = "watching" => Len(signals') = Len(signals) + 1 /\ signals'[Len(signals')] = <<"removed", t>>
      /\ Len(signals) \in Nat /\ DOMAIN signals = 1 .. Len(signals)
      /\ Len(signals') \in Nat /\ DOMAIN signals' = 1 .. Len(signals')
  <2>1. signals \in Seq({"new", "removed"} \X Sid) /\ <<"removed", t>> \in {"new", "removed"} \X Sid
    BY <1>1, Zenon DEF LoginTyped
  <2>2. CASE lm = "watching"
    <3>1. signals' = Append(signals, <<"removed", t>>)
      BY <2>2, <1>2
    <3> QED BY <2>1, <3>1, Appended
  <2>3. CASE lm # "watching"
    BY <2>1, <2>3, <1>2
  <2> QED BY <2>2, <2>3
<1>5. LoginTyped'
  BY <1>1, <1>2 DEF LoginTyped
<1>6. stale \subseteq stale' /\ (lm # "watching" => t \in stale')
  BY <1>2
<1>7. \A kind, s : Waiting(kind, s) => Waiting(kind, s)'
  BY <1>4, Zenon DEF Waiting
<1>8. lm = "watching" => Waiting("removed", t)'
  BY <1>4 DEF Waiting
<1>9. ASSUME NEW s \in Sid PROVE SessionOK(s)'
  <2>1. SessionOK(s) /\ (s \in ActiveSessions(lhist))' = (s \in ActiveSessions(lhist))
        /\ Pending(s)' = Pending(s)
    BY <1>2 DEF LoginInv, ActiveSessions, Pending
  <2>2. CASE s # t
    BY <2>1, <2>2, <1>2, <1>3, <1>6, <1>7 DEF SessionOK
  <2>3. CASE s = t
    <3>1. Pending(t) => lm # "watching"
      BY <1>1 DEF Pending, LoginTyped
    <3> QED BY <2>1, <2>3, <3>1, <1>3, <1>6, <1>8 DEF SessionOK
  <2> QED BY <2>2, <2>3
<1>10. ASSUME NEW s \in Sid, NEW i \in DOMAIN signals' PROVE SignalOK(i, s)'
  <2>1. CASE i \notin DOMAIN signals
    <3>1. signals'[i] = <<"removed", t>>
      BY <2>1, <1>4, Zenon
    <3>2. signals'[i] = <<"removed", s>> => s = t
      BY <3>1
    <3> QED BY <3>1, <3>2, <1>3 DEF SignalOK
  <2>2. CASE i \in DOMAIN signals
    <3>1. SignalOK(i, s) /\ signals'[i] = signals[i]
      BY <2>2, <1>4, Zenon DEF LoginInv
    <3>2. signals[i] = <<"removed", s>> => sess'[s] = "closed"
      BY <3>1, <1>1, <1>3 DEF SignalOK
    <3>3. ASSUME signals[i] = <<"new", s>>, sess'[s] # "open"
          PROVE  \E j \in i + 1 .. Len(signals') : signals'[j] = <<"removed", s>>
      <4>1. CASE sess[s] = "open"
        <5>1. s = t
          BY <4>1, <3>3, <1>3
        <5>2. signals # <<>>
          BY <2>2
        <5>3. lm = "watching"
          BY <5>2, <1>1 DEF LoginTyped
        <5>4. Len(signals') \in i + 1 .. Len(signals')
          BY <5>3, <2>2, <1>4
        <5> QED BY <5>1, <5>3, <5>4, <1>4
      <4>2. CASE sess[s] # "open"
        <5>1. PICK j \in i + 1 .. Len(signals) : signals[j] = <<"removed", s>>
          BY <4>2, <3>1, <3>3 DEF SignalOK
        <5>2. j \in DOMAIN signals /\ j \in i + 1 .. Len(signals')
          <6>1. Len(signals) \in Nat /\ Len(signals') \in Nat /\ Len(signals') >= Len(signals)
                /\ DOMAIN signals = 1 .. Len(signals)
            BY <1>4, Zenon
          <6> QED BY <6>1, <2>2
        <5> QED BY <5>1, <5>2, <1>4, Zenon
      <4> QED BY <4>1, <4>2
    <3> QED BY <3>1, <3>2, <3>3 DEF SignalOK
  <2> QED BY <2>1, <2>2
<1>11. NoSilentOrigin'
  BY <1>1, <1>2 DEF NoSilentOrigin
<1> QED BY <1>5, <1>9, <1>10, <1>11 DEF LoginInv

LEMMA SubscribeInv ==
    ASSUME LoginInv, Subscribe
    PROVE  LoginInv'
<1>1. LoginTyped /\ NoSilentOrigin /\ lm' = "watching" /\ pending = <<>>
      /\ UNCHANGED <<sess, pending, signals, lhist, unseen, stale, aged, vetted>>
  BY DEF LoginInv, Subscribe, loginHistory
<1>2. LoginTyped' /\ NoSilentOrigin'
  BY <1>1 DEF LoginTyped, NoSilentOrigin
<1>3. ASSUME NEW s \in Sid PROVE SessionOK(s)' /\ \A i \in DOMAIN signals' : SignalOK(i, s)'
  <2>1. SessionOK(s) /\ \A i \in DOMAIN signals : SignalOK(i, s)
    BY DEF LoginInv
  <2>2. (s \in ActiveSessions(lhist))' = (s \in ActiveSessions(lhist))
    BY <1>1 DEF ActiveSessions
  <2> QED BY <1>1, <2>1, <2>2, Zenon DEF SessionOK, SignalOK, Waiting, Pending
<1> QED BY <1>2, <1>3 DEF LoginInv

\* What was queued or still to be recorded when the connection drops is lost.
LEMMA DropInv ==
    ASSUME LoginInv, NEW restart \in BOOLEAN, Drop(restart)
    PROVE  LoginInv'
<1>1. /\ LoginTyped /\ NoSilentOrigin /\ lm' = "down" /\ signals' = <<>> /\ pending' = <<>>
      /\ unseen' = unseen \cup Queued("new") \cup {pending[i] : i \in DOMAIN pending}
      /\ stale' = stale \cup Queued("removed")
      /\ UNCHANGED <<sess, lhist, aged, vetted>>
  BY DEF LoginInv, Drop
<1>2. LoginTyped' /\ NoSilentOrigin' /\ DOMAIN signals' = {} /\ DOMAIN pending' = {}
  BY <1>1 DEF LoginTyped, NoSilentOrigin
<1>3. ASSUME NEW s \in Sid PROVE SessionOK(s)'
  <2>1. SessionOK(s) /\ (s \in ActiveSessions(lhist))' = (s \in ActiveSessions(lhist))
    BY <1>1 DEF LoginInv, ActiveSessions
  <2>2. /\ Waiting("removed", s) => s \in stale'
        /\ Waiting("new", s) => s \in unseen'
    BY <1>1, QueuedWaiting
  <2>3. Pending(s) => s \in unseen'
    BY <1>1 DEF Pending
  <2>4. ~Pending(s)'
    BY <1>2 DEF Pending
  <2>5. stale \subseteq stale' /\ unseen \subseteq unseen'
    BY <1>1
  <2> QED BY <2>1, <2>2, <2>3, <2>4, <2>5, <1>1, Zenon DEF SessionOK
<1> QED BY <1>2, <1>3 DEF LoginInv

\* The sessions listed are all there are, and still to be recorded.
LEMMA ConnectInv ==
    ASSUME LoginInv, Connect
    PROVE  LoginInv'
<1>1. /\ LoginTyped /\ NoSilentOrigin /\ lm = "down" /\ lm' = "listed"
      /\ UNCHANGED <<sess, signals, lhist, stale, aged, vetted>>
  BY DEF LoginInv, Connect
<1>2. signals = <<>> /\ pending = <<>>
  BY <1>1 DEF LoginTyped
<1>3. \/ pending' \in Listings(LiveSessions)
      \/ UNCHANGED <<pending, unseen>>
  BY Zenon DEF Connect
<1>4. /\ pending' \in Seq(Sid)
      /\ \A s \in Sid : Pending(s)' => sess[s] = "open"
      /\ \A s \in Sid : sess[s] = "open" => Pending(s)' \/ unseen' = unseen
  <2>1. CASE pending' \in Listings(LiveSessions)
    <3>1. PICK q : q = pending'
      OBVIOUS
    <3>2. /\ IsHistory(q) /\ \A i \in DOMAIN q : q[i] \in LiveSessions
          /\ \A s \in LiveSessions : \E i \in DOMAIN q : q[i] = s
      BY <2>1, <3>1, ListingFacts
    <3>3. q \in Seq(Sid)
      <4>1. \A i \in DOMAIN q : q[i] \in Sid
        BY <3>2 DEF LiveSessions
      <4> QED BY <4>1, <3>2 DEF IsHistory
    <3> QED BY <3>1, <3>2, <3>3 DEF Pending, LiveSessions
  <2>2. CASE UNCHANGED <<pending, unseen>>
    BY <2>2, <1>1, <1>2, EmptyHistory DEF Pending, LoginTyped
  <2> QED BY <2>1, <2>2, <1>3
<1>5. LoginTyped' /\ NoSilentOrigin'
  BY <1>1, <1>2, <1>4 DEF LoginTyped, NoSilentOrigin
<1>6. ASSUME NEW s \in Sid PROVE SessionOK(s)'
  <2>1. SessionOK(s) /\ (s \in ActiveSessions(lhist))' = (s \in ActiveSessions(lhist))
    BY <1>1 DEF LoginInv, ActiveSessions
  <2>2. ~Waiting("removed", s) /\ ~Waiting("new", s) /\ ~Pending(s)
    BY <1>2, EmptyHistory DEF Waiting, Pending
  <2> QED BY <2>1, <2>2, <1>1, <1>4 DEF SessionOK
<1>7. DOMAIN signals' = {}
  BY <1>1, <1>2, EmptyHistory
<1> QED BY <1>5, <1>6, <1>7 DEF LoginInv

\* Taking the first signal off the queue.
LEMMA SignalTaken ==
    ASSUME LoginTyped, signals # <<>>, NEW kind, signals[1][1] = kind, signals' = Tail(signals),
           NEW t, t = signals[1][2]
    PROVE  /\ t \in Sid /\ signals[1] = <<kind, t>> /\ 1 \in DOMAIN signals
           /\ signals' \in Seq({"new", "removed"} \X Sid)
           /\ Len(signals) \in Nat /\ DOMAIN signals = 1 .. Len(signals) /\ Len(signals') = Len(signals) - 1
           /\ DOMAIN signals' = 1 .. Len(signals) - 1
           /\ \A i \in 1 .. Len(signals) - 1 : signals'[i] = signals[i + 1]
<1>1. signals \in Seq({"new", "removed"} \X Sid) /\ 1 \in DOMAIN signals
  BY DEF LoginTyped
<1>2. signals[1] \in {"new", "removed"} \X Sid
  BY <1>1
<1>3. t \in Sid /\ signals[1] = <<kind, t>>
  BY <1>2
<1> QED BY <1>1, <1>3

LEMMA SignalsAfter ==
    ASSUME LoginInv, signals # <<>>, NEW kind, signals[1][1] = kind, signals' = Tail(signals),
           NEW t, t = signals[1][2], sess' = sess
    PROVE  /\ \A s \in Sid : \A i \in DOMAIN signals' : SignalOK(i, s)'
           /\ \A s, k : Waiting(k, s) => Waiting(k, s)' \/ (k = kind /\ s = t)
           /\ kind = "removed" => sess[t] = "closed"
           /\ kind = "new" => sess[t] = "open" \/ Waiting("removed", t)'
<1>1. /\ t \in Sid /\ signals[1] = <<kind, t>> /\ 1 \in DOMAIN signals
      /\ Len(signals) \in Nat /\ DOMAIN signals = 1 .. Len(signals) /\ Len(signals') = Len(signals) - 1
      /\ DOMAIN signals' = 1 .. Len(signals) - 1
      /\ \A i \in 1 .. Len(signals) - 1 : signals'[i] = signals[i + 1]
  BY SignalTaken DEF LoginInv
<1>2. \A s \in Sid : \A i \in DOMAIN signals : SignalOK(i, s)
  BY DEF LoginInv
<1>3. ASSUME NEW s \in Sid, NEW i \in DOMAIN signals' PROVE SignalOK(i, s)'
  <2>1. i + 1 \in DOMAIN signals /\ signals'[i] = signals[i + 1] /\ i \in Nat
    BY <1>1
  <2>2. SignalOK(i + 1, s)
    BY <2>1, <1>2
  <2>3. ASSUME NEW j \in (i + 1) + 1 .. Len(signals)
        PROVE  j - 1 \in i + 1 .. Len(signals') /\ signals'[j - 1] = signals[j]
    <3>1. j - 1 \in 1 .. Len(signals) - 1 /\ (j - 1) + 1 = j /\ j - 1 \in i + 1 .. Len(signals')
      BY <2>1, <1>1
    <3> QED BY <3>1, <1>1
  <2> QED BY <2>1, <2>2, <2>3, Zenon DEF SignalOK
<1>4. ASSUME NEW s, NEW k, Waiting(k, s) PROVE Waiting(k, s)' \/ (k = kind /\ s = t)
  <2>1. PICK i \in DOMAIN signals : signals[i] = <<k, s>>
    BY <1>4 DEF Waiting
  <2>2. CASE i = 1
    <3>1. <<k, s>> = <<kind, t>>
      BY <2>1, <2>2, <1>1, Zenon
    <3> QED BY <3>1
  <2>3. CASE i # 1
    <3>1. i - 1 \in DOMAIN signals' /\ (i - 1) + 1 = i
      BY <2>3, <1>1
    <3>2. signals'[i - 1] = signals[i]
      BY <3>1, <1>1
    <3> QED BY <3>1, <3>2, <2>1 DEF Waiting
  <2> QED BY <2>2, <2>3
<1>5. SignalOK(1, t)
  BY <1>1, <1>2
<1>6. kind = "removed" => sess[t] = "closed"
  BY <1>1, <1>5 DEF SignalOK
<1>7. ASSUME kind = "new", sess[t] # "open" PROVE Waiting("removed", t)'
  <2>1. PICK j \in 1 + 1 .. Len(signals) : signals[j] = <<"removed", t>>
    BY <1>1, <1>5, <1>7 DEF SignalOK
  <2>2. j - 1 \in DOMAIN signals' /\ (j - 1) + 1 = j
    BY <1>1
  <2>3. signals'[j - 1] = signals[j]
    BY <2>2, <1>1
  <2> QED BY <2>1, <2>2, <2>3, Zenon DEF Waiting
<1> QED BY <1>3, <1>4, <1>6, <1>7

\* One recorded event, as a history of its own.
LEMMA OneEvent ==
    ASSUME NEW e
    PROVE  /\ IsHistory(<<e>>) /\ DOMAIN <<e>> = {1} /\ <<e>>[1] = e /\ Len(<<e>>) = 1
           /\ \A s \in Sid : s \in ActiveSessions(<<e>>) <=> e.sid = s /\ Opens(e)
<1>1. <<e>> \in Seq({e}) /\ DOMAIN <<e>> = {1} /\ <<e>>[1] = e /\ Len(<<e>>) = 1
  OBVIOUS
<1>2. \A i \in 1 + 1 .. Len(<<e>>) : FALSE
  BY <1>1
<1>3. \A s \in Sid : s \in ActiveSessions(<<e>>) <=> e.sid = s /\ Opens(e)
  BY <1>1, <1>2 DEF ActiveSessions
<1> QED BY <1>1, <1>3, TypedHistory, Zenon

\* What recording one event does to the history and to what has aged.
RecordFacts(e, ok) ==
    /\ IsHistory(lhist') /\ aged \subseteq aged'
    /\ \A i \in DOMAIN lhist' : (\E j \in DOMAIN lhist : lhist'[i] = lhist[j]) \/ lhist'[i] = e
    /\ \A s \in Sid :
         /\ s \in ActiveSessions(lhist') =>
              \/ s \in ActiveSessions(lhist) /\ (s # e.sid \/ Opens(e) \/ ~ok.write)
              \/ s = e.sid /\ Opens(e)
         /\ s \in ActiveSessions(lhist) /\ (s # e.sid \/ Opens(e))
              => s \in ActiveSessions(lhist') \/ s \in aged'
         /\ s = e.sid /\ Opens(e) /\ ok.write => s \in ActiveSessions(lhist') \/ s \in aged'

LEMMA RecordStep ==
    ASSUME IsHistory(lhist), NEW e, NEW ok \in Outcomes, RecordLogin(e, ok)
    PROVE  RecordFacts(e, ok)
<1>1. ok.read \in BOOLEAN /\ ok.write \in BOOLEAN
  BY DEF Outcomes
<1>2. CASE ~ok.write
  <2>1. lhist' = lhist /\ aged' = aged
    BY <1>2 DEF RecordLogin, AppendEvent
  <2> QED BY <2>1, <1>2, Zenon DEF RecordFacts
<1>3. CASE ok.write
  <2>1. PICK h, k, r, evs : h = lhist /\ k = lhist' /\ r = ok.read /\ evs = <<e>>
    OBVIOUS
  <2>2. k = Newest((IF r THEN h ELSE <<>>) \o evs, MaxHistory) /\ IsHistory(h) /\ r \in BOOLEAN
    BY <2>1, <1>1, <1>3, Zenon DEF RecordLogin, AppendEvent
  <2>3. /\ IsHistory(evs) /\ DOMAIN evs = {1} /\ evs[1] = e /\ Len(evs) = 1
        /\ \A s \in Sid : s \in ActiveSessions(evs) <=> e.sid = s /\ Opens(e)
    BY <2>1, OneEvent
  <2>4. aged \subseteq aged' /\ Pushed(h, evs, r) \subseteq aged'
    <3>1. aged' = aged \cup Evicted(e, ok)
      BY <1>3, Zenon DEF RecordLogin
    <3>2. Pushed(h, evs, r) = Evicted(e, ok)
      BY <2>1, <2>3, Zenon DEF Evicted, Pushed
    <3> QED BY <3>1, <3>2, Zenon
  <2>5. IsHistory(k)
    BY <2>2, <2>3, Recorded, Zenon
  <2>6. ASSUME NEW i \in DOMAIN k PROVE (\E j \in DOMAIN h : k[i] = h[j]) \/ k[i] = e
    <3>1. FromEither(k, h, evs, r)
      BY <2>2, <2>3, Recorded, Zenon
    <3>2. (\E j \in DOMAIN h : k[i] = h[j]) \/ \E j \in DOMAIN evs : k[i] = evs[j]
      BY <3>1, Zenon DEF FromEither
    <3> QED BY <3>2, <2>3, Zenon
  <2>7. \A s : /\ s \in ActiveSessions(k) =>
                    \/ s \in ActiveSessions(evs)
                    \/ s \in ActiveSessions(h) /\ \A j \in DOMAIN evs : evs[j].sid = s => Opens(evs[j])
               /\ \/ s \in ActiveSessions(evs)
                  \/ s \in ActiveSessions(h) /\ \A j \in DOMAIN evs : evs[j].sid = s => Opens(evs[j])
                  => s \in ActiveSessions(k) \/ s \in Pushed(h, evs, r)
    BY <2>2, <2>3, Recorded, Zenon
  <2>8. \A s : (\A j \in DOMAIN evs : evs[j].sid = s => Opens(evs[j])) <=> (s # e.sid \/ Opens(e))
    BY <2>3
  <2>9. ASSUME NEW s \in Sid
        PROVE  /\ s \in ActiveSessions(k) =>
                    \/ s \in ActiveSessions(h) /\ (s # e.sid \/ Opens(e))
                    \/ s = e.sid /\ Opens(e)
               /\ \/ s = e.sid /\ Opens(e)
                  \/ s \in ActiveSessions(h) /\ (s # e.sid \/ Opens(e))
                  => s \in ActiveSessions(k) \/ s \in aged'
    BY <2>3, <2>4, <2>7, <2>8, Zenon
  <2> QED BY <2>1, <2>4, <2>5, <2>6, <2>9, Zenon DEF RecordFacts
<1> QED BY <1>1, <1>2, <1>3

\* One signal, or one listed session, is taken off its queue.
Taken(kind, t) ==
    /\ \A s, k : Waiting(k, s) => Waiting(k, s)' \/ (k = kind /\ s = t)
    /\ \A s : Pending(s) => Pending(s)' \/ (kind = "pending" /\ s = t)
    /\ \A s : Pending(s)' => Pending(s)
    /\ \A s \in Sid : \A i \in DOMAIN signals' : SignalOK(i, s)'

\* An event is recorded, or its write fails: the end of a session that is
\* closed, or the start of one that is open, whose end is signalled, or
\* whose end was lost; with its origin vetted unless nobody is known.
LEMMA EventRecordedInv ==
    ASSUME LoginInv, NEW e, NEW ok \in Outcomes, RecordLogin(e, ok), NEW t \in Sid, e.sid = t,
           NEW kind, Taken(kind, t), sess' = sess,
           lm' \in {"down", "listed", "watching"},
           signals' \in Seq({"new", "removed"} \X Sid), signals' # <<>> => lm' = "watching",
           pending' \in Seq(Sid), pending' # <<>> => lm' = "listed",
           kind = "removed" <=> ~Opens(e),
           kind = "removed" => sess[t] # "open",
           kind # "removed" => sess[t] = "open" \/ t \in stale \/ Waiting("removed", t)',
           vetted \subseteq vetted',
           Opens(e) => e.user = Nobody \/ <<e.user, e.origin>> \in vetted'
    PROVE  LoginInv'
<1>1. LoginTyped /\ NoSilentOrigin /\ IsHistory(lhist)
  BY DEF LoginInv, LoginTyped
<1>2. RecordFacts(e, ok)
  BY <1>1, RecordStep
<1>3. LoginTyped'
  BY <1>1, <1>2 DEF LoginTyped, RecordFacts
<1>4. /\ stale \subseteq stale' /\ aged \subseteq aged'
      /\ \A s : s # t /\ s \in unseen => s \in unseen'
      /\ Opens(e) /\ ~ok.write => t \in unseen'
      /\ ~Opens(e) /\ ~ok.write => t \in stale'
  BY <1>2 DEF RecordLogin, RecordFacts
<1>5. ASSUME NEW s \in Sid PROVE SessionOK(s)'
  <2>1. SessionOK(s) /\ ((s \in ActiveSessions(lhist))' <=> s \in ActiveSessions(lhist'))
    BY DEF LoginInv, ActiveSessions
  <2>2. /\ s \in ActiveSessions(lhist') =>
             \/ s \in ActiveSessions(lhist) /\ (s # t \/ Opens(e) \/ ~ok.write)
             \/ s = t /\ Opens(e)
        /\ s \in ActiveSessions(lhist) /\ (s # t \/ Opens(e))
             => s \in ActiveSessions(lhist') \/ s \in aged'
        /\ s = t /\ Opens(e) /\ ok.write => s \in ActiveSessions(lhist') \/ s \in aged'
    BY <1>2, Zenon DEF RecordFacts
  <2>3. /\ Waiting("removed", s) => Waiting("removed", s)' \/ (kind = "removed" /\ s = t)
        /\ Waiting("new", s) => Waiting("new", s)' \/ (kind = "new" /\ s = t)
        /\ Pending(s) => Pending(s)' \/ (kind = "pending" /\ s = t)
        /\ Pending(s)' => Pending(s)
    BY Zenon DEF Taken
  <2>4. s \in ActiveSessions(lhist') /\ sess[s] # "open" => s \in stale' \/ Waiting("removed", s)'
    <3>1. CASE s = t
      BY <3>1, <2>1, <2>2, <2>3, <1>4, Zenon DEF SessionOK
    <3>2. CASE s # t
      BY <3>2, <2>1, <2>2, <2>3, <1>4, Zenon DEF SessionOK
    <3> QED BY <3>1, <3>2
  <2>5. sess[s] = "open" /\ s \notin ActiveSessions(lhist')
          => s \in unseen' \/ s \in aged' \/ Waiting("new", s)' \/ Pending(s)'
    <3>1. CASE s = t
      BY <3>1, <2>2, <1>4, Zenon
    <3>2. CASE s # t
      BY <3>2, <2>1, <2>2, <2>3, <1>4, Zenon DEF SessionOK
    <3> QED BY <3>1, <3>2
  <2>6. Pending(s)' => sess[s] = "open" \/ s \in stale'
    BY <2>1, <2>3, <1>4, Zenon DEF SessionOK
  <2> QED BY <2>1, <2>4, <2>5, <2>6, Zenon DEF SessionOK
<1>6. NoSilentOrigin'
  <2> SUFFICES ASSUME NEW i \in DOMAIN lhist', Opens(lhist'[i]), lhist'[i].user # Nobody
               PROVE  <<lhist'[i].user, lhist'[i].origin>> \in vetted'
    BY DEF NoSilentOrigin, Opens
  <2>1. CASE \E j \in DOMAIN lhist : lhist'[i] = lhist[j]
    BY <2>1, <1>1 DEF NoSilentOrigin
  <2>2. CASE lhist'[i] = e
    BY <2>2
  <2> QED BY <2>1, <2>2, <1>2, Zenon DEF RecordFacts
<1>7. \A s \in Sid : \A i \in DOMAIN signals' : SignalOK(i, s)'
  BY Zenon DEF Taken
<1> QED BY <1>3, <1>5, <1>6, <1>7, Zenon DEF LoginInv

\* A signal is taken off the queue.
LEMMA SignalMoves ==
    ASSUME LoginInv, signals # <<>>, NEW kind, signals[1][1] = kind, signals' = Tail(signals),
           NEW t, t = signals[1][2], UNCHANGED <<sess, lm, pending>>, kind # "pending"
    PROVE  /\ t \in Sid /\ Taken(kind, t)
           /\ lm' \in {"down", "listed", "watching"}
           /\ signals' \in Seq({"new", "removed"} \X Sid) /\ (signals' # <<>> => lm' = "watching")
           /\ pending' \in Seq(Sid) /\ (pending' # <<>> => lm' = "listed")
           /\ kind = "removed" => sess[t] = "closed"
           /\ kind = "new" => sess[t] = "open" \/ Waiting("removed", t)'
<1>1. LoginTyped
  BY DEF LoginInv
<1>2. t \in Sid /\ signals' \in Seq({"new", "removed"} \X Sid)
  BY <1>1, SignalTaken
<1>3. /\ \A s \in Sid : \A i \in DOMAIN signals' : SignalOK(i, s)'
      /\ \A s, k : Waiting(k, s) => Waiting(k, s)' \/ (k = kind /\ s = t)
      /\ kind = "removed" => sess[t] = "closed"
      /\ kind = "new" => sess[t] = "open" \/ Waiting("removed", t)'
  BY SignalsAfter, Zenon
<1>4. \A s : Pending(s)' <=> Pending(s)
  BY DEF Pending
<1>5. Taken(kind, t)
  BY <1>3, <1>4, Zenon DEF Taken
<1>6. /\ lm' \in {"down", "listed", "watching"} /\ lm = "watching"
      /\ pending' \in Seq(Sid) /\ (pending' # <<>> => lm' = "listed")
  BY <1>1 DEF LoginTyped
<1> QED BY <1>2, <1>3, <1>5, <1>6

\* A login that is not flagged as a new user's or a new source is like one
\* the history holds.
LEMMA Familiar ==
    ASSUME NEW e, NEW prior, UnusualReason(e, prior) \notin {"newuser", "newsource"}
    PROVE  \E i \in DOMAIN prior : /\ prior[i].user = e.user /\ Opens(prior[i])
                                  /\ prior[i].origin = e.origin
<1> DEFINE known == {i \in DOMAIN prior : prior[i].user = e.user /\ Opens(prior[i])}
<1>1. known # {} /\ ~\A i \in known : prior[i].origin # e.origin
  BY DEF UnusualReason
<1> QED BY <1>1

LEMMA HandleNewInv ==
    ASSUME LoginInv, HandleNew
    PROVE  LoginInv'
<1>1. /\ signals # <<>> /\ signals[1][1] = "new" /\ signals' = Tail(signals)
      /\ UNCHANGED <<sess, lm, pending>> /\ NoSilentOrigin
  BY DEF HandleNew, LoginInv
<1>2. PICK s : s = signals[1][2]
  OBVIOUS
<1>3. ASSUME NEW e, NEW ok \in Outcomes, RecordLogin(e, ok), e.sid = s, e.type = "login",
             vetted \subseteq vetted', e.user = Nobody \/ <<e.user, e.origin>> \in vetted'
      PROVE  LoginInv'
  <2>1. Opens(e)
    BY <1>3 DEF Opens
  <2>2. /\ s \in Sid /\ Taken("new", s)
        /\ lm' \in {"down", "listed", "watching"}
        /\ signals' \in Seq({"new", "removed"} \X Sid) /\ (signals' # <<>> => lm' = "watching")
        /\ pending' \in Seq(Sid) /\ (pending' # <<>> => lm' = "listed")
        /\ sess[s] = "open" \/ Waiting("removed", s)'
    BY <1>1, <1>2, SignalMoves
  <2> QED BY <2>1, <2>2, <1>1, <1>3, EventRecordedInv
<1>4. CASE RecordGone(s)
  <2>1. PICK e : e = LoginEvent("login", s, Nobody, LocalOrigin, StartHour[s])
    OBVIOUS
  <2>2. e.sid = s /\ e.type = "login" /\ e.user = Nobody
    BY <2>1 DEF LoginEvent
  <2>3. PICK ok \in Unchecked : RecordLogin(e, ok)
    BY <2>1, <1>4, Zenon DEF RecordGone
  <2>4. ok \in Outcomes /\ vetted' = vetted
    BY <1>4 DEF RecordGone, Unchecked
  <2> QED BY <2>2, <2>3, <2>4, <1>3, Zenon
<1>5. ASSUME NEW h \in Hours, NEW ip \in Lookups(SourceOf[s]), NEW ok \in Outcomes,
             RecordChecked(s, h, ip, ok)
      PROVE  LoginInv'
  <2>1. PICK e0 : e0 = LoginEvent("login", s, UserOf[s], SourceIdentity(s, ip), h)
    OBVIOUS
  <2>2. PICK e : e = [e0 EXCEPT !.unusual = UnusualReason(e0, IF ok.prior THEN lhist ELSE <<>>)]
    BY Zenon
  <2>3. /\ RecordLogin(e, ok)
        /\ vetted' = IF e.unusual \in {"newuser", "newsource"}
                     THEN vetted \cup {<<e.user, e.origin>>} ELSE vetted
    BY <2>1, <2>2, <1>5, Zenon DEF RecordChecked
  <2>4. /\ e.sid = s /\ e.type = "login" /\ e.user = e0.user /\ e.origin = e0.origin
        /\ e.unusual = UnusualReason(e0, IF ok.prior THEN lhist ELSE <<>>)
    BY <2>1, <2>2 DEF LoginEvent
  <2>5. vetted \subseteq vetted'
    BY <2>3
  <2>6. e.user = Nobody \/ <<e.user, e.origin>> \in vetted'
    <3>1. CASE e.unusual \in {"newuser", "newsource"}
      BY <3>1, <2>3
    <3>2. CASE e.unusual \notin {"newuser", "newsource"}
      <4>1. PICK prior : prior = IF ok.prior THEN lhist ELSE <<>>
        OBVIOUS
      <4>2. PICK i \in DOMAIN prior : /\ prior[i].user = e0.user /\ Opens(prior[i])
                                      /\ prior[i].origin = e0.origin
        BY <4>1, <3>2, <2>4, Familiar
      <4>3. prior = lhist
        BY <4>1, EmptyHistory
      <4>4. lhist[i].user # Nobody => <<lhist[i].user, lhist[i].origin>> \in vetted
        BY <4>2, <4>3, <1>1 DEF NoSilentOrigin
      <4> QED BY <4>2, <4>3, <4>4, <2>4, <2>5
    <3> QED BY <3>1, <3>2
  <2> QED BY <2>3, <2>4, <2>5, <2>6, <1>3
<1> QED BY <1>2, <1>4, <1>5 DEF HandleNew

LEMMA HandleRemovedInv ==
    ASSUME LoginInv, HandleRemoved
    PROVE  LoginInv'
<1>1. /\ signals # <<>> /\ signals[1][1] = "removed" /\ signals' = Tail(signals)
      /\ UNCHANGED <<sess, lm, pending, vetted>>
  BY DEF HandleRemoved, LoginInv
<1>2. PICK t : t = signals[1][2]
  OBVIOUS
<1>3. PICK ok \in Outcomes :
        LET user == IF ok.prior THEN LastUsername(lhist, t) ELSE Nobody
        IN  RecordLogin(LoginEvent("logout", t, user, LocalOrigin, StartHour[t]), ok)
  BY <1>2, Zenon DEF HandleRemoved
<1>4. PICK e, u : e = LoginEvent("logout", t, u, LocalOrigin, StartHour[t]) /\ RecordLogin(e, ok)
  BY <1>3, Zenon
<1>5. e.sid = t /\ ~Opens(e)
  BY <1>4 DEF LoginEvent, Opens
<1>6. /\ t \in Sid /\ Taken("removed", t)
      /\ lm' \in {"down", "listed", "watching"}
      /\ signals' \in Seq({"new", "removed"} \X Sid) /\ (signals' # <<>> => lm' = "watching")
      /\ pending' \in Seq(Sid) /\ (pending' # <<>> => lm' = "listed")
      /\ sess[t] = "closed"
  BY <1>1, <1>2, SignalMoves
<1> QED BY <1>1, <1>4, <1>5, <1>6, EventRecordedInv

LEMMA RecordExistingInv ==
    ASSUME LoginInv, RecordExisting
    PROVE  LoginInv'
<1>1. /\ lm = "listed" /\ pending # <<>> /\ pending' = Tail(pending) /\ LoginTyped
      /\ UNCHANGED <<sess, lm, signals>>
  BY DEF RecordExisting, LoginInv
<1>2. PICK t : t = Head(pending)
  OBVIOUS
<1>3. PICK ip \in Lookups(SourceOf[t]), ok \in Unchecked :
        LET e == LoginEvent("existing", t, UserOf[t], SourceIdentity(t, ip), StartHour[t])
        IN  RecordLogin(e, ok) /\ vetted' = vetted \cup {<<e.user, e.origin>>}
  BY <1>2, Zenon DEF RecordExisting
<1>4. PICK e : e = LoginEvent("existing", t, UserOf[t], SourceIdentity(t, ip), StartHour[t])
  BY Zenon
<1>5. RecordLogin(e, ok) /\ vetted' = vetted \cup {<<e.user, e.origin>>} /\ ok \in Outcomes
  BY <1>3, <1>4, Zenon DEF Unchecked
<1>6. e.sid = t /\ Opens(e)
  BY <1>4 DEF LoginEvent, Opens
<1>7. pending \in Seq(Sid)
  BY <1>1 DEF LoginTyped
<1>8. /\ t \in Sid /\ 1 \in DOMAIN pending /\ pending[1] = t
      /\ pending' \in Seq(Sid) /\ DOMAIN pending = 1 .. Len(pending) /\ Len(pending) \in Nat
      /\ DOMAIN pending' = 1 .. Len(pending) - 1
      /\ \A i \in 1 .. Len(pending) - 1 : pending'[i] = pending[i + 1]
  BY <1>1, <1>2, <1>7
<1>9. ASSUME NEW s, Pending(s) PROVE Pending(s)' \/ s = t
  <2>1. PICK i \in DOMAIN pending : pending[i] = s
    BY <1>9 DEF Pending
  <2>2. CASE i = 1
    BY <2>1, <2>2, <1>8
  <2>3. CASE i # 1
    <3>1. i - 1 \in DOMAIN pending' /\ (i - 1) + 1 = i
      BY <2>3, <1>8
    <3>2. pending'[i - 1] = pending[i]
      BY <3>1, <1>8
    <3> QED BY <3>1, <3>2, <2>1 DEF Pending
  <2> QED BY <2>2, <2>3
<1>10. ASSUME NEW s, Pending(s)' PROVE Pending(s)
  <2>1. PICK i \in DOMAIN pending' : pending'[i] = s
    BY <1>10 DEF Pending
  <2>2. i + 1 \in DOMAIN pending /\ pending'[i] = pending[i + 1]
    BY <1>8
  <2> QED BY <2>1, <2>2 DEF Pending
<1>11. Taken("pending", t)
  <2>1. \A s, k : Waiting(k, s) => Waiting(k, s)'
    BY <1>1 DEF Waiting
  <2>2. \A s \in Sid : \A i \in DOMAIN signals' : SignalOK(i, s)'
    BY <1>1, Zenon DEF LoginInv, SignalOK
  <2> QED BY <2>1, <2>2, <1>9, <1>10, Zenon DEF Taken
<1>12. sess[t] = "open" \/ t \in stale
  <2>1. Pending(t) /\ SessionOK(t)
    BY <1>8 DEF Pending, LoginInv
  <2> QED BY <2>1 DEF SessionOK
<1>13. /\ lm' \in {"down", "listed", "watching"}
       /\ signals' \in Seq({"new", "removed"} \X Sid) /\ (signals' # <<>> => lm' = "watching")
       /\ pending' # <<>> => lm' = "listed"
  BY <1>1 DEF LoginTyped
<1>14. vetted \subseteq vetted' /\ <<e.user, e.origin>> \in vetted'
  BY <1>5
<1> QED BY <1>1, <1>5, <1>6, <1>8, <1>11, <1>12, <1>13, <1>14, EventRecordedInv

-----------------------------------------------------------------------------
(* The connection monitor.                                                  *)

\* What the history shows has been sampled, or carried over a restart, or its
\* end was not written; what has been sampled is shown, or was pushed out, or
\* its start was not written.
ConnInv ==
    /\ bootstrapped \in BOOLEAN /\ prev \subseteq Conns /\ IsHistory(chist)
    /\ ~bootstrapped => prev = {}
    /\ ActiveConnections(chist) \subseteq prev \cup carried \cup unwritten
    /\ prev \subseteq ActiveConnections(chist) \cup forgotten \cup unwritten
    /\ NoSilentConnection

LEMMA ConnInitInv ==
    ASSUME ConnInit
    PROVE  ConnInv
<1>1. /\ bootstrapped = FALSE /\ prev = {} /\ chist = <<>> /\ IsHistory(chist) /\ DOMAIN chist = {}
  BY EmptyHistory DEF ConnInit
<1>2. ActiveConnections(chist) = {}
  BY <1>1 DEF ActiveConnections
<1> QED BY <1>1, <1>2, Zenon DEF ConnInv, NoSilentConnection

LEMMA ConnInvShown ==
    ASSUME ConnInv
    PROVE  ShownConnectionsAccurate /\ NoSilentConnection
<1>1. CASE chist = <<>>
  BY <1>1 DEF ConnInv, ShownConnectionsAccurate, ShownConnections
<1>2. CASE chist # <<>>
  BY <1>2 DEF ConnInv, ShownConnectionsAccurate, ShownConnections
<1> QED BY <1>1, <1>2

LEMMA ConnFrame ==
    ASSUME ConnInv, UNCHANGED <<prev, bootstrapped, chist, carried, unwritten, forgotten, noted>>
    PROVE  ConnInv'
BY Zenon DEF ConnInv, NoSilentConnection, ActiveConnections

\* After a restart everything shown is carried over.
LEMMA ConnRestartInv ==
    ASSUME ConnInv, ConnRestart
    PROVE  ConnInv'
<1>1. /\ prev' = {} /\ bootstrapped' = FALSE /\ carried' = ActiveConnections(chist) /\ unwritten' = {}
      /\ UNCHANGED <<chist, forgotten, noted>> /\ IsHistory(chist) /\ NoSilentConnection
  BY DEF ConnRestart, ConnInv
<1>2. ActiveConnections(chist)' = ActiveConnections(chist) /\ NoSilentConnection'
  BY <1>1 DEF ActiveConnections, NoSilentConnection
<1> QED BY <1>1, <1>2, Zenon DEF ConnInv

\* A list of events made from a listing of connections.
EventsAbout(g, q) ==
    /\ DOMAIN g = DOMAIN q /\ g = [i \in DOMAIN g |-> g[i]]
    /\ \A i \in DOMAIN q : g[i].conn = q[i]

EventsCover(g, S) ==
    /\ IsHistory(g) /\ \A i \in DOMAIN g : g[i].conn \in S
    /\ \A x \in S : \E i \in DOMAIN g : g[i].conn = x
    /\ (g = <<>>) <=> (S = {})
    /\ (\A i \in DOMAIN g : IsOpening(g[i])) => ActiveConnections(g) = S
    /\ (\A i \in DOMAIN g : ~IsOpening(g[i])) => ActiveConnections(g) = {}

LEMMA EventList ==
    ASSUME NEW S, NEW q \in Listings(S), NEW g, EventsAbout(g, q)
    PROVE  EventsCover(g, S)
<1> USE DEF EventsAbout
<1>1. /\ IsHistory(q) /\ Len(q) \in Nat /\ DOMAIN q = 1 .. Len(q)
      /\ \A i \in DOMAIN q : q[i] \in S
      /\ \A x \in S : \E i \in DOMAIN q : q[i] = x
  BY ListingFacts, HistoryFacts
<1>2. g \in Seq({g[i] : i \in DOMAIN g}) /\ Len(g) = Len(q)
  BY <1>1
<1>3. IsHistory(g)
  BY <1>2 DEF IsHistory
<1>4. \A x \in S : \E i \in DOMAIN g : g[i].conn = x
  BY <1>1
<1>5. \A i \in DOMAIN g : g[i].conn \in S
  BY <1>1
<1>6. (g = <<>>) <=> (S = {})
  <2>1. g = <<>> => S = {}
    BY <1>4, EmptyHistory
  <2>2. S = {} => DOMAIN g = {}
    BY <1>5
  <2>3. DOMAIN g = {} => g = <<>>
    BY <1>1, <1>2
  <2> QED BY <2>1, <2>2, <2>3
<1>7. ASSUME \A i \in DOMAIN g : IsOpening(g[i]) PROVE ActiveConnections(g) = S
  <2>1. \A i \in DOMAIN g : \A j \in i + 1 .. Len(g) : IsOpening(g[j])
    BY <1>7, <1>1, <1>2
  <2>2. ActiveConnections(g) = {g[i].conn : i \in DOMAIN g}
    BY <2>1, <1>7 DEF ActiveConnections
  <2> QED BY <2>2, <1>4, <1>5
<1>8. ASSUME \A i \in DOMAIN g : ~IsOpening(g[i]) PROVE ActiveConnections(g) = {}
  BY <1>8 DEF ActiveConnections
<1> QED BY <1>3, <1>4, <1>5, <1>6, <1>7, <1>8 DEF EventsCover

\* The events of a sample: they open the sample, or what is new in it, and
\* close what has left it.
SampleRecorded(evs, sample, prior) ==
    /\ IsHistory(evs)
    /\ ActiveConnections(evs) = sample \ prev
    /\ \A j \in DOMAIN evs : ~IsOpening(evs[j]) => evs[j].conn \in prev \ sample
    /\ \A c \in prev \ sample : \E j \in DOMAIN evs : evs[j].conn = c /\ ~IsOpening(evs[j])
    /\ \A j \in DOMAIN evs : IsOpening(evs[j]) =>
          \/ evs[j].type = "existing"
          \/ evs[j].unusual = ConnReason(evs[j].conn, prior)
    /\ \A j \in DOMAIN evs : IsOpening(evs[j]) => evs[j].conn \in sample \ prev
    /\ evs = <<>> => sample = prev

LEMMA SampleFacts ==
    ASSUME NEW prior, NEW sample \in SUBSET Conns, prev \subseteq Conns, ~bootstrapped => prev = {},
           bootstrapped \in BOOLEAN, NEW evs \in SampleEvents(prior, sample)
    PROVE  SampleRecorded(evs, sample, prior)
<1> USE DEF SampleRecorded
<1>1. CASE ~bootstrapped
  <2>1. PICK o \in Listings(sample) : evs = [i \in DOMAIN o |-> ConnEvent("existing", o[i])]
    BY <1>1 DEF SampleEvents, AnyOrder
  <2>2. DOMAIN evs = DOMAIN o /\ evs = [i \in DOMAIN evs |-> evs[i]]
        /\ \A i \in DOMAIN o : evs[i].conn = o[i] /\ evs[i].type = "existing"
    BY <2>1 DEF ConnEvent
  <2>3. \A i \in DOMAIN evs : IsOpening(evs[i])
    BY <2>2 DEF IsOpening
  <2>4. /\ IsHistory(evs) /\ \A i \in DOMAIN evs : evs[i].conn \in sample
        /\ (evs = <<>>) <=> (sample = {})
        /\ ActiveConnections(evs) = sample
    <3>1. EventsAbout(evs, o)
      BY <2>2 DEF EventsAbout
    <3>2. EventsCover(evs, sample)
      BY <3>1, EventList
    <3> QED BY <3>2, <2>3 DEF EventsCover
  <2> QED BY <2>2, <2>3, <2>4, <1>1, Zenon
<1>2. CASE bootstrapped
  <2>1. PICK o \in Listings(sample \ prev), c \in Listings(prev \ sample) :
          evs = [i \in DOMAIN o |-> Opened(o[i], prior)] \o [i \in DOMAIN c |-> ConnEvent("close", c[i])]
    <3>1. PICK o \in ByPort(sample \ prev), c \in ByPort(prev \ sample) : evs = DiffEvents(o, c, prior)
      BY <1>2, SMT DEF SampleEvents
    <3>2. o \in Listings(sample \ prev) /\ c \in Listings(prev \ sample)
      BY Zenon DEF ByPort
    <3> QED BY <3>1, <3>2, Zenon DEF DiffEvents
  <2>2. PICK f, g : /\ f = [i \in DOMAIN o |-> Opened(o[i], prior)]
                    /\ g = [i \in DOMAIN c |-> ConnEvent("close", c[i])]
    BY Zenon
  <2>3. DOMAIN f = DOMAIN o /\ f = [i \in DOMAIN f |-> f[i]]
        /\ \A i \in DOMAIN o : f[i].conn = o[i] /\ f[i].type = "open" /\ f[i].unusual = ConnReason(o[i], prior)
    BY <2>2 DEF Opened, ConnEvent
  <2>4. DOMAIN g = DOMAIN c /\ g = [i \in DOMAIN g |-> g[i]]
        /\ \A i \in DOMAIN c : g[i].conn = c[i] /\ g[i].type = "close"
    BY <2>2 DEF ConnEvent
  <2>5. (\A i \in DOMAIN f : IsOpening(f[i])) /\ (\A i \in DOMAIN g : ~IsOpening(g[i]))
    BY <2>3, <2>4 DEF IsOpening
  <2>6. /\ IsHistory(f) /\ \A i \in DOMAIN f : f[i].conn \in sample \ prev
        /\ (f = <<>>) <=> (sample \ prev = {})
        /\ ActiveConnections(f) = sample \ prev
    <3>1. EventsAbout(f, o)
      BY <2>3 DEF EventsAbout
    <3>2. EventsCover(f, sample \ prev)
      BY <3>1, EventList
    <3> QED BY <3>2, <2>5 DEF EventsCover
  <2>7. /\ IsHistory(g) /\ \A i \in DOMAIN g : g[i].conn \in prev \ sample
        /\ \A x \in prev \ sample : \E i \in DOMAIN g : g[i].conn = x
        /\ (g = <<>>) <=> (prev \ sample = {})
        /\ ActiveConnections(g) = {}
    <3>1. EventsAbout(g, c)
      BY <2>4 DEF EventsAbout
    <3>2. EventsCover(g, prev \ sample)
      BY <3>1, EventList
    <3> QED BY <3>2, <2>5 DEF EventsCover
  <2>8. evs = f \o g
    BY <2>1, <2>2
  <2>9. IsHistory(evs) /\ Len(evs) = Len(f) + Len(g)
    BY <2>6, <2>7, <2>8, Joined
  <2>10. \A x : x \in ActiveConnections(evs) <=>
               \/ x \in ActiveConnections(g)
               \/ x \in ActiveConnections(f) /\ \A j \in DOMAIN g : g[j].conn = x => IsOpening(g[j])
    BY <2>6, <2>7, <2>8, ConnectionsJoined, Zenon
  <2>11. ActiveConnections(evs) = sample \ prev
    BY <2>6, <2>7, <2>10
  <2>12. \A j \in DOMAIN evs : (\E i \in DOMAIN f : evs[j] = f[i]) \/ (\E i \in DOMAIN g : evs[j] = g[i])
    <3>1. \A j \in DOMAIN (f \o g) :
             \/ j \in DOMAIN f /\ (f \o g)[j] = f[j]
             \/ j - Len(f) \in DOMAIN g /\ (f \o g)[j] = g[j - Len(f)]
      BY <2>6, <2>7, JoinedEntries, Zenon
    <3> QED BY <3>1, <2>8, Zenon
  <2>13. \A i \in DOMAIN g : \E j \in DOMAIN evs : evs[j] = g[i]
    <3> SUFFICES ASSUME NEW i \in DOMAIN g PROVE \E j \in DOMAIN evs : evs[j] = g[i]
      OBVIOUS
    <3>1. /\ Len(f) \in Nat /\ Len(g) \in Nat /\ DOMAIN g = 1 .. Len(g) /\ DOMAIN evs = 1 .. Len(evs)
      BY <2>6, <2>7, <2>9, HistoryFacts
    <3>2. Len(f) + i \in DOMAIN evs
      BY <3>1, <2>9
    <3>3. (f \o g)[Len(f) + i] = g[i]
      BY <3>1, <2>6, <2>7, Joined
    <3> QED BY <3>2, <3>3, <2>8
  <2>14. evs = <<>> => sample = prev
    <3>1. \A n, m \in Nat : n + m = 0 => n = 0 /\ m = 0
      OBVIOUS
    <3>2. evs = <<>> => Len(f) = 0 /\ Len(g) = 0
      BY <3>1, <2>6, <2>7, <2>9, HistoryFacts, EmptyHistory
    <3>3. \A h : IsHistory(h) /\ Len(h) = 0 => h = <<>>
      BY DEF IsHistory
    <3> QED BY <3>2, <3>3, <2>6, <2>7, Zenon
  <2>15. \A j \in DOMAIN evs : IsOpening(evs[j]) =>
            evs[j].conn \in sample \ prev /\ evs[j].unusual = ConnReason(evs[j].conn, prior)
    <3> SUFFICES ASSUME NEW j \in DOMAIN evs, IsOpening(evs[j])
                 PROVE  evs[j].conn \in sample \ prev /\ evs[j].unusual = ConnReason(evs[j].conn, prior)
      OBVIOUS
    <3>1. PICK i \in DOMAIN f : evs[j] = f[i]
      BY <2>12, <2>5, Zenon
    <3> QED BY <3>1, <2>3, <2>6
  <2>16. \A j \in DOMAIN evs : ~IsOpening(evs[j]) => evs[j].conn \in prev \ sample
    BY <2>12, <2>5, <2>7, Zenon
  <2>17. \A x \in prev \ sample : \E j \in DOMAIN evs : evs[j].conn = x /\ ~IsOpening(evs[j])
    <3> SUFFICES ASSUME NEW x \in prev \ sample
                 PROVE  \E j \in DOMAIN evs : evs[j].conn = x /\ ~IsOpening(evs[j])
      OBVIOUS
    <3>1. PICK i \in DOMAIN g : g[i].conn = x
      BY <2>7, Zenon
    <3>2. PICK j \in DOMAIN evs : evs[j] = g[i]
      BY <2>13, Zenon
    <3>3. ~IsOpening(g[i])
      BY <2>5, Zenon
    <3> QED BY <3>1, <3>2, <3>3, Zenon
  <2> QED BY <2>9, <2>11, <2>14, <2>15, <2>16, <2>17, Zenon
<1> QED BY <1>1, <1>2, Zenon

\* The connections whose events leave the history when evs are recorded.
Dropped(h, all, readOk) ==
    {h[i].conn : i \in {i \in DOMAIN h : ~readOk}}
    \cup {all[i].conn : i \in 1 .. Len(all) - HistoryLimit}

\* Every entry of k is one of the others'.
EntriesOf(k, h, evs) ==
    \A i \in DOMAIN k : (\E j \in DOMAIN h : k[i] = h[j]) \/ \E j \in DOMAIN evs : k[i] = evs[j]

\* The history after a poll, as the connections it shows.
LEMMA PollHistory ==
    ASSUME NEW h, NEW evs, IsHistory(h), IsHistory(evs), NEW readOk \in BOOLEAN,
           NEW p, p = (IF readOk THEN h ELSE <<>>), NEW k, k = LastOf(p \o evs, HistoryLimit), NEW c
    PROVE  /\ IsHistory(k) /\ EntriesOf(k, h, evs)
           /\ c \in ActiveConnections(k) =>
                \/ c \in ActiveConnections(evs)
                \/ c \in ActiveConnections(h) /\ \A j \in DOMAIN evs : evs[j].conn = c => IsOpening(evs[j])
           /\ \/ c \in ActiveConnections(evs)
              \/ c \in ActiveConnections(h) /\ \A j \in DOMAIN evs : evs[j].conn = c => IsOpening(evs[j])
              => c \in ActiveConnections(k) \/ c \in Dropped(h, p \o evs, readOk)
<1> DEFINE keep == \A j \in DOMAIN evs : evs[j].conn = c => IsOpening(evs[j])
<1>1. PICK f : f = p \o evs
  BY Zenon
<1>2. IsHistory(p) /\ (readOk => p = h) /\ (~readOk => p = <<>>)
  BY EmptyHistory
<1>3. IsHistory(f) /\ Len(f) \in Nat
  BY <1>1, <1>2, Joined, HistoryFacts
<1>4. k = SubSeq(f, IF Len(f) > HistoryLimit THEN Len(f) - HistoryLimit + 1 ELSE 1, Len(f))
  BY <1>1, Zenon DEF LastOf
<1>5. IsHistory(k) /\ \E d \in Nat : SuffixOf(k, f, HistoryLimit, d)
  BY <1>3, <1>4, Suffix, ConnAssumption, Zenon
<1>6. PICK d \in Nat : SuffixOf(k, f, HistoryLimit, d)
  BY <1>5
<1>7. /\ c \in ActiveConnections(k) => c \in ActiveConnections(f)
      /\ c \in ActiveConnections(f) =>
           c \in ActiveConnections(k) \/ \E i \in 1 .. Len(f) - HistoryLimit : f[i].conn = c
  BY <1>3, <1>5, <1>6, ConnectionsSuffix, ConnAssumption
<1>8. c \in ActiveConnections(f) <=> c \in ActiveConnections(evs) \/ (c \in ActiveConnections(p) /\ keep)
  BY <1>1, <1>2, ConnectionsJoined
<1>9. c \in ActiveConnections(p) => c \in ActiveConnections(h)
  BY <1>2, EmptyHistory DEF ActiveConnections
<1>10. c \in ActiveConnections(h) => c \in ActiveConnections(p) \/ c \in Dropped(h, f, readOk)
  <2>1. CASE readOk
    BY <2>1, <1>2, Zenon
  <2>2. CASE ~readOk
    BY <2>2 DEF ActiveConnections, Dropped
  <2> QED BY <2>1, <2>2
<1>11. (\E i \in 1 .. Len(f) - HistoryLimit : f[i].conn = c) => c \in Dropped(h, f, readOk)
  BY Zenon DEF Dropped
<1>12. ASSUME NEW i \in DOMAIN k
       PROVE  (\E j \in DOMAIN h : k[i] = h[j]) \/ \E j \in DOMAIN evs : k[i] = evs[j]
  <2>1. Len(k) \in Nat /\ i \in 1 .. Len(k) /\ DOMAIN f = 1 .. Len(f)
    BY <1>3, <1>5, HistoryFacts
  <2>2. i + d \in DOMAIN f /\ k[i] = f[i + d]
    BY <2>1, <1>3, <1>6 DEF SuffixOf
  <2>3. \A x \in DOMAIN (p \o evs) :
           \/ x \in DOMAIN p /\ (p \o evs)[x] = p[x]
           \/ x - Len(p) \in DOMAIN evs /\ (p \o evs)[x] = evs[x - Len(p)]
    <3>1. IsHistory(p)
      BY <1>2
    <3> QED BY <3>1, JoinedEntries, Zenon
  <2>4. PICK x \in DOMAIN f : k[i] = f[x]
    BY <2>2, Zenon
  <2>5. \/ x \in DOMAIN p /\ f[x] = p[x]
        \/ x - Len(p) \in DOMAIN evs /\ f[x] = evs[x - Len(p)]
    BY <2>3, <1>1, Zenon
  <2>6. x \in DOMAIN p => p = h
    BY <1>2, EmptyHistory
  <2> QED BY <2>4, <2>5, <2>6, Zenon
<1>13. c \in ActiveConnections(k) => c \in ActiveConnections(evs) \/ (c \in ActiveConnections(h) /\ keep)
  BY <1>7, <1>8, <1>9
<1>14. c \in ActiveConnections(evs) \/ (c \in ActiveConnections(h) /\ keep)
         => c \in ActiveConnections(k) \/ c \in Dropped(h, f, readOk)
  BY <1>7, <1>8, <1>10, <1>11
<1>15. EntriesOf(k, h, evs)
  BY <1>12 DEF EntriesOf
<1> QED BY <1>1, <1>5, <1>13, <1>14, <1>15

\* A connection that opens without being flagged, and not on the agent's own
\* port, has no feature the history does not hold.
LEMMA FamiliarConnection ==
    ASSUME NEW c, NEW prior, ConnReason(c, prior) = "no", c.port # OwnPort, NEW x \in Features(c)
    PROVE  \E i \in DOMAIN prior : IsOpening(prior[i]) /\ x \in Features(prior[i].conn)
<1> DEFINE known == UNION {Features(prior[i].conn) : i \in {i \in DOMAIN prior : IsOpening(prior[i])}}
           new(kind) == \E f \in Features(c) \ known : f[1] = kind
<1>1. ~new("newport") /\ ~new("newprocess") /\ ~new("newremote")
  BY DEF ConnReason
<1>2. x[1] \in {"newport", "newprocess", "newremote"}
  <2>1. x = <<"newport", c.port>> \/ x = <<"newprocess", c.process>> \/ x = <<"newremote", c.remote>>
    BY Zenon DEF Features
  <2> QED BY <2>1
<1>3. x \in known
  BY <1>1, <1>2
<1> QED BY <1>3

\* What a poll does to the history, given what was recorded.
PollEffect(evs, ok) ==
    /\ AppendEvents(evs, ok)
    /\ noted' = noted \cup UNION {Features(evs[i].conn) : i \in {i \in DOMAIN evs :
           \/ evs[i].type = "existing" \/ evs[i].unusual # "no"
           \/ evs[i].conn.port = OwnPort}}

LEMMA PollOnceInv ==
    ASSUME ConnInv, NEW sample \in SUBSET Conns, PollOnce(sample)
    PROVE  ConnInv'
<1>1. /\ bootstrapped \in BOOLEAN /\ prev \subseteq Conns /\ IsHistory(chist) /\ (~bootstrapped => prev = {})
      /\ ActiveConnections(chist) \subseteq prev \cup carried \cup unwritten
      /\ prev \subseteq ActiveConnections(chist) \cup forgotten \cup unwritten /\ NoSilentConnection
  BY DEF ConnInv
<1>2. prev' = sample /\ bootstrapped' = TRUE /\ carried' = carried \ sample
  BY DEF PollOnce
<1>3. PICK ok \in Outcomes :
        \E evs \in SampleEvents(IF ok.prior THEN chist ELSE <<>>, sample) : PollEffect(evs, ok)
  BY Zenon DEF PollOnce, PollEffect
<1>4. PICK prior, p, r : /\ prior = IF ok.prior THEN chist ELSE <<>>
                         /\ p = IF r THEN chist ELSE <<>>
                         /\ r = ok.read
  OBVIOUS
<1>5. PICK evs \in SampleEvents(prior, sample) : PollEffect(evs, ok)
  BY <1>3, <1>4, Zenon
<1>6. PICK about : about = {evs[i].conn : i \in DOMAIN evs}
  BY Zenon
<1>7. /\ IsHistory(evs)
      /\ ActiveConnections(evs) = sample \ prev
      /\ \A j \in DOMAIN evs : ~IsOpening(evs[j]) => evs[j].conn \in prev \ sample
      /\ \A c \in prev \ sample : \E j \in DOMAIN evs : evs[j].conn = c /\ ~IsOpening(evs[j])
      /\ \A j \in DOMAIN evs : IsOpening(evs[j]) =>
            \/ evs[j].type = "existing"
            \/ evs[j].unusual = ConnReason(evs[j].conn, prior)
      /\ \A j \in DOMAIN evs : IsOpening(evs[j]) => evs[j].conn \in sample \ prev
      /\ evs = <<>> => sample = prev
  <2>1. SampleRecorded(evs, sample, prior)
    BY <1>1, SampleFacts
  <2> QED BY <2>1, Zenon DEF SampleRecorded
<1>8. noted' = noted \cup UNION {Features(evs[i].conn) : i \in {i \in DOMAIN evs :
           \/ evs[i].type = "existing" \/ evs[i].unusual # "no"
           \/ evs[i].conn.port = OwnPort}}
  BY <1>5, Zenon DEF PollEffect
<1>9. noted \subseteq noted' /\ ActiveConnections(chist)' = ActiveConnections(chist')
  BY <1>8, Zenon DEF ActiveConnections
<1>10. (prev \ sample) \subseteq about /\ (sample \ prev) \subseteq about
  <2>1. ActiveConnections(evs) \subseteq about
    BY <1>6, Zenon DEF ActiveConnections
  <2>2. \A c \in prev \ sample : c \in about
    BY <1>6, <1>7, Zenon
  <2> QED BY <2>1, <2>2, <1>7, Zenon
<1>11. CASE evs = <<>>
  <2>1. UNCHANGED <<chist, forgotten, unwritten>> /\ sample = prev
    BY <1>5, <1>7, <1>11, Zenon DEF PollEffect, AppendEvents
  <2>2. NoSilentConnection'
    BY <2>1, <1>1, <1>9 DEF NoSilentConnection
  <2> QED BY <2>1, <2>2, <1>1, <1>2, <1>9 DEF ConnInv
<1>12. CASE evs # <<>> /\ ~ok.write
  <2>1. UNCHANGED <<chist, forgotten>> /\ unwritten' = unwritten \cup about
    BY <1>5, <1>6, <1>12, Zenon DEF PollEffect, AppendEvents
  <2>2. NoSilentConnection'
    BY <2>1, <1>1, <1>9 DEF NoSilentConnection
  <2>3. ActiveConnections(chist) \subseteq sample \cup (carried \ sample) \cup unwritten'
    BY <2>1, <1>1, <1>10
  <2>4. sample \subseteq ActiveConnections(chist) \cup forgotten \cup unwritten'
    BY <2>1, <1>1, <1>10
  <2> QED BY <2>1, <2>2, <2>3, <2>4, <1>1, <1>2, <1>9 DEF ConnInv
<1>13. CASE evs # <<>> /\ ok.write
  <2>1. PICK h, k : h = chist /\ k = chist'
    OBVIOUS
  <2>2. /\ k = LastOf(p \o evs, HistoryLimit) /\ IsHistory(h) /\ p = (IF r THEN h ELSE <<>>)
        /\ r \in BOOLEAN
    <3>1. chist' = LastOf((IF ok.read THEN chist ELSE <<>>) \o evs, HistoryLimit)
      BY <1>5, <1>13, Zenon DEF PollEffect, AppendEvents
    <3>2. r \in BOOLEAN
      BY <1>4 DEF Outcomes
    <3> QED BY <3>1, <3>2, <2>1, <1>1, <1>4, Zenon
  <2>3. /\ unwritten' = unwritten \ about /\ forgotten \subseteq forgotten'
        /\ Dropped(h, p \o evs, r) \subseteq forgotten'
    <3>1. /\ unwritten' = unwritten \ about
          /\ forgotten' = forgotten
                 \cup {chist[i].conn : i \in {i \in DOMAIN chist : ~r}}
                 \cup {(p \o evs)[i].conn : i \in 1 .. Len(p \o evs) - HistoryLimit}
      BY <1>4, <1>5, <1>6, <1>13, Zenon DEF PollEffect, AppendEvents
    <3> QED BY <3>1, <2>1, Zenon DEF Dropped
  <2>4. IsHistory(k) /\ EntriesOf(k, h, evs)
    BY <2>2, <1>7, PollHistory, Zenon
  <2>5. ASSUME NEW c
        PROVE  /\ c \in ActiveConnections(k) =>
                    \/ c \in ActiveConnections(evs)
                    \/ c \in ActiveConnections(h) /\ \A j \in DOMAIN evs : evs[j].conn = c => IsOpening(evs[j])
               /\ \/ c \in ActiveConnections(evs)
                  \/ c \in ActiveConnections(h) /\ \A j \in DOMAIN evs : evs[j].conn = c => IsOpening(evs[j])
                  => c \in ActiveConnections(k) \/ c \in Dropped(h, p \o evs, r)
    BY <2>2, <1>7, PollHistory, Zenon
  <2>6. ASSUME NEW c PROVE (\A j \in DOMAIN evs : evs[j].conn = c => IsOpening(evs[j])) <=> c \notin prev \ sample
    BY <1>7
  <2>7. ActiveConnections(k) \subseteq sample \cup (carried \ sample) \cup unwritten'
    <3> SUFFICES ASSUME NEW c \in ActiveConnections(k), c \notin sample, c \notin carried
                 PROVE  c \in unwritten'
      OBVIOUS
    <3>1. c \in ActiveConnections(h) /\ c \notin prev \ sample
      BY <2>5, <2>6, <1>7, Zenon
    <3>2. c \in unwritten
      BY <3>1, <2>1, <1>1
    <3>3. c \notin about
      <4> SUFFICES ASSUME NEW j \in DOMAIN evs, evs[j].conn = c PROVE FALSE
        BY <1>6, Zenon
      <4>1. c \in sample \ prev \/ c \in prev \ sample
        BY <1>7, Zenon
      <4> QED BY <4>1, <3>1, Zenon
    <3> QED BY <3>2, <3>3, <2>3, Zenon
  <2>8. sample \subseteq ActiveConnections(k) \cup forgotten' \cup unwritten'
    <3> SUFFICES ASSUME NEW c \in sample, c \notin ActiveConnections(k), c \notin forgotten'
                 PROVE  c \in unwritten'
      OBVIOUS
    <3>1. c \notin ActiveConnections(evs) /\ c \notin ActiveConnections(h)
      BY <2>3, <2>5, <2>6, Zenon
    <3>2. c \in prev /\ c \in unwritten
      BY <3>1, <2>1, <2>3, <1>1, <1>7, Zenon
    <3>3. c \notin about
      <4> SUFFICES ASSUME NEW j \in DOMAIN evs, evs[j].conn = c PROVE FALSE
        BY <1>6, Zenon
      <4>1. IsOpening(evs[j])
        BY <1>7, Zenon
      <4> QED BY <4>1, <3>2, <1>7, Zenon
    <3> QED BY <3>2, <3>3, <2>3, Zenon
  <2>9. NoSilentConnection'
    <3> SUFFICES ASSUME NEW i \in DOMAIN k, IsOpening(k[i]), NEW x \in Features(k[i].conn) PROVE x \in noted'
      BY <2>1, Zenon DEF NoSilentConnection, IsOpening, Features, Direction
    <3>1. CASE \E j \in DOMAIN h : k[i] = h[j]
      BY <3>1, <2>1, <1>1, <1>9, Zenon DEF NoSilentConnection
    <3>2. CASE \E j \in DOMAIN evs : k[i] = evs[j]
      <4>1. PICK j \in DOMAIN evs : k[i] = evs[j]
        BY <3>2
      <4>2. CASE evs[j].type = "existing" \/ evs[j].unusual # "no" \/ evs[j].conn.port = OwnPort
        BY <4>1, <4>2, <1>8
      <4>3. CASE ~(evs[j].type = "existing" \/ evs[j].unusual # "no" \/ evs[j].conn.port = OwnPort)
        <5>1. ConnReason(evs[j].conn, prior) = "no" /\ evs[j].conn.port # OwnPort
          BY <4>1, <4>3, <1>7, Zenon
        <5>2. PICK n \in DOMAIN prior : IsOpening(prior[n]) /\ x \in Features(prior[n].conn)
          BY <5>1, <4>1, FamiliarConnection, Zenon
        <5>3. prior = chist
          BY <1>4, EmptyHistory
        <5> QED BY <5>2, <5>3, <1>1, <1>9, Zenon DEF NoSilentConnection
      <4> QED BY <4>2, <4>3, Zenon
    <3> QED BY <3>1, <3>2, <2>4, Zenon DEF EntriesOf
  <2> QED BY <2>1, <2>4, <2>7, <2>8, <2>9, <1>2, <1>9 DEF ConnInv
<1> QED BY <1>11, <1>12, <1>13

-----------------------------------------------------------------------------
(* The monitors together.                                                   *)

MonitorsInv == LoginInv /\ ConnInv

LEMMA LoginNextInv ==
    ASSUME LoginInv, LoginNext
    PROVE  LoginInv'
<1>1. CASE Watch
  BY <1>1, SessionOpensInv, SessionClosesInv, ConnectInv, RecordExistingInv, SubscribeInv, HandleNewInv,
     HandleRemovedInv, DropInv
  DEF Watch
<1>2. CASE CheckLogins
  <2>1. UNCHANGED watchVars
    BY <1>2 DEF CheckLogins, watchVars, loginHistory
  <2> QED BY <2>1, LoginFrame
<1>3. CASE Resolves
  <2>1. UNCHANGED watchVars
    BY <1>3 DEF Resolves, watchVars, loginHistory
  <2> QED BY <2>1, LoginFrame
<1>4. ASSUME NEW k \in Suspects, HandleFailure(k) PROVE LoginInv'
  <2>1. UNCHANGED watchVars
    BY <1>4 DEF HandleFailure, watchVars
  <2> QED BY <2>1, LoginFrame
<1> QED BY <1>1, <1>2, <1>3, <1>4 DEF LoginNext

LEMMA ConnNextInv ==
    ASSUME ConnInv, ConnNext
    PROVE  ConnInv'
<1>1. CASE CheckConnections
  <2>1. UNCHANGED <<prev, bootstrapped, chist, carried, unwritten, forgotten, noted>>
    BY <1>1 DEF CheckConnections
  <2> QED BY <2>1, ConnFrame
<1> QED BY <1>1, PollOnceInv, ConnRestartInv DEF ConnNext

LEMMA MonitorsStepInv ==
    ASSUME MonitorsInv, [MonitorsNext]_monitorVars
    PROVE  MonitorsInv'
<1>1. UNCHANGED loginVars => LoginInv'
  <2>1. UNCHANGED loginVars => UNCHANGED watchVars
    BY DEF loginVars, loginHistory, watchVars
  <2> QED BY <2>1, LoginFrame DEF MonitorsInv
<1>2. UNCHANGED connVars => ConnInv'
  <2>1. UNCHANGED connVars => UNCHANGED <<prev, bootstrapped, chist, carried, unwritten, forgotten, noted>>
    BY DEF connVars
  <2> QED BY <2>1, ConnFrame DEF MonitorsInv
<1>3. LoginNext => LoginInv'
  BY LoginNextInv DEF MonitorsInv
<1>4. ConnNext => ConnInv'
  BY ConnNextInv DEF MonitorsInv
<1>5. UNCHANGED monitorVars => UNCHANGED loginVars /\ UNCHANGED connVars
  BY DEF monitorVars
<1> QED BY <1>1, <1>2, <1>3, <1>4, <1>5 DEF MonitorsNext, MonitorsInv

LEMMA MonitorsAlways == MonitorsSpec => []MonitorsInv
<1>1. MonitorsInit => MonitorsInv
  BY LoginInitInv, ConnInitInv DEF MonitorsInit, MonitorsInv
<1>2. MonitorsInv /\ [MonitorsNext]_monitorVars => MonitorsInv'
  BY MonitorsStepInv
<1> QED BY <1>1, <1>2, PTL DEF MonitorsSpec

\* For any sessions, cap and number of lost connections: what the API and the
\* check_interactive_logins tool show as active sessions is what logind has
\* open, but for signals lost while nobody watched, events whose write failed
\* (loginmonitor.go:339), signals and listed sessions still to be handled, and
\* what was pushed out (ActiveSessions, loginmonitor.go:362).
THEOREM SessionsShownAreOpen == MonitorsSpec => []ShownSessionsAccurate
<1>1. MonitorsInv => ShownSessionsAccurate
  BY LoginInvShown DEF MonitorsInv
<1> QED BY <1>1, MonitorsAlways, PTL

\* No user's origin enters the login history without having been flagged or
\* found at start-up, whatever is evicted or cannot be read
\* (checkAgainstBaseline, loginmonitor/baseline.go:34).
THEOREM OriginsAreVetted == MonitorsSpec => []NoSilentOrigin
<1>1. MonitorsInv => NoSilentOrigin
  BY LoginInvShown DEF MonitorsInv
<1> QED BY <1>1, MonitorsAlways, PTL

\* For any connections and cap: what is shown as active after a poll is the
\* sample, but for what a restart carried over, what was pushed out, and the
\* connections whose last events could not be written although the sample was
\* kept (connmonitor.go:269; ActiveConnections, connmonitor.go:331).
THEOREM ConnectionsShownAreSampled == MonitorsSpec => []ShownConnectionsAccurate
<1>1. MonitorsInv => ShownConnectionsAccurate
  BY ConnInvShown DEF MonitorsInv
<1> QED BY <1>1, MonitorsAlways, PTL

\* No port, process or remote host enters the connection history unnoticed,
\* whatever opens in the same poll (checkAgainstBaseline,
\* connmonitor/baseline.go:26).
THEOREM ConnectionsAreVetted == MonitorsSpec => []NoSilentConnection
<1>1. MonitorsInv => NoSilentConnection
  BY ConnInvShown DEF MonitorsInv
<1> QED BY <1>1, MonitorsAlways, PTL
=============================================================================
