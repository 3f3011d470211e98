---------------------------- MODULE MemoryProofs ----------------------------
(***************************************************************************)
(* Proofs about the file-backed memory, for any goroutines, keys, tiers    *)
(* and times, and for any number of crashes, failed calls and Clears.      *)
(***************************************************************************)
EXTENDS Memory, FiniteSetTheorems, SequenceTheorems, WellFoundedInduction, TLAPS

(* What a map of keys, or a blob, can be.                                  *)
Content == {v \in SUBSET Keys : IsFiniteSet(v)}

Local ==
    [pc : {"idle"} \cup DomainPc \cup AttrsPc, key : Content, val : Content,
     old : Nat, del : SUBSET Nat, freed : Nat]

StoreTyped ==
    /\ now \in Nat
    /\ Times \subseteq 1 .. now /\ wrote \subseteq 1 .. now /\ clr.json \subseteq 1 .. now
    /\ \A t \in Times : snaps[t] \in Content
    /\ clearing \in BOOLEAN

Typed ==
    /\ StoreTyped
    /\ attrs \in [st : {"missing", "torn", "ok"}, keys : Content]
    /\ ps \in [Procs -> Local]

(* The snapshots RecentHistoryKept is about.                               *)
Recent == {w \in wrote : Lasted(w) /\ now - w <= Tiers[1].horizon}

(***************************************************************************)
(* A goroutine inside a domain operation has the mutex; until its rename   *)
(* it carries every key stored so far, and its timestamp is newer than     *)
(* every snapshot; after it, the snapshot of that timestamp is there (or   *)
(* Clear has taken it), and neither it nor recent history is to be deleted.*)
(***************************************************************************)
DomainOK(p) ==
    LET q == ps[p]
    IN  /\ q.pc \in DomainPc => dmu = p
        /\ q.pc \in {"mkdir", "tmp", "rename"} /\ mode = "key" => kept \cup q.key \subseteq q.val
        /\ q.pc \in {"tmp", "rename"} => now > 0 /\ now \notin Times /\ now \notin clr.json
        /\ q.pc \in {"prune", "remove", "account"} => clearing \/ Times = {} \/ now \in Times
        /\ q.pc = "remove" => now \notin q.del /\ Recent \cap q.del = {}

(* Until its rename, an attrs operation carries every key it does not      *)
(* itself set or delete.                                                   *)
AttrsOK(p) ==
    /\ ps[p].pc \in AttrsPc => amu = p
    /\ ps[p].pc \in {"aTmp", "aRename"} => akept \ ps[p].key \subseteq ps[p].val

(* The newest snapshot is the last one put in place, and Clear will not    *)
(* unlink it.                                                              *)
NewestIsLast ==
    /\ Times = {} => last = None
    /\ Times # {} => \E m \in Times \ clr.json : snaps[m] = last /\ \A u \in Times : u <= m

(* What was put in place since Clear reached the domain is not on Clear's  *)
(* list, and every snapshot newer than such a one is such a one.           *)
HistoryOK ==
    /\ clearing => kept = {} /\ wrote = {}
    /\ ~clearing => NewestIsLast
    /\ mode = "key" => kept \subseteq last
    /\ wrote \cap clr.json = {}
    /\ \A w \in wrote, u \in Times : u > w => u \in wrote
    /\ Recent \subseteq Times

MemoryInv ==
    /\ Typed
    /\ \A p \in Procs : DomainOK(p) /\ AttrsOK(p)
    /\ HistoryOK
    /\ AttrsDurable

(* A nonempty set of times has a greatest element.                         *)
LEMMA MaxExists ==
  ASSUME NEW n \in Nat, NEW T \in SUBSET (1 .. n), T # {}
  PROVE  \E m \in T : \A u \in T : u <= m
  <1> DEFINE D == {n - t : t \in T}
  <1>1. D \subseteq Nat /\ D # {}
    <2>1. ASSUME NEW t \in T PROVE n - t \in Nat
      OBVIOUS
    <2>2. PICK t \in T : TRUE
      OBVIOUS
    <2>3. n - t \in D
      OBVIOUS
    <2> QED
      BY <2>1, <2>3
  <1>2. PICK d \in D : \A e \in D : ~(<<e, d>> \in OpToRel(<, Nat))
    BY <1>1, NatLessThanWellFounded, WFMin
  <1>3. \A e \in D : ~(e < d)
    BY <1>1, <1>2 DEF OpToRel
  <1>4. PICK m \in T : d = n - m
    OBVIOUS
  <1>5. ASSUME NEW u \in T PROVE u <= m
    <2>1. n - u \in D
      OBVIOUS
    <2>2. ~(n - u < n - m)
      BY <1>3, <1>4, <2>1
    <2> QED
      BY <2>2
  <1> QED
    BY <1>5

(* The newest of a set is its greatest element.                            *)
LEMMA NewestMax ==
  ASSUME NEW T \in SUBSET Nat, NEW m \in T, \A u \in T : u <= m
  PROVE  Newest(T) = m
  <1>1. Newest(T) \in T /\ \A u \in T : u <= Newest(T)
    <2>1. \E t \in T : \A u \in T : u <= t
      OBVIOUS
    <2> QED
      BY <2>1, Zenon DEF Newest
  <1>2. Newest(T) \in Nat /\ m \in Nat /\ Newest(T) <= m /\ m <= Newest(T)
    BY <1>1, Zenon
  <1> QED
    BY <1>2

LEMMA CurrentNewest ==
  ASSUME StoreTyped, NEW m \in Times, \A u \in Times : u <= m
  PROVE  Current = snaps[m] /\ Newest(Times) = m
  <1>1. Times \in SUBSET Nat
    BY DEF StoreTyped
  <1>2. Newest(Times) = m
    BY <1>1, NewestMax, Zenon
  <1> QED
    BY <1>2 DEF Current

LEMMA CurrentLast ==
  ASSUME StoreTyped, NewestIsLast
  PROVE  Current = last
  <1>1. CASE Times = {}
    BY <1>1 DEF NewestIsLast, Current
  <1>2. CASE Times # {}
    BY <1>2, CurrentNewest DEF NewestIsLast
  <1> QED
    BY <1>1, <1>2

LEMMA CurrentContent ==
  ASSUME StoreTyped
  PROVE  Current \in Content
  <1>1. CASE Times = {}
    BY <1>1, FS_EmptySet DEF Current, None, Content
  <1>2. CASE Times # {}
    <2>1. now \in Nat /\ Times \in SUBSET (1 .. now)
      BY DEF StoreTyped
    <2>2. PICK m \in Times : \A u \in Times : u <= m
      BY <1>2, <2>1, MaxExists, Zenon
    <2> QED
      BY <2>2, CurrentNewest DEF StoreTyped
  <1> QED
    BY <1>1, <1>2

(* What an operation starts from holds every key stored so far: Clear can  *)
(* only take a newest file away that was there before it.                  *)
LEMMA ReadableKeeps ==
  ASSUME StoreTyped, HistoryOK, NEW v \in Readable
  PROVE  v \in Content /\ (mode = "key" => kept \subseteq v)
  <1>1. v \in Content
    BY CurrentContent, FS_EmptySet DEF Readable, None, Content
  <1>2. CASE clearing
    BY <1>1, <1>2 DEF HistoryOK
  <1>3. CASE ~clearing
    <2>1. NewestIsLast /\ (mode = "key" => kept \subseteq last)
      BY <1>3 DEF HistoryOK
    <2>2. ~(Times # {} /\ Newest(Times) \in clr.json)
      <3>1. CASE Times # {}
        <4>1. PICK m \in Times \ clr.json : \A u \in Times : u <= m
          BY <2>1, <3>1 DEF NewestIsLast
        <4> QED
          BY <4>1, CurrentNewest
      <3> QED
        BY <3>1
    <2>3. v = last
      BY <2>1, <2>2, CurrentLast DEF Readable
    <2> QED
      BY <1>1, <2>1, <2>3
  <1> QED
    BY <1>2, <1>3

(* Sizes of contents are numbers.                                          *)
LEMMA SizesTyped ==
  /\ \A v \in Content : Len1(v) \in Nat
  /\ Typed => AttrsSize \in Nat
  <1>1. ASSUME NEW v \in Content PROVE Len1(v) \in Nat
    BY FS_CardinalityType DEF Content, Len1
  <1> QED
    BY <1>1 DEF AttrsSize, Typed

(* Adding a key to a content, or taking one away, gives a content.         *)
LEMMA ContentClosed ==
  ASSUME NEW v \in Content, NEW k \in Keys
  PROVE  {k} \in Content /\ v \cup {k} \in Content /\ v \ {k} \in Content
  BY FS_AddElement, FS_RemoveElement, FS_Singleton DEF Content

-----------------------------------------------------------------------------
(* The retention policy.                                                    *)

(* The tiers are numbered from one, and the last one reaches furthest.     *)
LEMMA TiersTyped ==
  /\ 1 \in DOMAIN Tiers /\ Tiers[1].horizon \in Nat /\ Tiers[1].bucket \in Nat \ {0}
  /\ MaxAge \in Nat /\ Tiers[1].horizon <= MaxAge
  <1> DEFINE Tier == [horizon : Nat, bucket : Nat \ {0}]
  <1>1. Tiers \in Seq(Tier) /\ Tiers # <<>>
    BY MemoryAssumption
  <1>2. Len(Tiers) \in Nat /\ DOMAIN Tiers = 1 .. Len(Tiers) /\ Tiers \in [1 .. Len(Tiers) -> Tier]
    BY <1>1, LenProperties
  <1>3. Len(Tiers) # 0
    BY <1>1, EmptySeq
  <1>4. 1 \in DOMAIN Tiers /\ Len(Tiers) \in DOMAIN Tiers
    BY <1>2, <1>3
  <1>5. Tiers[1] \in Tier /\ Tiers[Len(Tiers)] \in Tier
    BY <1>2, <1>4
  <1>6. Len(Tiers) = 1 \/ Tiers[1].horizon < Tiers[Len(Tiers)].horizon
    BY <1>2, <1>3, <1>4, MemoryAssumption
  <1> QED
    BY <1>4, <1>5, <1>6 DEF MaxAge

(* An age within the first horizon belongs to the first tier.              *)
LEMMA FirstTier ==
  ASSUME NEW a \in Nat, a <= Tiers[1].horizon
  PROVE  BucketOf(a) = <<1, a \div Tiers[1].bucket>>
  <1> DEFINE Q(j) == a <= Tiers[j].horizon /\ \A k \in 1 .. j - 1 : a > Tiers[k].horizon
  <1>1. Q(1) /\ 1 \in DOMAIN Tiers
    BY TiersTyped
  <1>2. ASSUME NEW j \in DOMAIN Tiers, Q(j) PROVE j = 1
    <2>1. j \in Nat /\ j >= 1
      <3>1. Tiers \in Seq([horizon : Nat, bucket : Nat \ {0}])
        BY MemoryAssumption
      <3> QED
        BY <3>1, LenProperties
    <2>2. CASE j > 1
      <3>1. a > Tiers[1].horizon
        BY <1>2, <2>1, <2>2
      <3> QED
        BY <3>1, TiersTyped
    <2> QED
      BY <2>1, <2>2
  <1>3. (CHOOSE j \in DOMAIN Tiers : Q(j)) = 1
    BY <1>1, <1>2, Zenon
  <1> QED
    BY <1>3 DEF BucketOf

(* Ages a bucket apart are in different buckets.                           *)
LEMMA DivApart ==
  ASSUME NEW a \in Nat, NEW c \in Nat, NEW b \in Nat \ {0}, c + b <= a
  PROVE  a \div b # c \div b
  OBVIOUS

(* prune spares the snapshot just written and recent history.              *)
LEMMA PruneSpares ==
  ASSUME StoreTyped, HistoryOK
  PROVE  /\ Pruned(Times, now) \subseteq Times
         /\ now \notin Pruned(Times, now)
         /\ Recent \cap Pruned(Times, now) = {}
  <1>1. now \in Nat /\ Times \subseteq 1 .. now /\ wrote \subseteq 1 .. now
    BY DEF StoreTyped
  <1>2. now \notin Pruned(Times, now)
    <2>1. ~(now - now > MaxAge)
      BY <1>1, TiersTyped
    <2>2. ~ \E u \in Times : u > now
      BY <1>1
    <2> QED
      BY <2>1, <2>2 DEF Pruned
  <1>3. ASSUME NEW w \in Recent PROVE w \notin Pruned(Times, now)
    <2>0. w \in wrote /\ now - w <= Tiers[1].horizon /\ Lasted(w)
      BY Zenon DEF Recent
    <2>1. w \in wrote /\ w \in Nat /\ now - w \in Nat /\ now - w <= Tiers[1].horizon /\ Lasted(w)
      BY <1>1, <2>0
    <2>2. ~(now - w > MaxAge)
      BY <1>1, <2>1, TiersTyped
    <2>3. ASSUME NEW u \in Times, u > w PROVE BucketOf(now - u) # BucketOf(now - w)
      <3>1. u \in wrote
        BY <2>1, <2>3 DEF HistoryOK
      <3>2. u - w >= Tiers[1].bucket
        BY <2>1, <2>3, <3>1 DEF Lasted
      <3>3. u \in Nat /\ now - u \in Nat /\ now - u <= Tiers[1].horizon
        BY <1>1, <2>1, <2>3, TiersTyped
      <3>4. (now - u) + Tiers[1].bucket <= now - w
        BY <1>1, <2>1, <3>2, <3>3, TiersTyped
      <3>5. (now - w) \div Tiers[1].bucket # (now - u) \div Tiers[1].bucket
        BY <2>1, <3>3, <3>4, TiersTyped, DivApart
      <3>6. /\ BucketOf(now - u) = <<1, (now - u) \div Tiers[1].bucket>>
            /\ BucketOf(now - w) = <<1, (now - w) \div Tiers[1].bucket>>
        BY <2>1, <3>3, FirstTier
      <3> QED
        BY <3>5, <3>6
    <2> QED
      BY <2>2, <2>3 DEF Pruned
  <1>4. Pruned(Times, now) \subseteq Times
    BY DEF Pruned
  <1> QED
    BY <1>2, <1>3, <1>4

-----------------------------------------------------------------------------
(* What a step has to show.                                                 *)

(* While one goroutine is inside a domain operation no other is.           *)
LEMMA AloneInDomain ==
  ASSUME MemoryInv, NEW p \in Procs, ps[p].pc \in DomainPc \/ dmu = Nobody,
         NEW q \in Procs, q # p
  PROVE  ps[q].pc \notin DomainPc
  BY MemoryAssumption DEF MemoryInv, DomainOK

LEMMA AloneInAttrs ==
  ASSUME MemoryInv, NEW p \in Procs, ps[p].pc \in AttrsPc \/ amu = Nobody,
         NEW q \in Procs, q # p
  PROVE  ps[q].pc \notin AttrsPc
  BY MemoryAssumption DEF MemoryInv, AttrsOK

(* A step that does not touch the snapshots leaves the history as it was;  *)
(* time may pass, and Clear may strike a file off its list.                *)
LEMMA HistorySame ==
  ASSUME StoreTyped, HistoryOK, UNCHANGED <<mode, snaps, last, clearing, kept, wrote>>,
         now' \in Nat, now' >= now, clr'.json \subseteq clr.json
  PROVE  HistoryOK' /\ Recent' \subseteq Recent
  <1>1. Times' = Times
    BY DEF Times
  <1>2. Recent' \subseteq Recent
    <2> SUFFICES ASSUME NEW w \in Recent' PROVE w \in Recent
      OBVIOUS
    <2>1. w \in wrote /\ Lasted(w) /\ now' - w <= Tiers[1].horizon
      BY DEF Recent, Lasted
    <2>2. w \in Nat /\ now \in Nat
      BY <2>1 DEF StoreTyped
    <2>3. now - w <= Tiers[1].horizon
      BY <2>1, <2>2, TiersTyped
    <2> QED
      BY <2>1, <2>3 DEF Recent
  <1>3. ~clearing => NewestIsLast'
    BY <1>1 DEF HistoryOK, NewestIsLast
  <1> QED
    BY <1>1, <1>2, <1>3 DEF HistoryOK

(* A step of a goroutine in the domain: only what the step does to the     *)
(* snapshots and to its own locals has to be looked at.                    *)
LEMMA DomainFrame ==
  ASSUME MemoryInv, NEW p \in Procs, ps[p].pc \in DomainPc \/ dmu = Nobody,
         ps[p].pc \notin AttrsPc,
         NEW l \in Local, l.pc \notin AttrsPc, ps' = [ps EXCEPT ![p] = l],
         UNCHANGED <<amu, attrs, akept>>,
         StoreTyped', DomainOK(p)', HistoryOK'
  PROVE  MemoryInv'
  <1>1. Typed'
    BY DEF MemoryInv, Typed
  <1>2. ASSUME NEW q \in Procs PROVE DomainOK(q)'
    <2>1. CASE q = p
      BY <2>1
    <2>2. CASE q # p
      <3>1. ps[q].pc \notin DomainPc
        BY <2>2, AloneInDomain
      <3>2. ps'[q].pc \notin DomainPc
        BY <2>2, <3>1 DEF MemoryInv, Typed
      <3> QED
        BY <3>2 DEF DomainOK, DomainPc
    <2> QED
      BY <2>1, <2>2
  <1>3. ASSUME NEW q \in Procs PROVE AttrsOK(q)'
    <2>1. CASE q = p
      <3>1. ps'[q].pc \notin AttrsPc
        BY <2>1 DEF MemoryInv, Typed
      <3> QED
        BY <3>1 DEF AttrsOK, AttrsPc
    <2>2. CASE q # p
      BY <2>2 DEF MemoryInv, Typed, AttrsOK
    <2> QED
      BY <2>1, <2>2
  <1>4. AttrsDurable'
    BY DEF MemoryInv, AttrsDurable
  <1> QED
    BY <1>1, <1>2, <1>3, <1>4 DEF MemoryInv

(* The same when the step leaves the snapshots alone.                      *)
LEMMA DomainLocal ==
  ASSUME MemoryInv, NEW p \in Procs, ps[p].pc \in DomainPc \/ dmu = Nobody,
         ps[p].pc \notin AttrsPc,
         NEW l \in Local, l.pc \notin AttrsPc, ps' = [ps EXCEPT ![p] = l],
         UNCHANGED <<mode, now, snaps, clr, amu, attrs, last, clearing, kept, wrote, akept>>,
         DomainOK(p)'
  PROVE  MemoryInv'
  <1>0. StoreTyped /\ HistoryOK /\ now \in Nat
    BY DEF MemoryInv, Typed, StoreTyped
  <1>1. HistoryOK'
    BY <1>0, HistorySame
  <1>2. StoreTyped'
    BY DEF MemoryInv, Typed, StoreTyped, Times
  <1> QED
    BY <1>1, <1>2, DomainFrame

(* The same for a step of a goroutine in the attrs store.                  *)
LEMMA AttrsFrame ==
  ASSUME MemoryInv, NEW p \in Procs, ps[p].pc \in AttrsPc \/ amu = Nobody,
         ps[p].pc \notin DomainPc,
         NEW l \in Local, l.pc \notin DomainPc, ps' = [ps EXCEPT ![p] = l],
         UNCHANGED <<mode, now, snaps, clr, dmu, last, clearing, kept, wrote>>,
         attrs' \in [st : {"missing", "torn", "ok"}, keys : Content],
         AttrsOK(p)', AttrsDurable'
  PROVE  MemoryInv'
  <1>1. Typed'
    BY DEF MemoryInv, Typed, StoreTyped, Times
  <1>2. ASSUME NEW q \in Procs PROVE AttrsOK(q)'
    <2>1. CASE q = p
      BY <2>1
    <2>2. CASE q # p
      <3>1. ps[q].pc \notin AttrsPc
        BY <2>2, AloneInAttrs
      <3>2. ps'[q].pc \notin AttrsPc
        BY <2>2, <3>1 DEF MemoryInv, Typed
      <3> QED
        BY <3>2 DEF AttrsOK, AttrsPc
    <2> QED
      BY <2>1, <2>2
  <1>3. ASSUME NEW q \in Procs PROVE DomainOK(q)'
    <2>1. CASE q = p
      <3>1. ps'[q].pc \notin DomainPc
        BY <2>1 DEF MemoryInv, Typed
      <3> QED
        BY <3>1 DEF DomainOK, DomainPc
    <2>2. CASE q # p
      <3>1. ps'[q] = ps[q] /\ DomainOK(q)
        BY <2>2 DEF MemoryInv, Typed
      <3> QED
        BY <3>1 DEF DomainOK, Recent, Lasted, Times
    <2> QED
      BY <2>1, <2>2
  <1>0. StoreTyped /\ HistoryOK /\ now \in Nat
    BY DEF MemoryInv, Typed, StoreTyped
  <1>4. HistoryOK'
    BY <1>0, HistorySame
  <1> QED
    BY <1>1, <1>2, <1>3, <1>4 DEF MemoryInv

LEMMA IdleLocal == Idle \in Local /\ Idle.pc = "idle"
  BY FS_EmptySet DEF Idle, Local, None, Content

-----------------------------------------------------------------------------
(* The steps of a domain operation.                                         *)

(* A return leaves the goroutine idle; the snapshots are as they were.     *)
LEMMA DomainReturnKeeps ==
  ASSUME MemoryInv, NEW p \in Procs, ps[p].pc \in DomainPc, DomainReturn(p),
         UNCHANGED <<mode, now, snaps, clr, amu, attrs, last, clearing, kept, wrote, akept>>
  PROVE  MemoryInv'
  <1>1. ps[p].pc \notin AttrsPc /\ Idle.pc \notin AttrsPc
    BY IdleLocal DEF DomainPc, AttrsPc
  <1>2. ps' = [ps EXCEPT ![p] = Idle]
    BY DEF DomainReturn
  <1>3. DomainOK(p)'
    <2>1. ps'[p].pc = "idle"
      BY <1>2, IdleLocal DEF MemoryInv, Typed
    <2> QED
      BY <2>1 DEF DomainOK, DomainPc
  <1> QED
    BY <1>1, <1>2, <1>3, IdleLocal, DomainLocal

LEMMA DomainBeginKeeps ==
  ASSUME MemoryInv, NEW p \in Procs, NEW k \in Keys, DomainBegin(p, k)
  PROVE  MemoryInv'
  <1>0. PICK r \in Readable :
          ps' = [ps EXCEPT ![p] = [Idle EXCEPT !.pc = "mkdir", !.key = {k},
                    !.val = IF mode = "key" THEN r \cup {k} ELSE {k}]]
    BY DEF DomainBegin
  <1> DEFINE v == IF mode = "key" THEN r \cup {k} ELSE {k}
             l == [Idle EXCEPT !.pc = "mkdir", !.key = {k}, !.val = v]
  <1>1. r \in Content /\ (mode = "key" => kept \subseteq r)
    BY ReadableKeeps DEF MemoryInv, Typed
  <1>2. {k} \in Content /\ v \in Content
    BY <1>1, ContentClosed
  <1>3. kept \cup {k} \subseteq v \/ mode # "key"
    BY <1>1
  <1>4. ps' = [ps EXCEPT ![p] = l] /\ dmu = Nobody /\ ps[p].pc = "idle" /\ dmu' = p
    BY <1>0, IdleLocal DEF DomainBegin
  <1> HIDE DEF v
  <1>5. l \in Local /\ l.pc = "mkdir" /\ l.key = {k} /\ l.val = v
    BY <1>2, IdleLocal DEF Local, DomainPc
  <1> HIDE DEF l
  <1>6. UNCHANGED <<mode, now, snaps, clr, amu, attrs, last, clearing, kept, wrote, akept>>
    BY DEF DomainBegin, setup, files, domainHist
  <1>7. ps'[p] = l
    BY <1>4 DEF MemoryInv, Typed
  <1>8. DomainOK(p)'
    BY <1>3, <1>4, <1>5, <1>6, <1>7 DEF DomainOK
  <1> QED
    BY <1>4, <1>5, <1>6, <1>8, DomainLocal DEF AttrsPc

LEMMA DomainMkdirKeeps ==
  ASSUME MemoryInv, NEW p \in Procs, DomainMkdir(p)
  PROVE  MemoryInv'
  <1> DEFINE l == [ps[p] EXCEPT !.pc = "tmp"]
  <1>1. ps \in [Procs -> Local] /\ ps[p] \in Local /\ ps[p].pc = "mkdir" /\ DomainOK(p)
    BY DEF MemoryInv, Typed, DomainMkdir
  <1>2. /\ l \in Local /\ l.pc = "tmp" /\ l.key = ps[p].key /\ l.val = ps[p].val
        /\ ps' = [ps EXCEPT ![p] = l]
    BY <1>1 DEF Local, DomainPc, DomainMkdir, Goto
  <1> HIDE DEF l
  <1>3. ps'[p] = l
    BY <1>1, <1>2
  <1>4. UNCHANGED <<mode, snaps, clr, dmu, amu, attrs, last, clearing, kept, wrote, akept>>
    BY DEF DomainMkdir, setup, history, domainHist
  <1>5. now \in Nat /\ now' \in Nat /\ now' > now
    BY MemoryAssumption DEF DomainMkdir, MemoryInv, Typed, StoreTyped
  <1>6. StoreTyped'
    BY <1>4, <1>5 DEF MemoryInv, Typed, StoreTyped, Times
  <1>7. now' \notin Times' /\ now' \notin clr'.json
    BY <1>4, <1>5 DEF MemoryInv, Typed, StoreTyped, Times
  <1>8. DomainOK(p)'
    BY <1>1, <1>2, <1>3, <1>4, <1>5, <1>6, <1>7 DEF DomainOK, DomainPc
  <1>9. HistoryOK'
    BY <1>4, <1>5, HistorySame DEF MemoryInv, Typed
  <1> QED
    BY <1>1, <1>2, <1>4, <1>5, <1>6, <1>8, <1>9, DomainFrame DEF AttrsPc, DomainPc

LEMMA DomainTmpKeeps ==
  ASSUME MemoryInv, NEW p \in Procs, DomainTmp(p)
  PROVE  MemoryInv'
  <1>1. ps \in [Procs -> Local] /\ ps[p] \in Local /\ ps[p].pc = "tmp" /\ DomainOK(p)
    BY DEF MemoryInv, Typed, DomainTmp
  <1>2. UNCHANGED <<mode, now, snaps, clr, amu, attrs, last, clearing, kept, wrote, akept>>
    BY DEF DomainTmp, setup, history, domainHist
  <1>3. CASE dir
    <2> DEFINE l == [ps[p] EXCEPT !.pc = "rename"]
    <2>1. /\ l \in Local /\ l.pc = "rename" /\ l.key = ps[p].key /\ l.val = ps[p].val
          /\ ps' = [ps EXCEPT ![p] = l] /\ dmu' = dmu
      BY <1>1, <1>3 DEF Local, DomainPc, DomainTmp, Goto
    <2> HIDE DEF l
    <2>2. ps'[p] = l
      BY <1>1, <2>1
    <2>3. DomainOK(p)'
      BY <1>1, <1>2, <2>1, <2>2 DEF DomainOK, DomainPc, Times
    <2> QED
      BY <1>1, <1>2, <2>1, <2>3, DomainLocal DEF AttrsPc, DomainPc
  <1>4. CASE ~dir
    BY <1>1, <1>2, <1>4, DomainReturnKeeps DEF DomainTmp, DomainPc
  <1> QED
    BY <1>3, <1>4

(* The rename: the new snapshot is newer than every other and than all     *)
(* that Clear has listed, and holds every key stored so far.               *)
LEMMA DomainRenameKeeps ==
  ASSUME MemoryInv, NEW p \in Procs, DomainRename(p)
  PROVE  MemoryInv'
  <1>1. ps \in [Procs -> Local] /\ ps[p] \in Local /\ ps[p].pc = "rename" /\ DomainOK(p)
    BY DEF MemoryInv, Typed, DomainRename
  <1>2. UNCHANGED <<mode, now, clr, amu, attrs, akept>>
    BY DEF DomainRename, setup
  <1>3. CASE now \in tmps
    <2> DEFINE l == [ps[p] EXCEPT !.pc = "prune"]
    <2>1. l \in Local /\ l.pc = "prune" /\ ps' = [ps EXCEPT ![p] = l] /\ dmu' = dmu
      BY <1>1, <1>3 DEF Local, DomainPc, DomainRename, Goto
    <2> HIDE DEF l
    <2>2. ps'[p] = l
      BY <1>1, <2>1
    <2>3. /\ snaps' = [t \in Times \cup {now} |-> IF t = now THEN ps[p].val ELSE snaps[t]]
          /\ last' = ps[p].val /\ clearing' = FALSE /\ kept' = kept \cup ps[p].key
          /\ wrote' = wrote \cup {now}
      BY <1>3 DEF DomainRename
    <2>4. /\ now \in Nat /\ now > 0 /\ Times \subseteq 1 .. now /\ wrote \subseteq 1 .. now
          /\ clr.json \subseteq 1 .. now /\ ps[p].val \in Content
          /\ now \notin Times /\ now \notin clr.json
      BY <1>1 DEF MemoryInv, Typed, StoreTyped, DomainOK, Local
    <2>5. Times' = Times \cup {now} /\ snaps'[now] = last' /\ now' = now /\ clr' = clr
      BY <1>2, <2>3 DEF Times
    <2>6. StoreTyped'
      <3>1. ASSUME NEW t \in Times' PROVE snaps'[t] \in Content
        <4>1. t = now \/ (t \in Times /\ t # now)
          BY <2>5
        <4>2. snaps'[t] = IF t = now THEN ps[p].val ELSE snaps[t]
          BY <2>3, <2>5
        <4> QED
          BY <2>4, <4>1, <4>2 DEF MemoryInv, Typed, StoreTyped
      <3>2. Times' \subseteq 1 .. now /\ wrote' \subseteq 1 .. now
        BY <2>3, <2>4, <2>5
      <3>3. clearing' \in BOOLEAN
        BY <2>3
      <3> QED
        BY <2>4, <2>5, <3>1, <3>2, <3>3 DEF StoreTyped
    <2>7. HistoryOK'
      <3>0. HistoryOK
        BY DEF MemoryInv
      <3>1. NewestIsLast'
        <4>1. \A u \in Times' : u <= now
          BY <2>4, <2>5
        <4> QED
          BY <2>4, <2>5, <4>1 DEF NewestIsLast
      <3>2. (mode = "key" => kept \subseteq last)'
        BY <1>1, <1>2, <2>3 DEF DomainOK
      <3>3. (wrote \cap clr.json = {})'
        BY <2>3, <2>4, <2>5, <3>0 DEF HistoryOK
      <3>4. ASSUME NEW w \in wrote', NEW u \in Times', u > w PROVE u \in wrote'
        <4>1. CASE u = now
          BY <2>3, <4>1
        <4>2. CASE u # now
          <5>1. u \in Times /\ u <= now /\ u \in Nat
            BY <2>4, <2>5, <4>2
          <5>2. w \in wrote
            BY <2>3, <2>4, <3>4, <5>1
          <5> QED
            BY <2>3, <3>0, <3>4, <5>1, <5>2 DEF HistoryOK
        <4> QED
          BY <4>1, <4>2
      <3>5. ASSUME NEW w \in Recent' PROVE w \in Times'
        <4>1. w \in wrote' /\ Lasted(w)' /\ now - w <= Tiers[1].horizon
          BY <2>5 DEF Recent
        <4>2. CASE w = now
          BY <2>5, <4>2
        <4>3. CASE w # now
          <5>1. w \in wrote
            BY <2>3, <4>1, <4>3
          <5>2. Lasted(w)
            BY <2>3, <4>1 DEF Lasted
          <5>3. w \in Recent
            BY <4>1, <5>1, <5>2 DEF Recent
          <5> QED
            BY <2>5, <3>0, <5>3 DEF HistoryOK
        <4> QED
          BY <4>2, <4>3
      <3> QED
        BY <2>3, <3>1, <3>2, <3>3, <3>4, <3>5 DEF HistoryOK
    <2>8. DomainOK(p)'
      BY <1>1, <2>1, <2>2, <2>5 DEF DomainOK, DomainPc
    <2> QED
      BY <1>1, <1>2, <2>1, <2>6, <2>7, <2>8, DomainFrame DEF AttrsPc, DomainPc
  <1>4. CASE now \notin tmps
    <2>1. UNCHANGED <<snaps, last, clearing, kept, wrote>> /\ DomainReturn(p)
      BY <1>4 DEF DomainRename, domainHist
    <2> QED
      BY <1>1, <1>2, <2>1, DomainReturnKeeps DEF DomainPc
  <1> QED
    BY <1>3, <1>4

(* A failing call returns: what it leaves is a temporary file at most.     *)
LEMMA DomainFailKeeps ==
  ASSUME MemoryInv, NEW p \in Procs, DomainFail(p)
  PROVE  MemoryInv'
  <1>1. ps[p].pc \in DomainPc /\ DomainReturn(p)
    BY DEF DomainFail, DomainPc
  <1>2. UNCHANGED <<mode, now, snaps, clr, amu, attrs, last, clearing, kept, wrote, akept>>
    BY DEF DomainFail, setup, history, domainHist
  <1> QED
    BY <1>1, <1>2, DomainReturnKeeps

(* What prune picks is neither the newest snapshot nor recent history.     *)
LEMMA DomainPruneKeeps ==
  ASSUME MemoryInv, NEW p \in Procs, DomainPrune(p)
  PROVE  MemoryInv'
  <1> DEFINE l == [ps[p] EXCEPT !.pc = "remove", !.del = Pruned(Times, now)]
  <1>1. ps \in [Procs -> Local] /\ ps[p] \in Local /\ ps[p].pc = "prune" /\ DomainOK(p)
    BY DEF MemoryInv, Typed, DomainPrune
  <1>2. UNCHANGED <<mode, now, snaps, clr, dmu, amu, attrs, last, clearing, kept, wrote, akept>>
    BY DEF DomainPrune, setup, files, history, domainHist
  <1>3. StoreTyped /\ HistoryOK
    BY DEF MemoryInv, Typed
  <1>4. /\ Pruned(Times, now) \in SUBSET Nat /\ now \notin Pruned(Times, now)
        /\ Recent \cap Pruned(Times, now) = {}
    BY <1>3, PruneSpares DEF StoreTyped
  <1>5. /\ l \in Local /\ l.pc = "remove" /\ l.del = Pruned(Times, now)
        /\ ps' = [ps EXCEPT ![p] = l]
    BY <1>1, <1>4 DEF Local, DomainPc, DomainPrune
  <1> HIDE DEF l
  <1>6. ps'[p] = l
    BY <1>1, <1>5
  <1>7. Recent' = Recent /\ Times' = Times
    BY <1>2 DEF Recent, Lasted, Times
  <1>8. DomainOK(p)'
    BY <1>1, <1>2, <1>4, <1>5, <1>6, <1>7 DEF DomainOK, DomainPc
  <1> QED
    BY <1>1, <1>2, <1>5, <1>8, DomainLocal DEF AttrsPc, DomainPc

(* Deleting one of them leaves the newest snapshot where it is.            *)
LEMMA DomainRemoveKeeps ==
  ASSUME MemoryInv, NEW p \in Procs, NEW t \in ps[p].del, DomainRemove(p, t)
  PROVE  MemoryInv'
  <1> DEFINE n == ps[p].freed + (IF t \in Times THEN Len1(snaps[t]) ELSE 0)
             l == [ps[p] EXCEPT !.del = @ \ {t}, !.freed = n]
  <1>1. ps \in [Procs -> Local] /\ ps[p] \in Local /\ ps[p].pc = "remove" /\ DomainOK(p)
    BY DEF MemoryInv, Typed, DomainRemove
  <1>2. UNCHANGED <<mode, now, clr, dmu, amu, attrs, last, clearing, kept, wrote, akept>>
    BY DEF DomainRemove, setup, history, domainHist
  <1>3. /\ now \in Nat /\ Times \subseteq 1 .. now /\ wrote \subseteq 1 .. now
        /\ clr.json \subseteq 1 .. now /\ HistoryOK
    BY DEF MemoryInv, Typed, StoreTyped
  <1>4. n \in Nat
    BY <1>1, SizesTyped DEF MemoryInv, Typed, StoreTyped, Local
  <1>5. ps' = [ps EXCEPT ![p] = l]
    BY <1>1 DEF DomainRemove
  <1> HIDE DEF n
  <1>6. l \in Local /\ l.pc = "remove" /\ l.del = ps[p].del \ {t}
    BY <1>1, <1>4 DEF Local, DomainPc
  <1> HIDE DEF l
  <1>7. ps'[p] = l
    BY <1>1, <1>5
  <1>8. snaps' = [u \in Times \ {t} |-> snaps[u]]
    BY DEF DomainRemove, Without, Times
  <1>9. Times' = Times \ {t} /\ \A u \in Times' : snaps'[u] = snaps[u]
    BY <1>8 DEF Times
  <1>10. t # now /\ (clearing \/ Times = {} \/ now \in Times) /\ t \notin Recent
    BY <1>1 DEF DomainOK
  <1>11. Recent' = Recent
    BY <1>2 DEF Recent, Lasted
  <1>12. DomainOK(p)'
    BY <1>1, <1>2, <1>6, <1>7, <1>9, <1>10, <1>11 DEF DomainOK, DomainPc
  <1>13. ~clearing => NewestIsLast'
    <2>1. CASE Times = {}
      BY <1>2, <1>3, <1>9, <2>1 DEF HistoryOK, NewestIsLast
    <2>2. CASE now \in Times /\ ~clearing
      <3>1. PICK m \in Times \ clr.json : snaps[m] = last /\ \A u \in Times : u <= m
        BY <1>3, <2>2 DEF HistoryOK, NewestIsLast
      <3>2. m = now
        BY <1>3, <2>2, <3>1
      <3>3. now \in Times' \ clr'.json /\ snaps'[now] = last' /\ \A u \in Times' : u <= now
        BY <1>2, <1>9, <1>10, <2>2, <3>1, <3>2
      <3> QED
        BY <3>3 DEF NewestIsLast
    <2> QED
      BY <1>10, <2>1, <2>2
  <1>14. HistoryOK'
    BY <1>2, <1>3, <1>9, <1>10, <1>11, <1>13 DEF HistoryOK
  <1>15. StoreTyped'
    BY <1>2, <1>3, <1>9 DEF MemoryInv, Typed, StoreTyped
  <1> QED
    BY <1>1, <1>2, <1>5, <1>6, <1>12, <1>14, <1>15, DomainFrame DEF AttrsPc, DomainPc

LEMMA DomainRemoveFailKeeps ==
  ASSUME MemoryInv, NEW p \in Procs, NEW t \in ps[p].del, DomainRemoveFail(p, t)
  PROVE  MemoryInv'
  <1> DEFINE l == [ps[p] EXCEPT !.del = @ \ {t}]
  <1>1. ps \in [Procs -> Local] /\ ps[p] \in Local /\ ps[p].pc = "remove" /\ DomainOK(p)
    BY DEF MemoryInv, Typed, DomainRemoveFail
  <1>2. UNCHANGED <<mode, now, snaps, clr, dmu, amu, attrs, last, clearing, kept, wrote, akept>>
    BY DEF DomainRemoveFail, setup, files, history, domainHist
  <1>3. /\ l \in Local /\ l.pc = "remove" /\ l.del = ps[p].del \ {t}
        /\ ps' = [ps EXCEPT ![p] = l]
    BY <1>1 DEF Local, DomainPc, DomainRemoveFail
  <1> HIDE DEF l
  <1>4. ps'[p] = l
    BY <1>1, <1>3
  <1>5. Recent' = Recent /\ Times' = Times
    BY <1>2 DEF Recent, Lasted, Times
  <1>6. DomainOK(p)'
    BY <1>1, <1>2, <1>3, <1>4, <1>5 DEF DomainOK, DomainPc
  <1> QED
    BY <1>1, <1>2, <1>3, <1>6, DomainLocal DEF AttrsPc, DomainPc

LEMMA DomainPrunedKeeps ==
  ASSUME MemoryInv, NEW p \in Procs, DomainPruned(p)
  PROVE  MemoryInv'
  <1> DEFINE l == [ps[p] EXCEPT !.pc = "account"]
  <1>1. ps \in [Procs -> Local] /\ ps[p] \in Local /\ ps[p].pc = "remove" /\ DomainOK(p)
    BY DEF MemoryInv, Typed, DomainPruned
  <1>2. UNCHANGED <<mode, now, snaps, clr, dmu, amu, attrs, last, clearing, kept, wrote, akept>>
    BY DEF DomainPruned, setup, files, history, domainHist
  <1>3. l \in Local /\ l.pc = "account" /\ ps' = [ps EXCEPT ![p] = l]
    BY <1>1 DEF Local, DomainPc, DomainPruned, Goto
  <1> HIDE DEF l
  <1>4. ps'[p] = l
    BY <1>1, <1>3
  <1>5. DomainOK(p)'
    BY <1>1, <1>2, <1>3, <1>4 DEF DomainOK, DomainPc, Times
  <1> QED
    BY <1>1, <1>2, <1>3, <1>5, DomainLocal DEF AttrsPc, DomainPc

LEMMA DomainStepKeeps ==
  ASSUME MemoryInv, NEW p \in Procs, DomainStep(p)
  PROVE  MemoryInv'
  <1>1. CASE DomainAccount(p)
    <2>1. ps[p].pc \in DomainPc /\ DomainReturn(p)
      BY <1>1 DEF DomainAccount, DomainPc
    <2>2. UNCHANGED <<mode, now, snaps, clr, amu, attrs, last, clearing, kept, wrote, akept>>
      BY <1>1 DEF DomainAccount, setup, files, history, domainHist
    <2> QED
      BY <2>1, <2>2, DomainReturnKeeps
  <1> QED
    BY <1>1, DomainMkdirKeeps, DomainTmpKeeps, DomainRenameKeeps, DomainFailKeeps,
       DomainPruneKeeps, DomainRemoveKeeps, DomainRemoveFailKeeps, DomainPrunedKeeps
       DEF DomainStep

-----------------------------------------------------------------------------
(* attrs.json.                                                              *)

LEMMA AttrsBeginKeeps ==
  ASSUME MemoryInv, NEW p \in Procs, NEW k \in Keys, NEW set \in BOOLEAN, AttrsBegin(p, k, set)
  PROVE  MemoryInv'
  <1> DEFINE v == IF set THEN attrs.keys \cup {k} ELSE attrs.keys \ {k}
             l == [Idle EXCEPT !.pc = "aTmp", !.key = {k}, !.old = AttrsSize, !.val = v]
  <1>1. attrs.keys \in Content /\ AttrsSize \in Nat /\ akept \subseteq attrs.keys
    BY SizesTyped DEF MemoryInv, Typed, AttrsDurable
  <1>2. {k} \in Content /\ v \in Content
    BY <1>1, ContentClosed
  <1>3. akept \ {k} \subseteq v
    BY <1>1
  <1> HIDE DEF v
  <1>4. l \in Local /\ l.pc = "aTmp" /\ l.key = {k} /\ l.val = v
    BY <1>1, <1>2, IdleLocal DEF Local, AttrsPc
  <1>5. ps' = [ps EXCEPT ![p] = l] /\ amu = Nobody /\ ps[p].pc = "idle" /\ amu' = p
    BY IdleLocal DEF AttrsBegin, v
  <1> HIDE DEF l
  <1>6. UNCHANGED <<mode, now, snaps, clr, dmu, attrs, last, clearing, kept, wrote, akept>>
    BY DEF AttrsBegin, setup, files, domainHist
  <1>7. ps'[p] = l
    BY <1>5 DEF MemoryInv, Typed
  <1>8. AttrsOK(p)'
    BY <1>3, <1>4, <1>5, <1>6, <1>7 DEF AttrsOK
  <1>9. attrs' \in [st : {"missing", "torn", "ok"}, keys : Content] /\ AttrsDurable'
    BY <1>6 DEF MemoryInv, Typed, AttrsDurable
  <1> QED
    BY <1>4, <1>5, <1>6, <1>8, <1>9, AttrsFrame DEF DomainPc

LEMMA AttrsReturnKeeps ==
  ASSUME MemoryInv, NEW p \in Procs, ps[p].pc \in AttrsPc, AttrsReturn(p),
         UNCHANGED <<mode, now, snaps, clr, dmu, attrs, last, clearing, kept, wrote, akept>>
  PROVE  MemoryInv'
  <1>1. ps[p].pc \notin DomainPc /\ Idle.pc \notin DomainPc
    BY IdleLocal DEF DomainPc, AttrsPc
  <1>2. ps' = [ps EXCEPT ![p] = Idle]
    BY DEF AttrsReturn
  <1>3. AttrsOK(p)'
    <2>1. ps'[p].pc = "idle"
      BY <1>2, IdleLocal DEF MemoryInv, Typed
    <2> QED
      BY <2>1 DEF AttrsOK, AttrsPc
  <1>4. attrs' \in [st : {"missing", "torn", "ok"}, keys : Content] /\ AttrsDurable'
    BY DEF MemoryInv, Typed, AttrsDurable
  <1> QED
    BY <1>1, <1>2, <1>3, <1>4, IdleLocal, AttrsFrame

(* A step of Set or Delete; its rename replaces the file whole.            *)
LEMMA AttrsStepKeeps ==
  ASSUME MemoryInv, NEW p \in Procs, AttrsStep(p)
  PROVE  MemoryInv'
  <1>0. ps \in [Procs -> Local] /\ ps[p] \in Local /\ AttrsOK(p)
    BY DEF MemoryInv, Typed
  <1>1. CASE AttrsTmp(p)
    <2> DEFINE l == [ps[p] EXCEPT !.pc = "aRename"]
    <2>1. /\ l \in Local /\ l.pc = "aRename" /\ l.key = ps[p].key /\ l.val = ps[p].val
          /\ ps' = [ps EXCEPT ![p] = l] /\ ps[p].pc = "aTmp"
      BY <1>0, <1>1 DEF Local, AttrsPc, AttrsTmp, Goto
    <2> HIDE DEF l
    <2>2. UNCHANGED <<mode, now, snaps, clr, dmu, amu, attrs, last, clearing, kept, wrote, akept>>
      BY <1>1 DEF AttrsTmp, setup, history, domainHist
    <2>3. ps'[p] = l
      BY <1>0, <2>1
    <2>4. AttrsOK(p)'
      BY <1>0, <2>1, <2>2, <2>3 DEF AttrsOK, AttrsPc
    <2>5. attrs' \in [st : {"missing", "torn", "ok"}, keys : Content] /\ AttrsDurable'
      BY <2>2 DEF MemoryInv, Typed, AttrsDurable
    <2> QED
      BY <2>1, <2>2, <2>4, <2>5, AttrsFrame DEF AttrsPc, DomainPc
  <1>2. CASE AttrsRename(p) /\ atmp
    <2> DEFINE l == [ps[p] EXCEPT !.pc = "aAccount"]
    <2>1. /\ l \in Local /\ l.pc = "aAccount" /\ ps' = [ps EXCEPT ![p] = l]
          /\ ps[p].pc = "aRename" /\ amu' = amu
      BY <1>0, <1>2 DEF Local, AttrsPc, AttrsRename, Goto
    <2> HIDE DEF l
    <2>2. UNCHANGED <<mode, now, snaps, clr, dmu, last, clearing, kept, wrote>>
      BY <1>2 DEF AttrsRename, setup, domainHist
    <2>3. /\ attrs' = [st |-> "ok", keys |-> ps[p].val]
          /\ akept' = IF ps[p].key \subseteq ps[p].val THEN akept \cup ps[p].key
                      ELSE akept \ ps[p].key
      BY <1>2 DEF AttrsRename
    <2>4. ps'[p] = l
      BY <1>0, <2>1
    <2>5. AttrsOK(p)'
      BY <1>0, <2>1, <2>4 DEF AttrsOK, AttrsPc
    <2>6. attrs' \in [st : {"missing", "torn", "ok"}, keys : Content]
      BY <1>0, <2>3 DEF Local
    <2>7. akept \ ps[p].key \subseteq ps[p].val
      BY <1>0, <2>1 DEF AttrsOK
    <2>8. AttrsDurable'
      BY <2>3, <2>7 DEF AttrsDurable
    <2> QED
      BY <2>1, <2>2, <2>5, <2>6, <2>8, AttrsFrame DEF AttrsPc, DomainPc
  <1>3. CASE AttrsRename(p) /\ ~atmp
    <2>1. ps[p].pc \in AttrsPc /\ AttrsReturn(p)
      BY <1>3 DEF AttrsRename, AttrsPc
    <2>2. UNCHANGED <<mode, now, snaps, clr, dmu, attrs, last, clearing, kept, wrote, akept>>
      BY <1>3 DEF AttrsRename, setup, domainHist
    <2> QED
      BY <2>1, <2>2, AttrsReturnKeeps
  <1>4. CASE AttrsAccount(p)
    <2>1. ps[p].pc \in AttrsPc /\ AttrsReturn(p)
      BY <1>4 DEF AttrsAccount, AttrsPc
    <2>2. UNCHANGED <<mode, now, snaps, clr, dmu, attrs, last, clearing, kept, wrote, akept>>
      BY <1>4 DEF AttrsAccount, setup, files, history, domainHist
    <2> QED
      BY <2>1, <2>2, AttrsReturnKeeps
  <1>5. CASE AttrsFail(p)
    <2>1. ps[p].pc \in AttrsPc /\ AttrsReturn(p)
      BY <1>5 DEF AttrsFail, AttrsPc
    <2>2. UNCHANGED <<mode, now, snaps, clr, dmu, attrs, last, clearing, kept, wrote, akept>>
      BY <1>5 DEF AttrsFail, setup, history, domainHist
    <2> QED
      BY <2>1, <2>2, AttrsReturnKeeps
  <1> QED
    BY <1>1, <1>2, <1>3, <1>4, <1>5 DEF AttrsStep

-----------------------------------------------------------------------------
(* Clear and the crash.                                                     *)

LEMMA EmptyDirectory == DOMAIN <<>> = {}
  OBVIOUS

(* The invariant looks at neither the size nor the temporary files, and an *)
(* entry may leave Clear's list.                                           *)
LEMMA IrrelevantKeeps ==
  ASSUME MemoryInv, UNCHANGED <<mode, now, snaps, dmu, amu, ps, last, clearing, kept, wrote>>,
         clr'.json \subseteq clr.json,
         \/ UNCHANGED <<attrs, akept>>
         \/ attrs' = NoAttrs /\ akept' = {}
  PROVE  MemoryInv'
  <1>1. StoreTyped /\ HistoryOK /\ now \in Nat /\ Times' = Times
    BY DEF MemoryInv, Typed, StoreTyped, Times
  <1>2. Recent' = Recent
    BY DEF Recent, Lasted
  <1>3. ASSUME NEW p \in Procs PROVE DomainOK(p)' /\ AttrsOK(p)'
    <2>1. DomainOK(p) /\ AttrsOK(p)
      BY DEF MemoryInv
    <2>2. DomainOK(p)'
      BY <1>1, <1>2, <2>1 DEF DomainOK
    <2>3. AttrsOK(p)'
      BY <2>1 DEF AttrsOK
    <2> QED
      BY <2>2, <2>3
  <1>4. HistoryOK'
    BY <1>1, HistorySame
  <1>5. Typed'
    <2>1. StoreTyped'
      BY <1>1 DEF StoreTyped
    <2>2. NoAttrs \in [st : {"missing", "torn", "ok"}, keys : Content]
      BY FS_EmptySet DEF NoAttrs, None, Content
    <2> QED
      BY <2>1, <2>2 DEF MemoryInv, Typed
  <1>6. AttrsDurable'
    BY DEF MemoryInv, AttrsDurable
  <1> QED
    BY <1>3, <1>4, <1>5, <1>6 DEF MemoryInv

(* Clear lists the domain: from now on nothing is promised of what is on   *)
(* the list.                                                               *)
LEMMA ClearRemoveKeeps ==
  ASSUME MemoryInv, ClearRemove
  PROVE  MemoryInv'
  <1>1. UNCHANGED <<mode, now, snaps, attrs, dmu, amu, ps, last, akept>>
    BY DEF ClearRemove, setup, files
  <1>2. clr'.json = Times /\ clearing' /\ kept' = {} /\ wrote' = {} /\ Times' = Times
    BY <1>1 DEF ClearRemove, Times
  <1>3. Recent' = {}
    BY <1>2 DEF Recent
  <1>4. Typed'
    BY <1>1, <1>2 DEF MemoryInv, Typed, StoreTyped
  <1>5. ASSUME NEW p \in Procs PROVE DomainOK(p)' /\ AttrsOK(p)'
    <2>1. DomainOK(p) /\ AttrsOK(p)
      BY DEF MemoryInv
    <2>2. DomainOK(p)'
      BY <1>1, <1>2, <1>3, <2>1 DEF DomainOK
    <2>3. AttrsOK(p)'
      BY <1>1, <2>1 DEF AttrsOK
    <2> QED
      BY <2>2, <2>3
  <1>6. HistoryOK' /\ AttrsDurable'
    BY <1>1, <1>2, <1>3 DEF HistoryOK, MemoryInv, AttrsDurable
  <1> QED
    BY <1>4, <1>5, <1>6 DEF MemoryInv

(* Unlinking a listed snapshot under a running write: what was put in      *)
(* place since the listing stays, and with it the newest snapshot.         *)
LEMMA ClearUnlinkKeeps ==
  ASSUME MemoryInv, ClearUnlink
  PROVE  MemoryInv'
  <1>1. UNCHANGED <<mode, now, attrs, dmu, amu, ps, last, clearing, kept, wrote, akept>>
    BY DEF ClearUnlink, setup, history, domainHist
  <1>2. CASE \E t \in clr.tmp : UNCHANGED snaps /\ clr' = [clr EXCEPT !.tmp = @ \ {t}]
    <2>1. clr'.json \subseteq clr.json
      BY <1>2
    <2> QED
      BY <1>1, <1>2, <2>1, IrrelevantKeeps
  <1>3. ASSUME NEW t \in clr.json, snaps' = Without(snaps, {t}),
               clr' = [clr EXCEPT !.json = @ \ {t}]
        PROVE  MemoryInv'
    <2>1. Times' = Times \ {t} /\ \A u \in Times' : snaps'[u] = snaps[u]
      BY <1>3 DEF Without, Times
    <2>2. clr'.json \subseteq clr.json
      BY <1>3
    <2>3. StoreTyped /\ HistoryOK
      BY DEF MemoryInv, Typed
    <2>4. now \in Nat /\ Times \subseteq 1 .. now /\ clr.json \subseteq 1 .. now /\ wrote \subseteq 1 .. now
      BY <2>3 DEF StoreTyped
    <2>5. StoreTyped'
      BY <1>1, <2>1, <2>2, <2>3, <2>4 DEF StoreTyped
    <2>6. Recent' = Recent /\ Recent \subseteq wrote
      BY <1>1 DEF Recent, Lasted
    <2>7. ~clearing => NewestIsLast' /\ (now \in Times => t # now)
      <3> SUFFICES ASSUME ~clearing PROVE NewestIsLast' /\ (now \in Times => t # now)
        OBVIOUS
      <3>1. CASE Times = {}
        BY <1>1, <2>1, <2>3, <3>1 DEF HistoryOK, NewestIsLast
      <3>2. CASE Times # {}
        <4>1. PICK m \in Times \ clr.json : snaps[m] = last /\ \A u \in Times : u <= m
          BY <2>3, <3>2 DEF HistoryOK, NewestIsLast
        <4>2. m \in Times' \ clr'.json /\ snaps'[m] = last' /\ \A u \in Times' : u <= m
          BY <1>1, <2>1, <2>2, <4>1
        <4>3. now \in Times => m = now
          BY <2>4, <4>1
        <4> QED
          BY <4>1, <4>2, <4>3 DEF NewestIsLast
      <3> QED
        BY <3>1, <3>2
    <2>8. HistoryOK'
      BY <1>1, <2>1, <2>2, <2>3, <2>6, <2>7 DEF HistoryOK
    <2>9. ASSUME NEW p \in Procs PROVE DomainOK(p)' /\ AttrsOK(p)'
      <3>1. DomainOK(p) /\ AttrsOK(p)
        BY DEF MemoryInv
      <3>2. DomainOK(p)'
        BY <1>1, <2>1, <2>2, <2>6, <2>7, <3>1 DEF DomainOK
      <3>3. AttrsOK(p)'
        BY <1>1, <3>1 DEF AttrsOK
      <3> QED
        BY <3>2, <3>3
    <2>10. Typed' /\ AttrsDurable'
      BY <1>1, <2>5 DEF MemoryInv, Typed, AttrsDurable
    <2> QED
      BY <2>8, <2>9, <2>10 DEF MemoryInv
  <1> QED
    BY <1>2, <1>3 DEF ClearUnlink

(* The end of RemoveAll: if no snapshot is left there is nothing to read.  *)
LEMMA ClearRmdirKeeps ==
  ASSUME MemoryInv, ClearRmdir
  PROVE  MemoryInv'
  <1>1. UNCHANGED <<mode, now, snaps, attrs, dmu, amu, ps, kept, wrote, akept>>
    BY DEF ClearRmdir, setup
  <1>2. clr'.json \subseteq clr.json /\ Times' = Times
    BY <1>1 DEF ClearRmdir, Times
  <1>3. CASE ~clearing \/ Times # {}
    <2>1. UNCHANGED <<last, clearing>>
      <3>1. clearing \in BOOLEAN
        BY DEF MemoryInv, Typed, StoreTyped
      <3> QED
        BY <1>3, <3>1 DEF ClearRmdir
    <2> QED
      BY <1>1, <1>2, <2>1, IrrelevantKeeps
  <1>4. CASE clearing /\ Times = {}
    <2>1. clearing' = FALSE /\ last' = None
      BY <1>4 DEF ClearRmdir
    <2>2. StoreTyped /\ HistoryOK
      BY DEF MemoryInv, Typed
    <2>3. kept = {} /\ wrote = {}
      BY <1>4, <2>2 DEF HistoryOK
    <2>4. Recent' = Recent
      BY <1>1 DEF Recent, Lasted
    <2>5. HistoryOK'
      BY <1>1, <1>2, <1>4, <2>1, <2>2, <2>3, <2>4 DEF HistoryOK, NewestIsLast
    <2>6. ASSUME NEW p \in Procs PROVE DomainOK(p)' /\ AttrsOK(p)'
      <3>1. DomainOK(p) /\ AttrsOK(p)
        BY DEF MemoryInv
      <3>2. DomainOK(p)'
        BY <1>1, <1>2, <1>4, <2>4, <3>1 DEF DomainOK
      <3>3. AttrsOK(p)'
        BY <1>1, <3>1 DEF AttrsOK
      <3> QED
        BY <3>2, <3>3
    <2>7. StoreTyped'
      BY <1>1, <1>2, <2>1, <2>2 DEF StoreTyped
    <2>8. Typed' /\ AttrsDurable'
      BY <1>1, <2>7 DEF MemoryInv, Typed, AttrsDurable
    <2> QED
      BY <2>5, <2>6, <2>8 DEF MemoryInv
  <1> QED
    BY <1>3, <1>4

(* A crash forgets the goroutines and keeps the files.                     *)
LEMMA CrashKeeps ==
  ASSUME MemoryInv, Crash
  PROVE  MemoryInv'
  <1>1. UNCHANGED <<mode, now, snaps, attrs, last, clearing, kept, wrote, akept>>
        /\ ps' = [p \in Procs |-> Idle] /\ clr'.json = {}
    BY DEF Crash, setup, files, domainHist, NoClear
  <1>2. StoreTyped /\ HistoryOK /\ now \in Nat
    BY DEF MemoryInv, Typed, StoreTyped
  <1>3. HistoryOK'
    BY <1>1, <1>2, HistorySame
  <1>4. Typed' /\ AttrsDurable'
    BY <1>1, IdleLocal DEF MemoryInv, Typed, StoreTyped, AttrsDurable, Times
  <1>5. ASSUME NEW p \in Procs PROVE DomainOK(p)' /\ AttrsOK(p)'
    <2>1. ps'[p].pc = "idle"
      BY <1>1, IdleLocal
    <2> QED
      BY <2>1 DEF DomainOK, AttrsOK, DomainPc, AttrsPc
  <1> QED
    BY <1>3, <1>4, <1>5 DEF MemoryInv

(* The other steps of Clear.                                               *)
LEMMA ClearStepKeeps ==
  ASSUME MemoryInv, ClearBegin \/ ClearStep
  PROVE  MemoryInv'
  <1>1. CASE ClearBegin \/ ClearFail \/ ClearResync
    <2>1. UNCHANGED <<mode, now, snaps, attrs, dmu, amu, ps, last, clearing, kept, wrote, akept>>
      BY <1>1 DEF ClearBegin, ClearFail, ClearResync, setup, files, history, domainHist
    <2>2. clr'.json \subseteq clr.json
      <3>1. CASE ClearBegin \/ ClearResync
        <4>1. clr'.json = {}
          <5>1. CASE ClearBegin
            <6>1. PICK S : clr' = [NoClear EXCEPT !.pc = "remove", !.todo = S]
              BY <5>1, Zenon DEF ClearBegin
            <6> QED
              BY <6>1 DEF NoClear
          <5>2. CASE ClearResync
            BY <5>2 DEF ClearResync, NoClear
          <5> QED
            BY <3>1, <5>1, <5>2
        <4> QED
          BY <4>1
      <3>2. CASE ClearFail
        <4>1. CASE \E e \in clr.todo : clr' = [clr EXCEPT !.todo = @ \ {e}]
          BY <4>1
        <4>2. CASE \E t \in clr.json : clr' = [clr EXCEPT !.json = @ \ {t}]
          BY <4>2
        <4>3. CASE \E t \in clr.tmp : clr' = [clr EXCEPT !.tmp = @ \ {t}]
          BY <4>3
        <4> QED
          BY <3>2, <4>1, <4>2, <4>3 DEF ClearFail
      <3> QED
        BY <1>1, <3>1, <3>2
    <2> QED
      BY <2>1, <2>2, IrrelevantKeeps
  <1>2. ASSUME NEW e \in clr.todo, ClearFile(e) PROVE MemoryInv'
    <2>1. UNCHANGED <<mode, now, snaps, dmu, amu, ps, last, clearing, kept, wrote>>
      BY <1>2 DEF ClearFile, setup, domainHist
    <2>2. clr'.json \subseteq clr.json
      BY <1>2 DEF ClearFile
    <2>3. \/ UNCHANGED <<attrs, akept>>
          \/ attrs' = NoAttrs /\ akept' = {}
      BY <1>2 DEF ClearFile
    <2> QED
      BY <2>1, <2>2, <2>3, IrrelevantKeeps
  <1> QED
    BY <1>1, <1>2, ClearRemoveKeeps, ClearUnlinkKeeps, ClearRmdirKeeps DEF ClearStep

-----------------------------------------------------------------------------
(* The files, the mutexes and the goroutines satisfy the inductive         *)
(* invariant in every reachable state.                                     *)
THEOREM MemoryInvariant == Spec => []MemoryInv
  <1>1. Init => MemoryInv
    <2> SUFFICES ASSUME Init PROVE MemoryInv
      OBVIOUS
    <2>1. Times = {} /\ clr.json = {} /\ wrote = {} /\ Recent = {}
      BY EmptyDirectory DEF Init, Times, NoClear, Recent
    <2>2. Typed
      BY <2>1, IdleLocal, FS_EmptySet DEF Init, Typed, StoreTyped, NoAttrs, None, Content
    <2>3. ASSUME NEW p \in Procs PROVE DomainOK(p) /\ AttrsOK(p)
      <3>1. ps[p].pc = "idle"
        BY IdleLocal DEF Init
      <3> QED
        BY <3>1 DEF DomainOK, AttrsOK, DomainPc, AttrsPc
    <2>4. HistoryOK /\ AttrsDurable
      BY <2>1 DEF Init, HistoryOK, NewestIsLast, AttrsDurable, NoAttrs
    <2> QED
      BY <2>2, <2>3, <2>4 DEF MemoryInv
  <1>2. MemoryInv /\ [Next]_vars => MemoryInv'
    <2> SUFFICES ASSUME MemoryInv, [Next]_vars PROVE MemoryInv'
      OBVIOUS
    <2>1. CASE UNCHANGED vars
      <3>1. UNCHANGED <<mode, now, snaps, clr, attrs, dmu, amu, ps,
                        last, clearing, kept, wrote, akept>>
        BY <2>1 DEF vars, setup, files, history, domainHist
      <3> QED
        BY <3>1, IrrelevantKeeps
    <2> QED
      BY <2>1, DomainBeginKeeps, AttrsBeginKeeps, DomainStepKeeps, AttrsStepKeeps,
         ClearStepKeeps, CrashKeeps DEF Next
  <1> QED
    BY <1>1, <1>2, PTL DEF Spec

(* A reader of the domain gets the snapshot renamed into place last, for   *)
(* any retention tiers and whichever files Clear unlinks first: prune      *)
(* never takes it, and once Clear has emptied the domain or a write has    *)
(* followed it, nothing older can be read.                                 *)
THEOREM ReadersSeeLastWrite == Spec => []CurrentIsLastWrite
  <1>1. MemoryInv => CurrentIsLastWrite
    BY CurrentLast DEF MemoryInv, Typed, HistoryOK, CurrentIsLastWrite
  <1> QED
    BY <1>1, MemoryInvariant, PTL

(* No SetKey loses a key another goroutine stored, with any number of      *)
(* goroutines, crashes, failed calls and Clears.                           *)
THEOREM KeysAreKept == Spec => []NoKeyLost
  <1>1. MemoryInv => NoKeyLost
    <2> SUFFICES ASSUME MemoryInv PROVE NoKeyLost
      OBVIOUS
    <2>1. CASE clearing
      BY <2>1 DEF MemoryInv, HistoryOK, NoKeyLost
    <2>2. CASE ~clearing
      <3>1. Current = last
        BY <2>2, CurrentLast DEF MemoryInv, Typed, HistoryOK
      <3> QED
        BY <3>1 DEF MemoryInv, HistoryOK, NoKeyLost
    <2> QED
      BY <2>1, <2>2
  <1> QED
    BY <1>1, MemoryInvariant, PTL

(* attrs.json never loses a key to a concurrent Set or Delete, or a crash. *)
THEOREM AttrsAreKept == Spec => []AttrsDurable
  <1>1. MemoryInv => AttrsDurable
    BY DEF MemoryInv
  <1> QED
    BY <1>1, MemoryInvariant, PTL

(* For any tiers and any run of writes, a value that was current for a     *)
(* bucket of the first tier stays in the history for that tier's horizon.  *)
THEOREM RecentHistoryStays == Spec => []RecentHistoryKept
  <1>1. MemoryInv => RecentHistoryKept
    BY DEF MemoryInv, HistoryOK, Recent, RecentHistoryKept
  <1> QED
    BY <1>1, MemoryInvariant, PTL
=============================================================================
