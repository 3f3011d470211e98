------------------------------- MODULE Memory -------------------------------
(***************************************************************************)
(* The endpoint agent's file-backed memory (endpoint-server/memory): one   *)
(* domain directory of timestamped snapshots with tiered retention, the    *)
(* attrs.json key-value file, the incremental size counter, Clear, failing *)
(* file system calls, and a crash and restart at any moment.               *)
(*                                                                         *)
(* Each mutex-protected operation is split at its file system calls: Clear *)
(* takes no mutex, and a crash can fall between any two of them.  Values   *)
(* are sets of keys (a map in key mode, its content in whole-blob mode);   *)
(* the length of a marshalled value is its number of keys plus one.        *)
(***************************************************************************)
EXTENDS Integers, Sequences, FiniteSets, FiniteSetsExt

CONSTANTS
    Procs,        \* goroutines that use the store
    Keys,         \* keys and contents they write
    Tiers,        \* retentionTiers, in some unit of time
    Steps,        \* time that may pass between two writes
    MaxTime,      \* bound on the clock
    MaxFaults,    \* bound on crashes, failing calls and DELETE /memory together
    MixTime,      \* the same two bounds when the goroutines use both stores
    MixFaults

Nobody == "nobody"

ASSUME MemoryAssumption ==
    /\ Nobody \notin Procs
    /\ Tiers \in Seq([horizon : Nat, bucket : Nat \ {0}]) /\ Tiers # <<>>
    /\ \A i, j \in DOMAIN Tiers : i < j => Tiers[i].horizon < Tiers[j].horizon
    /\ Steps \subseteq Nat \ {0}
    /\ MaxTime \in Nat /\ MaxFaults \in Nat /\ MixTime \in 0 .. MaxTime /\ MixFaults \in Nat

VARIABLES
    mode,      \* how the domain is used: "key" (SetKey) or "blob" (Write)
    uses,      \* the store each goroutine works on
    now,       \* the clock, as last read by writeLocked
    dir,       \* the domain directory exists
    snaps,     \* its snapshots: a function from timestamps to values
    tmps,      \* its .tmp files, by timestamp
    attrs,     \* attrs.json: missing, torn (cut short) or ok, and its keys
    atmp,      \* attrs.json.tmp exists
    dmu, amu,  \* holders of DomainStore.mu and AttrsStore.mu
    ps,        \* the goroutines
    size,      \* Store.sizeBytes
    clr,       \* the DELETE /memory handler: its step and what is left to remove
    faults,    \* crashes, failed calls and Clears so far
    last,      \* history: the value of the last snapshot put in place
    clearing,  \* history: a Clear has begun on the domain and not emptied it,
               \* and nothing has been put in place since
    kept,      \* history: keys SetKey has put in place since Clear reached the domain
    wrote,     \* history: the times of the snapshots put in place since then
    akept,     \* history: keys Set has put in place, and no Delete or Clear removed
    exact,     \* history: no Clear has overlapped a write since the agent started
    counted    \* history: .tmp files there when the size was last measured

files == <<dir, snaps, tmps, attrs, atmp>>
setup == <<mode, uses>>
domainHist == <<last, clearing, kept, wrote>>
sizeHist == <<exact, counted>>
history == <<domainHist, akept, sizeHist>>
vars == <<setup, now, files, dmu, amu, ps, size, clr, faults, history>>

None == {}
Value == SUBSET Keys
DomainPc == {"mkdir", "tmp", "rename", "prune", "remove", "account"}
AttrsPc == {"aTmp", "aRename", "aAccount"}
NoAttrs == [st |-> "missing", keys |-> None]
NoClear == [pc |-> "idle", todo |-> {}, json |-> {}, tmp |-> {}]
Idle == [pc |-> "idle", key |-> None, val |-> None, old |-> 0, del |-> {}, freed |-> 0]

Init ==
    /\ mode \in {"key", "blob"}
    /\ uses \in [Procs -> {"domain", "attrs"}]
    /\ now = 0
    /\ dir = FALSE
    /\ snaps = <<>>
    /\ tmps = {}
    /\ attrs = NoAttrs
    /\ atmp = FALSE
    /\ dmu = Nobody /\ amu = Nobody
    /\ ps = [p \in Procs |-> Idle]
    /\ size = 0
    /\ clr = NoClear
    /\ faults = 0
    /\ last = None /\ clearing = FALSE /\ kept = {} /\ wrote = {} /\ akept = {}
    /\ exact = TRUE /\ counted = 0

-----------------------------------------------------------------------------
(* Pure parts: the newest snapshot, the retention policy, sizes.            *)

Times == DOMAIN snaps
Len1(v) == Cardinality(v) + 1

Newest(T) == CHOOSE t \in T : \A u \in T : u <= t

\* readCurrentLocked, with the error of an empty domain ignored as Update does.
Current == IF Times = {} THEN None ELSE snaps[Newest(Times)]

MaxAge == Tiers[Len(Tiers)].horizon

\* Mutant: every age is divided by the bucket of the last tier.
BucketOfCoarse(age) ==
    LET i == CHOOSE j \in DOMAIN Tiers : age <= Tiers[j].horizon
                 /\ \A k \in 1 .. j - 1 : age > Tiers[k].horizon
    IN  <<i, age \div Tiers[Len(Tiers)].bucket>>

\* The tier and the bucket of a snapshot of this age.
BucketOf(age) ==
    LET i == CHOOSE j \in DOMAIN Tiers : age <= Tiers[j].horizon
                 /\ \A k \in 1 .. j - 1 : age > Tiers[k].horizon
    IN  <<i, age \div Tiers[i].bucket>>

\* Mutant: the first snapshot seen in a bucket is kept, not the newest.
PrunedOldest(T, t) ==
    {s \in T : t - s > MaxAge
               \/ \E u \in T : u < s /\ t - u <= MaxAge /\ BucketOf(t - u) = BucketOf(t - s)}

\* What prune deletes from the snapshots T at time t.
Pruned(T, t) ==
    {s \in T : t - s > MaxAge
               \/ \E u \in T : u > s /\ BucketOf(t - u) = BucketOf(t - s)}

AttrsSize == IF attrs = NoAttrs THEN 0 ELSE Len1(attrs.keys)

DataSize == MapThenSumSet(LAMBDA t : Len1(snaps[t]), Times) + AttrsSize

\* A .tmp file counts one unit.
TmpSize == Cardinality(tmps) + (IF atmp THEN 1 ELSE 0)

\* dirSize: every regular file.
DiskSize == DataSize + TmpSize

Without(f, S) == [t \in DOMAIN f \ S |-> f[t]]

Mixed == \E p, q \in Procs : uses[p] # uses[q]
TimeLimit == IF Mixed THEN MixTime ELSE MaxTime
FaultLimit == IF Mixed THEN MixFaults ELSE MaxFaults

Fault == faults < FaultLimit /\ faults' = faults + 1

-----------------------------------------------------------------------------
(* DomainStore: SetKey through Update, and Write.                           *)

\* What readCurrentLocked may return: Clear can unlink the newest file between
\* the listing and the read, and the error counts as an empty domain.
Readable ==
    IF Times # {} /\ Newest(Times) \in clr.json THEN {Current, None} ELSE {Current}

Goto(p, pc) == ps' = [ps EXCEPT ![p].pc = pc]

\* Mutant: two goroutines may be inside the operation.
DomainBeginUnlocked(p, k) ==
    /\ uses[p] = "domain" /\ ps[p] = Idle
    /\ dmu' = p
    /\ \E v \in Readable :
          ps' = [ps EXCEPT ![p] = [Idle EXCEPT !.pc = "mkdir", !.key = {k},
                    !.val = IF mode = "key" THEN v \cup {k} ELSE {k}]]
    /\ exact' = (exact /\ clr.pc = "idle")
    /\ UNCHANGED <<setup, now, files, amu, size, clr, faults, domainHist, akept, counted>>

\* Lock; Update reads the current snapshot and mutates it, Write does not.
DomainBegin(p, k) ==
    /\ uses[p] = "domain" /\ ps[p] = Idle /\ dmu = Nobody
    /\ dmu' = p
    /\ \E v \in Readable :
          ps' = [ps EXCEPT ![p] = [Idle EXCEPT !.pc = "mkdir", !.key = {k},
                    !.val = IF mode = "key" THEN v \cup {k} ELSE {k}]]
    /\ exact' = (exact /\ clr.pc = "idle")
    /\ UNCHANGED <<setup, now, files, amu, size, clr, faults, domainHist, akept, counted>>

\* The clock is read, and MkdirAll.
DomainMkdir(p) ==
    /\ ps[p].pc = "mkdir"
    /\ \E d \in Steps : now + d <= TimeLimit /\ now' = now + d
    /\ dir' = TRUE
    /\ Goto(p, "tmp")
    /\ UNCHANGED <<setup, snaps, tmps, attrs, atmp, dmu, amu, size, clr, faults, history>>

\* Return: the deferred Unlock.
DomainReturn(p) ==
    /\ ps' = [ps EXCEPT ![p] = Idle]
    /\ dmu' = Nobody

\* Mutant: the error return does not unlock.
DomainTmpKeepsLock(p) ==
    /\ ps[p].pc = "tmp"
    /\ IF dir
       THEN tmps' = tmps \cup {now} /\ Goto(p, "rename")
       ELSE ps' = [ps EXCEPT ![p] = Idle] /\ UNCHANGED tmps
    /\ UNCHANGED <<setup, now, dir, snaps, attrs, atmp, dmu, amu, size, clr, faults, history>>

\* WriteFile of the temporary file; it fails if Clear has removed the directory.
DomainTmp(p) ==
    /\ ps[p].pc = "tmp"
    /\ IF dir
       THEN tmps' = tmps \cup {now} /\ Goto(p, "rename") /\ UNCHANGED dmu
       ELSE DomainReturn(p) /\ UNCHANGED tmps
    /\ UNCHANGED <<setup, now, dir, snaps, attrs, atmp, amu, size, clr, faults, history>>

\* Rename puts the snapshot in place; Clear may have removed the file.
DomainRename(p) ==
    /\ ps[p].pc = "rename"
    /\ IF now \in tmps
       THEN /\ snaps' = [t \in Times \cup {now} |-> IF t = now THEN ps[p].val ELSE snaps[t]]
            /\ tmps' = tmps \ {now}
            /\ last' = ps[p].val /\ clearing' = FALSE
            /\ kept' = kept \cup ps[p].key
            /\ wrote' = wrote \cup {now}
            /\ Goto(p, "prune")
            /\ UNCHANGED dmu
       ELSE DomainReturn(p) /\ UNCHANGED <<snaps, tmps, domainHist>>
    /\ UNCHANGED <<setup, now, dir, attrs, atmp, amu, size, clr, faults, akept, sizeHist>>

\* MkdirAll, WriteFile or Rename fails and the operation returns the error.  A
\* WriteFile that fails half-way leaves its file; a failed Rename removes it.
DomainFail(p) ==
    /\ ps[p].pc \in {"mkdir", "tmp", "rename"} /\ Fault
    /\ \/ ps[p].pc = "tmp" /\ dir /\ tmps' = tmps \cup {now}
       \/ ps[p].pc = "rename" /\ tmps' = tmps \ {now}
       \/ ps[p].pc # "rename" /\ UNCHANGED tmps
    /\ DomainReturn(p)
    /\ UNCHANGED <<setup, now, dir, snaps, attrs, atmp, amu, size, clr, history>>

\* prune: what to delete is decided from one directory listing.
DomainPrune(p) ==
    /\ ps[p].pc = "prune"
    /\ ps' = [ps EXCEPT ![p].pc = "remove", ![p].del = Pruned(Times, now)]
    /\ UNCHANGED <<setup, now, files, dmu, amu, size, clr, faults, history>>

\* os.Remove of one of them; only files actually removed are counted.
DomainRemove(p, t) ==
    /\ ps[p].pc = "remove" /\ t \in ps[p].del
    /\ snaps' = Without(snaps, {t})
    /\ ps' = [ps EXCEPT ![p].del = @ \ {t},
                        ![p].freed = @ + (IF t \in Times THEN Len1(snaps[t]) ELSE 0)]
    /\ UNCHANGED <<setup, now, dir, tmps, attrs, atmp, dmu, amu, size, clr, faults, history>>

\* It fails: the snapshot stays and is not counted.
DomainRemoveFail(p, t) ==
    /\ ps[p].pc = "remove" /\ t \in ps[p].del /\ Fault
    /\ ps' = [ps EXCEPT ![p].del = @ \ {t}]
    /\ UNCHANGED <<setup, now, files, dmu, amu, size, clr, history>>

DomainPruned(p) ==
    /\ ps[p].pc = "remove" /\ ps[p].del = {}
    /\ Goto(p, "account")
    /\ UNCHANGED <<setup, now, files, dmu, amu, size, clr, faults, history>>

\* Mutant: the bytes prune freed are not subtracted.
DomainAccountGrows(p) ==
    /\ ps[p].pc = "account"
    /\ size' = size + Len1(ps[p].val)
    /\ DomainReturn(p)
    /\ UNCHANGED <<setup, now, files, amu, clr, faults, history>>

\* onDelta, and the operation returns nil.
DomainAccount(p) ==
    /\ ps[p].pc = "account"
    /\ size' = size + Len1(ps[p].val) - ps[p].freed
    /\ DomainReturn(p)
    /\ UNCHANGED <<setup, now, files, amu, clr, faults, history>>

-----------------------------------------------------------------------------
(* AttrsStore: Set and Delete rewrite the whole file.                       *)

\* Lock and read; a Delete of a missing key returns at once.
AttrsBegin(p, k, set) ==
    /\ uses[p] = "attrs" /\ ps[p] = Idle /\ amu = Nobody
    /\ set \/ k \in attrs.keys
    /\ amu' = p
    /\ ps' = [ps EXCEPT ![p] = [Idle EXCEPT !.pc = "aTmp", !.key = {k}, !.old = AttrsSize,
                 !.val = IF set THEN attrs.keys \cup {k} ELSE attrs.keys \ {k}]]
    /\ exact' = (exact /\ clr.pc = "idle")
    /\ UNCHANGED <<setup, now, files, dmu, size, clr, faults, domainHist, akept, counted>>

\* Mutant: attrs.json is truncated and written in place.
AttrsTmpInPlace(p) ==
    /\ ps[p].pc = "aTmp"
    /\ attrs' = [st |-> "torn", keys |-> None] /\ atmp' = TRUE
    /\ Goto(p, "aRename")
    /\ UNCHANGED <<setup, now, dir, snaps, tmps, dmu, amu, size, clr, faults, history>>

AttrsTmp(p) ==
    /\ ps[p].pc = "aTmp"
    /\ atmp' = TRUE
    /\ Goto(p, "aRename")
    /\ UNCHANGED <<setup, now, dir, snaps, tmps, attrs, dmu, amu, size, clr, faults, history>>

AttrsReturn(p) ==
    /\ ps' = [ps EXCEPT ![p] = Idle]
    /\ amu' = Nobody

AttrsRename(p) ==
    /\ ps[p].pc = "aRename"
    /\ IF atmp
       THEN /\ attrs' = [st |-> "ok", keys |-> ps[p].val]
            /\ atmp' = FALSE
            /\ akept' = IF ps[p].key \subseteq ps[p].val THEN akept \cup ps[p].key
                        ELSE akept \ ps[p].key
            /\ Goto(p, "aAccount")
            /\ UNCHANGED amu
       ELSE AttrsReturn(p) /\ UNCHANGED <<attrs, atmp, akept>>
    /\ UNCHANGED <<setup, now, dir, snaps, tmps, dmu, size, clr, faults, domainHist, sizeHist>>

\* WriteFile fails, with or without a partial file, or Rename does.
AttrsFail(p) ==
    /\ ps[p].pc \in {"aTmp", "aRename"} /\ Fault
    /\ \/ ps[p].pc = "aTmp" /\ atmp' \in {atmp, TRUE}
       \/ ps[p].pc = "aRename" /\ atmp' = FALSE
    /\ AttrsReturn(p)
    /\ UNCHANGED <<setup, now, dir, snaps, tmps, attrs, dmu, size, clr, history>>

AttrsAccount(p) ==
    /\ ps[p].pc = "aAccount"
    /\ size' = size + Len1(ps[p].val) - ps[p].old
    /\ AttrsReturn(p)
    /\ UNCHANGED <<setup, now, files, dmu, clr, faults, history>>

-----------------------------------------------------------------------------
(* Clear (DELETE /memory), which takes no mutex.                            *)

ClearBegin ==
    /\ clr.pc = "idle" /\ Fault
    /\ clr' = [NoClear EXCEPT !.pc = "remove", !.todo = (IF dir THEN {"domain"} ELSE {})
                    \cup (IF attrs # NoAttrs THEN {"attrs"} ELSE {})
                    \cup (IF atmp THEN {"atmp"} ELSE {})]
    /\ exact' = (exact /\ \A p \in Procs : ps[p] = Idle)
    /\ UNCHANGED <<setup, now, files, dmu, amu, ps, size, domainHist, akept, counted>>

\* RemoveAll of attrs.json or of its .tmp file.
ClearFile(e) ==
    /\ clr.pc = "remove" /\ e \in clr.todo \ {"domain"}
    /\ clr' = [clr EXCEPT !.todo = @ \ {e}]
    /\ IF e = "attrs"
       THEN attrs' = NoAttrs /\ akept' = {} /\ UNCHANGED atmp
       ELSE atmp' = FALSE /\ UNCHANGED <<attrs, akept>>
    /\ UNCHANGED <<setup, now, dir, snaps, tmps, dmu, amu, ps, size, faults, domainHist, sizeHist>>

\* RemoveAll of the domain directory lists it once,
ClearRemove ==
    /\ clr.pc = "remove" /\ "domain" \in clr.todo
    /\ clr' = [pc |-> "unlink", todo |-> clr.todo \ {"domain"}, json |-> Times, tmp |-> tmps]
    /\ clearing' = TRUE /\ kept' = {} /\ wrote' = {}
    /\ UNCHANGED <<setup, now, files, dmu, amu, ps, size, faults, last, akept, sizeHist>>

\* unlinks what it has listed, in any order, while writes go on,
ClearUnlink ==
    /\ \/ \E t \in clr.json :
             /\ snaps' = Without(snaps, {t}) /\ UNCHANGED tmps
             /\ clr' = [clr EXCEPT !.json = @ \ {t}]
       \/ \E t \in clr.tmp :
             /\ tmps' = tmps \ {t} /\ UNCHANGED snaps
             /\ clr' = [clr EXCEPT !.tmp = @ \ {t}]
    /\ UNCHANGED <<setup, now, dir, attrs, atmp, dmu, amu, ps, size, faults, history>>

\* and removes the directory, which fails if something is in it.
ClearRmdir ==
    /\ clr.pc = "unlink" /\ clr.json = {} /\ clr.tmp = {}
    /\ clr' = [clr EXCEPT !.pc = "remove"]
    /\ dir' = (Times \cup tmps # {})
    /\ clearing' = (clearing /\ Times # {})
    /\ last' = IF clearing /\ Times = {} THEN None ELSE last
    /\ UNCHANGED <<setup, now, snaps, tmps, attrs, atmp, dmu, amu, ps, size, faults,
                   kept, wrote, akept, sizeHist>>

\* One of the entries cannot be removed: Clear notes the error and goes on.
ClearFail ==
    /\ Fault
    /\ \/ clr.pc = "remove" /\ \E e \in clr.todo : clr' = [clr EXCEPT !.todo = @ \ {e}]
       \/ \E t \in clr.json : clr' = [clr EXCEPT !.json = @ \ {t}]
       \/ \E t \in clr.tmp : clr' = [clr EXCEPT !.tmp = @ \ {t}]
    /\ UNCHANGED <<setup, now, files, dmu, amu, ps, size, history>>

\* sizeBytes is measured again.
ClearResync ==
    /\ clr.pc = "remove" /\ clr.todo = {}
    /\ clr' = NoClear
    /\ size' = DiskSize /\ counted' = TmpSize
    /\ UNCHANGED <<setup, now, files, dmu, amu, ps, faults, domainHist, akept, exact>>

-----------------------------------------------------------------------------
(* The process dies and New measures what is on disk.                       *)

Crash ==
    /\ Fault
    /\ ps' = [p \in Procs |-> Idle]
    /\ dmu' = Nobody /\ amu' = Nobody
    /\ clr' = NoClear
    /\ size' = DiskSize /\ counted' = TmpSize
    /\ exact' = TRUE
    /\ UNCHANGED <<setup, now, files, domainHist, akept>>

-----------------------------------------------------------------------------
DomainStep(p) ==
    \/ DomainMkdir(p) \/ DomainTmp(p) \/ DomainRename(p) \/ DomainFail(p) \/ DomainPrune(p)
    \/ \E t \in ps[p].del : DomainRemove(p, t) \/ DomainRemoveFail(p, t)
    \/ DomainPruned(p) \/ DomainAccount(p)

AttrsStep(p) == AttrsTmp(p) \/ AttrsRename(p) \/ AttrsFail(p) \/ AttrsAccount(p)

ClearStep ==
    \/ \E e \in clr.todo : ClearFile(e)
    \/ ClearRemove \/ ClearUnlink \/ ClearRmdir \/ ClearFail \/ ClearResync

Next ==
    \/ \E p \in Procs, k \in Keys :
          DomainBegin(p, k) \/ \E set \in BOOLEAN : AttrsBegin(p, k, set)
    \/ \E p \in Procs : DomainStep(p) \/ AttrsStep(p)
    \/ ClearBegin \/ ClearStep
    \/ Crash

Spec == Init /\ [][Next]_vars

-----------------------------------------------------------------------------
(* Properties.                                                              *)

(* Files and goroutines have their types, and each mutex is held by nobody *)
(* or by a goroutine inside the operation it protects.                     *)
TypeOK ==
    /\ mode \in {"key", "blob"}
    /\ uses \in [Procs -> {"domain", "attrs"}]
    /\ now \in 0 .. MaxTime
    /\ dir \in BOOLEAN /\ atmp \in BOOLEAN
    /\ Times \subseteq 1 .. MaxTime /\ \A t \in Times : snaps[t] \in Value
    /\ tmps \subseteq 1 .. MaxTime
    /\ attrs \in [st : {"missing", "torn", "ok"}, keys : Value]
    /\ dmu \in {p \in Procs : ps[p].pc \in DomainPc} \cup {Nobody}
    /\ amu \in {p \in Procs : ps[p].pc \in AttrsPc} \cup {Nobody}
    /\ ps \in [Procs -> [pc : {"idle"} \cup DomainPc \cup AttrsPc, key : Value, val : Value,
                          old : Nat, del : SUBSET (1 .. MaxTime), freed : Nat]]
    /\ size \in Int
    /\ clr \in [pc : {"idle", "remove", "unlink"}, todo : SUBSET {"domain", "attrs", "atmp"},
                json : SUBSET (1 .. MaxTime), tmp : SUBSET (1 .. MaxTime)]
    /\ last \in Value /\ clearing \in BOOLEAN
    /\ kept \subseteq Keys /\ akept \subseteq Keys /\ wrote \subseteq 1 .. MaxTime
    /\ exact \in BOOLEAN /\ counted \in Nat

(* ReadCurrent returns the snapshot renamed into place last, never a       *)
(* half-written one and never one that prune should have spared.  While    *)
(* Clear unlinks the domain it may return an earlier one, and that lasts   *)
(* until the next write if Clear cannot finish; once Clear has emptied the *)
(* domain, what can be read is what was put in place after it got there.   *)
CurrentIsLastWrite == clearing \/ Current = last

(* SetKey "preserv[es] any other keys": whatever the interleaving, after   *)
(* failed calls and across a crash, no key stored since Clear last reached *)
(* the domain is lost.                                                     *)
NoKeyLost == mode = "key" => kept \subseteq Current

(* The same for attrs.json, whose Set ignores a file it cannot parse: a    *)
(* torn file would lose every other key.                                   *)
AttrsDurable == akept \subseteq attrs.keys

(* SizeBytes follows the disk without walking it: it is the size of the    *)
(* snapshots and of attrs.json, plus the temporary files that were there   *)
(* when it was last measured.  What a failing WriteFile leaves is missing  *)
(* from it until the next measurement, and an attrs.json.tmp measured then *)
(* stays in it when the next Set renames it away.  A Clear that overlaps a *)
(* write makes it drift.                                                   *)
SizeTracksDisk ==
    exact /\ clr.pc = "idle" /\ (\A p \in Procs : ps[p] = Idle) => size = DataSize + counted

(* No snapshot was put in place less than a bucket of the first tier       *)
(* after w.                                                                *)
Lasted(w) == \A u \in wrote : u > w => u - w >= Tiers[1].bucket

(* What a long run of writes leaves of the recent past: a value that was   *)
(* current for at least a bucket of the first tier stays in the history    *)
(* for the whole horizon of that tier, though every write sorts all the    *)
(* snapshots into buckets anew.                                            *)
RecentHistoryKept ==
    \A w \in wrote : Lasted(w) /\ now - w <= Tiers[1].horizon => w \in Times

(* memory.md: "In steady state a domain holds roughly 12 recent + ~167     *)
(* hourly + ~83 daily": with a write in every unit of time, each bucket    *)
(* the writes reach back to holds a snapshot.                              *)
SteadyState ==
    \A p \in Procs : ps[p].pc = "account" =>
        \A w \in 1 .. now : now - w <= MaxAge =>
            \E t \in Times : BucketOf(now - t) = BucketOf(now - w)
=============================================================================
