------------------------------ MODULE Approvals ------------------------------
(***************************************************************************)
(* The human-in-the-loop approval flow of the endpoint agent: the blocking *)
(* and the asynchronous request (skills/request_approval), the operator's  *)
(* decision handler (approvalapi), the detached execution of an approved   *)
(* command (run_approved_command.ExecuteOnApproval), the one-minute expiry *)
(* sweeper, shutdown, crash and restart.                                   *)
(*                                                                         *)
(* The unit of atomicity is one call on the memory store, because that is  *)
(* what the store's mutexes protect: an attrs Get, Set, Delete or All, a   *)
(* timeline ReadCurrent or Write.  Every read-modify-write of the code is  *)
(* therefore two steps, with the value read kept in the goroutine's local  *)
(* state between them.                                                     *)
(***************************************************************************)
EXTENDS Naturals, FiniteSets

CONSTANTS
    Ids,          \* approval ids (newUUID never repeats one)
    High,         \* ids whose importance or risk is high
    Posts,        \* POST /approvals/{id}/decision requests, each sent once
    Decisions,    \* the decisions the operator may send
    MaxAttrs,     \* maxAttrsEntries
    MaxRestarts   \* bound on process crashes and restarts

ASSUME ApprovalsAssumption ==
    /\ Ids # {} /\ High \subseteq Ids
    /\ Decisions \subseteq {"approved", "rejected"}
    /\ MaxAttrs \in Nat
    /\ MaxRestarts \in Nat

(***************************************************************************)
(* Age of a request: 0 until half of its timeout, 1 until the timeout, 2   *)
(* after it, 3 once everything that happened in ages 0-2 is older than     *)
(* attrsRetention (30 days).                                               *)
(***************************************************************************)
Ages == 0..3
HalfAge == 1
TimeoutAge == 2
OldAge == 3

Statuses == {"pending", "approved", "rejected", "timed_out", "cancelled"}

\* ApprovalEntry; "when" is DecidedAt, or RequestedAt while that is nil.
\* Status "none" stands for a key that is not in attrs.json.
Entry == [status : Statuses \cup {"none"}, escalated : BOOLEAN,
          output : BOOLEAN, when : Ages]
Absent == [status |-> "none", escalated |-> FALSE, output |-> FALSE, when |-> 0]

\* The approval cards of the timeline domain, by id; "none" means no card.
Timeline == [Ids -> Statuses \cup {"none"}]
NoCards == [i \in Ids |-> "none"]

VARIABLES
    flow,       \* how each request is filed: "blocking" through RequestApproval,
                \* "async" through SubmitApproval with AutoExecute = true
    attrs,      \* AttrsStore: approval entries
    card,       \* "timeline" domain: status of each approval card
    shown,      \* ids whose card has been on the timeline (operator knows them)
    age,        \* age of each request
    up,         \* the agent process is running
    stopping,   \* its context is cancelled (SIGTERM received)
    restarts,   \* number of crashes or exits so far
    rq,         \* requesting goroutines, one per id
    po,         \* decision handlers, one per POST
    ex,         \* detached ExecuteOnApproval goroutines, one per POST
    sw,         \* the expiry sweeper goroutine
    grants,     \* history: approvals the handler stored, per id
    acted,      \* history: times the proposed action was carried out
    reminders,  \* history: reminder notifications sent
    told        \* history: ids whose operator was told "NOT taken"

store == <<attrs, card, shown>>
proc == <<flow, up, stopping, restarts>>
history == <<grants, acted, reminders, told>>
vars == <<flow, attrs, card, shown, age, up, stopping, restarts, rq, po, ex, sw,
          grants, acted, reminders, told>>

RqPc == {"idle", "tlRead", "tlWrite", "wait", "escSet", "patchSet",
         "patchTlRead", "patchTlWrite", "act", "end"}
PoPc == {"idle", "set", "del", "rmRead", "rmWrite", "tlRead", "tlWrite", "end"}
ExPc == {"none", "run", "outGet", "outSet", "apRead", "apWrite",
         "recRead", "recWrite", "end"}
SwPc == {"idle", "escalate", "escSet", "expire", "expSet", "expTlRead",
         "expTlWrite", "prune"}

Requester == [pc : RqPc, loc : Entry, tl : Timeline,
              res : Statuses \cup {"none", "error"}, armed : BOOLEAN]
Handler == [pc : PoPc, id : Ids, dec : {"approved", "rejected"}, loc : Entry, tl : Timeline]
Execution == [pc : ExPc, loc : Entry, tl : Timeline]
Sweeper == [pc : SwPc, now : [Ids -> Ages], todo : SUBSET Ids, id : Ids,
            loc : Entry, tl : Timeline]

IdleRq == [pc |-> "idle", loc |-> Absent, tl |-> NoCards, res |-> "none", armed |-> FALSE]
IdleEx == [pc |-> "none", loc |-> Absent, tl |-> NoCards]
EndRq == [IdleRq EXCEPT !.pc = "end"]

\* An id to fill the unused id fields with.
AnId == CHOOSE i \in Ids : TRUE
IdlePo == [pc |-> "idle", id |-> AnId, dec |-> "rejected", loc |-> Absent, tl |-> NoCards]
IdleSw == [pc |-> "idle", now |-> [i \in Ids |-> 0], todo |-> {}, id |-> AnId,
           loc |-> Absent, tl |-> NoCards]

Init ==
    /\ flow \in [Ids -> {"blocking", "async"}]
    /\ attrs = [i \in Ids |-> Absent]
    /\ card = NoCards
    /\ shown = {}
    /\ age = [i \in Ids |-> 0]
    /\ up = TRUE
    /\ stopping = FALSE
    /\ restarts = 0
    /\ rq = [i \in Ids |-> IdleRq]
    /\ po = [p \in Posts |-> IdlePo]
    /\ ex = [p \in Posts |-> IdleEx]
    /\ sw = IdleSw
    /\ grants = [i \in Ids |-> 0]
    /\ acted = [i \in Ids |-> 0]
    /\ reminders = [i \in Ids |-> 0]
    /\ told = {}

Blocking == {i \in Ids : flow[i] = "blocking"}

Exists(i) == attrs[i].status # "none"
IsPending(e) == e.status = "pending"

\* PatchTimeline and RemoveFromTimeline rewrite the list they read; neither
\* writes anything when the list has no card with the id.
Patched(tl, i, s) == [tl EXCEPT ![i] = s]
Removed(tl, i) == [tl EXCEPT ![i] = "none"]

\* Mutant: the status literal is misspelt.
PatchedEntryExpired(e, s) ==
    [e EXCEPT !.status = IF s = "timed_out" THEN "expired" ELSE s, !.when = 0]

\* patchAttrs: status and reason replaced, DecidedAt back to nil.
PatchedEntry(e, s) == [e EXCEPT !.status = s, !.when = 0]

-----------------------------------------------------------------------------
(* createPending, shared by both flows: entry, then card.                  *)

RqCreate(i) ==
    /\ up /\ rq[i].pc = "idle"
    /\ attrs' = [attrs EXCEPT ![i] = [Absent EXCEPT !.status = "pending"]]
    /\ rq' = [rq EXCEPT ![i].pc = "tlRead"]
    /\ UNCHANGED <<card, shown, age, proc, po, ex, sw, history>>

RqTlRead(i) ==
    /\ up /\ rq[i].pc = "tlRead"
    /\ rq' = [rq EXCEPT ![i].pc = "tlWrite", ![i].tl = card]
    /\ UNCHANGED <<store, age, proc, po, ex, sw, history>>

\* After the card SubmitApproval returns; RequestApproval starts waiting,
\* with the reminder timer armed for high importance or risk.
RqTlWrite(i) ==
    /\ up /\ rq[i].pc = "tlWrite"
    /\ card' = Patched(rq[i].tl, i, "pending")
    /\ shown' = shown \cup {i}
    /\ rq' = [rq EXCEPT ![i] = IF i \in Blocking
                               THEN [IdleRq EXCEPT !.pc = "wait", !.armed = (i \in High)]
                               ELSE EndRq]
    /\ UNCHANGED <<attrs, age, proc, po, ex, sw, history>>

-----------------------------------------------------------------------------
(* requestApprovalOnce: the select loop of the blocking waiter.            *)

\* Mutant: a missing entry is taken for one that is still pending.
RqPatchGetStays(i, s, r) ==
    /\ up /\ rq[i].pc = "wait" /\ Exists(i)
    /\ rq' = [rq EXCEPT ![i] = [@ EXCEPT !.pc = "patchSet", !.res = r,
                                         !.loc = PatchedEntry(attrs[i], s)]]
    /\ UNCHANGED <<store, age, proc, po, ex, sw, history>>

\* The Get of patchAttrs, its error ignored, on shutdown or timeout; r is
\* what the call will return.
RqPatchGet(i, s, r) ==
    /\ up /\ rq[i].pc = "wait"
    /\ rq' = [rq EXCEPT ![i] = [@ EXCEPT
                 !.pc = IF Exists(i) THEN "patchSet" ELSE "patchTlRead",
                 !.loc = IF Exists(i) THEN PatchedEntry(attrs[i], s) ELSE Absent,
                 !.res = r]]
    /\ UNCHANGED <<store, age, proc, po, ex, sw, history>>

RqCancel(i) == stopping /\ RqPatchGet(i, "cancelled", "error")

RqTimeout(i) == age[i] >= TimeoutAge /\ RqPatchGet(i, "timed_out", "timed_out")

RqPatchSet(i) ==
    /\ up /\ rq[i].pc = "patchSet"
    /\ attrs' = [attrs EXCEPT ![i] = rq[i].loc]
    /\ rq' = [rq EXCEPT ![i].pc = "patchTlRead", ![i].loc = Absent]
    /\ UNCHANGED <<card, shown, age, proc, po, ex, sw, history>>

\* The reminder timer: markEscalated's Get and its early return.
RqEscalateGet(i) ==
    /\ up /\ rq[i].pc = "wait" /\ rq[i].armed /\ age[i] >= HalfAge
    /\ rq' = [rq EXCEPT ![i] =
                IF IsPending(attrs[i]) /\ ~attrs[i].escalated
                THEN [@ EXCEPT !.armed = FALSE, !.pc = "escSet",
                               !.loc = [attrs[i] EXCEPT !.escalated = TRUE]]
                ELSE [@ EXCEPT !.armed = FALSE]]
    /\ UNCHANGED <<store, age, proc, po, ex, sw, history>>

\* markEscalated's Set and Notify.
RqEscalateSet(i) ==
    /\ up /\ rq[i].pc = "escSet"
    /\ attrs' = [attrs EXCEPT ![i] = rq[i].loc]
    /\ reminders' = [reminders EXCEPT ![i] = @ + 1]
    /\ rq' = [rq EXCEPT ![i].pc = "wait", ![i].loc = Absent]
    /\ UNCHANGED <<card, shown, age, proc, po, ex, sw, grants, acted, told>>

\* The five-second poll: an error or a pending status continues the loop.
RqPoll(i) ==
    /\ up /\ rq[i].pc = "wait"
    /\ Exists(i) /\ ~IsPending(attrs[i])
    /\ rq' = [rq EXCEPT ![i].pc = "patchTlRead", ![i].res = attrs[i].status]
    /\ UNCHANGED <<store, age, proc, po, ex, sw, history>>

\* Mutant: only a rejection stops the patch skill.
ReturnedUnlessRejected(i, r) ==
    /\ rq' = [rq EXCEPT ![i] = IF r.res \in {"rejected", "error"}
                               THEN EndRq ELSE [IdleRq EXCEPT !.pc = "act"]]
    /\ told' = IF r.res = "timed_out" THEN told \cup {i} ELSE told

\* What the caller does with the result: RequestApproval's expiry notice, and
\* the patch skill's switch, which applies the patches unless the decision is
\* an error (context cancelled), "rejected" or "timed_out".
Returned(i, r) ==
    /\ rq' = [rq EXCEPT ![i] = IF r.res \in {"rejected", "timed_out", "error"}
                               THEN EndRq ELSE [IdleRq EXCEPT !.pc = "act"]]
    /\ told' = IF r.res = "timed_out" THEN told \cup {i} ELSE told

\* PatchTimeline's ReadCurrent; with no card there is nothing to write.
RqPatchTlRead(i) ==
    /\ up /\ rq[i].pc = "patchTlRead"
    /\ \/ /\ card[i] # "none"
          /\ rq' = [rq EXCEPT ![i].pc = "patchTlWrite", ![i].tl = card]
          /\ UNCHANGED told
       \/ /\ card[i] = "none"
          /\ Returned(i, rq[i])
    /\ UNCHANGED <<store, age, proc, po, ex, sw, grants, acted, reminders>>

RqPatchTlWrite(i) ==
    /\ up /\ rq[i].pc = "patchTlWrite"
    /\ card' = Patched(rq[i].tl, i, IF rq[i].res = "error" THEN "cancelled" ELSE rq[i].res)
    /\ Returned(i, rq[i])
    /\ UNCHANGED <<attrs, shown, age, proc, po, ex, sw, grants, acted, reminders>>

\* Phase 3 of the patch skill: the approved patches are applied.
RqAct(i) ==
    /\ up /\ rq[i].pc = "act"
    /\ acted' = [acted EXCEPT ![i] = @ + 1]
    /\ rq' = [rq EXCEPT ![i] = EndRq]
    /\ UNCHANGED <<store, age, proc, po, ex, sw, grants, reminders, told>>
-----------------------------------------------------------------------------
(* approvalapi: POST /approvals/{id}/decision.                             *)

\* Get: a missing entry leads to RemoveFromTimeline and 404, a decided one to
\* Delete, RemoveFromTimeline and 409, a pending one to the decision.
PostGet(p, i, d) ==
    /\ up /\ po[p].pc = "idle" /\ i \in shown
    /\ po' = [po EXCEPT ![p] =
                IF ~Exists(i) THEN [IdlePo EXCEPT !.pc = "rmRead", !.id = i]
                ELSE IF ~IsPending(attrs[i])
                THEN [IdlePo EXCEPT !.pc = "del", !.id = i]
                ELSE [IdlePo EXCEPT !.pc = "set", !.id = i, !.dec = d, !.loc = attrs[i]]]
    /\ UNCHANGED <<store, age, proc, rq, ex, sw, history>>

\* The decision overwrites the entry with the copy read by PostGet.
PostSet(p) ==
    LET i == po[p].id IN
    /\ up /\ po[p].pc = "set"
    /\ attrs' = [attrs EXCEPT ![i] =
                    [po[p].loc EXCEPT !.status = po[p].dec, !.when = age[i]]]
    /\ grants' = IF po[p].dec = "approved" THEN [grants EXCEPT ![i] = @ + 1] ELSE grants
    /\ po' = [po EXCEPT ![p].pc = "tlRead", ![p].loc = Absent]
    /\ UNCHANGED <<card, shown, age, proc, rq, ex, sw, acted, reminders, told>>

\* Mutants: the launch does not look at AutoExecute; it reads the entry again and wants it still approved.
PostReturnAnyEntry(p) ==
    /\ po' = [po EXCEPT ![p] = [IdlePo EXCEPT !.pc = "end", !.id = po[p].id]]
    /\ ex' = IF po[p].dec = "approved" THEN [ex EXCEPT ![p].pc = "run"] ELSE ex

PostReturnReread(p) ==
    /\ po' = [po EXCEPT ![p] = [IdlePo EXCEPT !.pc = "end", !.id = po[p].id]]
    /\ ex' = IF attrs[po[p].id].status = "approved" /\ po[p].id \notin Blocking
             THEN [ex EXCEPT ![p].pc = "run"] ELSE ex

\* The end of the handler: an approved AutoExecute entry is executed in a
\* detached goroutine.
PostReturn(p) ==
    /\ po' = [po EXCEPT ![p] = [IdlePo EXCEPT !.pc = "end", !.id = po[p].id]]
    /\ ex' = IF po[p].dec = "approved" /\ po[p].id \notin Blocking
             THEN [ex EXCEPT ![p].pc = "run"] ELSE ex

PostTlRead(p) ==
    /\ up /\ po[p].pc = "tlRead"
    /\ \/ /\ card[po[p].id] # "none"
          /\ po' = [po EXCEPT ![p].pc = "tlWrite", ![p].tl = card]
          /\ UNCHANGED ex
       \/ /\ card[po[p].id] = "none"
          /\ PostReturn(p)
    /\ UNCHANGED <<store, age, proc, rq, sw, history>>

PostTlWrite(p) ==
    /\ up /\ po[p].pc = "tlWrite"
    /\ card' = Patched(po[p].tl, po[p].id, po[p].dec)
    /\ PostReturn(p)
    /\ UNCHANGED <<attrs, shown, age, proc, rq, sw, history>>

PostDelete(p) ==
    /\ up /\ po[p].pc = "del"
    /\ attrs' = [attrs EXCEPT ![po[p].id] = Absent]
    /\ po' = [po EXCEPT ![p].pc = "rmRead"]
    /\ UNCHANGED <<card, shown, age, proc, rq, ex, sw, history>>

PostRemoveRead(p) ==
    /\ up /\ po[p].pc = "rmRead"
    /\ po' = IF card[po[p].id] # "none"
             THEN [po EXCEPT ![p].pc = "rmWrite", ![p].tl = card]
             ELSE [po EXCEPT ![p].pc = "end"]
    /\ UNCHANGED <<store, age, proc, rq, ex, sw, history>>

PostRemoveWrite(p) ==
    /\ up /\ po[p].pc = "rmWrite"
    /\ card' = Removed(po[p].tl, po[p].id)
    /\ po' = [po EXCEPT ![p].pc = "end", ![p].tl = NoCards]
    /\ UNCHANGED <<attrs, shown, age, proc, rq, ex, sw, history>>

-----------------------------------------------------------------------------
(* ExecuteOnApproval, detached from the request that launched it.          *)

\* executeApproved: the command runs (or fails, or goes to a manual run).
ExecRun(p) ==
    /\ up /\ ex[p].pc = "run"
    /\ acted' = [acted EXCEPT ![po[p].id] = @ + 1]
    /\ ex' = [ex EXCEPT ![p].pc = "outGet"]
    /\ UNCHANGED <<store, age, proc, rq, po, sw, grants, reminders, told>>

\* Mutant: an entry that is gone makes the execution start over.
ExecOutGetRetry(p) ==
    /\ up /\ ex[p].pc = "outGet"
    /\ ex' = IF Exists(po[p].id)
             THEN [ex EXCEPT ![p].pc = "outSet",
                             ![p].loc = [attrs[po[p].id] EXCEPT !.output = TRUE]]
             ELSE [ex EXCEPT ![p].pc = "run"]
    /\ UNCHANGED <<store, age, proc, rq, po, sw, history>>

\* SetOutput: Get (an error skips the Set), then Set.
ExecOutGet(p) ==
    /\ up /\ ex[p].pc = "outGet"
    /\ ex' = IF Exists(po[p].id)
             THEN [ex EXCEPT ![p].pc = "outSet",
                             ![p].loc = [attrs[po[p].id] EXCEPT !.output = TRUE]]
             ELSE [ex EXCEPT ![p].pc = "apRead"]
    /\ UNCHANGED <<store, age, proc, rq, po, sw, history>>

ExecOutSet(p) ==
    /\ up /\ ex[p].pc = "outSet"
    /\ attrs' = [attrs EXCEPT ![po[p].id] = ex[p].loc]
    /\ ex' = [ex EXCEPT ![p].pc = "apRead", ![p].loc = Absent]
    /\ UNCHANGED <<card, shown, age, proc, rq, po, sw, history>>

\* AppendTimeline: the whole list, cards included, is read and written back
\* behind the new entry.
ExecAppendRead(p) ==
    /\ up /\ ex[p].pc \in {"apRead", "recRead"}
    /\ ex' = [ex EXCEPT ![p].pc = IF @ = "apRead" THEN "apWrite" ELSE "recWrite",
                         ![p].tl = card]
    /\ UNCHANGED <<store, age, proc, rq, po, sw, history>>

\* The "action" entry; the standing-policy recommendation follows when the
\* command has been approved often enough.
ExecAppendWrite(p) ==
    /\ up /\ ex[p].pc \in {"apWrite", "recWrite"}
    /\ card' = ex[p].tl
    /\ \E next \in IF ex[p].pc = "apWrite" THEN {"recRead", "end"} ELSE {"end"} :
          ex' = [ex EXCEPT ![p].pc = next, ![p].tl = NoCards]
    /\ UNCHANGED <<attrs, shown, age, proc, rq, po, sw, history>>
-----------------------------------------------------------------------------
(* StartExpirySweeper: EscalatePending, ExpirePending, pruneAttrs, all with *)
(* the "now" of the tick.                                                   *)

EscalateDue(as, now) ==
    {i \in High : IsPending(as[i]) /\ ~as[i].escalated /\ now[i] >= HalfAge}

\* Mutants: half of the timeout is taken for the timeout; only entries without
\* a waiter expire.
ExpireDueEarly(as, now) == {i \in Ids : IsPending(as[i]) /\ now[i] >= HalfAge}
ExpireDueAsync(as, now) ==
    {i \in Ids \ Blocking : IsPending(as[i]) /\ now[i] >= TimeoutAge}

ExpireDue(as, now) == {i \in Ids : IsPending(as[i]) /\ now[i] >= TimeoutAge}

\* The decided entries pruneAttrs may delete: those past the retention come
\* first in its order, then any others (the decision instants of different
\* requests are not compared here) until MaxAttrs remain.
PruneChoices(as, now) ==
    LET decided == {i \in Ids : as[i].status \notin {"none", "pending"}}
        old == {i \in decided : now[i] = OldAge /\ as[i].when < OldAge}
    IN  {D \in SUBSET decided :
            /\ old \subseteq D
            /\ \/ D = old /\ Cardinality(decided \ D) <= MaxAttrs
               \/ old # D /\ Cardinality(decided \ D) = MaxAttrs}

\* The tick reads the clock and EscalatePending its snapshot.
SweepTick ==
    /\ up /\ sw.pc = "idle"
    /\ sw' = [IdleSw EXCEPT !.pc = "escalate", !.now = age,
                            !.todo = EscalateDue(attrs, age)]
    /\ UNCHANGED <<store, age, proc, rq, po, ex, history>>

\* markEscalated's Get and early return.
SweepEscalateGet(i) ==
    /\ up /\ sw.pc = "escalate" /\ i \in sw.todo
    /\ sw' = IF IsPending(attrs[i]) /\ ~attrs[i].escalated
             THEN [sw EXCEPT !.pc = "escSet", !.todo = @ \ {i}, !.id = i,
                             !.loc = [attrs[i] EXCEPT !.escalated = TRUE]]
             ELSE [sw EXCEPT !.todo = @ \ {i}]
    /\ UNCHANGED <<store, age, proc, rq, po, ex, history>>

\* Mutant: the reminder is sent and the flag is not stored.
SweepEscalateSetForgets ==
    /\ up /\ sw.pc = "escSet"
    /\ reminders' = [reminders EXCEPT ![sw.id] = @ + 1]
    /\ sw' = [sw EXCEPT !.pc = "escalate", !.id = AnId, !.loc = Absent]
    /\ UNCHANGED <<attrs, card, shown, age, proc, rq, po, ex, grants, acted, told>>

SweepEscalateSet ==
    /\ up /\ sw.pc = "escSet"
    /\ attrs' = [attrs EXCEPT ![sw.id] = sw.loc]
    /\ reminders' = [reminders EXCEPT ![sw.id] = @ + 1]
    /\ sw' = [sw EXCEPT !.pc = "escalate", !.id = AnId, !.loc = Absent]
    /\ UNCHANGED <<card, shown, age, proc, rq, po, ex, grants, acted, told>>

SweepExpireAll ==
    /\ up /\ sw.pc = "escalate" /\ sw.todo = {}
    /\ sw' = [sw EXCEPT !.pc = "expire", !.todo = ExpireDue(attrs, sw.now)]
    /\ UNCHANGED <<store, age, proc, rq, po, ex, history>>

\* patchAttrs' Get; its error is ignored.
SweepExpireGet(i) ==
    /\ up /\ sw.pc = "expire" /\ i \in sw.todo
    /\ sw' = [sw EXCEPT !.pc = IF Exists(i) THEN "expSet" ELSE "expTlRead",
                        !.loc = IF Exists(i) THEN PatchedEntry(attrs[i], "timed_out") ELSE Absent,
                        !.todo = @ \ {i}, !.id = i]
    /\ UNCHANGED <<store, age, proc, rq, po, ex, history>>

SweepExpireSet ==
    /\ up /\ sw.pc = "expSet"
    /\ attrs' = [attrs EXCEPT ![sw.id] = sw.loc]
    /\ sw' = [sw EXCEPT !.pc = "expTlRead", !.loc = Absent]
    /\ UNCHANGED <<card, shown, age, proc, rq, po, ex, history>>

\* The end of one expiry: AutoExecute entries notify "NOT taken".
SweepExpired ==
    /\ sw' = [sw EXCEPT !.pc = "expire", !.id = AnId, !.tl = NoCards]
    /\ told' = IF sw.id \in Blocking THEN told ELSE told \cup {sw.id}

SweepExpireTlRead ==
    /\ up /\ sw.pc = "expTlRead"
    /\ \/ /\ card[sw.id] # "none"
          /\ sw' = [sw EXCEPT !.pc = "expTlWrite", !.tl = card]
          /\ UNCHANGED told
       \/ /\ card[sw.id] = "none"
          /\ SweepExpired
    /\ UNCHANGED <<store, age, proc, rq, po, ex, grants, acted, reminders>>

SweepExpireTlWrite ==
    /\ up /\ sw.pc = "expTlWrite"
    /\ card' = Patched(sw.tl, sw.id, "timed_out")
    /\ SweepExpired
    /\ UNCHANGED <<attrs, shown, age, proc, rq, po, ex, grants, acted, reminders>>

SweepPruneAll ==
    /\ up /\ sw.pc = "expire" /\ sw.todo = {}
    /\ \E D \in PruneChoices(attrs, sw.now) :
          sw' = [sw EXCEPT !.pc = "prune", !.todo = D]
    /\ UNCHANGED <<store, age, proc, rq, po, ex, history>>

SweepDelete(i) ==
    /\ up /\ sw.pc = "prune" /\ i \in sw.todo
    /\ attrs' = [attrs EXCEPT ![i] = Absent]
    /\ sw' = [sw EXCEPT !.todo = @ \ {i}]
    /\ UNCHANGED <<card, shown, age, proc, rq, po, ex, history>>

SweepDone ==
    /\ up /\ sw.pc = "prune" /\ sw.todo = {}
    /\ sw' = IdleSw
    /\ UNCHANGED <<store, age, proc, rq, po, ex, history>>

-----------------------------------------------------------------------------
(* The environment: time, signals and the process.                          *)

AtRest ==
    /\ sw.pc = "idle"
    /\ \A p \in Posts : po[p].pc \in {"idle", "end"} /\ ex[p].pc \in {"none", "end"}
    /\ \A i \in Ids : rq[i].pc \in {"idle", "end"}

\* A request that has been filed gets older.  createPending is over long
\* before HalfAge (a day or more), and no goroutine stays inside one operation
\* for the weeks it takes to reach OldAge.
GrowOld(i) ==
    /\ rq[i].pc \notin {"idle", "tlRead", "tlWrite"} /\ age[i] < OldAge
    /\ age[i] + 1 = OldAge => AtRest
    /\ age' = [age EXCEPT ![i] = @ + 1]
    /\ UNCHANGED <<store, proc, rq, po, ex, sw, history>>

\* SIGTERM: main cancels the context and drains HTTP requests, but waits for
\* no other goroutine.
Shutdown ==
    /\ up /\ ~stopping /\ restarts < MaxRestarts
    /\ stopping' = TRUE
    /\ UNCHANGED <<flow, store, age, up, restarts, rq, po, ex, sw, history>>

\* The process exits or is killed: every goroutine is gone, attrs.json and the
\* timeline stay.
Exit ==
    /\ up /\ restarts < MaxRestarts
    /\ up' = FALSE
    /\ stopping' = FALSE
    /\ restarts' = restarts + 1
    /\ rq' = [i \in Ids |-> IF rq[i].pc = "idle" THEN IdleRq ELSE EndRq]
    /\ po' = [p \in Posts |-> IF po[p].pc = "idle" THEN IdlePo ELSE [IdlePo EXCEPT !.pc = "end"]]
    /\ ex' = [p \in Posts |-> IdleEx]
    /\ sw' = IdleSw
    /\ UNCHANGED <<flow, store, age, history>>

Restart ==
    /\ ~up
    /\ up' = TRUE
    /\ UNCHANGED <<flow, store, age, stopping, restarts, rq, po, ex, sw, history>>

-----------------------------------------------------------------------------
RqStep(i) ==
    \/ RqTlRead(i) \/ RqTlWrite(i)
    \/ RqCancel(i) \/ RqTimeout(i) \/ RqPatchSet(i)
    \/ RqEscalateGet(i) \/ RqEscalateSet(i) \/ RqPoll(i)
    \/ RqPatchTlRead(i) \/ RqPatchTlWrite(i) \/ RqAct(i)

PoStep(p) ==
    \/ PostSet(p) \/ PostTlRead(p) \/ PostTlWrite(p)
    \/ PostDelete(p) \/ PostRemoveRead(p) \/ PostRemoveWrite(p)

ExStep(p) ==
    \/ ExecRun(p) \/ ExecOutGet(p) \/ ExecOutSet(p)
    \/ ExecAppendRead(p) \/ ExecAppendWrite(p)

SwStep ==
    \/ SweepTick
    \/ \E i \in Ids : SweepEscalateGet(i) \/ SweepExpireGet(i) \/ SweepDelete(i)
    \/ SweepEscalateSet \/ SweepExpireAll \/ SweepExpireSet
    \/ SweepExpireTlRead \/ SweepExpireTlWrite \/ SweepPruneAll \/ SweepDone

Next ==
    \/ \E i \in Ids : RqCreate(i) \/ RqStep(i) \/ GrowOld(i)
    \/ \E p \in Posts, i \in Ids, d \in Decisions : PostGet(p, i, d)
    \/ \E p \in Posts : PoStep(p) \/ ExStep(p)
    \/ SwStep
    \/ Shutdown \/ Exit \/ Restart

Spec == Init /\ [][Next]_vars

(***************************************************************************)
(* Fairness: the Go scheduler runs every runnable goroutine, the timers    *)
(* and tickers fire, time passes, and a service manager restarts the       *)
(* process.  Nothing obliges an agent to file a request, an operator to    *)
(* decide or a process to stop.                                            *)
(***************************************************************************)
Fairness ==
    /\ \A i \in Ids : WF_vars(RqStep(i)) /\ WF_vars(GrowOld(i))
    /\ \A p \in Posts : WF_vars(PoStep(p)) /\ WF_vars(ExStep(p))
    /\ WF_vars(SwStep)
    /\ WF_vars(Restart)

FairSpec == Spec /\ Fairness
-----------------------------------------------------------------------------
(* Properties.                                                              *)

(* Every goroutine is at a step of its code with locals of its types, and  *)
(* attrs.json holds only the statuses the code names.                      *)
TypeOK ==
    /\ flow \in [Ids -> {"blocking", "async"}]
    /\ attrs \in [Ids -> Entry]
    /\ card \in Timeline
    /\ shown \subseteq Ids
    /\ age \in [Ids -> Ages]
    /\ up \in BOOLEAN /\ stopping \in BOOLEAN
    /\ restarts \in Nat
    /\ rq \in [Ids -> Requester]
    /\ po \in [Posts -> Handler]
    /\ ex \in [Posts -> Execution]
    /\ sw \in Sweeper
    /\ grants \in [Ids -> Nat] /\ acted \in [Ids -> Nat] /\ reminders \in [Ids -> Nat]
    /\ told \subseteq Ids

(* The gate: no proposed action is carried out more often than an operator *)
(* decision approved it, in particular never without one.  Neither the     *)
(* stale copies the goroutines write back, nor the sweeper, nor a restart  *)
(* may turn a rejected, expired or cancelled request into an action.       *)
ActedOnlyWhenApproved == \A i \in Ids : acted[i] <= grants[i]

(* The patch pipeline acts at most once per request, however many decision *)
(* requests arrive: only the one waiter of the request applies patches.    *)
BlockingActsOnce == \A i \in Blocking : acted[i] <= 1

(* An asynchronous approval gets at most one reminder (the Escalated flag  *)
(* of markEscalated): only the sweeper sends it, and no stale write of the *)
(* handler or of SetOutput clears the flag on a pending entry.             *)
AsyncReminderOnce == \A i \in Ids \ Blocking : reminders[i] <= 1

(* The expiry notice of an asynchronous request is sent only after its     *)
(* timeout, and a waiter reports "timed_out" only then.                    *)
ToldOnlyAfterTimeout == \A i \in told : age[i] >= TimeoutAge

(* The abstract gate, with a request filed when its entry is first stored. *)
Gate == INSTANCE HumanGate WITH
            filed <- {i \in Ids : rq[i].pc # "idle"},
            granted <- grants, acts <- acted

(* Every step of the approval flow is a step of the gate or leaves it      *)
(* unchanged.                                                              *)
ImplementsGate == Gate!GateSpec

(* A pending approval does not stay pending: a decision, the waiter or the *)
(* sweeper ends it, also after a crash that left it without a waiter.      *)
PendingEnds == \A i \in Ids : IsPending(attrs[i]) ~> ~IsPending(attrs[i])

(* A blocking request always returns: its responsibility slot is freed     *)
(* whatever happens to the entry it polls.                                 *)
WaiterReturns == \A i \in Ids : (rq[i].pc # "idle") ~> (rq[i].pc = "end")

(* An approved asynchronous command is executed unless the process goes    *)
(* down first: no handler or sweeper step can prevent the launch.          *)
ApprovedRuns ==
    \A p \in Posts :
        (po[p].pc = "tlRead" /\ po[p].dec = "approved" /\ po[p].id \notin Blocking)
            ~> (ex[p].pc = "end" \/ ~up)

-----------------------------------------------------------------------------
(* What comments and documents say of the flow, and its interleavings do   *)
(* not always keep.                                                        *)

(* The expiry notice: "The action was NOT taken."                           *)
NotTakenIsTrue == \A i \in told : acted[i] = 0

(* approvalapi: the handler "writes the decision, which the poll detects":  *)
(* while the waiter polls, an accepted decision stays readable.             *)
DecisionStaysReadable ==
    \A i \in Blocking :
        rq[i].pc = "wait" /\ grants[i] > 0 => attrs[i].status \notin {"none", "pending"}
=============================================================================
