----------------------------- MODULE ManualRuns -----------------------------
(***************************************************************************)
(* Manual runs (skills/request_manual_run, manualrunapi): a command that   *)
(* sudo refuses is handed to the operator.  The caller of RequestManualRun *)
(* polls its entry in attrs.json until an operator's POST has decided it,  *)
(* its timer fires or its context ends; a sweeper prunes decided entries.  *)
(* Each step is one call on the memory store, so the handler, the waiter   *)
(* and a crash of the agent may come in between any two of them.           *)
(***************************************************************************)
EXTENDS Timeline

CONSTANTS
    Runs,         \* ids of the manual runs
    Posts,        \* concurrent POST /manual-runs/{id}/result; one output each
    MaxAttrs,     \* maxAttrsEntries
    MaxPosts,     \* bound on POSTs
    MaxCrashes,   \* bound on crashes of the agent
    Retention,    \* attrsRetention, in units of the clock
    MaxAge        \* bound on the clock

VARIABLES
    entry,     \* attrs.json: the entry of each run
    decided,   \* runs with a decided entry, by CompletedAt, the oldest first
    sweep,     \* pruneAttrs: the snapshot still to be looked at, and keep
    waiter,    \* RequestManualRun of each run: pc, and what it is to return
    post,      \* the handlers: pc, run, status they were asked to record, and
               \* whether the run had returned when they read its entry
    told,      \* what RequestManualRun has returned for each run
    age,       \* the clock
    posts,     \* POSTs so far
    crashes,   \* crashes so far
    accepted,  \* history: answers stored and confirmed with 200
    ended      \* history: runs whose timer fired or whose context ended

attrsVars == <<entry, decided, sweep>>
manualHistory == <<posts, crashes, accepted, ended>>
manualVars == <<attrsVars, waiter, post, told, age, manualHistory, timelineVars>>

Answers == {"completed", "skipped"}
Absent == [status |-> "absent", out |-> "", at |-> 0]
NoAnswer == [status |-> "none", out |-> ""]
Answer(st, out) == [status |-> st, out |-> out]
Idle == [pc |-> "idle", run |-> "", status |-> "", late |-> FALSE]
NoSweep == [left |-> <<>>, keep |-> 0]
AnswerOf(e) == Answer(e.status, e.out)

ManualInit ==
    /\ entry = [r \in Runs |-> Absent] /\ decided = <<>> /\ sweep = NoSweep
    /\ waiter = [r \in Runs |-> [pc |-> "idle", result |-> NoAnswer]]
    /\ post = [h \in Posts |-> Idle]
    /\ told = [r \in Runs |-> NoAnswer]
    /\ age = 0 /\ posts = 0 /\ crashes = 0 /\ accepted = {} /\ ended = {}
    /\ TimelineInit

Others(r) == SelectSeq(decided, LAMBDA q : q # r)
Store(r, st, out) ==
    /\ entry' = [entry EXCEPT ![r] = [status |-> st, out |-> out, at |-> age]]
    /\ decided' = IF st = "pending" THEN decided ELSE Append(Others(r), r)
    /\ UNCHANGED sweep
Goto(r, pc) == waiter' = [waiter EXCEPT ![r].pc = pc]

-----------------------------------------------------------------------------
(* RequestManualRun.                                                        *)

Request(r) ==
    /\ waiter[r].pc = "idle"
    /\ Store(r, "pending", "") /\ Goto(r, "card")
    /\ UNCHANGED <<post, told, age, manualHistory>> /\ TimelineIdle

\* writeTimeline.
Card(r) ==
    /\ waiter[r].pc = "card"
    /\ BeginPrepend(r, Entry(r, "", "pending")) /\ Goto(r, "cardWrite")
    /\ UNCHANGED <<attrsVars, post, told, age, manualHistory>>

CardWrite(r) ==
    /\ waiter[r].pc = "cardWrite"
    /\ WriteBack(r) /\ Goto(r, "wait")
    /\ UNCHANGED <<attrsVars, post, told, age, manualHistory>>

\* Mutant of Poll: any entry that can be read ends the wait.
PollAnything(r) ==
    /\ waiter[r].pc = "wait" /\ entry[r].status # "absent"
    /\ waiter' = [waiter EXCEPT ![r] = [pc |-> "patch", result |-> AnswerOf(entry[r])]]
    /\ UNCHANGED <<attrsVars, post, told, age, manualHistory>> /\ TimelineIdle

\* The ticker: a pending entry, or one that cannot be read, keeps it waiting.
Poll(r) ==
    /\ waiter[r].pc = "wait" /\ entry[r].status \notin {"absent", "pending"}
    /\ waiter' = [waiter EXCEPT ![r] = [pc |-> "patch", result |-> AnswerOf(entry[r])]]
    /\ UNCHANGED <<attrsVars, post, told, age, manualHistory>> /\ TimelineIdle

\* Mutant of Stop: the timer is not looked at.
StopOnCancel(r, st) ==
    /\ waiter[r].pc = "wait" /\ st = "cancelled"
    /\ waiter' = [waiter EXCEPT ![r] = [pc |-> "set", result |-> Answer(st, "")]]
    /\ ended' = ended \cup {r}
    /\ UNCHANGED <<attrsVars, post, told, age, posts, crashes, accepted>> /\ TimelineIdle

\* The timer, or the context: the Get of patchAttrs.
Stop(r, st) ==
    /\ waiter[r].pc = "wait"
    /\ waiter' = [waiter EXCEPT ![r] = [pc |-> IF entry[r].status = "absent" THEN "patch" ELSE "set",
                                        result |-> Answer(st, "")]]
    /\ ended' = ended \cup {r}
    /\ UNCHANGED <<attrsVars, post, told, age, posts, crashes, accepted>> /\ TimelineIdle

\* Mutant of SetStopped: the card is not updated.
SetStoppedOnly(r) ==
    /\ waiter[r].pc = "set"
    /\ Store(r, waiter[r].result.status, "") /\ Goto(r, "return")
    /\ UNCHANGED <<post, told, age, manualHistory>> /\ TimelineIdle

\* The Set of patchAttrs, whatever the entry holds by now.
SetStopped(r) ==
    /\ waiter[r].pc = "set"
    /\ Store(r, waiter[r].result.status, "") /\ Goto(r, "patch")
    /\ UNCHANGED <<post, told, age, manualHistory>> /\ TimelineIdle

\* PatchTimeline.
PatchCard(r) ==
    /\ waiter[r].pc = "patch"
    /\ \/ BeginPatch(r, r, waiter[r].result.status) /\ Goto(r, "patchWrite")
       \/ r \notin Ids(timeline) /\ TimelineIdle /\ Goto(r, "return")
    /\ UNCHANGED <<attrsVars, post, told, age, manualHistory>>

PatchCardWrite(r) ==
    /\ waiter[r].pc = "patchWrite"
    /\ WriteBack(r) /\ Goto(r, "return")
    /\ UNCHANGED <<attrsVars, post, told, age, manualHistory>>

\* What the agent run is told.
Return(r) ==
    /\ waiter[r].pc = "return"
    /\ told' = [told EXCEPT ![r] = waiter[r].result]
    /\ waiter' = [waiter EXCEPT ![r] = [pc |-> "done", result |-> NoAnswer]]
    /\ UNCHANGED <<attrsVars, post, age, manualHistory>> /\ TimelineIdle

-----------------------------------------------------------------------------
(* POST /manual-runs/{id}/result.                                           *)

Handling(pc, r, st) == [pc |-> pc, run |-> r, status |-> st, late |-> waiter[r].pc = "done"]

\* Mutant of Submit: a decided entry is not refused.
SubmitAgain(h, r, st) ==
    /\ post[h].pc = "idle" /\ posts < MaxPosts /\ waiter[r].pc # "idle"
    /\ posts' = posts + 1
    /\ \/ entry[r].status # "absent"
          /\ post' = [post EXCEPT ![h] = Handling("set", r, st)] /\ TimelineIdle
       \/ /\ entry[r].status = "absent"
          /\ post' = [post EXCEPT ![h] = Handling("write", r, st)]
          /\ BeginRemove(h, r)
    /\ UNCHANGED <<attrsVars, waiter, told, age, crashes, accepted, ended>>

\* Get: a missing entry is answered 404 after its card has been removed, a
\* decided one 409.
Submit(h, r, st) ==
    /\ post[h].pc = "idle" /\ posts < MaxPosts /\ waiter[r].pc # "idle"
    /\ posts' = posts + 1
    /\ \/ /\ entry[r].status = "pending"
          /\ post' = [post EXCEPT ![h] = Handling("set", r, st)]
          /\ TimelineIdle
       \/ /\ entry[r].status \notin {"absent", "pending"}
          /\ UNCHANGED post /\ TimelineIdle
       \/ /\ entry[r].status = "absent"
          /\ \/ BeginRemove(h, r) /\ post' = [post EXCEPT ![h] = Handling("write", r, st)]
             \/ r \notin Ids(timeline) /\ UNCHANGED post /\ TimelineIdle
    /\ UNCHANGED <<attrsVars, waiter, told, age, crashes, accepted, ended>>

\* Set: whatever the entry holds by now.
SetAnswer(h) ==
    /\ post[h].pc = "set"
    /\ Store(post[h].run, post[h].status, h)
    /\ accepted' = accepted \cup {<<post[h].run, Answer(post[h].status, h)>>}
    /\ post' = [post EXCEPT ![h].pc = "patch"]
    /\ UNCHANGED <<waiter, told, age, posts, crashes, ended>> /\ TimelineIdle

PatchAnswer(h) ==
    /\ post[h].pc = "patch"
    /\ \/ BeginPatch(h, post[h].run, post[h].status) /\ post' = [post EXCEPT ![h].pc = "write"]
       \/ /\ post[h].run \notin Ids(timeline) /\ TimelineIdle
          /\ post' = [post EXCEPT ![h] = Idle]
    /\ UNCHANGED <<attrsVars, waiter, told, age, manualHistory>>

WriteAnswer(h) ==
    /\ post[h].pc = "write"
    /\ WriteBack(h) /\ post' = [post EXCEPT ![h] = Idle]
    /\ UNCHANGED <<attrsVars, waiter, told, age, manualHistory>>

-----------------------------------------------------------------------------
(* Retention and crashes.                                                   *)

Expired(r) == entry[r].at + Retention < age

\* Where the loop stands before the next delete: it is over when nothing is
\* left, or the oldest of what is left is neither expired nor over the cap.
Pruning(left, keep) ==
    IF left # <<>> /\ (Head(left).expired \/ keep > MaxAttrs) THEN [left |-> left, keep |-> keep] ELSE NoSweep

\* The sweeper's tick: the snapshot of attrs.json, its decided entries sorted.
PruneAttrs ==
    LET snapshot == [i \in DOMAIN decided |-> [run |-> decided[i], expired |-> Expired(decided[i])]]
    IN  /\ sweep = NoSweep
        /\ sweep' = Pruning(snapshot, Len(snapshot)) /\ sweep' # NoSweep
        /\ UNCHANGED <<entry, decided, waiter, post, told, age, manualHistory>> /\ TimelineIdle

\* One Delete of the loop, of whatever the entry holds by now; one that
\* fails leaves the entry and goes on to the next.
PruneDelete == \E ok \in BOOLEAN :
    LET r == Head(sweep.left).run
    IN  /\ sweep # NoSweep
        /\ sweep' = Pruning(Tail(sweep.left), IF ok THEN sweep.keep - 1 ELSE sweep.keep)
        /\ entry' = IF ok THEN [entry EXCEPT ![r] = Absent] ELSE entry
        /\ decided' = IF ok THEN Others(r) ELSE decided
        /\ UNCHANGED <<waiter, post, told, age, manualHistory>> /\ TimelineIdle

\* A unit of the clock is days long: no call lasts that long.
Ages ==
    /\ age < MaxAge
    /\ \A r \in Runs : waiter[r].pc \in {"idle", "done", "dead"}
    /\ \A h \in Posts : post[h].pc = "idle"
    /\ sweep = NoSweep
    /\ age' = age + 1
    /\ UNCHANGED <<attrsVars, waiter, post, told, manualHistory>> /\ TimelineIdle

\* A waiter does not survive the agent; its entry and its card do.
Crash ==
    /\ crashes < MaxCrashes
    /\ crashes' = crashes + 1
    /\ waiter' = [r \in Runs |-> IF waiter[r].pc \in {"idle", "done"} THEN waiter[r]
                                 ELSE [pc |-> "dead", result |-> NoAnswer]]
    /\ post' = [h \in Posts |-> Idle]
    /\ sweep' = NoSweep /\ Crashed
    /\ UNCHANGED <<entry, decided, told, age, posts, accepted, ended>>

WaiterStep(r) ==
    \/ Card(r) \/ CardWrite(r) \/ Poll(r) \/ Stop(r, "timed_out")
    \/ SetStopped(r) \/ PatchCard(r) \/ PatchCardWrite(r) \/ Return(r)

ManualNext ==
    \/ \E r \in Runs : Request(r) \/ WaiterStep(r) \/ Stop(r, "cancelled")
    \/ \E h \in Posts : \/ \E r \in Runs, st \in Answers : Submit(h, r, st)
                        \/ SetAnswer(h) \/ PatchAnswer(h) \/ WriteAnswer(h)
    \/ PruneAttrs \/ PruneDelete \/ Ages \/ Crash

\* The waiter's goroutine runs on, and its timer fires after 24 hours.
ManualFairness == \A r \in Runs : WF_manualVars(WaiterStep(r))

-----------------------------------------------------------------------------
(* Properties.                                                              *)

Settled ==
    /\ \A r \in Runs : waiter[r].pc \in {"idle", "done", "dead"}
    /\ \A w \in Writers : ~rewrite[w].on
    /\ \A h \in Posts : post[h].pc = "idle"

\* The state of the manual runs (request_manual_run.go:45, 104).
ManualTypeOK ==
    /\ \A r \in Runs : /\ entry[r].status \in {"absent", "pending", "timed_out", "cancelled"} \cup Answers
                       /\ told[r].status \in {"none", "timed_out", "cancelled"} \cup Answers
    /\ age \in 0 .. MaxAge /\ posts \in 0 .. MaxPosts /\ crashes \in 0 .. MaxCrashes

\* What an agent run is told is an answer that an operator submitted for
\* this very run and that was confirmed, with its output, or the end of the
\* wait (request_manual_run.go:126): never a stale, mixed or pending state.
ToldWhatWasSubmitted ==
    \A r \in Runs : told[r].status \in Answers \cup {"pending"} => <<r, told[r]>> \in accepted

\* After RequestManualRun has returned, an operator's answer is refused and
\* not confirmed to nobody's benefit (manualrunapi.go:74); only an answer
\* that was being stored while the wait ended can still be.
RefusedOnceReturned == \A h \in Posts : post[h].pc = "set" => ~post[h].late

\* Once every call has finished, the card of a run shows the status of its
\* entry, unless an answer crossed the end of the wait or another answer,
\* the agent crashed, or an overlapping rewrite overwrote the card
\* (request_manual_run.go:112, manualrunapi.go:89).
CardAgreesWithRun ==
    Settled => \A r \in Runs :
        \/ r \notin Ids(timeline) \/ entry[r].status = "absent"
        \/ Find(timeline, r).status = entry[r].status
        \/ r \in clobbered \/ crashes > 0
        \/ Cardinality({a \in accepted : a[1] = r}) + (IF r \in ended THEN 1 ELSE 0) > 1

\* "each RequestManualRun call enforces its own timeout in-process"
\* (request_manual_run.go:219): a pending entry has a call that waits for it.
PendingHasWaiter ==
    \A r \in Runs : entry[r].status = "pending" => waiter[r].pc \notin {"idle", "done", "dead"}

\* "pending -> completed | skipped | timed_out | cancelled"
\* (docs/memory.md:119): a decided entry keeps its status until it is pruned.
DecidedRunIsFinal ==
    [][\A r \in Runs : entry[r].status \notin {"absent", "pending"} =>
          entry'[r].status \in {entry[r].status, "absent"}]_manualVars

\* RequestManualRun returns, whether or not an operator answers, unless the
\* agent goes down (request_manual_run.go:104-129).
RequestReturns ==
    \A r \in Runs : waiter[r].pc = "wait" ~> waiter[r].pc \in {"done", "dead"}
=============================================================================
