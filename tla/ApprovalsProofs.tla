--------------------------- MODULE ApprovalsProofs ---------------------------
(***************************************************************************)
(* Proofs about the approval flow, for any number of requests, decision    *)
(* requests and restarts: the gate, the refinement of HumanGate, and the   *)
(* single reminder.                                                        *)
(***************************************************************************)
EXTENDS Approvals, FiniteSetTheorems, TLAPS

(* An entry the sweeper would send a reminder for.                         *)
Unreminded(e) == e.status = "pending" /\ ~e.escalated

(***************************************************************************)
(* What holds of a request: nothing exists before it is filed; an entry    *)
(* reads "approved" only after a grant; only a blocking request has a      *)
(* waiter, which acts as its last step, only after a grant, and is gone    *)
(* from the poll when its own "cancelled" is stored.                       *)
(***************************************************************************)
Waiter(i) ==
    LET q == rq[i]
    IN  /\ acted[i] <= 1 /\ (acted[i] > 0 => q.pc = "end" /\ grants[i] > 0)
        /\ attrs[i].status = "cancelled" => q.pc \in {"patchTlRead", "patchTlWrite", "act", "end"}
        /\ q.pc = "escSet" => q.loc.status = "pending"
        /\ q.pc = "patchSet" => q.loc.status \in {"timed_out", "cancelled"}
                                /\ q.res \in {"timed_out", "error"}
        /\ q.pc \in {"patchTlRead", "patchTlWrite"} =>
              q.res \in {"rejected", "timed_out", "error"} \/ grants[i] > 0
        /\ q.pc = "act" => grants[i] > 0

Submitted(i) ==
    /\ rq[i].pc \in {"idle", "tlRead", "tlWrite", "end"}
    /\ reminders[i] <= 1
    /\ reminders[i] = 1 \/ grants[i] > 0 => ~Unreminded(attrs[i])

RequestOK(i) ==
    /\ rq[i].pc = "idle" => /\ attrs[i].status = "none" /\ i \notin shown
                            /\ grants[i] = 0 /\ acted[i] = 0 /\ reminders[i] = 0
    /\ attrs[i].status = "approved" => grants[i] > 0
    /\ IF flow[i] = "blocking" THEN Waiter(i) ELSE Submitted(i)

(* A decision is stored for a card that was shown; an execution belongs to *)
(* a handler that has ended, of an asynchronous request that was granted.  *)
PostOK(p) ==
    /\ po[p].pc = "set" => po[p].id \in shown
    /\ ex[p].pc # "none" => /\ po[p].pc = "end" /\ flow[po[p].id] = "async"
                            /\ grants[po[p].id] > 0
    /\ po[p].pc \in {"tlRead", "tlWrite"} /\ po[p].dec = "approved" => grants[po[p].id] > 0
    /\ ex[p].pc = "outSet" => ~Unreminded(ex[p].loc)

SweepOK ==
    /\ sw.pc \in {"escSet", "expSet"} => rq[sw.id].pc # "idle"
    /\ sw.pc = "escSet" => /\ sw.loc.status = "pending" /\ sw.loc.escalated
                           /\ flow[sw.id] = "async" => reminders[sw.id] = 0
    /\ sw.pc = "expSet" => sw.loc.status = "timed_out"

(* Every grant of an asynchronous request is carried out by the handler    *)
(* that stored it, so the executions and those still to come are no more   *)
(* than the grants.                                                        *)
Owes(h, x) ==
    \/ h.pc \in {"tlRead", "tlWrite"} /\ h.dec = "approved"
    \/ x.pc = "run"
Owed(i) == {p \in Posts : po[p].id = i /\ Owes(po[p], ex[p])}

Accounted(i) ==
    flow[i] = "async" =>
        IsFiniteSet(Owed(i)) /\ acted[i] + Cardinality(Owed(i)) <= grants[i]

FlowInv ==
    /\ TypeOK
    /\ \A i \in Ids : RequestOK(i) /\ Accounted(i)
    /\ \A p \in Posts : PostOK(p)
    /\ SweepOK

(* The constant records have their types.                                  *)
LEMMA ConstantsTyped ==
  /\ AnId \in Ids
  /\ Absent \in Entry /\ NoCards \in Timeline
  /\ IdleRq \in Requester /\ EndRq \in Requester
  /\ IdlePo \in Handler /\ IdleEx \in Execution /\ IdleSw \in Sweeper
  <1>1. AnId \in Ids
    BY ApprovalsAssumption, Zenon DEF AnId
  <1>2. Absent \in Entry
    BY DEF Absent, Entry, Ages
  <1>3. NoCards \in Timeline
    BY Zenon DEF NoCards, Timeline
  <1>4. IdleRq \in Requester /\ EndRq \in Requester
    BY <1>2, <1>3, Zenon DEF IdleRq, EndRq, Requester, RqPc
  <1>5. IdlePo \in Handler
    BY <1>1, <1>2, <1>3, Zenon DEF IdlePo, Handler, PoPc
  <1>6. IdleEx \in Execution
    BY <1>2, <1>3, Zenon DEF IdleEx, Execution, ExPc
  <1>7. IdleSw \in Sweeper
    BY <1>1, <1>2, <1>3 DEF IdleSw, Sweeper, SwPc, Ages
  <1> QED
    BY <1>1, <1>2, <1>3, <1>4, <1>5, <1>6, <1>7, Zenon

(* A step of the requesting goroutine of i leaves it at r, its entry at e  *)
(* and its histories at a and m; only its own request has to be looked at. *)
RequesterMove(i, r, e, a, m) ==
    /\ rq' = [rq EXCEPT ![i] = r] /\ r.pc # "idle"
    /\ attrs' = [attrs EXCEPT ![i] = e]
    /\ acted' = [acted EXCEPT ![i] = a]
    /\ reminders' = [reminders EXCEPT ![i] = m]
    /\ flow[i] = "async" => a = acted[i] /\ m = reminders[i]
    /\ card' \in Timeline
    /\ shown' = shown \/ shown' = shown \cup {i}
    /\ told' \subseteq Ids
    /\ UNCHANGED <<age, proc, po, ex, sw, grants>>

LEMMA RequesterFrame ==
  ASSUME FlowInv, NEW i \in Ids, NEW r \in Requester, NEW e \in Entry,
         NEW a \in Nat, NEW m \in Nat,
         RequesterMove(i, r, e, a, m), RequestOK(i)'
  PROVE  FlowInv'
  <1> USE DEF RequesterMove
  <1>1. TypeOK'
    BY Zenon DEF FlowInv, TypeOK, proc
  <1>2. ASSUME NEW j \in Ids PROVE RequestOK(j)'
    <2>1. CASE j = i
      BY <2>1, Zenon
    <2>2. CASE j # i
      <3>1. /\ rq'[j] = rq[j] /\ attrs'[j] = attrs[j] /\ acted'[j] = acted[j]
            /\ reminders'[j] = reminders[j] /\ (j \in shown' <=> j \in shown)
        BY <2>2, Zenon DEF FlowInv, TypeOK
      <3>2. RequestOK(j)
        BY Zenon DEF FlowInv
      <3> QED
        BY <3>1, <3>2, Zenon DEF RequestOK, Waiter, Submitted, proc
    <2> QED
      BY <2>1, <2>2, Zenon
  <1>3. ASSUME NEW j \in Ids PROVE Accounted(j)'
    <2>1. flow[j] = "async" => acted'[j] = acted[j]
      BY Zenon DEF FlowInv, TypeOK
    <2>2. Accounted(j)
      BY Zenon DEF FlowInv
    <2> QED
      BY <2>1, <2>2, Zenon DEF Accounted, Owed, proc
  <1>4. ASSUME NEW p \in Posts PROVE PostOK(p)'
    <2>1. PostOK(p)
      BY Zenon DEF FlowInv
    <2> QED
      BY <2>1, Zenon DEF PostOK, proc
  <1>5. SweepOK'
    <2>1. sw.id \in Ids
      BY Zenon DEF FlowInv, TypeOK, Sweeper
    <2>2. rq[sw.id].pc # "idle" => rq'[sw.id].pc # "idle"
      BY <2>1, Zenon DEF FlowInv, TypeOK
    <2>3. flow[sw.id] = "async" => reminders'[sw.id] = reminders[sw.id]
      BY <2>1, Zenon DEF FlowInv, TypeOK
    <2> QED
      BY <2>2, <2>3, Zenon DEF FlowInv, SweepOK, proc
  <1> QED
    BY <1>1, <1>2, <1>3, <1>4, <1>5, Zenon DEF FlowInv

(* A step of the decision handler p or of the execution it launched leaves *)
(* them at h and x, the entry of request i at e, its actions at a and its  *)
(* grants at n; what p owes, the actions and the grants stay in balance.   *)
HandlerMove(p, h, x, i, e, a, n) ==
    /\ po' = [po EXCEPT ![p] = h] /\ ex' = [ex EXCEPT ![p] = x]
    /\ h.id = i /\ (po[p].id = i \/ ~Owes(po[p], ex[p]))
    /\ attrs' = [attrs EXCEPT ![i] = e]
    /\ acted' = [acted EXCEPT ![i] = a]
    /\ grants' = [grants EXCEPT ![i] = n] /\ n >= grants[i]
    /\ flow[i] = "async" =>
          \/ (Owes(h, x) <=> Owes(po[p], ex[p])) /\ a = acted[i]
          \/ ~Owes(po[p], ex[p]) /\ Owes(h, x) /\ a = acted[i] /\ n = grants[i] + 1
          \/ Owes(po[p], ex[p]) /\ ~Owes(h, x) /\ a = acted[i] + 1 /\ n = grants[i]
    /\ card' \in Timeline
    /\ UNCHANGED <<age, proc, rq, sw, shown, reminders, told>>

(* The account of request i after such a step.                             *)
LEMMA HandlerAccount ==
  ASSUME FlowInv, NEW p \in Posts, NEW h \in Handler, NEW x \in Execution,
         NEW i \in Ids, NEW e \in Entry, NEW a \in Nat, NEW n \in Nat,
         HandlerMove(p, h, x, i, e, a, n)
  PROVE  Accounted(i)'
  <1> SUFFICES ASSUME flow[i] = "async"
      PROVE IsFiniteSet(Owed(i)') /\ a + Cardinality(Owed(i)') <= n
    BY Zenon DEF HandlerMove, Accounted, proc, FlowInv, TypeOK
  <1>1. /\ acted[i] \in Nat /\ grants[i] \in Nat
        /\ IsFiniteSet(Owed(i)) /\ acted[i] + Cardinality(Owed(i)) <= grants[i]
        /\ po \in [Posts -> Handler] /\ ex \in [Posts -> Execution]
    BY Zenon DEF FlowInv, Accounted, TypeOK
  <1>2. Cardinality(Owed(i)) \in Nat
    BY <1>1, FS_CardinalityType, Zenon
  <1>3. \A q \in Posts \ {p} : q \in Owed(i)' <=> q \in Owed(i)
    BY <1>1, Zenon DEF HandlerMove, Owed
  <1>4. p \in Owed(i)' <=> Owes(h, x)
    BY <1>1, Zenon DEF HandlerMove, Owed
  <1>5. p \in Owed(i) <=> Owes(po[p], ex[p])
    BY <1>1, Zenon DEF HandlerMove, Owed
  <1>6. Owed(i)' \subseteq Posts /\ Owed(i) \subseteq Posts
    BY Zenon DEF Owed
  <1>7. CASE (Owes(h, x) <=> Owes(po[p], ex[p])) /\ a = acted[i]
    <2>1. Owed(i)' = Owed(i)
      BY <1>3, <1>4, <1>5, <1>6, <1>7
    <2> QED
      BY <1>1, <1>2, <1>7, <2>1 DEF HandlerMove
  <1>8. CASE ~Owes(po[p], ex[p]) /\ Owes(h, x) /\ a = acted[i] /\ n = grants[i] + 1
    <2>1. Owed(i)' = Owed(i) \cup {p} /\ p \notin Owed(i)
      BY <1>3, <1>4, <1>5, <1>6, <1>8, Zenon
    <2>2. /\ IsFiniteSet(Owed(i) \cup {p})
          /\ Cardinality(Owed(i) \cup {p}) = Cardinality(Owed(i)) + 1
      BY <1>1, <2>1, FS_AddElement, Zenon
    <2> QED
      BY <1>1, <1>2, <1>8, <2>1, <2>2
  <1>9. CASE Owes(po[p], ex[p]) /\ ~Owes(h, x) /\ a = acted[i] + 1 /\ n = grants[i]
    <2>1. Owed(i)' = Owed(i) \ {p} /\ p \in Owed(i)
      BY <1>3, <1>4, <1>5, <1>6, <1>9, Zenon
    <2>2. /\ IsFiniteSet(Owed(i) \ {p})
          /\ Cardinality(Owed(i) \ {p}) = Cardinality(Owed(i)) - 1
      BY <1>1, <2>1, FS_RemoveElement, Zenon
    <2> QED
      BY <1>1, <1>2, <1>9, <2>1, <2>2
  <1> QED
    BY <1>7, <1>8, <1>9, Zenon DEF HandlerMove

(* After such a step, only the handler and its request have to be looked at. *)
LEMMA HandlerFrame ==
  ASSUME FlowInv, NEW p \in Posts, NEW h \in Handler, NEW x \in Execution,
         NEW i \in Ids, NEW e \in Entry, NEW a \in Nat, NEW n \in Nat,
         HandlerMove(p, h, x, i, e, a, n), RequestOK(i)', PostOK(p)'
  PROVE  FlowInv'
  <1> USE DEF HandlerMove
  <1>1. /\ grants \in [Ids -> Nat] /\ po \in [Posts -> Handler] /\ ex \in [Posts -> Execution]
        /\ \A q \in Posts : po[q].id \in Ids
    BY Zenon DEF FlowInv, TypeOK, Handler
  <1>2. TypeOK'
    BY Zenon DEF FlowInv, TypeOK, proc
  <1>3. ASSUME NEW j \in Ids PROVE RequestOK(j)'
    <2>1. CASE j = i
      BY <2>1, Zenon
    <2>2. CASE j # i
      <3>1. attrs'[j] = attrs[j] /\ acted'[j] = acted[j] /\ grants'[j] = grants[j]
        BY <2>2, Zenon DEF FlowInv, TypeOK
      <3>2. RequestOK(j)
        BY Zenon DEF FlowInv
      <3> QED
        BY <3>1, <3>2, Zenon DEF RequestOK, Waiter, Submitted, proc
    <2> QED
      BY <2>1, <2>2, Zenon
  <1>4. ASSUME NEW j \in Ids PROVE Accounted(j)'
    <2>1. CASE j = i
      BY <2>1, HandlerAccount, ZenonT(30)
    <2>2. CASE j # i
      <3>1. acted'[j] = acted[j] /\ grants'[j] = grants[j]
        BY <2>2, Zenon DEF FlowInv, TypeOK
      <3>2. ASSUME NEW q \in Posts PROVE q \in Owed(j)' <=> q \in Owed(j)
        BY <1>1, <2>2, Zenon DEF Owed
      <3>3. Owed(j)' = Owed(j)
        BY <3>2, Zenon DEF Owed
      <3>4. Accounted(j)
        BY Zenon DEF FlowInv
      <3> QED
        BY <3>1, <3>3, <3>4, Zenon DEF Accounted, proc
    <2> QED
      BY <2>1, <2>2, Zenon
  <1>5. ASSUME NEW q \in Posts PROVE PostOK(q)'
    <2>1. CASE q = p
      BY <2>1, Zenon
    <2>2. CASE q # p
      <3>1. po'[q] = po[q] /\ ex'[q] = ex[q] /\ PostOK(q)
        BY <1>1, <2>2, Zenon DEF FlowInv
      <3>2. grants[po[q].id] > 0 => grants'[po[q].id] > 0
        BY <1>1, SMTT(60)
      <3> QED
        BY <3>1, <3>2, SMTT(30) DEF PostOK, proc
    <2> QED
      BY <2>1, <2>2, Zenon
  <1>6. SweepOK'
    BY Zenon DEF FlowInv, SweepOK, proc
  <1> QED
    BY <1>2, <1>3, <1>4, <1>5, <1>6, Zenon DEF FlowInv

(* A step of the sweeper leaves it at s, the entry of request i at e and   *)
(* its reminders at m.                                                     *)
SweeperMove(s, i, e, m) ==
    /\ sw' = s
    /\ attrs' = [attrs EXCEPT ![i] = e]
    /\ reminders' = [reminders EXCEPT ![i] = m]
    /\ card' \in Timeline /\ told' \subseteq Ids
    /\ UNCHANGED <<age, proc, rq, po, ex, shown, grants, acted>>

LEMMA SweeperFrame ==
  ASSUME FlowInv, NEW s \in Sweeper, NEW i \in Ids, NEW e \in Entry, NEW m \in Nat,
         SweeperMove(s, i, e, m), RequestOK(i)', SweepOK'
  PROVE  FlowInv'
  <1> USE DEF SweeperMove
  <1>1. TypeOK'
    BY Zenon DEF FlowInv, TypeOK, proc
  <1>2. ASSUME NEW j \in Ids PROVE RequestOK(j)'
    <2>1. CASE j = i
      BY <2>1, Zenon
    <2>2. CASE j # i
      <3>1. attrs'[j] = attrs[j] /\ reminders'[j] = reminders[j]
        BY <2>2, Zenon DEF FlowInv, TypeOK
      <3>2. RequestOK(j)
        BY Zenon DEF FlowInv
      <3> QED
        BY <3>1, <3>2, Zenon DEF RequestOK, Waiter, Submitted, proc
    <2> QED
      BY <2>1, <2>2, Zenon
  <1>3. ASSUME NEW j \in Ids PROVE Accounted(j)'
    BY Zenon DEF FlowInv, Accounted, Owed, proc
  <1>4. ASSUME NEW p \in Posts PROVE PostOK(p)'
    BY Zenon DEF FlowInv, PostOK, proc
  <1> QED
    BY <1>1, <1>2, <1>3, <1>4, Zenon DEF FlowInv

(* Patching a card gives a timeline.                                       *)
LEMMA PatchedTyped ==
  ASSUME NEW tl \in Timeline, NEW j \in Ids, NEW s \in Statuses \cup {"none"}
  PROVE  Patched(tl, j, s) \in Timeline
  BY Zenon DEF Patched, Timeline

(* patchAttrs gives an entry with the new status.                          *)
LEMMA PatchedEntryTyped ==
  ASSUME NEW e \in Entry, NEW s \in Statuses
  PROVE  PatchedEntry(e, s) \in Entry /\ PatchedEntry(e, s).status = s
  <1>1. 0 \in Ages
    BY SMTT(30) DEF Ages
  <1>2. s \in Statuses \cup {"none"}
    BY Zenon
  <1> QED
    BY <1>1, <1>2, Zenon DEF PatchedEntry, Entry

(* The parts of the records of the requesting goroutine have their types.  *)
LEMMA RequesterFields ==
  /\ \A q \in Requester : q.tl \in Timeline /\ q.res \in Statuses \cup {"none", "error"}
  /\ \A b \in BOOLEAN : [IdleRq EXCEPT !.pc = "wait", !.armed = b] \in Requester
  BY ConstantsTyped, Zenon DEF Requester, RqPc

(* Every step of the requesting goroutine keeps the invariant.             *)
LEMMA RequesterKeeps ==
  ASSUME FlowInv, NEW i \in Ids, RqCreate(i) \/ RqStep(i)
  PROVE  FlowInv'
  <1>1. /\ rq \in [Ids -> Requester] /\ rq[i] \in Requester
        /\ attrs \in [Ids -> Entry] /\ attrs[i] \in Entry /\ card \in Timeline
        /\ flow[i] \in {"blocking", "async"}
        /\ acted \in [Ids -> Nat] /\ reminders \in [Ids -> Nat] /\ grants \in [Ids -> Nat]
        /\ acted[i] \in Nat /\ reminders[i] \in Nat /\ grants[i] \in Nat
        /\ shown \subseteq Ids /\ told \subseteq Ids /\ RequestOK(i)
    BY Zenon DEF FlowInv, TypeOK
  <1>2. /\ attrs = [attrs EXCEPT ![i] = attrs[i]] /\ acted = [acted EXCEPT ![i] = acted[i]]
        /\ reminders = [reminders EXCEPT ![i] = reminders[i]]
        /\ acted[i] + 1 \in Nat /\ reminders[i] + 1 \in Nat
    <2>1. acted[i] + 1 \in Nat /\ reminders[i] + 1 \in Nat
      BY <1>1
    <2> QED
      BY <1>1, <2>1, Zenon
  <1>3. ASSUME RqPatchTlRead(i) \/ RqPatchTlWrite(i) PROVE card' \in Timeline
    <2>1. rq[i].tl \in Timeline /\ rq[i].res \in Statuses \cup {"none", "error"}
      BY <1>1, RequesterFields, Zenon
    <2>2. CASE RqPatchTlRead(i)
      BY <1>1, <2>2, Zenon DEF RqPatchTlRead, store
    <2>3. CASE RqPatchTlWrite(i) /\ rq[i].res = "error"
      <3>1. card' = Patched(rq[i].tl, i, "cancelled") /\ "cancelled" \in Statuses
        BY <2>3, Zenon DEF RqPatchTlWrite, Statuses
      <3> QED
        BY <2>1, <3>1, PatchedTyped, Zenon
    <2>4. CASE RqPatchTlWrite(i) /\ rq[i].res # "error"
      <3>1. card' = Patched(rq[i].tl, i, rq[i].res) /\ rq[i].res \in Statuses \cup {"none"}
        BY <2>1, <2>4, Zenon DEF RqPatchTlWrite
      <3> QED
        BY <2>1, <3>1, PatchedTyped, Zenon
    <2> QED
      BY <1>3, <2>2, <2>3, <2>4, Zenon
  <1>4. CASE RqCreate(i)
    <2> DEFINE r == [rq[i] EXCEPT !.pc = "tlRead"]
    <2> DEFINE e == [Absent EXCEPT !.status = "pending"]
    <2>1. r \in Requester /\ e \in Entry
      BY <1>4, <1>1, ConstantsTyped, Zenon DEF RqCreate, Requester, RqPc, Entry, Statuses, Absent
    <2>2. rq' = [rq EXCEPT ![i] = r] /\ attrs' = [attrs EXCEPT ![i] = e]
      BY <1>4, <1>1, Zenon DEF RqCreate, store, Entry, Statuses, Absent
    <2>3. r.pc = "tlRead" /\ e.status = "pending" /\ rq[i].pc = "idle"
      BY <1>4, <1>1 DEF RqCreate, Entry, Statuses, Absent
    <2> HIDE DEF r, e
    <2>4. rq'[i] = r /\ attrs'[i] = e
      BY <1>4, <1>1, <2>2, Zenon DEF RqCreate, store
    <2>5. RequestOK(i)'
      BY <1>4, <1>1, <2>3, <2>4 DEF RqCreate, RequestOK, Waiter, Submitted, store, proc, history
    <2>6. RequesterMove(i, r, e, acted[i], reminders[i])
      BY <1>4, <1>1, <1>2, <2>2, <2>3, Zenon DEF RqCreate, RequesterMove, store, history, Timeline
    <2> QED
      BY <1>1, <2>1, <2>5, <2>6, RequesterFrame, Zenon
  <1>5. CASE RqTlRead(i)
    <2> DEFINE r == [rq[i] EXCEPT !.pc = "tlWrite", !.tl = card]
    <2>1. r \in Requester
      BY <1>5, <1>1, ConstantsTyped, Zenon DEF RqTlRead, Requester, RqPc
    <2>2. rq' = [rq EXCEPT ![i] = r]
      BY <1>5, <1>1, Zenon DEF RqTlRead, store
    <2>3. r.pc = "tlWrite" /\ rq[i].pc = "tlRead"
      BY <1>5, <1>1 DEF RqTlRead
    <2> HIDE DEF r
    <2>4. rq'[i] = r /\ attrs'[i] = attrs[i]
      BY <1>5, <1>1, <2>2, Zenon DEF RqTlRead, store
    <2>5. RequestOK(i)'
      BY <1>5, <1>1, <2>3, <2>4, Zenon DEF RqTlRead, RequestOK, Waiter, Submitted, store, proc, history
    <2>6. RequesterMove(i, r, attrs[i], acted[i], reminders[i])
      BY <1>5, <1>1, <1>2, <2>2, <2>3, Zenon DEF RqTlRead, RequesterMove, store, history, Timeline
    <2> QED
      BY <1>1, <2>1, <2>5, <2>6, RequesterFrame, Zenon
  <1>6. CASE RqTlWrite(i) /\ i \in Blocking
    <2> DEFINE r == [IdleRq EXCEPT !.pc = "wait", !.armed = (i \in High)]
    <2>1. (i \in High) \in BOOLEAN
      OBVIOUS
    <2>2. r \in Requester
      BY <2>1, RequesterFields, Zenon
    <2>3. rq' = [rq EXCEPT ![i] = r]
      BY <1>6, <1>1, Zenon DEF RqTlWrite, store, Blocking, IdleRq
    <2>4. r.pc = "wait" /\ rq[i].pc = "tlWrite" /\ flow[i] = "blocking"
      BY <1>6, <1>1, Zenon DEF RqTlWrite, Blocking, IdleRq
    <2> HIDE DEF r
    <2>5. rq'[i] = r /\ attrs'[i] = attrs[i]
      BY <1>6, <1>1, <2>3, Zenon DEF RqTlWrite, store
    <2>6. RequestOK(i)'
      BY <1>6, <1>1, <2>4, <2>5, Zenon
      DEF RqTlWrite, RequestOK, Waiter, Submitted, store, proc, history
    <2>7. RequesterMove(i, r, attrs[i], acted[i], reminders[i])
      BY <1>6, <1>1, <1>2, <2>3, <2>4, RequesterFields, PatchedTyped, Zenon
      DEF RqTlWrite, RequesterMove, store, history, Timeline, Statuses
    <2> QED
      BY <1>1, <2>2, <2>6, <2>7, RequesterFrame, Zenon
  <1>7. CASE RqTlWrite(i) /\ i \notin Blocking
    <2> DEFINE r == EndRq
    <2>1. r \in Requester
      BY <1>7, <1>1, ConstantsTyped, Zenon DEF RqTlWrite, Requester, RqPc, Blocking, EndRq, IdleRq
    <2>2. rq' = [rq EXCEPT ![i] = r]
      BY <1>7, <1>1, Zenon DEF RqTlWrite, store, Blocking, EndRq, IdleRq
    <2>3. r.pc = "end" /\ rq[i].pc = "tlWrite" /\ flow[i] = "async"
      BY <1>7, <1>1, Zenon DEF RqTlWrite, Blocking, EndRq, IdleRq
    <2> HIDE DEF r
    <2>4. rq'[i] = r /\ attrs'[i] = attrs[i]
      BY <1>7, <1>1, <2>2, Zenon DEF RqTlWrite, store
    <2>5. RequestOK(i)'
      BY <1>7, <1>1, <2>3, <2>4, Zenon
      DEF RqTlWrite, RequestOK, Waiter, Submitted, store, proc, history
    <2>6. RequesterMove(i, r, attrs[i], acted[i], reminders[i])
      BY <1>7, <1>1, <1>2, <2>2, <2>3, RequesterFields, PatchedTyped, Zenon
      DEF RqTlWrite, RequesterMove, store, history, Timeline, Statuses
    <2> QED
      BY <1>1, <2>1, <2>5, <2>6, RequesterFrame, Zenon
  <1>8. ASSUME NEW s \in {"cancelled", "timed_out"}, NEW x \in {"error", "timed_out"},
             RqPatchGet(i, s, x), Exists(i)
        PROVE  FlowInv'
    <2> DEFINE r == [rq[i] EXCEPT !.pc = "patchSet", !.loc = PatchedEntry(attrs[i], s), !.res = x]
    <2>1. r \in Requester
      BY <1>8, <1>1, ConstantsTyped, PatchedEntryTyped, Zenon DEF RqPatchGet, Requester, RqPc, Statuses
    <2>2. rq' = [rq EXCEPT ![i] = r]
      BY <1>8, <1>1, Zenon DEF RqPatchGet, store, Statuses
    <2>3. rq[i].pc = "wait" /\ r.res = x /\ r.pc = "patchSet" /\ r.loc.status = s
      BY <1>8, <1>1, PatchedEntryTyped DEF RqPatchGet, Statuses, Requester
    <2> HIDE DEF r
    <2>4. rq'[i] = r /\ attrs'[i] = attrs[i]
      BY <1>8, <1>1, <2>2, Zenon DEF RqPatchGet, store
    <2>5. RequestOK(i)'
      BY <1>8, <1>1, <2>3, <2>4, Zenon
      DEF RqPatchGet, RequestOK, Waiter, Submitted, store, proc, history
    <2>6. RequesterMove(i, r, attrs[i], acted[i], reminders[i])
      BY <1>8, <1>1, <1>2, <2>2, <2>3, Zenon DEF RqPatchGet, RequesterMove, store, history, Timeline
    <2> QED
      BY <1>1, <2>1, <2>5, <2>6, RequesterFrame, Zenon
  <1>9. ASSUME NEW s \in {"cancelled", "timed_out"}, NEW x \in {"error", "timed_out"},
             RqPatchGet(i, s, x), ~Exists(i)
        PROVE  FlowInv'
    <2> DEFINE r == [rq[i] EXCEPT !.pc = "patchTlRead", !.loc = Absent, !.res = x]
    <2>1. r \in Requester
      BY <1>9, <1>1, ConstantsTyped, Zenon DEF RqPatchGet, Requester, RqPc, Statuses
    <2>2. rq' = [rq EXCEPT ![i] = r]
      BY <1>9, <1>1, Zenon DEF RqPatchGet, store, Statuses
    <2>3. rq[i].pc = "wait" /\ r.res = x /\ r.pc = "patchTlRead"
      BY <1>9, <1>1 DEF RqPatchGet, Statuses
    <2> HIDE DEF r
    <2>4. rq'[i] = r /\ attrs'[i] = attrs[i]
      BY <1>9, <1>1, <2>2, Zenon DEF RqPatchGet, store
    <2>5. RequestOK(i)'
      BY <1>9, <1>1, <2>3, <2>4, Zenon
      DEF RqPatchGet, RequestOK, Waiter, Submitted, store, proc, history, Exists
    <2>6. RequesterMove(i, r, attrs[i], acted[i], reminders[i])
      BY <1>9, <1>1, <1>2, <2>2, <2>3, Zenon DEF RqPatchGet, RequesterMove, store, history, Timeline
    <2> QED
      BY <1>1, <2>1, <2>5, <2>6, RequesterFrame, Zenon
  <1>10. CASE RqPatchSet(i)
    <2> DEFINE r == [rq[i] EXCEPT !.pc = "patchTlRead", !.loc = Absent]
    <2> DEFINE e == rq[i].loc
    <2>1. r \in Requester /\ e \in Entry
      BY <1>10, <1>1, ConstantsTyped, Zenon DEF RqPatchSet, Requester, RqPc
    <2>2. rq' = [rq EXCEPT ![i] = r] /\ attrs' = [attrs EXCEPT ![i] = e]
      BY <1>10, <1>1, Zenon DEF RqPatchSet, store
    <2>3. rq[i].pc = "patchSet" /\ r.pc = "patchTlRead" /\ r.res = rq[i].res /\ e = rq[i].loc
      BY <1>10, <1>1 DEF RqPatchSet
    <2> HIDE DEF r, e
    <2>4. rq'[i] = r /\ attrs'[i] = e
      BY <1>10, <1>1, <2>2, Zenon DEF RqPatchSet, store
    <2>5. RequestOK(i)'
      BY <1>10, <1>1, <2>3, <2>4, Zenon
      DEF RqPatchSet, RequestOK, Waiter, Submitted, store, proc, history
    <2>6. RequesterMove(i, r, e, acted[i], reminders[i])
      BY <1>10, <1>1, <1>2, <2>2, <2>3, Zenon DEF RqPatchSet, RequesterMove, store, history, Timeline
    <2> QED
      BY <1>1, <2>1, <2>5, <2>6, RequesterFrame, Zenon
  <1>11. CASE RqEscalateGet(i) /\ Unreminded(attrs[i])
    <2> DEFINE r == [rq[i] EXCEPT !.armed = FALSE, !.pc = "escSet",
                            !.loc = [attrs[i] EXCEPT !.escalated = TRUE]]
    <2>1. r \in Requester
      BY <1>11, <1>1, ConstantsTyped, Zenon
      DEF RqEscalateGet, Requester, RqPc, IsPending, Unreminded, Entry
    <2>2. rq' = [rq EXCEPT ![i] = r]
      BY <1>11, <1>1, Zenon DEF RqEscalateGet, store, IsPending, Unreminded, Entry
    <2>3. rq[i].pc = "wait" /\ r.pc = "escSet" /\ r.loc.status = "pending" /\ attrs[i].status = "pending"
      BY <1>11, <1>1 DEF RqEscalateGet, IsPending, Unreminded, Entry
    <2> HIDE DEF r
    <2>4. rq'[i] = r /\ attrs'[i] = attrs[i]
      BY <1>11, <1>1, <2>2, Zenon DEF RqEscalateGet, store
    <2>5. RequestOK(i)'
      BY <1>11, <1>1, <2>3, <2>4, Zenon
      DEF RqEscalateGet, RequestOK, Waiter, Submitted, store, proc, history
    <2>6. RequesterMove(i, r, attrs[i], acted[i], reminders[i])
      BY <1>11, <1>1, <1>2, <2>2, <2>3, Zenon
      DEF RqEscalateGet, RequesterMove, store, history, Timeline
    <2> QED
      BY <1>1, <2>1, <2>5, <2>6, RequesterFrame, Zenon
  <1>12. CASE RqEscalateGet(i) /\ ~Unreminded(attrs[i])
    <2> DEFINE r == [rq[i] EXCEPT !.armed = FALSE]
    <2>1. r \in Requester
      BY <1>12, <1>1, ConstantsTyped, Zenon DEF RqEscalateGet, Requester, RqPc, IsPending, Unreminded
    <2>2. rq' = [rq EXCEPT ![i] = r]
      BY <1>12, <1>1, Zenon DEF RqEscalateGet, store, IsPending, Unreminded
    <2>3. rq[i].pc = "wait" /\ r.pc = "wait"
      BY <1>12, <1>1 DEF RqEscalateGet, IsPending, Unreminded
    <2> HIDE DEF r
    <2>4. rq'[i] = r /\ attrs'[i] = attrs[i]
      BY <1>12, <1>1, <2>2, Zenon DEF RqEscalateGet, store
    <2>5. RequestOK(i)'
      BY <1>12, <1>1, <2>3, <2>4, Zenon
      DEF RqEscalateGet, RequestOK, Waiter, Submitted, store, proc, history
    <2>6. RequesterMove(i, r, attrs[i], acted[i], reminders[i])
      BY <1>12, <1>1, <1>2, <2>2, <2>3, Zenon
      DEF RqEscalateGet, RequesterMove, store, history, Timeline
    <2> QED
      BY <1>1, <2>1, <2>5, <2>6, RequesterFrame, Zenon
  <1>13. CASE RqEscalateSet(i)
    <2> DEFINE r == [rq[i] EXCEPT !.pc = "wait", !.loc = Absent]
    <2> DEFINE e == rq[i].loc
    <2>1. r \in Requester /\ e \in Entry
      BY <1>13, <1>1, ConstantsTyped, Zenon DEF RqEscalateSet, Requester, RqPc
    <2>2. rq' = [rq EXCEPT ![i] = r] /\ attrs' = [attrs EXCEPT ![i] = e]
      BY <1>13, <1>1, Zenon DEF RqEscalateSet, store
    <2>3. rq[i].pc = "escSet" /\ r.pc = "wait" /\ e = rq[i].loc
      BY <1>13, <1>1 DEF RqEscalateSet
    <2> HIDE DEF r, e
    <2>4. rq'[i] = r /\ attrs'[i] = e
      BY <1>13, <1>1, <2>2, Zenon DEF RqEscalateSet, store
    <2>5. RequestOK(i)'
      BY <1>13, <1>1, <2>3, <2>4, Zenon
      DEF RqEscalateSet, RequestOK, Waiter, Submitted, store, proc, history
    <2>6. RequesterMove(i, r, e, acted[i], reminders[i] + 1)
      BY <1>13, <1>1, <1>2, <2>2, <2>3, Zenon
      DEF RqEscalateSet, RequesterMove, store, history, Timeline, RequestOK, Submitted
    <2> QED
      BY <1>1, <1>2, <2>1, <2>5, <2>6, RequesterFrame, Zenon
  <1>14. CASE RqPoll(i)
    <2> DEFINE r == [rq[i] EXCEPT !.pc = "patchTlRead", !.res = attrs[i].status]
    <2>1. r \in Requester
      BY <1>14, <1>1, ConstantsTyped, Zenon
      DEF RqPoll, Requester, RqPc, Entry, Statuses, Exists, IsPending
    <2>2. rq' = [rq EXCEPT ![i] = r]
      BY <1>14, <1>1, Zenon DEF RqPoll, store, Entry, Statuses, Exists, IsPending
    <2>3. rq[i].pc = "wait" /\ r.pc = "patchTlRead" /\ r.res = attrs[i].status
          /\ attrs[i].status \in {"approved", "rejected", "timed_out", "cancelled"}
      BY <1>14, <1>1 DEF RqPoll, Entry, Statuses, Exists, IsPending
    <2> HIDE DEF r
    <2>4. rq'[i] = r /\ attrs'[i] = attrs[i]
      BY <1>14, <1>1, <2>2, Zenon DEF RqPoll, store
    <2>5. RequestOK(i)'
      BY <1>14, <1>1, <2>3, <2>4, Zenon DEF RqPoll, RequestOK, Waiter, Submitted, store, proc, history
    <2>6. RequesterMove(i, r, attrs[i], acted[i], reminders[i])
      BY <1>14, <1>1, <1>2, <2>2, <2>3, Zenon DEF RqPoll, RequesterMove, store, history, Timeline
    <2> QED
      BY <1>1, <2>1, <2>5, <2>6, RequesterFrame, Zenon
  <1>15. CASE RqPatchTlRead(i) /\ card[i] # "none"
    <2> DEFINE r == [rq[i] EXCEPT !.pc = "patchTlWrite", !.tl = card]
    <2>1. r \in Requester
      BY <1>15, <1>1, ConstantsTyped, Zenon DEF RqPatchTlRead, Requester, RqPc
    <2>2. rq' = [rq EXCEPT ![i] = r]
      BY <1>15, <1>1, Zenon DEF RqPatchTlRead, store
    <2>3. rq[i].pc = "patchTlRead" /\ r.pc = "patchTlWrite" /\ r.res = rq[i].res
      BY <1>15, <1>1 DEF RqPatchTlRead
    <2> HIDE DEF r
    <2>4. rq'[i] = r /\ attrs'[i] = attrs[i]
      BY <1>15, <1>1, <2>2, Zenon DEF RqPatchTlRead, store
    <2>5. RequestOK(i)'
      BY <1>15, <1>1, <2>3, <2>4, Zenon
      DEF RqPatchTlRead, RequestOK, Waiter, Submitted, store, proc, history
    <2>6. RequesterMove(i, r, attrs[i], acted[i], reminders[i])
      BY <1>15, <1>1, <1>2, <2>2, <2>3, Zenon
      DEF RqPatchTlRead, RequesterMove, store, history, Timeline
    <2> QED
      BY <1>1, <2>1, <2>5, <2>6, RequesterFrame, Zenon
  <1>16. CASE ((RqPatchTlRead(i) /\ card[i] = "none") \/ RqPatchTlWrite(i))
             /\ rq[i].res \in {"rejected", "timed_out", "error"}
    <2> DEFINE r == EndRq
    <2>1. r \in Requester
      BY <1>16, <1>1, ConstantsTyped, Zenon
      DEF RqPatchTlRead, RqPatchTlWrite, Requester, RqPc, Returned, EndRq, IdleRq
    <2>2. rq' = [rq EXCEPT ![i] = r]
      BY <1>16, <1>1, Zenon DEF RqPatchTlRead, RqPatchTlWrite, store, Returned, EndRq, IdleRq
    <2>3. rq[i].pc \in {"patchTlRead", "patchTlWrite"} /\ r.pc = "end"
      BY <1>16, <1>1, Zenon DEF RqPatchTlRead, RqPatchTlWrite, Returned, EndRq, IdleRq
    <2> HIDE DEF r
    <2>4. rq'[i] = r /\ attrs'[i] = attrs[i]
      BY <1>16, <1>1, <2>2, Zenon DEF RqPatchTlRead, RqPatchTlWrite, store
    <2>5. RequestOK(i)'
      BY <1>16, <1>1, <2>3, <2>4, Zenon
      DEF RqPatchTlRead, RqPatchTlWrite, RequestOK, Waiter, Submitted, store, proc, history
    <2>6. RequesterMove(i, r, attrs[i], acted[i], reminders[i])
      BY <1>16, <1>1, <1>2, <2>2, <2>3, <1>3, Zenon
      DEF RqPatchTlRead, RqPatchTlWrite, RequesterMove, store, history, Timeline, Returned
    <2> QED
      BY <1>1, <2>1, <2>5, <2>6, RequesterFrame, Zenon
  <1>17. CASE ((RqPatchTlRead(i) /\ card[i] = "none") \/ RqPatchTlWrite(i))
             /\ rq[i].res \notin {"rejected", "timed_out", "error"}
    <2> DEFINE r == [IdleRq EXCEPT !.pc = "act"]
    <2>1. r \in Requester
      BY <1>17, <1>1, ConstantsTyped, Zenon
      DEF RqPatchTlRead, RqPatchTlWrite, Requester, RqPc, Returned, IdleRq
    <2>2. rq' = [rq EXCEPT ![i] = r]
      BY <1>17, <1>1, Zenon DEF RqPatchTlRead, RqPatchTlWrite, store, Returned, IdleRq
    <2>3. rq[i].pc \in {"patchTlRead", "patchTlWrite"} /\ r.pc = "act"
      BY <1>17, <1>1, Zenon DEF RqPatchTlRead, RqPatchTlWrite, Returned, IdleRq
    <2> HIDE DEF r
    <2>4. rq'[i] = r /\ attrs'[i] = attrs[i]
      BY <1>17, <1>1, <2>2, Zenon DEF RqPatchTlRead, RqPatchTlWrite, store
    <2>5. RequestOK(i)'
      BY <1>17, <1>1, <2>3, <2>4, Zenon
      DEF RqPatchTlRead, RqPatchTlWrite, RequestOK, Waiter, Submitted, store, proc, history
    <2>6. RequesterMove(i, r, attrs[i], acted[i], reminders[i])
      BY <1>17, <1>1, <1>2, <2>2, <2>3, <1>3, Zenon
      DEF RqPatchTlRead, RqPatchTlWrite, RequesterMove, store, history, Timeline, Returned
    <2> QED
      BY <1>1, <2>1, <2>5, <2>6, RequesterFrame, Zenon
  <1>18. CASE RqAct(i)
    <2> DEFINE r == EndRq
    <2>1. r \in Requester
      BY <1>18, <1>1, ConstantsTyped, Zenon DEF RqAct, Requester, RqPc, EndRq, IdleRq
    <2>2. rq' = [rq EXCEPT ![i] = r]
      BY <1>18, <1>1, Zenon DEF RqAct, store, EndRq, IdleRq
    <2>3. rq[i].pc = "act" /\ r.pc = "end"
      BY <1>18, <1>1, Zenon DEF RqAct, EndRq, IdleRq
    <2> HIDE DEF r
    <2>4. rq'[i] = r /\ attrs'[i] = attrs[i]
      BY <1>18, <1>1, <2>2, Zenon DEF RqAct, store
    <2>5. RequestOK(i)'
      <3>1. /\ flow[i] = "blocking" /\ Waiter(i) /\ grants[i] > 0 /\ acted[i] = 0
        <4>1. flow[i] = "blocking" /\ Waiter(i) /\ grants[i] > 0 /\ ~(acted[i] > 0)
          BY <1>1, <2>3, Zenon DEF RequestOK, Waiter, Submitted
        <4> QED
          BY <1>1, <4>1
      <3>2. /\ acted'[i] = acted[i] + 1 /\ grants' = grants /\ flow' = flow
            /\ attrs'[i] = attrs[i] /\ rq'[i].pc = "end"
        BY <1>18, <1>1, <2>3, <2>4, Zenon DEF RqAct, store, proc
      <3>3. acted'[i] <= 1
        BY <3>1, <3>2
      <3> QED
        BY <1>1, <2>3, <3>1, <3>2, <3>3, Zenon DEF RequestOK, Waiter
    <2>6. RequesterMove(i, r, attrs[i], acted[i] + 1, reminders[i])
      BY <1>18, <1>1, <1>2, <2>2, <2>3, Zenon
      DEF RqAct, RequesterMove, store, history, Timeline, RequestOK, Submitted
    <2> QED
      BY <1>1, <1>2, <2>1, <2>5, <2>6, RequesterFrame, Zenon
  <1> QED
    BY <1>4, <1>5, <1>6, <1>7, <1>8, <1>9, <1>10, <1>11, <1>12, <1>13, <1>14,
       <1>15, <1>16, <1>17, <1>18, Zenon
    DEF RqStep, RqCancel, RqTimeout, RqPatchTlRead

(* The parts of the records of the handlers, executions and the sweeper    *)
(* have their types.                                                       *)
LEMMA HandlerFields ==
  /\ \A h \in Handler : h.tl \in Timeline /\ h.loc \in Entry /\ h.dec \in Statuses
  /\ \A x \in Execution : x.tl \in Timeline /\ x.loc \in Entry
  /\ \A s \in Sweeper : s.tl \in Timeline /\ s.loc \in Entry /\ s.id \in Ids /\ s.todo \subseteq Ids
  BY Zenon DEF Handler, Execution, Sweeper, Statuses

(* A stored decision is an entry.                                          *)
LEMMA DecidedTyped ==
  ASSUME NEW e \in Entry, NEW d \in Statuses, NEW t \in Ages
  PROVE  /\ [e EXCEPT !.status = d, !.when = t] \in Entry
         /\ [e EXCEPT !.status = d, !.when = t].status = d
  <1>1. d \in Statuses \cup {"none"}
    BY Zenon
  <1> QED
    BY <1>1, Zenon DEF Entry

(* Every step of a decision handler and of the execution it launched keeps *)
(* the invariant.                                                          *)
LEMMA HandlerKeeps ==
  ASSUME FlowInv, NEW p \in Posts, PoStep(p) \/ ExStep(p)
  PROVE  FlowInv'
  <1>1. PICK i \in Ids : i = po[p].id
    BY Zenon DEF FlowInv, TypeOK, Handler
  <1>2. /\ i = po[p].id /\ po \in [Posts -> Handler] /\ po[p] \in Handler
        /\ ex \in [Posts -> Execution] /\ ex[p] \in Execution
        /\ attrs \in [Ids -> Entry] /\ attrs[i] \in Entry /\ card \in Timeline
        /\ age[i] \in Ages /\ flow[i] \in {"blocking", "async"}
        /\ acted \in [Ids -> Nat] /\ reminders \in [Ids -> Nat] /\ grants \in [Ids -> Nat]
        /\ acted[i] \in Nat /\ reminders[i] \in Nat /\ grants[i] \in Nat
        /\ RequestOK(i) /\ PostOK(p)
        /\ po[p].tl \in Timeline /\ po[p].loc \in Entry /\ po[p].dec \in Statuses
        /\ ex[p].tl \in Timeline /\ ex[p].loc \in Entry
    BY <1>1, HandlerFields, Zenon DEF FlowInv, TypeOK
  <1>3. /\ attrs = [attrs EXCEPT ![i] = attrs[i]] /\ acted = [acted EXCEPT ![i] = acted[i]]
        /\ grants = [grants EXCEPT ![i] = grants[i]]
        /\ po = [po EXCEPT ![p] = po[p]] /\ ex = [ex EXCEPT ![p] = ex[p]]
        /\ grants[i] >= grants[i] /\ grants[i] + 1 >= grants[i] /\ acted[i] + 1 \in Nat
    <2>1. grants[i] >= grants[i] /\ grants[i] + 1 >= grants[i] /\ acted[i] + 1 \in Nat
      BY <1>2
    <2> QED
      BY <1>2, <2>1, Zenon
  <1>4. /\ po[p].pc = "set" => rq[i].pc # "idle"
        /\ ex[p].pc # "none" => /\ flow[i] = "async" /\ grants[i] > 0 /\ rq[i].pc # "idle"
                                /\ ~Unreminded(attrs[i])
    BY <1>2, SMTT(30) DEF PostOK, RequestOK, Submitted
  <1>5. CASE PostSet(p) /\ po[p].dec = "approved"
    <2> DEFINE h == [po[p] EXCEPT !.pc = "tlRead", !.loc = Absent]
    <2> DEFINE e == [po[p].loc EXCEPT !.status = po[p].dec, !.when = age[i]]
    <2>1. h \in Handler /\ e \in Entry
      BY <1>5, <1>2, ConstantsTyped, DecidedTyped, Zenon DEF PostSet, Handler, PoPc, Execution, ExPc
    <2>2. po' = [po EXCEPT ![p] = h]
      BY <1>5, <1>2, <1>3, Zenon DEF PostSet
    <2>3. attrs' = [attrs EXCEPT ![i] = e]
      BY <1>5, <1>1, Zenon DEF PostSet
    <2>4. e.status = "approved"
      BY <1>5, <1>2, Zenon DEF Entry
    <2>5. /\ po[p].pc = "set" /\ h.pc = "tlRead" /\ h.id = i /\ h.dec = "approved"
          /\ e.status = "approved" /\ po[p].dec = "approved"
      BY <1>5, <1>2, <2>4, Zenon DEF PostSet, Handler
    <2> HIDE DEF h, e
    <2>6. Owes(h, ex[p]) /\ ~Owes(po[p], ex[p])
      BY <1>2, <2>5, Zenon DEF Owes, PostOK
    <2>7. /\ acted' = [acted EXCEPT ![i] = acted[i]] /\ grants' = [grants EXCEPT ![i] = grants[i] + 1]
          /\ ex' = [ex EXCEPT ![p] = ex[p]]
          /\ card' \in Timeline
          /\ UNCHANGED <<age, proc, rq, sw, shown, reminders, told>>
      BY <1>5, <1>2, <1>3, Zenon DEF PostSet, store, history, Timeline
    <2>8. HandlerMove(p, h, ex[p], i, e, acted[i], grants[i] + 1)
      BY <1>2, <1>3, <2>2, <2>5, <2>6, <2>7, <2>3, ZenonT(30) DEF HandlerMove
    <2>9. /\ po'[p] = h /\ ex'[p] = ex[p] /\ attrs'[i] = e
          /\ acted'[i] = acted[i] /\ grants'[i] = grants[i] + 1
      BY <1>2, <2>8, ZenonT(30) DEF HandlerMove
    <2>10. /\ grants[i] \in Nat /\ acted[i] \in Nat /\ RequestOK(i) /\ PostOK(p)
           /\ ex[p] \in Execution /\ rq[i].pc # "idle"
      BY <1>2, <1>4, <2>5, Zenon
    <2>11. grants[i] + 1 \in Nat /\ grants[i] + 1 > 0
      BY <2>10
    <2>12. /\ rq' = rq /\ flow' = flow /\ reminders' = reminders
           /\ grants'[i] > 0 /\ attrs'[i].status = "approved"
      BY <2>5, <2>7, <2>9, <2>11, Zenon DEF proc
    <2>13. ex[p].pc = "none"
      BY <2>5, <2>10, Zenon DEF PostOK
    <2>14. PostOK(p)'
      BY <2>5, <2>9, <2>12, <2>13, Zenon DEF PostOK
    <2>15. RequestOK(i)'
      BY <2>9, <2>10, <2>12, ZenonT(30) DEF RequestOK, Waiter, Submitted, Unreminded
    <2> QED
      BY <2>1, <2>8, <2>10, <2>11, <2>14, <2>15, HandlerFrame, Zenon
  <1>6. CASE PostSet(p) /\ po[p].dec = "rejected"
    <2> DEFINE h == [po[p] EXCEPT !.pc = "tlRead", !.loc = Absent]
    <2> DEFINE e == [po[p].loc EXCEPT !.status = po[p].dec, !.when = age[i]]
    <2>1. h \in Handler /\ e \in Entry
      BY <1>6, <1>2, ConstantsTyped, DecidedTyped, Zenon DEF PostSet, Handler, PoPc, Execution, ExPc
    <2>2. po' = [po EXCEPT ![p] = h]
      BY <1>6, <1>2, <1>3, Zenon DEF PostSet
    <2>3. attrs' = [attrs EXCEPT ![i] = e]
      BY <1>6, <1>1, Zenon DEF PostSet
    <2>4. e.status = "rejected"
      BY <1>6, <1>2, Zenon DEF Entry
    <2>5. /\ po[p].pc = "set" /\ h.pc = "tlRead" /\ h.id = i /\ h.dec = "rejected"
          /\ e.status = "rejected" /\ po[p].dec = "rejected"
      BY <1>6, <1>2, <2>4, Zenon DEF PostSet, Handler
    <2> HIDE DEF h, e
    <2>6. (Owes(h, ex[p]) <=> Owes(po[p], ex[p]))
      BY <1>2, <2>5, Zenon DEF Owes, PostOK
    <2>7. /\ acted' = [acted EXCEPT ![i] = acted[i]] /\ grants' = [grants EXCEPT ![i] = grants[i]]
          /\ ex' = [ex EXCEPT ![p] = ex[p]]
          /\ card' \in Timeline
          /\ UNCHANGED <<age, proc, rq, sw, shown, reminders, told>>
      BY <1>6, <1>2, <1>3, Zenon DEF PostSet, store, history, Timeline
    <2>8. HandlerMove(p, h, ex[p], i, e, acted[i], grants[i])
      BY <1>2, <1>3, <2>2, <2>5, <2>6, <2>7, <2>3, ZenonT(30) DEF HandlerMove
    <2>9. /\ po'[p] = h /\ ex'[p] = ex[p] /\ attrs'[i] = e
          /\ acted'[i] = acted[i] /\ grants'[i] = grants[i]
      BY <1>2, <2>8, Zenon DEF HandlerMove
    <2>10. PostOK(p)'
      BY <1>2, <1>4, <2>5, <2>8, <2>9, ZenonT(30) DEF PostOK, HandlerMove, proc
    <2>11. RequestOK(i)'
      BY <1>2, <1>4, <2>5, <2>8, <2>9, ZenonT(30)
      DEF RequestOK, Waiter, Submitted, Unreminded, PostOK, HandlerMove, proc
    <2> QED
      BY <1>2, <2>1, <2>8, <2>10, <2>11, HandlerFrame, ZenonT(30)
  <1>7. CASE PostTlRead(p) /\ card[i] # "none"
    <2> DEFINE h == [po[p] EXCEPT !.pc = "tlWrite", !.tl = card]
    <2>1. h \in Handler
      BY <1>7, <1>2, ConstantsTyped, Zenon DEF PostTlRead, Handler, PoPc, Execution, ExPc
    <2>2. po' = [po EXCEPT ![p] = h]
      BY <1>7, <1>2, <1>3, Zenon DEF PostTlRead
    <2>3. po[p].pc = "tlRead" /\ h.pc = "tlWrite" /\ h.id = i /\ h.dec = po[p].dec
      BY <1>7, <1>2, ConstantsTyped, Zenon DEF PostTlRead, Handler, Execution
    <2> HIDE DEF h
    <2>4. (Owes(h, ex[p]) <=> Owes(po[p], ex[p]))
      BY <1>2, <2>3, Zenon DEF Owes, PostOK
    <2>5. /\ acted' = [acted EXCEPT ![i] = acted[i]] /\ grants' = [grants EXCEPT ![i] = grants[i]]
          /\ ex' = [ex EXCEPT ![p] = ex[p]] /\ attrs' = [attrs EXCEPT ![i] = attrs[i]]
          /\ card' \in Timeline
          /\ UNCHANGED <<age, proc, rq, sw, shown, reminders, told>>
      BY <1>7, <1>2, <1>3, Zenon DEF PostTlRead, store, history, Timeline
    <2>6. HandlerMove(p, h, ex[p], i, attrs[i], acted[i], grants[i])
      BY <1>2, <1>3, <2>2, <2>3, <2>4, <2>5, ZenonT(30) DEF HandlerMove
    <2>7. /\ po'[p] = h /\ ex'[p] = ex[p] /\ attrs'[i] = attrs[i]
          /\ acted'[i] = acted[i] /\ grants'[i] = grants[i]
      BY <1>2, <2>6, ZenonT(30) DEF HandlerMove
    <2>8. PostOK(p)'
      BY <1>2, <1>4, <2>3, <2>6, <2>7, ZenonT(30) DEF PostOK, HandlerMove, proc
    <2>9. RequestOK(i)'
      BY <1>2, <1>4, <2>3, <2>6, <2>7, ZenonT(30)
      DEF RequestOK, Waiter, Submitted, Unreminded, PostOK, HandlerMove, proc
    <2> QED
      BY <1>2, <2>1, <2>6, <2>8, <2>9, HandlerFrame, Zenon
  <1>8. CASE ((PostTlRead(p) /\ card[i] = "none") \/ PostTlWrite(p))
             /\ po[p].dec = "approved" /\ i \notin Blocking
    <2>1. po[p].pc \in {"tlRead", "tlWrite"} /\ card' \in Timeline /\ PostReturn(p)
      BY <1>8, <1>2, PatchedTyped DEF PostTlRead, PostTlWrite, store
    <2> DEFINE h == [IdlePo EXCEPT !.pc = "end", !.id = i]
    <2> DEFINE x == [ex[p] EXCEPT !.pc = "run"]
    <2>2. h \in Handler /\ x \in Execution
      BY <1>8, <1>2, ConstantsTyped, Zenon
      DEF PostTlRead, PostTlWrite, Handler, PoPc, Execution, ExPc, PostReturn, Blocking
    <2>3. po' = [po EXCEPT ![p] = h] /\ ex' = [ex EXCEPT ![p] = x]
      BY <1>8, <1>2, <1>3, Zenon DEF PostTlRead, PostTlWrite, PostReturn, Blocking
    <2>4. /\ po[p].pc \in {"tlRead", "tlWrite"} /\ h.pc = "end" /\ h.id = i /\ x.pc = "run"
          /\ po[p].dec = "approved" /\ flow[i] = "async"
      BY <1>8, <1>2, ConstantsTyped, Zenon
      DEF PostTlRead, PostTlWrite, Handler, Execution, PostReturn, Blocking
    <2> HIDE DEF h, x
    <2>5. (Owes(h, x) <=> Owes(po[p], ex[p]))
      BY <1>2, <2>4, Zenon DEF Owes, PostOK
    <2>6. /\ acted' = [acted EXCEPT ![i] = acted[i]] /\ grants' = [grants EXCEPT ![i] = grants[i]]
          /\ attrs' = [attrs EXCEPT ![i] = attrs[i]]
          /\ card' \in Timeline
          /\ UNCHANGED <<age, proc, rq, sw, shown, reminders, told>>
      BY <1>8, <1>2, <1>3, <2>1, Zenon DEF PostTlRead, PostTlWrite, store, history, Timeline
    <2>7. HandlerMove(p, h, x, i, attrs[i], acted[i], grants[i])
      BY <1>2, <1>3, <2>3, <2>4, <2>5, <2>6, ZenonT(30) DEF HandlerMove
    <2>8. /\ po'[p] = h /\ ex'[p] = x /\ attrs'[i] = attrs[i]
          /\ acted'[i] = acted[i] /\ grants'[i] = grants[i]
      BY <1>2, <2>7, ZenonT(30) DEF HandlerMove
    <2>9. PostOK(p)'
      BY <1>2, <1>4, <2>4, <2>7, <2>8, ZenonT(30) DEF PostOK, HandlerMove, proc
    <2>10. RequestOK(i)'
      BY <1>2, <1>4, <2>4, <2>7, <2>8, ZenonT(30)
      DEF RequestOK, Waiter, Submitted, Unreminded, PostOK, HandlerMove, proc
    <2> QED
      BY <1>2, <2>2, <2>7, <2>9, <2>10, HandlerFrame, ZenonT(30)
  <1>9. CASE ((PostTlRead(p) /\ card[i] = "none") \/ PostTlWrite(p))
             /\ ~(po[p].dec = "approved" /\ i \notin Blocking)
    <2>1. po[p].pc \in {"tlRead", "tlWrite"} /\ card' \in Timeline /\ PostReturn(p)
      BY <1>9, <1>2, PatchedTyped, Zenon DEF PostTlRead, PostTlWrite, store
    <2> DEFINE h == [IdlePo EXCEPT !.pc = "end", !.id = i]
    <2>2. h \in Handler
      BY <1>9, <1>2, ConstantsTyped, ZenonT(30)
      DEF PostTlRead, PostTlWrite, Handler, PoPc, Execution, ExPc, PostReturn, Blocking
    <2>3. po' = [po EXCEPT ![p] = h]
      BY <1>9, <1>2, <1>3, Zenon DEF PostTlRead, PostTlWrite, PostReturn, Blocking
    <2>4. /\ po[p].pc \in {"tlRead", "tlWrite"} /\ h.pc = "end" /\ h.id = i
          /\ ~(po[p].dec = "approved" /\ flow[i] = "async")
      BY <1>9, <1>2, ConstantsTyped, Zenon
      DEF PostTlRead, PostTlWrite, Handler, Execution, PostReturn, Blocking
    <2> HIDE DEF h
    <2>5. flow[i] = "async" => (Owes(h, ex[p]) <=> Owes(po[p], ex[p]))
      BY <1>2, <2>4, Zenon DEF Owes, PostOK
    <2>6. /\ acted' = [acted EXCEPT ![i] = acted[i]] /\ grants' = [grants EXCEPT ![i] = grants[i]]
          /\ ex' = [ex EXCEPT ![p] = ex[p]] /\ attrs' = [attrs EXCEPT ![i] = attrs[i]]
          /\ card' \in Timeline
          /\ UNCHANGED <<age, proc, rq, sw, shown, reminders, told>>
      BY <1>9, <1>2, <1>3, <2>1, ZenonT(30)
      DEF PostTlRead, PostTlWrite, store, history, Timeline, PostReturn, Blocking
    <2>7. HandlerMove(p, h, ex[p], i, attrs[i], acted[i], grants[i])
      BY <1>2, <1>3, <2>3, <2>4, <2>5, <2>6, Zenon DEF HandlerMove
    <2>8. /\ po'[p] = h /\ ex'[p] = ex[p] /\ attrs'[i] = attrs[i]
          /\ acted'[i] = acted[i] /\ grants'[i] = grants[i]
      BY <1>2, <2>7, ZenonT(30) DEF HandlerMove
    <2>9. PostOK(p)'
      BY <1>2, <1>4, <2>4, <2>7, <2>8, ZenonT(30) DEF PostOK, HandlerMove, proc
    <2>10. RequestOK(i)'
      BY <1>2, <1>4, <2>4, <2>7, <2>8, ZenonT(30)
      DEF RequestOK, Waiter, Submitted, Unreminded, PostOK, HandlerMove, proc
    <2> QED
      BY <1>2, <2>2, <2>7, <2>9, <2>10, HandlerFrame, ZenonT(30)
  <1>10. CASE PostDelete(p)
    <2> DEFINE h == [po[p] EXCEPT !.pc = "rmRead"]
    <2> DEFINE e == Absent
    <2>1. h \in Handler /\ e \in Entry
      BY <1>10, <1>2, ConstantsTyped, Zenon DEF PostDelete, Handler, PoPc, Execution, ExPc, Absent
    <2>2. po' = [po EXCEPT ![p] = h]
      BY <1>10, <1>2, <1>3, Zenon DEF PostDelete, Absent
    <2>3. attrs' = [attrs EXCEPT ![i] = e]
      BY <1>10, <1>1, Zenon DEF PostDelete
    <2>4. po[p].pc = "del" /\ h.pc = "rmRead" /\ h.id = i /\ e.status = "none"
      BY <1>10, <1>2, ConstantsTyped, Zenon DEF PostDelete, Handler, Execution, Absent
    <2> HIDE DEF h, e
    <2>5. (Owes(h, ex[p]) <=> Owes(po[p], ex[p]))
      BY <1>2, <2>4, Zenon DEF Owes, PostOK
    <2>6. /\ acted' = [acted EXCEPT ![i] = acted[i]] /\ grants' = [grants EXCEPT ![i] = grants[i]]
          /\ ex' = [ex EXCEPT ![p] = ex[p]]
          /\ card' \in Timeline
          /\ UNCHANGED <<age, proc, rq, sw, shown, reminders, told>>
      BY <1>10, <1>2, <1>3, Zenon DEF PostDelete, store, history, Timeline
    <2>7. HandlerMove(p, h, ex[p], i, e, acted[i], grants[i])
      BY <1>2, <1>3, <2>2, <2>4, <2>5, <2>6, <2>3, Zenon DEF HandlerMove
    <2>8. /\ po'[p] = h /\ ex'[p] = ex[p] /\ attrs'[i] = e
          /\ acted'[i] = acted[i] /\ grants'[i] = grants[i]
      BY <1>2, <2>7, ZenonT(30) DEF HandlerMove
    <2>9. PostOK(p)'
      BY <1>2, <1>4, <2>4, <2>7, <2>8, ZenonT(30) DEF PostOK, HandlerMove, proc
    <2>10. RequestOK(i)'
      BY <1>2, <1>4, <2>4, <2>7, <2>8, ZenonT(30)
      DEF RequestOK, Waiter, Submitted, Unreminded, PostOK, HandlerMove, proc
    <2> QED
      BY <1>2, <2>1, <2>7, <2>9, <2>10, HandlerFrame, Zenon
  <1>11. CASE PostRemoveRead(p) /\ card[i] # "none"
    <2> DEFINE h == [po[p] EXCEPT !.pc = "rmWrite", !.tl = card]
    <2>1. h \in Handler
      BY <1>11, <1>2, ConstantsTyped, Zenon DEF PostRemoveRead, Handler, PoPc, Execution, ExPc
    <2>2. po' = [po EXCEPT ![p] = h]
      BY <1>11, <1>2, <1>3, Zenon DEF PostRemoveRead
    <2>3. po[p].pc = "rmRead" /\ h.pc = "rmWrite" /\ h.id = i
      BY <1>11, <1>2, ConstantsTyped, Zenon DEF PostRemoveRead, Handler, Execution
    <2> HIDE DEF h
    <2>4. (Owes(h, ex[p]) <=> Owes(po[p], ex[p]))
      BY <1>2, <2>3, Zenon DEF Owes, PostOK
    <2>5. /\ acted' = [acted EXCEPT ![i] = acted[i]] /\ grants' = [grants EXCEPT ![i] = grants[i]]
          /\ ex' = [ex EXCEPT ![p] = ex[p]] /\ attrs' = [attrs EXCEPT ![i] = attrs[i]]
          /\ card' \in Timeline
          /\ UNCHANGED <<age, proc, rq, sw, shown, reminders, told>>
      BY <1>11, <1>2, <1>3, Zenon DEF PostRemoveRead, store, history, Timeline
    <2>6. HandlerMove(p, h, ex[p], i, attrs[i], acted[i], grants[i])
      BY <1>2, <1>3, <2>2, <2>3, <2>4, <2>5, ZenonT(30) DEF HandlerMove
    <2>7. /\ po'[p] = h /\ ex'[p] = ex[p] /\ attrs'[i] = attrs[i]
          /\ acted'[i] = acted[i] /\ grants'[i] = grants[i]
      BY <1>2, <2>6, ZenonT(30) DEF HandlerMove
    <2>8. PostOK(p)'
      BY <1>2, <1>4, <2>3, <2>6, <2>7, ZenonT(30) DEF PostOK, HandlerMove, proc
    <2>9. RequestOK(i)'
      BY <1>2, <1>4, <2>3, <2>6, <2>7, ZenonT(30)
      DEF RequestOK, Waiter, Submitted, Unreminded, PostOK, HandlerMove, proc
    <2> QED
      BY <1>2, <2>1, <2>6, <2>8, <2>9, HandlerFrame, Zenon
  <1>12. CASE PostRemoveRead(p) /\ card[i] = "none"
    <2> DEFINE h == [po[p] EXCEPT !.pc = "end"]
    <2>1. h \in Handler
      BY <1>12, <1>2, ConstantsTyped, Zenon DEF PostRemoveRead, Handler, PoPc, Execution, ExPc
    <2>2. po' = [po EXCEPT ![p] = h]
      BY <1>12, <1>2, <1>3, Zenon DEF PostRemoveRead
    <2>3. po[p].pc = "rmRead" /\ h.pc = "end" /\ h.id = i
      BY <1>12, <1>2, ConstantsTyped, Zenon DEF PostRemoveRead, Handler, Execution
    <2> HIDE DEF h
    <2>4. (Owes(h, ex[p]) <=> Owes(po[p], ex[p]))
      BY <1>2, <2>3, Zenon DEF Owes, PostOK
    <2>5. /\ acted' = [acted EXCEPT ![i] = acted[i]] /\ grants' = [grants EXCEPT ![i] = grants[i]]
          /\ ex' = [ex EXCEPT ![p] = ex[p]] /\ attrs' = [attrs EXCEPT ![i] = attrs[i]]
          /\ card' \in Timeline
          /\ UNCHANGED <<age, proc, rq, sw, shown, reminders, told>>
      BY <1>12, <1>2, <1>3, Zenon DEF PostRemoveRead, store, history, Timeline
    <2>6. HandlerMove(p, h, ex[p], i, attrs[i], acted[i], grants[i])
      BY <1>2, <1>3, <2>2, <2>3, <2>4, <2>5, Zenon DEF HandlerMove
    <2>7. /\ po'[p] = h /\ ex'[p] = ex[p] /\ attrs'[i] = attrs[i]
          /\ acted'[i] = acted[i] /\ grants'[i] = grants[i]
      BY <1>2, <2>6, ZenonT(30) DEF HandlerMove
    <2>8. PostOK(p)'
      BY <1>2, <1>4, <2>3, <2>6, <2>7, ZenonT(30) DEF PostOK, HandlerMove, proc
    <2>9. RequestOK(i)'
      BY <1>2, <1>4, <2>3, <2>6, <2>7, ZenonT(30)
      DEF RequestOK, Waiter, Submitted, Unreminded, PostOK, HandlerMove, proc
    <2> QED
      BY <1>2, <2>1, <2>6, <2>8, <2>9, HandlerFrame, Zenon
  <1>13. CASE PostRemoveWrite(p)
    <2> DEFINE h == [po[p] EXCEPT !.pc = "end", !.tl = NoCards]
    <2>1. h \in Handler
      BY <1>13, <1>2, ConstantsTyped, Zenon DEF PostRemoveWrite, Handler, PoPc, Execution, ExPc
    <2>2. po' = [po EXCEPT ![p] = h]
      BY <1>13, <1>2, <1>3, Zenon DEF PostRemoveWrite
    <2>3. po[p].pc = "rmWrite" /\ h.pc = "end" /\ h.id = i
      BY <1>13, <1>2, ConstantsTyped, Zenon DEF PostRemoveWrite, Handler, Execution
    <2> HIDE DEF h
    <2>4. (Owes(h, ex[p]) <=> Owes(po[p], ex[p]))
      BY <1>2, <2>3, Zenon DEF Owes, PostOK
    <2>5. /\ acted' = [acted EXCEPT ![i] = acted[i]] /\ grants' = [grants EXCEPT ![i] = grants[i]]
          /\ ex' = [ex EXCEPT ![p] = ex[p]] /\ attrs' = [attrs EXCEPT ![i] = attrs[i]]
          /\ card' \in Timeline
          /\ UNCHANGED <<age, proc, rq, sw, shown, reminders, told>>
      BY <1>13, <1>2, <1>3, Zenon DEF PostRemoveWrite, store, history, Timeline, Removed
    <2>6. HandlerMove(p, h, ex[p], i, attrs[i], acted[i], grants[i])
      BY <1>2, <1>3, <2>2, <2>3, <2>4, <2>5, ZenonT(30) DEF HandlerMove
    <2>7. /\ po'[p] = h /\ ex'[p] = ex[p] /\ attrs'[i] = attrs[i]
          /\ acted'[i] = acted[i] /\ grants'[i] = grants[i]
      BY <1>2, <2>6, ZenonT(30) DEF HandlerMove
    <2>8. PostOK(p)'
      BY <1>2, <1>4, <2>3, <2>6, <2>7, ZenonT(30) DEF PostOK, HandlerMove, proc
    <2>9. RequestOK(i)'
      BY <1>2, <1>4, <2>3, <2>6, <2>7, ZenonT(30)
      DEF RequestOK, Waiter, Submitted, Unreminded, PostOK, HandlerMove, proc
    <2> QED
      BY <1>2, <2>1, <2>6, <2>8, <2>9, HandlerFrame, Zenon
  <1>14. CASE ExecRun(p)
    <2> DEFINE x == [ex[p] EXCEPT !.pc = "outGet"]
    <2>1. x \in Execution
      BY <1>14, <1>2, ConstantsTyped, Zenon DEF ExecRun, Handler, PoPc, Execution, ExPc
    <2>2. ex' = [ex EXCEPT ![p] = x]
      BY <1>14, <1>2, <1>3, Zenon DEF ExecRun
    <2>3. ex[p].pc = "run" /\ x.pc = "outGet"
      BY <1>14, <1>2, ConstantsTyped, Zenon DEF ExecRun, Handler, Execution
    <2> HIDE DEF x
    <2>4. Owes(po[p], ex[p]) /\ ~Owes(po[p], x)
      BY <1>2, <2>3, Zenon DEF Owes, PostOK
    <2>5. /\ acted' = [acted EXCEPT ![i] = acted[i] + 1] /\ grants' = [grants EXCEPT ![i] = grants[i]]
          /\ po' = [po EXCEPT ![p] = po[p]] /\ attrs' = [attrs EXCEPT ![i] = attrs[i]]
          /\ card' \in Timeline
          /\ UNCHANGED <<age, proc, rq, sw, shown, reminders, told>>
      BY <1>14, <1>2, <1>3, Zenon DEF ExecRun, store, history, Timeline
    <2>6. HandlerMove(p, po[p], x, i, attrs[i], acted[i] + 1, grants[i])
      BY <1>2, <1>3, <2>2, <2>3, <2>4, <2>5, ZenonT(30) DEF HandlerMove
    <2>7. /\ po'[p] = po[p] /\ ex'[p] = x /\ attrs'[i] = attrs[i]
          /\ acted'[i] = acted[i] + 1 /\ grants'[i] = grants[i]
      BY <1>2, <2>6, ZenonT(30) DEF HandlerMove
    <2>8. PostOK(p)'
      BY <1>2, <1>4, <2>3, <2>6, <2>7, ZenonT(30) DEF PostOK, HandlerMove, proc
    <2>9. RequestOK(i)'
      BY <1>2, <1>4, <2>3, <2>6, <2>7, ZenonT(30)
      DEF RequestOK, Waiter, Submitted, Unreminded, PostOK, HandlerMove, proc
    <2> QED
      BY <1>2, <1>3, <2>1, <2>6, <2>8, <2>9, HandlerFrame, Zenon
  <1>15. CASE ExecOutGet(p) /\ Exists(i)
    <2> DEFINE x == [ex[p] EXCEPT !.pc = "outSet", !.loc = [attrs[i] EXCEPT !.output = TRUE]]
    <2>1. x \in Execution
      BY <1>15, <1>2, ConstantsTyped, Zenon
      DEF ExecOutGet, Handler, PoPc, Execution, ExPc, Entry, Unreminded
    <2>2. ex' = [ex EXCEPT ![p] = x]
      BY <1>15, <1>2, <1>3, Zenon DEF ExecOutGet, Entry, Unreminded
    <2>3. /\ ex[p].pc = "outGet" /\ x.pc = "outSet"
          /\ (Unreminded(x.loc) <=> Unreminded(attrs[i]))
      BY <1>15, <1>2, ConstantsTyped, Zenon DEF ExecOutGet, Handler, Execution, Entry, Unreminded
    <2> HIDE DEF x
    <2>4. (Owes(po[p], x) <=> Owes(po[p], ex[p]))
      BY <1>2, <2>3, Zenon DEF Owes, PostOK
    <2>5. /\ acted' = [acted EXCEPT ![i] = acted[i]] /\ grants' = [grants EXCEPT ![i] = grants[i]]
          /\ po' = [po EXCEPT ![p] = po[p]] /\ attrs' = [attrs EXCEPT ![i] = attrs[i]]
          /\ card' \in Timeline
          /\ UNCHANGED <<age, proc, rq, sw, shown, reminders, told>>
      BY <1>15, <1>2, <1>3, Zenon DEF ExecOutGet, store, history, Timeline
    <2>6. HandlerMove(p, po[p], x, i, attrs[i], acted[i], grants[i])
      BY <1>2, <1>3, <2>2, <2>3, <2>4, <2>5, ZenonT(30) DEF HandlerMove
    <2>7. /\ po'[p] = po[p] /\ ex'[p] = x /\ attrs'[i] = attrs[i]
          /\ acted'[i] = acted[i] /\ grants'[i] = grants[i]
      BY <1>2, <2>6, ZenonT(30) DEF HandlerMove
    <2>8. PostOK(p)'
      BY <1>2, <1>4, <2>3, <2>6, <2>7, ZenonT(30) DEF PostOK, HandlerMove, proc
    <2>9. RequestOK(i)'
      BY <1>2, <1>4, <2>3, <2>6, <2>7, ZenonT(30)
      DEF RequestOK, Waiter, Submitted, Unreminded, PostOK, HandlerMove, proc
    <2> QED
      BY <1>2, <2>1, <2>6, <2>8, <2>9, HandlerFrame, Zenon
  <1>16. CASE ExecOutGet(p) /\ ~Exists(i)
    <2> DEFINE x == [ex[p] EXCEPT !.pc = "apRead"]
    <2>1. x \in Execution
      BY <1>16, <1>2, ConstantsTyped, Zenon DEF ExecOutGet, Handler, PoPc, Execution, ExPc
    <2>2. ex' = [ex EXCEPT ![p] = x]
      BY <1>16, <1>2, <1>3, Zenon DEF ExecOutGet
    <2>3. ex[p].pc = "outGet" /\ x.pc = "apRead"
      BY <1>16, <1>2, ConstantsTyped, Zenon DEF ExecOutGet, Handler, Execution
    <2> HIDE DEF x
    <2>4. (Owes(po[p], x) <=> Owes(po[p], ex[p]))
      BY <1>2, <2>3, Zenon DEF Owes, PostOK
    <2>5. /\ acted' = [acted EXCEPT ![i] = acted[i]] /\ grants' = [grants EXCEPT ![i] = grants[i]]
          /\ po' = [po EXCEPT ![p] = po[p]] /\ attrs' = [attrs EXCEPT ![i] = attrs[i]]
          /\ card' \in Timeline
          /\ UNCHANGED <<age, proc, rq, sw, shown, reminders, told>>
      BY <1>16, <1>2, <1>3, Zenon DEF ExecOutGet, store, history, Timeline
    <2>6. HandlerMove(p, po[p], x, i, attrs[i], acted[i], grants[i])
      BY <1>2, <1>3, <2>2, <2>3, <2>4, <2>5, Zenon DEF HandlerMove
    <2>7. /\ po'[p] = po[p] /\ ex'[p] = x /\ attrs'[i] = attrs[i]
          /\ acted'[i] = acted[i] /\ grants'[i] = grants[i]
      BY <1>2, <2>6, ZenonT(30) DEF HandlerMove
    <2>8. PostOK(p)'
      BY <1>2, <1>4, <2>3, <2>6, <2>7, ZenonT(30) DEF PostOK, HandlerMove, proc
    <2>9. RequestOK(i)'
      BY <1>2, <1>4, <2>3, <2>6, <2>7, ZenonT(30)
      DEF RequestOK, Waiter, Submitted, Unreminded, PostOK, HandlerMove, proc
    <2> QED
      BY <1>2, <2>1, <2>6, <2>8, <2>9, HandlerFrame, Zenon
  <1>17. CASE ExecOutSet(p)
    <2> DEFINE x == [ex[p] EXCEPT !.pc = "apRead", !.loc = Absent]
    <2> DEFINE e == ex[p].loc
    <2>1. x \in Execution /\ e \in Entry
      BY <1>17, <1>2, ConstantsTyped, Zenon DEF ExecOutSet, Handler, PoPc, Execution, ExPc
    <2>2. ex' = [ex EXCEPT ![p] = x]
      BY <1>17, <1>2, <1>3, Zenon DEF ExecOutSet
    <2>3. attrs' = [attrs EXCEPT ![i] = e]
      BY <1>17, <1>1, Zenon DEF ExecOutSet
    <2>4. ex[p].pc = "outSet" /\ x.pc = "apRead" /\ e = ex[p].loc
      BY <1>17, <1>2, ConstantsTyped, Zenon DEF ExecOutSet, Handler, Execution
    <2> HIDE DEF x, e
    <2>5. (Owes(po[p], x) <=> Owes(po[p], ex[p]))
      BY <1>2, <2>4, Zenon DEF Owes, PostOK
    <2>6. /\ acted' = [acted EXCEPT ![i] = acted[i]] /\ grants' = [grants EXCEPT ![i] = grants[i]]
          /\ po' = [po EXCEPT ![p] = po[p]]
          /\ card' \in Timeline
          /\ UNCHANGED <<age, proc, rq, sw, shown, reminders, told>>
      BY <1>17, <1>2, <1>3, Zenon DEF ExecOutSet, store, history, Timeline
    <2>7. HandlerMove(p, po[p], x, i, e, acted[i], grants[i])
      BY <1>2, <1>3, <2>2, <2>4, <2>5, <2>6, <2>3, ZenonT(30) DEF HandlerMove
    <2>8. /\ po'[p] = po[p] /\ ex'[p] = x /\ attrs'[i] = e
          /\ acted'[i] = acted[i] /\ grants'[i] = grants[i]
      BY <1>2, <2>7, ZenonT(30) DEF HandlerMove
    <2>9. PostOK(p)'
      BY <1>2, <1>4, <2>4, <2>7, <2>8, ZenonT(30) DEF PostOK, HandlerMove, proc
    <2>10. RequestOK(i)'
      BY <1>2, <1>4, <2>4, <2>7, <2>8, ZenonT(30)
      DEF RequestOK, Waiter, Submitted, Unreminded, PostOK, HandlerMove, proc
    <2> QED
      BY <1>2, <2>1, <2>7, <2>9, <2>10, HandlerFrame, Zenon
  <1>18. CASE ExecAppendRead(p) /\ ex[p].pc = "apRead"
    <2> DEFINE x == [ex[p] EXCEPT !.pc = "apWrite", !.tl = card]
    <2>1. x \in Execution
      BY <1>18, <1>2, ConstantsTyped, Zenon DEF ExecAppendRead, Handler, PoPc, Execution, ExPc
    <2>2. ex' = [ex EXCEPT ![p] = x]
      BY <1>18, <1>2, <1>3, Zenon DEF ExecAppendRead
    <2>3. ex[p].pc = "apRead" /\ x.pc = "apWrite"
      BY <1>18, <1>2, ConstantsTyped, Zenon DEF ExecAppendRead, Handler, Execution
    <2> HIDE DEF x
    <2>4. (Owes(po[p], x) <=> Owes(po[p], ex[p]))
      BY <1>2, <2>3, Zenon DEF Owes, PostOK
    <2>5. /\ acted' = [acted EXCEPT ![i] = acted[i]] /\ grants' = [grants EXCEPT ![i] = grants[i]]
          /\ po' = [po EXCEPT ![p] = po[p]] /\ attrs' = [attrs EXCEPT ![i] = attrs[i]]
          /\ card' \in Timeline
          /\ UNCHANGED <<age, proc, rq, sw, shown, reminders, told>>
      BY <1>18, <1>2, <1>3, Zenon DEF ExecAppendRead, store, history, Timeline
    <2>6. HandlerMove(p, po[p], x, i, attrs[i], acted[i], grants[i])
      BY <1>2, <1>3, <2>2, <2>3, <2>4, <2>5, ZenonT(30) DEF HandlerMove
    <2>7. /\ po'[p] = po[p] /\ ex'[p] = x /\ attrs'[i] = attrs[i]
          /\ acted'[i] = acted[i] /\ grants'[i] = grants[i]
      BY <1>2, <2>6, ZenonT(30) DEF HandlerMove
    <2>8. PostOK(p)'
      BY <1>2, <1>4, <2>3, <2>6, <2>7, ZenonT(30) DEF PostOK, HandlerMove, proc
    <2>9. RequestOK(i)'
      BY <1>2, <1>4, <2>3, <2>6, <2>7, ZenonT(30)
      DEF RequestOK, Waiter, Submitted, Unreminded, PostOK, HandlerMove, proc
    <2> QED
      BY <1>2, <2>1, <2>6, <2>8, <2>9, HandlerFrame, Zenon
  <1>19. CASE ExecAppendRead(p) /\ ex[p].pc # "apRead"
    <2> DEFINE x == [ex[p] EXCEPT !.pc = "recWrite", !.tl = card]
    <2>1. x \in Execution
      BY <1>19, <1>2, ConstantsTyped, Zenon DEF ExecAppendRead, Handler, PoPc, Execution, ExPc
    <2>2. ex' = [ex EXCEPT ![p] = x]
      BY <1>19, <1>2, <1>3, Zenon DEF ExecAppendRead
    <2>3. ex[p].pc = "recRead" /\ x.pc = "recWrite"
      BY <1>19, <1>2, ConstantsTyped, Zenon DEF ExecAppendRead, Handler, Execution
    <2> HIDE DEF x
    <2>4. (Owes(po[p], x) <=> Owes(po[p], ex[p]))
      BY <1>2, <2>3, Zenon DEF Owes, PostOK
    <2>5. /\ acted' = [acted EXCEPT ![i] = acted[i]] /\ grants' = [grants EXCEPT ![i] = grants[i]]
          /\ po' = [po EXCEPT ![p] = po[p]] /\ attrs' = [attrs EXCEPT ![i] = attrs[i]]
          /\ card' \in Timeline
          /\ UNCHANGED <<age, proc, rq, sw, shown, reminders, told>>
      BY <1>19, <1>2, <1>3, Zenon DEF ExecAppendRead, store, history, Timeline
    <2>6. HandlerMove(p, po[p], x, i, attrs[i], acted[i], grants[i])
      BY <1>2, <1>3, <2>2, <2>3, <2>4, <2>5, ZenonT(30) DEF HandlerMove
    <2>7. /\ po'[p] = po[p] /\ ex'[p] = x /\ attrs'[i] = attrs[i]
          /\ acted'[i] = acted[i] /\ grants'[i] = grants[i]
      BY <1>2, <2>6, ZenonT(30) DEF HandlerMove
    <2>8. PostOK(p)'
      BY <1>2, <1>4, <2>3, <2>6, <2>7, ZenonT(30) DEF PostOK, HandlerMove, proc
    <2>9. RequestOK(i)'
      BY <1>2, <1>4, <2>3, <2>6, <2>7, ZenonT(30)
      DEF RequestOK, Waiter, Submitted, Unreminded, PostOK, HandlerMove, proc
    <2> QED
      BY <1>2, <2>1, <2>6, <2>8, <2>9, HandlerFrame, Zenon
  <1>20. CASE ExecAppendWrite(p)
    <2>1. PICK next \in {"recRead", "end"} : ex' = [ex EXCEPT ![p].pc = next, ![p].tl = NoCards]
      BY <1>20, Zenon DEF ExecAppendWrite
    <2> DEFINE x == [ex[p] EXCEPT !.pc = next, !.tl = NoCards]
    <2>2. x \in Execution
      BY <1>20, <1>2, ConstantsTyped, Zenon DEF ExecAppendWrite, Handler, PoPc, Execution, ExPc
    <2>3. ex' = [ex EXCEPT ![p] = x]
      BY <2>1, <1>2, <1>3, Zenon DEF ExecAppendWrite
    <2>4. ex[p].pc \in {"apWrite", "recWrite"} /\ x.pc \in {"recRead", "end"}
      BY <1>20, <1>2, ConstantsTyped, Zenon DEF ExecAppendWrite, Handler, Execution
    <2> HIDE DEF x
    <2>5. (Owes(po[p], x) <=> Owes(po[p], ex[p]))
      BY <1>2, <2>4, Zenon DEF Owes, PostOK
    <2>6. /\ acted' = [acted EXCEPT ![i] = acted[i]] /\ grants' = [grants EXCEPT ![i] = grants[i]]
          /\ po' = [po EXCEPT ![p] = po[p]] /\ attrs' = [attrs EXCEPT ![i] = attrs[i]]
          /\ card' \in Timeline
          /\ UNCHANGED <<age, proc, rq, sw, shown, reminders, told>>
      BY <1>20, <1>2, <1>3, Zenon DEF ExecAppendWrite, store, history, Timeline
    <2>7. HandlerMove(p, po[p], x, i, attrs[i], acted[i], grants[i])
      BY <1>2, <1>3, <2>3, <2>4, <2>5, <2>6, ZenonT(30) DEF HandlerMove
    <2>8. /\ po'[p] = po[p] /\ ex'[p] = x /\ attrs'[i] = attrs[i]
          /\ acted'[i] = acted[i] /\ grants'[i] = grants[i]
      BY <1>2, <2>7, ZenonT(30) DEF HandlerMove
    <2>9. PostOK(p)'
      BY <1>2, <1>4, <2>4, <2>7, <2>8, ZenonT(30) DEF PostOK, HandlerMove, proc
    <2>10. RequestOK(i)'
      BY <1>2, <1>4, <2>4, <2>7, <2>8, Zenon
      DEF RequestOK, Waiter, Submitted, Unreminded, PostOK, HandlerMove, proc
    <2> QED
      BY <1>2, <2>2, <2>7, <2>9, <2>10, HandlerFrame, Zenon
  <1> QED
    BY <1>5, <1>6, <1>7, <1>8, <1>9, <1>10, <1>11, <1>12, <1>13, <1>14, <1>15,
       <1>16, <1>17, <1>18, <1>19, <1>20, <1>2, Zenon
    DEF PoStep, ExStep, PostSet, PostTlRead, PostRemoveRead, Handler

(* Reading the entry of a shown card keeps the invariant.                  *)
LEMMA PostGetKeeps ==
  ASSUME FlowInv, NEW p \in Posts, NEW i \in Ids, NEW d \in Decisions, PostGet(p, i, d)
  PROVE  FlowInv'
  <1>1. /\ po \in [Posts -> Handler] /\ po[p] \in Handler
        /\ ex \in [Posts -> Execution] /\ ex[p] \in Execution
        /\ attrs \in [Ids -> Entry] /\ attrs[i] \in Entry /\ card \in Timeline
        /\ acted \in [Ids -> Nat] /\ grants \in [Ids -> Nat]
        /\ acted[i] \in Nat /\ grants[i] \in Nat
        /\ RequestOK(i) /\ PostOK(p) /\ d \in {"approved", "rejected"}
    BY ApprovalsAssumption, Zenon DEF FlowInv, TypeOK
  <1>2. /\ attrs = [attrs EXCEPT ![i] = attrs[i]] /\ acted = [acted EXCEPT ![i] = acted[i]]
        /\ grants = [grants EXCEPT ![i] = grants[i]] /\ ex = [ex EXCEPT ![p] = ex[p]]
    BY <1>1, Zenon
  <1>3. PICK h \in Handler : /\ po' = [po EXCEPT ![p] = h]
                             /\ h.pc \in {"rmRead", "del", "set"} /\ h.id = i
    <2>1. [IdlePo EXCEPT !.pc = "rmRead", !.id = i] \in Handler
      BY ConstantsTyped, Zenon DEF Handler, PoPc
    <2>2. [IdlePo EXCEPT !.pc = "del", !.id = i] \in Handler
      BY ConstantsTyped, Zenon DEF Handler, PoPc
    <2>3. [IdlePo EXCEPT !.pc = "set", !.id = i, !.dec = d, !.loc = attrs[i]] \in Handler
      BY <1>1, ConstantsTyped, Zenon DEF Handler, PoPc
    <2>4. CASE ~Exists(i)
      BY <2>1, <2>4, ConstantsTyped, Zenon DEF PostGet, Handler
    <2>5. CASE Exists(i) /\ ~IsPending(attrs[i])
      BY <2>2, <2>5, ConstantsTyped, ZenonT(30) DEF PostGet, Handler
    <2>6. CASE Exists(i) /\ IsPending(attrs[i])
      BY <2>3, <2>6, ConstantsTyped, ZenonT(30) DEF PostGet, Handler
    <2> QED
      BY <2>4, <2>5, <2>6, Zenon
  <1>4. po[p].pc = "idle" /\ i \in shown /\ ex[p].pc = "none"
    BY <1>1, Zenon DEF PostGet, PostOK
  <1>5. ~Owes(h, ex[p]) /\ ~Owes(po[p], ex[p])
    BY <1>3, <1>4, Zenon DEF Owes
  <1>6. /\ acted' = [acted EXCEPT ![i] = acted[i]] /\ grants' = [grants EXCEPT ![i] = grants[i]]
        /\ ex' = [ex EXCEPT ![p] = ex[p]] /\ attrs' = [attrs EXCEPT ![i] = attrs[i]]
        /\ card' \in Timeline
        /\ UNCHANGED <<age, proc, rq, sw, shown, reminders, told>>
    BY <1>1, <1>2, Zenon DEF PostGet, store, history
  <1>7. HandlerMove(p, h, ex[p], i, attrs[i], acted[i], grants[i])
    <2>1. \A n \in Nat : n >= n
      OBVIOUS
    <2> QED
      BY <1>1, <1>3, <1>5, <1>6, <2>1, Zenon DEF HandlerMove
  <1>8. /\ po'[p] = h /\ ex'[p] = ex[p] /\ attrs'[i] = attrs[i]
        /\ acted'[i] = acted[i] /\ grants'[i] = grants[i]
    BY <1>1, <1>7, Zenon DEF HandlerMove
  <1>9. PostOK(p)'
    BY <1>3, <1>4, <1>7, <1>8, Zenon DEF PostOK, HandlerMove
  <1>10. RequestOK(i)'
    BY <1>1, <1>7, <1>8, ZenonT(30) DEF RequestOK, Waiter, Submitted, HandlerMove, proc
  <1> QED
    BY <1>1, <1>3, <1>7, <1>9, <1>10, HandlerFrame, Zenon

(* Every step of the sweeper keeps the invariant.                          *)
LEMMA SweeperKeeps ==
  ASSUME FlowInv, SwStep
  PROVE  FlowInv'
  <1>1. /\ sw \in Sweeper /\ sw.id \in Ids /\ sw.loc \in Entry /\ sw.tl \in Timeline
        /\ sw.todo \subseteq Ids /\ card \in Timeline /\ told \subseteq Ids
        /\ attrs \in [Ids -> Entry] /\ reminders \in [Ids -> Nat] /\ age \in [Ids -> Ages]
        /\ rq \in [Ids -> Requester] /\ flow \in [Ids -> {"blocking", "async"}]
        /\ grants \in [Ids -> Nat] /\ acted \in [Ids -> Nat]
        /\ SweepOK /\ \A j \in Ids : RequestOK(j)
    BY HandlerFields, Zenon DEF FlowInv, TypeOK
  <1>2. \A j \in Ids : /\ attrs = [attrs EXCEPT ![j] = attrs[j]] /\ attrs[j] \in Entry
                       /\ reminders = [reminders EXCEPT ![j] = reminders[j]]
                       /\ reminders[j] \in Nat
    BY <1>1, Zenon
  <1>3. PICK k \in Ids : k = sw.id
    BY <1>1, Zenon
  (* A step that writes neither an entry nor a reminder.                    *)
  <1>4. ASSUME NEW s \in Sweeper, sw' = s, SweepOK', card' \in Timeline, told' \subseteq Ids,
               UNCHANGED <<attrs, reminders, age, proc, rq, po, ex, shown, grants, acted>>
        PROVE  FlowInv'
    <2>1. SweeperMove(s, k, attrs[k], reminders[k])
      BY <1>2, <1>4, Zenon DEF SweeperMove
    <2>2. RequestOK(k)'
      BY <1>1, <1>4, Zenon DEF RequestOK, Waiter, Submitted, proc
    <2> QED
      BY <1>2, <1>4, <2>1, <2>2, SweeperFrame, Zenon
  <1>5. CASE SweepTick
    <2> DEFINE s == [IdleSw EXCEPT !.pc = "escalate", !.now = age, !.todo = EscalateDue(attrs, age)]
    <2>1. s \in Sweeper
      BY <1>5, <1>1, ConstantsTyped, ApprovalsAssumption, Zenon
      DEF SweepTick, Sweeper, SwPc, EscalateDue
    <2>2. sw' = s /\ s.pc = "escalate"
      BY <1>5, <1>1, ConstantsTyped, ApprovalsAssumption, Zenon DEF SweepTick, Sweeper, EscalateDue
    <2> HIDE DEF s
    <2>3. SweepOK'
      BY <1>5, <1>1, <2>2, Zenon DEF SweepTick, SweepOK, store, history, proc
    <2>4. /\ card' \in Timeline /\ told' \subseteq Ids
          /\ UNCHANGED <<attrs, reminders, age, proc, rq, po, ex, shown, grants, acted>>
      BY <1>5, <1>1, Zenon DEF SweepTick, store, history
    <2> QED
      BY <1>4, <2>1, <2>2, <2>3, <2>4, Zenon
  <1>6. ASSUME NEW j \in Ids, SweepEscalateGet(j), Unreminded(attrs[j]) PROVE FlowInv'
    <2> DEFINE s == [sw EXCEPT !.pc = "escSet", !.todo = @ \ {j}, !.id = j,
                           !.loc = [attrs[j] EXCEPT !.escalated = TRUE]]
    <2>1. s \in Sweeper
      <3>1. [attrs[j] EXCEPT !.escalated = TRUE] \in Entry
        BY <1>2, Zenon DEF Entry
      <3>2. sw \in Sweeper /\ "escSet" \in SwPc /\ sw.todo \ {j} \in SUBSET Ids
        BY <1>1, Zenon DEF SwPc
      <3>3. ASSUME NEW d \in SUBSET Ids, NEW l \in Entry
            PROVE  [sw EXCEPT !.pc = "escSet", !.todo = d, !.id = j, !.loc = l] \in Sweeper
        BY <3>2, Zenon DEF Sweeper
      <3> QED
        BY <3>1, <3>2, <3>3, Zenon
    <2>2. sw' = s /\ s.pc = "escSet" /\ s.id = j
          /\ s.loc.status = "pending" /\ s.loc.escalated /\ Unreminded(attrs[j])
      BY <1>6, <1>1, ConstantsTyped, Zenon DEF SweepEscalateGet, Sweeper, Entry, Unreminded, IsPending
    <2> HIDE DEF s
    <2>3. RequestOK(j) /\ reminders[j] \in Nat /\ Unreminded(attrs[j])
      BY <1>1, <1>2, <2>2, Zenon
    <2>4. rq[j].pc # "idle"
      BY <2>3, Zenon DEF RequestOK, Unreminded
    <2>5. flow[j] = "async" => reminders[j] = 0
      BY <2>3 DEF RequestOK, Submitted
    <2>6. rq[j].pc # "idle" /\ (flow[j] = "async" => reminders[j] = 0)
      BY <2>4, <2>5, Zenon
    <2>7. /\ card' \in Timeline /\ told' \subseteq Ids
          /\ UNCHANGED <<attrs, reminders, age, proc, rq, po, ex, shown, grants, acted>>
      BY <1>6, <1>1, Zenon DEF SweepEscalateGet, store, history
    <2>8. SweepOK'
      BY <2>2, <2>7, <2>6, Zenon DEF SweepOK, proc
    <2> QED
      BY <1>4, <2>1, <2>2, <2>8, <2>7, Zenon
  <1>7. ASSUME NEW j \in Ids, SweepEscalateGet(j), ~Unreminded(attrs[j]) PROVE FlowInv'
    <2> DEFINE s == [sw EXCEPT !.todo = @ \ {j}]
    <2>1. s \in Sweeper
      BY <1>7, <1>1, ConstantsTyped, Zenon DEF SweepEscalateGet, Sweeper, SwPc, Unreminded, IsPending
    <2>2. sw' = s /\ s.pc = "escalate"
      BY <1>7, <1>1, ConstantsTyped, Zenon DEF SweepEscalateGet, Sweeper, Unreminded, IsPending
    <2> HIDE DEF s
    <2>3. SweepOK'
      BY <1>7, <1>1, <2>2, Zenon DEF SweepEscalateGet, SweepOK, store, history, proc
    <2>4. /\ card' \in Timeline /\ told' \subseteq Ids
          /\ UNCHANGED <<attrs, reminders, age, proc, rq, po, ex, shown, grants, acted>>
      BY <1>7, <1>1, Zenon DEF SweepEscalateGet, store, history
    <2> QED
      BY <1>4, <2>1, <2>2, <2>3, <2>4, Zenon
  <1>8. CASE SweepEscalateSet
    <2> DEFINE s == [sw EXCEPT !.pc = "escalate", !.id = AnId, !.loc = Absent]
    <2> DEFINE e == sw.loc
    <2>1. s \in Sweeper /\ e \in Entry
      BY <1>8, <1>1, ConstantsTyped, Zenon DEF SweepEscalateSet, Sweeper, SwPc
    <2>2. sw' = s /\ s.pc = "escalate" /\ e = sw.loc /\ sw.pc = "escSet"
      BY <1>8, <1>1, <1>3, ConstantsTyped, Zenon DEF SweepEscalateSet, Sweeper
    <2>3. attrs' = [attrs EXCEPT ![k] = e] /\ reminders' = [reminders EXCEPT ![k] = reminders[k] + 1]
      BY <1>8, <1>1, <1>2, <1>3, Zenon DEF SweepEscalateSet, history
    <2> HIDE DEF s, e
    <2>4. SweeperMove(s, k, e, reminders[k] + 1)
      BY <1>8, <1>1, <2>2, <2>3, ZenonT(30) DEF SweepEscalateSet, SweeperMove, history
    <2>5. attrs'[k] = e /\ reminders'[k] = reminders[k] + 1
      BY <1>1, <2>3, Zenon
    <2>6. SweepOK'
      BY <2>2, Zenon DEF SweepOK
    <2>7. /\ RequestOK(k) /\ rq[k].pc # "idle" /\ reminders[k] \in Nat
          /\ e.status = "pending" /\ e.escalated
          /\ flow[k] = "async" => reminders[k] = 0
      BY <1>1, <1>2, <1>3, <2>2, Zenon DEF SweepOK
    <2>8. /\ flow' = flow /\ rq' = rq /\ grants' = grants /\ acted' = acted /\ shown' = shown
      BY <2>4, Zenon DEF SweeperMove, proc
    <2>9. /\ reminders[k] + 1 \in Nat
          /\ flow[k] = "async" => reminders'[k] = 1 /\ reminders'[k] <= 1
      BY <2>5, <2>7
    <2>10. RequestOK(k)'
      <3>1. CASE flow[k] = "blocking"
        BY <2>5, <2>7, <2>8, <3>1, Zenon DEF RequestOK, Waiter
      <3>2. CASE flow[k] # "blocking"
        <4>1. rq[k].pc \in {"idle", "tlRead", "tlWrite", "end"} /\ reminders'[k] <= 1
          BY <1>1, <2>7, <2>9, <3>2, Zenon DEF RequestOK, Submitted
        <4>2. ~Unreminded(attrs'[k]) /\ attrs'[k].status # "approved"
          BY <2>5, <2>7, Zenon DEF Unreminded
        <4> QED
          BY <2>7, <2>8, <3>2, <4>1, <4>2, Zenon DEF RequestOK, Submitted
      <3> QED
        BY <3>1, <3>2, Zenon
    <2> QED
      BY <2>1, <2>4, <2>6, <2>9, <2>10, SweeperFrame, Zenon
  <1>9. CASE SweepExpireAll
    <2> DEFINE s == [sw EXCEPT !.pc = "expire", !.todo = ExpireDue(attrs, sw.now)]
    <2>1. s \in Sweeper
      BY <1>9, <1>1, ConstantsTyped, Zenon DEF SweepExpireAll, Sweeper, SwPc, ExpireDue
    <2>2. sw' = s /\ s.pc = "expire"
      BY <1>9, <1>1, ConstantsTyped, Zenon DEF SweepExpireAll, Sweeper, ExpireDue
    <2> HIDE DEF s
    <2>3. SweepOK'
      BY <1>9, <1>1, <2>2, Zenon DEF SweepExpireAll, SweepOK, store, history, proc
    <2>4. /\ card' \in Timeline /\ told' \subseteq Ids
          /\ UNCHANGED <<attrs, reminders, age, proc, rq, po, ex, shown, grants, acted>>
      BY <1>9, <1>1, Zenon DEF SweepExpireAll, store, history
    <2> QED
      BY <1>4, <2>1, <2>2, <2>3, <2>4, Zenon
  <1>10. ASSUME NEW j \in Ids, SweepExpireGet(j), Exists(j) PROVE FlowInv'
    <2> DEFINE s == [sw EXCEPT !.pc = "expSet", !.loc = PatchedEntry(attrs[j], "timed_out"),
                           !.todo = @ \ {j}, !.id = j]
    <2>1. s \in Sweeper
      BY <1>10, <1>1, ConstantsTyped, PatchedEntryTyped, ZenonT(30)
      DEF SweepExpireGet, Sweeper, SwPc, Exists, Statuses
    <2>2. sw' = s /\ s.pc = "expSet" /\ s.id = j
          /\ s.loc.status = "timed_out" /\ attrs[j].status # "none"
      BY <1>10, <1>1, ConstantsTyped, PatchedEntryTyped, Zenon
      DEF SweepExpireGet, Sweeper, Exists, Statuses
    <2> HIDE DEF s
    <2>3. rq[j].pc # "idle"
      BY <1>1, <2>2, Zenon DEF RequestOK
    <2>4. /\ card' \in Timeline /\ told' \subseteq Ids
          /\ UNCHANGED <<attrs, reminders, age, proc, rq, po, ex, shown, grants, acted>>
      BY <1>10, <1>1, Zenon DEF SweepExpireGet, store, history
    <2>5. SweepOK'
      BY <2>2, <2>4, <2>3, Zenon DEF SweepOK, proc
    <2> QED
      BY <1>4, <2>1, <2>2, <2>5, <2>4, Zenon
  <1>11. ASSUME NEW j \in Ids, SweepExpireGet(j), ~Exists(j) PROVE FlowInv'
    <2> DEFINE s == [sw EXCEPT !.pc = "expTlRead", !.loc = Absent, !.todo = @ \ {j}, !.id = j]
    <2>1. s \in Sweeper
      BY <1>11, <1>1, ConstantsTyped, Zenon DEF SweepExpireGet, Sweeper, SwPc
    <2>2. sw' = s /\ s.pc = "expTlRead"
      BY <1>11, <1>1, ConstantsTyped, Zenon DEF SweepExpireGet, Sweeper
    <2> HIDE DEF s
    <2>3. SweepOK'
      BY <1>11, <1>1, <2>2, Zenon DEF SweepExpireGet, SweepOK, store, history, proc
    <2>4. /\ card' \in Timeline /\ told' \subseteq Ids
          /\ UNCHANGED <<attrs, reminders, age, proc, rq, po, ex, shown, grants, acted>>
      BY <1>11, <1>1, Zenon DEF SweepExpireGet, store, history
    <2> QED
      BY <1>4, <2>1, <2>2, <2>3, <2>4, Zenon
  <1>12. CASE SweepExpireSet
    <2> DEFINE s == [sw EXCEPT !.pc = "expTlRead", !.loc = Absent]
    <2> DEFINE e == sw.loc
    <2>1. s \in Sweeper /\ e \in Entry
      BY <1>12, <1>1, ConstantsTyped, Zenon DEF SweepExpireSet, Sweeper, SwPc
    <2>2. sw' = s /\ s.pc = "expTlRead" /\ e = sw.loc /\ sw.pc = "expSet"
      BY <1>12, <1>1, <1>3, ConstantsTyped, Zenon DEF SweepExpireSet, Sweeper
    <2>3. attrs' = [attrs EXCEPT ![k] = e] /\ reminders' = [reminders EXCEPT ![k] = reminders[k]]
      BY <1>12, <1>1, <1>2, <1>3, Zenon DEF SweepExpireSet, history
    <2> HIDE DEF s, e
    <2>4. SweeperMove(s, k, e, reminders[k])
      BY <1>12, <1>1, <2>2, <2>3, ZenonT(30) DEF SweepExpireSet, SweeperMove, history
    <2>5. attrs'[k] = e /\ reminders'[k] = reminders[k]
      BY <1>1, <2>3, Zenon
    <2>6. SweepOK'
      BY <2>2, Zenon DEF SweepOK
    <2>7. RequestOK(k)'
      BY <1>1, <1>2, <1>3, <2>2, <2>4, <2>5, Zenon
      DEF RequestOK, Waiter, Submitted, Unreminded, SweepOK, SweeperMove, proc
    <2> QED
      BY <1>2, <2>1, <2>4, <2>6, <2>7, SweeperFrame, Zenon
  <1>13. CASE SweepExpireTlRead /\ card[sw.id] # "none"
    <2> DEFINE s == [sw EXCEPT !.pc = "expTlWrite", !.tl = card]
    <2>1. s \in Sweeper
      BY <1>13, <1>1, ConstantsTyped, Zenon DEF SweepExpireTlRead, Sweeper, SwPc
    <2>2. sw' = s /\ s.pc = "expTlWrite"
      BY <1>13, <1>1, ConstantsTyped, Zenon DEF SweepExpireTlRead, Sweeper
    <2> HIDE DEF s
    <2>3. SweepOK'
      BY <1>13, <1>1, <2>2, Zenon DEF SweepExpireTlRead, SweepOK, store, history, proc
    <2>4. /\ card' \in Timeline /\ told' \subseteq Ids
          /\ UNCHANGED <<attrs, reminders, age, proc, rq, po, ex, shown, grants, acted>>
      BY <1>13, <1>1, Zenon DEF SweepExpireTlRead, store, history
    <2> QED
      BY <1>4, <2>1, <2>2, <2>3, <2>4, Zenon
  <1>14. CASE (SweepExpireTlRead /\ card[sw.id] = "none") \/ SweepExpireTlWrite
    <2> DEFINE s == [sw EXCEPT !.pc = "expire", !.id = AnId, !.tl = NoCards]
    <2>1. s \in Sweeper
      BY <1>14, <1>1, ConstantsTyped, Zenon
      DEF SweepExpireTlRead, SweepExpireTlWrite, SweepExpired, Sweeper, SwPc
    <2>2. sw' = s /\ s.pc = "expire"
      BY <1>14, <1>1, ConstantsTyped, Zenon
      DEF SweepExpireTlRead, SweepExpireTlWrite, SweepExpired, Sweeper
    <2> HIDE DEF s
    <2>3. SweepOK'
      BY <1>14, <1>1, <2>2, Zenon
      DEF SweepExpireTlRead, SweepExpireTlWrite, SweepExpired, SweepOK, store, history, proc
    <2>4. Patched(sw.tl, sw.id, "timed_out") \in Timeline
      BY <1>1, PatchedTyped, ZenonT(30) DEF Statuses
    <2>5. /\ card' \in Timeline /\ told' \subseteq Ids
          /\ UNCHANGED <<attrs, reminders, age, proc, rq, po, ex, shown, grants, acted>>
      BY <1>14, <1>1, <2>4, Zenon
      DEF SweepExpireTlRead, SweepExpireTlWrite, SweepExpired, store, history
    <2> QED
      BY <1>4, <2>1, <2>2, <2>3, <2>5, Zenon
  <1>15. ASSUME NEW D \in PruneChoices(attrs, sw.now), SweepPruneAll,
              sw' = [sw EXCEPT !.pc = "prune", !.todo = D]
        PROVE FlowInv'
    <2> DEFINE s == [sw EXCEPT !.pc = "prune", !.todo = D]
    <2>1. s \in Sweeper
      BY <1>15, <1>1, ConstantsTyped, Zenon DEF SweepPruneAll, Sweeper, SwPc, PruneChoices
    <2>2. sw' = s /\ s.pc = "prune"
      BY <1>15, <1>1, ConstantsTyped, Zenon DEF SweepPruneAll, Sweeper, PruneChoices
    <2> HIDE DEF s
    <2>3. SweepOK'
      BY <1>15, <1>1, <2>2, Zenon DEF SweepPruneAll, SweepOK, store, history, proc
    <2>4. /\ card' \in Timeline /\ told' \subseteq Ids
          /\ UNCHANGED <<attrs, reminders, age, proc, rq, po, ex, shown, grants, acted>>
      BY <1>15, <1>1, Zenon DEF SweepPruneAll, store, history
    <2> QED
      BY <1>4, <2>1, <2>2, <2>3, <2>4, Zenon
  <1>16. ASSUME NEW j \in Ids, SweepDelete(j) PROVE FlowInv'
    <2> DEFINE s == [sw EXCEPT !.todo = @ \ {j}]
    <2> DEFINE e == Absent
    <2>1. s \in Sweeper /\ e \in Entry
      BY <1>16, <1>1, ConstantsTyped, Zenon DEF SweepDelete, Sweeper, SwPc, Absent
    <2>2. sw' = s /\ s.pc = "prune" /\ e.status = "none" /\ sw.pc = "prune"
      BY <1>16, <1>1, <1>3, ConstantsTyped, Zenon DEF SweepDelete, Sweeper, Absent
    <2>3. attrs' = [attrs EXCEPT ![j] = e] /\ reminders' = [reminders EXCEPT ![j] = reminders[j]]
      BY <1>16, <1>1, <1>2, <1>3, Zenon DEF SweepDelete, history
    <2> HIDE DEF s, e
    <2>4. SweeperMove(s, j, e, reminders[j])
      BY <1>16, <1>1, <2>2, <2>3, ZenonT(30) DEF SweepDelete, SweeperMove, history
    <2>5. attrs'[j] = e /\ reminders'[j] = reminders[j]
      BY <1>1, <2>3, Zenon
    <2>6. SweepOK'
      BY <2>2, Zenon DEF SweepOK
    <2>7. RequestOK(j)'
      BY <1>1, <1>2, <1>3, <2>2, <2>4, <2>5, Zenon
      DEF RequestOK, Waiter, Submitted, Unreminded, SweepOK, SweeperMove, proc
    <2> QED
      BY <1>2, <2>1, <2>4, <2>6, <2>7, SweeperFrame, Zenon
  <1>17. CASE SweepDone
    <2> DEFINE s == IdleSw
    <2>1. s \in Sweeper
      BY <1>17, <1>1, ConstantsTyped, ZenonT(30) DEF SweepDone, Sweeper, SwPc, IdleSw
    <2>2. sw' = s /\ s.pc = "idle"
      BY <1>17, <1>1, ConstantsTyped, Zenon DEF SweepDone, Sweeper, IdleSw
    <2> HIDE DEF s
    <2>3. SweepOK'
      BY <1>17, <1>1, <2>2, Zenon DEF SweepDone, SweepOK, store, history, proc
    <2>4. /\ card' \in Timeline /\ told' \subseteq Ids
          /\ UNCHANGED <<attrs, reminders, age, proc, rq, po, ex, shown, grants, acted>>
      BY <1>17, <1>1, Zenon DEF SweepDone, store, history
    <2> QED
      BY <1>4, <2>1, <2>2, <2>3, <2>4, Zenon
  <1> QED
    BY <1>5, <1>6, <1>7, <1>8, <1>9, <1>10, <1>11, <1>12, <1>13, <1>14, <1>15, <1>16, <1>17, Zenon
    DEF SwStep, SweepExpireTlRead, SweepPruneAll

(* Time, a signal, the end of the process and its restart keep the         *)
(* invariant: a restart finds every entry as it was and no goroutine.      *)
LEMMA EnvironmentKeeps ==
  ASSUME FlowInv, (\E i \in Ids : GrowOld(i)) \/ Shutdown \/ Exit \/ Restart
  PROVE  FlowInv'
  <1>1. CASE \E i \in Ids : GrowOld(i)
    <2> PICK i \in Ids : GrowOld(i)
      BY <1>1, Zenon
    <2>1. age' \in [Ids -> Ages]
      BY SMTT(30) DEF FlowInv, TypeOK, GrowOld, Ages, OldAge
    <2>2. UNCHANGED <<store, proc, rq, po, ex, sw, history>>
      BY ZenonT(30) DEF GrowOld
    <2>3. TypeOK'
      BY <2>1, <2>2, Zenon DEF FlowInv, TypeOK, store, proc, history
    <2> QED
      BY <2>2, <2>3, ZenonT(30) DEF FlowInv, RequestOK, Waiter, Submitted, Accounted, Owed,
                        PostOK, SweepOK, store, history, proc
  <1>2. CASE Shutdown \/ Restart
    <2>1. UNCHANGED <<flow, store, age, restarts, rq, po, ex, sw, history>>
      BY <1>2, Zenon DEF Shutdown, Restart
    <2>2. up' \in BOOLEAN /\ stopping' \in BOOLEAN
      BY <1>2, Zenon DEF Shutdown, Restart, FlowInv, TypeOK
    <2>3. TypeOK'
      BY <2>1, <2>2, Zenon DEF FlowInv, TypeOK, store, history
    <2> QED
      BY <2>1, <2>3, ZenonT(30) DEF FlowInv, RequestOK, Waiter, Submitted, Accounted,
                        Owed, PostOK, SweepOK, store, history
  <1>3. CASE Exit
    <2>1. TypeOK'
      <3>1. [IdlePo EXCEPT !.pc = "end"] \in Handler
        BY ConstantsTyped, Zenon DEF Handler, PoPc
      <3>2. rq' \in [Ids -> Requester] /\ ex' \in [Posts -> Execution] /\ sw' \in Sweeper
        BY <1>3, ConstantsTyped, Zenon DEF Exit
      <3>3. po' \in [Posts -> Handler]
        BY <1>3, <3>1, ConstantsTyped, Zenon DEF Exit
      <3>4. up' = FALSE /\ stopping' = FALSE /\ restarts' = restarts + 1
        BY <1>3, Zenon DEF Exit
      <3>5. restarts' \in Nat
        BY <3>4 DEF FlowInv, TypeOK
      <3>6. up' \in BOOLEAN /\ stopping' \in BOOLEAN /\ restarts' \in Nat
        BY <3>4, <3>5, Zenon
      <3>7. UNCHANGED <<flow, store, age, history>>
        BY <1>3, Zenon DEF Exit
      <3> QED
        BY <3>2, <3>3, <3>6, <3>7, Zenon DEF FlowInv, TypeOK, store, history
    <2>2. ASSUME NEW i \in Ids PROVE RequestOK(i)'
      <3>1. RequestOK(i) /\ acted[i] \in Nat
        BY Zenon DEF FlowInv, TypeOK
      <3>2. rq'[i].pc = IF rq[i].pc = "idle" THEN "idle" ELSE "end"
        BY <1>3, Zenon DEF Exit, IdleRq, EndRq
      <3> QED
        BY <1>3, <3>1, <3>2, Zenon DEF Exit, RequestOK, Waiter, Submitted, store, history
    <2>3. ASSUME NEW p \in Posts PROVE /\ po'[p].pc \in {"idle", "end"} /\ ex'[p].pc = "none"
      BY <1>3, Zenon DEF Exit, IdlePo, IdleEx
    <2>4. ASSUME NEW i \in Ids PROVE Accounted(i)'
      <3>1. Owed(i)' = {}
        BY <2>3, Zenon DEF Owed, Owes
      <3>2. acted[i] \in Nat /\ grants[i] \in Nat /\ Accounted(i)
        BY Zenon DEF FlowInv, TypeOK
      <3>3. IsFiniteSet(Owed(i)) => Cardinality(Owed(i)) \in Nat
        BY FS_CardinalityType, Zenon
      <3>4. IsFiniteSet({}) /\ Cardinality({}) = 0
        BY FS_EmptySet, Zenon
      <3> QED
        BY <1>3, <3>1, <3>2, <3>3, <3>4 DEF Accounted, Exit, history
    <2>5. ASSUME NEW p \in Posts PROVE PostOK(p)'
      BY <2>3, Zenon DEF PostOK
    <2>6. SweepOK'
      BY <1>3, Zenon DEF Exit, IdleSw, SweepOK
    <2> QED
      BY <2>1, <2>2, <2>4, <2>5, <2>6, Zenon DEF FlowInv
  <1> QED
    BY <1>1, <1>2, <1>3, Zenon

(* Every step keeps the invariant.                                         *)
LEMMA FlowStep == FlowInv /\ [Next]_vars => FlowInv'
  <1> SUFFICES ASSUME FlowInv, [Next]_vars PROVE FlowInv'
    BY Zenon
  <1>1. CASE UNCHANGED vars
    <2> USE <1>1 DEF vars
    <2>1. TypeOK'
      BY Zenon DEF FlowInv, TypeOK
    <2>2. \A i \in Ids : RequestOK(i)'
      BY Zenon DEF FlowInv, RequestOK, Waiter, Submitted
    <2>3. \A i \in Ids : Accounted(i)'
      BY Zenon DEF FlowInv, Accounted, Owed
    <2>4. \A p \in Posts : PostOK(p)'
      BY Zenon DEF FlowInv, PostOK
    <2>5. SweepOK'
      BY Zenon DEF FlowInv, SweepOK
    <2> QED
      BY <2>1, <2>2, <2>3, <2>4, <2>5, Zenon DEF FlowInv
  <1>2. CASE Next
    BY <1>2, RequesterKeeps, PostGetKeeps, HandlerKeeps, SweeperKeeps, EnvironmentKeeps, Zenon DEF Next
  <1> QED
    BY <1>1, <1>2, Zenon

(* The invariant of the approval flow holds in every state: for every      *)
(* request filed through createPending, with any number of decision        *)
(* requests, sweeps, timeouts, crashes and restarts.                       *)
THEOREM FlowInvariant == Spec => []FlowInv
  <1>1. Init => FlowInv
    <2> SUFFICES ASSUME Init PROVE FlowInv
      BY Zenon
    <2>1. age \in [Ids -> Ages]
      BY DEF Init, Ages
    <2>2. up \in BOOLEAN /\ stopping \in BOOLEAN /\ age \in [Ids -> Ages]
      BY <2>1, Zenon DEF Init
    <2>3. TypeOK
      BY <2>2, ConstantsTyped, Zenon DEF Init, TypeOK
    <2>4. ASSUME NEW i \in Ids PROVE RequestOK(i)
      BY SMTT(30) DEF Init, RequestOK, Waiter, Submitted, Absent, IdleRq
    <2>5. ASSUME NEW i \in Ids PROVE Accounted(i)
      <3>1. Owed(i) = {}
        BY Zenon DEF Init, Owed, Owes, IdlePo, IdleEx
      <3> QED
        BY <3>1, FS_EmptySet DEF Init, Accounted
    <2>6. ASSUME NEW p \in Posts PROVE PostOK(p)
      BY Zenon DEF Init, PostOK, IdlePo, IdleEx
    <2>7. SweepOK
      BY Zenon DEF Init, SweepOK, IdleSw
    <2> QED
      BY <2>3, <2>4, <2>5, <2>6, <2>7, Zenon DEF FlowInv
  <1> QED
    BY <1>1, FlowStep, PTL DEF Spec

(* The patch skill applies the patches of a blocking request at most once. *)
THEOREM PatchesAppliedOnce == Spec => []BlockingActsOnce
  <1>1. FlowInv => BlockingActsOnce
    BY Zenon DEF FlowInv, RequestOK, Waiter, BlockingActsOnce, Blocking
  <1> QED
    BY <1>1, FlowInvariant, PTL

(* markEscalated lets at most one reminder of an asynchronous request out. *)
THEOREM OneReminder == Spec => []AsyncReminderOnce
  <1>1. FlowInv => AsyncReminderOnce
    BY Zenon DEF FlowInv, TypeOK, RequestOK, Submitted, AsyncReminderOnce, Blocking
  <1> QED
    BY <1>1, FlowInvariant, PTL

(* No action is carried out without an approval of its own.                *)
LEMMA GateHolds == FlowInv => ActedOnlyWhenApproved
  <1> SUFFICES ASSUME FlowInv, NEW i \in Ids PROVE acted[i] <= grants[i]
    BY Zenon DEF ActedOnlyWhenApproved
  <1>1. /\ acted[i] \in Nat /\ grants[i] \in Nat /\ RequestOK(i) /\ Accounted(i)
        /\ flow[i] \in {"blocking", "async"}
    BY Zenon DEF FlowInv, TypeOK
  <1>2. CASE flow[i] = "async"
    <2>1. IsFiniteSet(Owed(i)) /\ acted[i] + Cardinality(Owed(i)) <= grants[i]
      BY <1>1, <1>2, Zenon DEF Accounted
    <2>2. Cardinality(Owed(i)) \in Nat
      BY <2>1, FS_CardinalityType, Zenon
    <2> QED
      BY <1>1, <2>1, <2>2, SMTT(30)
  <1>3. CASE flow[i] = "blocking"
    BY <1>1, <1>3 DEF RequestOK, Waiter
  <1> QED
    BY <1>1, <1>2, <1>3, Zenon

(* A requesting goroutine that has filed its request does not file it      *)
(* again, and no step of the others does.                                  *)
LEMMA FiledStays ==
  ASSUME FlowInv, NEW i \in Ids, RqStep(i)
  PROVE  {j \in Ids : rq'[j].pc # "idle"} = {j \in Ids : rq[j].pc # "idle"}
  <1>1. rq \in [Ids -> Requester]
    BY Zenon DEF FlowInv, TypeOK
  <1>2. rq[i].pc # "idle" /\ rq'[i].pc # "idle"
    <2>1. CASE RqTlRead(i) \/ RqPatchSet(i) \/ RqEscalateSet(i) \/ RqPoll(i)
      BY <1>1, <2>1, Zenon DEF RqTlRead, RqPatchSet, RqEscalateSet, RqPoll, Requester
    <2>2. CASE RqTlWrite(i) \/ RqAct(i)
      BY <1>1, <2>2, ZenonT(30) DEF RqTlWrite, RqAct, EndRq, IdleRq
    <2>3. CASE RqCancel(i) \/ RqTimeout(i)
      <3>1. PICK l, x : /\ rq[i].pc = "wait"
                        /\ \/ rq' = [rq EXCEPT ![i] = [@ EXCEPT !.pc = "patchSet", !.loc = l, !.res = x]]
                           \/ rq' = [rq EXCEPT ![i] = [@ EXCEPT !.pc = "patchTlRead", !.loc = l, !.res = x]]
        BY <2>3, Zenon DEF RqCancel, RqTimeout, RqPatchGet
      <3> QED
        BY <1>1, <3>1, ZenonT(30) DEF Requester
    <2>4. CASE RqEscalateGet(i)
      BY <1>1, <2>4, Zenon DEF RqEscalateGet, Requester
    <2>5. CASE RqPatchTlRead(i) \/ RqPatchTlWrite(i)
      BY <1>1, <2>5, Zenon DEF RqPatchTlRead, RqPatchTlWrite, Returned, EndRq, IdleRq, Requester
    <2> QED
      BY <2>1, <2>2, <2>3, <2>4, <2>5, Zenon DEF RqStep
  <1>3. ASSUME NEW j \in Ids, j # i PROVE rq'[j] = rq[j]
    BY <1>1, <1>3, Zenon DEF RqStep, RqTlRead, RqTlWrite, RqCancel, RqTimeout, RqPatchGet, RqPatchSet,
       RqEscalateGet, RqEscalateSet, RqPoll, RqPatchTlRead, RqPatchTlWrite, Returned, RqAct
  <1> QED
    BY <1>2, <1>3, Zenon

(* The initial states and the steps of the flow are those of the abstract  *)
(* gate: createPending files, a stored approval grants, and the patch      *)
(* skill's third phase and executeApproved act; every other step changes   *)
(* nothing the gate sees.                                                  *)
LEMMA GateStep ==
  ASSUME FlowInv, FlowInv', [Next]_vars
  PROVE  [Gate!GateNext]_(Gate!gateVars)
  <1> DEFINE filed == {j \in Ids : rq[j].pc # "idle"}
  <1>1. /\ rq \in [Ids -> Requester] /\ acted \in [Ids -> Nat] /\ grants \in [Ids -> Nat]
        /\ \A j \in Ids : acted[j] \in Nat /\ grants[j] \in Nat /\ acted'[j] \in Nat /\ grants'[j] \in Nat
        /\ \A j \in Ids : acted[j] <= grants[j] /\ acted'[j] <= grants'[j]
    <2>1. ActedOnlyWhenApproved /\ ActedOnlyWhenApproved'
      BY GateHolds, FlowInv, FlowInv', PTL
    <2> QED
      BY <2>1, Zenon DEF FlowInv, TypeOK, ActedOnlyWhenApproved
  <1>2. ASSUME UNCHANGED <<rq, grants, acted>> PROVE UNCHANGED Gate!gateVars
    BY <1>2, Zenon DEF Gate!gateVars
  <1>3. ASSUME NEW i \in Ids, RqCreate(i) PROVE Gate!File(i)
    <2>1. rq[i].pc = "idle" /\ rq'[i].pc = "tlRead" /\ \A j \in Ids \ {i} : rq'[j] = rq[j]
      BY <1>1, <1>3, Zenon DEF RqCreate, Requester
    <2>2. filed' = filed \cup {i} /\ i \notin filed
      BY <2>1, Zenon
    <2> QED
      BY <1>3, <2>2, Zenon DEF Gate!File, RqCreate, history
  <1>4. ASSUME NEW i \in Ids, RqAct(i) PROVE Gate!Act(i)
    <2>1. filed' = filed
      BY <1>4, FiledStays, Zenon DEF RqStep
    <2>2. acted[i] < grants[i]
      <3>1. acted'[i] = acted[i] + 1 /\ grants' = grants
        BY <1>1, <1>4, Zenon DEF RqAct
      <3> QED
        BY <1>1, <3>1
    <2> QED
      BY <1>4, <2>1, <2>2, Zenon DEF Gate!Act, RqAct
  <1>5. ASSUME NEW i \in Ids, RqStep(i), ~RqAct(i) PROVE UNCHANGED Gate!gateVars
    <2>1. filed' = filed
      BY <1>5, FiledStays, Zenon
    <2>2. UNCHANGED <<grants, acted>>
      BY <1>5, Zenon DEF RqStep, RqTlRead, RqTlWrite, RqCancel, RqTimeout, RqPatchGet, RqPatchSet,
         RqEscalateGet, RqEscalateSet, RqPoll, RqPatchTlRead, RqPatchTlWrite, history
    <2> QED
      BY <2>1, <2>2, Zenon DEF Gate!gateVars
  <1>6. ASSUME NEW p \in Posts, PostSet(p), po[p].dec = "approved"
        PROVE  \E i \in Ids : Gate!Grant(i)
    <2>1. po[p].id \in Ids /\ PostOK(p) /\ RequestOK(po[p].id)
      BY Zenon DEF FlowInv, TypeOK, Handler
    <2>2. po[p].id \in filed
      BY <1>6, <2>1, Zenon DEF PostOK, RequestOK, PostSet
    <2>3. filed' = filed /\ acted' = acted /\ grants' = [grants EXCEPT ![po[p].id] = @ + 1]
      BY <1>6, Zenon DEF PostSet
    <2>4. Gate!Grant(po[p].id)
      BY <2>2, <2>3, Zenon DEF Gate!Grant
    <2> QED
      BY <2>1, <2>4, Zenon
  <1>7. ASSUME NEW p \in Posts, ExecRun(p) PROVE \E i \in Ids : Gate!Act(i)
    <2>1. po[p].id \in Ids
      BY Zenon DEF FlowInv, TypeOK, Handler
    <2>2. filed' = filed /\ grants' = grants /\ acted' = [acted EXCEPT ![po[p].id] = @ + 1]
      BY <1>7, Zenon DEF ExecRun
    <2>3. acted[po[p].id] < grants[po[p].id]
      <3>1. acted'[po[p].id] = acted[po[p].id] + 1
        BY <1>1, <2>1, <2>2, Zenon
      <3> QED
        BY <1>1, <2>1, <2>2, <3>1, SMTT(30)
    <2>4. Gate!Act(po[p].id)
      BY <2>2, <2>3, Zenon DEF Gate!Act
    <2> QED
      BY <2>1, <2>4, Zenon
  <1>8. ASSUME NEW p \in Posts, PoStep(p) \/ ExStep(p),
               ~(PostSet(p) /\ po[p].dec = "approved"), ~ExecRun(p)
        PROVE  UNCHANGED <<rq, grants, acted>>
    BY <1>8, ZenonT(30) DEF PoStep, ExStep, PostSet, PostTlRead, PostTlWrite, PostDelete, PostRemoveRead,
       PostRemoveWrite, ExecOutGet, ExecOutSet, ExecAppendRead, ExecAppendWrite, history
  <1>9. ASSUME SwStep PROVE UNCHANGED <<rq, grants, acted>>
    BY <1>9, Zenon
    DEF SwStep, SweepTick, SweepEscalateGet, SweepExpireGet, SweepDelete, SweepEscalateSet,
       SweepExpireAll, SweepExpireSet, SweepExpireTlRead, SweepExpireTlWrite, SweepPruneAll,
       SweepDone, history
  <1>10. ASSUME Exit PROVE UNCHANGED Gate!gateVars
    <2>1. \A j \in Ids : rq'[j].pc = "idle" <=> rq[j].pc = "idle"
      BY <1>10, Zenon DEF Exit, IdleRq, EndRq
    <2>2. filed' = filed
      BY <2>1, Zenon
    <2> QED
      BY <1>10, <2>2, Zenon DEF Gate!gateVars, Exit, history
  <1>11. ASSUME (\E i \in Ids : GrowOld(i)) \/ Shutdown \/ Restart \/ UNCHANGED vars
                \/ \E p \in Posts, i \in Ids, d \in Decisions : PostGet(p, i, d)
         PROVE  UNCHANGED <<rq, grants, acted>>
    BY <1>11, Zenon DEF GrowOld, Shutdown, Restart, PostGet, vars, history
  <1> QED
    BY <1>2, <1>3, <1>4, <1>5, <1>6, <1>7, <1>8, <1>9, <1>10, <1>11, ZenonT(30) DEF Next, Gate!GateNext

(* The approval flow implements HumanGate: an action that needs approval   *)
(* is carried out at most once per approval stored by the decision         *)
(* handler, and only filed requests are approved.                          *)
THEOREM GateImplemented == Spec => ImplementsGate
  <1>1. Init => Gate!GateInit
    BY DEF Init, IdleRq, Gate!GateInit
  <1>2. FlowInv /\ FlowInv' /\ [Next]_vars => [Gate!GateNext]_(Gate!gateVars)
    BY GateStep, Zenon
  <1> QED
    BY <1>1, <1>2, FlowInvariant, PTL DEF Spec, ImplementsGate, Gate!GateSpec

(* No proposed action is carried out more often than it was approved.      *)
THEOREM ApprovedBeforeActing == Spec => []ActedOnlyWhenApproved
  BY GateHolds, FlowInvariant, PTL
=============================================================================
