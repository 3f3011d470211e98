---------------------------- MODULE GatewayProofs ----------------------------
(***************************************************************************)
(* Proofs about the gateway, for any set of requests and any capacities:   *)
(* the inductive invariant of module Gateway, and from it the accounting,  *)
(* dispatch and response properties that TLC checks on small instances.    *)
(***************************************************************************)
EXTENDS Gateway, FiniteSetTheorems, SequenceTheorems, TLAPS

(* The initial state satisfies the inductive invariant.                    *)
LEMMA InitInductive == Init => Inductive
  <1> SUFFICES ASSUME Init PROVE Inductive
    OBVIOUS
  <1>1. TypeOK
    BY GatewayAssumption DEF Init, TypeOK, HandlerPc, ForwardPc
  <1>2. QueuesDistinct
    BY DEF Init, QueuesDistinct, QueuedReqs, Elems
  <1>3. ASSUME NEW r \in Reqs PROVE Accounted(r) /\ Placed(r) /\ Answering(r)
    BY SMTT(30) DEF Init, Accounted, NobodyWon, Incremented, Placed, Answering
  <1> QED
    BY <1>1, <1>2, <1>3 DEF Inductive

(* A step of one handler that leaves the channels alone.                   *)
LEMMA HandlerType ==
  ASSUME TypeOK, NEW r \in Reqs, Handler(r) \/ Disconnect(r) \/ Reject(r)
  PROVE  TypeOK'
  <1> USE DEF TypeOK, dispatchVars, tally, HandlerPc
  <1>1. CASE IncrPending(r)
    BY <1>1 DEF IncrPending
  <1>2. CASE WaitDone(r)
    BY <1>2 DEF WaitDone
  <1>3. CASE WaitCancelled(r)
    BY <1>3 DEF WaitCancelled
  <1>4. CASE HandlerCas(r)
    BY <1>4 DEF HandlerCas
  <1>5. CASE HandlerDecr(r)
    BY <1>5 DEF HandlerDecr, DecrPending
  <1>6. CASE HandlerGhost(r)
    BY <1>6 DEF HandlerGhost
  <1>7. CASE Disconnect(r)
    BY <1>7 DEF Disconnect
  <1>8. CASE Reject(r)
    BY SMTT(30), <1>8 DEF Reject
  <1> QED
    BY Zenon, <1>1, <1>2, <1>3, <1>4, <1>5, <1>6, <1>7, <1>8 DEF Handler

(* What the invariant says of a request a step does not touch.             *)
Untouched(q) ==
    /\ hpc'[q] = hpc[q] /\ fpc'[q] = fpc[q] /\ gone'[q] = gone[q]
    /\ cancelled'[q] = cancelled[q] /\ decremented'[q] = decremented[q]
    /\ closed'[q] = closed[q] /\ written'[q] = written[q]
    /\ pend'[q] = pend[q] /\ ghost'[q] = ghost[q]

(* The per-request part of the invariant depends on that request only.     *)
LEMMA UntouchedKeeps ==
  ASSUME NEW q \in Reqs, Accounted(q), Placed(q), Answering(q), Untouched(q)
  PROVE  Accounted(q)' /\ Placed(q)' /\ Answering(q)'
  BY SMTT(30) DEF Untouched, Accounted, NobodyWon, HandlerWon, ForwardWon, Incremented, Placed, Answering

(* A step of one handler, or of its client, keeps the invariant.           *)
LEMMA HandlerInductive ==
  ASSUME Inductive, NEW r \in Reqs, Handler(r) \/ Disconnect(r) \/ Reject(r)
  PROVE  Inductive'
  <1>1. TypeOK'
    BY SMTT(30), HandlerType DEF Inductive
  <1> USE DEF Handler, Disconnect, Reject, IncrPending, WaitDone, WaitCancelled, HandlerCas,
              HandlerDecr, HandlerGhost, DecrPending, dispatchVars, tally
  <1>2. /\ priorityQueue' = priorityQueue /\ queue' = queue /\ fpc' = fpc
        /\ \A q \in Reqs \ {r} : hpc'[q] = hpc[q]
        /\ hpc[r] = "idle" <=> hpc'[r] \in {"idle", "rejected"}
    BY SMTT(30) DEF Inductive, TypeOK
  <1>3. QueuesDistinct'
    BY SMTT(30), <1>2 DEF Inductive, TypeOK, QueuesDistinct, QueuedReqs, Elems
  <1>4. Accounted(r)'
    <2> USE DEF Inductive, TypeOK, Incremented, Placed
    <2>1. CASE NobodyWon(r)
      BY SMTT(30), <2>1 DEF NobodyWon, HandlerWon, Accounted
    <2>2. CASE HandlerWon(r)
      BY SMTT(30), <2>2 DEF HandlerWon, Accounted
    <2>3. CASE ForwardWon(r)
      BY SMTT(30), <2>3 DEF ForwardWon, Accounted
    <2> QED BY SMTT(30), <2>1, <2>2, <2>3 DEF Accounted
  <1>5. Placed(r)' /\ Answering(r)'
    BY SMTT(30) DEF Inductive, TypeOK, Placed, Answering, HandlerPc, ForwardPc
  <1>6. \A q \in Reqs \ {r} : Untouched(q)
    BY SMTT(30) DEF Inductive, TypeOK, Untouched
  <1> QED
    BY SMTT(30), <1>1, <1>3, <1>4, <1>5, <1>6, UntouchedKeeps DEF Inductive

(* A step of one forward goroutine keeps the types.                        *)
LEMMA ForwardType ==
  ASSUME TypeOK, NEW r \in Reqs, Forward(r), sem > 0 \/ fpc[r] # "release"
  PROVE  TypeOK'
  <1> USE DEF TypeOK, dispatchVars, handlerVars, tally, ForwardPc
  <1>1. CASE ForwardStart(r)
    BY <1>1 DEF ForwardStart
  <1>2. CASE BuildFails(r)
    BY <1>2 DEF BuildFails
  <1>3. CASE CallFails(r)
    BY Zenon, <1>3 DEF CallFails
  <1>4. CASE CallAnswers(r)
    BY <1>4 DEF CallAnswers
  <1>5. CASE StreamEnds(r)
    BY <1>5 DEF StreamEnds
  <1>6. CASE RecordOutcome(r)
    BY <1>6 DEF RecordOutcome
  <1>7. CASE ForwardCas(r)
    BY <1>7 DEF ForwardCas
  <1>8. CASE ForwardDecr(r)
    BY <1>8 DEF ForwardDecr, DecrPending
  <1>9. CASE ForwardGhost(r)
    BY <1>9 DEF ForwardGhost
  <1>10. CASE CloseDone(r)
    BY <1>10 DEF CloseDone
  <1>11. CASE Release(r)
    BY SMTT(30), <1>11, GatewayAssumption DEF Release
  <1> QED
    BY Zenon, <1>1, <1>2, <1>3, <1>4, <1>5, <1>6, <1>7, <1>8, <1>9, <1>10, <1>11 DEF Forward

(* A step of one forward goroutine keeps the invariant.                    *)
LEMMA ForwardInductive ==
  ASSUME Inductive, NEW r \in Reqs, Forward(r), sem > 0 \/ fpc[r] # "release"
  PROVE  Inductive'
  <1>1. TypeOK'
    BY SMTT(30), ForwardType DEF Inductive
  <1> USE DEF Forward, ForwardStart, BuildFails, CallFails, CallAnswers, StreamEnds,
              RecordOutcome, ForwardCas, ForwardDecr, ForwardGhost, CloseDone, Release,
              DecrPending, dispatchVars, handlerVars, tally
  <1>2. /\ priorityQueue' = priorityQueue /\ queue' = queue /\ hpc' = hpc
        /\ \A q \in Reqs \ {r} : fpc'[q] = fpc[q]
        /\ fpc[r] # "none"
    BY SMTT(30) DEF Inductive, TypeOK
  <1>3. QueuesDistinct'
    BY SMTT(30), <1>2 DEF Inductive, TypeOK, QueuesDistinct, QueuedReqs, Elems
  <1>4. Accounted(r)'
    <2> USE DEF Inductive, TypeOK, Incremented, Placed
    <2>1. CASE NobodyWon(r)
      BY SMTT(30), <2>1 DEF NobodyWon, ForwardWon, Accounted
    <2>2. CASE HandlerWon(r)
      BY SMTT(30), <2>2 DEF HandlerWon, Accounted
    <2>3. CASE ForwardWon(r)
      BY SMTT(30), <2>3 DEF ForwardWon, Accounted
    <2> QED BY SMTT(30), <2>1, <2>2, <2>3 DEF Accounted
  <1>5. Placed(r)' /\ Answering(r)'
    BY SMTT(30) DEF Inductive, TypeOK, Placed, Answering, HandlerPc, ForwardPc
  <1>6. \A q \in Reqs \ {r} : Untouched(q)
    BY SMTT(30) DEF Inductive, TypeOK, Untouched
  <1> QED
    BY Zenon, <1>1, <1>3, <1>4, <1>5, <1>6, UntouchedKeeps DEF Inductive

(* A send adds one element at the end of a channel.                        *)
LEMMA AppendElems ==
  ASSUME NEW q \in Seq(Reqs), NEW r \in Reqs, r \notin Elems(q),
         \A j, k \in DOMAIN q : q[j] = q[k] => j = k
  PROVE  /\ Append(q, r) \in Seq(Reqs)
         /\ Elems(Append(q, r)) = Elems(q) \cup {r}
         /\ \A j, k \in DOMAIN Append(q, r) : Append(q, r)[j] = Append(q, r)[k] => j = k
  <1> DEFINE t == Append(q, r)
  <1>1. Len(q) \in Nat /\ DOMAIN q = 1..Len(q)
    OBVIOUS
  <1>2. /\ t \in Seq(Reqs)
        /\ Len(t) = Len(q) + 1
        /\ \A k \in 1..Len(q) : t[k] = q[k]
        /\ t[Len(q) + 1] = r
    BY SMTT(30), AppendProperties
  <1>3. DOMAIN t = 1..(Len(q) + 1)
    BY <1>1, <1>2
  <1> HIDE DEF t
  <1>4. \A k \in DOMAIN t : k \in DOMAIN q \/ k = Len(q) + 1
    BY <1>1, <1>3
  <1>5. /\ \A k \in DOMAIN q : k \in DOMAIN t /\ t[k] = q[k] /\ q[k] \in Elems(q)
        /\ Len(q) + 1 \in DOMAIN t
    BY <1>1, <1>2, <1>3 DEF Elems
  <1>6. ASSUME NEW j \in DOMAIN t, NEW k \in DOMAIN t, t[j] = t[k] PROVE j = k
    BY <1>2, <1>4, <1>5, <1>6
  <1>7. ASSUME NEW x PROVE x \in Elems(t) <=> x \in Elems(q) \cup {r}
    <2>1. ASSUME x \in Elems(t) PROVE x \in Elems(q) \cup {r}
      <3>1. PICK k \in DOMAIN t : x = t[k]
        BY <2>1 DEF Elems
      <3> QED BY <3>1, <1>2, <1>4, <1>5
    <2>2. ASSUME x \in Elems(q) PROVE x \in Elems(t)
      <3>1. PICK k \in DOMAIN q : x = q[k]
        BY <2>2 DEF Elems
      <3> QED BY <3>1, <1>5 DEF Elems
    <2>3. r \in Elems(t)
      BY <1>2, <1>5 DEF Elems
    <2> QED BY <2>1, <2>2, <2>3
  <1> QED
    BY Zenon, <1>2, <1>6, <1>7 DEF t

(* A receive removes the head, and only the head, of a channel.            *)
LEMMA TailElems ==
  ASSUME NEW q \in Seq(Reqs), q # <<>>,
         \A j, k \in DOMAIN q : q[j] = q[k] => j = k
  PROVE  /\ Tail(q) \in Seq(Reqs) /\ Head(q) \in Reqs
         /\ Head(q) \in Elems(q)
         /\ Elems(Tail(q)) = Elems(q) \ {Head(q)}
         /\ \A j, k \in DOMAIN Tail(q) : Tail(q)[j] = Tail(q)[k] => j = k
  <1> DEFINE t == Tail(q)
  <1>1. /\ Len(q) \in Nat \ {0} /\ DOMAIN q = 1..Len(q)
        /\ Head(q) = q[1] /\ t \in Seq(Reqs)
        /\ DOMAIN t = 1..(Len(q) - 1)
        /\ \A k \in 1..(Len(q) - 1) : t[k] = q[k + 1]
    OBVIOUS
  <1> HIDE DEF t
  <1>2. /\ 1 \in DOMAIN q
        /\ \A k \in DOMAIN t : k \in Int /\ k + 1 \in DOMAIN q /\ k + 1 # 1
        /\ \A k \in DOMAIN q : k = 1 \/ (k - 1 \in DOMAIN t /\ t[k - 1] = q[k])
    BY <1>1
  <1>3. ASSUME NEW j \in DOMAIN t, NEW k \in DOMAIN t, t[j] = t[k] PROVE j = k
    <2>1. j + 1 = k + 1
      BY <1>1, <1>2, <1>3
    <2> QED BY <2>1, <1>2
  <1>4. ASSUME NEW x PROVE x \in Elems(t) <=> x \in Elems(q) \ {Head(q)}
    <2>1. ASSUME x \in Elems(t) PROVE x \in Elems(q) \ {Head(q)}
      <3>1. PICK k \in DOMAIN t : x = t[k]
        BY <2>1 DEF Elems
      <3>2. x = q[k + 1] /\ k + 1 \in DOMAIN q
        BY <3>1, <1>1, <1>2
      <3>3. q[k + 1] # q[1]
        BY <3>1, <1>2
      <3> QED BY <3>2, <3>3, <1>1 DEF Elems
    <2>2. ASSUME x \in Elems(q), x # Head(q) PROVE x \in Elems(t)
      <3>1. PICK k \in DOMAIN q : x = q[k]
        BY <2>2 DEF Elems
      <3>2. k # 1
        BY <3>1, <2>2, <1>1
      <3> QED BY <3>1, <3>2, <1>2 DEF Elems
    <2> QED BY <2>1, <2>2
  <1>5. Head(q) \in Elems(q) /\ Head(q) \in Reqs
    BY <1>1, <1>2 DEF Elems
  <1> QED
    BY <1>1, <1>3, <1>4, <1>5 DEF t

(* Accepting a request keeps the invariant: it was nowhere before.         *)
LEMMA EnqueueInductive ==
  ASSUME Inductive, NEW r \in Reqs, Enqueue(r)
  PROVE  Inductive'
  <1> USE DEF Enqueue, tally
  <1>1. r \notin QueuedReqs /\ fpc[r] = "none" /\ hpc'[r] = "incr"
    BY DEF Inductive, TypeOK, QueuesDistinct, Placed
  <1>2. /\ hpc' \in [Reqs -> HandlerPc]
        /\ \A q \in Reqs \ {r} : hpc'[q] = hpc[q]
    BY DEF Inductive, TypeOK, HandlerPc
  <1>3. ASSUME r \in Interactive PROVE TypeOK' /\ QueuesDistinct'
    <2>1. priorityQueue' = Append(priorityQueue, r) /\ queue' = queue
      BY SMTT(30), <1>3
    <2>2. /\ priorityQueue' \in Seq(Reqs)
          /\ Elems(priorityQueue') = Elems(priorityQueue) \cup {r}
          /\ \A j, k \in DOMAIN priorityQueue' :
                priorityQueue'[j] = priorityQueue'[k] => j = k
      BY Zenon, <2>1, <1>1, AppendElems DEF Inductive, TypeOK, QueuesDistinct, QueuedReqs
    <2>3. TypeOK' /\ QueuesDistinct'
      BY SMTT(30), <2>1, <2>2, <1>1, <1>2, <1>3 DEF Inductive, TypeOK, QueuesDistinct, QueuedReqs, Elems
    <2> QED BY <2>3
  <1>4. ASSUME r \notin Interactive PROVE TypeOK' /\ QueuesDistinct'
    <2>1. queue' = Append(queue, r) /\ priorityQueue' = priorityQueue
      BY SMTT(30), <1>4
    <2>2. /\ queue' \in Seq(Reqs)
          /\ Elems(queue') = Elems(queue) \cup {r}
          /\ \A j, k \in DOMAIN queue' : queue'[j] = queue'[k] => j = k
      BY Zenon, <2>1, <1>1, AppendElems DEF Inductive, TypeOK, QueuesDistinct, QueuedReqs
    <2>3. TypeOK' /\ QueuesDistinct'
      BY SMTT(30), <2>1, <2>2, <1>1, <1>2, <1>4 DEF Inductive, TypeOK, QueuesDistinct, QueuedReqs, Elems
    <2> QED BY <2>3
  <1>5. Accounted(r)' /\ Placed(r)' /\ Answering(r)'
    BY Zenon, <1>1 DEF Inductive, TypeOK, Accounted, NobodyWon, HandlerWon, ForwardWon, Incremented,
           Placed, Answering
  <1>6. \A q \in Reqs \ {r} : Untouched(q)
    BY DEF Inductive, TypeOK, Untouched
  <1> QED
    BY SMTT(30), <1>3, <1>4, <1>5, <1>6, UntouchedKeeps DEF Inductive

(* Taking the head of a channel keeps the invariant.                       *)
LEMMA LaunchInductive ==
  ASSUME Inductive, NEW r \in Reqs, r \in QueuedReqs, Launch(r),
         TypeOK', QueuesDistinct',
         UNCHANGED <<handlerVars, decremented, was, success, closed, written, tally>>
  PROVE  Inductive'
  <1>1. fpc[r] = "none" /\ hpc[r] \notin {"idle", "rejected"}
    BY DEF Inductive, QueuesDistinct
  <1>2. Accounted(r)' /\ Placed(r)' /\ Answering(r)'
    <2>1. fpc'[r] = "start"
      BY SMTT(30) DEF Launch, Inductive, TypeOK
    <2>2. Accounted(r)'
      BY SMTT(30), <1>1, <2>1 DEF Inductive, Accounted, NobodyWon, HandlerWon, ForwardWon, Incremented,
             handlerVars, tally
    <2>3. Placed(r)' /\ Answering(r)'
      BY SMTT(30), <1>1, <2>1 DEF Inductive, Placed, Answering, handlerVars, tally
    <2> QED BY <2>2, <2>3
  <1>3. \A q \in Reqs \ {r} : Untouched(q)
    BY <1>1 DEF Inductive, TypeOK, Untouched, Launch, handlerVars, tally
  <1> QED
    BY <1>2, <1>3, UntouchedKeeps DEF Inductive

(* A step of the dispatcher keeps the invariant.                           *)
LEMMA DispatcherInductive ==
  ASSUME Inductive, Dispatcher
  PROVE  Inductive'
  <1>1. CASE TakePriority
    <2> DEFINE r == Head(priorityQueue)
    <2>1. /\ r \in Elems(priorityQueue) /\ r \in Reqs
          /\ priorityQueue' \in Seq(Reqs)
          /\ Elems(priorityQueue') = Elems(priorityQueue) \ {r}
          /\ \A j, k \in DOMAIN priorityQueue' :
                priorityQueue'[j] = priorityQueue'[k] => j = k
      BY Zenon, <1>1, TailElems DEF TakePriority, Inductive, TypeOK, QueuesDistinct
    <2>2. Launch(r) /\ queue' = queue
      BY <1>1 DEF TakePriority
    <2>3. r \notin Elems(queue)
      BY <2>1 DEF Inductive, QueuesDistinct
    <2> HIDE DEF r
    <2>4. TypeOK'
      BY <1>1, <2>1, <2>2 DEF TakePriority, Launch, Inductive, TypeOK, ForwardPc, handlerVars, tally
    <2>5. QueuesDistinct'
      <3>1. \A q \in QueuedReqs' : q \in QueuedReqs /\ q # r
        BY SMTT(30), <2>1, <2>2, <2>3 DEF QueuedReqs
      <3>2. \A q \in QueuedReqs' : fpc'[q] = fpc[q] /\ hpc'[q] = hpc[q]
        BY SMTT(30), <1>1, <2>2, <3>1 DEF TakePriority, Launch, Inductive, TypeOK, handlerVars
      <3> QED
        BY <2>1, <2>2, <3>1, <3>2 DEF Inductive, QueuesDistinct
    <2> QED
      BY SMTT(30), <1>1, <2>1, <2>2, <2>4, <2>5, LaunchInductive DEF TakePriority, QueuedReqs
  <1>2. CASE TakeNormal
    <2> DEFINE r == Head(queue)
    <2>1. /\ r \in Elems(queue) /\ r \in Reqs
          /\ queue' \in Seq(Reqs)
          /\ Elems(queue') = Elems(queue) \ {r}
          /\ \A j, k \in DOMAIN queue' : queue'[j] = queue'[k] => j = k
      BY Zenon, <1>2, TailElems DEF TakeNormal, Inductive, TypeOK, QueuesDistinct
    <2>2. Launch(r) /\ priorityQueue' = priorityQueue
      BY <1>2 DEF TakeNormal
    <2>3. r \notin Elems(priorityQueue)
      BY <2>1 DEF Inductive, QueuesDistinct
    <2> HIDE DEF r
    <2>4. TypeOK'
      BY <1>2, <2>1, <2>2 DEF TakeNormal, Launch, Inductive, TypeOK, ForwardPc, handlerVars, tally
    <2>5. QueuesDistinct'
      <3>1. \A q \in QueuedReqs' : q \in QueuedReqs /\ q # r
        BY <2>1, <2>2, <2>3 DEF QueuedReqs
      <3>2. \A q \in QueuedReqs' : fpc'[q] = fpc[q] /\ hpc'[q] = hpc[q]
        BY <1>2, <2>2, <3>1 DEF TakeNormal, Launch, Inductive, TypeOK, handlerVars
      <3> QED
        BY <2>1, <2>2, <3>1, <3>2 DEF Inductive, QueuesDistinct
    <2> QED
      BY SMTT(30), <1>2, <2>1, <2>2, <2>4, <2>5, LaunchInductive DEF TakeNormal, QueuedReqs
  <1>3. CASE Acquire \/ NoPriority
    <2>1. TypeOK'
      BY SMTT(30), <1>3, GatewayAssumption DEF Acquire, NoPriority, Inductive, TypeOK, Elems, handlerVars, tally
    <2>2. QueuesDistinct'
      BY SMTT(30), <1>3 DEF Acquire, NoPriority, Inductive, QueuesDistinct, QueuedReqs, Elems, handlerVars
    <2>3. \A q \in Reqs : Untouched(q)
      BY <1>3 DEF Acquire, NoPriority, Untouched, handlerVars, tally
    <2> QED
      BY SMTT(30), <2>1, <2>2, <2>3, UntouchedKeeps DEF Inductive
  <1> QED
    BY <1>1, <1>2, <1>3 DEF Dispatcher

-----------------------------------------------------------------------------
(* The semaphore.  Finitely many requests are being forwarded at any time, *)
(* and the slots in use are theirs and the dispatcher's.                   *)
Slots == IsFiniteSet(ForwardRunning) /\ SlotsAccountedFor

(* A goroutine that reaches its release holds a slot.                      *)
LEMMA RunningHoldsSlot ==
  ASSUME TypeOK, Slots, NEW r \in Reqs, fpc[r] \notin {"none", "end"}
  PROVE  sem > 0
  <1>1. r \in ForwardRunning
    BY DEF ForwardRunning
  <1>2. Cardinality(ForwardRunning) \in Nat /\ Cardinality(ForwardRunning) # 0
    BY SMTT(30), <1>1, FS_CardinalityType, FS_EmptySet DEF Slots
  <1> QED
    BY <1>2 DEF Slots, SlotsAccountedFor, TypeOK

\* A step of forward between the start of its goroutine and its release.
Continues(r) ==
    /\ fpc[r] \notin {"none", "end"} /\ sem' = sem /\ dpc' = dpc
    /\ \E p \in ForwardPc \ {"none", "end"} : fpc' = [fpc EXCEPT ![r] = p]

LEMMA ForwardContinues ==
  ASSUME NEW r \in Reqs, Forward(r)
  PROVE  Continues(r) \/ Release(r)
  <1>1. CASE ForwardStart(r)
    BY <1>1, Zenon DEF ForwardStart, Continues, ForwardPc, dispatchVars
  <1>2. CASE BuildFails(r)
    BY <1>2, Zenon DEF BuildFails, Continues, ForwardPc, dispatchVars
  <1>3. CASE CallFails(r)
    BY <1>3, Zenon DEF CallFails, Continues, ForwardPc, dispatchVars
  <1>4. CASE CallAnswers(r)
    BY <1>4, Zenon DEF CallAnswers, Continues, ForwardPc, dispatchVars
  <1>5. CASE StreamEnds(r)
    BY <1>5, Zenon DEF StreamEnds, Continues, ForwardPc, dispatchVars
  <1>6. CASE RecordOutcome(r)
    BY <1>6, Zenon DEF RecordOutcome, Continues, ForwardPc, dispatchVars
  <1>7. CASE ForwardCas(r)
    BY <1>7, Zenon DEF ForwardCas, Continues, ForwardPc, dispatchVars
  <1>8. CASE ForwardDecr(r)
    BY <1>8, Zenon DEF ForwardDecr, Continues, ForwardPc, dispatchVars
  <1>9. CASE ForwardGhost(r)
    BY <1>9, Zenon DEF ForwardGhost, Continues, ForwardPc, dispatchVars
  <1>10. CASE CloseDone(r)
    BY <1>10, Zenon DEF CloseDone, Continues, ForwardPc, dispatchVars
  <1> QED
    BY <1>1, <1>2, <1>3, <1>4, <1>5, <1>6, <1>7, <1>8, <1>9, <1>10, Zenon DEF Forward

(* forward keeps its slot on every path and gives it back at the end.      *)
LEMMA ForwardSlots ==
  ASSUME Inductive, Slots, NEW r \in Reqs, Forward(r)
  PROVE  Slots'
  <1>1. fpc \in [Reqs -> ForwardPc] /\ sem \in Int
    BY DEF Inductive, TypeOK
  <1>2. IsFiniteSet(ForwardRunning) /\ Cardinality(ForwardRunning) \in Nat
    BY FS_CardinalityType, Zenon DEF Slots
  <1>3. CASE Release(r)
    <2>1. fpc[r] = "release" /\ sem' = sem - 1 /\ dpc' = dpc /\ fpc' = [fpc EXCEPT ![r] = "end"]
      BY <1>3, Zenon DEF Release
    <2>2. r \in ForwardRunning /\ ForwardRunning' = ForwardRunning \ {r}
      BY <1>1, <2>1 DEF ForwardRunning
    <2>3. /\ IsFiniteSet(ForwardRunning')
          /\ Cardinality(ForwardRunning') = Cardinality(ForwardRunning) - 1
      BY <1>2, <2>2, FS_RemoveElement, Zenon
    <2> QED
      BY <1>1, <1>2, <2>1, <2>3 DEF Slots, SlotsAccountedFor
  <1>4. CASE Continues(r)
    <2>1. sem' = sem /\ dpc' = dpc
      BY <1>4, Zenon DEF Continues
    <2>2. ForwardRunning' = ForwardRunning
      BY <1>1, <1>4 DEF ForwardRunning, Continues
    <2> QED
      BY <2>1, <2>2, Zenon DEF Slots, SlotsAccountedFor
  <1> QED
    BY <1>3, <1>4, ForwardContinues, Zenon

(* The dispatcher acquires a slot and hands it to one new goroutine.       *)
LEMMA DispatcherSlots ==
  ASSUME Inductive, Slots, Dispatcher
  PROVE  Slots'
  <1>1. CASE Acquire \/ NoPriority
    <2>1. ForwardRunning' = ForwardRunning
      BY <1>1 DEF Acquire, NoPriority, ForwardRunning
    <2>2. Cardinality(ForwardRunning) \in Nat
      BY FS_CardinalityType DEF Slots
    <2> QED
      BY <1>1, <2>1, <2>2 DEF Acquire, NoPriority, Slots, SlotsAccountedFor, Inductive, TypeOK
  <1>2. ASSUME NEW r \in Reqs, fpc[r] = "none", Launch(r), sem' = sem, dpc # "acquire"
        PROVE  Slots'
    <2>1. r \notin ForwardRunning /\ ForwardRunning' = ForwardRunning \cup {r}
      BY <1>2 DEF Launch, ForwardRunning, Inductive, TypeOK
    <2>2. /\ IsFiniteSet(ForwardRunning')
          /\ Cardinality(ForwardRunning') = Cardinality(ForwardRunning) + 1
          /\ Cardinality(ForwardRunning) \in Nat
      BY <2>1, FS_AddElement, FS_CardinalityType DEF Slots
    <2> QED
      BY SMTT(30), <1>2, <2>2 DEF Launch, Slots, SlotsAccountedFor, Inductive, TypeOK
  <1>3. CASE TakePriority
    <2>1. Head(priorityQueue) \in Reqs /\ Head(priorityQueue) \in QueuedReqs
      BY SMTT(30), <1>3, TailElems DEF TakePriority, Inductive, TypeOK, QueuesDistinct, QueuedReqs
    <2> QED
      BY SMTT(30), <1>2, <1>3, <2>1 DEF TakePriority, Inductive, QueuesDistinct
  <1>4. CASE TakeNormal
    <2>1. Head(queue) \in Reqs /\ Head(queue) \in QueuedReqs
      BY <1>4, TailElems DEF TakeNormal, Inductive, TypeOK, QueuesDistinct, QueuedReqs
    <2> QED
      BY SMTT(30), <1>2, <1>4, <2>1 DEF TakeNormal, Inductive, QueuesDistinct
  <1> QED
    BY <1>1, <1>3, <1>4 DEF Dispatcher

(* Handlers and clients do not touch the semaphore.                        *)
LEMMA HandlerSlots ==
  ASSUME Slots, NEW r \in Reqs,
         Enqueue(r) \/ Reject(r) \/ Disconnect(r) \/ Handler(r)
  PROVE  Slots'
  <1>1. sem' = sem /\ dpc' = dpc /\ fpc' = fpc
    BY DEF Enqueue, Reject, Disconnect, Handler, IncrPending, WaitDone, WaitCancelled,
           HandlerCas, HandlerDecr, HandlerGhost, dispatchVars
  <1> QED
    BY SMTT(30), <1>1 DEF Slots, SlotsAccountedFor, ForwardRunning

(* The inductive invariant of the gateway: type correctness, at most one   *)
(* place per request, the accounting by winner of the compare-and-swap,    *)
(* who has been answered, and the semaphore.                               *)
THEOREM GatewayInvariant == Spec => [](Inductive /\ Slots)
  <1>1. Init => Inductive /\ Slots
    <2> SUFFICES ASSUME Init PROVE Slots
      BY InitInductive
    <2>1. ForwardRunning = {}
      BY DEF Init, ForwardRunning
    <2> QED
      BY <2>1, FS_EmptySet DEF Slots, SlotsAccountedFor, Init
  <1>2. Inductive /\ Slots /\ [Next]_vars => (Inductive /\ Slots)'
    <2> SUFFICES ASSUME Inductive, Slots, [Next]_vars PROVE (Inductive /\ Slots)'
      OBVIOUS
    <2>1. ASSUME NEW r \in Reqs, Enqueue(r) PROVE (Inductive /\ Slots)'
      BY <2>1, EnqueueInductive, HandlerSlots
    <2>2. ASSUME NEW r \in Reqs, Reject(r) \/ Disconnect(r) \/ Handler(r)
          PROVE  (Inductive /\ Slots)'
      BY <2>2, HandlerInductive, HandlerSlots
    <2>3. ASSUME NEW r \in Reqs, Forward(r) PROVE (Inductive /\ Slots)'
      BY <2>3, RunningHoldsSlot, ForwardInductive, ForwardSlots DEF Inductive
    <2>4. CASE Dispatcher
      BY <2>4, DispatcherInductive, DispatcherSlots
    <2>5. CASE UNCHANGED vars
      <3>1. Slots'
        BY SMTT(30), <2>5 DEF vars, Slots, SlotsAccountedFor, ForwardRunning
      <3>2. TypeOK' /\ QueuesDistinct'
        BY SMTT(30), <2>5 DEF vars, Inductive, TypeOK, QueuesDistinct, QueuedReqs, Elems
      <3>3. \A q \in Reqs : Untouched(q)
        BY <2>5 DEF vars, Untouched
      <3> QED
        BY <3>1, <3>2, <3>3, UntouchedKeeps DEF Inductive
    <2> QED
      BY <2>1, <2>2, <2>3, <2>4, <2>5 DEF Next
  <1> QED
    BY <1>1, <1>2, PTL DEF Spec

(* Type correctness of the gateway.                                        *)
THEOREM GatewayTypes == Spec => []TypeOK
  BY GatewayInvariant, PTL DEF Inductive

(* forward and the dispatcher never leak or share a slot of the semaphore, *)
(* whatever the number of requests and the concurrency limit.              *)
THEOREM NoSlotLeaks == Spec => []SlotsAccountedFor
  BY GatewayInvariant, PTL DEF Slots

(* The compare-and-swap of pendingDecremented balances the pending and the *)
(* ghost counters of every request, in every interleaving of the handler   *)
(* with forward.                                                           *)
THEOREM CountersAlwaysSettle == Spec => []CountersSettle
  <1>1. Inductive => CountersSettle
    BY SMTT(30) DEF Inductive, CountersSettle, Finished, Accounted, NobodyWon, HandlerWon, ForwardWon,
           Incremented
  <1> QED
    BY <1>1, GatewayInvariant, PTL

(* No request is forwarded twice.                                          *)
THEOREM NothingDispatchedTwice == Spec => []DispatchedOnce
  <1>1. Inductive => DispatchedOnce
    BY SMTT(30) DEF Inductive, DispatchedOnce, QueuesDistinct, QueuedReqs
  <1> QED
    BY <1>1, GatewayInvariant, PTL

(* A client that has not disconnected is answered before its handler       *)
(* returns.                                                                *)
THEOREM ConnectedAlwaysAnswered == Spec => []ConnectedClientAnswered
  <1>1. Inductive => ConnectedClientAnswered
    BY DEF Inductive, ConnectedClientAnswered, Answering, Placed
  <1> QED
    BY <1>1, GatewayInvariant, PTL

-----------------------------------------------------------------------------
(* The dispatcher's choice.  What it saw at its last Acquire had arrived,  *)
(* and by stage 2 none of it is left.                                      *)
SeenBeforeSlot ==
    /\ \A r \in slotSeen : hpc[r] # "idle"
    /\ dpc = "stage2" => slotSeen \cap Elems(priorityQueue) = {}

(* Every step keeps the dispatcher's view: only an idle request arrives,   *)
(* and stage 2 begins with an empty priority channel.                      *)
LEMMA SeenStep ==
  ASSUME Inductive, SeenBeforeSlot, [Next]_vars
  PROVE  SeenBeforeSlot'
  <1>1. ASSUME NEW r \in Reqs, Enqueue(r) PROVE SeenBeforeSlot'
    <2>1. r \notin slotSeen /\ slotSeen' = slotSeen /\ dpc' = dpc
      BY <1>1 DEF Enqueue, SeenBeforeSlot
    <2>2. Elems(priorityQueue') \subseteq Elems(priorityQueue) \cup {r}
      <3>1. r \notin Elems(priorityQueue)
        BY <1>1 DEF Enqueue, Inductive, QueuesDistinct, QueuedReqs
      <3>2. Elems(Append(priorityQueue, r)) = Elems(priorityQueue) \cup {r}
        BY <3>1, AppendElems DEF Inductive, TypeOK, QueuesDistinct
      <3>3. priorityQueue' = priorityQueue \/ priorityQueue' = Append(priorityQueue, r)
        BY <1>1 DEF Enqueue
      <3> QED BY Zenon, <3>2, <3>3
    <2>3. \A q \in slotSeen : hpc'[q] # "idle"
      BY <1>1, <2>1 DEF Enqueue, SeenBeforeSlot, Inductive, TypeOK
    <2> QED
      BY <2>1, <2>2, <2>3 DEF SeenBeforeSlot
  <1>2. ASSUME NEW r \in Reqs, Reject(r) \/ Disconnect(r) \/ Handler(r) PROVE SeenBeforeSlot'
    <2>1. UNCHANGED dispatchVars
      BY SMTT(30), <1>2 DEF Reject, Disconnect, Handler, IncrPending, WaitDone, WaitCancelled, HandlerCas,
           HandlerDecr, HandlerGhost
    <2>2. \A q \in Reqs : hpc[q] # "idle" => hpc'[q] # "idle"
      <3>1. CASE Reject(r)
        BY <3>1 DEF Reject, Inductive, TypeOK
      <3>2. CASE Disconnect(r)
        BY SMTT(30), <3>2 DEF Disconnect
      <3>3. CASE IncrPending(r) \/ WaitDone(r) \/ WaitCancelled(r)
        BY SMTT(30), <3>3 DEF IncrPending, WaitDone, WaitCancelled, Inductive, TypeOK
      <3>4. CASE HandlerCas(r) \/ HandlerDecr(r) \/ HandlerGhost(r)
        BY <3>4 DEF HandlerCas, HandlerDecr, HandlerGhost, Inductive, TypeOK
      <3> QED
        BY Zenon, <1>2, <3>1, <3>2, <3>3, <3>4 DEF Handler
    <2>3. slotSeen \subseteq Reqs
      BY SMTT(30) DEF Inductive, TypeOK
    <2> QED
      BY SMTT(30), <2>1, <2>2, <2>3 DEF dispatchVars, SeenBeforeSlot, Elems
  <1>3. ASSUME NEW r \in Reqs, Forward(r) PROVE SeenBeforeSlot'
    BY ZenonT(30), <1>3 DEF Forward, ForwardStart, BuildFails, CallFails, CallAnswers, StreamEnds,
         RecordOutcome, ForwardCas, ForwardDecr, ForwardGhost, CloseDone, Release,
         dispatchVars, handlerVars, SeenBeforeSlot, Elems
  <1>4. CASE Acquire
    BY <1>4 DEF Acquire, SeenBeforeSlot, Inductive, QueuesDistinct, QueuedReqs, handlerVars
  <1>5. CASE NoPriority
    <2>1. Elems(priorityQueue') = {}
      BY <1>5 DEF NoPriority, Elems
    <2> QED
      BY <1>5, <2>1 DEF NoPriority, SeenBeforeSlot, handlerVars
  <1>6. CASE TakePriority \/ TakeNormal
    BY <1>6 DEF TakePriority, TakeNormal, Launch, SeenBeforeSlot, handlerVars
  <1>7. CASE UNCHANGED vars
    BY <1>7 DEF vars, SeenBeforeSlot, Elems
  <1> QED
    BY SMTT(30), <1>1, <1>2, <1>3, <1>4, <1>5, <1>6, <1>7 DEF Next, Dispatcher

(* No priority request that was waiting when the dispatcher got its slot   *)
(* is passed over for a normal one, in any schedule.                       *)
THEOREM PriorityNeverPassedOver == Spec => WaitingPriorityWins
  <1> DEFINE Chosen == \A r \in Reqs \ Interactive :
          fpc[r] = "none" /\ fpc'[r] = "start" => slotSeen \cap Elems(priorityQueue) = {}
  <1>1. Init => SeenBeforeSlot
    BY DEF Init, SeenBeforeSlot
  <1>2. Inductive /\ SeenBeforeSlot /\ [Next]_vars => SeenBeforeSlot'
    BY SeenStep
  <1>3. Inductive /\ SeenBeforeSlot /\ [Next]_vars => [Chosen]_vars
    <2> SUFFICES ASSUME Inductive, SeenBeforeSlot, Next,
                        NEW r \in Reqs \ Interactive, fpc[r] = "none", fpc'[r] = "start"
                 PROVE  slotSeen \cap Elems(priorityQueue) = {}
      OBVIOUS
    <2>1. ~ \E q \in Reqs : Enqueue(q) \/ Reject(q) \/ Disconnect(q) \/ Handler(q)
      BY SMTT(30) DEF Enqueue, Reject, Disconnect, Handler, IncrPending, WaitDone, WaitCancelled,
             HandlerCas, HandlerDecr, HandlerGhost
    <2>2. ~ \E q \in Reqs : Forward(q)
      BY ZenonT(30) DEF Forward, ForwardStart, BuildFails, CallFails, CallAnswers, StreamEnds,
             RecordOutcome, ForwardCas, ForwardDecr, ForwardGhost, CloseDone, Release,
             Inductive, TypeOK
    <2>3. ~TakePriority
      <3> SUFFICES ASSUME TakePriority PROVE FALSE
        OBVIOUS
      <3>1. Head(priorityQueue) \in Interactive
        <4>1. Head(priorityQueue) \in Elems(priorityQueue)
          BY TailElems DEF TakePriority, Inductive, TypeOK, QueuesDistinct
        <4> QED BY <4>1 DEF Inductive, QueuesDistinct
      <3>2. fpc' = [fpc EXCEPT ![Head(priorityQueue)] = "start"]
        BY DEF TakePriority, Launch
      <3>3. fpc'[r] = fpc[r]
        BY <3>1, <3>2 DEF Inductive, TypeOK
      <3> QED BY <3>3
    <2>4. ~Acquire /\ ~NoPriority
      BY DEF Acquire, NoPriority
    <2>5. TakeNormal
      BY <2>1, <2>2, <2>3, <2>4 DEF Next, Dispatcher
    <2> QED
      BY <2>5 DEF TakeNormal, SeenBeforeSlot
  <1> QED
    BY <1>1, <1>2, <1>3, GatewayInvariant, PTL DEF Spec, WaitingPriorityWins
=============================================================================
