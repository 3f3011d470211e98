------------------------------- MODULE Gateway -------------------------------
(***************************************************************************)
(* The queuing core of llm-gateway: the HTTP handler that enqueues a       *)
(* request and waits for it (ServeHTTP), the dispatcher with its priority  *)
(* and normal channels and its concurrency semaphore, forward, and the     *)
(* pending and ghost accounting that the two sides settle through a        *)
(* compare-and-swap.                                                       *)
(*                                                                         *)
(* Channel operations, atomics and tracker calls are the atomic steps.     *)
(* The per-host pending counter and the two ghost counters are sums over   *)
(* requests; pend[r] and ghost[r] are the contribution of request r.       *)
(***************************************************************************)
EXTENDS Integers, Sequences, FiniteSets

CONSTANTS
    Reqs,             \* proxied requests
    Interactive,      \* those sent with X-Priority: interactive
    MaxConcurrency,   \* cap(sem)
    QueueCap,         \* cap(queue)
    PriorityCap       \* cap(priorityQueue)

ASSUME GatewayAssumption ==
    /\ Interactive \subseteq Reqs
    /\ MaxConcurrency \in Nat \ {0}
    /\ QueueCap \in Nat \ {0}
    /\ PriorityCap \in Nat \ {0}

VARIABLES
    priorityQueue, queue,  \* the two bounded channels
    sem,                   \* slots in use
    dpc,                   \* the dispatcher's place in its loop
    hpc,                   \* the handler of each request
    fpc,                   \* the forward goroutine of each request
    gone,                  \* the client has disconnected: ctx is done
    cancelled,             \* pending.cancelled
    decremented,           \* pending.pendingDecremented
    was,                   \* forward's wasAlreadyCancelled
    success,               \* pending.success
    closed,                \* pending.done is closed
    written,               \* a response was written to pending.w
    pend,                  \* contribution to the host's pending counter
    registry,              \* pendingMap, the live pending registry
    ghost,                 \* contribution to ghostNormal / ghostPriority
    outcome,               \* what RecordOutcome was told about the request
    slotSeen               \* history: priority requests waiting at the last Acquire

handlerVars == <<hpc, gone, cancelled>>
dispatchVars == <<priorityQueue, queue, sem, dpc, slotSeen>>
tally == <<pend, registry, ghost, outcome>>
vars == <<priorityQueue, queue, sem, dpc, hpc, fpc, gone, cancelled, decremented,
          was, success, closed, written, pend, registry, ghost, outcome, slotSeen>>

HandlerPc == {"idle", "incr", "wait", "cas", "decr", "ghost", "end", "rejected"}
ForwardPc == {"none", "start", "call", "stream", "record", "cas", "decr", "ghost",
              "close", "release", "end"}

Elems(s) == {s[k] : k \in DOMAIN s}
ForwardRunning == {r \in Reqs : fpc[r] \notin {"none", "end"}}

Init ==
    /\ priorityQueue = <<>> /\ queue = <<>>
    /\ sem = 0
    /\ dpc = "acquire"
    /\ hpc = [r \in Reqs |-> "idle"]
    /\ fpc = [r \in Reqs |-> "none"]
    /\ gone = [r \in Reqs |-> FALSE]
    /\ cancelled = [r \in Reqs |-> FALSE]
    /\ decremented = [r \in Reqs |-> FALSE]
    /\ was = [r \in Reqs |-> FALSE]
    /\ success = [r \in Reqs |-> TRUE]
    /\ closed = [r \in Reqs |-> FALSE]
    /\ written = [r \in Reqs |-> FALSE]
    /\ pend = [r \in Reqs |-> 0]
    /\ registry = {}
    /\ ghost = [r \in Reqs |-> 0]
    /\ outcome = [r \in Reqs |-> "none"]
    /\ slotSeen = {}

-----------------------------------------------------------------------------
(* ServeHTTP                                                                *)

\* The non-blocking send: the request is on its channel before IncrPending.
Enqueue(r) ==
    /\ hpc[r] = "idle"
    /\ \/ /\ r \in Interactive /\ Len(priorityQueue) < PriorityCap
          /\ priorityQueue' = Append(priorityQueue, r)
          /\ UNCHANGED queue
       \/ /\ r \notin Interactive /\ Len(queue) < QueueCap
          /\ queue' = Append(queue, r)
          /\ UNCHANGED priorityQueue
    /\ hpc' = [hpc EXCEPT ![r] = "incr"]
    /\ UNCHANGED <<sem, dpc, slotSeen, fpc, gone, cancelled, decremented, was, success,
                   closed, written, tally>>

\* The default branch: 429.
Reject(r) ==
    /\ hpc[r] = "idle"
    /\ IF r \in Interactive THEN Len(priorityQueue) >= PriorityCap ELSE Len(queue) >= QueueCap
    /\ hpc' = [hpc EXCEPT ![r] = "rejected"]
    /\ written' = [written EXCEPT ![r] = TRUE]
    /\ UNCHANGED <<dispatchVars, fpc, gone, cancelled, decremented, was, success,
                   closed, tally>>

IncrPending(r) ==
    /\ hpc[r] = "incr"
    /\ pend' = [pend EXCEPT ![r] = @ + 1]
    /\ registry' = registry \cup {r}
    /\ hpc' = [hpc EXCEPT ![r] = "wait"]
    /\ UNCHANGED <<dispatchVars, fpc, gone, cancelled, decremented, was, success,
                   closed, written, ghost, outcome>>

\* case <-p.done
WaitDone(r) ==
    /\ hpc[r] = "wait" /\ closed[r]
    /\ hpc' = [hpc EXCEPT ![r] = "end"]
    /\ UNCHANGED <<dispatchVars, fpc, gone, cancelled, decremented, was, success,
                   closed, written, tally>>

\* case <-p.ctx.Done()
WaitCancelled(r) ==
    /\ hpc[r] = "wait" /\ gone[r]
    /\ cancelled' = [cancelled EXCEPT ![r] = TRUE]
    /\ hpc' = [hpc EXCEPT ![r] = "cas"]
    /\ UNCHANGED <<dispatchVars, fpc, gone, decremented, was, success, closed,
                   written, tally>>

\* Mutant: the result of the compare-and-swap is ignored.
HandlerCasIgnored(r) ==
    /\ hpc[r] = "cas"
    /\ decremented' = [decremented EXCEPT ![r] = TRUE]
    /\ hpc' = [hpc EXCEPT ![r] = "decr"]
    /\ UNCHANGED <<dispatchVars, fpc, gone, cancelled, was, success, closed,
                   written, tally>>

HandlerCas(r) ==
    /\ hpc[r] = "cas"
    /\ decremented' = [decremented EXCEPT ![r] = TRUE]
    /\ hpc' = [hpc EXCEPT ![r] = IF decremented[r] THEN "end" ELSE "decr"]
    /\ UNCHANGED <<dispatchVars, fpc, gone, cancelled, was, success, closed,
                   written, tally>>

DecrPending(r) ==
    /\ pend' = [pend EXCEPT ![r] = @ - 1]
    /\ registry' = registry \ {r}

HandlerDecr(r) ==
    /\ hpc[r] = "decr"
    /\ DecrPending(r)
    /\ hpc' = [hpc EXCEPT ![r] = "ghost"]
    /\ UNCHANGED <<dispatchVars, fpc, gone, cancelled, decremented, was, success,
                   closed, written, ghost, outcome>>

HandlerGhost(r) ==
    /\ hpc[r] = "ghost"
    /\ ghost' = [ghost EXCEPT ![r] = @ + 1]
    /\ hpc' = [hpc EXCEPT ![r] = "end"]
    /\ UNCHANGED <<dispatchVars, fpc, gone, cancelled, decremented, was, success,
                   closed, written, pend, registry, outcome>>

\* The client gives up: net/http cancels the request context.
Disconnect(r) ==
    /\ hpc[r] \in {"incr", "wait"} /\ ~gone[r]
    /\ gone' = [gone EXCEPT ![r] = TRUE]
    /\ UNCHANGED <<dispatchVars, hpc, fpc, cancelled, decremented, was, success,
                   closed, written, tally>>

-----------------------------------------------------------------------------
(* dispatcher                                                               *)

\* Mutant: the dispatcher does not wait for a slot.
AcquireAlways ==
    /\ dpc = "acquire"
    /\ sem' = sem + 1
    /\ dpc' = "stage1"
    /\ slotSeen' = Elems(priorityQueue)
    /\ UNCHANGED <<priorityQueue, queue, handlerVars, fpc, decremented, was, success,
                   closed, written, tally>>

Acquire ==
    /\ dpc = "acquire" /\ sem < MaxConcurrency
    /\ sem' = sem + 1
    /\ dpc' = "stage1"
    /\ slotSeen' = Elems(priorityQueue)
    /\ UNCHANGED <<priorityQueue, queue, handlerVars, fpc, decremented, was, success,
                   closed, written, tally>>

\* go forward(p)
Launch(r) ==
    /\ fpc' = [fpc EXCEPT ![r] = "start"]
    /\ dpc' = "acquire"

TakePriority ==
    /\ dpc \in {"stage1", "stage2"} /\ priorityQueue # <<>>
    /\ Launch(Head(priorityQueue))
    /\ priorityQueue' = Tail(priorityQueue)
    /\ UNCHANGED <<queue, sem, slotSeen, handlerVars, decremented, was, success, closed,
                   written, tally>>

\* Mutant: stage 1 does not look at the priority channel.
NoPriorityBlind ==
    /\ dpc = "stage1"
    /\ dpc' = "stage2"
    /\ UNCHANGED <<priorityQueue, queue, sem, slotSeen, handlerVars, fpc, decremented, was,
                   success, closed, written, tally>>

\* Mutant: stage 1 has no default branch and waits for a priority request.
NoPriorityBlocks ==
    /\ dpc = "stage1" /\ priorityQueue # <<>>
    /\ dpc' = "stage2"
    /\ UNCHANGED <<priorityQueue, queue, sem, slotSeen, handlerVars, fpc, decremented, was,
                   success, closed, written, tally>>

\* Stage 1 found no priority request: block on either channel.
NoPriority ==
    /\ dpc = "stage1" /\ priorityQueue = <<>>
    /\ dpc' = "stage2"
    /\ UNCHANGED <<priorityQueue, queue, sem, slotSeen, handlerVars, fpc, decremented, was,
                   success, closed, written, tally>>

\* Mutant: the request is looked at and left in the channel.
TakeNormalPeek ==
    /\ dpc = "stage2" /\ queue # <<>>
    /\ Launch(Head(queue))
    /\ UNCHANGED <<priorityQueue, queue, sem, slotSeen, handlerVars, decremented, was, success,
                   closed, written, tally>>

TakeNormal ==
    /\ dpc = "stage2" /\ queue # <<>>
    /\ Launch(Head(queue))
    /\ queue' = Tail(queue)
    /\ UNCHANGED <<priorityQueue, sem, slotSeen, handlerVars, decremented, was, success, closed,
                   written, tally>>

-----------------------------------------------------------------------------
(* forward                                                                  *)

\* Mutant: the early return is before the defers.
ForwardStartReturns(r) ==
    /\ fpc[r] = "start"
    /\ was' = [was EXCEPT ![r] = cancelled[r]]
    /\ success' = [success EXCEPT ![r] = ~cancelled[r]]
    /\ fpc' = [fpc EXCEPT ![r] = IF cancelled[r] THEN "end" ELSE "call"]
    /\ UNCHANGED <<dispatchVars, handlerVars, decremented, closed, written, tally>>

\* The cancellation snapshot and the early return.
ForwardStart(r) ==
    /\ fpc[r] = "start"
    /\ was' = [was EXCEPT ![r] = cancelled[r]]
    /\ success' = [success EXCEPT ![r] = ~cancelled[r]]
    /\ fpc' = [fpc EXCEPT ![r] = IF cancelled[r] THEN "record" ELSE "call"]
    /\ UNCHANGED <<dispatchVars, handlerVars, decremented, closed, written, tally>>

\* The request cannot be built: 500, success stays true.
BuildFails(r) ==
    /\ fpc[r] = "call"
    /\ written' = [written EXCEPT ![r] = TRUE]
    /\ fpc' = [fpc EXCEPT ![r] = "record"]
    /\ UNCHANGED <<dispatchVars, handlerVars, decremented, was, success, closed, tally>>

\* Mutant: only timeouts are answered.
CallFailsSilently(r) ==
    /\ fpc[r] = "call"
    /\ success' = [success EXCEPT ![r] = FALSE]
    /\ fpc' = [fpc EXCEPT ![r] = "record"]
    /\ UNCHANGED <<dispatchVars, handlerVars, decremented, was, closed, written, tally>>

\* client.Do fails: timeout (504) and network errors (502) are answered, a
\* cancelled context is not.
CallFails(r) ==
    /\ fpc[r] = "call"
    /\ success' = [success EXCEPT ![r] = FALSE]
    /\ \/ written' = [written EXCEPT ![r] = TRUE]
       \/ gone[r] /\ UNCHANGED written
    /\ fpc' = [fpc EXCEPT ![r] = "record"]
    /\ UNCHANGED <<dispatchVars, handlerVars, decremented, was, closed, tally>>

\* The upstream answers: header written, a status of 400 or more is a failure.
CallAnswers(r) ==
    /\ fpc[r] = "call"
    /\ \E ok \in BOOLEAN : success' = [success EXCEPT ![r] = ok]
    /\ written' = [written EXCEPT ![r] = TRUE]
    /\ fpc' = [fpc EXCEPT ![r] = "stream"]
    /\ UNCHANGED <<dispatchVars, handlerVars, decremented, was, closed, tally>>

\* The copy loop ends: end of body, read error, or write error.
StreamEnds(r) ==
    /\ fpc[r] = "stream"
    /\ fpc' = [fpc EXCEPT ![r] = "record"]
    /\ UNCHANGED <<dispatchVars, handlerVars, decremented, was, success, closed,
                   written, tally>>

\* The deferred function: RecordOutcome and Record, the compare-and-swap,
\* DecrPending or the ghost counter, close(done).
RecordOutcome(r) ==
    /\ fpc[r] = "record"
    /\ outcome' = [outcome EXCEPT ![r] = IF success[r] THEN "ok" ELSE "failed"]
    /\ fpc' = [fpc EXCEPT ![r] = "cas"]
    /\ UNCHANGED <<dispatchVars, handlerVars, decremented, was, success, closed,
                   written, pend, registry, ghost>>

\* Mutant: forward decrements whoever won.
ForwardCasIgnored(r) ==
    /\ fpc[r] = "cas"
    /\ decremented' = [decremented EXCEPT ![r] = TRUE]
    /\ fpc' = [fpc EXCEPT ![r] = "decr"]
    /\ UNCHANGED <<dispatchVars, handlerVars, was, success, closed, written, tally>>

ForwardCas(r) ==
    /\ fpc[r] = "cas"
    /\ decremented' = [decremented EXCEPT ![r] = TRUE]
    /\ fpc' = [fpc EXCEPT ![r] = IF decremented[r] THEN "ghost" ELSE "decr"]
    /\ UNCHANGED <<dispatchVars, handlerVars, was, success, closed, written, tally>>

ForwardDecr(r) ==
    /\ fpc[r] = "decr"
    /\ DecrPending(r)
    /\ fpc' = [fpc EXCEPT ![r] = "close"]
    /\ UNCHANGED <<dispatchVars, handlerVars, decremented, was, success, closed,
                   written, ghost, outcome>>

ForwardGhost(r) ==
    /\ fpc[r] = "ghost"
    /\ ghost' = [ghost EXCEPT ![r] = @ - 1]
    /\ fpc' = [fpc EXCEPT ![r] = "close"]
    /\ UNCHANGED <<dispatchVars, handlerVars, decremented, was, success, closed,
                   written, pend, registry, outcome>>

CloseDone(r) ==
    /\ fpc[r] = "close"
    /\ closed' = [closed EXCEPT ![r] = TRUE]
    /\ fpc' = [fpc EXCEPT ![r] = "release"]
    /\ UNCHANGED <<dispatchVars, handlerVars, decremented, was, success, written, tally>>

\* The goroutine's own defer gives the slot back.
Release(r) ==
    /\ fpc[r] = "release"
    /\ sem' = sem - 1
    /\ fpc' = [fpc EXCEPT ![r] = "end"]
    /\ UNCHANGED <<priorityQueue, queue, dpc, slotSeen, handlerVars, decremented, was, success,
                   closed, written, tally>>
-----------------------------------------------------------------------------
Handler(r) ==
    \/ IncrPending(r) \/ WaitDone(r) \/ WaitCancelled(r)
    \/ HandlerCas(r) \/ HandlerDecr(r) \/ HandlerGhost(r)

Forward(r) ==
    \/ ForwardStart(r) \/ BuildFails(r) \/ CallFails(r) \/ CallAnswers(r) \/ StreamEnds(r)
    \/ RecordOutcome(r) \/ ForwardCas(r) \/ ForwardDecr(r) \/ ForwardGhost(r)
    \/ CloseDone(r) \/ Release(r)

Dispatcher == Acquire \/ TakePriority \/ NoPriority \/ TakeNormal

Next ==
    \/ \E r \in Reqs : Enqueue(r) \/ Reject(r) \/ Disconnect(r) \/ Handler(r) \/ Forward(r)
    \/ Dispatcher

Spec == Init /\ [][Next]_vars

(***************************************************************************)
(* Fairness: the Go scheduler runs the dispatcher, every handler and every *)
(* forward goroutine; an upstream call ends because client.Do and the body *)
(* read are under the request timeout.  Clients need not send anything.    *)
(***************************************************************************)
FairSpec ==
    /\ Spec
    /\ WF_vars(Dispatcher)
    /\ \A r \in Reqs : WF_vars(Handler(r)) /\ WF_vars(Forward(r))

-----------------------------------------------------------------------------
(* Properties.                                                              *)

(* The semaphore stays within its capacity, and every goroutine, flag and  *)
(* counter has its type.                                                   *)
TypeOK ==
    /\ priorityQueue \in Seq(Reqs) /\ queue \in Seq(Reqs)
    /\ sem \in 0..MaxConcurrency
    /\ dpc \in {"acquire", "stage1", "stage2"}
    /\ hpc \in [Reqs -> HandlerPc]
    /\ fpc \in [Reqs -> ForwardPc]
    /\ gone \in [Reqs -> BOOLEAN] /\ cancelled \in [Reqs -> BOOLEAN]
    /\ decremented \in [Reqs -> BOOLEAN] /\ was \in [Reqs -> BOOLEAN]
    /\ success \in [Reqs -> BOOLEAN] /\ closed \in [Reqs -> BOOLEAN]
    /\ written \in [Reqs -> BOOLEAN]
    /\ pend \in [Reqs -> Int] /\ ghost \in [Reqs -> Int]
    /\ registry \subseteq Reqs
    /\ outcome \in [Reqs -> {"none", "ok", "failed"}]
    /\ slotSeen \subseteq Reqs

(* The worker pool: at most MaxConcurrency requests are being forwarded,   *)
(* and every slot in use belongs to one of them or to the dispatcher       *)
(* choosing its next request.  No path through forward leaks a slot.       *)
SlotsAccountedFor ==
    sem = Cardinality(ForwardRunning) + (IF dpc = "acquire" THEN 0 ELSE 1)

(* A request is forwarded once: nothing waits in two places of the         *)
(* channels, or in a channel and in a forward goroutine.                   *)
DispatchedOnce ==
    /\ \A q \in {priorityQueue, queue} :
          \A j, k \in DOMAIN q : q[j] = q[k] => j = k
    /\ \A r \in Elems(priorityQueue) \cup Elems(queue) : fpc[r] = "none"

Finished(r) == hpc[r] = "end" /\ fpc[r] = "end"

(* The compare-and-swap of pendingDecremented: whoever wins, the pending   *)
(* counter and the ghost counters are back where they were once both sides *)
(* of a request are done.                                                  *)
CountersSettle == \A r \in Reqs : Finished(r) => pend[r] = 0 /\ ghost[r] = 0

(* A client that stays connected gets its answer before its handler        *)
(* returns: forward writes on every path on which the context is alive.    *)
ConnectedClientAnswered ==
    \A r \in Reqs : hpc[r] \in {"end", "rejected"} /\ ~gone[r] => written[r]

(* The dispatcher takes its slot before it chooses: a priority request     *)
(* that waited for that slot is never passed over for a normal request.    *)
WaitingPriorityWins ==
    [][\A r \in Reqs \ Interactive :
          fpc[r] = "none" /\ fpc'[r] = "start" => slotSeen \cap Elems(priorityQueue) = {}]_vars

(* Every accepted request is eventually answered or abandoned by its       *)
(* client, and its forward goroutine gives back the slot.                  *)
AcceptedFinishes == \A r \in Reqs : (hpc[r] = "incr") ~> Finished(r)

-----------------------------------------------------------------------------
(* The inductive invariant behind these properties.                         *)

(* Pending accounting of one request, by who has won the compare-and-swap. *)
Incremented(r) == hpc[r] \notin {"idle", "rejected", "incr"}

NobodyWon(r) ==
    /\ ~decremented[r]
    /\ hpc[r] \in {"idle", "rejected", "incr", "wait", "cas"}
    /\ fpc[r] \in {"none", "start", "call", "stream", "record", "cas"}
    /\ pend[r] = (IF Incremented(r) THEN 1 ELSE 0)
    /\ ghost[r] = 0

HandlerWon(r) ==
    /\ decremented[r]
    /\ hpc[r] \in {"decr", "ghost", "end"}
    /\ fpc[r] # "decr"
    /\ pend[r] = (IF hpc[r] = "decr" THEN 1 ELSE 0)
    /\ ghost[r] = (IF hpc[r] = "end" THEN 1 ELSE 0)
                    - (IF fpc[r] \in {"close", "release", "end"} THEN 1 ELSE 0)

ForwardWon(r) ==
    /\ decremented[r]
    /\ hpc[r] \in {"incr", "wait", "cas", "end"}
    /\ fpc[r] \in {"decr", "close", "release", "end"}
    /\ pend[r] = (IF Incremented(r) THEN 1 ELSE 0) - (IF fpc[r] = "decr" THEN 0 ELSE 1)
    /\ ghost[r] = 0

Accounted(r) == NobodyWon(r) \/ HandlerWon(r) \/ ForwardWon(r)

(* Where a request can be: only an accepted one is queued or forwarded.    *)
Placed(r) ==
    /\ fpc[r] # "none" => hpc[r] \notin {"idle", "rejected"}
    /\ closed[r] => fpc[r] \in {"release", "end"}

QueuedReqs == Elems(priorityQueue) \cup Elems(queue)

QueuesDistinct ==
    /\ \A j, k \in DOMAIN priorityQueue : priorityQueue[j] = priorityQueue[k] => j = k
    /\ \A j, k \in DOMAIN queue : queue[j] = queue[k] => j = k
    /\ Elems(priorityQueue) \subseteq Interactive
    /\ Elems(queue) \cap Interactive = {}
    /\ \A r \in QueuedReqs : fpc[r] = "none" /\ hpc[r] \notin {"idle", "rejected"}

(* Who has been answered: the context of a cancelled request is done, and  *)
(* forward has written by the time it reaches its deferred function.       *)
Answering(r) ==
    /\ cancelled[r] \/ hpc[r] \in {"cas", "decr", "ghost"} => gone[r]
    /\ hpc[r] = "rejected" => written[r]
    /\ fpc[r] \notin {"none", "start", "call"} => written[r] \/ gone[r]
    /\ hpc[r] = "end" => closed[r] \/ gone[r]

(* All of it together: preserved by every step of every goroutine.         *)
Inductive ==
    /\ TypeOK
    /\ QueuesDistinct
    /\ \A r \in Reqs : Accounted(r) /\ Placed(r) /\ Answering(r)

-----------------------------------------------------------------------------
(* What comments and documents say of the gateway, and its interleavings   *)
(* do not always keep.                                                     *)

(* llm-gateway.md: GET /pending is the "live registry of queued +          *)
(* in-flight requests": a finished request is not in it.                   *)
RegistryIsLive == \A r \in registry : ~Finished(r)
=============================================================================
