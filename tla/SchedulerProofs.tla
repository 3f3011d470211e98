--------------------------- MODULE SchedulerProofs ---------------------------
(***************************************************************************)
(* Proofs about the responsibility loop and the agent runs it starts, for  *)
(* any responsibilities, goroutines, tools and limits.                     *)
(***************************************************************************)
EXTENDS Scheduler, FiniteSetTheorems, SequenceTheorems, TLAPS

(***************************************************************************)
(* What holds of the locals q of every Run.  The counter that decides      *)
(* whether to execute was incremented by the execution, and what is left   *)
(* of the current turn is exactly what the conversation lacks.             *)
(***************************************************************************)
ConversationOK(q) ==
    /\ q.pc \in {"none", "infer"} => q.open = 0 /\ q.todo = <<>>
    /\ q.pc = "tools" => q.open = Len(q.todo) /\ q.iter < MaxIter
    /\ \A c \in Calls : q.execs[c] <= 1 /\ (q.count[c] = 0 => q.execs[c] = 0)

AgentInv == AgentTypeOK /\ \A x \in Runs : ConversationOK(run[x])

(* Updates of the locals that keep their types.                            *)
LEMMA TurnTyped ==
  ASSUME NEW q \in RunState, NEW todo \in Seq(Calls), NEW open \in Nat
  PROVE  /\ [q EXCEPT !.todo = todo, !.open = open] \in RunState
         /\ [q EXCEPT !.pc = "tools", !.todo = todo, !.open = open] \in RunState
  BY DEF RunState

LEMMA IterationTyped ==
  ASSUME NEW q \in RunState, NEW iter \in 0 .. MaxIter
  PROVE  [q EXCEPT !.pc = "infer", !.iter = iter] \in RunState
  BY DEF RunState

LEMMA CountTyped ==
  ASSUME NEW q \in RunState, NEW counts \in [Calls -> Nat]
  PROVE  [q EXCEPT !.count = counts] \in RunState
  BY DEF RunState

LEMMA ExecutedTyped ==
  ASSUME NEW q \in RunState, NEW counts \in [Calls -> Nat], NEW result \in SUBSET Calls
  PROVE  [q EXCEPT !.execs = counts, !.result = result] \in RunState
  BY DEF RunState

LEMMA FreshTyped ==
  ASSUME NEW pc \in {"none", "infer"}, NEW iter \in 0 .. MaxIter, NEW todo \in Seq(Calls),
         NEW zero \in [Calls -> Nat], NEW open \in Nat
  PROVE  [pc |-> pc, iter |-> iter, todo |-> todo, count |-> zero, result |-> {},
          execs |-> zero, open |-> open, out |-> "none", last |-> "none"] \in RunState
  BY DEF RunState

(* A Run that has not started, or is just called.                          *)
LEMMA FreshRun ==
  /\ NotStarted \in RunState /\ ConversationOK(NotStarted)
  /\ [NotStarted EXCEPT !.pc = "infer"] \in RunState
  /\ ConversationOK([NotStarted EXCEPT !.pc = "infer"])
  <1> DEFINE zero == [c \in Calls |-> 0]
             q(pc) == [pc |-> pc, iter |-> 0, todo |-> <<>>, count |-> zero, result |-> {},
                       execs |-> zero, open |-> 0, out |-> "none", last |-> "none"]
  <1>1. NotStarted = q("none")
    BY DEF NotStarted
  <1>2. zero \in [Calls -> Nat] /\ <<>> \in Seq(Calls) /\ 0 \in 0 .. MaxIter /\ 0 \in Nat
    BY AgentAssumption, EmptySeq
  <1>3. \A c \in Calls : zero[c] = 0
    OBVIOUS
  <1> HIDE DEF zero
  <1>5. [NotStarted EXCEPT !.pc = "infer"] = q("infer")
    <2>1. ASSUME NEW todo, NEW result, NEW n
          PROVE  [[pc |-> "none", iter |-> n, todo |-> todo, count |-> zero, result |-> result,
                   execs |-> zero, open |-> n, out |-> "none", last |-> "none"] EXCEPT !.pc = "infer"]
                 = [pc |-> "infer", iter |-> n, todo |-> todo, count |-> zero, result |-> result,
                    execs |-> zero, open |-> n, out |-> "none", last |-> "none"]
      OBVIOUS
    <2> QED
      BY <1>1, <2>1, Zenon
  <1>4. ASSUME NEW pc \in {"none", "infer"}
        PROVE  q(pc) \in RunState /\ ConversationOK(q(pc))
    <2>1. q(pc) \in RunState
      BY ONLY <1>2, FreshTyped, pc \in {"none", "infer"}, ZenonT(20)
    <2>2. /\ q(pc).pc = pc /\ q(pc).todo = <<>> /\ q(pc).open = 0
          /\ q(pc).count = zero /\ q(pc).execs = zero
      OBVIOUS
    <2>3. ConversationOK(q(pc))
      <3> HIDE DEF q
      <3> QED
        BY <1>3, <2>2 DEF ConversationOK
    <2> QED
      BY <2>1, <2>3
  <1> HIDE DEF q
  <1> QED
    BY <1>1, <1>4, <1>5

(* Replacing the locals of one Run by good ones keeps the invariant.       *)
LEMMA OneRun ==
  ASSUME AgentInv, NEW x \in Runs, NEW q \in RunState, ConversationOK(q),
         run' = [run EXCEPT ![x] = q]
  PROVE  AgentInv'
  BY DEF AgentInv, AgentTypeOK

(* A return leaves the conversation as it is.                              *)
LEMMA ReturnKeeps ==
  ASSUME AgentInv, NEW x \in Runs,
         NEW out \in {"apiError", "empty", "answer", "maxIter"}, Return(x, out)
  PROVE  AgentInv'
  <1> DEFINE q == [run[x] EXCEPT !.pc = "done", !.todo = <<>>, !.out = out]
  <1>1. run[x] \in RunState /\ ConversationOK(run[x])
    BY DEF AgentInv, AgentTypeOK
  <1>2. run' = [run EXCEPT ![x] = q]
    BY DEF Return
  <1>3. q \in RunState /\ ConversationOK(q)
    <2>1. q \in RunState
      BY <1>1, EmptySeq DEF RunState, Failures, Successes
    <2>2. ConversationOK(q)
      BY <1>1 DEF RunState, ConversationOK
    <2> QED
      BY <2>1, <2>2
  <1> QED
    BY <1>2, <1>3, OneRun

(* The tool message for the current call closes one of the open calls.     *)
LEMMA AnsweredKeeps ==
  ASSUME NEW q \in RunState, ConversationOK(q), q.pc = "tools", q.todo # <<>>
  PROVE  Answered(q) \in RunState /\ ConversationOK(Answered(q))
  <1>1. q.todo \in Seq(Calls) /\ Len(q.todo) \in Nat /\ Len(q.todo) > 0
    BY LenProperties, EmptySeq DEF RunState
  <1>2. Tail(q.todo) \in Seq(Calls) /\ Len(Tail(q.todo)) = Len(q.todo) - 1
    BY <1>1, HeadTailProperties
  <1>3. q.open \in Nat /\ q.open = Len(q.todo) /\ q.open - 1 \in Nat
    BY <1>1 DEF RunState, ConversationOK
  <1>4. Answered(q) = [q EXCEPT !.todo = Tail(q.todo), !.open = q.open - 1]
    BY DEF Answered
  <1>5. Answered(q) \in RunState
    BY ONLY q \in RunState, <1>2, <1>3, <1>4, TurnTyped, Zenon
  <1>6. ConversationOK(Answered(q))
    BY <1>1, <1>2, <1>3, <1>4 DEF RunState, ConversationOK
  <1> QED
    BY <1>5, <1>6

(* Counting a call.                                                        *)
LEMMA CountedKeeps ==
  ASSUME AgentInv, NEW x \in Runs, Handling(x)
  PROVE  /\ Call(x) \in Calls
         /\ Counted(x) \in RunState /\ ConversationOK(Counted(x))
         /\ Counted(x).pc = "tools" /\ Counted(x).todo # <<>>
         /\ Counted(x).count[Call(x)] = run[x].count[Call(x)] + 1
         /\ Counted(x).execs = run[x].execs
  <1>1. run[x] \in RunState /\ ConversationOK(run[x])
    BY DEF AgentInv, AgentTypeOK
  <1>2. Call(x) \in Calls
    BY <1>1, HeadTailProperties DEF Call, Handling, RunState
  <1>3. run[x].count \in [Calls -> Nat]
    BY <1>1 DEF RunState
  <1>4. Counted(x) = [run[x] EXCEPT !.count = [run[x].count EXCEPT ![Call(x)] = @ + 1]]
    BY <1>1 DEF Counted, RunState
  <1>5. Counted(x) \in RunState
    BY <1>1, <1>2, <1>3, <1>4, CountTyped
  <1>6. ConversationOK(Counted(x))
    BY <1>1, <1>2, <1>3, <1>4 DEF RunState, ConversationOK
  <1> QED
    BY <1>1, <1>2, <1>3, <1>4, <1>5, <1>6 DEF RunState, Handling

(* A step of one agent run keeps the invariant.                            *)
LEMMA AgentStepKeeps ==
  ASSUME AgentInv, NEW x \in Runs, AgentStep(x)
  PROVE  AgentInv'
  <1>0. run[x] \in RunState /\ ConversationOK(run[x]) /\ run \in [Runs -> RunState]
    BY DEF AgentInv, AgentTypeOK
  <1>1. CASE RunInfer(x)
    <2>1. CASE \E out \in {"apiError", "empty", "answer"} : Return(x, out)
      BY <2>1, ReturnKeeps
    <2>2. ASSUME NEW n \in 0 .. MaxCalls, NEW todo \in [1 .. n -> Calls],
                 run' = [run EXCEPT ![x].pc = "tools", ![x].todo = todo, ![x].open = @ + Len(todo)]
          PROVE  AgentInv'
      <3> DEFINE q == [run[x] EXCEPT !.pc = "tools", !.todo = todo, !.open = Len(todo)]
      <3>1. todo \in Seq(Calls)
        BY AgentAssumption, IsASeq
      <3>2. Len(todo) \in Nat /\ run[x].open = 0 /\ run[x].iter < MaxIter
        BY <1>0, <1>1, <3>1, LenProperties, AgentAssumption DEF RunInfer, RunState, ConversationOK
      <3>3. q \in RunState /\ ConversationOK(q)
        <4>1. q \in RunState
          BY <1>0, <3>1, <3>2, TurnTyped
        <4>2. ConversationOK(q)
          BY <1>0, <3>1, <3>2 DEF RunState, ConversationOK
        <4> QED
          BY <4>1, <4>2
      <3>4. run' = [run EXCEPT ![x] = q]
        <4> DEFINE p == [run[x] EXCEPT !.pc = "tools", !.todo = todo, !.open = @ + Len(todo)]
        <4>1. run' = [run EXCEPT ![x] = p]
          BY <1>0, <2>2
        <4>2. run[x].open + Len(todo) = Len(todo)
          BY <3>2
        <4>3. p = q
          BY <4>2
        <4> QED
          BY <4>1, <4>3
      <3> QED
        BY <3>3, <3>4, OneRun
    <2> QED
      BY <1>1, <2>1, <2>2 DEF RunInfer
  <1>2. CASE RunExhausted(x)
    BY <1>2, ReturnKeeps DEF RunExhausted
  <1>3. CASE RunNextIteration(x)
    <2> DEFINE q == [run[x] EXCEPT !.pc = "infer", !.iter = @ + 1]
    <2>1. q \in RunState /\ ConversationOK(q)
      <3>1. /\ run[x].iter \in 0 .. MaxIter /\ run[x].iter + 1 \in 0 .. MaxIter
            /\ run[x].todo = <<>> /\ run[x].open = 0
        BY <1>0, <1>3, EmptySeq, AgentAssumption DEF RunNextIteration, RunState, ConversationOK
      <3>2. q \in RunState
        BY <1>0, <3>1, IterationTyped, Zenon
      <3>3. ConversationOK(q)
        BY <1>0, <3>1 DEF RunState, ConversationOK
      <3> QED
        BY <3>2, <3>3
    <2>2. run' = [run EXCEPT ![x] = q]
      BY <1>0, <1>3 DEF RunNextIteration
    <2> QED
      BY <2>1, <2>2, OneRun
  <1>4. CASE UnknownTool(x)
    <2>1. Answered(run[x]) \in RunState /\ ConversationOK(Answered(run[x]))
      BY <1>0, <1>4, AnsweredKeeps DEF UnknownTool, Handling
    <2>2. run' = [run EXCEPT ![x] = Answered(run[x])]
      BY <1>0, <1>4 DEF UnknownTool
    <2> QED
      BY <2>1, <2>2, OneRun
  <1>5. CASE RepeatedTool(x)
    <2> DEFINE q == [Counted(x) EXCEPT !.pc = "done", !.todo = <<>>, !.out = "repeated",
                      !.last = IF Call(x) \in run[x].result THEN "result" ELSE "nothing"]
    <2>1. Counted(x) \in RunState /\ ConversationOK(Counted(x))
      BY <1>5, CountedKeeps DEF RepeatedTool, Known
    <2>2. q \in RunState /\ ConversationOK(q)
      BY <2>1, EmptySeq DEF RunState, ConversationOK, Successes
    <2> QED
      BY <1>5, <2>2, OneRun DEF RepeatedTool
  <1>6. CASE NudgeTool(x)
    <2>1. Answered(Counted(x)) \in RunState /\ ConversationOK(Answered(Counted(x)))
      BY <1>6, CountedKeeps, AnsweredKeeps DEF NudgeTool, Known
    <2> QED
      BY <1>6, <2>1, OneRun DEF NudgeTool
  <1>7. CASE ExecuteTool(x)
    <2> DEFINE a == Answered(Counted(x))
    <2>1. Handling(x) /\ run[x].count[Call(x)] + 1 = 1
      BY <1>7 DEF ExecuteTool, Known
    <2>2. a \in RunState /\ ConversationOK(a) /\ Call(x) \in Calls
      BY <2>1, CountedKeeps, AnsweredKeeps
    <2>3. a.execs = run[x].execs /\ a.count[Call(x)] = 1
      BY <2>1, CountedKeeps DEF Answered, RunState
    <2>4. run[x].execs[Call(x)] = 0
      BY <1>0, <2>1, <2>2 DEF ConversationOK, RunState
    <2>5. ASSUME NEW res \in SUBSET Calls
          PROVE  LET q == [a EXCEPT !.execs = [a.execs EXCEPT ![Call(x)] = 1], !.result = res]
                 IN  q \in RunState /\ ConversationOK(q)
      <3> DEFINE q == [a EXCEPT !.execs = [a.execs EXCEPT ![Call(x)] = 1], !.result = res]
      <3>1. q \in RunState
        BY <2>2, ExecutedTyped DEF RunState
      <3>2. ConversationOK(q)
        BY <2>2, <2>3 DEF RunState, ConversationOK
      <3> QED
        BY <3>1, <3>2
    <2>6. a.result \in SUBSET Calls /\ a.result \cup {Call(x)} \in SUBSET Calls
      BY <2>2 DEF RunState
    <2>7. \E res \in SUBSET Calls :
             run' = [run EXCEPT ![x] = [a EXCEPT !.execs = [a.execs EXCEPT ![Call(x)] = 1], !.result = res]]
      <3>1. a.execs[Call(x)] + 1 = 1
        BY <2>3, <2>4
      <3>2. /\ [a EXCEPT !.execs[Call(x)] = @ + 1]
               = [a EXCEPT !.execs = [a.execs EXCEPT ![Call(x)] = 1], !.result = a.result]
            /\ [a EXCEPT !.execs[Call(x)] = @ + 1, !.result = @ \cup {Call(x)}]
               = [a EXCEPT !.execs = [a.execs EXCEPT ![Call(x)] = 1],
                           !.result = a.result \cup {Call(x)}]
        BY <2>2, <3>1 DEF RunState
      <3> QED
        BY <1>7, <2>6, <3>2 DEF ExecuteTool
    <2> QED
      BY <2>5, <2>7, OneRun
  <1> QED
    BY <1>1, <1>2, <1>3, <1>4, <1>5, <1>6, <1>7 DEF AgentStep

-----------------------------------------------------------------------------
(***************************************************************************)
(* The loop.  A goroutine at work has its responsibility's flag and is the *)
(* only one, and a daily run started by this process today is remembered   *)
(* in lastRunDate.                                                         *)
(***************************************************************************)
Busy(r, g) == exec[<<r, g>>].pc # "none"

Exclusive ==
    \A r \in Responsibilities : \A g, h \in Goroutines :
        /\ Busy(r, g) => running[r]
        /\ Busy(r, g) /\ Busy(r, h) => g = h

Remembered ==
    /\ firedBoot \in [Daily -> {0, 1}]
    /\ \A r \in Daily : firedBoot[r] = 1 => ranToday[r]

LoopInv == TypeOK /\ AgentInv /\ Exclusive /\ Remembered

LEMMA InitLoop == Init => LoopInv
  <1> SUFFICES ASSUME Init PROVE LoopInv
    OBVIOUS
  <1>3. AgentInv
    BY FreshRun DEF AgentInv, AgentTypeOK, Init, AgentInit
  <1>4. TypeOK
    BY <1>3, SchedulerAssumption DEF TypeOK, AgentInv, Init, ExecState, NoExec
  <1>5. Exclusive
    BY SchedulerAssumption DEF Init, Exclusive, Busy, NoExec
  <1>6. Remembered
    BY DEF Init, Remembered
  <1> QED
    BY <1>3, <1>4, <1>5, <1>6 DEF LoopInv

(* A goroutine at work moves on, its flag still set.                       *)
LEMMA GoroutineMoves ==
  ASSUME LoopInv, NEW x \in Runs, NEW e \in ExecState,
         exec[x].pc # "none", exec' = [exec EXCEPT ![x] = e],
         UNCHANGED running, Apart, AgentInv'
  PROVE  LoopInv'
  <1>1. TypeOK'
    BY DEF LoopInv, TypeOK, AgentInv, Apart, schedule
  <1>2. ASSUME NEW r \in Responsibilities, NEW g \in Goroutines
        PROVE  Busy(r, g)' => Busy(r, g)
    <2>1. <<r, g>> \in Runs
      BY SchedulerAssumption
    <2> QED
      BY <2>1 DEF Busy, LoopInv, TypeOK
  <1>4. Exclusive'
    BY <1>2 DEF LoopInv, Exclusive
  <1>3. Remembered'
    BY DEF LoopInv, Remembered, Apart, schedule
  <1> QED
    BY <1>1, <1>3, <1>4 DEF LoopInv

(* A step of a goroutine keeps the invariant.                              *)
LEMMA ExecuteKeeps ==
  ASSUME LoopInv, NEW x \in Runs, Execute(x)
  PROVE  LoopInv'
  <1>0. exec \in [Runs -> ExecState] /\ exec[x] \in ExecState /\ AgentInv
    BY DEF LoopInv, TypeOK
  <1>1. run' = run => AgentInv'
    BY <1>0 DEF AgentInv, AgentTypeOK
  <1>2. CASE PreCheck(x)
    <2>1. PICK e \in ExecState : exec' = [exec EXCEPT ![x] = e]
      <3>1. CASE exec' = [exec EXCEPT ![x].pc = "persist", ![x].pre = "clean", ![x].end = "quiet"]
        <4> DEFINE e == [exec[x] EXCEPT !.pc = "persist", !.pre = "clean", !.end = "quiet"]
        <4>1. e \in ExecState /\ exec' = [exec EXCEPT ![x] = e]
          BY <1>0, <3>1 DEF ExecState
        <4> QED
          BY <4>1
      <3>2. ASSUME NEW pre \in {"problem", "error"},
                   exec' = [exec EXCEPT ![x].pc = "agent", ![x].pre = pre]
            PROVE  \E e \in ExecState : exec' = [exec EXCEPT ![x] = e]
        <4> DEFINE e == [exec[x] EXCEPT !.pc = "agent", !.pre = pre]
        <4>1. e \in ExecState /\ exec' = [exec EXCEPT ![x] = e]
          BY <1>0, <3>2 DEF ExecState
        <4> QED
          BY <4>1
      <3> QED
        BY <1>2, <3>1, <3>2 DEF PreCheck
    <2> QED
      BY <1>1, <1>2, <2>1, GoroutineMoves DEF PreCheck
  <1>3. CASE CallAgent(x)
    <2>1. AgentInv'
      BY <1>0, <1>3, FreshRun, OneRun DEF CallAgent, RunBegin
    <2>2. exec' = [exec EXCEPT ![x] = exec[x]]
      BY <1>0, <1>3 DEF CallAgent
    <2> QED
      BY <1>0, <1>3, <2>1, <2>2, GoroutineMoves DEF CallAgent
  <1>4. CASE AgentRuns(x)
    <2>1. AgentInv'
      BY <1>0, <1>4, AgentStepKeeps DEF AgentRuns
    <2>2. exec' = [exec EXCEPT ![x] = exec[x]]
      BY <1>0, <1>4 DEF AgentRuns
    <2> QED
      BY <1>0, <1>4, <2>1, <2>2, GoroutineMoves DEF AgentRuns
  <1>5. CASE AgentReturns(x)
    <2>2. AgentInv'
      BY <1>0, <1>5, FreshRun, OneRun DEF AgentReturns
    <2> DEFINE e == [exec[x] EXCEPT !.pc = "persist",
                        !.end = IF run[x].out \in Failures THEN "error" ELSE "ok"]
    <2>3. e \in ExecState /\ exec' = [exec EXCEPT ![x] = e]
      BY <1>0, <1>5 DEF AgentReturns, ExecState
    <2> QED
      BY <1>5, <2>2, <2>3, GoroutineMoves DEF AgentReturns
  <1>6. CASE PersistRunState(x)
    <2>1. PICK saved \in {"nothing", "error", "ok"} :
             exec' = [exec EXCEPT ![x].pc = "notify", ![x].saved = saved]
      BY <1>6 DEF PersistRunState
    <2> DEFINE e == [exec[x] EXCEPT !.pc = "notify", !.saved = saved]
    <2>2. e \in ExecState /\ exec' = [exec EXCEPT ![x] = e]
      BY <1>0, <2>1 DEF ExecState
    <2> QED
      BY <1>1, <1>6, <2>2, GoroutineMoves DEF PersistRunState
  <1>7. CASE MaybeNotify(x)
    <2>1. PICK sent \in {"nothing", "failure", "report"} :
             exec' = [exec EXCEPT ![x].pc = "release", ![x].sent = sent]
      BY <1>7 DEF MaybeNotify
    <2> DEFINE e == [exec[x] EXCEPT !.pc = "release", !.sent = sent]
    <2>2. e \in ExecState /\ exec' = [exec EXCEPT ![x] = e]
      BY <1>0, <2>1 DEF ExecState
    <2> QED
      BY <1>1, <1>7, <2>2, GoroutineMoves DEF MaybeNotify
  <1>8. CASE Release(x)
    <2>1. NoExec \in ExecState
      BY DEF NoExec, ExecState
    <2>2. TypeOK'
      BY <1>0, <1>1, <1>8, <2>1 DEF LoopInv, TypeOK, AgentInv, Apart, schedule, Release
    <2>3. Exclusive'
      <3>1. PICK a \in Responsibilities, b \in Goroutines : x = <<a, b>>
        BY SchedulerAssumption
      <3>2. Busy(a, b) /\ x[1] = a
        BY <1>8, <3>1 DEF Busy, Release
      <3>3. running' = [running EXCEPT ![a] = FALSE] /\ running \in [Responsibilities -> BOOLEAN]
        BY <1>8, <3>2 DEF Release, LoopInv, TypeOK
      <3>4. ASSUME NEW r \in Responsibilities, NEW g \in Goroutines
            PROVE  Busy(r, g)' => Busy(r, g) /\ r # a
        <4>1. <<r, g>> \in Runs
          BY SchedulerAssumption
        <4>2. Busy(r, g)' => Busy(r, g) /\ <<r, g>> # x
          BY <1>0, <1>8, <4>1 DEF Busy, Release, NoExec
        <4>3. Busy(r, g) /\ r = a => g = b
          BY <3>2 DEF LoopInv, Exclusive
        <4> QED
          BY <3>1, <4>2, <4>3
      <3> QED
        BY <3>3, <3>4 DEF LoopInv, Exclusive
    <2>4. Remembered'
      BY <1>8 DEF LoopInv, Remembered, Apart, schedule, Release
    <2> QED
      BY <1>1, <1>8, <2>2, <2>3, <2>4 DEF LoopInv, Release
  <1> QED
    BY <1>2, <1>3, <1>4, <1>5, <1>6, <1>7, <1>8 DEF Execute

(***************************************************************************)
(* What a heartbeat does: some responsibilities are due, those among them  *)
(* whose flag was clear are started, and a daily one is due only when this *)
(* process has not started it on the date of the heartbeat.                *)
(***************************************************************************)
LEMMA TickShape ==
  ASSUME LoopInv, NEW d \in {0, 1}, Tick(d)
  PROVE  \E newDay \in BOOLEAN, due \in SUBSET Responsibilities, start \in SUBSET Responsibilities :
           /\ start \subseteq due
           /\ \A r \in start : ~running[r] /\ Free(r) # {}
           /\ \A r \in due \cap Daily : newDay \/ ~ranToday[r]
           /\ ranToday' = [r \in Daily |-> (ranToday[r] /\ ~newDay) \/ r \in due]
           /\ running' = [r \in Responsibilities |-> running[r] \/ r \in start]
           /\ exec' = [x \in Runs |->
                         IF x[1] \in start /\ x[2] = CHOOSE g \in Free(x[1]) : TRUE
                         THEN Started(x[1]) ELSE exec[x]]
           /\ firedBoot' = [r \in Daily |->
                              (IF newDay THEN 0 ELSE firedBoot[r]) + (IF r \in start THEN 1 ELSE 0)]
           /\ minute' \in 0 .. DayLength - 1
           /\ wait' \in [DOMAIN Frequency -> Nat]
           /\ UNCHANGED <<run, startupDelay>>
  <1> DEFINE left == [r \in DOMAIN Frequency |-> IF wait[r] > d THEN wait[r] - d ELSE 0]
             newDay == minute + d >= DayLength
             ran == RanOnSameDay(newDay)
             due == {r \in Responsibilities : Due(r, left, minute', ran)}
             start == {r \in due : Startable(r)}
  <1>1. /\ newDay \in BOOLEAN /\ due \in SUBSET Responsibilities
        /\ start \in SUBSET Responsibilities /\ start \subseteq due
    OBVIOUS
  <1>2. \A r \in start : ~running[r] /\ Free(r) # {}
    BY DEF Tick, Startable
  <1>3. \A r \in due \cap Daily : newDay \/ ~ranToday[r]
    BY DEF Due, RanOnSameDay
  <1>4. ranToday' = [r \in Daily |-> (ranToday[r] /\ ~newDay) \/ r \in due]
    BY DEF Tick, RanOnSameDay
  <1>5. minute' \in 0 .. DayLength - 1
    BY SchedulerAssumption DEF Tick, LoopInv, TypeOK
  <1>6. wait' \in [DOMAIN Frequency -> Nat]
    <2>1. \A r \in DOMAIN Frequency : left[r] \in Nat
      BY DEF LoopInv, TypeOK
    <2>2. wait' = [r \in DOMAIN Frequency |-> IF r \in due THEN Frequency[r] ELSE left[r]]
      BY DEF Tick
    <2> HIDE DEF left, due
    <2> QED
      BY <2>1, <2>2, SchedulerAssumption
  <1>7. /\ running' = [r \in Responsibilities |-> running[r] \/ r \in start]
        /\ exec' = [x \in Runs |->
                      IF x[1] \in start /\ x[2] = CHOOSE g \in Free(x[1]) : TRUE
                      THEN Started(x[1]) ELSE exec[x]]
        /\ firedBoot' = [r \in Daily |->
                           (IF newDay THEN 0 ELSE firedBoot[r]) + (IF r \in start THEN 1 ELSE 0)]
        /\ UNCHANGED <<run, startupDelay>>
    BY DEF Tick
  <1> HIDE DEF newDay, due, start
  <1> QED
    BY <1>1, <1>2, <1>3, <1>4, <1>5, <1>6, <1>7

(* A heartbeat keeps the invariant.                                        *)
LEMMA TickKeeps ==
  ASSUME LoopInv, NEW d \in {0, 1}, Tick(d)
  PROVE  LoopInv'
  <1>1. PICK newDay \in BOOLEAN, due \in SUBSET Responsibilities, start \in SUBSET Responsibilities :
           /\ start \subseteq due
           /\ \A r \in start : ~running[r] /\ Free(r) # {}
           /\ \A r \in due \cap Daily : newDay \/ ~ranToday[r]
           /\ ranToday' = [r \in Daily |-> (ranToday[r] /\ ~newDay) \/ r \in due]
           /\ running' = [r \in Responsibilities |-> running[r] \/ r \in start]
           /\ exec' = [x \in Runs |->
                         IF x[1] \in start /\ x[2] = CHOOSE g \in Free(x[1]) : TRUE
                         THEN Started(x[1]) ELSE exec[x]]
           /\ firedBoot' = [r \in Daily |->
                              (IF newDay THEN 0 ELSE firedBoot[r]) + (IF r \in start THEN 1 ELSE 0)]
           /\ minute' \in 0 .. DayLength - 1
           /\ wait' \in [DOMAIN Frequency -> Nat]
           /\ UNCHANGED <<run, startupDelay>>
    BY TickShape, Zenon
  <1>2. AgentInv'
    BY <1>1 DEF LoopInv, AgentInv, AgentTypeOK
  <1>3. ASSUME NEW r PROVE Started(r) \in ExecState
    BY DEF Started, NoExec, ExecState
  <1>4. TypeOK'
    BY <1>1, <1>2, <1>3 DEF LoopInv, TypeOK, AgentInv
  <1>5. Exclusive'
    <2>1. ASSUME NEW r \in Responsibilities, NEW g \in Goroutines, Busy(r, g)'
          PROVE  \/ r \in start /\ g = CHOOSE h \in Free(r) : TRUE
                 \/ r \notin start /\ Busy(r, g)
      <3>1. <<r, g>> \in Runs
        BY SchedulerAssumption
      <3>2. exec'[<<r, g>>] = IF r \in start /\ g = CHOOSE h \in Free(r) : TRUE
                              THEN Started(r) ELSE exec[<<r, g>>]
        BY <1>1, <3>1
      <3>3. r \in start => ~Busy(r, g)
        BY <1>1 DEF LoopInv, Exclusive
      <3> QED
        BY <2>1, <3>2, <3>3 DEF Busy
    <2>2. ASSUME NEW r \in Responsibilities, NEW g \in Goroutines, Busy(r, g)'
          PROVE  running'[r]
      BY <1>1, <2>1, <2>2 DEF LoopInv, Exclusive
    <2>3. ASSUME NEW r \in Responsibilities, NEW g \in Goroutines, NEW h \in Goroutines,
                 Busy(r, g)', Busy(r, h)'
          PROVE  g = h
      BY <2>1, <2>3 DEF LoopInv, Exclusive
    <2> QED
      BY <2>2, <2>3 DEF Exclusive
  <1>6. Remembered'
    <2>1. ASSUME NEW r \in Daily
          PROVE  firedBoot'[r] \in {0, 1} /\ (firedBoot'[r] = 1 => ranToday'[r])
      <3>1. firedBoot[r] \in {0, 1} /\ (firedBoot[r] = 1 => ranToday[r])
        BY DEF LoopInv, Remembered
      <3>2. ranToday'[r] = ((ranToday[r] /\ ~newDay) \/ r \in due)
        BY <1>1
      <3>3. firedBoot'[r] = (IF newDay THEN 0 ELSE firedBoot[r]) + (IF r \in start THEN 1 ELSE 0)
        BY <1>1
      <3>4. CASE r \in start
        <4>1. r \in due /\ (newDay \/ firedBoot[r] = 0)
          BY <1>1, <3>1, <3>4
        <4>2. firedBoot'[r] = 1
          BY <3>3, <3>4, <4>1
        <4> QED
          BY <3>2, <4>1, <4>2
      <3>5. CASE r \notin start
        <4>1. firedBoot'[r] = IF newDay THEN 0 ELSE firedBoot[r]
          BY <3>1, <3>3, <3>5
        <4>2. firedBoot'[r] \in {0, 1} /\ (firedBoot'[r] = 1 => ~newDay /\ firedBoot[r] = 1)
          BY <3>1, <4>1
        <4> QED
          BY <3>1, <3>2, <4>2, Zenon
      <3> QED
        BY <3>4, <3>5
    <2> QED
      BY <1>1, <2>1 DEF Remembered
  <1> QED
    BY <1>2, <1>4, <1>5, <1>6 DEF LoopInv

(* A restart clears flags, goroutines and schedule together, and a step of *)
(* the wall clock touches none of them.                                    *)
LEMMA FaultKeeps ==
  ASSUME LoopInv, Restart \/ ClockStep
  PROVE  LoopInv'
  <1>1. CASE Restart
    <2>1. PICK j \in 0 .. MaxJitter : NewLoop(j)
      BY <1>1 DEF Restart
    <2>2. AgentInv'
      BY <2>1, FreshRun DEF NewLoop, AgentInv, AgentTypeOK
    <2>3. TypeOK'
      BY <1>1, <2>1, <2>2, SchedulerAssumption
      DEF Restart, NewLoop, LoopInv, TypeOK, AgentInv, ExecState, NoExec
    <2>4. Exclusive'
      BY <2>1, SchedulerAssumption DEF NewLoop, Exclusive, Busy, NoExec
    <2>5. Remembered'
      BY <2>1 DEF NewLoop, Remembered
    <2> QED
      BY <2>2, <2>3, <2>4, <2>5 DEF LoopInv
  <1>2. CASE ClockStep
    BY <1>2 DEF ClockStep, schedule, LoopInv, TypeOK, AgentInv, AgentTypeOK, Exclusive, Busy, Remembered
  <1> QED
    BY <1>1, <1>2

-----------------------------------------------------------------------------
(* The loop's flags, goroutines and schedule, and the conversations of its *)
(* agents, satisfy the inductive invariant in every reachable state.       *)
THEOREM SchedulerInvariant == Spec => []LoopInv
  <1>1. LoopInv /\ [Next]_vars => LoopInv'
    <2> SUFFICES ASSUME LoopInv, [Next]_vars PROVE LoopInv'
      OBVIOUS
    <2>1. CASE Next
      BY <2>1, TickKeeps, ExecuteKeeps, FaultKeeps DEF Next
    <2>2. CASE UNCHANGED vars
      BY <2>2 DEF vars, schedule, LoopInv, TypeOK, AgentInv, AgentTypeOK, Exclusive, Busy, Remembered
    <2> QED
      BY <2>1, <2>2
  <1> QED
    BY <1>1, InitLoop, PTL DEF Spec

(* A set whose elements are all equal has at most one.                     *)
LEMMA AtMostOne ==
  ASSUME NEW S, \A g, h \in S : g = h
  PROVE  Cardinality(S) <= 1
  <1>1. CASE S = {}
    <2>1. Cardinality(S) = 0
      BY <1>1, FS_EmptySet
    <2> QED
      BY <2>1
  <1>2. ASSUME NEW g \in S PROVE Cardinality(S) <= 1
    <2>1. S = {g}
      OBVIOUS
    <2>2. Cardinality({g}) = 1
      BY FS_Singleton
    <2> QED
      BY <2>1, <2>2
  <1> QED
    BY <1>1, <1>2

(* The runs of a responsibility never overlap, however many goroutines the *)
(* runtime would allow, across restarts and clock steps.                   *)
THEOREM RunsNeverOverlap == Spec => []NoOverlap
  <1>1. LoopInv => NoOverlap
    <2> SUFFICES ASSUME LoopInv, NEW r \in Responsibilities
                 PROVE  Cardinality({g \in Goroutines : exec[<<r, g>>].pc # "none"}) <= 1
      BY DEF NoOverlap
    <2>1. \A g, h \in {i \in Goroutines : exec[<<r, i>>].pc # "none"} : g = h
      BY DEF LoopInv, Exclusive, Busy
    <2> QED
      BY <2>1, AtMostOne
  <1> QED
    BY <1>1, SchedulerInvariant, PTL

(* One process starts a daily responsibility at most once per date, for    *)
(* any length of the day, startup delay and sequence of clock steps.       *)
THEOREM DailyOncePerProcess == Spec => []OncePerDateAndBoot
  <1>1. LoopInv => OncePerDateAndBoot
    BY DEF LoopInv, Remembered, OncePerDateAndBoot
  <1> QED
    BY <1>1, SchedulerInvariant, PTL

(* No run executes the same tool call twice, whatever the model asks for   *)
(* and however long its replies are.                                       *)
THEOREM ToolRunsOnce == Spec => []ToolExecutedOnce
  <1>1. LoopInv => ToolExecutedOnce
    BY DEF LoopInv, AgentInv, ConversationOK, ToolExecutedOnce
  <1> QED
    BY <1>1, SchedulerInvariant, PTL

(* Every tool call has its answer before the next request to the model.    *)
THEOREM ConversationWellFormed == Spec => []EveryCallAnswered
  <1>1. LoopInv => EveryCallAnswered
    BY DEF LoopInv, AgentInv, ConversationOK, EveryCallAnswered
  <1> QED
    BY <1>1, SchedulerInvariant, PTL
=============================================================================
