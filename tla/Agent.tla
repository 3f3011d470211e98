------------------------------- MODULE Agent --------------------------------
(***************************************************************************)
(* agent.Agent.Run: the tool-use loop of the endpoint agent against the    *)
(* chat completions API, for several runs side by side.  A tool call is    *)
(* its signature (name and arguments); what the model answers, and whether *)
(* a tool succeeds, are choices of the environment.                        *)
(***************************************************************************)
EXTENDS Integers, Sequences

CONSTANTS
    Runs,       \* the calls of Run
    Calls,      \* signatures a model may ask for
    Tools,      \* for each run, the signatures whose tool it was given
    MaxIter,    \* cfg.Agent.MaxIter
    MaxCalls    \* bound on the tool calls of one reply

ASSUME AgentAssumption ==
    /\ Tools \in [Runs -> SUBSET Calls]
    /\ MaxIter \in Nat /\ MaxCalls \in Nat

VARIABLE run    \* the local variables of each Run

Failures == {"apiError", "empty", "maxIter"}
Successes == {"answer", "repeated"}

NotStarted ==
    [pc |-> "none", iter |-> 0, todo |-> <<>>, count |-> [c \in Calls |-> 0],
     result |-> {}, execs |-> [c \in Calls |-> 0], open |-> 0,
     out |-> "none", last |-> "none"]

AgentInit == run = [x \in Runs |-> NotStarted]

\* Run is called: messages, toolCallCounts and lastToolResult are fresh.
RunBegin(x) == run' = [run EXCEPT ![x] = [NotStarted EXCEPT !.pc = "infer"]]

Return(x, out) == run' = [run EXCEPT ![x].pc = "done", ![x].todo = <<>>, ![x].out = out]

\* One iteration's chat completion: an error, no choices, a final answer, or
\* a turn of tool calls, which joins the conversation.  A request without
\* tools (req.Tools is not set) gets no tool calls back.
RunInfer(x) ==
    /\ run[x].pc = "infer"
    /\ run[x].iter < MaxIter
    /\ \/ \E out \in {"apiError", "empty", "answer"} : Return(x, out)
       \/ /\ Tools[x] # {}
          /\ \E n \in 0 .. MaxCalls : \E todo \in [1 .. n -> Calls] :
                run' = [run EXCEPT ![x].pc = "tools", ![x].todo = todo, ![x].open = @ + Len(todo)]

RunExhausted(x) ==
    /\ run[x].pc = "infer"
    /\ run[x].iter = MaxIter
    /\ Return(x, "maxIter")

\* Every call of the turn has been handled.
RunNextIteration(x) ==
    /\ run[x].pc = "tools"
    /\ run[x].todo = <<>>
    /\ run' = [run EXCEPT ![x].pc = "infer", ![x].iter = @ + 1]

Handling(x) == run[x].pc = "tools" /\ run[x].todo # <<>>
Call(x) == Head(run[x].todo)

\* The tool message for the current call; on to the next one.
Answered(r) == [r EXCEPT !.todo = Tail(@), !.open = @ - 1]

\* Mutant: the loop continues without a message for an unknown tool.
UnknownToolSkipped(x) ==
    /\ Handling(x)
    /\ Call(x) \notin Tools[x]
    /\ run' = [run EXCEPT ![x].todo = Tail(@)]

\* Mutant: an unknown tool gets two messages.
UnknownToolTwice(x) ==
    /\ Handling(x)
    /\ Call(x) \notin Tools[x]
    /\ run' = [run EXCEPT ![x].todo = Tail(@), ![x].open = @ - 2]

UnknownTool(x) ==
    /\ Handling(x)
    /\ Call(x) \notin Tools[x]
    /\ run' = [run EXCEPT ![x] = Answered(@)]

Counted(x) == [run[x] EXCEPT !.count[Call(x)] = @ + 1]

\* Mutant: the third identical call is nudged like the second.
RepeatLimitLate == 4

\* The occurrence of an identical call that ends the run.
RepeatLimit == 3

Known(x, counts) == Handling(x) /\ Call(x) \in Tools[x] /\ run[x].count[Call(x)] + 1 \in counts

\* The third identical call: Run returns lastToolResult, which is "" when the
\* one execution failed, and no error.
RepeatedTool(x) ==
    /\ Known(x, {RepeatLimit})
    /\ run' = [run EXCEPT ![x] =
                 [Counted(x) EXCEPT !.pc = "done", !.todo = <<>>, !.out = "repeated",
                      !.last = IF Call(x) \in run[x].result THEN "result" ELSE "nothing"]]

\* The second identical call: the model is told to use what it has.
NudgeTool(x) ==
    /\ Known(x, 2 .. RepeatLimit - 1)
    /\ run' = [run EXCEPT ![x] = Answered(Counted(x))]

\* Mutant: an execution that failed is not counted, so it is retried.
ExecuteToolRetries(x) ==
    /\ Known(x, {1})
    /\ \/ run' = [run EXCEPT ![x] = [Answered(Counted(x)) EXCEPT
                     !.execs[Call(x)] = @ + 1, !.result = @ \cup {Call(x)}]]
       \/ run' = [run EXCEPT ![x] = [Answered(run[x]) EXCEPT !.execs[Call(x)] = @ + 1]]

\* The first call of this signature: Execute, then its result or its error.
ExecuteTool(x) ==
    /\ Known(x, {1})
    /\ \/ run' = [run EXCEPT ![x] = [Answered(Counted(x)) EXCEPT
                     !.execs[Call(x)] = @ + 1, !.result = @ \cup {Call(x)}]]
       \/ run' = [run EXCEPT ![x] = [Answered(Counted(x)) EXCEPT !.execs[Call(x)] = @ + 1]]

AgentStep(x) ==
    \/ RunInfer(x) \/ RunExhausted(x) \/ RunNextIteration(x)
    \/ UnknownTool(x) \/ RepeatedTool(x) \/ NudgeTool(x) \/ ExecuteTool(x)

-----------------------------------------------------------------------------
(* Properties of one run.                                                   *)

RunState ==
    [pc : {"none", "infer", "tools", "done"}, iter : 0 .. MaxIter, todo : Seq(Calls),
     count : [Calls -> Nat], result : SUBSET Calls, execs : [Calls -> Nat], open : Nat,
     out : {"none"} \cup Failures \cup Successes, last : {"none", "result", "nothing"}]

(* The locals of Run have their types.                                      *)
AgentTypeOK == run \in [Runs -> RunState]

(* However the model repeats itself, and whether or not it failed, a tool  *)
(* runs at most once per run for the same arguments.                       *)
ToolExecutedOnce == \A x \in Runs, c \in Calls : run[x].execs[c] <= 1

(* The conversation sent to the API is well formed: at every inference     *)
(* each tool call of the earlier turns has its tool message, on the paths  *)
(* that execute nothing too.                                               *)
EveryCallAnswered == \A x \in Runs : run[x].pc = "infer" => run[x].open = 0

(* Short-circuiting repeats works: a run that fails because it is out of   *)
(* iterations never asked for the same thing three times.                  *)
RepeatsNeverExhaust ==
    \A x \in Runs : run[x].out = "maxIter" => \A c \in Tools[x] : run[x].count[c] < 3

(* What docs/endpoint-server.md says of the third identical call: it       *)
(* returns the cached result.                                              *)
RepeatReturnsResult ==
    \A x \in Runs : run[x].out = "repeated" => run[x].last = "result"
=============================================================================
