---------------------------- MODULE MCOperations ----------------------------
(***************************************************************************)
(* Model checking of what shares the timeline of an agent: manual runs,    *)
(* commands with their policies, findings, and the status built from it.   *)
(* Each behaviour is about one of them, chosen initially; the parts it is  *)
(* not about stay in their initial state.                                  *)
(*   answers    two POSTs for one manual run, a crash or a failed read     *)
(*   cards      one POST and the agent's findings on the same timeline     *)
(*   retention  two manual runs, the clock and the sweeper                 *)
(*   policies   two calls, policies created and deleted, failures          *)
(*   counts     a long run of approvals of three commands                  *)
(*   status     concurrent GET /status while alerts come and go            *)
(***************************************************************************)
EXTENDS ManualRuns, Commands, Status, TLC

CONSTANTS r1, r2, h1, h2, t1, t2, agent, f1

VARIABLE focus

MCRuns == {r1, r2}
MCPosts == {h1, h2}
MCTasks == {t1, t2}
MCWriters == MCRuns \cup MCPosts \cup MCTasks \cup {agent}

\* fix it in three spellings, one of them on two lines, a fix with more to
\* it, another change, reads, reads with a redirection, placeholders, echoes.
Changing == {<<"fix", "it">>, <<"fix", " ", "it">>, <<"fix", "\n", "it", " ">>,
             <<"fix", "it", ";", "more">>, <<"mend">>}
MCCmds == Changing \cup {<<"ls">>, <<" ", "ls", "x">>, <<"ls", ">", "x">>, <<"none">>, <<"true">>, <<" ">>,
                         <<"echo", "x">>, <<"echo", "x", ">", "y">>}
MCPhrases == {<<"none">>}
MCBuiltins == {<<"true">>}
MCPatterns == {"fix", "any"}
MCCovers == [p \in MCPatterns |-> IF p = "fix" THEN {<<"fix", "it">>} ELSE Normals]

MCItems == {Item("a", "approval", "", "high", "pending"), Item("e", "escalation", "", "", ""),
            Item("c", "observation", "critical", "", "")}

manualOnly == <<attrsVars, waiter, post, told, age, manualHistory>>
commandOnly == <<policyVars, task, proposals, slips, ran, approved, suggested>>
vars == <<manualOnly, commandOnly, timelineVars, statusVars, focus>>

Foci == {"answers", "cards", "retention", "policies", "counts", "status"}

Init ==
    /\ focus \in Foci
    /\ ManualInit /\ CommandInit /\ StatusInit
    /\ focus # "status" => items = {}

ManualFocus ==
    /\ focus \in {"answers", "cards", "retention"}
    /\ \/ ManualNext
       \/ focus = "cards" /\ FindingsStep(agent) /\ UNCHANGED manualOnly
    /\ focus # "answers" => post'[h2] = Idle
    /\ focus # "retention" => waiter'[r2].pc = "idle"
    /\ crashes' + misreads' <= IF focus = "retention" THEN 0 ELSE 1
    /\ focus = "cards" => crashes' = 0
    /\ focus = "retention" => posts' = 0
    /\ UNCHANGED <<commandOnly, statusVars>>

CommandFocus ==
    /\ focus \in {"policies", "counts"}
    /\ CommandNext
    /\ misreads' = 0
    /\ focus = "policies" => /\ proposals' <= 2 /\ proposals' + created' + slips' <= 3
                             /\ \A t \in Tasks : task'[t].cmd # <<"mend">>
    /\ focus = "counts" => created' + slips' = 0 /\ task'[t2] = Free
    /\ UNCHANGED <<manualOnly, statusVars>>

StatusFocus == focus = "status" /\ StatusNext /\ UNCHANGED <<manualOnly, commandOnly, timelineVars>>

Next == (ManualFocus \/ CommandFocus \/ StatusFocus) /\ UNCHANGED focus

Spec == Init /\ [][Next]_vars /\ ManualFairness /\ StatusFairness
=============================================================================
