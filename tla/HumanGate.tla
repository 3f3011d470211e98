------------------------------ MODULE HumanGate ------------------------------
(***************************************************************************)
(* What the approval flow promises, whatever the goroutines of the agent   *)
(* do: an action that needs approval is carried out at most once per       *)
(* approval the operator granted for it, and approvals are granted only    *)
(* for requests that were filed.                                           *)
(***************************************************************************)
EXTENDS Naturals

CONSTANT Ids

VARIABLES filed, granted, acts

gateVars == <<filed, granted, acts>>

GateInit ==
    /\ filed = {}
    /\ granted = [i \in Ids |-> 0]
    /\ acts = [i \in Ids |-> 0]

File(i) ==
    /\ i \notin filed
    /\ filed' = filed \cup {i}
    /\ UNCHANGED <<granted, acts>>

Grant(i) ==
    /\ i \in filed
    /\ granted' = [granted EXCEPT ![i] = @ + 1]
    /\ UNCHANGED <<filed, acts>>

Act(i) ==
    /\ acts[i] < granted[i]
    /\ acts' = [acts EXCEPT ![i] = @ + 1]
    /\ UNCHANGED <<filed, granted>>

GateNext == \E i \in Ids : File(i) \/ Grant(i) \/ Act(i)

GateSpec == GateInit /\ [][GateNext]_gateVars
=============================================================================
