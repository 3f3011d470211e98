----------------------------- MODULE MCMonitors -----------------------------
(***************************************************************************)
(* The incident ledger and the monitors for TLC.  The monitors meet only   *)
(* in the ledger, so one behaviour exercises one of them at a time, with   *)
(* the other callers of the ledger: "focus" says which.                    *)
(***************************************************************************)
EXTENDS Monitors, TLC

CONSTANT Tags  \* model values: what else is reported to the ledger

VARIABLE focus

vars == <<monitorVars, focus>>

\* Three sessions of a user: two from one address, one from a host name.
MCUserOf == [s \in Sid |-> "ann"]
MCSourceOf == [s \in Sid |-> IF s = "s2" THEN "host" ELSE "ip"]
MCStartHour == [s \in Sid |-> 0]
MCSuspects == {<<"ip", TRUE>>, <<"host", FALSE>>}
MCAllowed == {<<"ip", TRUE>>}

\* An inbound connection, one to the agent's own port, and an outbound one.
MCConns == { [key |-> 1, port |-> 22, remote |-> "r1", process |-> "sshd"],
             [key |-> 2, port |-> 80, remote |-> "r1", process |-> ""],
             [key |-> 3, port |-> 99, remote |-> "r2", process |-> "sshd"] }

\* The connections a behaviour is about, by their keys: any two of the three.
Pairs == [inbound |-> {1, 2}, mixed |-> {1, 3}, outbound |-> {2, 3}]

Problem == { <<t>> : t \in Tags }
MCFingerprints ==
    Problem \cup { <<"newuser", "ann">>, <<"offhours", "ann">> }
    \cup { <<"newsource", "ann", o>> : o \in Origins } \cup UNION { Features(c) : c \in Conns }
Init ==
    /\ MonitorsInit
    /\ focus \in {"ledger", "logins", "failures"} \cup DOMAIN Pairs
    /\ focus \in {"ledger"} \cup DOMAIN Pairs => \A s \in Sid : sess[s] = "none"
    /\ focus = "logins" => sess["s3"] = "none"
    /\ focus = "failures" => sess["s2"] = "none" /\ sess["s3"] = "none"

\* Logins from two origins, with failing accesses; failures around one login.
Next ==
    /\ UNCHANGED focus
    /\ \/ /\ focus = "ledger"
          /\ ManageIncidents(Problem) \/ LedgerTick
          /\ UNCHANGED <<loginVars, connVars>>
       \/ /\ focus = "logins"
          /\ Watch \/ CheckLogins \/ Resolves
          /\ sess'["s3"] = "none" /\ faults' + lfaults' <= 1 /\ UNCHANGED connVars
       \/ /\ focus = "failures"
          /\ Watch \/ \E k \in Suspects : HandleFailure(k)
          /\ sess'["s2"] = "none" /\ sess'["s3"] = "none"
          /\ faults' + lfaults' = 0 /\ UNCHANGED connVars
       \/ /\ focus \in DOMAIN Pairs
          /\ ConnNext
          /\ {c.key : c \in prev'} \subseteq Pairs[focus]
          /\ restarts' + faults' + cfaults' <= 1 /\ UNCHANGED loginVars

Spec == Init /\ [][Next]_vars
=============================================================================
