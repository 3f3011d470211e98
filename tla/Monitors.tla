------------------------------ MODULE Monitors ------------------------------
(***************************************************************************)
(* The monitors and the incident ledger together: they run in threads of   *)
(* their own and meet only in the ledger, which agent runs use as well.    *)
(***************************************************************************)
EXTENDS LoginMonitor, ConnMonitor

monitorVars == <<loginVars, connVars, ledgerVars>>

MonitorsInit == LedgerInit /\ LoginInit /\ ConnInit

MonitorsNext ==
    \/ LoginNext /\ UNCHANGED connVars
    \/ ConnNext /\ UNCHANGED loginVars
    \/ LedgerNext /\ UNCHANGED <<loginVars, connVars>>

MonitorsSpec == MonitorsInit /\ [][MonitorsNext]_monitorVars
=============================================================================
