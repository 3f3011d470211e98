---------------------------- MODULE MCScheduler -----------------------------
(* Scheduler for TLC: a frequency-based responsibility with a pre-check and *)
(* a tool, and a daily one without either, in days of three minutes.         *)
EXTENDS Scheduler, TLC

CONSTANTS check, insights, df, ps

MCFrequency == check :> 2
MCTimeOfDay == insights :> 2
MCRuns == {check, insights} \X {1, 2}
MCTools == [x \in MCRuns |-> IF x[1] = check THEN {df} ELSE {}]
MCWhenToNotify == check :> "on_error" @@ insights :> "always"
=============================================================================
