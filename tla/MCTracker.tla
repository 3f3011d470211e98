------------------------------ MODULE MCTracker ------------------------------
(***************************************************************************)
(* Two instances of the gateway's statistics.  "window": two recorders on  *)
(* a moving clock, nothing saved.  "disk": a recorder, the ticker, resets, *)
(* failed saves and ends of the process, at one time.                      *)
(***************************************************************************)
EXTENDS Tracker

CONSTANTS DiskRequests, MaxTroubles   \* in "disk"
VARIABLE focus
vars == <<trackerVars, focus>>

MCOrder == <<"host1", "host2", "role", "errors">>
\* The endpoint of a request, then the series it is recorded in: answered,
\* or given up before it was dispatched.
Answered(host) == <<host, host>>
AnsweredForRole(host) == <<host, host, "role">>
GivenUp(host) == <<host, "errors">>
MCWorks == {AnsweredForRole("host1"), GivenUp("host1"), Answered("host1"), GivenUp("host2")}
MCEndpoints == {"host1", "host2"}
MCRecorders == {"r1", "r2"}
MCSavers == {"ticker", "reset"}

Init == TrackerInit /\ focus \in {"window", "disk"}

Arriving(recorders, works) == \E r \in recorders, work \in works : Arrive(r, work)
Recording == \E r \in Recorders : RecorderStep(r)
Saving == \E p \in Savers : SaverStep(p) \/ SaveFails(p)
Resetting == ResetBegins \/ Reset

Next ==
    /\ UNCHANGED focus
    /\ \/ Recording
       \/ focus = "window" /\ (Arriving(Recorders, {AnsweredForRole("host1"), GivenUp("host1")}) \/ Tick)
       \/ focus = "disk" /\ Arriving({"r1"}, {Answered("host1"), GivenUp("host2")}) /\ requests' <= DiskRequests
       \/ focus = "disk" /\ (Saving \/ Resetting \/ Kill \/ ConcurrentMapAccess)
    /\ resets' + kills' + saveFails' <= MaxTroubles

\* Goroutines that can run do; requests and resets need not come.
Fairness ==
    /\ \A r \in Recorders : WF_vars(RecorderStep(r) /\ UNCHANGED focus)
    /\ \A p \in Savers : WF_vars(focus = "disk" /\ SaverStep(p) /\ UNCHANGED focus)
    /\ WF_vars(focus = "disk" /\ Reset /\ UNCHANGED focus)

Spec == Init /\ [][Next]_vars /\ Fairness

\* SavedInTheEnd, where there is a file.
SavedWhereSaving == focus = "disk" => SavedInTheEnd
=============================================================================
