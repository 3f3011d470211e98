------------------------------- MODULE MCFleet -------------------------------
(***************************************************************************)
(* Central on small instances, one at a time: the notifier with            *)
(* overlapping polls; analysis runs, the store and the purge; the briefing *)
(* with the operator's decisions; the chats, which share no state with the *)
(* rest.                                                                   *)
(***************************************************************************)
EXTENDS Central, Chat

CONSTANT MaxTroubles  \* bound on changes, failures, overlaps and restarts together

VARIABLE focus

Foci == {"mail", "analysis", "briefing", "chat"}

MCEntries == {[id |-> "c", host |-> "a", type |-> "finding", high |-> FALSE],
              [id |-> "p", host |-> "a", type |-> "approval", high |-> TRUE]}

vars == <<centralVars, chatVars, focus>>

Init ==
    /\ CentralInit /\ ChatInit /\ focus \in Foci
    /\ focus = "chat" => inventory = {}
    /\ focus \in {"mail", "analysis"} => inventory = Hosts
    /\ mailing = (focus = "mail") /\ model = (focus \in {"analysis", "briefing"})
    /\ (latest = None) = (focus = "analysis")
    /\ (live = {}) = (focus = "analysis")

\* In the analysis focus the hosts stay as they are and answer: a poll matters
\* when it finds the first fleet or starts a briefing.  No polls overlap there,
\* so that one is the timer's and the other the purge's.
Timer(p) ==
    /\ focus = "analysis" => /\ p = 1
                             /\ fleet = NoFleet \/ (stale /\ gen = NoFleet) \/ produced >= MaxReports
    /\ StartPoll(p) /\ UNCHANGED restVars

PollProgress(p) ==
    \/ /\ (\E h \in Hosts : Fetch(p, h)) \/ EnterStage(p) \/ Pick(p) \/ EnterDaily(p) \/ MailSent(p)
       /\ UNCHANGED restVars
    \/ UpdateFleet(p)

Polling(p) == Timer(p) \/ PollProgress(p) \/ (MailFails(p) /\ UNCHANGED restVars)
Briefing == Generated \/ GenerateFails

\* No model is configured and nobody is looking.
Mail == HostsChange /\ UNCHANGED restVars

Analysis ==
    \/ AnalysisStep \/ PurgeAgents \/ PurgeCaches(2)
    \/ Briefing \/ \E c \in Clients : Connect(c)

\* No analysis is due yet.
Brief ==
    /\ \/ Briefing \/ TtlElapses \/ \E c \in Clients : Connect(c)
       \/ \E p \in Polls, h \in Hosts : ClearAgentMemory(h, p)
       \/ HostsChange /\ UNCHANGED restVars
       \/ \E e \in Entries : DecideApproval(e) \/ ResolveIssue(e)
    /\ old' = {} /\ day' = 0

Derived ==
    /\ \/ \E p \in Polls : Polling(p)
       \/ Restart
       \/ focus = "mail" /\ Mail
       \/ focus = "analysis" /\ Analysis
       \/ focus = "briefing" /\ Brief
    /\ changes' + fails' + overlaps' + restarts' <= (IF focus = "analysis" THEN MaxTroubles - 1 ELSE MaxTroubles)
    /\ focus = "analysis" => overlaps' = 0 /\ \A p \in Polls : poll'[p].got # [h \in Hosts |-> Offline]

Next ==
    /\ \/ focus # "chat" /\ Derived /\ UNCHANGED chatVars
       \/ focus = "chat" /\ ChatNext /\ UNCHANGED centralVars
    /\ UNCHANGED focus

\* Requests end by their timeouts and timers fire; mails, models and hosts
\* fail a bounded number of times; nobody need connect, decide or purge.
Fairly(A) == focus # "chat" /\ A /\ UNCHANGED <<chatVars, focus>>

Fairness ==
    /\ WF_vars(Fairly(\E p \in Polls : Timer(p)))
    /\ \A p \in Polls : WF_vars(Fairly(PollProgress(p)))
    /\ WF_vars(Fairly(PurgeCaches(2)))
    /\ WF_vars(Fairly(Generated))
    /\ WF_vars(Fairly(focus = "briefing" /\ TtlElapses))
    /\ WF_vars(Fairly(focus = "analysis" /\ InitialRun))
    /\ WF_vars(Fairly(Gathered \/ Answered(TRUE)))

Spec == Init /\ [][Next]_vars /\ Fairness
==============================================================================
