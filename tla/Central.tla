------------------------------- MODULE Central -------------------------------
(***************************************************************************)
(* What central derives from the fleet (central-backend: intelligence,     *)
(* its cache and store, briefing and its cache, wsHub, the operator's      *)
(* controllers, the purge): analysis runs that ask a model for a report,   *)
(* keep it on disk and give the last reports to the next run; a briefing   *)
(* regenerated when the fleet is updated; browsers that are sent the whole *)
(* state whenever a part of it changes.                                    *)
(***************************************************************************)
EXTENDS Fleet

CONSTANTS
    Clients,      \* browsers
    HistorySize,  \* intelligence.historySize
    MaxReports    \* bound on the runs of the interval timer and the operator

ASSUME CentralAssumption == HistorySize \in Nat

VARIABLES
    model,      \* intelligence.baseUrl is set
    run,        \* the analysis under way: pc, by, ctx, epoch
    status,     \* intelligenceCache status
    report,     \* intelligenceCache report
    hasReport,  \* _hasReport
    retry,      \* _initialRetryTimer is set
    latest, history,  \* intelligence-latest.json; lines of intelligence-history.jsonl
    briefing, stale,  \* the fleet that the briefing describes; its time is up
    gen,        \* the fleet that the briefing being generated describes
    shown,      \* browsers: what each was sent last
    purge,      \* the purge under way
    produced, purges,
    accepted,   \* history: reports whose line was written since the purge
    spoiled,    \* history: a report with a malformed item was accepted
    spared,     \* history: reports the last purge left on disk, or under way
    invalidated \* history: invalidate() since the last update of the fleet

analysisVars == <<model, run, status, report, hasReport, retry, latest, history, produced, accepted, spoiled>>
briefingVars == <<briefing, stale, gen, invalidated>>
purgeVars == <<purge, purges, spared>>
restVars == <<analysisVars, briefingVars, purgeVars, shown>>
centralVars == <<fleetVars, restVars>>

None == [no |-> 0, good |-> TRUE, epoch |-> 0]
Saved == [no |-> 1, good |-> TRUE, epoch |-> 0]
Torn == [no |-> -1, good |-> TRUE, epoch |-> 0]
NoRun == [pc |-> "idle", by |-> "", ctx |-> <<>>, epoch |-> 0]
Closed == [open |-> FALSE, data |-> <<>>]

CentralInit ==
    /\ FleetInit
    /\ run = NoRun /\ status = [running |-> FALSE, failed |-> FALSE]
    /\ latest \in {None, Saved} /\ history = (IF latest = None THEN <<>> ELSE <<Saved>>)
    /\ model \in BOOLEAN /\ retry = model
    /\ report = (IF model THEN latest ELSE None) /\ hasReport = (report # None)
    /\ briefing = NoFleet /\ stale = TRUE /\ gen = NoFleet /\ shown = [c \in Clients |-> Closed]
    /\ purge = "no" /\ produced = Len(history) /\ purges = 0 /\ accepted = history
    /\ spoiled = FALSE /\ spared = {} /\ invalidated = FALSE

-----------------------------------------------------------------------------
(* Browsers.                                                                *)

\* buildPayload: everything at once.
BuildPayload == [open |-> TRUE, data |-> <<fleet, report, status, briefing>>]

\* broadcast, after any change and only once there is a fleet.
Broadcast == shown' = [c \in Clients |-> IF shown[c].open /\ fleet' # NoFleet THEN BuildPayload' ELSE shown[c]]

\* Mutant of Connect: a new browser waits for the next change.
ConnectSilently(c) ==
    /\ ~shown[c].open
    /\ shown' = [shown EXCEPT ![c] = [Closed EXCEPT !.open = TRUE]]
    /\ UNCHANGED <<fleetVars, analysisVars, briefingVars, purgeVars>>

\* A connection whose token has been checked.
Connect(c) ==
    /\ ~shown[c].open
    /\ shown' = [shown EXCEPT ![c] = IF fleet = NoFleet THEN [Closed EXCEPT !.open = TRUE] ELSE BuildPayload]
    /\ UNCHANGED <<fleetVars, analysisVars, briefingVars, purgeVars>>

-----------------------------------------------------------------------------
(* The briefing.                                                            *)

\* Mutant of Generate: only when there is no briefing yet.
GenerateOnce == gen' = IF model /\ briefing = NoFleet /\ gen = NoFleet THEN fleet' ELSE gen

\* generate() on an update of the fleet, up to its request to the model.
Generate == gen' = IF model /\ stale /\ gen = NoFleet THEN fleet' ELSE gen

\* setFleet with its two subscribers, wsHub and briefing.
UpdateFleet(p) ==
    /\ SetFleet(p) /\ Generate
    /\ invalidated' = FALSE
    /\ UNCHANGED <<analysisVars, briefing, stale, purgeVars, restarts>>
    /\ Broadcast

Generated ==
    /\ gen # NoFleet
    /\ briefing' = gen /\ stale' = FALSE /\ gen' = NoFleet
    /\ UNCHANGED <<fleetVars, analysisVars, invalidated, purgeVars>>
    /\ Broadcast

\* An error, an empty answer or one that is no JSON: try at a later update.
GenerateFails ==
    /\ gen # NoFleet /\ fails < MaxFails /\ fails' = fails + 1
    /\ gen' = NoFleet
    /\ UNCHANGED <<hostVars, fleet, poll, mailVars, overlaps, restarts>>
    /\ UNCHANGED <<analysisVars, briefing, stale, invalidated, purgeVars, shown>>

TtlElapses ==
    /\ ~stale /\ stale' = TRUE
    /\ UNCHANGED <<fleetVars, analysisVars, briefing, gen, invalidated, purgeVars, shown>>

\* The agent is told first, and only if it answers does anything else happen.
AtAgent(e) ==
    /\ changes < MaxChanges /\ changes' = changes + 1
    /\ e \in live /\ e.host \in up /\ live' = live \ {e}
    /\ UNCHANGED <<inventory, mailing, up, old, day, fleet, poll, mailVars, fails, overlaps, restarts>>

Invalidate == stale' = TRUE /\ invalidated' = TRUE

DecideApproval(e) ==
    /\ e.type = "approval" /\ AtAgent(e) /\ Invalidate
    /\ UNCHANGED <<analysisVars, briefing, gen, purgeVars, shown>>

ResolveIssue(e) ==
    /\ e.type = "finding" /\ AtAgent(e) /\ Invalidate
    /\ UNCHANGED <<analysisVars, briefing, gen, purgeVars, shown>>

\* DELETE /memory on the hosts that answer.
Cleared(hosts) == {e \in live : e.host \notin hosts \cap up}

\* refreshFleet
RefreshFleet(p) == poll[p].pc = "idle" /\ poll' = [poll EXCEPT ![p] = FreshPoll("refresh")]

\* clearAgentMemory, and its refresh in the background.
ClearAgentMemory(h, p) ==
    /\ changes < MaxChanges /\ changes' = changes + 1
    /\ h \in inventory \cap up /\ live' = Cleared({h})
    /\ RefreshFleet(p)
    /\ UNCHANGED <<inventory, mailing, up, old, day, fleet, mailVars, fails, overlaps, restarts>>
    /\ UNCHANGED <<analysisVars, briefingVars, purgeVars, shown>>

-----------------------------------------------------------------------------
(* The store: a crash may cut a write short, and the next line then joins   *)
(* what is left of it.                                                      *)

TornTail == history # <<>> /\ history[Len(history)] = Torn
Appended(line) == IF TornTail THEN history ELSE Append(history, line)

\* Mutant of LoadHistory: the first lines instead of the last.
LoadHistoryOldest ==
    LET lines == SubSeq(history, 1, IF Len(history) < HistorySize THEN Len(history) ELSE HistorySize)
    IN  IF \E i \in DOMAIN lines : lines[i] = Torn THEN <<>> ELSE lines

\* loadHistory: one unreadable line among the last n and there is no history.
LoadHistory ==
    LET lines == SubSeq(history, IF Len(history) < HistorySize THEN 1 ELSE Len(history) - HistorySize + 1, Len(history))
    IN  IF \E i \in DOMAIN lines : lines[i] = Torn THEN <<>> ELSE lines

LoadLatest(file) == IF file = Torn THEN None ELSE file

\* intelligence.start with everything in memory lost.
Started(file) ==
    /\ ForgetFleet
    /\ run' = NoRun /\ status' = [running |-> FALSE, failed |-> FALSE]
    /\ report' = (IF model THEN LoadLatest(file) ELSE None) /\ hasReport' = (report' # None)
    /\ retry' = model /\ UNCHANGED model
    /\ briefing' = NoFleet /\ stale' = TRUE /\ gen' = NoFleet /\ invalidated' = FALSE
    /\ shown' = [c \in Clients |-> Closed] /\ purge' = "no"
    /\ UNCHANGED <<purges, spared>>

Restart ==
    /\ restarts < MaxRestarts /\ restarts' = restarts + 1
    /\ Started(latest)
    /\ UNCHANGED <<latest, history, produced, accepted, spoiled>>

-----------------------------------------------------------------------------
(* Analysis.                                                                *)

\* analyse() up to its first await, for the caller by: without a fleet it
\* fails at once.
Analyse(by) ==
    /\ model /\ run = NoRun
    /\ produced < MaxReports \/ ~hasReport
    /\ IF fleet = NoFleet
       THEN /\ status' = [running |-> FALSE, failed |-> TRUE] /\ UNCHANGED run
            /\ retry' = IF by = "initial" THEN ~hasReport ELSE retry
       ELSE /\ status' = [running |-> TRUE, failed |-> FALSE]
            /\ run' = [pc |-> "gather", by |-> by, ctx |-> LoadHistory, epoch |-> purges]
            /\ retry' = (retry /\ by # "initial")
    /\ UNCHANGED <<fleetVars, model, report, hasReport, latest, history, produced, accepted, spoiled, briefingVars, purgeVars>>
    /\ Broadcast

\* Mutant of InitialRun: the timer is not set again.
InitialRunOnce ==
    /\ retry
    /\ retry' = FALSE
    /\ IF run = NoRun /\ fleet # NoFleet /\ (produced < MaxReports \/ ~hasReport)
       THEN /\ status' = [running |-> TRUE, failed |-> FALSE]
            /\ run' = [pc |-> "gather", by |-> "initial", ctx |-> LoadHistory, epoch |-> purges]
       ELSE UNCHANGED <<run, status>>
    /\ UNCHANGED <<fleetVars, model, report, hasReport, latest, history, produced, accepted, spoiled, briefingVars, purgeVars>>
    /\ Broadcast

\* The first run, and its retries until there is a report: a run that is
\* already under way counts as a failure.
InitialRun ==
    \/ retry /\ Analyse("initial")
    \/ /\ retry /\ run # NoRun /\ retry' = ~hasReport
       /\ UNCHANGED <<fleetVars, model, run, status, report, hasReport, latest, history, produced, accepted, spoiled>>
       /\ UNCHANGED <<briefingVars, purgeVars, shown>>

\* The interval timer, and the operator's refresh.
IntervalRun == Analyse("interval")
Refresh == Analyse("operator")

\* serializeHistory reads the length of fields that a malformed item lacks.
SerializeHistoryThrows(ctx) == \E i \in DOMAIN ctx : ~ctx[i].good

\* The details have been gathered (an agent that does not answer is left out).
\* When serializeHistory throws, refresh() catches it; under a timer nobody
\* does and the process ends.
Gathered ==
    /\ run.pc = "gather"
    /\ \/ /\ ~SerializeHistoryThrows(run.ctx)
          /\ run' = [run EXCEPT !.pc = "ask"]
          /\ UNCHANGED <<fleetVars, model, status, report, hasReport, retry, latest, history, produced, accepted, spoiled>>
          /\ UNCHANGED <<briefingVars, purgeVars, shown>>
       \/ /\ SerializeHistoryThrows(run.ctx)
          /\ IF run.by = "operator"
             THEN /\ run' = NoRun
                  /\ UNCHANGED <<fleetVars, model, status, report, hasReport, retry, briefingVars, purgeVars, shown>>
             ELSE Started(latest) /\ UNCHANGED restarts
          /\ UNCHANGED <<latest, history, produced, accepted, spoiled>>

NewReport(good) == [no |-> produced + 1, good |-> good, epoch |-> run.epoch]

\* The model answered with JSON: setReport, persist and setStatus.
Answered(good) ==
    /\ run.pc = "ask"
    /\ LET r == NewReport(good)
       IN  /\ report' = r /\ hasReport' = TRUE /\ produced' = produced + 1
           /\ spoiled' = (spoiled \/ ~good)
           /\ \/ /\ latest' = r /\ history' = Appended(r) /\ accepted' = Append(accepted, r)
                 /\ UNCHANGED fails
              \/ /\ fails < MaxFails /\ fails' = fails + 1 /\ latest' \in {latest, r}
                 /\ UNCHANGED <<history, accepted>>
    /\ run' = NoRun /\ status' = [running |-> FALSE, failed |-> FALSE]
    /\ UNCHANGED <<hostVars, fleet, poll, mailVars, overlaps, restarts, model, retry, briefingVars, purgeVars>>
    /\ Broadcast

\* The process is killed while it writes the report.
KilledInPersist ==
    /\ run.pc = "ask" /\ restarts < MaxRestarts /\ restarts' = restarts + 1
    /\ LET r == NewReport(TRUE)
       IN  \/ latest' = Torn /\ UNCHANGED history
           \/ latest' = r /\ history' = Appended(Torn)
    /\ Started(latest')
    /\ UNCHANGED <<produced, accepted, spoiled>>

\* Mutant of AnswerFails: the status is left as it is.
AnswerFailsSilently ==
    /\ run.pc = "ask" /\ fails < MaxFails /\ fails' = fails + 1
    /\ run' = NoRun
    /\ retry' = (retry \/ (run.by = "initial" /\ ~hasReport))
    /\ UNCHANGED <<hostVars, fleet, poll, mailVars, overlaps, restarts, status, shown>>
    /\ UNCHANGED <<model, report, hasReport, latest, history, produced, accepted, spoiled, briefingVars, purgeVars>>

\* The model failed, or answered with something else.
AnswerFails ==
    /\ run.pc = "ask" /\ fails < MaxFails /\ fails' = fails + 1
    /\ run' = NoRun /\ status' = [running |-> FALSE, failed |-> TRUE]
    /\ retry' = (retry \/ (run.by = "initial" /\ ~hasReport))
    /\ UNCHANGED <<hostVars, fleet, poll, mailVars, overlaps, restarts>>
    /\ UNCHANGED <<model, report, hasReport, latest, history, produced, accepted, spoiled, briefingVars, purgeVars>>
    /\ Broadcast

-----------------------------------------------------------------------------
(* The purge: the agents, then the gateway, then central's own caches.      *)

PurgeAgents ==
    /\ purge = "no" /\ changes < MaxChanges /\ changes' = changes + 1
    /\ purge' = "gateway" /\ live' = Cleared(inventory)
    /\ UNCHANGED <<inventory, mailing, up, old, day, fleet, poll, mailVars, fails, overlaps, restarts>>
    /\ UNCHANGED <<analysisVars, briefingVars, purges, spared, shown>>

Named(r) == <<r.no, r.epoch>>
UnderWay == IF run = NoRun THEN {} ELSE {Named(NewReport(TRUE))}
Readable(reports) == {Named(r) : r \in reports \ {None, Torn}}
Lines == {history[i] : i \in DOMAIN history}

\* Mutant of ClearAll: the latest report stays.
ClearHistoryOnly ==
    \/ history' = <<>> /\ accepted' = <<>> /\ spared' = UnderWay /\ UNCHANGED latest
    \/ /\ spared' = UnderWay \cup Readable({latest} \cup Lines)
       /\ UNCHANGED <<latest, history, accepted>>

\* clearAll: a file that cannot be removed stays, and so does the one after
\* it; the error is caught.
ClearAll ==
    \/ /\ latest' = None /\ history' = <<>> /\ accepted' = <<>>
       /\ spared' = UnderWay
    \/ /\ latest' = None /\ UNCHANGED <<history, accepted>>
       /\ spared' = UnderWay \cup Readable(Lines)
    \/ /\ UNCHANGED <<latest, history, accepted>>
       /\ spared' = UnderWay \cup Readable({latest} \cup Lines)

PurgeCaches(p) ==
    /\ purge = "gateway" /\ purge' = "no" /\ purges' = purges + 1
    /\ ClearAll
    /\ report' = None /\ briefing' = NoFleet /\ stale' = TRUE
    /\ RefreshFleet(p)
    /\ UNCHANGED <<hostVars, fleet, mailVars, fails, overlaps, restarts>>
    /\ UNCHANGED <<model, run, status, hasReport, retry, produced, spoiled, gen, invalidated>>
    /\ Broadcast

-----------------------------------------------------------------------------
(* The parts together.                                                      *)

PollStep(p) ==
    \/ UpdateFleet(p)
    \/ (StartPoll(p) \/ (\E h \in Hosts : Fetch(p, h)) \/ NotifierStep(p)) /\ UNCHANGED restVars

AnalysisStep ==
    \/ InitialRun \/ IntervalRun \/ Refresh
    \/ Gathered \/ AnswerFails \/ \E good \in BOOLEAN : Answered(good)
    \/ KilledInPersist

BriefingStep == Generated \/ GenerateFails \/ TtlElapses

OperatorStep ==
    \/ \E e \in Entries : DecideApproval(e) \/ ResolveIssue(e)
    \/ \E p \in Polls : PurgeCaches(p) \/ \E h \in Hosts : ClearAgentMemory(h, p)
    \/ PurgeAgents
    \/ \E c \in Clients : Connect(c)

CentralNext ==
    \/ \E p \in Polls : PollStep(p)
    \/ AnalysisStep \/ BriefingStep \/ OperatorStep \/ Restart
    \/ HostsChange /\ UNCHANGED restVars

CentralSpec == CentralInit /\ [][CentralNext]_centralVars

-----------------------------------------------------------------------------
(* Properties.                                                              *)

\* A browser shows the current fleet, report, status and briefing, whatever
\* happened in which order before and after it connected (wsHub.js:111-166).
ClientsUpToDate == fleet # NoFleet => \A c \in Clients : shown[c].open => shown[c] = BuildPayload

\* The status says that an analysis is under way exactly while one is, as
\* long as no report had a malformed item (intelligence.js:358-376).
RunIsShown == spoiled \/ (status.running <=> run # NoRun)

\* "Tracks whether an analysis run is currently in flight"
\* (intelligenceCache.js:30), reports with malformed items included.
StatusTracksRun == status.running <=> run # NoRun

\* A run is given the last reports that were written, in order, or after a
\* write that was cut short none; never a gap (intelligenceStore.js:69-81).
ContextIsRecent ==
    LET recent == SubSeq(accepted, IF Len(accepted) < HistorySize THEN 1 ELSE Len(accepted) - HistorySize + 1, Len(accepted))
    IN  LoadHistory = recent \/ (LoadHistory = <<>> /\ restarts > 0)

\* After a purge no report from before it is shown, comes back by a restart or
\* is given to a later run, but for the one being made at the purge and those
\* whose file could not be removed (admin.js:35-37, intelligenceStore.js:44-52).
PurgedReportsGone ==
    LET kept(r) == r.epoch = purges \/ Named(r) \in spared
    IN  /\ report # None => kept(report)
        /\ run.epoch = purges => \A i \in DOMAIN run.ctx : kept(run.ctx[i])

\* "invalidate() forces regeneration on the next fleet update"
\* (briefingCache.js:2).
InvalidateForcesRegeneration == [][(invalidated /\ fleet' # NoFleet /\ ~invalidated') => gen' = fleet']_centralVars

\* However often the first run finds no fleet, fails or is overtaken, there
\* is a report in the end, reports with malformed items aside
\* (intelligence.js:529-537).
FirstReport == <>[](model => hasReport \/ spoiled)

\* Once nothing changes any more, the cache is the state of the hosts, whatever
\* polls and refreshes overlapped (poller.js:9-25, fleet.js:139); a report with
\* a malformed item may restart central again and again.
FleetCatchesUp == <>[](fleet = World \/ spoiled)

\* And so does the briefing, although its generation may fail or be overtaken
\* by decisions (briefing.js:126-191).
BriefingCatchesUp == <>[](model => briefing = World \/ spoiled)
=============================================================================
