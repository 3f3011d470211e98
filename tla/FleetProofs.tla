---------------------------- MODULE FleetProofs -----------------------------
(***************************************************************************)
(* Proofs about central: browsers show the current state, a purged report  *)
(* does not come back, and every repeated mail has its reason.             *)
(***************************************************************************)
EXTENDS Central, FiniteSetTheorems, TLAPS

(***************************************************************************)
(* What browsers show.                                                     *)
(***************************************************************************)

\* What a browser is sent is all there is to see, so whatever leaves these
\* alone, or broadcasts, keeps it up to date.
seen == <<fleet, report, status, briefing, shown>>

ShownInv ==
    /\ shown = [c \in Clients |-> shown[c]]
    /\ ClientsUpToDate

LEMMA ShownUnchanged == ShownInv /\ UNCHANGED seen => ShownInv'
  BY Zenon DEF ShownInv, ClientsUpToDate, BuildPayload, seen

LEMMA ShownBroadcast == ShownInv /\ Broadcast => ShownInv'
  <1> SUFFICES ASSUME ShownInv, Broadcast PROVE ShownInv'
    OBVIOUS
  <1>1. shown' = [c \in Clients |-> shown'[c]]
    BY Zenon DEF Broadcast
  <1>2. ASSUME fleet' # NoFleet, NEW c \in Clients, shown'[c].open
        PROVE  shown'[c] = BuildPayload'
    <2>1. shown'[c] = IF shown[c].open THEN BuildPayload' ELSE shown[c]
      BY <1>2, Zenon DEF Broadcast
    <2> QED
      BY <1>2, <2>1, Zenon
  <1>3. ClientsUpToDate'
    BY <1>2, Zenon DEF ClientsUpToDate
  <1> QED
    BY <1>1, <1>3, Zenon DEF ShownInv

LEMMA ShownAfresh == shown' = [c \in Clients |-> Closed] => ShownInv'
  <1> SUFFICES ASSUME shown' = [c \in Clients |-> Closed] PROVE ShownInv'
    OBVIOUS
  <1>1. ASSUME NEW c \in Clients
        PROVE  shown'[c] = Closed /\ ~shown'[c].open
    BY SMT DEF Closed
  <1>2. shown' = [c \in Clients |-> shown'[c]]
    BY Zenon
  <1> QED
    BY <1>1, <1>2, Zenon DEF ShownInv, ClientsUpToDate

LEMMA ShownConnect ==
    ASSUME ShownInv, NEW c \in Clients, Connect(c)
    PROVE  ShownInv'
  <1> DEFINE new == IF fleet = NoFleet THEN [Closed EXCEPT !.open = TRUE] ELSE BuildPayload
  <1>1. /\ UNCHANGED <<fleet, report, status, briefing>>
        /\ shown' = [shown EXCEPT ![c] = new]
    BY Zenon DEF Connect, fleetVars, analysisVars, briefingVars
  <1>2. shown' = [b \in Clients |-> shown'[b]] /\ shown'[c] = new
        /\ \A b \in Clients : b # c => shown'[b] = shown[b]
    BY <1>1, Zenon DEF ShownInv
  <1>3. BuildPayload' = BuildPayload
    BY <1>1, Zenon DEF BuildPayload
  <1>4. ASSUME fleet' # NoFleet, NEW b \in Clients, shown'[b].open
        PROVE  shown'[b] = BuildPayload'
    <2>1. CASE b = c
      BY <2>1, <1>1, <1>2, <1>3, <1>4, Zenon
    <2>2. CASE b # c
      BY <2>2, <1>1, <1>2, <1>3, <1>4, Zenon DEF ShownInv, ClientsUpToDate
    <2> QED
      BY <2>1, <2>2, Zenon
  <1> QED
    BY <1>2, <1>4, Zenon DEF ShownInv, ClientsUpToDate

\* Every step of central keeps the browsers up to date.
LEMMA ShownStep == ShownInv /\ [CentralNext]_centralVars => ShownInv'
  <1> SUFFICES ASSUME ShownInv, [CentralNext]_centralVars PROVE ShownInv'
    OBVIOUS
  <1> USE ShownInv
  <1>1. ASSUME NEW p \in Polls, PollStep(p)
        PROVE  ShownInv'
    <2>1. CASE UpdateFleet(p)
      BY <2>1, ShownBroadcast, Zenon DEF UpdateFleet
    <2>2. CASE StartPoll(p) /\ UNCHANGED restVars
      BY <2>2, ShownUnchanged, Zenon DEF StartPoll, seen, restVars, analysisVars, briefingVars
    <2>3. CASE (\E h \in Hosts : Fetch(p, h)) /\ UNCHANGED restVars
      BY <2>3, ShownUnchanged, Zenon DEF Fetch, seen, restVars, analysisVars, briefingVars
    <2>4. CASE NotifierStep(p) /\ UNCHANGED restVars
      <3>1. UNCHANGED fleet
        BY <2>4, Zenon DEF NotifierStep, EnterStage, Pick, EnterDaily, MailSent, MailFails
      <3> QED
        BY <2>4, <3>1, ShownUnchanged, Zenon DEF seen, restVars, analysisVars, briefingVars
    <2> QED
      BY <1>1, <2>1, <2>2, <2>3, <2>4, Zenon DEF PollStep
  <1>2. CASE AnalysisStep
    <2>1. ASSUME NEW by, Analyse(by)
          PROVE  ShownInv'
      BY <2>1, ShownBroadcast, Zenon DEF Analyse
    <2>2. CASE InitialRun
      BY <2>1, <2>2, ShownUnchanged, Zenon
      DEF InitialRun, seen, fleetVars, briefingVars
    <2>3. CASE IntervalRun \/ Refresh
      BY <2>1, <2>3, Zenon DEF IntervalRun, Refresh
    <2>4. CASE Gathered
      BY <2>4, ShownUnchanged, ShownAfresh, Zenon
      DEF Gathered, Started, seen, fleetVars, briefingVars
    <2>5. CASE AnswerFails \/ \E good \in BOOLEAN : Answered(good)
      BY <2>5, ShownBroadcast, Zenon DEF AnswerFails, Answered
    <2>6. CASE KilledInPersist
      BY <2>6, ShownAfresh, Zenon DEF KilledInPersist, Started
    <2> QED
      BY <1>2, <2>2, <2>3, <2>4, <2>5, <2>6, Zenon DEF AnalysisStep
  <1>3. CASE BriefingStep
    <2>1. CASE Generated
      BY <2>1, ShownBroadcast, Zenon DEF Generated
    <2>2. CASE GenerateFails \/ TtlElapses
      BY <2>2, ShownUnchanged, Zenon
      DEF GenerateFails, TtlElapses, seen, fleetVars, analysisVars
    <2> QED
      BY <1>3, <2>1, <2>2, Zenon DEF BriefingStep
  <1>4. CASE OperatorStep
    <2>1. ASSUME NEW e \in Entries, DecideApproval(e) \/ ResolveIssue(e)
          PROVE  ShownInv'
      BY <2>1, ShownUnchanged, Zenon
      DEF DecideApproval, ResolveIssue, AtAgent, seen, analysisVars
    <2>2. ASSUME NEW p \in Polls, PurgeCaches(p)
          PROVE  ShownInv'
      BY <2>2, ShownBroadcast, Zenon DEF PurgeCaches
    <2>3. ASSUME NEW p \in Polls, NEW h \in Hosts, ClearAgentMemory(h, p)
          PROVE  ShownInv'
      BY <2>3, ShownUnchanged, Zenon DEF ClearAgentMemory, seen, analysisVars, briefingVars
    <2>4. CASE PurgeAgents
      BY <2>4, ShownUnchanged, Zenon DEF PurgeAgents, seen, analysisVars, briefingVars
    <2> QED
      BY <1>4, <2>1, <2>2, <2>3, <2>4, ShownConnect, Zenon DEF OperatorStep
  <1>5. CASE Restart
    BY <1>5, ShownAfresh, Zenon DEF Restart, Started
  <1>6. CASE HostsChange /\ UNCHANGED restVars
    BY <1>6, ShownUnchanged, Zenon DEF HostsChange, seen, restVars, analysisVars, briefingVars
  <1>7. CASE UNCHANGED centralVars
    BY <1>7, ShownUnchanged, Zenon
    DEF centralVars, restVars, fleetVars, analysisVars, briefingVars, seen
  <1> QED
    BY <1>1, <1>2, <1>3, <1>4, <1>5, <1>6, <1>7, Zenon DEF CentralNext

\* A browser shows the current fleet, report, status and briefing, whatever
\* order polls, analyses, purges and connections come in (wsHub.js:111-166).
THEOREM BrowsersUpToDate == CentralSpec => []ClientsUpToDate
  <1>1. CentralInit => ShownInv
    <2>1. ASSUME CentralInit PROVE fleet = NoFleet /\ shown = [c \in Clients |-> Closed]
      BY <2>1, Zenon DEF CentralInit, FleetInit
    <2>2. ASSUME CentralInit PROVE shown = [c \in Clients |-> shown[c]]
      BY <2>1, <2>2, Zenon
    <2> QED
      BY <2>1, <2>2, Zenon DEF ShownInv, ClientsUpToDate
  <1>2. ShownInv => ClientsUpToDate
    BY Zenon DEF ShownInv
  <1> QED
    BY <1>1, <1>2, ShownStep, PTL DEF CentralSpec

(***************************************************************************)
(* Reports and the purge.                                                  *)
(***************************************************************************)

\* A report that may still be shown or used is of the time after the last
\* purge, or one that the purge did not reach.
Kept(r) == r.epoch = purges \/ Named(r) \in spared

IsRun(r) == r = [pc |-> r.pc, by |-> r.by, ctx |-> r.ctx, epoch |-> r.epoch]
IsLog(h) == h \in Seq({h[i] : i \in DOMAIN h})

LogKept == IsLog(history) /\ \A i \in DOMAIN history : history[i] # None /\ (history[i] # Torn => Kept(history[i]))

RunKept ==
    /\ IsRun(run) /\ run.epoch \in Nat /\ run.epoch <= purges
    /\ run # NoRun => run.epoch = purges \/ <<produced + 1, run.epoch>> \in spared
    /\ run.epoch = purges => \A i \in DOMAIN run.ctx : Kept(run.ctx[i])

ReportInv ==
    /\ report # None => Kept(report)
    /\ latest \notin {None, Torn} => Kept(latest)
    /\ LogKept /\ RunKept
    /\ purges \in Nat /\ produced \in Nat

reportVars == <<report, latest, history, run, purges, spared, produced>>

LEMMA ReportUnchanged == ReportInv /\ UNCHANGED reportVars => ReportInv'
  <1> SUFFICES ASSUME ReportInv, UNCHANGED reportVars PROVE ReportInv'
    OBVIOUS
  <1>1. /\ report' = report /\ latest' = latest /\ history' = history /\ run' = run
        /\ purges' = purges /\ spared' = spared /\ produced' = produced
    BY Zenon DEF reportVars
  <1> QED
    BY <1>1, Zenon DEF ReportInv, LogKept, RunKept, IsLog, Kept, Named, IsRun

LEMMA NoRunKept ==
    ASSUME purges' \in Nat, run' = NoRun
    PROVE  RunKept'
  <1>1. IsRun(NoRun) /\ NoRun.epoch = 0 /\ NoRun.ctx = <<>>
    BY Zenon DEF IsRun, NoRun
  <1>2. 0 \in Nat /\ 0 <= purges' /\ DOMAIN <<>> = {}
    BY SMT
  <1>3. IsRun(run)'
    BY <1>1, Zenon DEF IsRun
  <1> QED
    BY <1>1, <1>2, <1>3, Zenon DEF RunKept

\* What a restart reads from the disk.
LEMMA ReportStarted ==
    ASSUME purges \in Nat, NEW disk, disk = latest', produced' = produced, produced \in Nat,
           disk \notin {None, Torn} => Kept(disk), LogKept', Started(disk)
    PROVE  ReportInv'
  <1>1. UNCHANGED <<purges, spared>> /\ run' = NoRun
    BY Zenon DEF Started
  <1>2. report' = None \/ (report' = disk /\ disk # Torn)
    BY Zenon DEF Started, LoadLatest
  <1>3. RunKept'
    BY <1>1, NoRunKept, Zenon
  <1> QED
    BY <1>1, <1>2, <1>3, Zenon DEF ReportInv, Kept, Named

\* An analysis under way keeps its epoch, and so does the report it yields.
LEMMA NewReportKept ==
    ASSUME ReportInv, run.pc = "ask", NEW good
    PROVE  Kept(NewReport(good)) /\ NewReport(good) # None
  <1>1. run # NoRun
    <2>1. NoRun.pc = "idle"
      BY Zenon DEF NoRun
    <2> QED
      BY <2>1, Zenon
  <1>2. NewReport(good).epoch = run.epoch /\ NewReport(good).no = produced + 1
    BY Zenon DEF NewReport
  <1>3. None.no = 0 /\ produced + 1 # 0
    BY SMT DEF ReportInv, None
  <1> QED
    BY <1>1, <1>2, <1>3, Zenon DEF ReportInv, RunKept, Kept, Named

\* One line more in the log.
LEMMA LogAppended ==
    ASSUME LogKept, UNCHANGED <<purges, spared>>, NEW line, line # None, line # Torn => Kept(line),
           history' = Appended(line)
    PROVE  LogKept'
  <1>1. CASE history' = history
    BY <1>1, Zenon DEF LogKept, IsLog, Kept, Named
  <1>2. CASE history' = Append(history, line)
    <2>1. PICK h, k : h = history /\ k = history'
      OBVIOUS
    <2>2. IsLog(h) /\ k = Append(h, line)
      BY <1>2, <2>1, Zenon DEF LogKept
    <2>3. /\ Len(h) \in Nat /\ DOMAIN h = 1 .. Len(h) /\ DOMAIN k = 1 .. Len(h) + 1
          /\ k[Len(h) + 1] = line /\ \A i \in 1 .. Len(h) : k[i] = h[i]
      BY <2>2, SMT DEF IsLog
    <2>4. \A i \in DOMAIN k : i \in DOMAIN h \/ k[i] = line
      BY <2>3, SMT
    <2>5. \A i \in DOMAIN h : k[i] = h[i]
      BY <2>3, Zenon
    <2>6. IsLog(k)
      <3>1. PICK S : S = {k[i] : i \in DOMAIN k}
        BY Zenon
      <3>2. \A i \in DOMAIN k : k[i] \in S
        BY <3>1, Zenon
      <3>3. DOMAIN h \subseteq DOMAIN k /\ Len(h) + 1 \in DOMAIN k
        BY <2>3, SMT
      <3>4. h \in Seq(S) /\ line \in S
        BY <2>2, <2>3, <2>5, <3>2, <3>3, SMT DEF IsLog
      <3>5. k \in Seq(S)
        BY <2>2, <3>4, SMT
      <3> QED
        BY <3>1, <3>5, Zenon DEF IsLog
    <2>7. \A i \in DOMAIN k : k[i] # None /\ (k[i] # Torn => Kept(k[i]))
      BY <2>1, <2>4, <2>5, Zenon DEF LogKept
    <2> QED
      BY <2>1, <2>6, <2>7, Zenon DEF LogKept, IsLog, Kept, Named
  <1> QED
    BY <1>1, <1>2, Zenon DEF Appended

\* What loadHistory gives to a run are lines of the log, none of them torn.
LEMMA LoadedLines ==
    ASSUME LogKept, NEW i \in DOMAIN LoadHistory
    PROVE  Kept(LoadHistory[i])
  <1>1. PICK h, n, m, q : /\ h = history /\ n = Len(h)
                          /\ m = (IF n < HistorySize THEN 1 ELSE n - HistorySize + 1)
                          /\ q = SubSeq(h, m, n)
    BY Zenon
  <1>2. LoadHistory = IF \E j \in DOMAIN q : q[j] = Torn THEN <<>> ELSE q
    BY <1>1, Zenon DEF LoadHistory
  <1>3. LoadHistory = q /\ \A j \in DOMAIN q : q[j] # Torn
    <2>1. LoadHistory # <<>>
      <3>1. DOMAIN <<>> = {}
        BY SMT
      <3> QED
        BY <3>1, Zenon
    <2> QED
      BY <1>2, <2>1, Zenon
  <1>4. IsLog(h) /\ n \in Nat /\ DOMAIN h = 1 .. n
    <2>1. IsLog(h)
      BY <1>1, Zenon DEF LogKept
    <2> QED
      BY <1>1, <2>1, SMT DEF IsLog
  <1>5. m \in Nat /\ m >= 1
    BY <1>1, <1>4, CentralAssumption, SMT
  <1>6. i \in DOMAIN q
    BY <1>3, Zenon
  <1>7. m + i - 1 \in DOMAIN h /\ q[i] = h[m + i - 1]
    BY <1>1, <1>4, <1>5, <1>6, SMT
  <1> QED
    BY <1>1, <1>3, <1>6, <1>7, Zenon DEF LogKept

\* An analysis ends without a report.
LEMMA ReportEnds ==
    ASSUME ReportInv, run' = NoRun, UNCHANGED <<report, latest, history, produced, purges, spared>>
    PROVE  ReportInv'
  <1>1. RunKept'
    BY NoRunKept, Zenon DEF ReportInv
  <1>2. LogKept'
    BY Zenon DEF ReportInv, LogKept, IsLog, Kept, Named
  <1> QED
    BY <1>1, <1>2, Zenon DEF ReportInv, Kept, Named

LEMMA ReportAnalysis == ReportInv /\ AnalysisStep => ReportInv'
  <1> SUFFICES ASSUME ReportInv, AnalysisStep PROVE ReportInv'
    OBVIOUS
  <1> USE ReportInv
  <1>2. ASSUME NEW by, Analyse(by)
        PROVE  ReportInv'
    <2>1. UNCHANGED <<report, latest, history, produced, purges, spared>>
      BY <1>2, Zenon DEF Analyse, purgeVars
    <2>2. CASE UNCHANGED run
      BY <2>1, <2>2, ReportUnchanged, Zenon DEF reportVars
    <2>3. CASE run' = [pc |-> "gather", by |-> by, ctx |-> LoadHistory, epoch |-> purges]
      <3>1. run'.epoch = purges /\ run'.ctx = LoadHistory /\ IsRun(run)'
        BY <2>3, Zenon DEF IsRun
      <3>2. purges \in Nat /\ purges <= purges /\ \A i \in DOMAIN LoadHistory : Kept(LoadHistory[i])
        BY LoadedLines, SMT DEF ReportInv
      <3>3. RunKept'
        BY <2>1, <3>1, <3>2, Zenon DEF RunKept, Kept, Named
      <3>4. LogKept'
        BY <2>1, Zenon DEF ReportInv, LogKept, IsLog, Kept, Named
      <3> QED
        BY <2>1, <3>3, <3>4, Zenon DEF ReportInv, Kept, Named
    <2> QED
      BY <1>2, <2>2, <2>3, Zenon DEF Analyse
  <1>3. CASE InitialRun
    BY <1>2, <1>3, ReportUnchanged, Zenon DEF InitialRun, reportVars, purgeVars
  <1>4. CASE IntervalRun \/ Refresh
    BY <1>2, <1>4, Zenon DEF IntervalRun, Refresh
  <1>5. CASE Gathered
    <2>1. UNCHANGED <<latest, history, produced>>
      BY <1>5, Zenon DEF Gathered
    <2>2. CASE Started(latest)
      <3>1. LogKept'
        BY <2>1, <2>2, Zenon DEF Started, ReportInv, LogKept, IsLog, Kept, Named
      <3> QED
        BY <2>1, <2>2, <3>1, ReportStarted, Zenon DEF ReportInv
    <2>3. CASE run' = [run EXCEPT !.pc = "ask"] /\ UNCHANGED <<report, purgeVars>>
      <3>1. run # NoRun
        <4>1. run.pc = "gather" /\ NoRun.pc = "idle"
          BY <1>5, Zenon DEF Gathered, NoRun
        <4> QED
          BY <4>1, Zenon
      <3>2. run' = [pc |-> "ask", by |-> run.by, ctx |-> run.ctx, epoch |-> run.epoch]
        <4>1. PICK b, c, e : run = [pc |-> run.pc, by |-> b, ctx |-> c, epoch |-> e]
          BY Zenon DEF ReportInv, RunKept, IsRun
        <4> QED
          BY <2>3, <4>1, SMT
      <3>3. run'.epoch = run.epoch /\ run'.ctx = run.ctx /\ IsRun(run)'
        BY <3>2, Zenon DEF IsRun
      <3>4. UNCHANGED <<purges, spared>>
        BY <2>3, Zenon DEF purgeVars
      <3>5. RunKept'
        BY <2>1, <3>1, <3>3, <3>4, Zenon DEF ReportInv, RunKept, Kept, Named
      <3>6. LogKept'
        BY <2>1, <3>4, Zenon DEF ReportInv, LogKept, IsLog, Kept, Named
      <3> QED
        BY <2>1, <2>3, <3>4, <3>5, <3>6, Zenon DEF ReportInv, Kept, Named
    <2>4. CASE run' = NoRun /\ UNCHANGED <<report, purgeVars>>
      BY <2>1, <2>4, ReportEnds, Zenon DEF purgeVars
    <2> QED
      BY <1>5, <2>2, <2>3, <2>4, Zenon DEF Gathered
  <1>6. ASSUME NEW good \in BOOLEAN, Answered(good)
        PROVE  ReportInv'
    <2>1. /\ report' = NewReport(good) /\ latest' \in {latest, NewReport(good)}
          /\ history' \in {history, Appended(NewReport(good))}
          /\ run' = NoRun /\ produced' = produced + 1 /\ UNCHANGED <<purges, spared>>
      BY <1>6, Zenon DEF Answered, purgeVars
    <2>2. Kept(NewReport(good)) /\ NewReport(good) # None
      BY <1>6, NewReportKept, Zenon DEF Answered
    <2>3. LogKept'
      <3>1. CASE history' = history
        BY <2>1, <3>1, Zenon DEF ReportInv, LogKept, IsLog, Kept, Named
      <3>2. CASE history' = Appended(NewReport(good))
        BY <2>1, <2>2, <3>2, LogAppended, Zenon DEF ReportInv
      <3> QED
        BY <2>1, <3>1, <3>2, Zenon
    <2>4. purges' \in Nat /\ produced' \in Nat
      BY <2>1, SMT DEF ReportInv
    <2>5. RunKept'
      BY <2>1, <2>4, NoRunKept, Zenon
    <2>6. Kept(report)' /\ (latest' \notin {None, Torn} => Kept(latest)')
      BY <2>1, <2>2, Zenon DEF ReportInv, Kept, Named
    <2> QED
      BY <2>3, <2>4, <2>5, <2>6, Zenon DEF ReportInv
  <1>7. CASE AnswerFails
    BY <1>7, ReportEnds, Zenon DEF AnswerFails, purgeVars
  <1>8. CASE KilledInPersist
    <2>1. /\ latest' \in {Torn, NewReport(TRUE)} /\ Started(latest') /\ UNCHANGED produced
          /\ history' \in {history, Appended(Torn)}
      BY <1>8, Zenon DEF KilledInPersist
    <2>2. Kept(NewReport(TRUE))
      BY <1>8, NewReportKept, Zenon DEF KilledInPersist
    <2>3. UNCHANGED <<purges, spared>>
      BY <2>1, Zenon DEF Started
    <2>4. LogKept'
      <3>1. CASE history' = history
        BY <2>3, <3>1, Zenon DEF ReportInv, LogKept, IsLog, Kept, Named
      <3>2. CASE history' = Appended(Torn)
        <4>1. Torn # None
          BY SMT DEF Torn, None
        <4> QED
          BY <2>3, <3>2, <4>1, LogAppended, Zenon DEF ReportInv
      <3> QED
        BY <2>1, <3>1, <3>2, Zenon
    <2>5. purges \in Nat /\ produced \in Nat
      BY Zenon DEF ReportInv
    <2> QED
      BY <2>1, <2>2, <2>4, <2>5, ReportStarted, Zenon
  <1> QED
    BY <1>3, <1>4, <1>5, <1>6, <1>7, <1>8, Zenon DEF AnalysisStep

\* The purge spares what it does not reach: the run under way, and files
\* that could not be removed.
LEMMA ReportPurge ==
    ASSUME ReportInv, NEW p \in Polls, PurgeCaches(p)
    PROVE  ReportInv'
  <1>1. report' = None /\ purges' = purges + 1 /\ UNCHANGED <<run, produced>> /\ ClearAll
    BY Zenon DEF PurgeCaches
  <1>2. purges' \in Nat /\ produced' \in Nat /\ run.epoch <= purges' /\ run.epoch # purges'
    BY <1>1, SMT DEF ReportInv, RunKept
  <1>3. UnderWay \subseteq spared'
    BY <1>1, Zenon DEF ClearAll
  <1>4. run # NoRun => <<produced + 1, run.epoch>> \in spared'
    <2>1. Named(NewReport(TRUE)) = <<produced + 1, run.epoch>>
      BY Zenon DEF Named, NewReport
    <2> QED
      BY <1>3, <2>1, Zenon DEF UnderWay
  <1>5. RunKept'
    BY <1>1, <1>2, <1>4, Zenon DEF ReportInv, RunKept, IsRun
  <1>6. \A r \in Lines : history' # <<>> /\ r \notin {None, Torn} => Named(r) \in spared'
    BY <1>1, Zenon DEF ClearAll, Readable
  <1>7. LogKept'
    <2>1. CASE history' = <<>>
      <3>1. IsLog(<<>>) /\ DOMAIN <<>> = {}
        BY SMT DEF IsLog
      <3> QED
        BY <2>1, <3>1, Zenon DEF LogKept, IsLog
    <2>2. CASE history' = history /\ history' # <<>>
      <3>1. IsLog(history)'
        BY <2>2, Zenon DEF ReportInv, LogKept, IsLog
      <3>2. ASSUME NEW i \in DOMAIN history, history[i] # Torn PROVE history[i] # None /\ Kept(history[i])'
        <4>1. history[i] # None /\ history[i] \in Lines
          BY Zenon DEF ReportInv, LogKept, Lines
        <4>2. Named(history[i]) \in spared'
          BY <1>6, <2>2, <3>2, <4>1, Zenon
        <4> QED
          BY <2>2, <4>1, <4>2, Zenon DEF Kept, Named
      <3>3. \A i \in DOMAIN history : history[i] # None
        BY Zenon DEF ReportInv, LogKept
      <3> QED
        BY <2>2, <3>1, <3>2, <3>3, Zenon DEF LogKept
    <2> QED
      BY <1>1, <2>1, <2>2, Zenon DEF ClearAll
  <1>8. latest' \notin {None, Torn} => Kept(latest)'
    <2>1. latest' = latest \/ latest' = None
      BY <1>1, Zenon DEF ClearAll
    <2>2. latest' \notin {None, Torn} => Named(latest) \in spared'
      BY <1>1, Zenon DEF ClearAll, Readable
    <2> QED
      BY <2>1, <2>2, Zenon DEF Kept, Named
  <1> QED
    BY <1>1, <1>2, <1>5, <1>7, <1>8, Zenon DEF ReportInv

\* Every step of central keeps what is shown, stored and under way current.
LEMMA ReportStep == ReportInv /\ [CentralNext]_centralVars => ReportInv'
  <1> SUFFICES ASSUME ReportInv, [CentralNext]_centralVars PROVE ReportInv'
    OBVIOUS
  <1>1. ASSUME NEW p \in Polls, PollStep(p)
        PROVE  ReportInv'
    <2>1. UNCHANGED reportVars
      BY <1>1, Zenon DEF PollStep, UpdateFleet, restVars, analysisVars, purgeVars, reportVars
    <2> QED
      BY <2>1, ReportUnchanged, Zenon
  <1>2. CASE BriefingStep
    <2>1. UNCHANGED reportVars
      BY <1>2, Zenon
      DEF BriefingStep, Generated, GenerateFails, TtlElapses, analysisVars, purgeVars, reportVars
    <2> QED
      BY <2>1, ReportUnchanged, Zenon
  <1>3. CASE OperatorStep
    <2>1. ASSUME NEW e \in Entries, DecideApproval(e) \/ ResolveIssue(e)
          PROVE  UNCHANGED reportVars
      BY <2>1, Zenon DEF DecideApproval, ResolveIssue, analysisVars, purgeVars, reportVars
    <2>2. ASSUME NEW p \in Polls, NEW h \in Hosts, ClearAgentMemory(h, p)
          PROVE  UNCHANGED reportVars
      BY <2>2, Zenon DEF ClearAgentMemory, analysisVars, purgeVars, reportVars
    <2>3. ASSUME NEW c \in Clients, Connect(c)
          PROVE  UNCHANGED reportVars
      BY <2>3, Zenon DEF Connect, analysisVars, purgeVars, reportVars
    <2>4. PurgeAgents => UNCHANGED reportVars
      BY Zenon DEF PurgeAgents, analysisVars, purgeVars, reportVars
    <2> QED
      BY <1>3, <2>1, <2>2, <2>3, <2>4, ReportUnchanged, ReportPurge, Zenon DEF OperatorStep
  <1>4. CASE Restart
    <2>1. UNCHANGED <<latest, history, produced>> /\ Started(latest)
      BY <1>4, Zenon DEF Restart
    <2>2. LogKept'
      BY <2>1, Zenon DEF Started, ReportInv, LogKept, IsLog, Kept, Named
    <2> QED
      BY <2>1, <2>2, ReportStarted, Zenon DEF ReportInv
  <1>5. CASE (HostsChange /\ UNCHANGED restVars) \/ UNCHANGED centralVars
    <2>1. UNCHANGED reportVars
      BY <1>5, Zenon DEF centralVars, restVars, analysisVars, purgeVars, reportVars
    <2> QED
      BY <2>1, ReportUnchanged, Zenon
  <1> QED
    BY <1>1, <1>2, <1>3, <1>4, <1>5, ReportAnalysis, Zenon DEF CentralNext

\* After a purge no earlier report is shown, comes back by a restart or is
\* given to a later analysis, but for the one being made at the purge and those
\* whose file could not be removed (admin.js:35-37, intelligenceStore.js:44-52).
THEOREM PurgedReportsStayGone == CentralSpec => []PurgedReportsGone
  <1>1. CentralInit => ReportInv
    <2> SUFFICES ASSUME CentralInit PROVE ReportInv
      OBVIOUS
    <2>1. /\ run = NoRun /\ purges = 0 /\ latest \in {None, Saved} /\ report \in {None, latest}
          /\ history = (IF latest = None THEN <<>> ELSE <<Saved>>) /\ produced = Len(history)
      BY Zenon DEF CentralInit
    <2>2. Saved.epoch = 0 /\ None.epoch = 0 /\ Saved # None
      BY SMT DEF Saved, None
    <2>3. history = <<>> \/ history = <<Saved>>
      BY <2>1, Zenon
    <2>4. IsLog(history) /\ (\A i \in DOMAIN history : history[i] = Saved) /\ Len(history) \in Nat
      <3>1. CASE history = <<>>
        BY <3>1, SMT DEF IsLog
      <3>2. CASE history = <<Saved>>
        BY <3>2, SMT DEF IsLog
      <3> QED
        BY <2>3, <3>1, <3>2, Zenon
    <2>5. LogKept
      BY <2>1, <2>2, <2>4, Zenon DEF LogKept, Kept
    <2>6. /\ NoRun.epoch = 0 /\ NoRun.ctx = <<>> /\ IsRun(NoRun)
          /\ 0 \in Nat /\ 0 <= 0 /\ DOMAIN <<>> = {}
      BY SMT DEF NoRun, IsRun
    <2>7. RunKept
      BY <2>1, <2>6, Zenon DEF RunKept
    <2> QED
      BY <2>1, <2>2, <2>4, <2>5, <2>6, <2>7, Zenon DEF ReportInv, Kept
  <1>2. ReportInv => PurgedReportsGone
    BY Zenon DEF ReportInv, RunKept, PurgedReportsGone, Kept
  <1> QED
    BY <1>1, <1>2, ReportStep, PTL DEF CentralSpec

(***************************************************************************)
(* Mails.                                                                  *)
(***************************************************************************)

\* The stage that is about a key.
Rank(k) == IF k[1] = "issue" THEN 1 ELSE IF k[1] = "approval" THEN 2 ELSE IF k[1] = "escalate" THEN 3 ELSE 4

\* A poll that may still decide to mail a key.
Waits(r, k) ==
    /\ r.kind = "poll"
    /\ r.stage < Rank(k) \/ (r.stage = Rank(k) /\ (r.pc = "enter" \/ k \in r.todo))

Waiting(k) == {p \in Polls : Waits(poll[p], k)}
Sending(k) == {p \in Polls : k \in poll[p].sending}

IsPoll(r) ==
    r = [pc |-> r.pc, kind |-> r.kind, got |-> r.got, stage |-> r.stage, todo |-> r.todo, sending |-> r.sending]

PollOK(r) ==
    /\ IsPoll(r)
    /\ r.pc \in {"idle", "fetch", "enter", "pick", "mail"}
    /\ r.pc = "idle" => r = NoPoll
    /\ r.pc = "fetch" => r.kind \in {"poll", "refresh"} /\ r.stage = 0 /\ r.todo = {} /\ r.sending = {}
    /\ r.pc = "enter" => r.kind = "poll" /\ r.stage \in 1 .. 4 /\ r.todo = {} /\ r.sending = {}
    /\ r.pc = "pick" => /\ r.kind = "poll" /\ r.stage \in 1 .. 3 /\ r.sending = {}
                        /\ \A k \in r.todo : Rank(k) = r.stage
    /\ r.pc = "mail" => /\ r.kind = "poll" /\ r.stage \in 1 .. 4 /\ r.todo \cap r.sending = {}
                        /\ \A k \in r.todo \cup r.sending : Rank(k) = r.stage

\* A key is remembered as mailed; that of a summary by its day.
Told(k) == (Rank(k) = 4 /\ k[2] <= daily) \/ (Rank(k) # 4 /\ k \in notified)

\* The mails about a key (m), with those under way (s) and those that polls
\* may still decide on (w).  What has been mailed is remembered unless it was
\* dropped since (d); polls that overlap (o) may decide on the same mail.
Tally(rank, told, m, s, w, d, o) ==
    IF rank = 4 THEN m + s <= d + (IF told THEN 1 ELSE 0)
    ELSE IF told THEN m + s <= d + o + 1 /\ m + s + w <= d + o + 2
    ELSE m <= d + o /\ m + s + w <= d + o + 1

KeyOK(k) ==
    Tally(Rank(k), Told(k), mails[k], Cardinality(Sending(k)), Cardinality(Waiting(k)), drops[k], overlaps)

MailInv ==
    /\ mails \in [Keys -> Nat] /\ drops \in [Keys -> Nat] /\ overlaps \in Nat
    /\ day \in Nat /\ daily \in Nat /\ daily <= day
    /\ poll = [p \in Polls |-> poll[p]] /\ \A p \in Polls : PollOK(poll[p])
    /\ \A k \in Keys : KeyOK(k)

\* How the tally of a key changes.
LEMMA TallyLess ==
    ASSUME NEW rank \in 1 .. 4, NEW told \in BOOLEAN, NEW m \in Nat, NEW s \in Nat, NEW w \in Nat,
           NEW d \in Nat, NEW o \in Nat, Tally(rank, told, m, s, w, d, o),
           NEW t \in Nat, NEW v \in Nat, t <= s, v <= w
    PROVE  Tally(rank, told, m, t, v, d, o)
  <1>1. CASE rank = 4
    BY <1>1, SMT DEF Tally
  <1>2. CASE rank # 4 /\ told
    BY <1>2, SMT DEF Tally
  <1>3. CASE rank # 4 /\ ~told
    BY <1>3, SMT DEF Tally
  <1> QED
    BY <1>1, <1>2, <1>3, Zenon

LEMMA TallyAlone ==
    ASSUME NEW rank \in 1 .. 4, NEW told \in BOOLEAN, NEW m \in Nat, NEW s \in Nat, NEW w \in Nat,
           NEW d \in Nat, NEW o \in Nat, Tally(rank, told, m, s, w, d, o), s = 0, w = 0,
           NEW v \in Nat, v <= 1
    PROVE  Tally(rank, told, m, 0, v, d, o)
  <1>1. CASE rank = 4
    BY <1>1, SMT DEF Tally
  <1>2. CASE rank # 4 /\ told
    BY <1>2, SMT DEF Tally
  <1>3. CASE rank # 4 /\ ~told
    BY <1>3, SMT DEF Tally
  <1> QED
    BY <1>1, <1>2, <1>3, Zenon

LEMMA TallyOverlap ==
    ASSUME NEW rank \in 1 .. 4, NEW told \in BOOLEAN, NEW m \in Nat, NEW s \in Nat, NEW w \in Nat,
           NEW d \in Nat, NEW o \in Nat, Tally(rank, told, m, s, w, d, o),
           NEW v \in Nat, v <= w + 1
    PROVE  Tally(rank, told, m, s, v, d, o + 1)
  <1>1. CASE rank = 4
    BY <1>1, SMT DEF Tally
  <1>2. CASE rank # 4 /\ told
    BY <1>2, SMT DEF Tally
  <1>3. CASE rank # 4 /\ ~told
    BY <1>3, SMT DEF Tally
  <1> QED
    BY <1>1, <1>2, <1>3, Zenon

LEMMA TallyDropped ==
    ASSUME NEW rank \in 1 .. 4, NEW told \in BOOLEAN, NEW m \in Nat, NEW s \in Nat, NEW w \in Nat,
           NEW d \in Nat, NEW o \in Nat, Tally(rank, told, m, s, w, d, o), told = TRUE, rank # 4,
           NEW v \in Nat, v <= w
    PROVE  Tally(rank, FALSE, m, s, v, d + 1, o)
  <1>1. CASE rank = 4
    BY <1>1, SMT DEF Tally
  <1>2. CASE rank # 4 /\ told
    BY <1>2, SMT DEF Tally
  <1>3. CASE rank # 4 /\ ~told
    BY <1>3, SMT DEF Tally
  <1> QED
    BY <1>1, <1>2, <1>3, Zenon

LEMMA TallyPicked ==
    ASSUME NEW rank \in 1 .. 4, NEW told \in BOOLEAN, NEW m \in Nat, NEW s \in Nat, NEW w \in Nat,
           NEW d \in Nat, NEW o \in Nat, Tally(rank, told, m, s, w, d, o), told = FALSE, rank # 4,
           NEW t \in Nat, NEW v \in Nat, t = s + 1, v + 1 = w
    PROVE  Tally(rank, FALSE, m, t, v, d, o)
  <1>1. CASE rank = 4
    BY <1>1, SMT DEF Tally
  <1>2. CASE rank # 4 /\ told
    BY <1>2, SMT DEF Tally
  <1>3. CASE rank # 4 /\ ~told
    BY <1>3, SMT DEF Tally
  <1> QED
    BY <1>1, <1>2, <1>3, Zenon

LEMMA TallyNewDay ==
    ASSUME NEW rank \in 1 .. 4, NEW told \in BOOLEAN, NEW m \in Nat, NEW s \in Nat, NEW w \in Nat,
           NEW d \in Nat, NEW o \in Nat, Tally(rank, told, m, s, w, d, o), rank = 4,
           NEW t \in Nat, NEW v \in Nat, t <= s \/ (told = FALSE /\ t = s + 1)
    PROVE  Tally(rank, TRUE, m, t, v, d, o)
  <1>1. CASE rank = 4
    BY <1>1, SMT DEF Tally
  <1>2. CASE rank # 4 /\ told
    BY <1>2, SMT DEF Tally
  <1>3. CASE rank # 4 /\ ~told
    BY <1>3, SMT DEF Tally
  <1> QED
    BY <1>1, <1>2, <1>3, Zenon

LEMMA TallySent ==
    ASSUME NEW rank \in 1 .. 4, NEW told \in BOOLEAN, NEW m \in Nat, NEW s \in Nat, NEW w \in Nat,
           NEW d \in Nat, NEW o \in Nat, Tally(rank, told, m, s, w, d, o),
           NEW t \in Nat, NEW v \in Nat, t + 1 = s, v <= w, rank # 4
    PROVE  Tally(rank, TRUE, m + 1, t, v, d, o)
  <1>1. CASE told
    BY <1>1, SMT DEF Tally
  <1>2. CASE ~told
    BY <1>2, SMT DEF Tally
  <1> QED
    BY <1>1, <1>2, Zenon

LEMMA TallySummary ==
    ASSUME NEW rank \in 1 .. 4, NEW told \in BOOLEAN, NEW m \in Nat, NEW s \in Nat, NEW w \in Nat,
           NEW d \in Nat, NEW o \in Nat, Tally(rank, told, m, s, w, d, o),
           NEW t \in Nat, NEW v \in Nat, t + 1 = s, v <= w, rank = 4
    PROVE  Tally(rank, told, m + 1, t, v, d, o)
  BY SMT DEF Tally

LEMMA TallyForgotten ==
    ASSUME NEW rank \in 1 .. 4, NEW told \in BOOLEAN, NEW m \in Nat, NEW s \in Nat, NEW w \in Nat,
           NEW d \in Nat, NEW o \in Nat, Tally(rank, told, m, s, w, d, o),
           NEW e \in Nat, d <= e, told = TRUE => d + 1 <= e
    PROVE  Tally(rank, FALSE, m, 0, 0, e, o)
  <1>1. CASE rank = 4
    BY <1>1, SMT DEF Tally
  <1>2. CASE rank # 4 /\ told
    BY <1>2, SMT DEF Tally
  <1>3. CASE rank # 4 /\ ~told
    BY <1>3, SMT DEF Tally
  <1> QED
    BY <1>1, <1>2, <1>3, Zenon

\* Two subsets that agree but for one element.
LEMMA SwapCount ==
    ASSUME NEW U, IsFiniteSet(U), NEW A \in SUBSET U, NEW B \in SUBSET U, NEW x \in U, A \ {x} = B \ {x}
    PROVE  /\ Cardinality(A) \in Nat /\ Cardinality(B) \in Nat
           /\ Cardinality(B) + (IF x \in A THEN 1 ELSE 0) = Cardinality(A) + (IF x \in B THEN 1 ELSE 0)
  <1>1. ASSUME NEW C \in SUBSET U
        PROVE  /\ Cardinality(C) \in Nat /\ Cardinality(C \ {x}) \in Nat
               /\ Cardinality(C) = Cardinality(C \ {x}) + (IF x \in C THEN 1 ELSE 0)
    <2>1. IsFiniteSet(C) /\ IsFiniteSet(C \ {x})
      BY FS_Subset, Zenon
    <2>2. Cardinality(C) \in Nat /\ Cardinality(C \ {x}) \in Nat
      BY <2>1, FS_CardinalityType, Zenon
    <2>3. CASE x \in C
      <3>1. Cardinality(C \ {x}) = Cardinality(C) - 1
        BY <2>1, <2>3, FS_RemoveElement, Zenon
      <3> QED
        BY <2>2, <2>3, <3>1, SMT
    <2>4. CASE x \notin C
      <3>1. C \ {x} = C
        BY <2>4, Zenon
      <3> QED
        BY <2>2, <2>4, <3>1, SMT
    <2> QED
      BY <2>3, <2>4, Zenon
  <1>2. PICK c : c = Cardinality(A \ {x}) /\ c = Cardinality(B \ {x})
    BY Zenon
  <1>3. /\ Cardinality(A) \in Nat /\ c \in Nat
        /\ Cardinality(A) = c + (IF x \in A THEN 1 ELSE 0)
    BY <1>1, <1>2, Zenon
  <1>4. /\ Cardinality(B) \in Nat
        /\ Cardinality(B) = c + (IF x \in B THEN 1 ELSE 0)
    BY <1>1, <1>2, Zenon
  <1> QED
    BY <1>3, <1>4, SMT

LEMMA RankType == ASSUME NEW k PROVE Rank(k) \in 1 .. 4
  BY SMT DEF Rank

LEMMA KeyFacts ==
    ASSUME MailInv, NEW k \in Keys
    PROVE  /\ Rank(k) \in 1 .. 4 /\ Told(k) \in BOOLEAN
           /\ mails[k] \in Nat /\ drops[k] \in Nat /\ overlaps \in Nat
           /\ Cardinality(Sending(k)) \in Nat /\ Cardinality(Waiting(k)) \in Nat
           /\ Tally(Rank(k), Told(k), mails[k], Cardinality(Sending(k)), Cardinality(Waiting(k)),
                    drops[k], overlaps)
  <1>1. Sending(k) \subseteq Polls /\ Waiting(k) \subseteq Polls
    BY Zenon DEF Sending, Waiting
  <1>2. IsFiniteSet(Sending(k)) /\ IsFiniteSet(Waiting(k))
    BY <1>1, FS_Subset, FleetAssumption, Zenon
  <1>3. Cardinality(Sending(k)) \in Nat /\ Cardinality(Waiting(k)) \in Nat
    BY <1>2, FS_CardinalityType, Zenon
  <1>4. mails[k] \in Nat /\ drops[k] \in Nat /\ overlaps \in Nat
    BY Zenon DEF MailInv
  <1>5. Told(k) \in BOOLEAN
    BY Zenon DEF Told
  <1>6. KeyOK(k)
    BY Zenon DEF MailInv
  <1> QED
    BY <1>3, <1>4, <1>5, <1>6, RankType, Zenon DEF KeyOK

\* Only one poll moves.
Moves(p) == p \in Polls /\ \A q \in Polls \ {p} : poll'[q] = poll[q]

LEMMA Counts ==
    ASSUME NEW p \in Polls, Moves(p), NEW k
    PROVE  /\ Cardinality(Sending(k)) \in Nat /\ Cardinality(Waiting(k)) \in Nat
           /\ Cardinality(Sending(k))' \in Nat /\ Cardinality(Waiting(k))' \in Nat
           /\ Cardinality(Sending(k))' + (IF k \in poll[p].sending THEN 1 ELSE 0)
                = Cardinality(Sending(k)) + (IF k \in poll'[p].sending THEN 1 ELSE 0)
           /\ Cardinality(Waiting(k))' + (IF Waits(poll[p], k) THEN 1 ELSE 0)
                = Cardinality(Waiting(k)) + (IF Waits(poll'[p], k) THEN 1 ELSE 0)
  <1>1. PICK S, T, V, W : S = Sending(k) /\ T = Sending(k)' /\ V = Waiting(k) /\ W = Waiting(k)'
    BY Zenon
  <1>2. /\ \A q \in S \cup T : q \in Polls
        /\ \A q \in Polls : (q \in S <=> k \in poll[q].sending) /\ (q \in T <=> k \in poll'[q].sending)
    BY <1>1, Zenon DEF Sending
  <1>3. /\ \A q \in V \cup W : q \in Polls
        /\ \A q \in Polls : (q \in V <=> Waits(poll[q], k)) /\ (q \in W <=> Waits(poll'[q], k))
    BY <1>1, Zenon DEF Waiting
  <1>4. S \ {p} = T \ {p} /\ S \in SUBSET Polls /\ T \in SUBSET Polls
    BY <1>2, Zenon DEF Moves
  <1>5. V \ {p} = W \ {p} /\ V \in SUBSET Polls /\ W \in SUBSET Polls
    <2>1. \A q \in Polls \ {p} : q \in V <=> q \in W
      BY <1>3, Zenon DEF Moves
    <2> QED
      BY <1>3, <2>1, Zenon
  <1>0. IsFiniteSet(Polls)
    BY FleetAssumption, Zenon
  <1>6. /\ Cardinality(S) \in Nat /\ Cardinality(T) \in Nat
        /\ Cardinality(T) + (IF p \in S THEN 1 ELSE 0) = Cardinality(S) + (IF p \in T THEN 1 ELSE 0)
    BY <1>4, <1>0, SwapCount, Zenon
  <1>7. /\ Cardinality(V) \in Nat /\ Cardinality(W) \in Nat
        /\ Cardinality(W) + (IF p \in V THEN 1 ELSE 0) = Cardinality(V) + (IF p \in W THEN 1 ELSE 0)
    BY <1>5, <1>0, SwapCount, Zenon
  <1>8. Cardinality(Sending(k))' = Cardinality(T) /\ Cardinality(Waiting(k))' = Cardinality(W)
    BY <1>1, Zenon
  <1> QED
    BY <1>1, <1>2, <1>3, <1>6, <1>7, <1>8, Zenon

\* The tally of a key before a step of one poll, and the counts after it.
KeyMove(k, p, rank, t, m, s, w, d, o, s1, w1) ==
    /\ rank \in 1 .. 4 /\ t \in BOOLEAN /\ m \in Nat /\ s \in Nat /\ w \in Nat /\ d \in Nat /\ o \in Nat
    /\ s1 \in Nat /\ w1 \in Nat
    /\ rank = Rank(k) /\ t = Told(k) /\ m = mails[k] /\ d = drops[k] /\ o = overlaps
    /\ s = Cardinality(Sending(k)) /\ w = Cardinality(Waiting(k))
    /\ s1 = Cardinality(Sending(k))' /\ w1 = Cardinality(Waiting(k))'
    /\ Tally(rank, t, m, s, w, d, o)
    /\ s1 + (IF k \in poll[p].sending THEN 1 ELSE 0) = s + (IF k \in poll'[p].sending THEN 1 ELSE 0)
    /\ w1 + (IF Waits(poll[p], k) THEN 1 ELSE 0) = w + (IF Waits(poll'[p], k) THEN 1 ELSE 0)

LEMMA KeyNumbers ==
    ASSUME MailInv, NEW k \in Keys, NEW p \in Polls, Moves(p)
    PROVE  \E rank, t, m, s, w, d, o, s1, w1 : KeyMove(k, p, rank, t, m, s, w, d, o, s1, w1)
  <1>1. PICK rank, t, m, s, w, d, o, s1, w1 :
          /\ rank = Rank(k) /\ t = Told(k) /\ m = mails[k] /\ d = drops[k] /\ o = overlaps
          /\ s = Cardinality(Sending(k)) /\ w = Cardinality(Waiting(k))
          /\ s1 = Cardinality(Sending(k))' /\ w1 = Cardinality(Waiting(k))'
    BY Zenon
  <1>2. /\ rank \in 1 .. 4 /\ t \in BOOLEAN /\ m \in Nat /\ s \in Nat /\ w \in Nat /\ d \in Nat /\ o \in Nat
        /\ Tally(rank, t, m, s, w, d, o)
    BY <1>1, KeyFacts, Zenon
  <1>3. /\ s1 \in Nat /\ w1 \in Nat
        /\ s1 + (IF k \in poll[p].sending THEN 1 ELSE 0) = s + (IF k \in poll'[p].sending THEN 1 ELSE 0)
        /\ w1 + (IF Waits(poll[p], k) THEN 1 ELSE 0) = w + (IF Waits(poll'[p], k) THEN 1 ELSE 0)
    BY <1>1, Counts, Zenon
  <1>4. KeyMove(k, p, rank, t, m, s, w, d, o, s1, w1)
    BY <1>1, <1>2, <1>3, Zenon DEF KeyMove
  <1> QED
    BY <1>4, Zenon

\* The poll that moves neither starts a mail about the key nor makes up its
\* mind again.
LEMMA KeyKept ==
    ASSUME MailInv, NEW k \in Keys, NEW p \in Polls, Moves(p),
           mails'[k] = mails[k], drops'[k] = drops[k], overlaps' = overlaps, Told(k)' = Told(k),
           k \in poll'[p].sending => k \in poll[p].sending,
           Waits(poll'[p], k) => Waits(poll[p], k)
    PROVE  KeyOK(k)'
  <1>1. PICK rank, t, m, s, w, d, o, s1, w1 : KeyMove(k, p, rank, t, m, s, w, d, o, s1, w1)
    BY KeyNumbers, Zenon
  <1>2. s1 <= s /\ w1 <= w
    BY <1>1, SMT DEF KeyMove
  <1>3. Tally(rank, t, m, s1, w1, d, o)
    BY <1>1, <1>2, TallyLess, Zenon DEF KeyMove
  <1> QED
    BY <1>1, <1>3, Zenon DEF KeyOK, KeyMove

\* A record of a poll with one field replaced, and with several.
LEMMA PollField ==
    ASSUME NEW r, IsPoll(r), NEW a
    PROVE  /\ [r EXCEPT !.pc = a] =
                [pc |-> a, kind |-> r.kind, got |-> r.got, stage |-> r.stage, todo |-> r.todo, sending |-> r.sending]
           /\ [r EXCEPT !.stage = a] =
                [pc |-> r.pc, kind |-> r.kind, got |-> r.got, stage |-> a, todo |-> r.todo, sending |-> r.sending]
           /\ [r EXCEPT !.todo = a] =
                [pc |-> r.pc, kind |-> r.kind, got |-> r.got, stage |-> r.stage, todo |-> a, sending |-> r.sending]
           /\ [r EXCEPT !.sending = a] =
                [pc |-> r.pc, kind |-> r.kind, got |-> r.got, stage |-> r.stage, todo |-> r.todo, sending |-> a]
           /\ [r EXCEPT !.got = a] =
                [pc |-> r.pc, kind |-> r.kind, got |-> a, stage |-> r.stage, todo |-> r.todo, sending |-> r.sending]
  <1>1. PICK f1, f2, f3, f4, f5, f6 :
          r = [pc |-> f1, kind |-> f2, got |-> f3, stage |-> f4, todo |-> f5, sending |-> f6]
    BY Zenon DEF IsPoll
  <1>2. f1 = r.pc /\ f2 = r.kind /\ f3 = r.got /\ f4 = r.stage /\ f5 = r.todo /\ f6 = r.sending
    BY <1>1, Zenon
  <1>3. [r EXCEPT !.pc = a] = [pc |-> a, kind |-> f2, got |-> f3, stage |-> f4, todo |-> f5, sending |-> f6]
    BY <1>1, SMT
  <1>4. [r EXCEPT !.stage = a] = [pc |-> f1, kind |-> f2, got |-> f3, stage |-> a, todo |-> f5, sending |-> f6]
    BY <1>1, SMT
  <1>5. [r EXCEPT !.todo = a] = [pc |-> f1, kind |-> f2, got |-> f3, stage |-> f4, todo |-> a, sending |-> f6]
    BY <1>1, SMT
  <1>6. [r EXCEPT !.sending = a] = [pc |-> f1, kind |-> f2, got |-> f3, stage |-> f4, todo |-> f5, sending |-> a]
    BY <1>1, SMT
  <1>7. [r EXCEPT !.got = a] = [pc |-> f1, kind |-> f2, got |-> a, stage |-> f4, todo |-> f5, sending |-> f6]
    BY <1>1, SMT
  <1> QED
    BY <1>2, <1>3, <1>4, <1>5, <1>6, <1>7, Zenon

LEMMA PollRecord ==
    ASSUME NEW x, NEW f1, NEW f2, NEW f3, NEW f4, NEW f5, NEW f6,
           x = [pc |-> f1, kind |-> f2, got |-> f3, stage |-> f4, todo |-> f5, sending |-> f6]
    PROVE  /\ IsPoll(x)
           /\ x.pc = f1 /\ x.kind = f2 /\ x.got = f3 /\ x.stage = f4 /\ x.todo = f5 /\ x.sending = f6
  BY Zenon DEF IsPoll

LEMMA PcStage ==
    ASSUME NEW r, IsPoll(r), NEW a, NEW b
    PROVE  [r EXCEPT !.pc = a, !.stage = b] =
             [pc |-> a, kind |-> r.kind, got |-> r.got, stage |-> b, todo |-> r.todo, sending |-> r.sending]
  <1>1. PICK x : x = [r EXCEPT !.pc = a]
    BY Zenon
  <1>2. x = [pc |-> a, kind |-> r.kind, got |-> r.got, stage |-> r.stage, todo |-> r.todo, sending |-> r.sending]
    BY <1>1, PollField, Zenon
  <1>3. IsPoll(x)
    BY <1>2, PollRecord, Zenon
  <1>4. [x EXCEPT !.stage = b] =
          [pc |-> x.pc, kind |-> x.kind, got |-> x.got, stage |-> b, todo |-> x.todo, sending |-> x.sending]
    BY <1>3, PollField, Zenon
  <1>5. [x EXCEPT !.stage = b] =
          [pc |-> a, kind |-> r.kind, got |-> r.got, stage |-> b, todo |-> r.todo, sending |-> r.sending]
    BY <1>2, <1>4, Zenon
  <1>6. [r EXCEPT !.pc = a, !.stage = b] = [x EXCEPT !.stage = b]
    BY <1>1, Zenon
  <1> QED
    BY <1>5, <1>6, Zenon

LEMMA PcSending ==
    ASSUME NEW r, IsPoll(r), NEW a, NEW b
    PROVE  [r EXCEPT !.pc = a, !.sending = b] =
             [pc |-> a, kind |-> r.kind, got |-> r.got, stage |-> r.stage, todo |-> r.todo, sending |-> b]
  <1>1. PICK x : x = [r EXCEPT !.pc = a]
    BY Zenon
  <1>2. x = [pc |-> a, kind |-> r.kind, got |-> r.got, stage |-> r.stage, todo |-> r.todo, sending |-> r.sending]
    BY <1>1, PollField, Zenon
  <1>3. IsPoll(x)
    BY <1>2, PollRecord, Zenon
  <1>4. [x EXCEPT !.sending = b] =
          [pc |-> x.pc, kind |-> x.kind, got |-> x.got, stage |-> x.stage, todo |-> x.todo, sending |-> b]
    BY <1>3, PollField, Zenon
  <1>5. [x EXCEPT !.sending = b] =
          [pc |-> a, kind |-> r.kind, got |-> r.got, stage |-> r.stage, todo |-> r.todo, sending |-> b]
    BY <1>2, <1>4, Zenon
  <1>6. [r EXCEPT !.pc = a, !.sending = b] = [x EXCEPT !.sending = b]
    BY <1>1, Zenon
  <1> QED
    BY <1>5, <1>6, Zenon

LEMMA PcTodo ==
    ASSUME NEW r, IsPoll(r), NEW a, NEW b
    PROVE  [r EXCEPT !.pc = a, !.todo = b] =
             [pc |-> a, kind |-> r.kind, got |-> r.got, stage |-> r.stage, todo |-> b, sending |-> r.sending]
  <1>1. PICK x : x = [r EXCEPT !.pc = a]
    BY Zenon
  <1>2. x = [pc |-> a, kind |-> r.kind, got |-> r.got, stage |-> r.stage, todo |-> r.todo, sending |-> r.sending]
    BY <1>1, PollField, Zenon
  <1>3. IsPoll(x)
    BY <1>2, PollRecord, Zenon
  <1>4. [x EXCEPT !.todo = b] =
          [pc |-> x.pc, kind |-> x.kind, got |-> x.got, stage |-> x.stage, todo |-> b, sending |-> x.sending]
    BY <1>3, PollField, Zenon
  <1>5. [x EXCEPT !.todo = b] =
          [pc |-> a, kind |-> r.kind, got |-> r.got, stage |-> r.stage, todo |-> b, sending |-> r.sending]
    BY <1>2, <1>4, Zenon
  <1>6. [r EXCEPT !.pc = a, !.todo = b] = [x EXCEPT !.todo = b]
    BY <1>1, Zenon
  <1> QED
    BY <1>5, <1>6, Zenon

LEMMA PcStageTodo ==
    ASSUME NEW r, IsPoll(r), NEW a, NEW b, NEW c
    PROVE  [r EXCEPT !.pc = a, !.stage = b, !.todo = c] =
             [pc |-> a, kind |-> r.kind, got |-> r.got, stage |-> b, todo |-> c, sending |-> r.sending]
  <1>1. PICK x : x = [r EXCEPT !.pc = a, !.stage = b]
    BY Zenon
  <1>2. x = [pc |-> a, kind |-> r.kind, got |-> r.got, stage |-> b, todo |-> r.todo, sending |-> r.sending]
    BY <1>1, PcStage, Zenon
  <1>3. IsPoll(x)
    BY <1>2, PollRecord, Zenon
  <1>4. [x EXCEPT !.todo = c] =
          [pc |-> x.pc, kind |-> x.kind, got |-> x.got, stage |-> x.stage, todo |-> c, sending |-> x.sending]
    BY <1>3, PollField, Zenon
  <1>5. [x EXCEPT !.todo = c] =
          [pc |-> a, kind |-> r.kind, got |-> r.got, stage |-> b, todo |-> c, sending |-> r.sending]
    BY <1>2, <1>4, Zenon
  <1>6. [r EXCEPT !.pc = a, !.stage = b, !.todo = c] = [x EXCEPT !.todo = c]
    BY <1>1, Zenon
  <1> QED
    BY <1>5, <1>6, Zenon

LEMMA PcSendingTodo ==
    ASSUME NEW r, IsPoll(r), NEW a, NEW b, NEW c
    PROVE  [r EXCEPT !.pc = a, !.sending = b, !.todo = c] =
             [pc |-> a, kind |-> r.kind, got |-> r.got, stage |-> r.stage, todo |-> c, sending |-> b]
  <1>1. PICK x : x = [r EXCEPT !.pc = a, !.sending = b]
    BY Zenon
  <1>2. x = [pc |-> a, kind |-> r.kind, got |-> r.got, stage |-> r.stage, todo |-> r.todo, sending |-> b]
    BY <1>1, PcSending, Zenon
  <1>3. IsPoll(x)
    BY <1>2, PollRecord, Zenon
  <1>4. [x EXCEPT !.todo = c] =
          [pc |-> x.pc, kind |-> x.kind, got |-> x.got, stage |-> x.stage, todo |-> c, sending |-> x.sending]
    BY <1>3, PollField, Zenon
  <1>5. [x EXCEPT !.todo = c] = [pc |-> a, kind |-> r.kind, got |-> r.got, stage |-> r.stage, todo |-> c, sending |-> b]
    BY <1>2, <1>4, Zenon
  <1>6. [r EXCEPT !.pc = a, !.sending = b, !.todo = c] = [x EXCEPT !.todo = c]
    BY <1>1, Zenon
  <1> QED
    BY <1>5, <1>6, Zenon

LEMMA OnePoll ==
    ASSUME poll = [p \in Polls |-> poll[p]], NEW p \in Polls, NEW r, poll' = [poll EXCEPT ![p] = r]
    PROVE  /\ Moves(p) /\ poll'[p] = r
           /\ poll' = [q \in Polls |-> poll'[q]]
  <1>1. \A q \in Polls : poll'[q] = IF q = p THEN r ELSE poll[q]
    BY Zenon
  <1>2. DOMAIN poll = Polls
    BY Zenon
  <1>3. poll' = [q \in Polls |-> IF q = p THEN r ELSE poll[q]]
    BY <1>2, SMT
  <1> QED
    BY <1>1, <1>3, Zenon DEF Moves

\* A step of one poll: what remains to be shown for its record and the keys.
LEMMA PollMoves ==
    ASSUME MailInv, NEW p \in Polls, NEW r, poll' = [poll EXCEPT ![p] = r], PollOK(r),
           mails' \in [Keys -> Nat], drops' \in [Keys -> Nat], overlaps' \in Nat,
           day' = day, daily' \in Nat, daily' <= day, \A k \in Keys : KeyOK(k)'
    PROVE  MailInv'
  <1>1. Moves(p) /\ poll'[p] = r /\ poll' = [q \in Polls |-> poll'[q]]
    BY OnePoll, Zenon DEF MailInv
  <1>2. \A q \in Polls : PollOK(poll'[q])
    BY <1>1, Zenon DEF MailInv, Moves
  <1>3. \A q \in Polls : PollOK(poll[q])'
    BY <1>2, Zenon DEF PollOK, IsPoll
  <1> QED
    BY <1>1, <1>3, Zenon DEF MailInv

\* The same for a step that changes nothing else of the mails.
LEMMA PollKept ==
    ASSUME MailInv, NEW p \in Polls, NEW r, poll' = [poll EXCEPT ![p] = r], PollOK(r),
           UNCHANGED <<mails, drops, overlaps, day, daily, notified>>,
           \A k \in Keys : k \in r.sending => k \in poll[p].sending,
           \A k \in Keys : Waits(r, k) => Waits(poll[p], k)
    PROVE  MailInv'
  <1>1. Moves(p) /\ poll'[p] = r
    BY OnePoll, Zenon DEF MailInv
  <1>2. ASSUME NEW k \in Keys PROVE KeyOK(k)'
    <2>1. Told(k)' = Told(k)
      BY Zenon DEF Told
    <2>2. mails'[k] = mails[k] /\ drops'[k] = drops[k] /\ overlaps' = overlaps
      BY Zenon
    <2>3. k \in poll'[p].sending => k \in poll[p].sending
      BY <1>1, Zenon
    <2>4. Waits(poll'[p], k) => Waits(poll[p], k)
      BY <1>1, Zenon
    <2> QED
      BY <1>1, <2>1, <2>2, <2>3, <2>4, KeyKept, Zenon
  <1>3. mails' \in [Keys -> Nat] /\ drops' \in [Keys -> Nat] /\ overlaps' \in Nat
    BY Zenon DEF MailInv
  <1>4. day' = day /\ daily' \in Nat /\ daily' <= day
    BY Zenon DEF MailInv
  <1> QED
    BY <1>2, <1>3, <1>4, PollMoves, Zenon

LEMMA NoPollOK == PollOK(NoPoll) /\ NoPoll.sending = {} /\ \A k : ~Waits(NoPoll, k)
  <1>1. NoPoll.kind # "poll"
    BY Zenon DEF NoPoll
  <1>2. NoPoll.pc = "idle" /\ NoPoll.sending = {}
    BY Zenon DEF NoPoll
  <1>3. IsPoll(NoPoll)
    BY Zenon DEF NoPoll, IsPoll
  <1> QED
    BY <1>1, <1>2, <1>3, Zenon DEF PollOK, Waits

\* A poll or refresh that begins.
LEMMA FreshPollOK ==
    ASSUME NEW kind \in {"poll", "refresh"}
    PROVE  /\ PollOK(FreshPoll(kind)) /\ FreshPoll(kind).sending = {} /\ FreshPoll(kind).kind = kind
  <1>1. FreshPoll(kind) = [pc |-> "fetch", kind |-> kind, got |-> [h \in inventory |-> Awaiting],
                           stage |-> 0, todo |-> {}, sending |-> {}]
    BY Zenon DEF FreshPoll
  <1>2. PICK r : r = FreshPoll(kind)
    BY Zenon
  <1>3. r.pc = "fetch" /\ r.kind = kind /\ r.stage = 0 /\ r.todo = {} /\ r.sending = {}
    BY <1>1, <1>2, SMT
  <1>4. IsPoll(r)
    BY <1>1, <1>2, Zenon DEF IsPoll
  <1> QED
    BY <1>2, <1>3, <1>4, Zenon DEF PollOK

mailed == <<mails, drops, overlaps, day, daily, notified>>

\* Answers come in, and the fleet is replaced.
LEMMA MailFetch ==
    ASSUME MailInv, NEW p \in Polls, NEW h, Fetch(p, h)
    PROVE  MailInv'
  <1>1. PollOK(poll[p]) /\ IsPoll(poll[p]) /\ poll[p].pc = "fetch"
    BY Zenon DEF MailInv, PollOK, Fetch
  <1>2. PICK v : poll' = [poll EXCEPT ![p].got[h] = v]
    BY Zenon DEF Fetch
  <1>3. PICK x : x = [poll[p].got EXCEPT ![h] = v]
    BY Zenon
  <1>4. PICK r : r = [poll[p] EXCEPT !.got = x]
    BY Zenon
  <1>5. poll' = [poll EXCEPT ![p] = r]
    BY <1>2, <1>3, <1>4, Zenon
  <1>6. r = [pc |-> poll[p].pc, kind |-> poll[p].kind, got |-> x, stage |-> poll[p].stage,
             todo |-> poll[p].todo, sending |-> poll[p].sending]
    BY <1>1, <1>4, PollField, Zenon
  <1>7. /\ r.pc = poll[p].pc /\ r.kind = poll[p].kind /\ r.stage = poll[p].stage
        /\ r.todo = poll[p].todo /\ r.sending = poll[p].sending
    BY <1>6, Zenon
  <1>8. IsPoll(r)
    BY <1>6, Zenon DEF IsPoll
  <1>9. PollOK(r)
    BY <1>1, <1>7, <1>8, Zenon DEF PollOK
  <1>10. \A k : Waits(r, k) => Waits(poll[p], k)
    BY <1>7, Zenon DEF Waits
  <1>11. UNCHANGED mailed
    BY Zenon DEF Fetch, hostVars, mailVars, mailed
  <1> QED
    BY <1>5, <1>7, <1>9, <1>10, <1>11, PollKept, Zenon DEF mailed

LEMMA MailSetFleet ==
    ASSUME MailInv, NEW p \in Polls, SetFleet(p)
    PROVE  MailInv'
  <1>1. /\ PollOK(poll[p]) /\ IsPoll(poll[p]) /\ poll[p].pc = "fetch" /\ poll[p].kind \in {"poll", "refresh"}
        /\ poll[p].stage = 0 /\ poll[p].todo = {} /\ poll[p].sending = {}
    BY Zenon DEF MailInv, PollOK, SetFleet
  <1>2. IsPoll(poll[p])
    BY <1>1, Zenon
  <1>3. UNCHANGED mailed
    BY Zenon DEF SetFleet, hostVars, mailVars, mailed
  <1>4. CASE poll[p].kind = "refresh" \/ ~mailing
    <2>1. poll' = [poll EXCEPT ![p] = NoPoll]
      BY <1>4, Zenon DEF SetFleet
    <2> QED
      BY <1>3, <2>1, NoPollOK, PollKept, Zenon DEF mailed
  <1>5. CASE ~(poll[p].kind = "refresh" \/ ~mailing)
    <2>1. PICK r : r = [poll[p] EXCEPT !.pc = "enter", !.stage = 1]
      BY Zenon
    <2>2. poll' = [poll EXCEPT ![p] = r]
      BY <1>5, <2>1, Zenon DEF SetFleet
    <2>3. r = [pc |-> "enter", kind |-> poll[p].kind, got |-> poll[p].got, stage |-> 1,
               todo |-> poll[p].todo, sending |-> poll[p].sending]
      BY <1>2, <2>1, PcStage, Zenon
    <2>4. r.pc = "enter" /\ r.kind = poll[p].kind /\ r.stage = 1 /\ r.todo = {} /\ r.sending = {}
      BY <1>1, <2>3, SMT
    <2>5. IsPoll(r)
      BY <2>3, Zenon DEF IsPoll
    <2>6. r.kind = "poll"
      BY <1>1, <1>5, <2>4, Zenon
    <2>7. r.stage \in 1 .. 4
      BY <2>4, SMT
    <2>8. PollOK(r)
      BY <2>4, <2>5, <2>6, <2>7, Zenon DEF PollOK
    <2>9. \A k : poll[p].stage < Rank(k)
      <3>1. \A n \in 1 .. 4 : 0 < n
        BY SMT
      <3> QED
        BY <1>1, <3>1, RankType, Zenon
    <2>10. \A k : Waits(r, k) => Waits(poll[p], k)
      BY <2>4, <2>6, <2>9, Zenon DEF Waits
    <2> QED
      BY <1>3, <2>2, <2>4, <2>8, <2>10, PollKept, Zenon DEF mailed
  <1> QED
    BY <1>4, <1>5, Zenon

LEMMA MailStart ==
    ASSUME MailInv, NEW p \in Polls, StartPoll(p)
    PROVE  MailInv'
  <1>1. PICK r : r = FreshPoll("poll")
    BY Zenon
  <1>2. PollOK(r) /\ r.sending = {}
    BY <1>1, FreshPollOK, Zenon
  <1>3. poll' = [poll EXCEPT ![p] = r] /\ poll[p] = NoPoll
    BY <1>1, Zenon DEF StartPoll, MailInv, PollOK
  <1>4. Moves(p) /\ poll'[p] = r
    BY <1>3, OnePoll, Zenon DEF MailInv
  <1>5. UNCHANGED <<mails, drops, day, daily, notified>>
    BY Zenon DEF StartPoll, hostVars, mailVars
  <1>6. /\ overlaps \in Nat /\ overlaps' \in Nat
        /\ overlaps' = overlaps \/ overlaps' = overlaps + 1
        /\ overlaps' = overlaps => Busy = {}
    <2>1. overlaps \in Nat
      BY Zenon DEF MailInv
    <2>2. CASE Busy = {}
      BY <2>1, <2>2, SMT DEF StartPoll
    <2>3. CASE Busy # {}
      <3>1. overlaps' = overlaps + 1
        BY <2>3, Zenon DEF StartPoll
      <3> QED
        BY <2>1, <3>1, SMT
    <2> QED
      BY <2>2, <2>3, Zenon
  <1>7. ASSUME NEW k \in Keys PROVE KeyOK(k)'
    <2>1. PICK rank, t, m, s, w, d, o, s1, w1 : KeyMove(k, p, rank, t, m, s, w, d, o, s1, w1)
      BY <1>4, KeyNumbers, Zenon
    <2>2. /\ rank \in 1 .. 4 /\ t \in BOOLEAN /\ m \in Nat /\ s \in Nat /\ w \in Nat /\ d \in Nat /\ o \in Nat
          /\ Tally(rank, t, m, s, w, d, o)
      BY <2>1, Zenon DEF KeyMove
    <2>3. s1 \in Nat /\ w1 \in Nat
      BY <2>1, Zenon DEF KeyMove
    <2>4. k \notin poll[p].sending /\ k \notin poll'[p].sending /\ ~Waits(poll[p], k)
      BY <1>2, <1>3, <1>4, NoPollOK, Zenon
    <2>5. /\ s1 + (IF k \in poll[p].sending THEN 1 ELSE 0) = s + (IF k \in poll'[p].sending THEN 1 ELSE 0)
          /\ w1 + (IF Waits(poll[p], k) THEN 1 ELSE 0) = w + (IF Waits(poll'[p], k) THEN 1 ELSE 0)
      BY <2>1, Zenon DEF KeyMove
    <2>6. s1 = s /\ w1 <= w + 1
      BY <2>2, <2>3, <2>5, <2>4, SMT
    <2>7. CASE overlaps' = overlaps
      <3>1. \A q \in Polls : poll[q] = NoPoll
        BY <1>6, <2>7, Zenon DEF Busy, Under, MailInv, PollOK
      <3>2. Sending(k) = {} /\ Waiting(k) = {}
        BY <3>1, NoPollOK, Zenon DEF Sending, Waiting
      <3>3. s = 0 /\ w = 0
        BY <2>1, <3>2, FS_EmptySet, Zenon DEF KeyMove
      <3>4. w1 <= 1
        BY <2>3, <2>6, <3>3, SMT
      <3>5. Tally(rank, t, m, 0, w1, d, o)
        BY <2>2, <2>3, <3>3, <3>4, TallyAlone, Zenon
      <3>6. s1 = 0
        BY <2>6, <3>3, Zenon
      <3> QED
        BY <1>5, <2>1, <2>7, <3>5, <3>6, Zenon DEF KeyOK, KeyMove, Told
    <2>8. CASE overlaps' = overlaps + 1
      <3>1. Tally(rank, t, m, s1, w1, d, o + 1)
        BY <2>2, <2>3, <2>6, TallyOverlap, Zenon
      <3> QED
        BY <1>5, <2>1, <2>8, <3>1, Zenon DEF KeyOK, KeyMove, Told
    <2> QED
      BY <1>6, <2>7, <2>8, Zenon
  <1>8. /\ mails' \in [Keys -> Nat] /\ drops' \in [Keys -> Nat]
        /\ day' = day /\ daily' \in Nat /\ daily' <= day
    BY <1>5, Zenon DEF MailInv
  <1> QED
    BY <1>2, <1>3, <1>6, <1>7, <1>8, PollMoves, Zenon

LEMMA MailRefresh ==
    ASSUME MailInv, NEW p \in Polls, poll' = [poll EXCEPT ![p] = FreshPoll("refresh")],
           UNCHANGED mailed
    PROVE  MailInv'
  <1>1. PollOK(FreshPoll("refresh")) /\ FreshPoll("refresh").sending = {}
    BY FreshPollOK, Zenon
  <1>2. FreshPoll("refresh").kind # "poll"
    BY FreshPollOK, Zenon
  <1>3. \A k : ~Waits(FreshPoll("refresh"), k)
    BY <1>2, Zenon DEF Waits
  <1> QED
    BY <1>1, <1>3, PollKept, Zenon DEF mailed

LEMMA StageRank ==
    ASSUME NEW n \in 1 .. 4
    PROVE  /\ (Stages[n] = "daily") <=> (n = 4)
           /\ \A k : k[1] = Stages[n] => Rank(k) = n
  <1>1. /\ Stages[1] = "issue" /\ Stages[2] = "approval" /\ Stages[3] = "escalate" /\ Stages[4] = "daily"
    BY SMT DEF Stages
  <1>2. n = 1 \/ n = 2 \/ n = 3 \/ n = 4
    BY SMT
  <1>3. 1 # 4 /\ 2 # 4 /\ 3 # 4
    BY SMT
  <1>4. CASE n = 1
    BY <1>1, <1>3, <1>4, Zenon DEF Rank
  <1>5. CASE n = 2
    BY <1>1, <1>3, <1>5, Zenon DEF Rank
  <1>6. CASE n = 3
    BY <1>1, <1>3, <1>6, Zenon DEF Rank
  <1>7. CASE n = 4
    BY <1>1, <1>7, Zenon DEF Rank
  <1> QED
    BY <1>2, <1>4, <1>5, <1>6, <1>7, Zenon

\* The keys of the last stage are those of summaries.
LEMMA RankDaily ==
    ASSUME NEW k \in Keys, Rank(k) = 4
    PROVE  \E n \in 1 .. MaxChanges : k = <<"daily", n>>
  <1>1. 1 # 4 /\ 2 # 4 /\ 3 # 4
    BY SMT
  <1>2. k[1] # "issue" /\ k[1] # "approval" /\ k[1] # "escalate"
    BY <1>1, Zenon DEF Rank
  <1>3. ASSUME NEW x PROVE k # <<"issue", x>> /\ k # <<"approval", x>> /\ k # <<"escalate", x>>
    BY <1>2, SMT
  <1> QED
    BY <1>3, Zenon DEF Keys

LEMMA DueKeyTag ==
    ASSUME NEW stage, NEW f, NEW k \in DueKeys(stage, f)
    PROVE  k[1] = stage
  <1>1. ASSUME NEW x, k = <<stage, x>> PROVE k[1] = stage
    BY <1>1, SMT
  <1>2. CASE stage = "escalate"
    <2>1. PICK e : k = <<stage, e.id>>
      BY <1>2, Zenon DEF DueKeys
    <2> QED
      BY <1>1, <2>1, Zenon
  <1>3. CASE stage = "issue"
    <2>1. PICK c : k = <<stage, c>>
      BY <1>3, Zenon DEF DueKeys, LiveKeys
    <2> QED
      BY <1>1, <2>1, Zenon
  <1>4. CASE stage # "escalate" /\ stage # "issue"
    <2>1. PICK e : k = <<stage, e.id>>
      BY <1>4, Zenon DEF DueKeys, LiveKeys
    <2> QED
      BY <1>1, <2>1, Zenon
  <1> QED
    BY <1>2, <1>3, <1>4, Zenon

\* A stage begins: keys that are gone are dropped, and their mails counted.
LEMMA MailEnterStage ==
    ASSUME MailInv, NEW p \in Polls, EnterStage(p)
    PROVE  MailInv'
  <1>1. /\ IsPoll(poll[p]) /\ poll[p].pc = "enter" /\ poll[p].kind = "poll" /\ poll[p].stage \in 1 .. 4
        /\ poll[p].todo = {} /\ poll[p].sending = {}
    BY Zenon DEF MailInv, PollOK, EnterStage
  <1>2. poll[p].stage # 4
    BY <1>1, StageRank, Zenon DEF EnterStage, Stage
  <1>3. PICK due : due = DueKeys(Stage(p), poll[p].got)
    BY Zenon
  <1>4. \A k \in due : Rank(k) = poll[p].stage
    <2> SUFFICES ASSUME NEW k \in due PROVE Rank(k) = poll[p].stage
      BY Zenon
    <2>1. k \in DueKeys(Stages[poll[p].stage], poll[p].got)
      BY <1>3, Zenon DEF Stage
    <2>2. k[1] = Stages[poll[p].stage]
      BY <2>1, DueKeyTag, Zenon
    <2> QED
      BY <1>1, <2>2, StageRank, Zenon
  <1>5. PICK r : r = [poll[p] EXCEPT !.pc = "pick", !.todo = due]
    BY Zenon
  <1>6. r = [pc |-> "pick", kind |-> poll[p].kind, got |-> poll[p].got, stage |-> poll[p].stage, todo |-> due,
             sending |-> poll[p].sending]
    BY <1>1, <1>5, PcTodo, Zenon
  <1>7. /\ IsPoll(r) /\ r.pc = "pick" /\ r.kind = "poll" /\ r.stage = poll[p].stage /\ r.todo = due
        /\ r.sending = {}
    <2>1. /\ r.pc = "pick" /\ r.kind = poll[p].kind /\ r.stage = poll[p].stage /\ r.todo = due
          /\ r.sending = poll[p].sending
      BY <1>6, Zenon
    <2>2. IsPoll(r)
      BY <1>6, Zenon DEF IsPoll
    <2> QED
      BY <1>1, <2>1, <2>2, Zenon
  <1>8. poll' = [poll EXCEPT ![p] = r]
    BY <1>3, <1>5, Zenon DEF EnterStage
  <1>9. PollOK(r)
    <2>1. r.stage \in 1 .. 3
      BY <1>1, <1>2, <1>7, SMT
    <2> QED
      BY <1>4, <1>7, <2>1, Zenon DEF PollOK
  <1>10. Moves(p) /\ poll'[p] = r
    BY <1>8, OnePoll, Zenon DEF MailInv
  <1>11. \A k : Waits(r, k) => Waits(poll[p], k)
    BY <1>1, <1>7, Zenon DEF Waits
  <1>12. PICK gone : /\ gone = {k \in notified : k[1] = Stage(p) /\ k \notin LiveKeys(Stage(p), poll[p].got)}
                     /\ notified' = notified \ gone
                     /\ drops' = [k \in Keys |-> drops[k] + (IF k \in gone THEN 1 ELSE 0)]
    BY Zenon DEF EnterStage
  <1>13. UNCHANGED <<mails, overlaps, day, daily>>
    BY Zenon DEF EnterStage, hostVars
  <1>14. \A n \in Nat : n + 1 \in Nat /\ n + 0 = n
    BY SMT
  <1>15. drops \in [Keys -> Nat]
    BY Zenon DEF MailInv
  <1>16. drops' \in [Keys -> Nat]
    <2>1. \A k \in Keys : drops[k] + (IF k \in gone THEN 1 ELSE 0) \in Nat
      BY <1>15, SMT
    <2> QED
      BY <1>12, <2>1, Zenon
  <1>17. ASSUME NEW k \in Keys PROVE KeyOK(k)'
    <2>1. CASE k \in gone
      <3>1. k[1] = Stage(p) /\ k \in notified /\ k \notin notified'
        BY <1>12, <2>1, Zenon
      <3>2. Rank(k) = poll[p].stage
        BY <1>1, <3>1, StageRank, Zenon DEF Stage
      <3>3. Told(k) /\ Rank(k) # 4 /\ Told(k)' = FALSE
        <4>1. Rank(k) # 4
          BY <1>2, <3>2, Zenon
        <4>2. Told(k)
          BY <3>1, <4>1, Zenon DEF Told
        <4>3. ~Told(k)'
          BY <3>1, <4>1, Zenon DEF Told
        <4>4. Told(k)' \in BOOLEAN
          BY Zenon DEF Told
        <4> QED
          BY <4>1, <4>2, <4>3, <4>4, Zenon
      <3>4. drops'[k] = drops[k] + 1
        BY <1>12, <2>1, Zenon
      <3>5. PICK rank, t, m, s, w, d, o, s1, w1 : KeyMove(k, p, rank, t, m, s, w, d, o, s1, w1)
        BY <1>10, KeyNumbers, Zenon
      <3>6. k \notin poll[p].sending /\ k \notin poll'[p].sending /\ (Waits(poll'[p], k) => Waits(poll[p], k))
        BY <1>1, <1>7, <1>10, <1>11, Zenon
      <3>7. s1 = s /\ w1 <= w
        BY <3>5, <3>6, SMT DEF KeyMove
      <3>8. t = TRUE /\ rank # 4
        BY <3>3, <3>5, Zenon DEF KeyMove
      <3>9. Tally(rank, FALSE, m, s1, w1, d + 1, o)
        BY <3>5, <3>7, <3>8, TallyDropped, Zenon DEF KeyMove
      <3> QED
        BY <1>13, <3>3, <3>4, <3>5, <3>9, Zenon DEF KeyOK, KeyMove
    <2>2. CASE k \notin gone
      <3>1. Told(k)' = Told(k)
        BY <1>12, <1>13, <2>2, Zenon DEF Told
      <3>2. drops'[k] = drops[k] + 0
        BY <1>12, <2>2, Zenon
      <3>3. drops'[k] = drops[k]
        BY <1>14, <1>15, <3>2, Zenon
      <3>4. mails'[k] = mails[k] /\ overlaps' = overlaps
        BY <1>13, Zenon
      <3>5. k \notin poll'[p].sending /\ (Waits(poll'[p], k) => Waits(poll[p], k))
        BY <1>7, <1>10, <1>11, Zenon
      <3> QED
        BY <1>10, <3>1, <3>3, <3>4, <3>5, KeyKept, Zenon
    <2> QED
      BY <2>1, <2>2, Zenon
  <1>18. mails' \in [Keys -> Nat] /\ overlaps' \in Nat /\ day' = day /\ daily' \in Nat /\ daily' <= day
    BY <1>13, Zenon DEF MailInv
  <1> QED
    BY <1>8, <1>9, <1>16, <1>17, <1>18, PollMoves, Zenon

\* The next mail is put together, or the next stage begins.
LEMMA MailPick ==
    ASSUME MailInv, NEW p \in Polls, Pick(p)
    PROVE  MailInv'
  <1>1. /\ IsPoll(poll[p]) /\ poll[p].pc = "pick" /\ poll[p].kind = "poll" /\ poll[p].stage \in 1 .. 3
        /\ poll[p].sending = {} /\ \A k \in poll[p].todo : Rank(k) = poll[p].stage
    BY Zenon DEF MailInv, PollOK, Pick
  <1>2. IsPoll(poll[p])
    BY <1>1, Zenon
  <1>3. UNCHANGED mailed
    BY Zenon DEF Pick, hostVars, mailVars, mailed
  <1>4. CASE NextStage(p)
    <2>1. PICK r : r = [poll[p] EXCEPT !.pc = "enter", !.stage = poll[p].stage + 1, !.todo = {}]
      BY Zenon
    <2>2. poll' = [poll EXCEPT ![p] = r]
      BY <1>4, <2>1, Zenon DEF NextStage
    <2>3. r = [pc |-> "enter", kind |-> poll[p].kind, got |-> poll[p].got, stage |-> poll[p].stage + 1,
               todo |-> {}, sending |-> poll[p].sending]
      BY <1>2, <2>1, PcStageTodo, Zenon
    <2>4. /\ r.pc = "enter" /\ r.kind = poll[p].kind /\ r.stage = poll[p].stage + 1 /\ r.todo = {}
          /\ r.sending = poll[p].sending
      BY <2>3, Zenon
    <2>5. IsPoll(r)
      BY <2>3, Zenon DEF IsPoll
    <2>6. r.kind = "poll" /\ r.sending = {}
      BY <1>1, <2>4, Zenon
    <2>7. r.stage \in 1 .. 4
      BY <1>1, <2>4, SMT
    <2>8. PollOK(r)
      BY <2>4, <2>5, <2>6, <2>7, Zenon DEF PollOK
    <2>9. \A n \in 1 .. 4 : r.stage < n \/ r.stage = n => poll[p].stage < n
      BY <1>1, <2>4, SMT
    <2>10. \A k : Waits(r, k) => Waits(poll[p], k)
      BY <1>1, <2>9, RankType, Zenon DEF Waits
    <2> QED
      BY <1>3, <2>2, <2>6, <2>8, <2>10, PollKept, Zenon DEF mailed
  <1>5. ASSUME NEW S, S \subseteq poll[p].todo \ notified, NEW T, T \subseteq poll[p].todo \ S,
               poll' = [poll EXCEPT ![p] = [poll[p] EXCEPT !.pc = "mail", !.sending = S, !.todo = T]]
        PROVE  MailInv'
    <2>1. PICK r : r = [poll[p] EXCEPT !.pc = "mail", !.sending = S, !.todo = T]
      BY Zenon
    <2>2. poll' = [poll EXCEPT ![p] = r]
      BY <1>5, <2>1, Zenon
    <2>3. r = [pc |-> "mail", kind |-> poll[p].kind, got |-> poll[p].got, stage |-> poll[p].stage,
               todo |-> T, sending |-> S]
      BY <1>2, <2>1, PcSendingTodo, Zenon
    <2>4. /\ r.pc = "mail" /\ r.kind = poll[p].kind /\ r.stage = poll[p].stage
          /\ r.todo = T /\ r.sending = S
      BY <2>3, Zenon
    <2>5. IsPoll(r)
      BY <2>3, Zenon DEF IsPoll
    <2>6. \A n \in 1 .. 3 : n \in 1 .. 4 /\ n # 4 /\ ~(n < n)
      BY SMT
    <2>7. PollOK(r)
      <3>1. /\ r.kind = "poll" /\ r.stage \in 1 .. 4 /\ r.todo \cap r.sending = {}
            /\ \A k \in r.todo \cup r.sending : Rank(k) = r.stage
        BY <1>1, <1>5, <2>4, <2>6, Zenon
      <3> QED
        BY <2>4, <2>5, <3>1, Zenon DEF PollOK
    <2>8. Moves(p) /\ poll'[p] = r
      BY <2>2, OnePoll, Zenon DEF MailInv
    <2>9. ASSUME NEW k \in Keys PROVE KeyOK(k)'
      <3>1. Told(k)' = Told(k) /\ mails'[k] = mails[k] /\ drops'[k] = drops[k] /\ overlaps' = overlaps
        BY <1>3, Zenon DEF Told, mailed
      <3>2. CASE k \notin S
        <4>1. k \notin poll'[p].sending
          BY <2>4, <2>8, <3>2, Zenon
        <4>2. Waits(r, k) => Waits(poll[p], k)
          BY <1>1, <1>5, <2>4, Zenon DEF Waits
        <4> QED
          BY <2>8, <3>1, <4>1, <4>2, KeyKept, Zenon
      <3>3. CASE k \in S
        <4>1. Rank(k) = poll[p].stage /\ k \in poll[p].todo /\ k \notin notified /\ k \notin T
          BY <1>1, <1>5, <3>3, Zenon
        <4>2. Rank(k) # 4 /\ ~(poll[p].stage < Rank(k))
          BY <1>1, <2>6, <4>1, Zenon
        <4>3. ~Told(k)
          BY <4>1, <4>2, Zenon DEF Told
        <4>4. Waits(poll[p], k)
          BY <1>1, <4>1, Zenon DEF Waits
        <4>5. ~Waits(poll'[p], k)
          BY <2>4, <2>8, <4>1, <4>2, Zenon DEF Waits
        <4>6. k \notin poll[p].sending /\ k \in poll'[p].sending
          BY <1>1, <2>4, <2>8, <3>3, Zenon
        <4>7. PICK rank, t, m, s, w, d, o, s1, w1 : KeyMove(k, p, rank, t, m, s, w, d, o, s1, w1)
          BY <2>8, KeyNumbers, Zenon
        <4>8. s1 = s + 1 /\ w1 + 1 = w
          BY <4>4, <4>5, <4>6, <4>7, SMT DEF KeyMove
        <4>9. t = FALSE /\ rank # 4
          BY <4>2, <4>3, <4>7, Zenon DEF KeyMove
        <4>10. Tally(rank, FALSE, m, s1, w1, d, o)
          BY <4>7, <4>8, <4>9, TallyPicked, Zenon DEF KeyMove
        <4> QED
          BY <3>1, <4>7, <4>9, <4>10, Zenon DEF KeyOK, KeyMove
      <3> QED
        BY <3>2, <3>3, Zenon
    <2>10. /\ mails' \in [Keys -> Nat] /\ drops' \in [Keys -> Nat] /\ overlaps' \in Nat
          /\ day' = day /\ daily' \in Nat /\ daily' <= day
      BY <1>3, Zenon DEF MailInv, mailed
    <2> QED
      BY <2>2, <2>7, <2>9, <2>10, PollMoves, Zenon
  <1>6. CASE Stage(p) = "approval" /\ ~NextStage(p)
    <2>1. poll' = [poll EXCEPT ![p] =
                      [poll[p] EXCEPT !.pc = "mail", !.sending = poll[p].todo \ notified,
                                      !.todo = IF Stage(p) = "approval" THEN {}
                                               ELSE poll[p].todo \ (poll[p].todo \ notified)]]
      <3>1. \/ NextStage(p)
            \/ poll' = [poll EXCEPT ![p] =
                          [poll[p] EXCEPT !.pc = "mail", !.sending = poll[p].todo \ notified,
                                          !.todo = IF Stage(p) = "approval" THEN {}
                                                   ELSE poll[p].todo \ (poll[p].todo \ notified)]]
            \/ Stage(p) # "approval"
        BY Zenon DEF Pick
      <3> QED
        BY <1>6, <3>1, Zenon
    <2>2. PICK S : S = poll[p].todo \ notified
      BY Zenon
    <2>3. poll' = [poll EXCEPT ![p] = [poll[p] EXCEPT !.pc = "mail", !.sending = S, !.todo = {}]]
      BY <1>6, <2>1, <2>2, Zenon
    <2>4. S \subseteq poll[p].todo \ notified
      BY <2>2, Zenon
    <2>5. PICK T : T = {}
      BY Zenon
    <2>6. poll' = [poll EXCEPT ![p] = [poll[p] EXCEPT !.pc = "mail", !.sending = S, !.todo = T]]
      BY <2>3, <2>5, Zenon
    <2>7. T \subseteq poll[p].todo \ S
      BY <2>5, Zenon
    <2> QED
      BY <1>5, <2>4, <2>6, <2>7, Zenon
  <1>7. CASE Stage(p) # "approval" /\ ~NextStage(p)
    <2>1. PICK k \in poll[p].todo \ notified :
            poll' = [poll EXCEPT ![p] = [poll[p] EXCEPT !.pc = "mail", !.sending = {k},
                              !.todo = IF Stage(p) = "approval" THEN {} ELSE poll[p].todo \ {k}]]
      BY <1>7, Zenon DEF Pick
    <2>2. poll' = [poll EXCEPT ![p] = [poll[p] EXCEPT !.pc = "mail", !.sending = {k}, !.todo = poll[p].todo \ {k}]]
      BY <1>7, <2>1, Zenon
    <2>3. {k} \subseteq poll[p].todo \ notified
      BY <2>1, Zenon
    <2> QED
      BY <1>5, <2>2, <2>3, Zenon
  <1> QED
    BY <1>4, <1>6, <1>7, Zenon

\* The summary: the day is marked in the step that puts the mail together.
LEMMA MailEnterDaily ==
    ASSUME MailInv, NEW p \in Polls, EnterDaily(p)
    PROVE  MailInv'
  <1>1. /\ IsPoll(poll[p]) /\ poll[p].pc = "enter" /\ poll[p].kind = "poll" /\ poll[p].stage \in 1 .. 4
        /\ poll[p].todo = {} /\ poll[p].sending = {}
    BY Zenon DEF MailInv, PollOK, EnterDaily
  <1>2. poll[p].stage = 4
    BY <1>1, StageRank, Zenon DEF EnterDaily, Stage
  <1>3. UNCHANGED <<mails, drops, overlaps, day, notified>> /\ daily' = day
    BY Zenon DEF EnterDaily, hostVars
  <1>4. day \in Nat /\ daily \in Nat /\ daily <= day
    BY Zenon DEF MailInv
  <1>5. CASE daily = day
    <2>1. poll' = [poll EXCEPT ![p] = NoPoll]
      BY <1>5, Zenon DEF EnterDaily
    <2>2. daily' = daily
      BY <1>3, <1>5, Zenon
    <2> QED
      BY <1>3, <2>1, <2>2, NoPollOK, PollKept, Zenon
  <1>6. CASE daily # day
    <2>1. PICK S : S = {<<"daily", day>>}
      BY Zenon
    <2>2. PICK r : r = [poll[p] EXCEPT !.pc = "mail", !.sending = S]
      BY Zenon
    <2>3. poll' = [poll EXCEPT ![p] = r]
      BY <1>6, <2>1, <2>2, Zenon DEF EnterDaily
    <2>4. r = [pc |-> "mail", kind |-> poll[p].kind, got |-> poll[p].got, stage |-> poll[p].stage,
               todo |-> poll[p].todo, sending |-> S]
      BY <1>1, <2>2, PcSending, Zenon
    <2>5. /\ r.pc = "mail" /\ r.kind = poll[p].kind /\ r.stage = poll[p].stage /\ r.todo = poll[p].todo
          /\ r.sending = S
      BY <2>4, Zenon
    <2>6. IsPoll(r)
      BY <2>4, Zenon DEF IsPoll
    <2>7. \A k \in S : k = <<"daily", day>> /\ k[1] = "daily" /\ k[2] = day
      BY <2>1, SMT
    <2>8. \A k \in S : Rank(k) = 4
      BY <2>7, Zenon DEF Rank
    <2>9. PollOK(r)
      <3>1. /\ r.kind = "poll" /\ r.stage \in 1 .. 4 /\ r.todo \cap r.sending = {}
            /\ \A k \in r.todo \cup r.sending : Rank(k) = r.stage
        BY <1>1, <1>2, <2>5, <2>8, Zenon
      <3> QED
        BY <2>5, <2>6, <3>1, Zenon DEF PollOK
    <2>10. Moves(p) /\ poll'[p] = r
      BY <2>3, OnePoll, Zenon DEF MailInv
    <2>11. \A n \in 1 .. 4 : ~(4 < n)
      BY SMT
    <2>12. \A k : Waits(r, k) => Waits(poll[p], k)
      BY <1>1, <2>5, Zenon DEF Waits
    <2>13. ASSUME NEW k \in Keys PROVE KeyOK(k)'
      <3>1. mails'[k] = mails[k] /\ drops'[k] = drops[k] /\ overlaps' = overlaps
        BY <1>3, Zenon
      <3>2. CASE Rank(k) # 4
        <4>1. Told(k)' = Told(k)
          BY <1>3, <3>2, Zenon DEF Told
        <4>2. k \notin poll'[p].sending
          BY <2>5, <2>8, <2>10, <3>2, Zenon
        <4> QED
          BY <2>10, <2>12, <3>1, <4>1, <4>2, KeyKept, Zenon
      <3>3. CASE Rank(k) = 4 /\ Told(k)' = Told(k) /\ k \notin S
        <4>1. k \notin poll'[p].sending
          BY <2>5, <2>10, <3>3, Zenon
        <4> QED
          BY <2>10, <2>12, <3>1, <3>3, <4>1, KeyKept, Zenon
      <3>4. CASE Rank(k) = 4 /\ ~(Told(k)' = Told(k) /\ k \notin S)
        <4>1. k[2] \in Int
          <5>1. PICK n \in 1 .. MaxChanges : k = <<"daily", n>>
            BY <3>4, RankDaily, Zenon
          <5> QED
            BY <5>1, SMT
        <4>2. Told(k)' /\ ~Told(k)
          <5>1. (Told(k) <=> k[2] <= daily) /\ (Told(k)' <=> k[2] <= day)
            BY <1>3, <3>4, Zenon DEF Told
          <5>2. k[2] <= daily => k[2] <= day
            BY <1>4, <4>1, SMT
          <5>3. k \in S => k[2] <= day /\ ~(k[2] <= daily)
            BY <1>4, <1>6, <2>7, SMT
          <5>4. Told(k) \in BOOLEAN /\ Told(k)' \in BOOLEAN
            BY Zenon DEF Told
          <5> QED
            BY <3>4, <5>1, <5>2, <5>3, <5>4, Zenon
        <4>3. PICK rank, t, m, s, w, d, o, s1, w1 : KeyMove(k, p, rank, t, m, s, w, d, o, s1, w1)
          BY <2>10, KeyNumbers, Zenon
        <4>4. s1 <= s \/ s1 = s + 1
          BY <4>3, SMT DEF KeyMove
        <4>5. rank = 4 /\ t = FALSE
          BY <3>4, <4>2, <4>3, Zenon DEF KeyMove
        <4>6. Tally(rank, TRUE, m, s1, w1, d, o)
          BY <4>3, <4>4, <4>5, TallyNewDay, Zenon DEF KeyMove
        <4>7. Told(k)' = TRUE
          BY <4>2, Zenon DEF Told
        <4> QED
          BY <3>1, <4>3, <4>6, <4>7, Zenon DEF KeyOK, KeyMove
      <3> QED
        BY <3>2, <3>3, <3>4, Zenon
    <2>14. /\ mails' \in [Keys -> Nat] /\ drops' \in [Keys -> Nat] /\ overlaps' \in Nat
           /\ day' = day /\ daily' \in Nat /\ daily' <= day
      <3>1. day <= day
        BY <1>4, SMT
      <3> QED
        BY <1>3, <1>4, <3>1, Zenon DEF MailInv
    <2> QED
      BY <2>3, <2>9, <2>13, <2>14, PollMoves, Zenon
  <1> QED
    BY <1>5, <1>6, Zenon

LEMMA AfterMailOK ==
    ASSUME MailInv, NEW p \in Polls, poll[p].pc = "mail", AfterMail(p)
    PROVE  \E r : /\ poll' = [poll EXCEPT ![p] = r] /\ PollOK(r) /\ r.sending = {}
                  /\ \A k : Waits(r, k) => Waits(poll[p], k)
  <1>1. /\ IsPoll(poll[p]) /\ poll[p].pc = "mail" /\ poll[p].kind = "poll" /\ poll[p].stage \in 1 .. 4
        /\ \A k \in poll[p].todo : Rank(k) = poll[p].stage
    BY Zenon DEF MailInv, PollOK
  <1>2. CASE Stage(p) = "daily"
    <2>1. poll' = [poll EXCEPT ![p] = NoPoll]
      BY <1>2, Zenon DEF AfterMail
    <2> QED
      BY <2>1, NoPollOK, Zenon
  <1>3. CASE Stage(p) # "daily"
    <2>1. PICK r : r = [poll[p] EXCEPT !.pc = "pick", !.sending = {}]
      BY Zenon
    <2>2. poll' = [poll EXCEPT ![p] = r]
      BY <1>3, <2>1, Zenon DEF AfterMail
    <2>3. IsPoll(poll[p])
      BY <1>1, Zenon
    <2>4. r = [pc |-> "pick", kind |-> poll[p].kind, got |-> poll[p].got, stage |-> poll[p].stage,
               todo |-> poll[p].todo, sending |-> {}]
      BY <2>1, <2>3, PcSending, Zenon
    <2>5. /\ r.pc = "pick" /\ r.kind = poll[p].kind /\ r.stage = poll[p].stage /\ r.todo = poll[p].todo
          /\ r.sending = {}
      BY <2>4, Zenon
    <2>6. IsPoll(r)
      BY <2>4, Zenon DEF IsPoll
    <2>7. poll[p].stage # 4
      BY <1>1, <1>3, StageRank, Zenon DEF Stage
    <2>8. r.stage \in 1 .. 3
      BY <1>1, <2>5, <2>7, SMT
    <2>9. \A k \in r.todo : Rank(k) = r.stage
      BY <1>1, <2>5, Zenon
    <2>10. r.kind = "poll"
      BY <1>1, <2>5, Zenon
    <2>11. PollOK(r)
      BY <2>5, <2>6, <2>8, <2>9, <2>10, Zenon DEF PollOK
    <2>12. \A k : Waits(r, k) => Waits(poll[p], k)
      BY <2>5, Zenon DEF Waits
    <2> QED
      BY <2>2, <2>5, <2>11, <2>12, Zenon
  <1> QED
    BY <1>2, <1>3, Zenon

LEMMA MailFailsOK ==
    ASSUME MailInv, NEW p \in Polls, MailFails(p)
    PROVE  MailInv'
  <1>1. PICK r : /\ poll' = [poll EXCEPT ![p] = r] /\ PollOK(r) /\ r.sending = {}
                 /\ \A k : Waits(r, k) => Waits(poll[p], k)
    BY AfterMailOK, Zenon DEF MailFails
  <1>2. UNCHANGED mailed
    BY Zenon DEF MailFails, hostVars, mailVars, mailed
  <1> QED
    BY <1>1, <1>2, PollKept, Zenon DEF mailed

\* A mail has gone out, and its keys are remembered.
LEMMA MailSentOK ==
    ASSUME MailInv, NEW p \in Polls, MailSent(p)
    PROVE  MailInv'
  <1>1. PICK r : /\ poll' = [poll EXCEPT ![p] = r] /\ PollOK(r) /\ r.sending = {}
                 /\ \A k : Waits(r, k) => Waits(poll[p], k)
    BY AfterMailOK, Zenon DEF MailSent
  <1>2. Moves(p) /\ poll'[p] = r
    BY <1>1, OnePoll, Zenon DEF MailInv
  <1>3. /\ mails' = [k \in Keys |-> mails[k] + (IF k \in poll[p].sending THEN 1 ELSE 0)]
        /\ notified' = notified \cup {k \in poll[p].sending : k[1] # "daily"}
        /\ UNCHANGED <<drops, overlaps, day, daily>>
    BY Zenon DEF MailSent, hostVars
  <1>4. mails \in [Keys -> Nat]
    BY Zenon DEF MailInv
  <1>5. \A n \in Nat : n + 0 = n
    BY SMT
  <1>6. mails' \in [Keys -> Nat]
    <2>1. \A k \in Keys : mails[k] + (IF k \in poll[p].sending THEN 1 ELSE 0) \in Nat
      BY <1>4, SMT
    <2> QED
      BY <1>3, <2>1, Zenon
  <1>7. ASSUME NEW k \in Keys PROVE KeyOK(k)'
    <2>1. drops'[k] = drops[k] /\ overlaps' = overlaps /\ k \notin poll'[p].sending
      BY <1>1, <1>2, <1>3, Zenon
    <2>2. Waits(poll'[p], k) => Waits(poll[p], k)
      BY <1>1, <1>2, Zenon
    <2>3. CASE k \notin poll[p].sending
      <3>1. Told(k)' = Told(k)
        <4>1. k \in notified' <=> k \in notified
          BY <1>3, <2>3, Zenon
        <4> QED
          BY <1>3, <4>1, Zenon DEF Told
      <3>2. mails'[k] = mails[k] + 0
        BY <1>3, <2>3, Zenon
      <3>3. mails'[k] = mails[k]
        BY <1>4, <1>5, <3>2, Zenon
      <3> QED
        BY <1>2, <2>1, <2>2, <3>1, <3>3, KeyKept, Zenon
    <2>4. CASE k \in poll[p].sending
      <3>1. mails'[k] = mails[k] + 1
        BY <1>3, <2>4, Zenon
      <3>2. Told(k)' = (Told(k) \/ Rank(k) # 4)
        <4>1. Rank(k) # 4 => k[1] # "daily"
          BY Zenon DEF Rank
        <4>2. Rank(k) # 4 => k \in notified'
          BY <1>3, <2>4, <4>1, Zenon
        <4>3. Rank(k) # 4 => Told(k)'
          BY <4>2, Zenon DEF Told
        <4>4. Rank(k) = 4 => (Told(k)' <=> Told(k))
          BY <1>3, Zenon DEF Told
        <4>5. Told(k) \in BOOLEAN /\ Told(k)' \in BOOLEAN
          BY Zenon DEF Told
        <4> QED
          BY <4>3, <4>4, <4>5, Zenon
      <3>3. PICK rank, t, m, s, w, d, o, s1, w1 : KeyMove(k, p, rank, t, m, s, w, d, o, s1, w1)
        BY <1>2, KeyNumbers, Zenon
      <3>4. s1 + 1 = s /\ w1 <= w
        BY <2>1, <2>2, <2>4, <3>3, SMT DEF KeyMove
      <3>5. PICK now : now = Told(k)'
        BY Zenon
      <3>6. Tally(rank, now, m + 1, s1, w1, d, o)
        <4>1. CASE rank # 4
          <5>1. now = TRUE
            BY <3>2, <3>3, <3>5, <4>1, Zenon DEF KeyMove
          <5> QED
            BY <3>3, <3>4, <4>1, <5>1, TallySent, Zenon DEF KeyMove
        <4>2. CASE rank = 4
          <5>1. now = t
            BY <3>2, <3>3, <3>5, <4>2, Zenon DEF KeyMove
          <5> QED
            BY <3>3, <3>4, <4>2, <5>1, TallySummary, Zenon DEF KeyMove
        <4> QED
          BY <4>1, <4>2, Zenon
      <3> QED
        BY <2>1, <3>1, <3>3, <3>5, <3>6, Zenon DEF KeyOK, KeyMove
    <2> QED
      BY <2>3, <2>4, Zenon
  <1>8. drops' \in [Keys -> Nat] /\ overlaps' \in Nat /\ day' = day /\ daily' \in Nat /\ daily' <= day
    BY <1>3, Zenon DEF MailInv
  <1> QED
    BY <1>1, <1>6, <1>7, <1>8, PollMoves, Zenon

\* A restart: whatever was remembered or under way counts as dropped.
LEMMA MailForgotten ==
    ASSUME MailInv, ForgetFleet
    PROVE  MailInv'
  <1>1. PICK lost :
          /\ lost = notified \cup (UNION {poll[p].sending : p \in Polls}) \cup {<<"daily", d>> : d \in 1 .. daily}
          /\ drops' = [k \in Keys |-> drops[k] + (IF k \in lost THEN 1 ELSE 0)]
    BY Zenon DEF ForgetFleet
  <1>2. notified \subseteq lost /\ \A x \in 1 .. daily : <<"daily", x>> \in lost
    <2>1. notified \subseteq lost
      BY <1>1, Zenon
    <2>2. ASSUME NEW x \in 1 .. daily PROVE <<"daily", x>> \in lost
      <3>1. <<"daily", x>> \in {<<"daily", d>> : d \in 1 .. daily}
        BY Zenon
      <3> QED
        BY <1>1, <3>1, Zenon
    <2> QED
      BY <2>1, <2>2, Zenon
  <1>3. /\ poll' = [p \in Polls |-> NoPoll] /\ notified' = {} /\ daily' = 0
        /\ UNCHANGED <<mails, overlaps, day>>
    BY Zenon DEF ForgetFleet, hostVars
  <1>4. \A p \in Polls : poll'[p] = NoPoll
    BY <1>3, Zenon
  <1>5. drops \in [Keys -> Nat] /\ day \in Nat /\ daily \in Nat
    BY Zenon DEF MailInv
  <1>6. \A k \in Keys : drops[k] + (IF k \in lost THEN 1 ELSE 0) \in Nat
    BY <1>5, SMT
  <1>7. drops' \in [Keys -> Nat]
    BY <1>1, <1>6, Zenon
  <1>8. \A p \in Polls : PollOK(poll[p])'
    <2>1. \A p \in Polls : PollOK(poll'[p])
      BY <1>4, NoPollOK, Zenon
    <2> QED
      BY <2>1, Zenon DEF PollOK, IsPoll
  <1>9. poll' = [p \in Polls |-> poll'[p]]
    BY <1>3, <1>4, Zenon
  <1>10. ASSUME NEW k \in Keys PROVE KeyOK(k)'
    <2>1. PICK t, d : t = Told(k) /\ d = drops[k]
      BY Zenon
    <2>2. Tally(Rank(k), t, mails[k], Cardinality(Sending(k)), Cardinality(Waiting(k)), d, overlaps)
      BY <2>1, KeyFacts, Zenon
    <2>3. t = TRUE => k \in lost
      <3>1. CASE Rank(k) = 4
        <4>1. PICK n \in 1 .. MaxChanges : k = <<"daily", n>>
          BY <3>1, RankDaily, Zenon
        <4>2. k[2] = n
          BY <4>1, SMT
        <4>3. t = TRUE => n <= daily
          BY <2>1, <3>1, <4>2, Zenon DEF Told
        <4>4. n <= daily => n \in 1 .. daily
          BY <1>5, <4>1, SMT
        <4> QED
          BY <1>2, <4>1, <4>3, <4>4, Zenon
      <3>2. CASE Rank(k) # 4
        BY <1>2, <2>1, <3>2, Zenon DEF Told
      <3> QED
        BY <3>1, <3>2, Zenon
    <2>4. PICK e : e = drops'[k]
      BY Zenon
    <2>5. /\ d \in Nat /\ e \in Nat /\ e = d + (IF k \in lost THEN 1 ELSE 0)
      BY <1>1, <1>5, <1>6, <2>1, <2>4, Zenon
    <2>6. d <= e /\ (t = TRUE => d + 1 <= e)
      BY <2>3, <2>5, SMT
    <2>7. Tally(Rank(k), FALSE, mails[k], 0, 0, e, overlaps)
      <3>1. /\ Rank(k) \in 1 .. 4 /\ t \in BOOLEAN /\ mails[k] \in Nat /\ overlaps \in Nat
            /\ Cardinality(Sending(k)) \in Nat /\ Cardinality(Waiting(k)) \in Nat
        BY <2>1, KeyFacts, Zenon
      <3> QED
        BY <2>2, <2>5, <2>6, <3>1, TallyForgotten, Zenon
    <2>8. Told(k)' = FALSE
      <3>1. ASSUME Rank(k) = 4 PROVE ~(k[2] <= 0)
        <4>1. PICK n \in 1 .. MaxChanges : k = <<"daily", n>>
          BY <3>1, RankDaily, Zenon
        <4> QED
          BY <4>1, SMT
      <3>2. ~Told(k)'
        BY <1>3, <3>1, Zenon DEF Told
      <3>3. Told(k)' \in BOOLEAN
        BY Zenon DEF Told
      <3> QED
        BY <3>2, <3>3, Zenon
    <2>9. Cardinality(Sending(k))' = 0 /\ Cardinality(Waiting(k))' = 0
      <3>1. Sending(k)' = {} /\ Waiting(k)' = {}
        BY <1>4, NoPollOK, Zenon DEF Sending, Waiting
      <3>2. Cardinality(Sending(k))' = Cardinality(Sending(k)') /\ Cardinality(Waiting(k))' = Cardinality(Waiting(k)')
        BY Zenon
      <3> QED
        BY <3>1, <3>2, FS_EmptySet, Zenon
    <2> QED
      BY <1>3, <2>4, <2>7, <2>8, <2>9, Zenon DEF KeyOK
  <1>11. mails' \in [Keys -> Nat] /\ overlaps' \in Nat /\ day' \in Nat /\ daily' \in Nat /\ daily' <= day'
    <2>1. 0 \in Nat /\ 0 <= day
      BY <1>5, SMT
    <2> QED
      BY <1>3, <1>5, <2>1, Zenon DEF MailInv
  <1> QED
    BY <1>7, <1>8, <1>9, <1>10, <1>11, Zenon DEF MailInv

LEMMA MailIdle ==
    ASSUME MailInv, UNCHANGED <<mails, drops, overlaps, daily, notified, poll>>,
           day' = day \/ day' = day + 1
    PROVE  MailInv'
  <1>1. day' \in Nat /\ daily <= day'
    BY SMT DEF MailInv
  <1>2. ASSUME NEW k \in Keys PROVE KeyOK(k)'
    <2>1. Sending(k)' = Sending(k) /\ Waiting(k)' = Waiting(k) /\ Told(k)' = Told(k)
      BY Zenon DEF Sending, Waiting, Told
    <2>2. KeyOK(k)
      BY Zenon DEF MailInv
    <2> QED
      BY <2>1, <2>2, Zenon DEF KeyOK
  <1>3. \A p \in Polls : PollOK(poll[p])'
    BY Zenon DEF MailInv, PollOK, IsPoll
  <1> QED
    BY <1>1, <1>2, <1>3, Zenon DEF MailInv

LEMMA MailStep == MailInv /\ [CentralNext]_centralVars => MailInv'
  <1> SUFFICES ASSUME MailInv, [CentralNext]_centralVars PROVE MailInv'
    OBVIOUS
  <1> DEFINE idle == UNCHANGED <<mails, drops, overlaps, daily, notified, poll>> /\ (day' = day \/ day' = day + 1)
  <1>1. ASSUME NEW p \in Polls, PollStep(p) PROVE MailInv'
    <2>1. ASSUME NEW h \in Hosts, Fetch(p, h) PROVE MailInv'
      BY <2>1, MailFetch, Zenon
    <2>2. UpdateFleet(p) => SetFleet(p)
      BY Zenon DEF UpdateFleet
    <2> QED
      BY <1>1, <2>1, <2>2, MailSetFleet, MailStart, MailEnterStage, MailPick, MailEnterDaily,
         MailSentOK,
         MailFailsOK, Zenon DEF PollStep, NotifierStep
  <1>2. CASE AnalysisStep
    <2>1. KilledInPersist => ForgetFleet
      BY Zenon DEF KilledInPersist, Started
    <2>2. ASSUME NEW good \in BOOLEAN, Answered(good) PROVE idle
      BY <2>2, Zenon DEF Answered, fleetVars, hostVars, mailVars
    <2>3. ASSUME NEW by, Analyse(by) PROVE idle
      BY <2>3, Zenon DEF Analyse, fleetVars, hostVars, mailVars
    <2>4. InitialRun \/ IntervalRun \/ Refresh => idle
      BY <2>3, Zenon DEF InitialRun, IntervalRun, Refresh, fleetVars, hostVars, mailVars
    <2>5. Gathered => idle \/ ForgetFleet
      BY Zenon DEF Gathered, Started, fleetVars, hostVars, mailVars
    <2>6. AnswerFails => idle
      BY Zenon DEF AnswerFails, fleetVars, hostVars, mailVars
    <2> QED
      BY <1>2, <2>1, <2>2, <2>4, <2>5, <2>6, MailIdle, MailForgotten, Zenon DEF AnalysisStep
  <1>3. CASE BriefingStep
    <2>1. idle
      BY <1>3, Zenon
      DEF BriefingStep, Generated, GenerateFails, TtlElapses, fleetVars, hostVars, mailVars
    <2> QED
      BY <2>1, MailIdle, Zenon
  <1>4. CASE OperatorStep
    <2>1. ASSUME NEW e \in Entries, DecideApproval(e) \/ ResolveIssue(e) PROVE idle
      BY <2>1, Zenon DEF DecideApproval, ResolveIssue, AtAgent, mailVars
    <2>2. ASSUME NEW p \in Polls, NEW h \in Hosts, ClearAgentMemory(h, p) PROVE MailInv'
      <3>1. poll' = [poll EXCEPT ![p] = FreshPoll("refresh")]
        BY <2>2, Zenon DEF ClearAgentMemory, RefreshFleet
      <3>2. UNCHANGED mailed
        BY <2>2, Zenon DEF ClearAgentMemory, mailVars, mailed
      <3> QED
        BY <3>1, <3>2, MailRefresh, Zenon
    <2>3. ASSUME NEW p \in Polls, PurgeCaches(p) PROVE MailInv'
      <3>1. poll' = [poll EXCEPT ![p] = FreshPoll("refresh")]
        BY <2>3, Zenon DEF PurgeCaches, RefreshFleet
      <3>2. UNCHANGED mailed
        BY <2>3, Zenon DEF PurgeCaches, hostVars, mailVars, mailed
      <3> QED
        BY <3>1, <3>2, MailRefresh, Zenon
    <2>4. PurgeAgents => idle
      BY Zenon DEF PurgeAgents, mailVars
    <2>5. ASSUME NEW c \in Clients, Connect(c) PROVE idle
      BY <2>5, Zenon DEF Connect, fleetVars, hostVars, mailVars
    <2> QED
      BY <1>4, <2>1, <2>2, <2>3, <2>4, <2>5, MailIdle, Zenon DEF OperatorStep
  <1>5. CASE Restart
    BY <1>5, MailForgotten, Zenon DEF Restart, Started
  <1>6. CASE HostsChange \/ UNCHANGED centralVars
    <2>1. idle
      BY <1>6, Zenon DEF HostsChange, centralVars, fleetVars, hostVars, mailVars
    <2> QED
      BY <2>1, MailIdle, Zenon
  <1> QED
    BY <1>1, <1>2, <1>3, <1>4, <1>5, <1>6, Zenon DEF CentralNext

LEMMA MailStarts == CentralInit => MailInv
  <1> SUFFICES ASSUME CentralInit PROVE MailInv
    OBVIOUS
  <1>1. /\ poll = [p \in Polls |-> NoPoll] /\ notified = {} /\ daily = 0 /\ day = 0 /\ overlaps = 0
        /\ mails = [k \in Keys |-> 0] /\ drops = [k \in Keys |-> 0]
    BY Zenon DEF CentralInit, FleetInit
  <1>2. \A p \in Polls : poll[p] = NoPoll
    BY <1>1, Zenon
  <1>3. \A p \in Polls : PollOK(poll[p])
    BY <1>2, NoPollOK, Zenon
  <1>4. poll = [p \in Polls |-> poll[p]]
    BY <1>1, Zenon
  <1>5. 0 \in Nat /\ 0 <= 0
    BY SMT
  <1>6. ASSUME NEW k \in Keys PROVE KeyOK(k)
    <2>1. Sending(k) = {} /\ Waiting(k) = {}
      BY <1>2, NoPollOK, Zenon DEF Sending, Waiting
    <2>2. Cardinality(Sending(k)) = 0 /\ Cardinality(Waiting(k)) = 0
      BY <2>1, FS_EmptySet, Zenon
    <2>3. \A rank \in 1 .. 4, told \in BOOLEAN : Tally(rank, told, 0, 0, 0, 0, 0)
      BY SMT DEF Tally
    <2>4. Told(k) \in BOOLEAN
      BY Zenon DEF Told
    <2>5. Tally(Rank(k), Told(k), 0, 0, 0, 0, 0)
      BY <2>3, <2>4, RankType, Zenon
    <2>6. mails[k] = 0 /\ drops[k] = 0
      BY <1>1, Zenon
    <2> QED
      BY <1>1, <2>2, <2>5, <2>6, Zenon DEF KeyOK
  <1>7. mails \in [Keys -> Nat] /\ drops \in [Keys -> Nat]
    BY <1>1, <1>5, Zenon
  <1> QED
    BY <1>1, <1>3, <1>4, <1>5, <1>6, <1>7, Zenon DEF MailInv

\* A key is mailed again only after it was gone or forgotten, or because two
\* polls' notifiers overlapped (notifier.js:69-91, 109-130).
THEOREM RepeatsHaveReasons == CentralSpec => []RepeatsExplained
  <1>1. MailInv => RepeatsExplained
    <2> SUFFICES ASSUME MailInv, NEW k \in Keys PROVE mails[k] <= 1 + drops[k] + overlaps
      BY Zenon DEF RepeatsExplained
    <2>1. PICK rank, t, m, s, w, d, o :
            /\ rank = Rank(k) /\ t = Told(k) /\ m = mails[k] /\ d = drops[k] /\ o = overlaps
            /\ s = Cardinality(Sending(k)) /\ w = Cardinality(Waiting(k))
      BY Zenon
    <2>2. /\ rank \in 1 .. 4 /\ t \in BOOLEAN /\ m \in Nat /\ s \in Nat /\ w \in Nat /\ d \in Nat /\ o \in Nat
          /\ Tally(rank, t, m, s, w, d, o)
      BY <2>1, KeyFacts, Zenon
    <2>3. m <= 1 + d + o
      BY <2>2, SMT DEF Tally
    <2> QED
      BY <2>1, <2>3, Zenon
  <1> QED
    BY <1>1, MailStarts, MailStep, PTL DEF CentralSpec

\* The summary of a day is sent at most once, even when polls overlap
\* (notifier.js:199-207); only a restart forgets that it was.
THEOREM OneSummaryPerDay == CentralSpec => []SummaryOncePerDay
  <1>1. MailInv => SummaryOncePerDay
    <2> SUFFICES ASSUME MailInv, NEW n \in 1 .. MaxChanges
                 PROVE  mails[<<"daily", n>>] <= 1 + drops[<<"daily", n>>]
      BY Zenon DEF SummaryOncePerDay
    <2>1. PICK k : k = <<"daily", n>>
      BY Zenon
    <2>2. k \in Keys
      BY <2>1, Zenon DEF Keys
    <2>3. k[1] = "daily"
      BY <2>1, SMT
    <2>4. Rank(k) = 4
      BY <2>3, Zenon DEF Rank
    <2>5. PICK t, m, s, w, d, o :
            /\ t = Told(k) /\ m = mails[k] /\ d = drops[k] /\ o = overlaps
            /\ s = Cardinality(Sending(k)) /\ w = Cardinality(Waiting(k))
      BY Zenon
    <2>6. /\ t \in BOOLEAN /\ m \in Nat /\ s \in Nat /\ w \in Nat /\ d \in Nat /\ o \in Nat
          /\ Tally(4, t, m, s, w, d, o)
      BY <2>2, <2>4, <2>5, KeyFacts, Zenon
    <2>7. m <= 1 + d
      BY <2>6, SMT DEF Tally
    <2> QED
      BY <2>1, <2>5, <2>7, Zenon
  <1> QED
    BY <1>1, MailStarts, MailStep, PTL DEF CentralSpec
=============================================================================
