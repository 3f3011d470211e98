---------------------------- MODULE LoginMonitor ----------------------------
(***************************************************************************)
(* The login monitors (endpoint-server/loginmonitor): the watcher of       *)
(* logind's signals with its baseline, and the counter of failed logins.   *)
(* They share the login history, and with the check_interactive_logins     *)
(* tool one skill state; unusual logins go to the incident ledger.         *)
(*                                                                         *)
(* Sessions open and close at any time.  Signals reach the watcher in      *)
(* order, but only while it is subscribed: the sessions there are are      *)
(* listed, and recorded one by one, before the subscription, the bus       *)
(* connection may drop, and the agent may restart.  A read or a write of a *)
(* history may fail: an unreadable history counts as empty, and an event   *)
(* that cannot be written is lost.  A session's user, origin and start     *)
(* time are constants; the lookup of an origin given by name may fail.     *)
(***************************************************************************)
EXTENDS Incidents

CONSTANTS
    Sid,               \* logind's session ids; logind does not reuse one
    UserOf, SourceOf,  \* user and origin of each session
    StartHour,         \* its start, as a bucket of the hour of day
    Hours,             \* buckets of the hour of day
    Named,             \* origins known by name: their address has to be looked up
    Suspects,          \* origins of the failed logins
    Allowed,           \* cfg.AllowedSources, as the identities it covers
    MinEvents,         \* cfg.BaselineMinEvents
    Threshold,         \* cfg.FailedLoginThreshold
    MaxHistory,        \* maxHistory
    MaxFailedHistory,  \* maxFailedHistory
    Window,            \* the events resetIfSucceeded looks at
    MaxFails,          \* bound on failed logins
    MaxDrops           \* bound on lost connections and restarts

ASSUME LoginAssumption == MaxHistory \in Nat

VARIABLES
    sess,     \* sessions: "none", "open" or "closed"
    lm,       \* the watcher: "down", "listed" (before it subscribes) or "watching"
    pending,  \* sessions listed that are still to be recorded
    signals,  \* signals queued for it
    lhist,    \* login_history
    fhist,    \* failed_login_history
    fails,    \* consecutiveFails
    skill,    \* health of check_interactive_logins in the skill states
    notices,  \* notifications sent by the last step
    drops,    \* lost connections and restarts so far
    lfaults,  \* reads and writes of the histories that have failed
    streak,   \* history: failures since the last login recorded for an origin
    unseen,   \* history: sessions whose start was lost since the last listing
    stale,    \* history: sessions whose end was lost
    aged,     \* history: sessions an event of which left the history
    vetted    \* history: origins of users that were flagged, or found at start-up

loginHistory == <<streak, unseen, stale, aged, vetted>>
loginVars == <<sess, lm, pending, signals, lhist, fhist, fails, skill, notices, drops, lfaults,
               loginHistory>>

Local == "local"
Nobody == "nobody"
Sources == {SourceOf[s] : s \in Sid} \ {Local}

\* A remote origin as the code knows it: its address, or only its name.
Origins == {<<o, TRUE>> : o \in Sources} \cup {<<o, FALSE>> : o \in Named}
LocalOrigin == <<Local, FALSE>>
Lookups(o) == IF o \in Named THEN BOOLEAN ELSE {TRUE}

LoginEvent(type, s, user, origin, hour) ==
    [type |-> type, sid |-> s, user |-> user, origin |-> origin, hour |-> hour, unusual |-> "no"]
\* sourceIdentity of a session whose address was found (ip) or not.
SourceIdentity(s, ip) == IF SourceOf[s] = Local THEN LocalOrigin ELSE <<SourceOf[s], ip>>
Remote(e) == e.origin # LocalOrigin
Opens(e) == e.type \in {"login", "existing"}

LoginInit ==
    /\ sess \in [Sid -> {"none", "open"}]
    /\ lm = "down" /\ pending = <<>> /\ signals = <<>>
    /\ lhist = <<>> /\ fhist = <<>>
    /\ fails = [k \in Suspects |-> 0]
    /\ skill = "ok" /\ notices = <<>> /\ drops = 0 /\ lfaults = 0
    /\ streak = [k \in Suspects |-> 0]
    /\ unseen = {s \in Sid : sess[s] = "open"} /\ stale = {} /\ aged = {} /\ vetted = {}

-----------------------------------------------------------------------------
(* The history.                                                             *)
\* Mutant of Newest: the history is never trimmed.
NewestUntrimmed(h, n) == h

Newest(h, n) == SubSeq(h, IF Len(h) > n THEN Len(h) - n + 1 ELSE 1, Len(h))

\* appendEvent: an unreadable history is replaced, and when the write fails
\* the event is lost.
AppendEvent(h, e, max, ok) ==
    IF ok.write THEN Newest((IF ok.read THEN h ELSE <<>>) \o <<e>>, max) ELSE h

\* Mutant of ActiveSessions: a logout does not end a session.
EverActiveSessions(h) == {s \in Sid : \E i \in DOMAIN h : Opens(h[i]) /\ h[i].sid = s}

\* ActiveSessions: opened, and not closed since.
ActiveSessions(h) ==
    {s \in Sid : \E i \in DOMAIN h :
        /\ Opens(h[i]) /\ h[i].sid = s
        /\ \A j \in i + 1 .. Len(h) : h[j].sid = s => Opens(h[j])}

\* ListSessions: what logind has open; and a session FetchSessionInfo can
\* still describe.
LiveSessions == {s \in Sid : sess[s] = "open"}
Fetchable(s) == s \in LiveSessions

\* GET /interactive-logins and the check_interactive_logins report: the
\* sessions they show as active, from the history, or live while it is empty.
ShownSessions(h) ==
    IF h = <<>> THEN LiveSessions ELSE ActiveSessions(h)

LastUsername(h, s) ==
    LET I == {i \in DOMAIN h : h[i].sid = s}
    IN  IF I = {} THEN Nobody ELSE h[CHOOSE i \in I : \A j \in I : j <= i].user
\* Mutant of UnusualReason: the hour is looked at before the origin.
UnusualHourFirst(e, prior) ==
    LET known == {i \in DOMAIN prior : prior[i].user = e.user /\ Opens(prior[i])}
    IN  IF known = {} THEN "newuser"
        ELSE IF Cardinality(known) >= MinEvents /\ \A i \in known : prior[i].hour # e.hour THEN "offhours"
        ELSE IF \A i \in known : prior[i].origin # e.origin THEN "newsource"
        ELSE "no"

\* The reason checkAgainstBaseline flags a login for, given the events before.
UnusualReason(e, prior) ==
    LET known == {i \in DOMAIN prior : prior[i].user = e.user /\ Opens(prior[i])}
    IN  IF known = {} THEN "newuser"
        ELSE IF \A i \in known : prior[i].origin # e.origin THEN "newsource"
        ELSE IF Cardinality(known) >= MinEvents /\ \A i \in known : prior[i].hour # e.hour THEN "offhours"
        ELSE "no"

LoginFingerprint(e) ==
    IF e.unusual = "newsource" THEN <<e.unusual, e.user, e.origin>> ELSE <<e.unusual, e.user>>
Severity(e) == IF Remote(e) /\ e.unusual # "offhours" THEN "critical" ELSE "warning"
UnusualSource(e) == Remote(e) /\ Allowed # {} /\ e.origin \notin Allowed

LoginFaults(ok) ==
    /\ lfaults + Failures(ok) <= MaxFaults
    /\ lfaults' = lfaults + Failures(ok)

\* The sessions an event of which leaves the history when e is written.
Evicted(e, ok) ==
    {lhist[i].sid : i \in {i \in DOMAIN lhist : ~ok.read}}
    \cup {(lhist \o <<e>>)[i].sid : i \in 1 .. Len(lhist) + 1 - MaxHistory}

\* What the watcher writes, and the bookkeeping that goes with it.
RecordLogin(e, ok) ==
    /\ LoginFaults(ok)
    /\ lhist' = AppendEvent(lhist, e, MaxHistory, ok)
    /\ aged' = IF ok.write THEN aged \cup Evicted(e, ok) ELSE aged
    /\ unseen' = IF ~Opens(e) THEN unseen
                 ELSE IF ok.write THEN unseen \ {e.sid} ELSE unseen \cup {e.sid}
    /\ stale' = IF ok.write \/ Opens(e) THEN stale ELSE stale \cup {e.sid}
    /\ streak' = [k \in Suspects |->
                    IF ok.write /\ e.type = "login" /\ e.origin = k THEN 0 ELSE streak[k]]
\* Mutant of Escalate: only critical deviations are reported.
EscalateCritical(e) ==
    IF e.unusual = "no" \/ Severity(e) # "critical" THEN LedgerIdle
    ELSE \E readOk, writeOk \in BOOLEAN : Report(LoginFingerprint(e), readOk, writeOk)

\* checkAgainstBaseline reports a deviation to the ledger.
Escalate(e) ==
    IF e.unusual = "no" THEN LedgerIdle
    ELSE \E readOk, writeOk \in BOOLEAN : Report(LoginFingerprint(e), readOk, writeOk)

-----------------------------------------------------------------------------
(* logind and the watcher.                                                  *)

\* The sessions a queued signal of a kind is about.
Queued(kind) == {signals[i][2] : i \in {i \in DOMAIN signals : signals[i][1] = kind}}

SessionOpens(s) ==
    /\ sess[s] = "none"
    /\ sess' = [sess EXCEPT ![s] = "open"]
    /\ signals' = IF lm = "watching" THEN Append(signals, <<"new", s>>) ELSE signals
    /\ unseen' = IF lm = "watching" THEN unseen ELSE unseen \cup {s}
    /\ notices' = <<>>
    /\ UNCHANGED <<lm, pending, lhist, fhist, fails, skill, drops, lfaults, streak, stale, aged, vetted>>
    /\ LedgerIdle

SessionCloses(s) ==
    /\ sess[s] = "open"
    /\ sess' = [sess EXCEPT ![s] = "closed"]
    /\ signals' = IF lm = "watching" THEN Append(signals, <<"removed", s>>) ELSE signals
    /\ stale' = IF lm = "watching" THEN stale ELSE stale \cup {s}
    /\ notices' = <<>>
    /\ UNCHANGED <<lm, pending, lhist, fhist, fails, skill, drops, lfaults, streak, unseen, aged, vetted>>
    /\ LedgerIdle

\* run: connect and list the sessions there are; when they cannot be
\* enumerated the watcher goes on without them.
Connect ==
    /\ lm = "down"
    /\ lm' = "listed"
    /\ \/ pending' \in Listings(LiveSessions) /\ unseen' = {}
       \/ UNCHANGED <<pending, unseen>>
    /\ notices' = <<>>
    /\ UNCHANGED <<sess, signals, lhist, fhist, fails, skill, drops, lfaults, streak, stale, aged, vetted>>
    /\ LedgerIdle

\* They are recorded one after the other, each after looking its origin up.
RecordExisting ==
    /\ lm = "listed" /\ pending # <<>>
    /\ pending' = Tail(pending)
    /\ LET s == Head(pending) IN
       \E ip \in Lookups(SourceOf[s]), ok \in Unchecked :
          LET e == LoginEvent("existing", s, UserOf[s], SourceIdentity(s, ip), StartHour[s])
          IN  /\ RecordLogin(e, ok)
              /\ vetted' = vetted \cup {<<e.user, e.origin>>}
    /\ notices' = <<>>
    /\ UNCHANGED <<sess, lm, signals, fhist, fails, skill, drops>> /\ LedgerIdle

Subscribe ==
    /\ lm = "listed" /\ pending = <<>>
    /\ lm' = "watching"
    /\ notices' = <<>>
    /\ UNCHANGED <<sess, pending, signals, lhist, fhist, fails, skill, drops, lfaults, loginHistory>>
    /\ LedgerIdle

\* The bus connection drops, a match rule is refused, or the agent restarts:
\* queued signals and what is still to be recorded are lost, and with the
\* agent the counters.
Drop(restart) ==
    /\ lm # "down" /\ drops < MaxDrops
    /\ lm' = "down" /\ pending' = <<>> /\ signals' = <<>> /\ drops' = drops + 1
    /\ unseen' = unseen \cup Queued("new") \cup {pending[i] : i \in DOMAIN pending}
    /\ stale' = stale \cup Queued("removed")
    /\ fails' = IF restart THEN [k \in Suspects |-> 0] ELSE fails
    /\ streak' = IF restart THEN [k \in Suspects |-> 0] ELSE streak
    /\ notices' = <<>>
    /\ UNCHANGED <<sess, lhist, fhist, skill, lfaults, aged, vetted>> /\ LedgerIdle

\* A session that is gone before it is looked at is recorded without user
\* and origin, and without a check.
RecordGone(s) ==
    /\ \E ok \in Unchecked :
          RecordLogin(LoginEvent("login", s, Nobody, LocalOrigin, StartHour[s]), ok)
    /\ notices' = <<>>
    /\ UNCHANGED <<vetted, skill>> /\ LedgerIdle

\* A session that can still be described is checked against the history.
RecordChecked(s, h, ip, ok) ==
    LET e0 == LoginEvent("login", s, UserOf[s], SourceIdentity(s, ip), h)
        e == [e0 EXCEPT !.unusual = UnusualReason(e0, IF ok.prior THEN lhist ELSE <<>>)]
        strange == UnusualSource(e)
    IN  /\ RecordLogin(e, ok)
        /\ Escalate(e)
        /\ vetted' = IF e.unusual \in {"newuser", "newsource"}
                     THEN vetted \cup {<<e.user, e.origin>>} ELSE vetted
        /\ skill' = IF strange THEN "critical"
                    ELSE IF e.unusual = "no" THEN skill ELSE Severity(e)
        /\ notices' =
               (IF e.unusual # "no" /\ Severity(e) = "critical"
                THEN <<[kind |-> e.unusual, key |-> e.origin]>> ELSE <<>>)
               \o (IF strange THEN <<[kind |-> "source", key |-> e.origin]>> ELSE <<>>)

\* handleSignal, SessionNew.
HandleNew ==
    /\ lm = "watching" /\ signals # <<>> /\ signals[1][1] = "new"
    /\ signals' = Tail(signals)
    /\ LET s == signals[1][2] IN
       \/ RecordGone(s)
       \/ /\ Fetchable(s)
          /\ \E h \in Hours, ip \in Lookups(SourceOf[s]), ok \in Outcomes : RecordChecked(s, h, ip, ok)
    /\ UNCHANGED <<sess, lm, pending, fhist, fails, drops>>

HandleRemoved ==
    /\ lm = "watching" /\ signals # <<>> /\ signals[1][1] = "removed"
    /\ signals' = Tail(signals)
    /\ LET s == signals[1][2] IN
       \E ok \in Outcomes :
          LET user == IF ok.prior THEN LastUsername(lhist, s) ELSE Nobody
          IN  RecordLogin(LoginEvent("logout", s, user, LocalOrigin, StartHour[s]), ok)
    /\ notices' = <<>>
    /\ UNCHANGED <<sess, lm, pending, fhist, fails, skill, drops, vetted>> /\ LedgerIdle

-----------------------------------------------------------------------------
(* Failed logins.                                                           *)

\* resetIfSucceeded: any login of the address among the newest events.
RecentLogin(k) ==
    /\ k[2]
    /\ LET w == Newest(lhist, Window)
       IN  \E i \in DOMAIN w : w[i].type = "login" /\ w[i].origin = k
\* Mutant of CountedFails: a login does not reset the counter.
CountedFailsForever(k) == fails[k] + 1

CountedFails(k) == (IF RecentLogin(k) THEN 0 ELSE fails[k]) + 1
Alarming(n) == Threshold > 0 /\ n >= Threshold /\ (n - Threshold) % Threshold = 0

\* handleMessage, for a line that parses; other lines change nothing.
HandleFailure(k) ==
    /\ streak[k] < MaxFails /\ fails[k] < MaxFails
    /\ \E ok \in Unchecked :
          LoginFaults(ok) /\ fhist' = AppendEvent(fhist, k, MaxFailedHistory, ok)
    /\ fails' = [fails EXCEPT ![k] = CountedFails(k)]
    /\ streak' = [streak EXCEPT ![k] = @ + 1]
    /\ notices' = IF Alarming(CountedFails(k)) THEN <<[kind |-> "failures", key |-> k]>> ELSE <<>>
    /\ skill' = IF Alarming(CountedFails(k)) THEN "critical" ELSE skill
    /\ UNCHANGED <<sess, lm, pending, signals, lhist, drops, unseen, stale, aged, vetted>> /\ LedgerIdle

\* The check_interactive_logins tool: it reports, and writes the skill state.
CheckLogins ==
    /\ skill' = "ok" /\ notices' = <<>>
    /\ UNCHANGED <<sess, lm, pending, signals, lhist, fhist, fails, drops, lfaults, loginHistory>>
    /\ LedgerIdle

\* An agent run closes an incident.
Resolves == \E fp \in OpenProblems(ledger) :
    /\ Resolve(fp, TRUE, TRUE)
    /\ notices' = <<>>
    /\ UNCHANGED <<sess, lm, pending, signals, lhist, fhist, fails, skill, drops, lfaults, loginHistory>>

Watch ==
    \/ \E s \in Sid : SessionOpens(s) \/ SessionCloses(s)
    \/ Connect \/ RecordExisting \/ Subscribe \/ HandleNew \/ HandleRemoved
    \/ \E restart \in BOOLEAN : Drop(restart)

LoginNext == Watch \/ CheckLogins \/ Resolves \/ \E k \in Suspects : HandleFailure(k)

-----------------------------------------------------------------------------
(* Properties.                                                              *)

\* Histories stay within their caps, and signals exist only for a
\* subscribed watcher (loginmonitor.go:30, 159).
LoginTypeOK ==
    /\ sess \in [Sid -> {"none", "open", "closed"}]
    /\ lm \in {"down", "listed", "watching"}
    /\ signals \in Seq({"new", "removed"} \X Sid) /\ (signals # <<>> => lm = "watching")
    /\ pending \in Seq(Sid) /\ (pending # <<>> => lm = "listed")
    /\ Len(lhist) <= MaxHistory /\ Len(fhist) <= MaxFailedHistory
    /\ fails \in [Suspects -> 0 .. MaxFails] /\ skill \in {"ok", "warning", "critical"}

\* What the API and the tool show as active sessions (ActiveSessions,
\* loginmonitor.go:362) is what logind has open, at all times, but for what
\* the watcher can still find out (a queued signal, a listed session) and for
\* four losses: a session that closed while nobody listened, or whose end
\* could not be written; one whose start was lost in such a way, or that
\* opened between listing and subscription, and this only until sessions are
\* listed again; and one whose event the cap or a failed read has dropped.
ShownSessionsAccurate ==
    /\ ShownSessions(lhist) \ LiveSessions \subseteq stale \cup Queued("removed")
    /\ LiveSessions \ ShownSessions(lhist)
           \subseteq unseen \cup Queued("new") \cup {pending[i] : i \in DOMAIN pending} \cup aged

\* No origin of a user enters the history unnoticed: the first login from it
\* was flagged as a new user or a new source, or it was there when the
\* watcher connected (checkAgainstBaseline, baseline.go:34), whatever was
\* evicted, lost or restarted in between.
NoSilentOrigin ==
    \A i \in DOMAIN lhist : Opens(lhist[i]) /\ lhist[i].user # Nobody
        => <<lhist[i].user, lhist[i].origin>> \in vetted

\* A login flagged in the history stays on the ledger, although the next
\* check_interactive_logins run overwrites the critical skill state with ok
\* (check_interactive_logins.go:158), unless a ledger access failed or the
\* ledger is full.
FlaggedIsOnLedger ==
    \A i \in DOMAIN lhist : lhist[i].unusual # "no" =>
        \/ LoginFingerprint(lhist[i]) \in Problems(ledger)
        \/ faults > 0 \/ Len(ledger) = MaxIncidents

\* A source is not reported for consecutive failures when it has logged in
\* recently and has failed less than the threshold since
\* (resetIfSucceeded, failedloginmonitor.go:162).
NoAlarmSoonAfterLogin ==
    [][\A i \in DOMAIN notices' : notices'[i].kind = "failures" =>
          LET k == notices'[i].key IN streak'[k] >= Threshold \/ ~RecentLogin(k)]_loginVars

\* "Reset counter if a successful login from this source has been recorded
\* since the last failure" (failedloginmonitor.go:141): failures that reach
\* the threshold with no login of the source in between raise the alarm.
BruteForceNoticed ==
    [][\A k \in Suspects : streak'[k] # streak[k] /\ streak'[k] = Threshold =>
          \E i \in DOMAIN notices' : notices'[i] = [kind |-> "failures", key |-> k]]_loginVars
=============================================================================
