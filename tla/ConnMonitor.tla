----------------------------- MODULE ConnMonitor -----------------------------
(***************************************************************************)
(* The connection monitor (endpoint-server/connmonitor): it samples the    *)
(* active connections, records what has opened and closed since the last   *)
(* sample, checks what has opened against the recorded history, and        *)
(* reports deviations to the incident ledger.  The history is capped and   *)
(* survives a restart of the agent; the last sample does not.  When the    *)
(* history cannot be read it counts as empty; when it cannot be written    *)
(* the events of the sample are lost, the sample itself is not.            *)
(*                                                                         *)
(* A connection is a record of its key (addresses and ports), its local    *)
(* port, remote host and process.                                          *)
(***************************************************************************)
EXTENDS Incidents

CONSTANTS
    Conns,               \* connections the host may have
    EphemeralPortFloor,  \* ephemeralPortFloor
    OwnPort,             \* the port the agent listens on
    HistoryLimit,        \* cfg.HistoryLimit
    MaxRestarts          \* bound on restarts of the agent

ASSUME ConnAssumption == HistoryLimit \in Nat

VARIABLES
    prev,          \* Monitor.prev, the last sample
    bootstrapped,  \* Monitor.bootstrapped
    chist,         \* connection_history
    nskill,        \* health of check_network_connections in the skill states
    restarts,      \* restarts so far
    cfaults,       \* reads and writes of the history that have failed
    carried,       \* history: open before a restart, not sampled since
    unwritten,     \* history: connections whose latest event could not be written
    forgotten,     \* history: connections an event of which left the history
    noted          \* history: features flagged, found at start-up or on OwnPort

connVars == <<prev, bootstrapped, chist, nskill, restarts, cfaults, carried, unwritten, forgotten, noted>>

Direction(c) ==
    IF c.port <= 0 THEN "unknown"
    ELSE IF c.port >= EphemeralPortFloor THEN "outbound" ELSE "inbound"

ConnEvent(type, c) == [type |-> type, conn |-> c, unusual |-> "no"]
IsOpening(e) == e.type \in {"open", "existing"}

\* What the baseline remembers of a connection.
Features(c) ==
    (IF Direction(c) = "inbound" THEN {<<"newport", c.port>>} ELSE {})
    \cup (IF c.process # "" THEN {<<"newprocess", c.process>>} ELSE {})
    \cup (IF Direction(c) = "outbound" /\ c.remote # "" THEN {<<"newremote", c.remote>>} ELSE {})

ConnInit ==
    /\ prev = {} /\ bootstrapped = FALSE /\ chist = <<>>
    /\ nskill = "ok" /\ restarts = 0 /\ cfaults = 0
    /\ carried = {} /\ unwritten = {} /\ forgotten = {} /\ noted = {}

-----------------------------------------------------------------------------
\* Mutant of ActiveConnections: a close is not looked for.
EverActiveConnections(h) == {h[i].conn : i \in {i \in DOMAIN h : IsOpening(h[i])}}

\* ActiveConnections: opened, and not closed since.
ActiveConnections(h) ==
    {h[i].conn : i \in {i \in DOMAIN h :
        IsOpening(h[i]) /\ \A j \in i + 1 .. Len(h) : h[j].conn = h[i].conn => IsOpening(h[j])}}

\* GET /network-connections and the check_network_connections report: what
\* they show as active, from the history, or live while it is empty.
ShownConnections(h, live) == IF h = <<>> THEN live ELSE ActiveConnections(h)
\* Mutant of ConnReason: the remote host is looked at only for new processes.
ConnReasonNoRemote(c, prior) ==
    LET known == UNION {Features(prior[i].conn) : i \in {i \in DOMAIN prior : IsOpening(prior[i])}}
        new(kind) == \E f \in Features(c) \ known : f[1] = kind
    IN  IF Direction(c) = "inbound" /\ c.port = OwnPort THEN "no"
        ELSE IF new("newport") THEN "newport"
        ELSE IF new("newprocess") THEN "newprocess"
        ELSE "no"

\* checkAgainstBaseline: at most one reason, in this order.
ConnReason(c, prior) ==
    LET known == UNION {Features(prior[i].conn) : i \in {i \in DOMAIN prior : IsOpening(prior[i])}}
        new(kind) == \E f \in Features(c) \ known : f[1] = kind
    IN  IF Direction(c) = "inbound" /\ c.port = OwnPort THEN "no"
        ELSE IF new("newport") THEN "newport"
        ELSE IF new("newprocess") THEN "newprocess"
        ELSE IF new("newremote") THEN "newremote"
        ELSE "no"

Opened(c, prior) == [ConnEvent("open", c) EXCEPT !.unusual = ConnReason(c, prior)]
ConnFingerprint(e) == CHOOSE f \in Features(e.conn) : f[1] = e.unusual
ConnSeverity(e) == IF e.unusual = "newremote" THEN "warning" ELSE "critical"
\* Mutant of Flagged: warnings are not escalated.
FlaggedCritical(evs) == SelectSeq(evs, LAMBDA e : e.unusual # "no" /\ ConnSeverity(e) = "critical")

Flagged(evs) == SelectSeq(evs, LAMBDA e : e.unusual # "no")

\* The orders in which a set of connections may be listed: a map's at the
\* start, by local port afterwards.
AnyOrder(S) == Listings(S)
ByPort(S) == {q \in Listings(S) : \A i, j \in DOMAIN q : i < j => q[i].port <= q[j].port}

\* Diff and the checks of PollOnce: the events of a sample.  All that has
\* opened is checked against the history as it was before the sample.
DiffEvents(opened, closed, prior) ==
    [i \in DOMAIN opened |-> Opened(opened[i], prior)]
    \o [i \in DOMAIN closed |-> ConnEvent("close", closed[i])]

SampleEvents(prior, sample) ==
    IF bootstrapped
    THEN {DiffEvents(o, c, prior) : o \in ByPort(sample \ prev), c \in ByPort(prev \ sample)}
    ELSE {[i \in DOMAIN o |-> ConnEvent("existing", o[i])] : o \in AnyOrder(sample)}
\* Mutant of LastOf: one too many.
LastOfPlusOne(h, n) == SubSeq(h, IF Len(h) > n THEN Len(h) - n ELSE 1, Len(h))

LastOf(h, n) == SubSeq(h, IF Len(h) > n THEN Len(h) - n + 1 ELSE 1, Len(h))

\* Report, for one deviation after the other; an unreadable ledger counts as
\* empty, a failed write changes nothing.
Reports(flagged) == [DOMAIN flagged -> {"ok", "unread", "unwritten"}]
EscalateAll(flagged, out) ==
    LET list(n, l) == IF out[n] = "unread" THEN <<>> ELSE Sorted(l)
        after[n \in 0 .. Len(flagged)] ==
            IF n = 0 THEN ledger
            ELSE IF out[n] = "unwritten" THEN after[n - 1]
            ELSE Saved(Reported(list(n, after[n - 1]), ConnFingerprint(flagged[n])))
    IN  after[Len(flagged)]

\* appendEvents, and the bookkeeping that goes with it: an unreadable history
\* is replaced by the events, and when the write fails they are lost.
AppendEvents(evs, ok) ==
    LET all == (IF ok.read THEN chist ELSE <<>>) \o evs
        about == {evs[i].conn : i \in DOMAIN evs}
    IN  IF evs = <<>> THEN UNCHANGED <<chist, forgotten, unwritten>>
        ELSE IF ok.write
        THEN /\ chist' = LastOf(all, HistoryLimit)
             /\ forgotten' = forgotten
                    \cup {chist[i].conn : i \in {i \in DOMAIN chist : ~ok.read}}
                    \cup {all[i].conn : i \in 1 .. Len(all) - HistoryLimit}
             /\ unwritten' = unwritten \ about
        ELSE unwritten' = unwritten \cup about /\ UNCHANGED <<chist, forgotten>>

\* PollOnce, when the sample could be taken: the checks, appendEvents, and
\* the sample is the last one whether or not its events were written.
PollOnce(sample) ==
    /\ \E ok \in Outcomes :
          LET prior == IF ok.prior THEN chist ELSE <<>> IN
          /\ cfaults + Failures(ok) <= MaxFaults /\ cfaults' = cfaults + Failures(ok)
          /\ \E evs \in SampleEvents(prior, sample) :
               LET flagged == Flagged(evs) IN
               /\ evs # <<>> \/ Failures(ok) = 0
               /\ AppendEvents(evs, ok)
               /\ \E out \in Reports(flagged) :
                     LET failed == Cardinality({i \in DOMAIN out : out[i] # "ok"}) IN
                     /\ faults + failed <= MaxFaults /\ faults' = faults + failed
                     /\ ledger' = EscalateAll(flagged, out)
               /\ nskill' = IF flagged = <<>> THEN nskill ELSE ConnSeverity(flagged[Len(flagged)])
               /\ noted' = noted \cup UNION {Features(evs[i].conn) : i \in {i \in DOMAIN evs :
                      \/ evs[i].type = "existing" \/ evs[i].unusual # "no"
                      \/ evs[i].conn.port = OwnPort}}
    /\ prev' = sample /\ bootstrapped' = TRUE
    /\ carried' = carried \ sample
    /\ reply' = NoReply /\ UNCHANGED <<restarts, tick>>

\* The tool reports and writes the skill state.
CheckConnections ==
    /\ nskill' = "ok"
    /\ UNCHANGED <<prev, bootstrapped, chist, restarts, cfaults, carried, unwritten, forgotten, noted>>
    /\ LedgerIdle

ConnRestart ==
    /\ restarts < MaxRestarts /\ bootstrapped
    /\ restarts' = restarts + 1
    /\ prev' = {} /\ bootstrapped' = FALSE
    /\ carried' = ActiveConnections(chist) /\ unwritten' = {}
    /\ UNCHANGED <<chist, nskill, cfaults, forgotten, noted>> /\ LedgerIdle

ConnNext == (\E sample \in SUBSET Conns : PollOnce(sample)) \/ CheckConnections \/ ConnRestart

-----------------------------------------------------------------------------
(* Properties.                                                              *)

\* The history stays within its limit, and there is a sample only after the
\* first poll (connmonitor.go:153, 298).
ConnTypeOK ==
    /\ prev \subseteq Conns
    /\ Len(chist) <= HistoryLimit /\ (~bootstrapped => prev = {})
    /\ \A i \in DOMAIN chist : chist[i].type \in {"open", "close", "existing"}
    /\ nskill \in {"ok", "warning", "critical"}

\* After a poll, what is shown as active (ActiveConnections,
\* connmonitor.go:331) is the last sample, whatever was sampled before, but
\* for three losses: a connection that was open before a restart and has not
\* been sampled since; one whose latest event could not be written, for
\* appendEvents only logs that and the sample has gone on (connmonitor.go:269,
\* 301), and this only until its next event or a restart; and, not shown
\* though open, one whose event the cap or a failed read has dropped.
ShownConnectionsAccurate ==
    bootstrapped =>
        /\ ShownConnections(chist, prev) \ prev \subseteq carried \cup unwritten
        /\ prev \ ShownConnections(chist, prev) \subseteq forgotten \cup unwritten

\* No inbound port, process or remote host enters the history unnoticed: the
\* event that brought it was flagged, or part of the start-up sample, or on
\* the agent's own port (checkAgainstBaseline, baseline.go:26), whatever
\* opened in the same poll.
NoSilentConnection ==
    \A i \in DOMAIN chist : IsOpening(chist[i]) => Features(chist[i].conn) \subseteq noted

\* A flagged connection is on the ledger, although the next run of
\* check_network_connections overwrites the critical skill state with ok
\* (check_network_connections.go:70), unless a ledger access failed or the
\* ledger is full.
FlaggedConnectionOnLedger ==
    \A i \in DOMAIN chist : chist[i].unusual # "no" =>
        \/ ConnFingerprint(chist[i]) \in Problems(ledger)
        \/ faults > 0 \/ Len(ledger) = MaxIncidents

\* "ActiveConnections derives which connections are currently open"
\* (connmonitor.go:331): right after a poll nothing else is shown.
OnlyOpenConnectionsShown ==
    bootstrapped => ShownConnections(chist, prev) \subseteq prev
=============================================================================
