------------------------------ MODULE Incidents ------------------------------
(***************************************************************************)
(* The incident ledger (endpoint-server/incidents) and its callers: the    *)
(* manage_incidents tool of the agent runs, and the monitors, which report *)
(* into it.  Every operation loads, changes and saves the whole list under *)
(* one mutex, so each is one action; a read may fail, which the code takes *)
(* for an empty ledger, and so may the write.                              *)
(*                                                                         *)
(* A fingerprint stands for its normalised form.  Titles, details, counts  *)
(* and notes are left out; the time stamps stay, since order, ageing and   *)
(* the cap are decided by them.                                            *)
(***************************************************************************)
EXTENDS Integers, Sequences, FiniteSets

CONSTANTS
    Fingerprints,       \* the problems that may be reported, as tuples
    MaxIncidents,       \* maxIncidents
    ResolvedRetention,  \* resolvedRetention, in ticks of the clock
    MaxTick,            \* bound on the clock
    MaxFaults           \* bound on failing reads and writes of each store

ASSUME LedgerAssumption ==
    /\ MaxIncidents \in Nat \ {0} /\ ResolvedRetention \in Nat
    /\ MaxTick \in Nat /\ MaxFaults \in Nat

VARIABLES
    ledger,  \* the stored list
    tick,    \* the clock
    reply,   \* what the last operation answered to its caller
    faults   \* reads and writes that have failed

ledgerVars == <<ledger, tick, reply, faults>>

Never == -1
NoReply == [op |-> "none", asked |-> <<>>, got |-> <<>>, isNew |-> FALSE, ok |-> TRUE]
Open(list) == {i \in DOMAIN list : list[i].status = "open"}
Problems(list) == {list[i].fp : i \in DOMAIN list}
OpenProblems(list) == {list[i].fp : i \in Open(list)}

\* How the accesses of one step to a history kept in the memory store fare:
\* the read it is checked against, the read it is appended to, the write.
Outcomes == [prior : BOOLEAN, read : BOOLEAN, write : BOOLEAN]
Unchecked == {ok \in Outcomes : ok.prior}
Failures(ok) == Cardinality({f \in DOMAIN ok : ~ok[f]})

\* The orders in which a set may be listed, each element once.
Listings(S) ==
    {q \in UNION {[1 .. n -> S] : n \in 0 .. Cardinality(S)} : \A x \in S : \E i \in DOMAIN q : q[i] = x}

LedgerInit ==
    /\ ledger = <<>> /\ tick = 0
    /\ reply = NoReply /\ faults = 0

-----------------------------------------------------------------------------
(* Order, ageing and the cap.                                               *)
\* Mutant of Before: the status is not compared.
BeforeByTime(a, b) == a.lastSeen > b.lastSeen

\* The comparison of load and save: open first, then newest LastSeen first.
Before(a, b) ==
    IF a.status # b.status THEN a.status = "open" ELSE a.lastSeen > b.lastSeen

\* sort.SliceStable: equal elements keep their order.
Sorted(list) ==
    LET rank(i) == Cardinality({j \in DOMAIN list :
                       \/ Before(list[j], list[i])
                       \/ ~Before(list[i], list[j]) /\ j <= i})
    IN  [k \in DOMAIN list |-> list[CHOOSE i \in DOMAIN list : rank(i) = k]]

\* A failed read is an empty ledger.
Loaded(readOk) == IF readOk THEN Sorted(ledger) ELSE <<>>

Expired(e) == e.status = "resolved" /\ e.resolvedAt < tick - ResolvedRetention
Kept(list) == SelectSeq(list, LAMBDA e : ~Expired(e))
Capped(list) == IF Len(list) > MaxIncidents THEN Sorted(list) ELSE list
\* Mutant of Saved: the cap is forgotten.
SavedUncapped(list) == Kept(list)

Saved(list) == LET k == Capped(Kept(list))
               IN  SubSeq(k, 1, IF Len(k) > MaxIncidents THEN MaxIncidents ELSE Len(k))

\* save filters and sorts the caller's array in place: what is at index i of
\* it afterwards.
AfterSave(list, i) ==
    LET k == Capped(Kept(list)) IN IF i <= Len(k) THEN k[i] ELSE list[i]

Index(list, fp) == CHOOSE i \in DOMAIN list : list[i].fp = fp

-----------------------------------------------------------------------------
(* The operations, as functions of the list they have loaded.               *)
\* Mutants of Reported: a resolved problem gets a second entry, or is
\* refreshed and not reopened.
ReportedAfresh(list, fp) ==
    IF fp \in OpenProblems(list)
    THEN [list EXCEPT ![Index(list, fp)].lastSeen = tick]
    ELSE Append(list, [fp |-> fp, status |-> "open", lastSeen |-> tick, resolvedAt |-> Never])
ReportedSeen(list, fp) ==
    IF fp \in Problems(list)
    THEN [list EXCEPT ![Index(list, fp)].lastSeen = tick]
    ELSE Append(list, [fp |-> fp, status |-> "open", lastSeen |-> tick, resolvedAt |-> Never])

Reported(list, fp) ==
    IF fp \in Problems(list)
    THEN [list EXCEPT ![Index(list, fp)].status = "open",
                      ![Index(list, fp)].lastSeen = tick,
                      ![Index(list, fp)].resolvedAt = Never]
    ELSE Append(list, [fp |-> fp, status |-> "open", lastSeen |-> tick, resolvedAt |-> Never])

Logged(list, fp) == [list EXCEPT ![Index(list, fp)].lastSeen = tick]

Resolved(list, fp) ==
    [list EXCEPT ![Index(list, fp)].status = "resolved",
                 ![Index(list, fp)].resolvedAt = tick]

\* One call: load, change, save, answer.  A failed write changes nothing.
Call(op, fp, new, isNew, readOk, writeOk) ==
    /\ faults + (IF readOk THEN 0 ELSE 1) + (IF writeOk THEN 0 ELSE 1) <= MaxFaults
    /\ faults' = faults + (IF readOk THEN 0 ELSE 1) + (IF writeOk THEN 0 ELSE 1)
    /\ ledger' = IF writeOk THEN Saved(new) ELSE ledger
    /\ reply' = [op |-> op, asked |-> fp, isNew |-> isNew, ok |-> writeOk,
                 got |-> IF isNew \/ ~writeOk THEN fp ELSE AfterSave(new, Index(new, fp)).fp]
    /\ UNCHANGED tick

Report(fp, readOk, writeOk) ==
    LET list == Loaded(readOk)
    IN  Call("report", fp, Reported(list, fp), fp \notin Problems(list), readOk, writeOk)

LogAction(fp, readOk, writeOk) ==
    LET list == Loaded(readOk)
    IN  /\ fp \in Problems(list)
        /\ Call("log", fp, Logged(list, fp), FALSE, readOk, writeOk)

Resolve(fp, readOk, writeOk) ==
    LET list == Loaded(readOk)
    IN  /\ fp \in OpenProblems(list)
        /\ Call("resolve", fp, Resolved(list, fp), FALSE, readOk, writeOk)

\* LogAction of an unknown fingerprint, Resolve of an unknown or resolved one.
Refused(fp, readOk) ==
    /\ fp \notin OpenProblems(Loaded(readOk))
    /\ reply' = [NoReply EXCEPT !.op = "refused", !.asked = fp, !.got = fp,
                                !.ok = fp \in Problems(Loaded(readOk))]
    /\ faults + (IF readOk THEN 0 ELSE 1) <= MaxFaults
    /\ faults' = faults + (IF readOk THEN 0 ELSE 1)
    /\ UNCHANGED <<ledger, tick>>

LedgerTick ==
    /\ tick < MaxTick
    /\ tick' = tick + 1
    /\ reply' = NoReply
    /\ UNCHANGED <<ledger, faults>>

\* A step of another part of the agent.
LedgerIdle == reply' = NoReply /\ UNCHANGED <<ledger, tick, faults>>

\* The manage_incidents tool: any of its actions on any fingerprint.
ManageIncidents(Fps) ==
    \E fp \in Fps, readOk, writeOk \in BOOLEAN :
        \/ Refused(fp, readOk)
        \/ Report(fp, readOk, writeOk)
        \/ LogAction(fp, readOk, writeOk)
        \/ Resolve(fp, readOk, writeOk)

LedgerNext == ManageIncidents(Fingerprints) \/ LedgerTick
LedgerSpec == LedgerInit /\ [][LedgerNext]_ledgerVars

-----------------------------------------------------------------------------
(* Properties.                                                              *)

\* The ledger stays within its cap and the clock (incidents.go:46, 277).
LedgerTypeOK ==
    /\ ledger \in Seq([fp : Fingerprints, status : {"open", "resolved"},
                       lastSeen : 0 .. MaxTick, resolvedAt : {Never} \cup 0 .. MaxTick])
    /\ tick \in 0 .. MaxTick /\ faults \in 0 .. MaxFaults
    /\ Len(ledger) <= MaxIncidents

\* A problem has one entry however often it is reported, resolved and
\* reported again (Report upserts by fingerprint, incidents.go:98), and an
\* entry carries a time of resolution exactly while it is resolved.
OneEntryPerProblem ==
    /\ \A i, j \in DOMAIN ledger : ledger[i].fp = ledger[j].fp => i = j
    /\ \A i \in DOMAIN ledger : (ledger[i].status = "resolved") = (ledger[i].resolvedAt # Never)

\* An open incident leaves the ledger only when a read fails or when more
\* incidents than the cap are open at once, and then one at least as recent
\* stays (save, incidents.go:275): resolved ones always go first.
OpenIncidentsStay ==
    [][\A i \in Open(ledger) :
          \/ ledger[i].fp \in Problems(ledger')
          \/ faults' # faults
          \/ /\ Cardinality(Open(ledger')) = MaxIncidents
             /\ \A j \in Open(ledger') : ledger'[j].lastSeen >= ledger[i].lastSeen]_ledgerVars

\* A report that succeeds leaves its problem open in the ledger, also at the
\* cap (Report, incidents.go:98-163), unless the cap is full of incidents
\* seen within the same tick of the one-second clock.
ReportedIsOpen ==
    reply.op = "report" /\ reply.ok =>
        \/ reply.asked \in OpenProblems(ledger)
        \/ Cardinality({i \in Open(ledger) : ledger[i].lastSeen = tick}) = MaxIncidents

\* "Returns the stored incident" (incidents.go:101): the answer of an
\* operation is about the incident it was asked about.
AnswersTheIncidentAsked == reply.got = reply.asked
=============================================================================
