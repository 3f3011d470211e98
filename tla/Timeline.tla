------------------------------ MODULE Timeline ------------------------------
(***************************************************************************)
(* The activity timeline of an agent: one list in the memory store, newest *)
(* entry first, that findings, commands, approvals and manual runs share.  *)
(* Every writer reads the whole list, changes its copy and writes the copy *)
(* back; the store serialises the calls but not the pair, so a writer may  *)
(* write back a list that another one has replaced meanwhile.              *)
(***************************************************************************)
EXTENDS Integers, Sequences, FiniteSets, SequencesExt

CONSTANTS
    MaxEntries,  \* maxEntries, maxTimelineEntries
    Writers,     \* goroutines and handlers that rewrite the timeline
    Findings,    \* ids of the findings an agent run may report
    MaxMisreads  \* bound on failing reads of the timeline

ASSUME TimelineAssumption == MaxEntries \in Nat \ {0} /\ MaxMisreads \in Nat

VARIABLES
    timeline,   \* the stored list
    rewrite,    \* what each writer has read (base) and is about to write (list),
                \* and the id it has added, if any
    misreads,   \* failed reads so far
    placed,     \* history: ids added, in the order of the writes
    removed,    \* history: ids taken out by RemoveFromTimeline
    clobbered   \* history: ids whose newer state a stale list has overwritten

timelineVars == <<timeline, rewrite, misreads, placed, removed, clobbered>>

Quiet == [on |-> FALSE, base |-> <<>>, list |-> <<>>, new |-> <<>>]
Entry(id, severity, st) == [id |-> id, severity |-> severity, status |-> st]
Ids(list) == {list[i].id : i \in DOMAIN list}
Find(list, id) == list[CHOOSE i \in DOMAIN list : list[i].id = id]

TimelineInit ==
    /\ timeline = <<>> /\ misreads = 0
    /\ rewrite = [w \in Writers |-> Quiet]
    /\ placed = <<>> /\ removed = {} /\ clobbered = {}

\* Mutant of Prepended: the cap cuts off the newest entry.
PrependedCutNewest(list, e) ==
    IF Len(list) >= MaxEntries THEN list ELSE <<e>> \o list

\* Mutant of Prepended: the cap is one too many.
PrependedOver(list, e) ==
    LET all == <<e>> \o list
    IN  SubSeq(all, 1, IF Len(all) > MaxEntries + 1 THEN MaxEntries + 1 ELSE Len(all))

\* writeTimeline, AppendTimeline and report_findings.
Prepended(list, e) ==
    LET all == <<e>> \o list
    IN  SubSeq(all, 1, IF Len(all) > MaxEntries THEN MaxEntries ELSE Len(all))

\* PatchTimeline and the resolve of a finding.
Patched(list, id, st) ==
    [i \in DOMAIN list |-> IF list[i].id = id THEN [list[i] EXCEPT !.status = st] ELSE list[i]]

\* RemoveFromTimeline.
Without(list, id) == SelectSeq(list, LAMBDA e : e.id # id)

-----------------------------------------------------------------------------
(* The two halves of a rewrite.                                             *)

\* Read and change: what will be written is fixed here.
Begin(w, base, list, new) ==
    /\ ~rewrite[w].on
    /\ rewrite' = [rewrite EXCEPT ![w] = [on |-> TRUE, base |-> base, list |-> list, new |-> new]]

\* A read whose error is ignored: the list then starts afresh.
BeginPrepend(w, e) == \E readOk \in BOOLEAN :
    /\ readOk \/ (misreads < MaxMisreads /\ timeline # <<>>)
    /\ misreads' = misreads + (IF readOk THEN 0 ELSE 1)
    /\ LET base == IF readOk THEN timeline ELSE <<>> IN Begin(w, base, Prepended(base, e), <<e.id>>)
    /\ UNCHANGED <<timeline, placed, removed, clobbered>>

BeginPatch(w, id, st) ==
    /\ id \in Ids(timeline)
    /\ Begin(w, timeline, Patched(timeline, id, st), <<>>)
    /\ UNCHANGED <<timeline, misreads, placed, removed, clobbered>>

BeginRemove(w, id) ==
    /\ id \in Ids(timeline)
    /\ Begin(w, timeline, Without(timeline, id), <<>>)
    /\ removed' = removed \cup {id}
    /\ UNCHANGED <<timeline, misreads, placed, clobbered>>

WriteBack(w) ==
    LET r == rewrite[w]
        changed(id) == \/ (id \in Ids(timeline)) # (id \in Ids(r.base))
                       \/ id \in Ids(timeline) /\ Find(timeline, id) # Find(r.base, id)
    IN  /\ r.on
        /\ timeline' = r.list
        /\ rewrite' = [rewrite EXCEPT ![w] = Quiet]
        /\ placed' = placed \o r.new
        /\ clobbered' = clobbered \cup {id \in Ids(timeline) \cup Ids(r.base) : changed(id)}
        /\ UNCHANGED <<misreads, removed>>

-----------------------------------------------------------------------------
(* Findings: the report_findings tool and POST /findings/{id}/resolve.      *)

Severities == {"", "critical"}

ReportFinding(w, f, severity) ==
    /\ f \notin ToSet(placed) /\ \A v \in Writers : f \notin Ids(rewrite[v].list)
    /\ BeginPrepend(w, Entry(f, severity, "none"))

\* An unknown id is answered 404, one without severity 400.
ResolveFinding(w, f) ==
    /\ f \in Ids(timeline) /\ Find(timeline, f).severity # ""
    /\ BeginPatch(w, f, "resolved")

TimelineIdle == UNCHANGED timelineVars

Crashed == /\ rewrite' = [w \in Writers |-> Quiet]
           /\ UNCHANGED <<timeline, misreads, placed, removed, clobbered>>

\* The findings' writer, one call at a time.
FindingsStep(w) ==
    \/ \E f \in Findings, severity \in Severities : ReportFinding(w, f, severity)
    \/ \E f \in Findings : ResolveFinding(w, f)
    \/ WriteBack(w)

-----------------------------------------------------------------------------
(* Properties.                                                              *)

\* The timeline never exceeds its cap and holds no entry twice, whatever
\* lists overlap (report_findings.go:68, timeline.go:30).
TimelineTypeOK ==
    /\ Len(timeline) <= MaxEntries /\ Cardinality(Ids(timeline)) = Len(timeline)
    /\ misreads \in 0 .. MaxMisreads

\* An entry once written is on the timeline unless it was removed, as many
\* entries as the cap came after it, a rewrite that overlapped another one
\* dropped it, or a failed read started the list afresh
\* (request_manual_run.go:144, request_approval.go:329, timeline.go:20).
CardsAccountedFor ==
    \A i \in DOMAIN placed :
        \/ placed[i] \in Ids(timeline) \cup removed \cup clobbered
        \/ Len(placed) - i >= MaxEntries
=============================================================================
