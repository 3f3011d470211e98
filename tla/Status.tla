------------------------------- MODULE Status -------------------------------
(***************************************************************************)
(* GET /status (endpoint-server/status): the state an agent reports, and   *)
(* the cache of the sentence a model writes for the operator while the     *)
(* state is "attention".  Requests run concurrently; the cache is guarded  *)
(* by a mutex that get takes twice, and one goroutine at a time is to ask  *)
(* the model.  Entries of the timeline and skill states come and go.       *)
(***************************************************************************)
EXTENDS Integers, FiniteSets

CONSTANTS
    Items,        \* entries of the timeline: id, type, severity, risk, status
    Skills,       \* skills whose health is merged in
    Requests,     \* concurrent GET /status
    MaxChanges,   \* bound on changes of the alerts
    MaxLapses     \* bound on failing model calls and elapsed TTLs

VARIABLES
    items,      \* entries on the timeline
    unwell,     \* skills whose last known health is critical
    busy,       \* a responsibility is running
    request,    \* requests: pc, and the prompt built from what they have read
    cached,     \* the prompt the cached sentence was written for (none: {})
    expired,    \* the TTL of the cached sentence has elapsed
    running,    \* summarizer.running
    asking,     \* refresh goroutines: prompt each was started with, and pc
    changes, lapses

statusVars == <<items, unwell, busy, request, cached, expired, running, asking, changes, lapses>>

Item(id, type, severity, risk, st) ==
    [id |-> id, type |-> type, severity |-> severity, risk |-> risk, status |-> st]
NoRequest == [pc |-> "idle", prompt |-> {}]

StatusInit ==
    /\ items \in {{}, Items} /\ unwell = {} /\ busy = FALSE
    /\ request = [q \in Requests |-> NoRequest]
    /\ cached = {} /\ expired = TRUE /\ running = FALSE /\ asking = {}
    /\ changes = 0 /\ lapses = 0

-----------------------------------------------------------------------------
(* build.                                                                   *)

\* The skill states that are not well; the stored entries and those.
SkillAlerts == {Item(s, "observation", "critical", "", "") : s \in unwell}
Merged == items \cup SkillAlerts

PendingApproval(e) == e.type = "approval" /\ e.status = "pending" /\ e.risk \in {"high", "medium"}
HasAttention(tl) == \E e \in tl : e.severity = "critical" \/ PendingApproval(e)

\* Mutant of BuildSummaryPrompt: escalations and plain criticals are mixed up.
SummaryPromptNoCriticals(tl) ==
    {e \in tl : e.type = "escalation" \/ PendingApproval(e)}

BuildSummaryPrompt(tl) ==
    {e \in tl : e.type = "escalation" \/ e.severity = "critical" \/ PendingApproval(e)}

State == IF busy THEN "active" ELSE IF HasAttention(Merged) THEN "attention" ELSE "idle"

-----------------------------------------------------------------------------
(* summarizer.                                                              *)

\* build, up to get: only state "attention" is described.
BuildStatus(q) ==
    /\ request[q].pc = "idle" /\ State = "attention"
    /\ BuildSummaryPrompt(Merged) # {}
    /\ request' = [request EXCEPT ![q] = [pc |-> "get", prompt |-> BuildSummaryPrompt(Merged)]]
    /\ UNCHANGED <<items, unwell, busy, cached, expired, running, asking, changes, lapses>>

\* get, first critical section.
GetCached(q) ==
    /\ request[q].pc = "get"
    /\ LET stale == expired \/ request[q].prompt # cached
       IN  request' = [request EXCEPT ![q].pc = IF stale /\ ~running THEN "spawn" ELSE "answer"]
    /\ UNCHANGED <<items, unwell, busy, cached, expired, running, asking, changes, lapses>>

\* Mutant of Spawn: running is not looked at again.
SpawnUnchecked(q) ==
    /\ request[q].pc = "spawn"
    /\ running' = TRUE /\ asking' = asking \cup {[by |-> q, prompt |-> request[q].prompt, pc |-> "ask"]}
    /\ request' = [request EXCEPT ![q].pc = "answer"]
    /\ UNCHANGED <<items, unwell, busy, cached, expired, changes, lapses>>

\* get, second critical section.
Spawn(q) ==
    /\ request[q].pc = "spawn"
    /\ running' = TRUE
    /\ asking' = IF running THEN asking
                 ELSE asking \cup {[by |-> q, prompt |-> request[q].prompt, pc |-> "ask"]}
    /\ request' = [request EXCEPT ![q].pc = "answer"]
    /\ UNCHANGED <<items, unwell, busy, cached, expired, changes, lapses>>

Respond(q) ==
    /\ request[q].pc = "answer"
    /\ request' = [request EXCEPT ![q] = NoRequest]
    /\ UNCHANGED <<items, unwell, busy, cached, expired, running, asking, changes, lapses>>

\* Mutant of Refresh: the sentence is filed under the alerts of the moment.
RefreshForNow(a) ==
    /\ a \in asking /\ a.pc = "ask"
    /\ cached' = BuildSummaryPrompt(Merged) /\ expired' = FALSE
    /\ asking' = (asking \ {a}) \cup {[a EXCEPT !.pc = "end"]}
    /\ UNCHANGED <<items, unwell, busy, request, running, changes, lapses>>

\* refresh: the model has answered, for the prompt it was given.
Refresh(a) ==
    /\ a \in asking /\ a.pc = "ask"
    /\ cached' = a.prompt /\ expired' = FALSE
    /\ asking' = (asking \ {a}) \cup {[a EXCEPT !.pc = "end"]}
    /\ UNCHANGED <<items, unwell, busy, request, running, changes, lapses>>

\* The call fails, times out or returns nothing.
RefreshFails(a) ==
    /\ a \in asking /\ a.pc = "ask" /\ lapses < MaxLapses
    /\ lapses' = lapses + 1
    /\ asking' = (asking \ {a}) \cup {[a EXCEPT !.pc = "end"]}
    /\ UNCHANGED <<items, unwell, busy, request, cached, expired, running, changes>>

\* Mutant of RefreshEnds: running is reset only after a success.
RefreshEndsIfCached(a) ==
    /\ a \in asking /\ a.pc = "end"
    /\ running' = (cached # a.prompt) /\ asking' = asking \ {a}
    /\ UNCHANGED <<items, unwell, busy, request, cached, expired, changes, lapses>>

\* The deferred reset.
RefreshEnds(a) ==
    /\ a \in asking /\ a.pc = "end"
    /\ running' = FALSE /\ asking' = asking \ {a}
    /\ UNCHANGED <<items, unwell, busy, request, cached, expired, changes, lapses>>

TtlElapses ==
    /\ ~expired /\ lapses < MaxLapses
    /\ expired' = TRUE /\ lapses' = lapses + 1
    /\ UNCHANGED <<items, unwell, busy, request, cached, running, asking, changes>>

\* Another part of the agent: an entry is added or goes, a skill saves its
\* health, a responsibility starts or ends.
AlertsChange ==
    /\ changes < MaxChanges
    /\ changes' = changes + 1
    /\ \/ \E e \in Items : items' = (IF e \in items THEN items \ {e} ELSE items \cup {e})
          /\ UNCHANGED <<unwell, busy>>
       \/ \E s \in Skills : unwell' = (IF s \in unwell THEN unwell \ {s} ELSE unwell \cup {s})
          /\ UNCHANGED <<items, busy>>
       \/ busy' = ~busy /\ UNCHANGED <<items, unwell>>
    /\ UNCHANGED <<request, cached, expired, running, asking, lapses>>

StatusNext ==
    \/ \E q \in Requests : BuildStatus(q) \/ GetCached(q) \/ Spawn(q) \/ Respond(q)
    \/ \E a \in asking : Refresh(a) \/ RefreshFails(a) \/ RefreshEnds(a)
    \/ TtlElapses \/ AlertsChange

\* The dashboard polls on, goroutines and handlers run on, and the model
\* answers or the call times out.
StatusFairness ==
    /\ \A q \in Requests : WF_statusVars(BuildStatus(q) \/ GetCached(q) \/ Spawn(q) \/ Respond(q))
    /\ WF_statusVars(\E a \in asking : Refresh(a) \/ RefreshFails(a) \/ RefreshEnds(a))

-----------------------------------------------------------------------------
(* Properties.                                                              *)

\* At most one refresh is in flight, and running says whether there is one,
\* although get reads it and sets it under two different locks
\* (summarizer.go:98-111).
OneRefresh == Cardinality(asking) <= 1 /\ (running = (asking # {}))

\* Whenever the agent reports "attention", there is something to describe
\* (status.go:173 and summarizer.go:163 decide this separately).
AttentionIsDescribed == State = "attention" => BuildSummaryPrompt(Merged) # {}

\* Once the alerts have stopped changing, the description settles on them,
\* whatever failed, expired or was under way before (summarizer.go:91-153).
DescriptionCatchesUp == <>[](State = "attention" => cached = BuildSummaryPrompt(Merged))
=============================================================================
