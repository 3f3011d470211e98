-------------------------------- MODULE Fleet --------------------------------
(***************************************************************************)
(* Central's view of the fleet (central-backend: poller, fleet, fleetCache,*)
(* activity, notifier): a timer polls every enrolled host in parallel,     *)
(* puts the answers into the cache and then sends mail about what is new.  *)
(* The timer does not wait for the previous poll, and a refresh after a    *)
(* clear polls as well, so several may be under way.  JavaScript runs one  *)
(* step at a time; a step ends at every await.                             *)
(***************************************************************************)
EXTENDS Integers, Sequences, FiniteSets

CONSTANTS
    Hosts,        \* hosts that may be enrolled
    Entries,      \* open critical findings and pending approvals: id, host, type, high
    Polls,        \* polls and refreshes that may be under way
    MaxChanges,   \* bound on changes of the hosts and of the day
    MaxFails,     \* bound on timeouts and failing mails
    MaxRestarts,  \* bound on restarts of central
    MaxOverlaps   \* bound on polls started while another is under way

ASSUME FleetAssumption ==
    /\ \A e \in Entries : e.host \in Hosts /\ e.type \in {"finding", "approval"} /\ e.high \in BOOLEAN
    /\ IsFiniteSet(Polls) /\ MaxChanges \in Nat /\ "null" \notin Hosts

VARIABLES
    inventory,  \* enrolled hosts
    mailing,    \* email.enabled
    up, live,   \* hosts that answer, and entries open on them
    old,        \* approvals past half of their timeout
    day,        \* days on which the time of the summary has come
    fleet,      \* fleetCache
    poll,       \* polls: pc, kind, answers so far, stage and keys of the notifier
    notified,   \* _notified
    daily,      \* _lastDailySummaryDate
    changes, fails, overlaps, restarts,
    mails,      \* history: mails sent about each key
    drops       \* history: times each key has left notified

hostVars == <<inventory, mailing, up, live, old, day, changes>>
mailVars == <<notified, daily, mails, drops>>
fleetVars == <<hostVars, fleet, poll, mailVars, fails, overlaps, restarts>>

Stages == <<"issue", "approval", "escalate", "daily">>
Keys == {<<"issue", h>> : h \in Hosts} \cup {<<"daily", d>> : d \in 1 .. MaxChanges}
        \cup UNION {{<<"issue", e.id>>, <<"approval", e.id>>, <<"escalate", e.id>>} : e \in Entries}

Offline == [online |-> FALSE, entries |-> {}]
Awaiting == [online |-> FALSE, entries |-> {"awaiting"}]
NoFleet == [h \in {"null"} |-> Offline]  \* an empty inventory gives a fleet of no agents
NoPoll == [pc |-> "idle", kind |-> "", got |-> NoFleet, stage |-> 0, todo |-> {}, sending |-> {}]

FleetInit ==
    /\ inventory \in SUBSET Hosts /\ mailing \in BOOLEAN
    /\ up = Hosts /\ live \in {{}, Entries} /\ old = {} /\ day = 0 /\ changes = 0
    /\ fleet = NoFleet /\ poll = [p \in Polls |-> NoPoll]
    /\ notified = {} /\ daily = 0 /\ fails = 0 /\ overlaps = 0 /\ restarts = 0
    /\ mails = [k \in Keys |-> 0] /\ drops = [k \in Keys |-> 0]

-----------------------------------------------------------------------------
(* The view of one host, and what activity.js derives from the fleet.       *)

\* toFleetAgent for a host that answers: an unreachable one has no timeline.
ToFleetAgent(h) == [online |-> TRUE, entries |-> {e \in live : e.host = h}]
AllTimelineEntries(f) == UNION {f[h].entries : h \in DOMAIN f}
PendingApprovals(f) == {e \in AllTimelineEntries(f) : e.type = "approval"}
Concerns(f) == {e.id : e \in {e \in AllTimelineEntries(f) : e.type = "finding"}}
                  \cup {h \in DOMAIN f : ~f[h].online}

\* Keys that the notifier considers in a stage; reminders only when due.
LiveKeys(stage, f) ==
    IF stage = "issue" THEN {<<stage, c>> : c \in Concerns(f)}
    ELSE {<<stage, e.id>> : e \in PendingApprovals(f)}
DueKeys(stage, f) ==
    IF stage = "escalate" THEN {<<stage, e.id>> : e \in {e \in PendingApprovals(f) \cap old : e.high}}
    ELSE LiveKeys(stage, f)

-----------------------------------------------------------------------------
(* Polling.                                                                 *)

Under(pcs) == {p \in Polls : poll[p].pc \in pcs}
Busy == Under({"fetch", "enter", "pick", "mail"})
FreshPoll(kind) ==
    [pc |-> "fetch", kind |-> kind, got |-> [h \in inventory |-> Awaiting], stage |-> 0, todo |-> {}, sending |-> {}]

\* The timer, whether or not another poll is under way.
StartPoll(p) ==
    /\ poll[p].pc = "idle"
    /\ overlaps' = overlaps + (IF Busy = {} THEN 0 ELSE 1) /\ overlaps' <= MaxOverlaps
    /\ poll' = [poll EXCEPT ![p] = FreshPoll("poll")]
    /\ UNCHANGED <<hostVars, fleet, mailVars, fails, restarts>>

\* getStatus of one host: its answer, or null after an error or a timeout.
Fetch(p, h) ==
    /\ poll[p].pc = "fetch" /\ h \in inventory /\ poll[p].got[h] = Awaiting
    /\ \/ h \in up /\ poll' = [poll EXCEPT ![p].got[h] = ToFleetAgent(h)] /\ UNCHANGED fails
       \/ h \notin up /\ poll' = [poll EXCEPT ![p].got[h] = Offline] /\ UNCHANGED fails
       \/ /\ h \in up /\ fails < MaxFails /\ fails' = fails + 1
          /\ poll' = [poll EXCEPT ![p].got[h] = Offline]
    /\ UNCHANGED <<hostVars, fleet, mailVars, overlaps, restarts>>

\* Mutant of Landed: a host that did not answer keeps its previous state.
LandedKeepingOld(p) ==
    [h \in inventory |-> IF ~poll[p].got[h].online /\ h \in DOMAIN fleet THEN fleet[h] ELSE poll[p].got[h]]

Landed(p) == poll[p].got

\* setFleet once every host has answered; only a poll goes on to the notifier.
SetFleet(p) ==
    /\ poll[p].pc = "fetch" /\ \A h \in inventory : poll[p].got[h] # Awaiting
    /\ fleet' = Landed(p)
    /\ poll' = [poll EXCEPT ![p] = IF poll[p].kind = "refresh" \/ ~mailing THEN NoPoll
                                   ELSE [poll[p] EXCEPT !.pc = "enter", !.stage = 1]]
    /\ UNCHANGED <<hostVars, mailVars, fails, overlaps, restarts>>

-----------------------------------------------------------------------------
(* The notifier, for the answers of one poll.                               *)

Stage(p) == Stages[poll[p].stage]
NextStage(p) ==
    poll' = [poll EXCEPT ![p] = [poll[p] EXCEPT !.pc = "enter", !.stage = poll[p].stage + 1, !.todo = {}]]

\* The first statements of _checkCriticalConcerns, _checkPendingApprovals and
\* _checkEscalations: keys that are gone are dropped.
EnterStage(p) ==
    /\ poll[p].pc = "enter" /\ Stage(p) # "daily"
    /\ LET gone == {k \in notified : k[1] = Stage(p) /\ k \notin LiveKeys(Stage(p), poll[p].got)}
       IN  /\ notified' = notified \ gone
           /\ drops' = [k \in Keys |-> drops[k] + (IF k \in gone THEN 1 ELSE 0)]
    /\ poll' = [poll EXCEPT ![p] = [poll[p] EXCEPT !.pc = "pick", !.todo = DueKeys(Stage(p), poll[p].got)]]
    /\ UNCHANGED <<hostVars, fleet, daily, mails, fails, overlaps, restarts>>

\* Mutant of Pick: a stage without fresh keys ends the notifier, not the stage.
PickReturns(p) ==
    LET fresh == poll[p].todo \ notified
        send(S) == poll' = [poll EXCEPT ![p] =
                       [poll[p] EXCEPT !.pc = "mail", !.sending = S,
                                       !.todo = IF Stage(p) = "approval" THEN {} ELSE poll[p].todo \ S]]
    IN  /\ poll[p].pc = "pick"
        /\ \/ fresh = {} /\ poll' = [poll EXCEPT ![p] = NoPoll]
           \/ fresh # {} /\ Stage(p) = "approval" /\ send(fresh)
           \/ Stage(p) # "approval" /\ \E k \in fresh : send({k})
        /\ UNCHANGED <<hostVars, fleet, mailVars, fails, overlaps, restarts>>

\* The next mail: approvals together, the others one by one.
Pick(p) ==
    LET fresh == poll[p].todo \ notified
        send(S) == poll' = [poll EXCEPT ![p] =
                       [poll[p] EXCEPT !.pc = "mail", !.sending = S,
                                       !.todo = IF Stage(p) = "approval" THEN {} ELSE poll[p].todo \ S]]
    IN  /\ poll[p].pc = "pick"
        /\ \/ fresh = {} /\ NextStage(p)
           \/ fresh # {} /\ Stage(p) = "approval" /\ send(fresh)
           \/ Stage(p) # "approval" /\ \E k \in fresh : send({k})
        /\ UNCHANGED <<hostVars, fleet, mailVars, fails, overlaps, restarts>>

\* Mutant of EnterDaily: the day is not marked.
EnterDailyUnmarked(p) ==
    /\ poll[p].pc = "enter" /\ Stage(p) = "daily"
    /\ poll' = [poll EXCEPT ![p] = IF daily = day THEN NoPoll
                                   ELSE [poll[p] EXCEPT !.pc = "mail", !.sending = {<<"daily", day>>}]]
    /\ UNCHANGED <<hostVars, fleet, mailVars, fails, overlaps, restarts>>

\* _maybeSendDailySummary: the day is marked before the mail goes out.
EnterDaily(p) ==
    /\ poll[p].pc = "enter" /\ Stage(p) = "daily"
    /\ daily' = day
    /\ poll' = [poll EXCEPT ![p] = IF daily = day THEN NoPoll
                                   ELSE [poll[p] EXCEPT !.pc = "mail", !.sending = {<<"daily", day>>}]]
    /\ UNCHANGED <<hostVars, fleet, notified, mails, drops, fails, overlaps, restarts>>

AfterMail(p) ==
    poll' = [poll EXCEPT ![p] = IF Stage(p) = "daily" THEN NoPoll
                                ELSE [poll[p] EXCEPT !.pc = "pick", !.sending = {}]]

\* Mutant of MailSent: the key is not remembered.
MailSentForgets(p) ==
    /\ poll[p].pc = "mail" /\ AfterMail(p)
    /\ mails' = [k \in Keys |-> mails[k] + (IF k \in poll[p].sending THEN 1 ELSE 0)]
    /\ UNCHANGED <<hostVars, fleet, notified, daily, drops, fails, overlaps, restarts>>

MailSent(p) ==
    /\ poll[p].pc = "mail" /\ AfterMail(p)
    /\ mails' = [k \in Keys |-> mails[k] + (IF k \in poll[p].sending THEN 1 ELSE 0)]
    /\ notified' = notified \cup {k \in poll[p].sending : k[1] # "daily"}
    /\ UNCHANGED <<hostVars, fleet, daily, drops, fails, overlaps, restarts>>

\* Mutant of MailFails: the key is remembered all the same.
MailFailsRemembered(p) ==
    /\ poll[p].pc = "mail" /\ fails < MaxFails /\ AfterMail(p)
    /\ fails' = fails + 1
    /\ notified' = notified \cup {k \in poll[p].sending : k[1] # "daily"}
    /\ UNCHANGED <<hostVars, fleet, daily, mails, drops, overlaps, restarts>>

MailFails(p) ==
    /\ poll[p].pc = "mail" /\ fails < MaxFails /\ AfterMail(p)
    /\ fails' = fails + 1
    /\ UNCHANGED <<hostVars, fleet, mailVars, overlaps, restarts>>

NotifierStep(p) == EnterStage(p) \/ Pick(p) \/ EnterDaily(p) \/ MailSent(p) \/ MailFails(p)

-----------------------------------------------------------------------------
(* The hosts, and a restart of central.                                     *)

HostsChange ==
    /\ changes < MaxChanges /\ changes' = changes + 1
    /\ \/ \E h \in inventory : up' = (IF h \in up THEN up \ {h} ELSE up \cup {h})
          /\ UNCHANGED <<live, old, day>>
       \/ \E e \in Entries : live' = (IF e \in live THEN live \ {e} ELSE live \cup {e})
          /\ UNCHANGED <<up, old, day>>
       \/ \E e \in live \ old : e.type = "approval" /\ old' = old \cup {e} /\ UNCHANGED <<up, live, day>>
       \/ day' = day + 1 /\ UNCHANGED <<up, live, old>>
    /\ UNCHANGED <<inventory, mailing, fleet, poll, mailVars, fails, overlaps, restarts>>

\* What is in memory is lost; whoever was being mailed may be mailed again.
ForgetFleet ==
    LET lost == notified \cup (UNION {poll[p].sending : p \in Polls}) \cup {<<"daily", d>> : d \in 1 .. daily}
    IN  /\ fleet' = NoFleet /\ poll' = [p \in Polls |-> NoPoll] /\ notified' = {} /\ daily' = 0
        /\ drops' = [k \in Keys |-> drops[k] + (IF k \in lost THEN 1 ELSE 0)]
        /\ UNCHANGED <<hostVars, mails, fails, overlaps>>

-----------------------------------------------------------------------------
(* Properties.                                                              *)

World == [h \in inventory |-> IF h \in up THEN ToFleetAgent(h) ELSE Offline]

\* Types; and a key is remembered only when its mail has gone out, so that a
\* mail that failed is tried again (notifier.js:86-90).
FleetTypeOK ==
    /\ fleet = NoFleet \/ DOMAIN fleet = inventory
    /\ \A p \in Polls : /\ poll[p].pc \in {"idle", "fetch", "enter", "pick", "mail"}
                        /\ poll[p].pc = "mail" => poll[p].sending # {} /\ poll[p].sending \subseteq Keys
    /\ \A k \in notified : k[1] # "daily" /\ mails[k] > 0

\* A key is mailed again only after a poll in which it was gone, or central
\* was restarted, or two polls' notifiers overlapped (notifier.js:69-91, 109-130).
RepeatsExplained == \A k \in Keys : mails[k] <= 1 + drops[k] + overlaps

\* The summary of a day is sent at most once, even when polls overlap
\* (notifier.js:199-207); only a restart forgets that it was.
SummaryOncePerDay == \A d \in 1 .. MaxChanges : mails[<<"daily", d>>] <= 1 + drops[<<"daily", d>>]

\* "no repeat for the same approval ID" (notifier.js:7), restarts aside.
NoRepeatForApproval ==
    \A e \in Entries : mails[<<"approval", e.id>>] <= 1 + restarts

\* Whatever stays open is mailed in the end, although mails fail, hosts come
\* and go and polls overlap (notifier.js:84-90).
OpenIsMailed ==
    <>[](mailing => \A stage \in {"issue", "approval"} : \A k \in LiveKeys(stage, World) : mails[k] > 0)
=============================================================================
