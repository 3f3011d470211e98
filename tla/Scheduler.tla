----------------------------- MODULE Scheduler ------------------------------
(***************************************************************************)
(* loop.Loop: the heartbeat that starts the responsibilities that are due, *)
(* and the goroutine that carries one out (pre-check, agent run, persisted *)
(* run state, notification), with restarts of the process and steps of the *)
(* wall clock.                                                             *)
(*                                                                         *)
(* Time is in minutes and every minute has a heartbeat (loop.heartbeat is  *)
(* one second by default).  nextRun is kept as the minutes left until it,  *)
(* and lastRunDate as whether it is today, so no clock needs a bound.      *)
(***************************************************************************)
EXTENDS Agent, FiniteSets

CONSTANTS
    Frequency,     \* frequency-based responsibilities and their period
    TimeOfDay,     \* daily responsibilities and their configured minute
    PreChecked,    \* responsibilities with a registered PreCheck
    WhenToNotify,  \* their when_to_notify setting
    Goroutines,    \* execute goroutines modelled per responsibility
    DayLength,     \* minutes in a day
    MaxJitter,     \* startupJitterMaxMin
    MaxFaults      \* bound on restarts and steps of the wall clock together

Daily == DOMAIN TimeOfDay
Responsibilities == DOMAIN Frequency \cup Daily

ASSUME SchedulerAssumption ==
    /\ Runs = Responsibilities \X Goroutines
    /\ DOMAIN Frequency \cap Daily = {}
    /\ \A r \in DOMAIN Frequency : Frequency[r] \in Nat \ {0}
    /\ \A r \in Daily : TimeOfDay[r] \in 0 .. DayLength - 1
    /\ PreChecked \subseteq Responsibilities
    /\ WhenToNotify \in [Responsibilities -> {"always", "on_error", "never"}]
    /\ DayLength \in Nat \ {0} /\ MaxJitter \in Nat /\ MaxFaults \in Nat

VARIABLES
    minute,      \* the wall clock's minute of the day
    startupDelay,
    wait,        \* minutes until nextRun
    ranToday,    \* lastRunDate is today
    running,     \* Responsibility.Running
    exec,        \* the execute goroutines
    faults,      \* restarts and clock steps so far
    fired,       \* history: daily runs started on today's date
    firedBoot    \* history: those of them started by this process

schedule == <<startupDelay, wait, ranToday, fired, firedBoot>>
vars == <<run, minute, faults, schedule, running, exec>>

\* A goroutine of execute: its step, what the pre-check found, how the run
\* ended ("quiet": without the agent), the status it persisted and what it
\* sent to the manager.
NoExec == [pc |-> "none", pre |-> "none", end |-> "none", saved |-> "nothing", sent |-> "nothing"]

\* New and NewResponsibility, with a startup delay of j minutes.
NewLoop(j) ==
    /\ startupDelay' = j
    /\ wait' = [r \in DOMAIN Frequency |-> j]
    /\ ranToday' = [r \in Daily |-> FALSE]
    /\ running' = [r \in Responsibilities |-> FALSE]
    /\ firedBoot' = [r \in Daily |-> 0]
    /\ exec' = [x \in Runs |-> NoExec]
    /\ run' = [x \in Runs |-> NotStarted]

\* Mutant: a daily time shifted past midnight does not wrap around.
ShiftedPastMidnight(r) == TimeOfDay[r] + startupDelay

\* The daily time, shifted by the startup delay past midnight if need be.
Shifted(r) == (TimeOfDay[r] + startupDelay) % DayLength

Init ==
    /\ AgentInit
    /\ minute \in 0 .. DayLength - 1
    /\ startupDelay \in 0 .. MaxJitter
    /\ wait = [r \in DOMAIN Frequency |-> startupDelay]
    /\ ranToday = [r \in Daily |-> FALSE]
    /\ running = [r \in Responsibilities |-> FALSE]
    /\ exec = [x \in Runs |-> NoExec]
    /\ faults = 0
    /\ fired = [r \in Daily |-> 0]
    /\ firedBoot = [r \in Daily |-> 0]

-----------------------------------------------------------------------------
(* The heartbeat.                                                           *)

\* Mutant: a daily responsibility is due for the whole of its minute.
DueAllMinute(r, left, min, ran) ==
    IF r \in Daily THEN min = Shifted(r) ELSE left[r] = 0

\* Due: the period has passed, or it is the minute of the day and today's
\* run has not been started by this process.
Due(r, left, min, ran) ==
    IF r \in Daily THEN min = Shifted(r) /\ ~ran[r] ELSE left[r] = 0

\* Mutant: the flag is set without looking at it.
StartableAlways(r) == TRUE

\* Running.CompareAndSwap(false, true) succeeds.
Startable(r) == ~running[r]

\* lastRunDate is today, once the date has or has not changed.
RanOnSameDay(newDay) == [r \in Daily |-> ranToday[r] /\ ~newDay]

Free(r) == {g \in Goroutines : exec[<<r, g>>].pc = "none"}

\* go l.execute: the first step of the new goroutine.
Started(r) == [NoExec EXCEPT !.pc = IF r \in PreChecked THEN "preCheck" ELSE "agent"]

\* run and tick: the clock has advanced by d minutes since the last one.
\* Each responsibility is decided by its own flag, so handling them in one
\* step loses no interleaving with the goroutines that release one.
Tick(d) ==
    LET left == [r \in DOMAIN Frequency |-> IF wait[r] > d THEN wait[r] - d ELSE 0]
        newDay == minute + d >= DayLength
        ran == RanOnSameDay(newDay)
        due == {r \in Responsibilities : Due(r, left, minute', ran)}
        start == {r \in due : Startable(r)}
        Since(n, r) == (IF newDay THEN 0 ELSE n[r]) + (IF r \in start THEN 1 ELSE 0)
    IN  /\ minute' = (minute + d) % DayLength
        /\ \A r \in start : Free(r) # {}
        /\ wait' = [r \in DOMAIN Frequency |-> IF r \in due THEN Frequency[r] ELSE left[r]]
        /\ ranToday' = [r \in Daily |-> ran[r] \/ r \in due]
        /\ running' = [r \in Responsibilities |-> running[r] \/ r \in start]
        /\ exec' = [x \in Runs |->
                      IF x[1] \in start /\ x[2] = CHOOSE g \in Free(x[1]) : TRUE
                      THEN Started(x[1]) ELSE exec[x]]
        /\ fired' = [r \in Daily |-> Since(fired, r)]
        /\ firedBoot' = [r \in Daily |-> Since(firedBoot, r)]
        /\ UNCHANGED <<run, startupDelay, faults>>

-----------------------------------------------------------------------------
(* execute, for the goroutine x.                                            *)

Apart == UNCHANGED <<minute, faults, schedule>>

\* Mutant: a pre-check that fails is taken at its word.
PreCheckTrusted(x) ==
    /\ exec[x].pc = "preCheck"
    /\ \/ \E pre \in {"clean", "error"} :
             exec' = [exec EXCEPT ![x].pc = "persist", ![x].pre = pre, ![x].end = "quiet"]
       \/ exec' = [exec EXCEPT ![x].pc = "agent", ![x].pre = "problem"]
    /\ UNCHANGED <<run, running>> /\ Apart

\* The PreCheck: clean ends the run without an LLM call; a problem, or an
\* error of the check itself, goes on to the agent.
PreCheck(x) ==
    /\ exec[x].pc = "preCheck"
    /\ \/ exec' = [exec EXCEPT ![x].pc = "persist", ![x].pre = "clean", ![x].end = "quiet"]
       \/ \E pre \in {"problem", "error"} :
             exec' = [exec EXCEPT ![x].pc = "agent", ![x].pre = pre]
    /\ UNCHANGED <<run, running>> /\ Apart

CallAgent(x) ==
    /\ exec[x].pc = "agent" /\ run[x].pc = "none"
    /\ RunBegin(x)
    /\ UNCHANGED <<exec, running>> /\ Apart

AgentRuns(x) ==
    /\ exec[x].pc = "agent"
    /\ AgentStep(x)
    /\ UNCHANGED <<exec, running>> /\ Apart

AgentReturns(x) ==
    /\ exec[x].pc = "agent" /\ run[x].pc = "done"
    /\ exec' = [exec EXCEPT ![x].pc = "persist",
                            ![x].end = IF run[x].out \in Failures THEN "error" ELSE "ok"]
    /\ run' = [run EXCEPT ![x] = NotStarted]
    /\ UNCHANGED running /\ Apart

\* persistRunState; a SetKey that fails is only logged.
PersistRunState(x) ==
    /\ exec[x].pc = "persist"
    /\ \E saved \in {"nothing", IF exec[x].end = "error" THEN "error" ELSE "ok"} :
          exec' = [exec EXCEPT ![x].pc = "notify", ![x].saved = saved]
    /\ UNCHANGED <<run, running>> /\ Apart

Wanted(r, end) ==
    IF end = "error" THEN WhenToNotify[r] # "never" ELSE WhenToNotify[r] = "always"

\* maybeNotify; a notification that cannot be written is only logged.
MaybeNotify(x) ==
    /\ exec[x].pc = "notify"
    /\ \E sent \in {"nothing"} \cup
                   IF ~Wanted(x[1], exec[x].end) THEN {}
                   ELSE {IF exec[x].end = "error" THEN "failure" ELSE "report"} :
          exec' = [exec EXCEPT ![x].pc = "release", ![x].sent = sent]
    /\ UNCHANGED <<run, running>> /\ Apart

\* The deferred Running.Store(false); the goroutine ends.
Release(x) ==
    /\ exec[x].pc = "release"
    /\ running' = [running EXCEPT ![x[1]] = FALSE]
    /\ exec' = [exec EXCEPT ![x] = NoExec]
    /\ UNCHANGED run /\ Apart

Execute(x) ==
    \/ PreCheck(x) \/ CallAgent(x) \/ AgentRuns(x) \/ AgentReturns(x)
    \/ PersistRunState(x) \/ MaybeNotify(x) \/ Release(x)

-----------------------------------------------------------------------------
(* The environment.                                                         *)

\* The process dies or is stopped, goroutines and all, and a new one starts
\* with a startup delay of its own.
Restart ==
    /\ faults < MaxFaults
    /\ faults' = faults + 1
    /\ \E j \in 0 .. MaxJitter : NewLoop(j)
    /\ UNCHANGED <<minute, fired>>

\* The wall clock moves within its date: daylight saving, NTP, an operator.
ClockStep ==
    /\ faults < MaxFaults
    /\ faults' = faults + 1
    /\ minute' \in 0 .. DayLength - 1
    /\ UNCHANGED <<run, schedule, running, exec>>

Next ==
    \/ \E d \in {0, 1} : Tick(d)
    \/ \E x \in Runs : Execute(x)
    \/ Restart
    \/ ClockStep

Spec == Init /\ [][Next]_vars

(***************************************************************************)
(* Fairness: the ticker fires as minutes pass, and the goroutines are      *)
(* scheduled; an inference is under the client's timeout, and tools and    *)
(* pre-checks return.  Nothing makes the process restart or the clock      *)
(* step.                                                                   *)
(***************************************************************************)
FairSpec ==
    /\ Spec
    /\ WF_vars(Tick(1))
    /\ \A r \in Responsibilities : WF_vars(\E g \in Goroutines : Execute(<<r, g>>))

-----------------------------------------------------------------------------
(* Properties.                                                              *)

ExecState ==
    [pc : {"none", "preCheck", "agent", "persist", "notify", "release"},
     pre : {"none", "clean", "problem", "error"}, end : {"none", "quiet", "ok", "error"},
     saved : {"nothing", "ok", "error"}, sent : {"nothing", "failure", "report"}]

(* The loop, its flags and its goroutines have their types.                 *)
TypeOK ==
    /\ AgentTypeOK
    /\ minute \in 0 .. DayLength - 1
    /\ startupDelay \in 0 .. MaxJitter
    /\ wait \in [DOMAIN Frequency -> Nat]
    /\ ranToday \in [Daily -> BOOLEAN]
    /\ running \in [Responsibilities -> BOOLEAN]
    /\ exec \in [Runs -> ExecState]

(* Runs of a responsibility never overlap: while one goroutine is anywhere *)
(* between its pre-check and the end of its notification, no other starts, *)
(* so no older RunState overwrites a newer one.                            *)
NoOverlap ==
    \A r \in Responsibilities :
        Cardinality({g \in Goroutines : exec[<<r, g>>].pc # "none"}) <= 1

(* One process starts a daily responsibility at most once per date, over   *)
(* all the heartbeats of its minute and the steps of the wall clock within *)
(* the date; after a restart it may start once more.                       *)
OncePerDateAndBoot == \A r \in Daily : firedBoot[r] <= 1

(* A run that ends well without a word from the model is one whose pre-    *)
(* check completed and found nothing: a broken check does not go quiet.    *)
QuietOnlyWhenClean ==
    \A x \in Runs :
        exec[x].end = "quiet" => exec[x].pre = "clean"

(* What docs/endpoint-server.md says of a time-of-day responsibility: it   *)
(* fires once per day.                                                     *)
OncePerDay == \A r \in Daily : fired[r] <= 1

(* Every responsibility is carried out again and again: no run, however it *)
(* ends, leaves its flag set, and no skipped firing is the last.           *)
EveryoneRunsAgain ==
    \A r \in Responsibilities : []<>(\E g \in Goroutines : exec[<<r, g>>].pc = "release")
=============================================================================
