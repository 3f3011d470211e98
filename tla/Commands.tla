------------------------------ MODULE Commands ------------------------------
(***************************************************************************)
(* Commands proposed by agent runs: run_diagnostic_command runs what only  *)
(* reads, run_approved_command files an approval, or runs the command at   *)
(* once when a standing policy of the operator covers it.  The policy list *)
(* and the counts of approvals (endpoint-server/policy) are changed under  *)
(* one mutex; a read that fails counts as an empty list.                   *)
(*                                                                         *)
(* A command is a sequence of words, further blanks and line breaks.  A    *)
(* policy is matched against the words alone, the text is run as it is.    *)
(* The decision on a filed approval is that of the module Approvals, the   *)
(* wait for a manual run that of ManualRuns: here both are a choice of     *)
(* their outcomes.                                                         *)
(***************************************************************************)
EXTENDS Timeline

CONSTANTS
    Cmds,           \* commands an agent run may propose
    Phrases,        \* noOpPhrases, as sequences of words
    Builtins,       \* noOpShellBuiltins
    Echoes,         \* echo, write-output, write-host
    Allowlist,      \* diagnosticAllowlist and the read-only cmdlets
    DenyPatterns,   \* denyPatterns, as words
    Patterns,       \* patterns of policies
    Covers,         \* the commands a pattern matches as a whole
    Promotion,      \* PromotionThreshold
    MaxCounts,      \* maxHistoryEntries
    Tasks,          \* concurrent calls
    MaxProposals,   \* bound on proposals
    MaxPolicies,    \* bound on policies created
    MaxSlips        \* bound on failing reads, failing writes and crashes

VARIABLES
    policies,   \* approval_policies
    counts,     \* approval_history
    task,       \* the calls: pc, command, what permitted it, a number, and
                \* (history) the policies deleted before it was matched
    proposals,  \* proposals so far
    created,    \* policies created so far
    slips,      \* failures so far
    ran,        \* history: what the shell was given, with what permitted it
    approved,   \* history: commands the operator has approved, in order
    suggested,  \* history: suggestions made, with their count
    deleted,    \* history: ids of policies deleted by the operator
    granted     \* history: policies ever created

policyVars == <<policies, counts, created, deleted, granted>>
commandVars == <<policyVars, task, proposals, slips, ran, approved, suggested, timelineVars>>

Blank == " "
LineBreak == "\n"
White == {Blank, LineBreak}

\* strings.TrimSpace.
Trim(c) ==
    LET W == {i \in DOMAIN c : c[i] \notin White}
    IN  IF W = {} THEN <<>> ELSE SubSeq(c, Min(W), Max(W))

\* strings.Fields, joined: line breaks go the way of blanks.
NormalizeCommand(c) == SelectSeq(c, LAMBDA w : w \notin White)
Normals == {NormalizeCommand(c) : c \in Cmds}

\* What sh -c makes of a text: the words of each line, lines in turn.
Script(c) ==
    LET cuts == {0, Len(c) + 1} \cup {i \in DOMAIN c : c[i] = LineBreak}
        cut == SetToSortSeq(cuts, <)
        line == [k \in 1 .. Len(cut) - 1 |-> NormalizeCommand(SubSeq(c, cut[k] + 1, cut[k + 1] - 1))]
    IN  SelectSeq(line, LAMBDA l : l # <<>>)

Free == [pc |-> "idle", cmd |-> <<>>, by |-> "", no |-> 0, revoked |-> {}]

CommandInit ==
    /\ policies = <<>> /\ counts = [c \in {} |-> 0]
    /\ task = [t \in Tasks |-> Free] /\ proposals = 0 /\ created = 0 /\ slips = 0
    /\ ran = {} /\ approved = <<>> /\ suggested = {} /\ deleted = {} /\ granted = {}
    /\ TimelineInit

-----------------------------------------------------------------------------
(* Which tool takes a command.                                              *)

IsNoOpCommand(c) == Trim(c) \in Phrases
IsNoOpShellBuiltin(c) == Trim(c) \in Builtins
FirstToken(c) == LET f == NormalizeCommand(c) IN IF f = <<>> THEN "" ELSE f[1]
IsEchoStatusCommand(c) ==
    FirstToken(c) \in Echoes /\ ToSet(c) \cap {">", "|"} = {}

\* validateCommand: both layers have to pass.
Denied(c) == ToSet(c) \cap DenyPatterns # {}
IsDiagnosticEligible(c) ==
    /\ FirstToken(c) \notin Echoes
    /\ FirstToken(c) \in Allowlist
    /\ ~Denied(c)

RunDiagnosticAccepts(c) == Trim(c) # <<>> /\ IsDiagnosticEligible(c)

\* Mutant of RunApprovedAccepts: read-only commands are let through.
RunApprovedAcceptsAny(c) ==
    /\ Trim(c) # <<>> /\ ~IsNoOpCommand(c) /\ ~IsNoOpShellBuiltin(c)
    /\ ~IsEchoStatusCommand(c)

RunApprovedAccepts(c) ==
    /\ Trim(c) # <<>> /\ ~IsNoOpCommand(c) /\ ~IsNoOpShellBuiltin(c)
    /\ ~IsEchoStatusCommand(c) /\ ~IsDiagnosticEligible(c)

-----------------------------------------------------------------------------
(* The policy store.                                                        *)

Policy(n, p) == [id |-> n, pattern |-> p]
Slip(ok) == slips' = slips + (IF ok THEN 0 ELSE 1) /\ slips' <= MaxSlips

\* POST /policies.
AddPolicy(p) == \E readOk \in BOOLEAN :
    /\ created < MaxPolicies /\ Slip(readOk)
    /\ created' = created + 1
    /\ policies' = Append(IF readOk THEN policies ELSE <<>>, Policy(created + 1, p))
    /\ granted' = granted \cup {Policy(created + 1, p)}
    /\ UNCHANGED <<counts, deleted, task, proposals, ran, approved, suggested>> /\ TimelineIdle

\* Mutant of Remaining: all policies of the same pattern go.
RemainingByPattern(id) ==
    LET P == {policies[i].pattern : i \in {i \in DOMAIN policies : policies[i].id = id}}
    IN  SelectSeq(policies, LAMBDA p : p.pattern \notin P)


Remaining(id) == SelectSeq(policies, LAMBDA p : p.id # id)

\* DELETE /policies/{id}: 404 when it is not there, or cannot be read.
DeletePolicy(id) ==
    /\ \E i \in DOMAIN policies : policies[i].id = id
    /\ policies' = Remaining(id)
    /\ deleted' = deleted \cup {id}
    /\ UNCHANGED <<counts, created, granted, task, proposals, slips, ran, approved, suggested>>
    /\ TimelineIdle

\* Match: some policy matches the whole command.
Match(c) == \E i \in DOMAIN policies : NormalizeCommand(c) \in Covers[policies[i].pattern]

\* Mutant of CountKey: spellings are counted apart.
CountKeyRaw(c) == c
CountKey(c) == NormalizeCommand(c)

Counted(c, readOk) ==
    LET old == IF readOk THEN counts ELSE [k \in {} |-> 0]
        key == CountKey(c)
        n == IF key \in DOMAIN old THEN old[key] + 1 ELSE 1
    IN  [k \in DOMAIN old \cup {key} |-> IF k = key THEN n ELSE old[k]]

\* Mutant of Overfull: the cap is one too many.
OverfullLate(new) == Cardinality(DOMAIN new) > MaxCounts + 1
Overfull(new) == Cardinality(DOMAIN new) > MaxCounts

\* Mutant of Victims: the most frequent go first.
VictimsLargest(new, key) ==
    {k \in DOMAIN new \ {key} : \A j \in DOMAIN new \ {key} : new[j] <= new[k]}

\* The commands eviction may pick: smallest count, never the one just counted.
Victims(new, key) ==
    {k \in DOMAIN new \ {key} : \A j \in DOMAIN new \ {key} : new[k] <= new[j]}

-----------------------------------------------------------------------------
(* A call of run_approved_command, and ExecuteOnApproval.                   *)

At(t, pc) == task[t].pc = pc
Advance(t, pc) == task' = [task EXCEPT ![t].pc = pc]
Finish(t) == task' = [task EXCEPT ![t] = Free]
CommandsIdle == UNCHANGED <<policyVars, proposals, ran, approved, suggested>>

Call(pc, c, by) == [pc |-> pc, cmd |-> Trim(c), by |-> by, no |-> proposals + 1, revoked |-> deleted]

\* Mutant of Propose: the command is executed before it is recorded.
ProposeRunFirst(t, c) == \E readOk \in BOOLEAN :
    /\ At(t, "idle") /\ proposals < MaxProposals /\ RunApprovedAccepts(c) /\ Slip(readOk)
    /\ proposals' = proposals + 1
    /\ task' = [task EXCEPT ![t] = IF readOk /\ Match(c) THEN Call("exec", c, "policy")
                                                        ELSE Call("filed", c, "operator")]
    /\ UNCHANGED <<policyVars, ran, approved, suggested>> /\ TimelineIdle

\* The tool, up to the card of a policy's run or the filed approval; policies
\* that cannot be read match nothing.
Propose(t, c) == \E readOk \in BOOLEAN :
    /\ At(t, "idle") /\ proposals < MaxProposals /\ RunApprovedAccepts(c) /\ Slip(readOk)
    /\ proposals' = proposals + 1
    /\ task' = [task EXCEPT ![t] = IF readOk /\ Match(c) THEN Call("card", c, "policy")
                                                        ELSE Call("filed", c, "operator")]
    /\ UNCHANGED <<policyVars, ran, approved, suggested>> /\ TimelineIdle

\* What the operator decides on a filed approval.
Decide(t, yes) ==
    /\ At(t, "filed")
    /\ IF yes THEN Advance(t, "exec") ELSE Finish(t)
    /\ approved' = IF yes THEN Append(approved, NormalizeCommand(task[t].cmd)) ELSE approved
    /\ UNCHANGED <<policyVars, proposals, slips, ran, suggested>> /\ TimelineIdle

\* AppendTimeline, its read; the card is of the policy's run, of the executed
\* approval, or of the suggestion.
Record(t) ==
    /\ task[t].pc \in {"card", "report", "suggest"}
    /\ BeginPrepend(t, Entry(<<task[t].pc, task[t].no>>, "", "none"))
    /\ Advance(t, IF At(t, "card") THEN "cardWrite" ELSE IF At(t, "report") THEN "reportWrite" ELSE "suggestWrite")
    /\ UNCHANGED slips /\ CommandsIdle

RecordWrite(t) ==
    /\ task[t].pc \in {"cardWrite", "reportWrite", "suggestWrite"}
    /\ WriteBack(t)
    /\ CASE At(t, "cardWrite") -> Advance(t, "exec")
         [] At(t, "reportWrite") -> Advance(t, "count")
         [] At(t, "suggestWrite") -> Finish(t)
    /\ UNCHANGED slips /\ CommandsIdle

\* executeApproved, of the text as it was proposed; when sudo refuses, the outcome of the manual run.  The
\* output goes to the caller, or with SetOutput onto the approval.
Execute(t) ==
    /\ At(t, "exec")
    /\ ran' = ran \cup {[script |-> Script(task[t].cmd), by |-> task[t].by, no |-> task[t].no,
                         revoked |-> task[t].revoked]}
    /\ IF task[t].by = "policy" THEN Finish(t) ELSE Advance(t, "report")
    /\ UNCHANGED <<policyVars, proposals, slips, approved, suggested>> /\ TimelineIdle

\* RecordApproval, and whether its count makes a suggestion due.
RecordApproval(t) == \E readOk, writeOk \in BOOLEAN :
    LET key == CountKey(task[t].cmd)
        new == Counted(task[t].cmd, readOk)
    IN  /\ At(t, "count") /\ Slip(readOk /\ writeOk)
        /\ \/ ~writeOk /\ UNCHANGED counts
           \/ writeOk /\ ~Overfull(new) /\ counts' = new
           \/ /\ writeOk /\ Overfull(new)
              /\ \E v \in Victims(new, key) : counts' = [k \in DOMAIN new \ {v} |-> new[k]]
        /\ IF writeOk /\ new[key] >= Promotion
           THEN /\ Advance(t, "suggest")
                /\ suggested' = suggested \cup {<<NormalizeCommand(task[t].cmd), new[key]>>}
           ELSE Finish(t) /\ UNCHANGED suggested
        /\ UNCHANGED <<policies, created, deleted, granted, proposals, ran, approved>> /\ TimelineIdle

CommandCrash ==
    /\ Slip(FALSE) /\ \E t \in Tasks : task[t] # Free
    /\ task' = [t \in Tasks |-> IF At(t, "filed") THEN task[t] ELSE Free]
    /\ CommandsIdle /\ Crashed

CommandNext ==
    \/ \E p \in Patterns : AddPolicy(p)
    \/ \E id \in 1 .. MaxPolicies : DeletePolicy(id)
    \/ \E t \in Tasks : \/ \E c \in Cmds : Propose(t, c)
                        \/ \E yes \in BOOLEAN : Decide(t, yes)
                        \/ Record(t) \/ RecordWrite(t) \/ Execute(t) \/ RecordApproval(t)
    \/ CommandCrash

-----------------------------------------------------------------------------
(* Properties.                                                              *)

Occurrences(s, x) == Cardinality({i \in DOMAIN s : s[i] = x})

\* The policy store stays within its bounds (policy.go:39, 43).
CommandTypeOK ==
    /\ Len(policies) <= MaxPolicies /\ Cardinality(DOMAIN counts) <= MaxCounts
    /\ task \in [Tasks -> [pc : {"idle", "filed", "card", "cardWrite", "exec", "report", "reportWrite",
                                 "count", "suggest", "suggestWrite"},
                           cmd : {Trim(c) : c \in Cmds} \cup {<<>>}, by : {"", "policy", "operator"},
                           no : 0 .. MaxProposals, revoked : SUBSET (1 .. MaxPolicies)]]

\* Every command is taken by one of the two tools, or by none when it is
\* empty, a placeholder or an echo; never by both (run_approved_command.go:161,
\* run_diagnostic_command.go:73).
OneToolPerCommand ==
    \A c \in Cmds :
        /\ ~(RunDiagnosticAccepts(c) /\ RunApprovedAccepts(c))
        /\ ~RunDiagnosticAccepts(c) /\ ~RunApprovedAccepts(c) =>
              Trim(c) = <<>> \/ IsNoOpCommand(c) \/ IsNoOpShellBuiltin(c) \/ IsEchoStatusCommand(c)
        /\ \A t \in Tasks : task[t].cmd = Trim(c) /\ task[t] # Free => RunApprovedAccepts(c)


\* "record it on the timeline so the action is still visible"
\* (run_approved_command.go:172): a command runs under a policy only after
\* its card has been written.
PolicyRunVisible == \A x \in ran : x.by = "policy" => <<"card", x.no>> \in ToSet(placed)

\* A count never exceeds the operator's approvals of the command, in
\* whatever spelling, and falls short of those that have been counted only
\* when a read, a write or the process failed, or the cap evicted it
\* (policy.go:170); a suggestion is made with a count that was reached.
CountsHonest ==
    /\ \A c \in DOMAIN counts : counts[c] <= Occurrences(approved, c)
    /\ \A s \in suggested : Promotion <= s[2] /\ s[2] <= Occurrences(approved, s[1])
    /\ slips = 0 /\ Cardinality(ToSet(approved)) <= MaxCounts /\ (\A t \in Tasks : task[t] = Free)
          => \A c \in Normals : Occurrences(approved, c) > 0 => counts[c] = Occurrences(approved, c)

\* Eviction spares the commands approved most often: what leaves the counts
\* was approved no more often than anything that stays, except the command
\* just counted (policy.go:184).
EvictionSparesFrequent ==
    [][\A k \in DOMAIN counts \ DOMAIN counts' : slips' # slips \/
          \A j \in DOMAIN counts' \cap DOMAIN counts : counts'[j] = counts[j] => counts[k] <= counts[j]]_commandVars

\* A policy is in force until the operator deletes that very policy, or the
\* list could not be read when another one was added (policy.go:92, 206).
PoliciesStay ==
    [][\A i \in DOMAIN policies :
          \/ policies[i] \in ToSet(policies')
          \/ policies[i].id \in deleted' \/ slips' # slips]_commandVars
=============================================================================
