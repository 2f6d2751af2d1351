----------------------------- MODULE Validation -----------------------------
(***************************************************************************)
(* What a validation is: the commands that a task or a milestone is        *)
(* checked with, how each of them ends, what the record says of them       *)
(* together, and when a record may stand for the check it recorded.        *)
(***************************************************************************)
EXTENDS Naturals, Sequences

\* A command runs in a shell.  ends: the shell does in time; children: what it leaves behind,
\* in its process group or not, holding its output open or not.
Executions ==
    [starts : BOOLEAN, ends : BOOLEAN, code : {"zero", "not found", "other"},
     children : SUBSET [grouped : BOOLEAN, holds : BOOLEAN]]

\* The command is read until its output is closed, by its children too.
InTime(e) == e.ends /\ \A child \in e.children : ~child.holds

Verdict(e) ==
    IF ~e.starts THEN "infrastructure_error"
    ELSE IF ~InTime(e) THEN "timeout"
    ELSE IF e.code = "zero" THEN "passed"
    ELSE IF e.code = "not found" THEN "missing_tool"
    ELSE "failed"

\* The children that live on: only a command that is late is stopped, with its group.
Survivors(e) ==
    IF Verdict(e) = "timeout" THEN {child \in e.children : ~child.grouped} ELSE e.children

Verdicts == {"passed", "failed", "missing_tool", "timeout", "infrastructure_error"}

Least(S) == CHOOSE i \in S : \A j \in S : i <= j
Greatest(S) == CHOOSE i \in S : \A j \in S : j <= i

\* The commands would end with these verdicts; the first that does not pass is the last to run.
Misses(verdicts) == {i \in DOMAIN verdicts : verdicts[i] # "passed"}
Ran(verdicts) == {i \in DOMAIN verdicts : \A j \in Misses(verdicts) : i <= j}

Overall(verdicts) ==
    IF DOMAIN verdicts = {} THEN "not_configured"
    ELSE IF Misses(verdicts) = {} THEN "passed"
    ELSE verdicts[Least(Misses(verdicts))]

\* Of a task that has up to two commands, checked while its test services are up or not.
ValidationOutcomes ==
    {Overall(verdicts) : verdicts \in UNION {[1..n -> {Verdict(e) : e \in Executions}] : n \in 1..2}}
        \cup {"infrastructure_error"}

-----------------------------------------------------------------------------
(* The commands of a task and of a milestone *)

\* A task's own list, an empty one too, comes before that of its profile.
EffectiveValidation(task, profile) == IF task.lists THEN task.commands ELSE profile.commands

Source(task, profile) ==
    IF EffectiveValidation(task, profile) = {} THEN "none"
    ELSE IF task.lists THEN "task" ELSE "profile"

\* The commands of a milestone's tasks, each with the services its profile binds it to.
MilestoneContract(tasks, profileOf) ==
    UNION {EffectiveValidation(task, profileOf[task]) \X {profileOf[task].services} : task \in tasks}

\* The contract is run in an order; what the verification file says of its i-th command is
\* looked up by the command alone, and the last result of that command is found.
Results(contract, verdicts, i) == {j \in Ran(verdicts) : contract[j].command = contract[i].command}

Verified(contract, verdicts, i) ==
    IF Results(contract, verdicts, i) = {} THEN "not_run"
    ELSE verdicts[Greatest(Results(contract, verdicts, i))]

\* The state of the milestone, from the issues the integrator reports and the validation.
MilestoneState(issues, outcome) ==
    IF issues \/ outcome = "failed" THEN "blocked_product_failure"
    ELSE IF outcome = "missing_tool" THEN "blocked_prerequisite"
    ELSE IF outcome \in {"timeout", "infrastructure_error"} THEN "blocked_infrastructure"
    ELSE IF outcome = "not_configured" THEN "unverified_not_configured"
    ELSE "verified"

-----------------------------------------------------------------------------
(* Records *)

\* digests: the contents, the contract and the runtime that were checked; changed: one of
\* contents and runtime was not the same after the commands as before them.
RecordOf(commands, verdicts, digests, changed) ==
    [outcome |-> Overall(verdicts), commands |-> commands,
     verdicts |-> [i \in Ran(verdicts) |-> verdicts[i]],
     digests |-> digests, bound |-> ~changed]

\* Only the latest record of the task is looked at, and used for what it checked alone.
Reusable(record, commands, digests) ==
    /\ commands # <<>>
    /\ record.outcome = "passed"
    /\ record.commands = commands
    /\ DOMAIN record.verdicts = DOMAIN commands
    /\ \A i \in DOMAIN record.verdicts : record.verdicts[i] = "passed"
    /\ record.bound /\ record.digests = digests
=============================================================================
