# DevLab workflow: models, checks and proofs

DevLab drives coding agents through role sessions (architect, planner, developer,
reviewer, integrator) on the files of one target repository.  The orchestrator picks
the role from durable files, runs an agent, validates what it reports, applies the
transitions that follow and commits.  This directory holds TLA+ models of that
program, TLC configurations that check them on small instances, and proofs checked by
TLAPS for every instance.  The program is under `src/src/devlab/`; line numbers below
are those of `orchestrator.py` unless another file is named.

## Inventory

| Component | State it keeps | Operations | Hard behaviour | What makes it correct |
|---|---|---|---|---|
| Task, finding and milestone files, planning state (`task_tracker`, `findings`, `milestones`, `workflow_state`, `workspace`) | status, dependencies, milestone, mapped findings of a task; status of a finding; task ids and flags of a milestone; `planning.complete` | selectors of `WorkspaceSnapshot`, `assess_state`, `close`, `resolve_if_complete`, `upsert_from_tasks` | several files describe one fact; lists that only grow; a fixed order of questions | one review at a time, flags follow the tasks, complete means nothing is left |
| Run loop and sessions (`orchestrator`) | sessions run, roles a plan still forces | one session per role, retry of a validation, stops | durable state written by one run steers the next; agents may report anything their role allows | closing follows validated review; each command stays in its phase |
| Doctor recovery (`doctor_recovery`, `orchestrator`) | recovery file: stage, task, diagnosis; who stalled, who was stopped | doctor, one planner, one developer, block, reset | interrupted by pauses, limits and other commands | bounded, keeps its task, ends, can be read back |
| Task and milestone validation (`environment`, `profiles`, `orchestrator`) | latest record per task and the content it is of | validation after developer and reviewer, retry before selection, reuse | records go stale; commands that cannot run, or leave children behind | approval relies on the content it closes; passed means that all of it passed |
| Result submission (`handoffs`) | envelope, attempts, result files of a session | submit, reject, correct, publish | crash between files, submissions that outlive their session | one whole result per session, corrections do bookkeeping only |
| Agent process (`agents`) | process, streams, two deadlines | poll, read, time out, terminate, drain | exit races with timeout; descendants that live on; full pipes | exit wins, the earlier deadline is reported, always ends, signals only its own |
| Test services (`environment`) | lock, record of each service, private exports | ensure, reuse, cleanup | crash between two steps, two processes | no live resource without a record that leads to it |
| Prerequisites (`prerequisites`, `profiles`) | one blocker record, attestations | check, prepare, record, clear, attest, revoke | one slot for several roles; preparation that fails half-way | nothing is satisfied without evidence; a lost blocker loses no validation |
| Clarifications and research (`clarifications`, `research`, `workflow_state`) | requests, answers, resume pointer | ask, answer, supersede, resolve, research, resume | the pointer outlives its command and its plan | the interrupted route is resumed, once, and then released |
| Git boundary and discard (`version_control`, `recovery`) | worktree, commits, tags | commit, tag, propose and confirm a discard | end between any two steps, stale proposals | a commit holds whole sessions; the work can always go on |
| Generations, reconciliation (`generations`, `spec_reconciliation`) | active plan, archives, baseline | archive, clear, recreate, vouch | crash while copying; commits to specifications during a run | no plan is lost, no change swallowed |
| Executable configuration (`executable_config`) | trusted fingerprints | authorise, compare between sessions | change during a run | nothing unauthorised is used beyond the task that changed it |
| Reports, prompts, configuration, logs, init | none, or append-only | read and render | none | not modelled, apart from what commands act on |

## Modules

Five groups, each with its own state; they meet in the operators of the shared modules.

| Module | What it models |
|---|---|
| `Workspace` | the workflow files, the selectors the run loop uses, `assess_state`, and the trackers' transitions |
| `Diagnosis` | the doctor's report, what is made of it, and what of the recovery file can be read back |
| `Workflow` | operator commands and sessions: one action is one pass of `_run_loop`, from role selection to the commit |
| `TaskBoard` | abstract specification: what a reader of the status column may rely on |
| `WorkflowProperties`, `WorkflowLiveness` | properties, fairness assumptions, statements of the documents that the code does not keep |
| `Submission` | envelope, attempts, candidate, handoff and result files of a session |
| `Validation` | validation commands and their ends, records and their reuse, the contract and the state of a milestone |
| `Prerequisites` | declarations, checks, attestations and preparations, and what comes of one prerequisite |
| `Session` | a session in its steps between two commits, over worktree and last commit, with interrupts, discards and other processes |
| `CommittedWork` | abstract specification: what the last commit promises whatever happens to a session |
| `SessionProperties` | properties of `Session`, its fairness and its liveness |
| `AgentProcess` | one invocation of an agent: provider, helper, pipes, deadlines, termination |
| `Invocation` | abstract specification: which processes can be at work when an invocation has ended |
| `Candidate` | the contract of a session's candidate: what its fields may say together, and what the loop makes of it |
| `Auxiliary` | resolver and researcher: which attempts are accepted, what a refused one leaves |
| `Trust` | the executable configuration: its fingerprint, the records of trust, what authorises a command |
| `Generations` | plans, routes, the pointer, and when a stored route still fits what would be selected |
| `Resume` | commands, archives in their steps, sessions that ask, answers, resolver, researcher, release of the pointer, crashes and discards |
| `ResumeProperties` | properties of `Resume`, its fairness and its liveness |
| `TestServices` | a managed test service: its record in worktree and commit, the lock, the runs and cleanup commands that act on it, and its properties |
| `ServiceOwnership` | abstract specification: what the record promises about the external resource |
| `WorkflowProofs` | the inductive invariant of `Workflow` and the theorems about sessions, reviews and recoveries |
| `MilestoneProofs` | theorems about milestones, findings and the end of the workflow, on top of `WorkflowProofs` |
| `AgentProcessProofs`, `TestServicesProofs`, `SessionProofs`, `ResumeProofs` | the inductive invariant of each of these state machines and the theorems about it |
| `ContractProofs` | theorems about the contracts: `Validation`, `Prerequisites`, `Candidate`, `Auxiliary`, `Diagnosis`, `Trust` |
| `MCWorkflow`, `MCLiveness`, `MCSession`, `MCAgentProcess`, `MCResume`, `MCTestServices` | instances for TLC |

How they meet: `Workflow` takes a session as one step, which is right as far as
`Session` shows that a commit holds whole sessions (`KeepsAtomicity`).  `Workflow`'s
`"unverified"` validation and `"paused"` session stand for what `Session`
(prerequisites, validation) and `Resume` (requests) take apart.  `Session` draws
the verdicts of validations and prerequisites from `Validation` and `Prerequisites`,
`Resume` what its agents report from `Candidate` and `Auxiliary`, `Workflow` what its
doctor proposes from `Diagnosis`: the contracts decide which inputs the loop can meet.
`Trust` is about commands before they start and is not composed: a run of `Session` starts
authorised, and its `configured` says that `Recheck` would no longer answer `"proceed"`.

### Workflow: whole sessions

`Workspace` represents a file as the values of functions at its number: `status[t]`,
`dependsOn[t]`, `findingStatus[f]`, `knownTasks[m]`; a file that does not exist is
`"absent"` (or `{}` for a milestone).  Numbers are ordered because the selectors list
files by number and take the first match.  `Workflow` adds the latest validation
record of a task (`evidence`) and whether it still matches the content (`current`), the
recovery file (`recovery`), the two facts read back from the event log and the session
summaries (`stalled`, `stopped`) and the command that is running (`run`,
`plannedRoles`).

| Action | Code |
|---|---|
| `Command`, `RunEnds` | `_run_continue_command`, `run_loop` 2932; session limit and interrupted runs 3249, 4638 |
| `Retry` | 3377, `_retry_unverified_task_validation` 1817 |
| `ResetRecovery`, `Doctor` | 3290-3376, `_invoke_doctor` 2397, `doctor_recovery.py` |
| `Reaches(role)` | stops and role selection 3406-3526 |
| `Architect`, `Planner`, `Integrator` | handoff validation and processing 281-536, 785-949, 3947-4095 |
| `Developer` | 3553-3602, 828-840, validation 4131-4242, progress 1682-1754, routing 4344-4493 |
| `Reviewer` | 843-870, deferred approval 4096-4130, validation 4131-4255 |

What an agent writes is chosen by `\E` within what the handoff validation of its role
accepts: a planner creates tasks, rewrites one task, maps findings; a developer checks
its boxes or not, changes content or not; a reviewer ticks approval, lists issues.

Abstractions:

* A session is one action, see above.  A failed retry of a validation writes its files
  before the next session commits them; the model keeps that write, where an
  operator might discard it and see it made again.
* Content is two booleans: whether a session changed what a validation digest covers,
  and whether a record is of the present content.
* The integrator raises one finding per session, where the code allows several.
* Task text is one boolean, all acceptance boxes checked.  New tasks have unchecked
  boxes.  `"Approved"` is an input of every review, so a stale box is among the cases.

### Session: the steps between two commits

The workspace is two records, the worktree `tree` and the last commit `head`: the stage
of one task of one milestone, its boxes, the validation record, the blocker, the
session's artifacts, edits of sessions whose result was not processed, and the
executable configuration.  `run` is what the process remembers and is lost when it
ends.  A submission is in progress for several steps and may outlive its session.

| Action | Code |
|---|---|
| `StartRun`, `BeginLoop`, `Interrupt` | cli_commands.py:394-446, clean check and configuration check 3237-3289, `run_loop` 2932 |
| `NoRetry`, `RetryBlocked`, `RetryBegins`, `RetryRuns` | 3377, 1817-1910; the blocker is cleared and committed at 1867, before the commands run |
| `SelectRole`, `RefuseSession`, `WorkflowDone` | 3413-3667 |
| `PrerequisiteBlocked`, `PrerequisiteResolved` | 1169-1219, 1274-1333, `resolve_prerequisites` |
| `StartSession`, `AgentWorks`, `AgentSucceeds`, `AgentFails` | envelope and invocation 3750-3905, 2770-2828 |
| `BeginSubmission`, `RefuseSubmission`, `PublishSubmission`, `SubmissionDies` | `submit_session_handoff` 343-477, `publish_session_result`, handoffs.py:309 |
| `SubmitHandoff`, `CorrectionWorks`, `CorrectionEnds`, `CorrectionFails` | 3907-3946, `_attempt_handoff_correction` 1512-1619 |
| `AcceptResult`, `RejectResult` | `_load_accepted_result` 2831, 3947-4003 |
| `ProcessDeveloper`, `ProcessReviewer`, `ProcessIntegrator`, `MilestoneUnvalidated` | 827-950, 4009-4095 |
| `ValidateTask`, `TaskUnvalidated`, `Commit`, `CommitFails`, `CreateTag` | 4096-4255, 4495-4511 |
| `ProposeDiscard`, `ConfirmDiscard`, `DeclineDiscard`, `DiscardInterrupted`, `OwnCommit` | recovery.py:90-201, the operator |

Abstractions: one task, so the workflow is the stage it is in; a task has one or two
validation commands, and an operation of a session one prerequisite; candidates are
refused, failed or completed (`Candidate` has the rules); unread files of a
submission are reset when a run ends, because the next session deletes them.  A discard
is a comparison with HEAD and a reset and clean in two steps.  The event log that
is committed with everything else is left out.

### AgentProcess: one invocation

Time is counted in ticks; a clock that no decision depends on stands still, so the
states stay finite.  A monitor that can go on does so within `Lag` ticks: the bounds of
the properties are the code's constants plus what the monitor may be late.  The provider
either does as it likes (`"free"`), may close its streams, leave a helper in or outside
its group, or is a filter that answers each part of its prompt.

| Action | Code |
|---|---|
| `Launch` | agents.py:117-181, Popen 285 |
| `Poll`, `Decide`, `Wake`, `LogFails` | the loop of `_run_process`, agents.py:313-376, deadlines 385-420 |
| `Interrupt`, `Handle` | the exception handler, agents.py:377-382 |
| `Kill`, `DrainOutput`, `DrainFails`, `Finish` | agents.py:430-534 |
| `ReadPrompt`, `WriteOutput`, `Exits`, `CloseStreams`, `SpawnHelper`, `HelperLeavesGroup`, `HelperExits`, `Tick` | processes, clock and scheduler |

Two output streams are one pipe; SIGTERM needs no effect of its own, since a provider may
end at any time, and SIGKILL is immediate.  On a normal exit nothing is signalled, and
descendants live on: `Invocation` says so.  A second interrupt during the termination
leaves the provider at work: `Invocation` says that too.

### Resume: interrupted routes and replaced plans

The files are again a worktree over the last commit: the plan (tasks, milestone,
planning state, baseline, pointer), the archives, the requests, the specifications.
The pointer is part of `workflow.toml`, so an archive takes it along and the active
files lose it, while the running process keeps what it read.  A plan is active, for
`--adopt-existing` and `--replace-plan`, once it has a design, a project plan, a task or
an archived handoff (`HasActivePlan`, generations.py:82): a session that only asked makes
it so, because its handoff is archived too (`HandoffArchived`).

| Action | Code |
|---|---|
| `Command`, `Continue`, `ResumeCommand`, `MarkPlanned` | cli_commands.py, workflow_state_report.py (advice), doctor_workflow_state.py (health checks), 2932-3236 |
| `CopyPlan`, `ClearPlan`, `ClearState`, `CommitArchive` | generations.py:99-184 |
| `Session` (`SessionEnds`, `SessionAsks`, `SessionFails`), `Stop` | 3404-3549, 620-784, 4277-4342 |
| `Researcher`, `Resolver` | 2087-2394, 4536-4650 |
| `Answer`, `Supersede` | clarification_ops.py |
| `EditSpecs`, `CommitAll`, `Discard`, `RunEnds` | operators, the session limit, ends of processes |

Abstractions: one milestone holds all tasks; findings and doctor recoveries are
left to `Workflow`; a session is one step, but one that fails leaves what it wrote; a
request may be asked again once it is answered and unpointed; the mode
`--clarification-mode agent` is a choice when the request is made; the session limit
may end a run at any time.  Agents do not write the pointer or the requests themselves.

### TestServices

A file of the worktree and its last commit are two variables, `record` and `head`; a
process is a program counter (`pc`), the record it holds in memory (`mine`) and the
definition it was authorised for (`definition`).  Each command of the target, each write
and each commit is a step, so a kill may fall between any two.

| Action | Code |
|---|---|
| `StartRun`, `LockRun`, `PrepareAgain`, `EndRun` | clean check 3285, `_TestServicePreparation.prepare` 2876, `run_loop` 2932 |
| `Register`, `Adopt`, `Refuse`, `HostCheckFails`, `Reuse`, `Prepare`, `EnsureSucceeds`, `EnsureFails` | `ensure`, environment.py:314-377 |
| `Ask`, `Lock`, `StartCleanup`, `NothingToClean`, `DestroySucceeds`, `DestroyFails` | `_run_test_service_command`, cli_commands.py:917; `cleanup`, environment.py:379-401 |
| `Write`, `Commit`, `CommitFails` | `_write`, environment.py:227; `_changed`, workspace.py:225; `commit_test_service_state` |
| `Crash`, `OrphanEnds` | the command's own session, environment.py:284; `flock` ends with its process |
| `EditConfig`, `Discard`, `CommitAll` | operators, discard of a session, a session's commit |

An interrupt while a record is being committed, which writes `failed` or
`cleanup_failed` over it, ends as an interrupt during the command before it does.

### Contracts: Validation, Prerequisites, Candidate, Auxiliary, Diagnosis

These modules have no state.  Each gives the set of inputs that a file, a command or an
agent can present, by the distinctions the code makes (a table that is malformed in one
of its ways, a child that holds the pipe), and operators for what the code makes of
an input, so that the state machines quantify over outcomes that can happen and the proofs
are about all of them.

| Operators | Code |
|---|---|
| `Executions`, `Verdict`, `Survivors` | `_run_environment_command`, environment.py:631-722 |
| `Overall`, `RecordOf`, `Reusable` | `run_validation_commands`, environment.py:724; `reusable_task_validation` 561 |
| `EffectiveValidation`, `MilestoneContract`, `Verified`, `MilestoneState` | profiles.py:69-121; 873-1040 |
| `WellDeclared`, `Evaluate`, `Status`, `Resolution`, `Attest`, `Revoke` | profiles.py:217; prerequisites.py:214-302, 454-511, 564-638; 1169-1272 |
| `ReadClarification`, `ReadResearch`, `WellFormed`, `Result` | handoffs.py:574-630, 885-1132 |
| `Resolves`, `Remain`, `Completes` | 1930-2066, 2120-2261, 2339-2394; research.py:544 |
| `IsDiagnosis`, `Treated`, `StageAfter`, `Readable`, `Stored` | doctor_recovery.py; 2397-2484, 3325-3365 |

## Runs

| Run | Checks | Bound |
|---|---|---|
| `sessions` | `TypeOK`, `SingleReview`, `ClosureIsValidated`, `RecoveryIsBounded`, `KeepsTaskBoard`, `RecoveryEnds` | 2 tasks, one with validation, dependencies, all four commands |
| `milestones` | `IntegrationIsCurrent`, `PlannedFindingHasWork`, `CompleteLeavesNothing` | 3 tasks, 2 milestones, 1 finding |
| `completion` | `WorkflowFinishes` | 2 tasks, 1 milestone, 1 finding, `continue` with and without retry |
| `session` | `TypeOK`, `KeepsAtomicity`, `AppliesWholeResult`, `CorrectionIsBookkeeping`, `ReviewIsGated`, `KeepsOperatorsCommits`, `AsksAgain`, `WorkIsFinished` | 2 session identities, 2 attempts, checks before session and validation, 1 submission of another process |
| `agent` | `TypeOK`, `NeverOverstays`, `OutputIsComplete`, `SignalsOwnGroup`, `KeepsPromise`, `VerdictIsFair`, `FilterFinishes` | limits of 2 and 3 ticks or none, `Lag` 1, three kinds of provider, 2 interrupts |
| `resume` | `TypeOK`, `PendingIsPointed`, `BaselineWasRead`, `KeepsPlans`, `ResumesItsRoute`, `AnswersAreUsed` | 2 tasks, 1 clarification, 1 research request, 1 change of the specifications, 1 archive, all commands |
| `services` | `TypeOK`, `InUseExists`, `OwnsResources`, `CleanupSucceeds` | 2 processes, 2 instances, 2 definitions, 1 command that outlives its process |
| `unvalidated`, `revise`, `ineligible`, `moved`, `superseded` | statements of the documents, violated | the smallest instance that shows it |

What the properties say:

* `SingleReview`: a reviewer's result is applied to the first task in review (843), not
  to the task of its session.  This is right only because there is never a second one.
* `ClosureIsValidated`: a reviewer that relied on a validation record closes only if that
  record, or a newer one, is of the content that is closed.
* `RecoveryIsBounded`: a recovery keeps its task and uses the doctor, a planner and a
  developer once each.
* `KeepsTaskBoard`: sessions, retries and recoveries together implement `TaskBoard`.
* `IntegrationIsCurrent`: an integrated milestone has only closed tasks and lists them.
  It holds when planners do not move tasks between milestones (see `moved`).
* `PlannedFindingHasWork`: a planned finding has an open task that will resolve it.  It
  holds when planners do not remove findings from a task's list.
* `CompleteLeavesNothing`: `assess_state` reports completion only when it is true.
* `KeepsAtomicity`: `head` and the tag implement `CommittedWork`.  However a run is
  interrupted, discarded and continued, no commit takes in edits of a session whose
  result was not processed, the task moves by one session per commit, work in
  review is validated or marked to be, and only finished work is tagged.
* `AppliesWholeResult`: the result that is applied was submitted under the identity of
  the running session with its handoff in place, though processes of earlier sessions
  may still be writing into the same directory.
* `CorrectionIsBookkeeping`: what a correction does to the product reaches no commit, and
  it checks boxes only if the refusal was about them.
* `ReviewIsGated`: no review begins on content whose validation failed, could not run or
  is due.  The two records that are allowed all the same, `"skipped"` and `"retried"`,
  are gaps of the code, below.
* `KeepsOperatorsCommits`: a commit made before a discard is confirmed survives it.
* `AsksAgain`: configuration that a task's sessions changed is not used beyond that task.
* `NeverOverstays`, `VerdictIsFair`, `OutputIsComplete`, `SignalsOwnGroup`,
  `KeepsPromise`: an invocation ends a bounded time after a limit; a timeout is a
  verdict on the provider and not on the monitor's delay; what was written before an exit
  is logged; no signal goes to a group whose number may belong to others; and what is
  left at work is what `Invocation` allows.
* `PendingIsPointed`: an open request that stops the workflow is the one the pointer
  names.  Without it no answer would lead back, and open research would refuse
  every command.
* `ResumesItsRoute`: the session that replaces or clears the pointer under its command is
  the interrupted route itself.
* `BaselineWasRead`: the recorded baseline is never newer than what the planner, or an
  operator who vouched for it, can have read.
* `KeepsPlans`: every earlier plan is whole in a committed archive.
* `InUseExists`: a process that uses the service holds the lock, and the resource exists.
* `OwnsResources`: the commit and the resources implement `ServiceOwnership`: what exists
  is what the committed record owns, and a record passes to another instance only
  when nothing of the old one is left.  Instances of which an ensure command outlived its
  process are left out: DevLab cannot know of what such a command creates after a
  cleanup.  A late destroy command is included.
* `CleanupSucceeds`: no state of the record is a dead end for cleanup.
* `RecoveryEnds`, `WorkflowFinishes`, `WorkIsFinished`, `FilterFinishes`,
  `AnswersAreUsed`: under Fairness.

Why the bounds are enough.  Workflow: two tasks are the least for a dependency, for a
second task that waits while one is in review or in recovery, and for a later task
that blocks integration; the third task of `milestones` lets a corrective task arrive
after each of two milestones had work; `PlannerMilestones`, `PlannerDeps` and
`PlannerRewrites` bound what a planner writes, one list of findings in all tasks of a
session and one old task rewritten.  Session: a second identity is what a late submission
needs to be told from the present one, and identities are used again once nothing
refers to them, so the number of sessions is not bounded; two attempts separate the last
from one before it.  Agent: every limit is longer than one wait and shorter than
the other limit plus the delays, so each deadline can win, tie or be overtaken by the exit;
the second interrupt meets the handler of the first.  Resume: the two kinds of request
are treated differently and can compete for the one pointer; two states of the
specifications and one archive are the least with an old and a new plan.  Services: two
processes are the least that compete for the lock; two instances let one be registered
while a command for the other is still running; two definitions tell an adopted record
from a changed one.

Deadlock is checked in the workflow and service runs: an operator can always start a
command.  `agent`, `session` and `resume` say `CHECK_DEADLOCK FALSE`: an invocation
ends, the work is done and tagged, and archives and specifications run out of bound.

### Fairness

Workflow.  Weak fairness of `RunEnds` is the code's: a run has a session limit (3249).
All other conditions are assumptions about the surroundings, one strong fairness
condition for each kind of event: the operator continues (and, for completion, retries
a stopped task), the doctor and the agents report, validations can run.  Strong fairness
is needed because a run that ends, or a session of another role, disables an event and a
later run enables it again.  `RecoverySpec` assumes only that answers come, not that
they are good.  `CompletionSpec` assumes that each role sometimes does well, and nothing
about the rest: failures, rejections, findings and stops go on between.  A
planner of `CompletionSpec` maps open findings and leaves tasks; if planners never
do, the program rightly does not finish.

`FairSpec` of `SessionProperties`: from some time on every step is `Helpful` (nothing
fails or is interrupted, agents deliver, the operator continues or discards), and helpful
steps are taken.  Before that everything may happen any number of times.
`WorkIsFinished` then says that no earlier interruption, refusal, blocker or left-over
file needs more than `continue` and its discard.

`FairSpec` of `AgentProcess`: the monitor, the clock and a filter go on.  No other
provider is assumed to do anything.  `FilterFinishes` says that prompt and output cannot
wait for each other, without any limit configured.

`FairSpec` of `ResumeProperties`: from some time on operators use `devlab continue`,
agents ask for nothing more, and sessions and copies succeed; work goes on, and a run that
has worked may end.  `AnswersAreUsed` says that a pointer is then resumed and
released, unless plan or specifications changed under it, its route had been forced by
`--revise`, `--replace-plan` or `--adopt-existing` and the plain command that `devlab
continue` and `devlab resume` run selects another one (`StillSelected`), or its
clarification was superseded.

`FairSpec` of `TestServices` assumes that faults (kills, refused commits, failed destroy
commands, operators who commit or discard under a process) stop some day, that processes
go on and runs end, that a dirty worktree is settled, and that the operator retries the
cleanup.  Failing ensure commands and changed definitions never need to stop.

## Disagreements with the documents

* `unvalidated`: a developer that reports `failed` with all boxes checked sends its task
  to review without validation (828), and it can be closed; design.md:176 calls configured
  validation the durable gate.
* `revise`: `plan --revise` runs a developer when a recovery waits for one (3424), though
  plan stops before implementation (cli.py:228).
* `ineligible`: after the doctor's planner added a dependency, the developer of the
  recovery works on a task that is not eligible (3556), unlike operator-guide.md:732.
* `moved`: a task that leaves its milestone and returns after the integration leaves the
  milestone integrated with open work (milestones.py:139), unlike what the tests at
  test_milestones.py:142 state of tasks added.
* `superseded`: a superseded clarification stops every command (doctor_workflow_state.py:305),
  though resume-interrupted-workflow.md:141 recommends superseding to go on.

### What the models leave room for

The properties are stated so that they hold of the code as it is.  These cases of the
code are why some of them are not stronger:

* The retry of a blocked validation clears and commits the blocker before its commands
  run (1867).  A crash or a discard then leaves a task in review without record or
  blocker, and it is reviewed unvalidated (record `"retried"`).
* A crash between commit and tag leaves an integrated milestone untagged.
* A commit that is made after the discard's comparison with HEAD is lost.
* A deferred review whose validation is blocked, fails or is unverified commits the
  reviewer's edits without its archive.
* Once an agent used up the attempts, its correction cannot succeed.
* A submission that outlives its session may overwrite `handoff.md` of the next one of
  the same role, never its result.
* A research request about another route passes the submission and raises an error in the
  processing (620-640, 952-976), after which no correction is offered.
* `plan --revise` with an answered research pointer of `implement` runs the implementing
  role (3416-3423).
* A pointer whose route its plain command does not select is refused, by `devlab resume`
  too (2590-2697): a role that wrote its plan and then asked makes `assess_state` select
  another one; a role that `plan --revise`, `--replace-plan` or `--adopt-existing` forced
  need not be the one that `plan` would run.  docs/how-to/resume-interrupted-workflow.md
  (134-138) resumes every answered clarification with the plain `devlab resume`.  A second
  `plan --revise` resumes a planning route of `plan`; the pointer of `implement` stays until
  its route is selected again or its plan is archived, and superseding the clarification
  does not release it.  `AnswersAreUsed` excepts all of these.
* `devlab trust executable-config --revoke` says "Revoke stored trust for this workspace and
  config source" (`cli.py` 444) and takes back the record of the current fingerprint: a
  configuration that was trusted earlier is still trusted (`RevocationIsPartial`).
* A validation command whose child keeps the pipe open is a timeout though the shell ended
  with zero (`Verdict`).  A preparation in the same situation ends the run with an
  uncaught exception (`"held open"`).
* The verification file looks results up by command alone (1023), the contract by
  command and services.  A command that did not run can show the result of its
  namesake; a milestone that is verified is right all the same (`VerifiedMilestone`).
* A resolver that omits a listed file keeps its edits to DevLab's own files
  (`StateMayRemain`).
* A doctor's failure is stored without the bound that loading enforces
  (`LongFailureIsUnreadable`).

## Proofs

Every safety invariant, every action property without fairness and every refinement that a
passing run checks is also a theorem about its specification, for all values of the constants
that the assumptions of its module allow: any number of tasks, milestones, findings, requests,
processes, instances, sessions and submissions, any limits and delays.  A run shows such a
property on a small instance; its theorem has no bound.  Each state machine has one proof
module, laid out alike: the invariant as a conjunction of named parts, lemmas about the
operators of the model, one lemma per action, `Invariance` (`Inductive` in `WorkflowProofs`),
and then the theorems, which use the invariant and, for an action property or a refinement,
the effect of single actions.

| Property of a run | Theorem | Hypothesis beyond the assumptions of the modules |
|---|---|---|
| `Workflow`: `TypeOK`, `SingleReview`, `ClosureIsValidated`, `RecoveryIsBounded`, `KeepsTaskBoard` | `WorkflowProofs`: `TypeCorrect`, `OneReviewAtATime`, `ClosingIsValidated`, `RecoveryStaysBounded`, `ImplementsTaskBoard` | none |
| `IntegrationIsCurrent` | `MilestoneProofs`: `IntegrationStaysCurrent` | `KeepsMilestones` |
| `PlannedFindingHasWork` | `MilestoneProofs`: `PlannedFindingsHaveWork` | `KeepsFindings` |
| `CompleteLeavesNothing` | `MilestoneProofs`: `CompletionLeavesNothing` | both |
| `AgentProcess`: `TypeOK`, `SignalsOwnGroup`, `NeverOverstays`, `VerdictIsFair`, `KeepsPromise` | `AgentProcessProofs`: `TypeCorrect`, `SignalIsForOwnGroup`, `LimitsAreKept`, `VerdictsAreFair`, `InvocationIsImplemented` | none |
| `OutputIsComplete` | `AgentProcessProofs`: `LeftoverIsLogged` | `Lag < Drain` |
| `TestServices`: `TypeOK`, `InUseExists`, `OwnsResources` | `TestServicesProofs`: `TypeCorrect`, `GivenServiceExists`, `OwnershipIsImplemented` | none |
| `Session`: `TypeOK`, `CorrectionIsBookkeeping`, `AppliesWholeResult`, `ReviewIsGated`, `AsksAgain`, `KeepsOperatorsCommits`, `KeepsAtomicity` | `SessionProofs`: `TypeCorrect`, `CorrectionsAreBookkeeping`, `ResultsAreWhole`, `ReviewsAreGated`, `AuthorisationIsAsked`, `OperatorsCommitsAreKept`, `AtomicityIsKept` | none |
| `Resume`: `TypeOK`, `PendingIsPointed`, `BaselineWasRead`, `KeepsPlans`, `ResumesItsRoute` | `ResumeProofs`: `TypeCorrect`, `RequestsArePointed`, `BaselinesWereRead`, `PlansAreKept`, `RoutesAreResumed` | none |

The assumptions are what the values stand for: numbers are natural numbers, `None` is none of
the values it is told from, a profile has a finite sequence of operations with prerequisites
(`Operations`), limits and delays are positive, and a workspace has some state of its
specifications (`MaxSpecs`).

### WorkflowProofs

`IInv` is `TypeOK /\ RecoveryOfActiveTask /\ SingleReview`.  `SingleReview` alone is not
inductive: a developer of a recovery is chosen without looking at the tasks in review, so
one must know that a recovery's task is an existing task that is not closed and that
no other task is in review while the recovery is pending; the first is
`RecoveryOfActiveTask`, the second a conjunct of `SingleReview`.  `FirstIsMember`
(well-foundedness of the natural numbers) gives that the selectors return a member of
what they select from; `DeveloperHasTask`, `ReviewerHasTask` and `RetryHasTask` turn the
role selection into facts about the task of the session.  Each action then has a
lemma of its own, and the refinement reuses their `...Effect` lemmas.
`RecoveryStaysBounded` also needs `RecordsNeedCommands`: only a task with configured
commands has a validation record.  Otherwise the developer of a recovery whose task has nothing
to validate could end it with an old failed record still in place.

### MilestoneProofs

The invariant is `MilestonesAgree`, `KnownAreListed /\ IntegrationIsCurrent`: a milestone
file lists exactly the tasks that name the milestone.  `IntegrationIsCurrent` alone is not
inductive, because a listed task that does not name the milestone may come back to it open
without making the list grow (milestones.py:139).  The argument is about what sessions do to
the board (`BoardMoves`: nothing disappears, nothing closed opens, new tasks are open), then
about `Sync`.  `CompletionLeavesNothing` follows from both theorems and the order of
the questions in `assess_state`.  The two hypotheses say of the planners what the code leaves to
their prompts:

* `KeepsMilestones`, no planner moves a task to another milestone.  The run `moved` violates
  `IntegrationIsCurrent` without it.
* `KeepsFindings`, no planner removes a finding from a task's list.  Without it
  `PlannedFindingHasWork` is false too: TLC finds a planner that takes the finding from the last
  task it was mapped to.

The run `milestones` satisfies both.

### AgentProcessProofs

`IInv` says for each phase of the monitor what it may find: `Control` (what is collected, alive
and signalled), `Timing` (how far each clock may run past its limit in each phase, with one
`Lag` per delay of the monitor and one `Grace + Lag` for a second interrupt) and `Leftover`.
`NeverOverstays` and `VerdictIsFair` are about the end of an invocation and need the bounds of
all phases before it: `LimitsAreSeen` follows silence and duration through polling,
deciding and waiting, `QuietIsHeard` relates the silence the monitor knows of to the real one,
`GoneIsRecent` bounds the time since an unseen exit, `EndIsBounded` the termination.
`Lag < Drain` is necessary for `LeftoverIsLogged`: a monitor that is late by the whole time the
drain lasts gives up before it has read once.  The code's drain lasts half a second (agents.py:25).

### TestServicesProofs

`LockIsHeld` is the exclusion; `HoldsRecord` and `CommitsOwn` say that the holder's record in
memory is the one in the file, and that a command of the target runs only under a committed
record; `OwnedIsLive` says that nothing is live but what `head` owns, and nothing at all while
another instance is about to be written; `CleanupIsFinal`, that an instance with a destroy
command still running is in no record that would be prepared again.  The last is what makes a
destroy command that ends late harmless, and `InUseExists` cannot do without it.  The refinement
then shows for each step that it passes the record on when nothing is live, changes what is
live of its instance, or stutters.

### SessionProofs

`IInv` says which edits the worktree may hold over the last commit in each phase
(`NothingPending`, `SessionIsOwn`, `Committable`), what is known of the task when a role has
been chosen (`Chosen`, `Validating`), what the session's directory may hold while other
processes write into it (`DirectoryIsOwn`), that a discard on offer is one to the present commit
(`DiscardIsCurrent`) and that changed configuration is not taken to an integration (`Authorised`).
`HeadIsWhole`, the core of `KeepsAtomicity`, is about the last commit only; all others are there
because the next commit is made from the worktree.  `Gated` is stronger than `CommittedWork`
asks: a task in review has a record or a blocker for its validation, whoever wrote it, or the
retry before role selection would not find it.  The refinement has one lemma per kind of step:
those that commit a session's progress, those that record a blocker, and those that do not commit.

### ResumeProofs

Whatever must hold of the last commit has to hold of the worktree at every step, because an
operator may commit or discard what a dead run left: the invariant states `Sound` of both.
`PlanIsCopied` carries the whole copy through the steps of an archive.  `KeepsPlans`
needs that archives are numbered up to some number (`NextArchive` is then a new one), and
`PendingIsPointed` that an archive begins only when no research is pending (`ResearchIsDone`) and that
requests of earlier plans keep the number of their plan.  `RunIsOwn` (what a run read is not newer
than the worktree) makes the baseline safe against commits to the specifications during the
run.  `RoutesAreResumed` rests on `PointerIsActive`: in the loop the pointer is the one
that the run remembers.

### ContractProofs

`ContractProofs` proves what the contracts give the loop, for every input of the sets they
declare and, where sequences of commands are involved, for any number of them:

| Theorem | Statement |
|---|---|
| `PassedMeansAllPassed` | a validation that passed had commands, ran all of them, and each passed |
| `VerifiedMilestone` | a verified milestone's file shows each command of its contract as passed |
| `ReuseIsSound` | a record is reused only for what it recorded, and only if all of it passed |
| `OutputIsFinal` | a verdict other than timeout leaves nobody at the output, a timeout nobody of the group |
| `SatisfiedHasEvidence`, `AttestationCounts` | no prerequisite is satisfied without evidence; an attestation counts until it is revoked |
| `AsksOrReports` | an accepted candidate asks for one thing at most, and only when its outcome says so |
| `AnswersEditListedFiles`, `RefusedLeavesState`, `StateMayRemain` | what the edits of a resolver can come to |
| `AuthorizedByOperator`, `TrustIsExact` | no command runs what the operator did not authorise under this very fingerprint, and a record of trust comes from an agreement only |
| `ExecutableChangeIsSeen`, `RevocationIsPartial` | which changes need a new authorisation; what a revocation leaves |
| `DiagnosisIsReadable`, `LongFailureIsUnreadable` | what is stored of a doctor can be read back, and when it cannot |

They rest on `HasLeast` and `HasGreatest`: the first command that does not pass and the
last result of a command exist.

### Only model-checked

The liveness properties `RecoveryEnds`, `WorkflowFinishes`, `WorkIsFinished`, `FilterFinishes`,
`AnswersAreUsed` and `CleanupSucceeds`: they need fairness and `ENABLED`, which are out of the
prover's reach.  The disagreements with the documents are counterexamples that TLC found.

## Plan

1. The steps behind the liveness properties: that each of their measures never grows is a safety
   property and could be proved; that it shrinks is for TLC.
2. The connection of the modules: that `Session`'s commits are steps of a task board as
   `Workflow` has them, as a second refinement of `Session`.
3. The approval of an earlier round: a history of who ticked the box, in `Session`.

## Not modelled

Reports, status and history (they change no state; what commands act on of them is in
`Resume`), prompts and layered agent configuration (functions of files), the parsing of
front matter and Markdown (long, sequential and well tested), the event log and session
records (append-only; no decision reads them but `stalled`, which `Workflow` has), several
services of one workspace (they share the lock only), Git conflicts, submodules and nested
repositories (they end in a message), the smoke test and the cleanup of logs, and the demos.
