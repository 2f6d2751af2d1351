------------------------------ MODULE Workflow ------------------------------
(***************************************************************************)
(* The DevLab workflow: operator commands and the role sessions that the   *)
(* orchestrator runs on the durable files of module Workspace, one         *)
(* session at a time.  An action is one pass of the run loop, from the     *)
(* selection of the role to the commit that ends the pass: an agent edits  *)
(* the files its role owns and submits a result, and the orchestrator      *)
(* validates, applies the result's transitions, routes a doctor recovery,  *)
(* synchronises the milestone files and commits.  A pass that fails before *)
(* its commit is discarded by the operator and leaves these files as they  *)
(* were: it is a stuttering step, or RunEnds.                              *)
(***************************************************************************)
EXTENDS Workspace, Diagnosis

CONSTANTS
    Commands,           \* bound: the commands the operator issues
    Configured,         \* tasks whose validation commands are configured
    PlannerMilestones,  \* bound: the milestones a planner writes in a task
    PlannerDeps,        \* bound: the depends_on lists a planner writes in a task
    PlannerRewrites     \* bound: what a planner replaces in a task it did not create

ASSUME WorkflowAssumption ==
    /\ Commands \subseteq {"implement", "retry", "plan", "revise"}
    /\ Configured \subseteq Task
    /\ PlannerMilestones \subseteq Milestone \cup {NoMilestone}
    /\ PlannerDeps \subseteq SUBSET Task
    /\ PlannerRewrites \subseteq {"milestone", "dependencies", "findings"}

VARIABLES
    evidence,      \* outcome of the latest validation record of each task
    current,       \* tasks whose passing record still matches the workspace content
    recovery,      \* the doctor-recovery file: its stage and its task
    stalled,       \* the task whose developer session was the last to report no progress
    stopped,       \* tasks with developer_recovery_stopped after their last developer session
    run,           \* the command that is running, "idle" between commands
    plannedRoles   \* completed_planning_roles of a plan --revise

validationVars == <<evidence, current>>
recoveryVars == <<recovery, stalled, stopped>>
runVars == <<run, plannedRoles>>
vars == <<workspaceVars, validationVars, recoveryVars, runVars>>

Stages == {"none", "pending_doctor", "pending_planner", "pending_developer", "blocked"}
Outcomes == {"none", "passed", "failed", "unverified"}
\* "retry" is an implementing run started with --retry-stopped-task.
Runs == {"idle", "implement", "retry", "plan", "revise"}
Implementing == run \in {"implement", "retry"}

TypeOK ==
    /\ WorkspaceTypeOK
    /\ evidence \in [Task -> Outcomes]
    /\ current \in SUBSET Task
    /\ recovery \in [stage : Stages, task : Task \cup {NoTask}]
    /\ stalled \in Task \cup {NoTask}
    /\ stopped \in SUBSET Task
    /\ run \in Runs
    /\ plannedRoles \in 0..1

NoRecovery == [stage |-> "none", task |-> NoTask]
Recovery(stage, t) == [stage |-> stage, task |-> t]

Init ==
    /\ WorkspaceInit
    /\ evidence = [t \in Task |-> "none"]
    /\ current = {}
    /\ recovery = NoRecovery
    /\ stalled = NoTask
    /\ stopped = {}
    /\ run = "idle"
    /\ plannedRoles = 0

-----------------------------------------------------------------------------
(* Commands and routing *)

PlanningRoles == <<"architect", "planner">>

\* A task that awaits review with a record that is failed or could not be
\* obtained is validated again before any role is selected; planning commands
\* do not do this.
RetryDue ==
    /\ Implementing
    /\ ReviewTasks # {}
    /\ evidence[First(ReviewTasks)] \in {"failed", "unverified"}

SelectedRole ==
    IF recovery.stage = "pending_planner" THEN "planner"
    ELSE IF recovery.stage = "pending_developer" THEN "developer"
    ELSE IF run = "revise" THEN PlanningRoles[plannedRoles + 1]
    ELSE AssessState

\* The run loop reaches the session of role r.
Reaches(r) ==
    /\ run # "idle"
    /\ recovery.stage \notin {"blocked", "pending_doctor"}
    /\ ~RetryDue
    /\ SelectedRole = r
    /\ run = "plan" => r \in {"architect", "planner"}

\* Mutant of AfterSession: the planner of plan --revise does not end the run.
AfterSessionRunsOn(r, outcome) ==
    /\ UNCHANGED run
    /\ plannedRoles' = IF /\ run = "revise" /\ outcome = "completed"
                          /\ plannedRoles < 2 /\ r = PlanningRoles[plannedRoles + 1]
                       THEN plannedRoles + 1 ELSE plannedRoles

\* The run after a session of role r with this outcome: a completed planning
\* role advances plan --revise, which ends with the planner.
AfterSession(r, outcome) ==
    LET advances == /\ run = "revise" /\ outcome = "completed"
                    /\ r = PlanningRoles[plannedRoles + 1]
    IN  /\ run' = IF advances /\ plannedRoles = 1 THEN "idle" ELSE run
        /\ plannedRoles' = IF advances THEN (plannedRoles + 1) % 2 ELSE plannedRoles

\* A session that changed product files makes every passing record stale.
ContentAfter(changed) == IF changed THEN {} ELSE current

StartRun(command) ==
    /\ run = "idle"
    /\ run' = command
    /\ plannedRoles' = 0
    /\ UNCHANGED <<workspaceVars, validationVars, recoveryVars>>

\* Session limit, an agent or handoff failure, a clarification, a missing
\* prerequisite, no role to run, a planning boundary or a stopped task.
RunEnds ==
    /\ run # "idle"
    /\ run' = "idle"
    /\ plannedRoles' = 0
    /\ UNCHANGED <<workspaceVars, validationVars, recoveryVars>>

-----------------------------------------------------------------------------
(* Architect *)

\* The architect writes or extends the design, and when an integrated milestone
\* awaits its review the orchestrator records the review; open issues become a
\* finding without holding the review back.
ArchitectSession(outcome, writes, issues, changed) ==
    LET m == First(ArchitectureReviewQueue)
    IN  /\ outcome = "failed" => issues
        /\ UNCHANGED <<taskVars, planBoxes, planningComplete, evidence, recovery, stopped>>
        /\ designed' = (designed \/ writes)
        /\ IF outcome = "paused" \/ ArchitectureReviewQueue = {}
           THEN UNCHANGED findingStatus /\ Sync(integrated, reviewed)
           ELSE /\ IF issues
                   THEN CanRaise(findingStatus) /\ findingStatus' = Raised(findingStatus)
                   ELSE UNCHANGED findingStatus
                /\ Sync(integrated, ArchitectureReviewed(m))
        /\ current' = ContentAfter(changed)
        /\ stalled' = NoTask
        /\ AfterSession("architect", outcome)

-----------------------------------------------------------------------------
(* Planner *)

\* The planner creates the tasks new under the next free numbers.
CreatesTasks(new) ==
    /\ \A t \in new, u \in Task : u < t => u \in ExistingTasks \cup new
    /\ status' = [t \in Task |-> IF t \in new THEN "open" ELSE status[t]]

\* It fills in the metadata of the tasks it creates and rewrites that of the
\* revised ones; findings not rewritten are added to those already addressed.
WritesTasks(new, revised, findings) ==
    LET written(field) == new \cup (IF field \in PlannerRewrites THEN revised ELSE {})
        ms == written("milestone")
        ds == written("dependencies")
    IN  /\ \E m \in [ms -> PlannerMilestones] :
              taskMilestone' = [t \in Task |-> IF t \in ms THEN m[t] ELSE taskMilestone[t]]
        /\ \E d \in [ds -> PlannerDeps] :
              dependsOn' = [t \in Task |-> IF t \in ds THEN d[t] ELSE dependsOn[t]]
        /\ addresses' = [t \in Task |->
                            IF t \in written("findings") THEN findings
                            ELSE IF t \in revised THEN addresses[t] \cup findings
                            ELSE addresses[t]]
        /\ UNCHANGED criteria

\* Mutant of MapsFindings: a finding mapped to closed tasks only is left planned.
MapsWithoutResolving(mapped) ==
    /\ \A f \in mapped : \E t \in Task : status'[t] # "absent" /\ f \in addresses'[t]
    /\ findingStatus' = Planned(mapped, findingStatus)

\* The findings mapped in the handoff each name a task that lists them.
MapsFindings(mapped) ==
    /\ \A f \in mapped : \E t \in Task : status'[t] # "absent" /\ f \in addresses'[t]
    /\ findingStatus' =
          ResolveIfComplete(mapped, Planned(mapped, findingStatus), status', addresses')

\* A planner called because the backlog is exhausted creates work or declares
\* planning complete.
MakesProgress(complete) ==
    AllMilestonesComplete /\ ~planningComplete =>
        complete \/ \E t \in Task : status'[t] \notin {"absent", "closed"}

\* Mutants of PlannerRecovery: a planner that revised nothing goes back to the
\* doctor, or is tried again.
PlannerRecoveryAsksDoctor(outcome, revised) ==
    recovery' = IF recovery.stage # "pending_planner" \/ outcome = "paused" THEN recovery
                ELSE [recovery EXCEPT !.stage =
                        IF outcome = "completed" /\ recovery.task \in revised
                        THEN "pending_developer" ELSE "pending_doctor"]
PlannerRecoveryRetries(outcome, revised) ==
    recovery' = IF /\ recovery.stage = "pending_planner" /\ outcome = "completed"
                   /\ recovery.task \in revised
                THEN [recovery EXCEPT !.stage = "pending_developer"] ELSE recovery

\* After a doctor's revise_task the planner must have changed the task it was
\* given, and the developer is next; otherwise the recovery is blocked.
PlannerRecovery(outcome, revised) ==
    IF recovery.stage = "pending_planner" /\ outcome # "paused"
    THEN recovery' = [recovery EXCEPT !.stage =
                        IF outcome = "completed" /\ recovery.task \in revised
                        THEN "pending_developer" ELSE "blocked"]
    ELSE UNCHANGED recovery

\* A planner sent by the doctor may change its one task and nothing else.
WithinRecoveryScope(new, revised, boxes, changed) ==
    new = {} /\ revised \subseteq {recovery.task} /\ boxes = planBoxes /\ ~changed

PlannerRun(outcome) ==
    IF recovery'.stage = "blocked"
    THEN run' = "idle" /\ plannedRoles' = 0
    ELSE AfterSession("planner", outcome)

\* new: tasks created; revised: at most one existing task rewritten; linked:
\* findings added to the addresses_findings of the written tasks; boxes: the
\* checkboxes of the project plan, which matter only while there is no task.
PlannerSession(outcome, new, revised, linked, mapped, complete, boxes, changed) ==
    /\ recovery.stage = "pending_planner" => WithinRecoveryScope(new, revised, boxes, changed)
    /\ CreatesTasks(new)
    /\ boxes = planBoxes \/ \A t \in Task : status'[t] = "absent"
    /\ outcome # "paused" => MakesProgress(complete)
    /\ WritesTasks(new, revised, linked)
    /\ IF outcome = "paused"
       THEN UNCHANGED <<findingStatus, planningComplete>>
       ELSE /\ MapsFindings(mapped)
            /\ planningComplete' = complete
    /\ planBoxes' = boxes
    /\ Sync(integrated, reviewed)
    /\ current' = ContentAfter(changed)
    /\ stalled' = NoTask
    /\ PlannerRecovery(outcome, revised)
    /\ PlannerRun(outcome)
    /\ UNCHANGED <<designed, evidence, stopped>>

-----------------------------------------------------------------------------
(* Developer *)

\* A recovery names its task; otherwise the first eligible task is developed.
DeveloperTask ==
    IF recovery.stage = "pending_developer" THEN recovery.task ELSE First(EligibleTasks)

\* Mutant of DeveloperMayRun: --retry-stopped-task does not lift the stop.
DeveloperMayNotRetry(t) == recovery.stage = "none" => t \notin stopped

\* A task stopped after its bounded recovery is not developed again unless the
\* operator asks for it.
DeveloperMayRun(t) ==
    recovery.stage = "none" /\ run # "retry" => t \notin stopped

\* What configured validation may report after a session with this outcome.
ValidationResults(t, outcome) ==
    IF outcome # "completed" THEN {"none"}
    ELSE IF t \in Configured THEN {"passed", "failed", "unverified"}
    ELSE {"not_configured"}

Recorded(t, result) ==
    IF result \in {"none", "not_configured"} THEN evidence
    ELSE [evidence EXCEPT ![t] = result]

\* Criteria left complete put the task in review; a failed validation unchecks
\* one of them and returns it to development.
DeveloperStatus(t, result, complete) ==
    IF result = "failed" THEN "changes_requested"
    ELSE IF complete THEN "in_review"
    ELSE status[t]

\* Where the result sends the recovery and the run.
DeveloperRecovery(t, outcome, result, advanced) ==
    LET bounded == recovery.stage = "pending_developer"
        stalledTwice == ~bounded /\ stalled = t /\ ~advanced
        repeated == result = "failed" /\ evidence[t] = "failed"
        gaveUp == bounded /\ (result = "failed" \/ outcome # "completed" \/ ~advanced)
        stops == repeated \/ gaveUp \/ stalledTwice
        unexplained == ~advanced /\ recovery.stage = "none" /\ stalled # t /\ result # "failed"
    IN  /\ recovery' =
              IF unexplained \/ (stops /\ recovery.stage = "none")
                THEN Recovery("pending_doctor", t)
              ELSE IF stops THEN [recovery EXCEPT !.stage = "blocked"]
              ELSE IF result # "unverified" /\ bounded THEN NoRecovery
              ELSE recovery
        /\ stopped' = IF stops /\ ~unexplained THEN stopped \cup {t} ELSE stopped \ {t}
        /\ run' = IF (stops /\ recovery.stage # "none") \/ result = "unverified"
                  THEN "idle" ELSE run
        /\ plannedRoles' = IF run' = "idle" THEN 0 ELSE plannedRoles

\* Progress is what git and the files say, not the handoff: product changes, or a change of
\* what the task asks for or of its state.
Advanced(t, changed) == changed \/ status'[t] # status[t] \/ criteria'[t] # criteria[t]

DeveloperSession(t, outcome, result, complete, changed) ==
    /\ DeveloperMayRun(t)
    /\ outcome = "completed" => complete /\ Developable(t)
    /\ criteria' = [criteria EXCEPT ![t] = complete /\ result # "failed"]
    /\ status' = WithStatus(t, IF outcome = "paused" THEN status[t]
                               ELSE DeveloperStatus(t, result, complete))
    /\ evidence' = Recorded(t, result)
    /\ current' = IF result = "passed" THEN ContentAfter(changed) \cup {t}
                  ELSE ContentAfter(changed) \ (IF result = "none" THEN {} ELSE {t})
    /\ LET advanced == Advanced(t, changed)
       IN  IF outcome = "paused"
           THEN /\ stopped' = stopped \ {t}
                /\ stalled' = NoTask
                /\ UNCHANGED <<recovery, runVars>>
           ELSE /\ stalled' = IF advanced THEN NoTask ELSE t
                /\ DeveloperRecovery(t, outcome, result, advanced)
    /\ UNCHANGED <<taskMilestone, dependsOn, addresses, findingStatus, planVars>>
    /\ Sync(integrated, reviewed)

-----------------------------------------------------------------------------
(* Reviewer *)

\* The Approved box the review leaves in the task counts only without open issues.
Accepts(approves, issues) == approves /\ ~issues

\* Mutant of Revalidates: approval relies on the record whatever the review changed.
NeverRevalidates(t, outcome, approves, issues, changed) == FALSE

\* Approval that relied on a recorded validation is checked again when the
\* review changed what was validated.
Revalidates(t, outcome, approves, issues, changed) ==
    t \in current /\ changed /\ Accepts(approves, issues) /\ outcome = "completed"

\* Status the review gives the task.
ReviewStatus(result, approves, issues) ==
    IF result = "unverified" THEN "in_review"
    ELSE IF result # "failed" /\ Accepts(approves, issues) THEN "closed"
    ELSE "changes_requested"

ReviewerSession(t, outcome, result, approves, complete, issues, changed) ==
    LET revalidates == Revalidates(t, outcome, approves, issues, changed)
        verdict == IF outcome = "paused" THEN "in_review"
                   ELSE ReviewStatus(result, approves, issues)
    IN  /\ t = First(ReviewTasks)
        /\ outcome = "failed" => issues
        /\ result \in IF revalidates THEN {"passed", "failed", "unverified"} ELSE {"none"}
        /\ criteria' = [criteria EXCEPT ![t] = complete /\ result # "failed"]
        /\ status' = WithStatus(t, verdict)
        /\ findingStatus' = IF verdict = "closed"
                            THEN ResolveIfComplete(addresses[t], findingStatus, status', addresses)
                            ELSE findingStatus
        /\ evidence' = Recorded(t, result)
        /\ current' = ContentAfter(changed) \cup (IF result = "passed" THEN {t} ELSE {})
        /\ stalled' = NoTask
        /\ run' = IF result = "unverified" THEN "idle" ELSE run
        /\ UNCHANGED <<taskMilestone, dependsOn, addresses, planVars, recovery, stopped,
                       plannedRoles>>
        /\ Sync(integrated, reviewed)

-----------------------------------------------------------------------------
(* Integrator *)

\* Open issues or a failed milestone validation raise a finding; a validation
\* that could not run stops the run; otherwise the milestone is integrated.
IntegratorSession(outcome, result, issues, changed) ==
    LET m == First(IntegrationQueue)
        fails == issues \/ result = "failed"
    IN  /\ outcome = "failed" => issues
        /\ UNCHANGED <<taskVars, planVars, evidence, recovery, stopped, plannedRoles>>
        /\ IF outcome = "paused"
           THEN UNCHANGED <<findingStatus, run>> /\ Sync(integrated, reviewed)
           ELSE IF fails
           THEN /\ CanRaise(findingStatus)
                /\ findingStatus' = Raised(findingStatus)
                /\ UNCHANGED run
                /\ Sync(Integrated(m, FALSE), reviewed)
           ELSE /\ UNCHANGED findingStatus
                /\ run' = IF result = "unverified" THEN "idle" ELSE run
                /\ Sync(Integrated(m, result = "passed"), reviewed)
        /\ current' = ContentAfter(changed)
        /\ stalled' = NoTask

-----------------------------------------------------------------------------
(* Validation retry and doctor *)

\* Before a role is selected, the task awaiting review is validated again.
RetryValidation(result) ==
    LET t == First(ReviewTasks)
        bounded == recovery.stage = "pending_developer" /\ recovery.task = t
    IN  /\ RetryDue
        /\ recovery.stage \notin {"blocked", "pending_doctor"}
        /\ status' = WithStatus(t, IF result = "failed" THEN "changes_requested" ELSE status[t])
        /\ criteria' = [criteria EXCEPT ![t] = @ /\ result # "failed"]
        /\ evidence' = [evidence EXCEPT ![t] = result]
        /\ current' = IF result = "passed" THEN current \cup {t} ELSE current \ {t}
        /\ recovery' = IF bounded /\ result = "passed" THEN NoRecovery
                       ELSE IF bounded /\ result = "failed"
                         THEN [recovery EXCEPT !.stage = "blocked"]
                       ELSE recovery
        /\ run' = IF result = "unverified" \/ (bounded /\ result = "failed") THEN "idle" ELSE run
        /\ UNCHANGED <<taskMilestone, dependsOn, addresses, findingStatus,
                       milestoneVars, planVars, stalled, stopped, plannedRoles>>

\* The doctor proposes where the recovery goes; its failure leaves it blocked.
DoctorSession(action) ==
    /\ run # "idle"
    /\ recovery.stage = "pending_doctor"
    /\ recovery' = [recovery EXCEPT !.stage = StageAfter(action)]
    /\ run' = IF recovery'.stage = "blocked" THEN "idle" ELSE run
    /\ plannedRoles' = IF recovery'.stage = "blocked" THEN 0 ELSE plannedRoles
    /\ UNCHANGED <<workspaceVars, validationVars, stalled, stopped>>

\* --retry-stopped-task clears a blocked recovery.
ResetRecovery ==
    /\ run = "retry"
    /\ recovery.stage = "blocked"
    /\ recovery' = NoRecovery
    /\ UNCHANGED <<workspaceVars, validationVars, stalled, stopped, runVars>>

-----------------------------------------------------------------------------
SessionOutcomes == {"completed", "failed", "paused"}

Command == \E command \in Commands : StartRun(command)

Architect ==
    /\ Reaches("architect")
    /\ \E outcome \in SessionOutcomes, writes, issues, changed \in BOOLEAN :
          ArchitectSession(outcome, writes, issues, changed)

Planner ==
    /\ Reaches("planner")
    /\ \E outcome \in SessionOutcomes, complete, changed \in BOOLEAN,
          new \in SUBSET (Task \ ExistingTasks),
          revised \in {{}} \cup {{t} : t \in ExistingTasks},
          linked \in SUBSET {f \in Finding : findingStatus[f] # "absent"},
          mapped \in SUBSET {f \in Finding : findingStatus[f] # "absent"},
          boxes \in {"none", "unchecked", "checked"} :
          PlannerSession(outcome, new, revised, linked, mapped, complete, boxes, changed)

Developer ==
    /\ Reaches("developer")
    /\ \E outcome \in SessionOutcomes, complete, changed \in BOOLEAN :
       \E result \in ValidationResults(DeveloperTask, outcome) :
          DeveloperSession(DeveloperTask, outcome, result, complete, changed)

Reviewer ==
    /\ Reaches("reviewer")
    /\ \E outcome \in SessionOutcomes, result \in Outcomes,
          approves, complete, issues, changed \in BOOLEAN :
          ReviewerSession(First(ReviewTasks), outcome, result, approves, complete, issues, changed)

Integrator ==
    /\ Reaches("integrator")
    /\ \E outcome \in SessionOutcomes, issues, changed \in BOOLEAN,
          result \in {"passed", "failed", "unverified"} :
          IntegratorSession(outcome, result, issues, changed)

Retry == \E result \in {"passed", "failed", "unverified"} : RetryValidation(result)

Doctor == \E action \in Treatments : DoctorSession(action)

Next ==
    \/ Command
    \/ RunEnds
    \/ Architect
    \/ Planner
    \/ Developer
    \/ Reviewer
    \/ Integrator
    \/ Retry
    \/ Doctor
    \/ ResetRecovery

Spec == Init /\ [][Next]_vars
=============================================================================
