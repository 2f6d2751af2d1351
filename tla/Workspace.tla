----------------------------- MODULE Workspace -----------------------------
(***************************************************************************)
(* The durable workflow files of one DevLab target and what the            *)
(* orchestrator reads from them: tasks, findings, milestones and planning  *)
(* state, the selectors of WorkspaceSnapshot, and the pure part of the     *)
(* file trackers' transitions.  A file is a row of functions indexed by    *)
(* its number; a task or finding that has no file yet is "absent".         *)
(***************************************************************************)
EXTENDS Naturals

CONSTANTS
    Task,           \* numbers of the task files, T0001 -> 1: files are ordered by number
    Milestone,      \* numbers of the milestones, in their natural order
    Finding,        \* numbers of the finding files
    Required,       \* milestones whose file keeps integration_required = true
    NoMilestone,    \* a task whose metadata names no milestone
    NoTask          \* no task

ASSUME WorkspaceAssumption ==
    /\ Task \subseteq Nat /\ Milestone \subseteq Nat /\ Finding \subseteq Nat
    /\ Required \subseteq Milestone
    /\ NoMilestone \notin Milestone
    /\ NoTask \notin Task

VARIABLES
    status,           \* front-matter status of each task
    taskMilestone,    \* front-matter milestone of each task
    dependsOn,        \* front-matter depends_on of each task
    addresses,        \* front-matter addresses_findings of each task
    criteria,         \* all boxes of "Acceptance Criteria" are checked
    findingStatus,    \* front-matter status of each finding
    knownTasks,       \* task_ids stored in each milestone file ({}: no file)
    integrated,       \* integrated flag of each milestone file
    reviewed,         \* architecture_reviewed flag of each milestone file
    designed,         \* the design plan exists and is not empty
    planBoxes,        \* checkboxes of the project plan: none, some unchecked, all checked
    planningComplete  \* [planning].complete of workflow.toml

taskVars == <<status, taskMilestone, dependsOn, addresses, criteria>>
milestoneVars == <<knownTasks, integrated, reviewed>>
planVars == <<designed, planBoxes, planningComplete>>
workspaceVars == <<taskVars, findingStatus, milestoneVars, planVars>>

Statuses == {"absent", "open", "in_review", "changes_requested", "closed"}
FindingStatuses == {"absent", "open", "planned", "resolved"}

WorkspaceTypeOK ==
    /\ status \in [Task -> Statuses]
    /\ taskMilestone \in [Task -> Milestone \cup {NoMilestone}]
    /\ dependsOn \in [Task -> SUBSET Task]
    /\ addresses \in [Task -> SUBSET Finding]
    /\ criteria \in [Task -> BOOLEAN]
    /\ findingStatus \in [Finding -> FindingStatuses]
    /\ knownTasks \in [Milestone -> SUBSET Task]
    /\ integrated \in [Milestone -> BOOLEAN]
    /\ reviewed \in [Milestone -> BOOLEAN]
    /\ designed \in BOOLEAN
    /\ planBoxes \in {"none", "unchecked", "checked"}
    /\ planningComplete \in BOOLEAN

\* A workspace just created by devlab init: no plan, no task, no milestone.
WorkspaceInit ==
    /\ status = [t \in Task |-> "absent"]
    /\ taskMilestone = [t \in Task |-> NoMilestone]
    /\ dependsOn = [t \in Task |-> {}]
    /\ addresses = [t \in Task |-> {}]
    /\ criteria = [t \in Task |-> FALSE]
    /\ findingStatus = [f \in Finding |-> "absent"]
    /\ knownTasks = [m \in Milestone |-> {}]
    /\ integrated = [m \in Milestone |-> FALSE]
    /\ reviewed = [m \in Milestone |-> FALSE]
    /\ designed = FALSE
    /\ planBoxes = "none"
    /\ planningComplete = FALSE

-----------------------------------------------------------------------------
(* Selectors of WorkspaceSnapshot *)

\* Files are listed by number and a selector takes the first that matches.
First(S) == CHOOSE x \in S : \A y \in S : x <= y

ExistingTasks == {t \in Task : status[t] # "absent"}
ClosedTasks == {t \in Task : status[t] = "closed"}
ReviewTasks == {t \in Task : status[t] = "in_review"}
Developable(t) == status[t] \in {"open", "changes_requested"}

\* Mutant of EligibleTasks: dependencies are looked at, the task's status is not.
EligibleAnyStatus == {t \in ExistingTasks : dependsOn[t] \subseteq ClosedTasks}

EligibleTasks == {t \in Task : Developable(t) /\ dependsOn[t] \subseteq ClosedTasks}
BlockedTasks == {t \in Task : Developable(t) /\ ~(dependsOn[t] \subseteq ClosedTasks)}

TasksFor(m) == {t \in ExistingTasks : taskMilestone[t] = m}
MilestoneComplete(m) == TasksFor(m) # {} /\ TasksFor(m) \subseteq ClosedTasks

IntegrationQueue ==
    {m \in Required : knownTasks[m] # {} /\ ~integrated[m] /\ MilestoneComplete(m)}
ArchitectureReviewQueue == {m \in Milestone : integrated[m] /\ ~reviewed[m]}
OpenFindings == {f \in Finding : findingStatus[f] = "open"}

AllMilestonesComplete ==
    IF ExistingTasks # {} THEN ExistingTasks \subseteq ClosedTasks
                          ELSE planBoxes = "checked"

NothingToPlan == planningComplete /\ ExistingTasks = {} /\ planBoxes = "none"

\* Mutants of AssessState: development before review, and completion seen before
\* the milestones are integrated.
AssessDevelopmentFirst ==
    IF ~designed THEN "architect"
    ELSE IF EligibleTasks # {} THEN "developer"
    ELSE IF ReviewTasks # {} THEN "reviewer"
    ELSE IF OpenFindings # {} THEN "planner"
    ELSE "none"
AssessCompletionFirst ==
    IF ~designed THEN "architect"
    ELSE IF ReviewTasks # {} THEN "reviewer"
    ELSE IF OpenFindings # {} THEN "planner"
    ELSE IF AllMilestonesComplete /\ planningComplete THEN "none"
    ELSE IF EligibleTasks # {} THEN "developer"
    ELSE "planner"

\* The role the durable files call for; "none" stops the run.
AssessState ==
    IF ~designed THEN "architect"
    ELSE IF ReviewTasks # {} THEN "reviewer"
    ELSE IF OpenFindings # {} THEN "planner"
    ELSE IF ArchitectureReviewQueue # {} THEN "architect"
    ELSE IF IntegrationQueue # {} THEN "integrator"
    ELSE IF EligibleTasks # {} THEN "developer"
    ELSE IF BlockedTasks # {} \/ NothingToPlan THEN "none"
    ELSE IF AllMilestonesComplete /\ planningComplete THEN "none"
    ELSE "planner"

-----------------------------------------------------------------------------
(* Transitions of the trackers, as functions of the files they read *)

\* A finding is raised under the next free number, and is open until it is planned for.
CanRaise(fs) == \E f \in Finding : fs[f] = "absent"
Raised(fs) == [fs EXCEPT ![First({f \in Finding : fs[f] = "absent"})] = "open"]
Planned(F, fs) == [f \in Finding |-> IF f \in F THEN "planned" ELSE fs[f]]

WithStatus(t, s) == [status EXCEPT ![t] = s]

\* The flags of milestone m after its integration, and after its architecture review.
Integrated(m, passes) == [integrated EXCEPT ![m] = passes]
ArchitectureReviewed(m) == [reviewed EXCEPT ![m] = TRUE]

\* The tasks that list finding f, given the tasks' statuses and mappings.
AddressingTasks(f, st, addr) == {t \in Task : st[t] # "absent" /\ f \in addr[t]}

\* resolve_if_complete for each finding of F in turn: a planned finding with
\* addressing tasks, all of them closed, is resolved.
ResolveIfComplete(F, fs, st, addr) ==
    [f \in Finding |->
        IF /\ f \in F /\ fs[f] = "planned"
           /\ AddressingTasks(f, st, addr) # {}
           /\ \A t \in AddressingTasks(f, st, addr) : st[t] = "closed"
        THEN "resolved" ELSE fs[f]]

\* Mutant of Sync: a milestone that gains a task stays integrated and reviewed.
SyncKeepsFlags(integratedNow, reviewedNow) ==
    /\ knownTasks' = [m \in Milestone |->
          knownTasks[m] \cup {t \in Task : status'[t] # "absent" /\ taskMilestone'[t] = m}]
    /\ integrated' = integratedNow
    /\ reviewed' = reviewedNow

\* upsert_from_tasks run over the milestone flags a session leaves behind: each
\* milestone file gains the tasks that now name it, and an integrated milestone
\* that gains one must be integrated and reviewed again.
Sync(integratedNow, reviewedNow) ==
    LET listed(m) == {t \in Task : status'[t] # "absent" /\ taskMilestone'[t] = m}
        gains(m) == ~(listed(m) \subseteq knownTasks[m])
    IN  /\ knownTasks' = [m \in Milestone |-> knownTasks[m] \cup listed(m)]
        /\ integrated' = [m \in Milestone |-> integratedNow[m] /\ ~gains(m)]
        /\ reviewed' = [m \in Milestone |->
                           reviewedNow[m] /\ ~(integratedNow[m] /\ gains(m))]
=============================================================================
