--------------------------- MODULE WorkflowProofs ---------------------------
(***************************************************************************)
(* Theorems about module Workflow, for every set of tasks, milestones and  *)
(* findings, and for everything an agent, a doctor, a validation or an     *)
(* operator may do.  The inductive invariant adds to the type invariant    *)
(* and to SingleReview what a recovery remembers: a recovery that is not   *)
(* over names a task that is neither absent nor closed.                    *)
(***************************************************************************)
EXTENDS WorkflowProperties, WellFoundedInduction, TLAPS

Active == {"open", "changes_requested", "in_review"}

\* A recovery, pending or blocked, is of an existing task that is not closed.
RecoveryOfActiveTask ==
    recovery.stage # "none" => recovery.task \in Task /\ status[recovery.task] \in Active

IInv == TypeOK /\ RecoveryOfActiveTask /\ SingleReview

-----------------------------------------------------------------------------
(* Selection *)

\* What a selector takes from a non-empty list of files is a member of it
\* (First stands for the first match of next(...) over the sorted files).
LEMMA FirstIsMember ==
    ASSUME NEW S \in SUBSET Nat, S # {}
    PROVE  First(S) \in S /\ \A x \in S : First(S) <= x
<1> DEFINE less == {ss \in Nat \X Nat : ss[1] < ss[2]}
<1>1. IsWellFoundedOn(less, Nat)
  BY NatLessThanWellFounded DEF OpToRel
<1>2. \A a, b \in Nat : a < b => <<a, b>> \in less
  OBVIOUS
<1> HIDE DEF less
<1>3. PICK x \in S : \A y \in S : ~(<<y, x>> \in less)
  BY <1>1, WFMin
<1>4. ASSUME NEW y \in S PROVE x <= y
  <2>1. x \in Nat /\ y \in Nat
    OBVIOUS
  <2>2. ~(<<y, x>> \in less)
    BY <1>3
  <2>3. ~(y < x)
    BY <2>1, <2>2, <1>2, Zenon
  <2> QED BY <2>1, <2>3, SMT
<1> QED  BY <1>4 DEF First

\* A developer session has a task, and it is the only one that may await
\* review: a recovery's own task, or an eligible task when nothing is in review.
LEMMA DeveloperHasTask ==
    ASSUME IInv, Reaches("developer")
    PROVE  /\ DeveloperTask \in Task
           /\ status[DeveloperTask] \in Active
           /\ ReviewTasks \subseteq {DeveloperTask}
           /\ recovery.stage \in {"none", "pending_developer"}
           /\ recovery.stage = "pending_developer" => recovery.task = DeveloperTask
           /\ recovery.stage = "none" => Developable(DeveloperTask)
<1>1. CASE recovery.stage = "pending_developer"
  <2>1. DeveloperTask = recovery.task
    BY <1>1 DEF DeveloperTask
  <2> QED BY <1>1, <2>1 DEF IInv, RecoveryOfActiveTask, SingleReview, Pending
<1>2. CASE recovery.stage # "pending_developer"
  <2>1. recovery.stage = "none"
    BY <1>2 DEF Reaches, SelectedRole, IInv, TypeOK, Stages
  <2>2. run # "revise"
    BY <1>2, <2>1 DEF Reaches, SelectedRole, PlanningRoles, IInv, TypeOK
  <2>3. EligibleTasks # {} /\ ReviewTasks = {}
    BY <2>1, <2>2 DEF Reaches, SelectedRole, AssessState
  <2>4. EligibleTasks \in SUBSET Nat
    BY WorkspaceAssumption DEF EligibleTasks
  <2>5. DeveloperTask \in EligibleTasks
    BY <2>1, <2>3, <2>4, FirstIsMember DEF DeveloperTask
  <2> QED BY <2>1, <2>3, <2>5 DEF EligibleTasks, Developable, Active
<1> QED BY <1>1, <1>2

\* A reviewer session runs in an implementing run, without a pending recovery,
\* on a task that is in review and whose latest validation is not to be retried.
LEMMA ReviewerHasTask ==
    ASSUME IInv, Reaches("reviewer")
    PROVE  /\ First(ReviewTasks) \in ReviewTasks
           /\ recovery.stage = "none"
           /\ Implementing
           /\ evidence[First(ReviewTasks)] \notin {"failed", "unverified"}
<1>1. recovery.stage = "none"
  BY DEF Reaches, SelectedRole, IInv, TypeOK, Stages
<1>2. run # "revise"
  BY <1>1 DEF Reaches, SelectedRole, PlanningRoles, IInv, TypeOK
<1>3. Implementing
  BY <1>2 DEF Reaches, IInv, TypeOK, Runs, Implementing
<1>4. ReviewTasks # {}
  BY <1>1, <1>2 DEF Reaches, SelectedRole, AssessState
<1>5. ReviewTasks \in SUBSET Nat
  BY WorkspaceAssumption DEF ReviewTasks
<1>6. First(ReviewTasks) \in ReviewTasks
  BY <1>4, <1>5, FirstIsMember
<1> QED BY <1>1, <1>3, <1>4, <1>6 DEF Reaches, RetryDue

\* A validation retry is of the task in review.
LEMMA RetryHasTask ==
    ASSUME RetryDue
    PROVE  First(ReviewTasks) \in ReviewTasks
BY WorkspaceAssumption, FirstIsMember DEF RetryDue, ReviewTasks

-----------------------------------------------------------------------------
(* The inductive invariant *)

\* Synchronising the milestone files keeps their types.
LEMMA SyncType ==
    ASSUME NEW i \in [Milestone -> BOOLEAN], NEW r \in [Milestone -> BOOLEAN],
           knownTasks \in [Milestone -> SUBSET Task], Sync(i, r)
    PROVE  /\ knownTasks' \in [Milestone -> SUBSET Task]
           /\ integrated' \in [Milestone -> BOOLEAN]
           /\ reviewed' \in [Milestone -> BOOLEAN]
BY DEF Sync

\* The inductive invariant holds in a workspace just initialised.
LEMMA InitIInv == Init => IInv
<1> SUFFICES ASSUME Init PROVE IInv
  OBVIOUS
<1>1. TypeOK
  <2>1. WorkspaceTypeOK
    BY DEF Init, WorkspaceInit, WorkspaceTypeOK, Statuses, FindingStatuses
  <2>2. recovery \in [stage : Stages, task : Task \cup {NoTask}]
    BY DEF Init, NoRecovery, Stages
  <2> QED BY <2>1, <2>2 DEF Init, TypeOK, Outcomes, Runs
<1>2. RecoveryOfActiveTask /\ SingleReview
  BY DEF Init, WorkspaceInit, RecoveryOfActiveTask, SingleReview, ReviewTasks, NoRecovery,
         Pending
<1> QED BY <1>1, <1>2 DEF IInv

\* Steps that write no task file and keep the recovery's task.
LEMMA QuietStep ==
    ASSUME IInv, TypeOK', UNCHANGED status,
           \/ UNCHANGED recovery
           \/ recovery'.stage = "none"
           \/ Pending /\ recovery'.task = recovery.task
    PROVE  IInv'
BY DEF IInv, RecoveryOfActiveTask, SingleReview, Pending, ReviewTasks, Active

\* Starting and ending a run keep the invariant: they write no workflow file.
LEMMA CommandStep == IInv /\ (Command \/ RunEnds) => IInv'
<1> SUFFICES ASSUME IInv, Command \/ RunEnds PROVE IInv'
  OBVIOUS
<1>1. UNCHANGED <<workspaceVars, validationVars, recoveryVars>>
  BY DEF Command, StartRun, RunEnds
<1>2. run' \in Runs /\ plannedRoles' = 0
  BY WorkflowAssumption DEF Command, StartRun, RunEnds, Runs
<1>3. TypeOK'
  BY <1>1, <1>2 DEF IInv, TypeOK, WorkspaceTypeOK, workspaceVars, taskVars, milestoneVars,
                    planVars, validationVars, recoveryVars
<1> QED BY <1>1, <1>3, QuietStep DEF workspaceVars, taskVars, recoveryVars

\* The counters of a run keep their types after any session.
LEMMA AfterSessionType ==
    ASSUME NEW r, NEW outcome, TypeOK, AfterSession(r, outcome)
    PROVE  run' \in Runs /\ plannedRoles' \in 0..1
BY DEF AfterSession, TypeOK, Runs

\* An architect session keeps the invariant: it writes no task and no recovery.
LEMMA ArchitectStep == IInv /\ Architect => IInv'
<1> SUFFICES ASSUME NEW outcome \in SessionOutcomes,
                    NEW writes \in BOOLEAN, NEW issues \in BOOLEAN, NEW changed \in BOOLEAN,
                    IInv, ArchitectSession(outcome, writes, issues, changed)
             PROVE  IInv'
  BY DEF Architect
<1> USE DEF IInv
<1>1. run' \in Runs /\ plannedRoles' \in 0..1
  BY AfterSessionType DEF ArchitectSession
<1>2. UNCHANGED <<taskVars, planBoxes, planningComplete, evidence, recovery, stopped>>
  BY DEF ArchitectSession
<1>3. /\ knownTasks' \in [Milestone -> SUBSET Task]
      /\ integrated' \in [Milestone -> BOOLEAN]
      /\ reviewed' \in [Milestone -> BOOLEAN]
  <2>1. \E r \in [Milestone -> BOOLEAN] : Sync(integrated, r)
    BY DEF ArchitectSession, ArchitectureReviewed, TypeOK, WorkspaceTypeOK
  <2> QED BY <2>1, SyncType DEF TypeOK, WorkspaceTypeOK
<1>4. /\ findingStatus' \in [Finding -> FindingStatuses]
      /\ designed' \in BOOLEAN
      /\ current' \in SUBSET Task
      /\ stalled' \in Task \cup {NoTask}
  BY DEF ArchitectSession, Raised, TypeOK, WorkspaceTypeOK, FindingStatuses, ContentAfter
<1>5. TypeOK'
  BY <1>1, <1>2, <1>3, <1>4 DEF TypeOK, WorkspaceTypeOK, taskVars
<1> QED BY <1>2, <1>5, QuietStep DEF taskVars

\* An integrator session keeps the invariant: it writes no task and no recovery.
LEMMA IntegratorStep == IInv /\ Integrator => IInv'
<1> SUFFICES ASSUME NEW outcome \in SessionOutcomes,
                    NEW result \in {"passed", "failed", "unverified"},
                    NEW issues \in BOOLEAN, NEW changed \in BOOLEAN,
                    IInv, IntegratorSession(outcome, result, issues, changed)
             PROVE  IInv'
  BY DEF Integrator
<1> USE DEF IInv
<1>1. UNCHANGED <<taskVars, planVars, evidence, recovery, stopped, plannedRoles>>
  BY DEF IntegratorSession
<1>2. \E i \in [Milestone -> BOOLEAN] : Sync(i, reviewed)
  BY DEF IntegratorSession, Integrated, TypeOK, WorkspaceTypeOK
<1>3. /\ knownTasks' \in [Milestone -> SUBSET Task]
      /\ integrated' \in [Milestone -> BOOLEAN]
      /\ reviewed' \in [Milestone -> BOOLEAN]
  BY <1>2, SyncType DEF TypeOK, WorkspaceTypeOK
<1>4. /\ findingStatus' \in [Finding -> FindingStatuses]
      /\ current' \in SUBSET Task
      /\ stalled' \in Task \cup {NoTask}
      /\ run' \in Runs
  BY DEF IntegratorSession, Raised, TypeOK, WorkspaceTypeOK, FindingStatuses, ContentAfter, Runs
<1>5. TypeOK'
  BY <1>1, <1>3, <1>4 DEF TypeOK, WorkspaceTypeOK, taskVars, planVars
<1> QED BY <1>1, <1>5, QuietStep DEF taskVars

\* A doctor and a reset keep the invariant: they keep or drop the recovery's task.
LEMMA DoctorStep == IInv /\ (Doctor \/ ResetRecovery) => IInv'
<1> SUFFICES ASSUME IInv, Doctor \/ ResetRecovery PROVE IInv'
  OBVIOUS
<1> USE DEF IInv
<1>1. UNCHANGED <<workspaceVars, validationVars, stalled, stopped>>
  BY DEF Doctor, DoctorSession, ResetRecovery
<1>2. run' \in Runs /\ plannedRoles' \in 0..1
  BY DEF Doctor, DoctorSession, ResetRecovery, runVars, TypeOK, Runs
<1>3. /\ recovery' \in [stage : Stages, task : Task \cup {NoTask}]
      /\ \/ recovery'.stage = "none"
         \/ Pending /\ recovery'.task = recovery.task
  <2>1. CASE ResetRecovery
    BY <2>1 DEF ResetRecovery, NoRecovery, Stages
  <2>2. CASE Doctor
    <3> PICK action \in Treatments : DoctorSession(action)
      BY <2>2 DEF Doctor
    <3>1. \E s \in Stages : recovery' = [recovery EXCEPT !.stage = s]
      BY DEF DoctorSession, StageAfter, Stages
    <3> QED BY <3>1 DEF DoctorSession, TypeOK, Pending
  <2> QED BY <2>1, <2>2
<1>4. TypeOK'
  BY <1>1, <1>2, <1>3 DEF TypeOK, WorkspaceTypeOK, workspaceVars, taskVars, milestoneVars,
                          planVars, validationVars
<1> QED BY <1>1, <1>3, <1>4, QuietStep DEF workspaceVars, taskVars

\* The files a planner may write keep their types.
LEMMA PlannerType ==
    ASSUME NEW outcome \in SessionOutcomes, NEW complete \in BOOLEAN, NEW changed \in BOOLEAN,
           NEW new \in SUBSET (Task \ ExistingTasks), NEW revised \in SUBSET Task,
           NEW linked \in SUBSET Finding, NEW mapped \in SUBSET Finding,
           NEW boxes \in {"none", "unchecked", "checked"},
           IInv,
           PlannerSession(outcome, new, revised, linked, mapped, complete, boxes, changed)
    PROVE  TypeOK'
<1> USE DEF IInv
<1>1. /\ status' \in [Task -> Statuses]
      /\ UNCHANGED <<criteria, designed, evidence, stopped>>
  BY DEF PlannerSession, CreatesTasks, WritesTasks, TypeOK, WorkspaceTypeOK, Statuses
<1>2. taskMilestone' \in [Task -> Milestone \cup {NoMilestone}]
  <2> DEFINE ms == new \cup (IF "milestone" \in PlannerRewrites THEN revised ELSE {})
  <2>1. \E m \in [ms -> PlannerMilestones] :
            taskMilestone' = [t \in Task |-> IF t \in ms THEN m[t] ELSE taskMilestone[t]]
    BY DEF PlannerSession, WritesTasks
  <2> HIDE DEF ms
  <2> QED BY <2>1, WorkflowAssumption DEF TypeOK, WorkspaceTypeOK
<1>3. dependsOn' \in [Task -> SUBSET Task]
  <2> DEFINE ds == new \cup (IF "dependencies" \in PlannerRewrites THEN revised ELSE {})
  <2>1. \E d \in [ds -> PlannerDeps] :
            dependsOn' = [t \in Task |-> IF t \in ds THEN d[t] ELSE dependsOn[t]]
    BY DEF PlannerSession, WritesTasks
  <2> HIDE DEF ds
  <2> QED BY <2>1, WorkflowAssumption DEF TypeOK, WorkspaceTypeOK
<1>4. addresses' \in [Task -> SUBSET Finding]
  BY DEF PlannerSession, WritesTasks, TypeOK, WorkspaceTypeOK
<1>5. findingStatus' \in [Finding -> FindingStatuses] /\ planningComplete' \in BOOLEAN
  BY DEF PlannerSession, MapsFindings, Planned, ResolveIfComplete, TypeOK, WorkspaceTypeOK,
         FindingStatuses
<1>6. /\ knownTasks' \in [Milestone -> SUBSET Task]
      /\ integrated' \in [Milestone -> BOOLEAN]
      /\ reviewed' \in [Milestone -> BOOLEAN]
  BY SyncType DEF PlannerSession, TypeOK, WorkspaceTypeOK
<1>7. planBoxes' \in {"none", "unchecked", "checked"} /\ current' \in SUBSET Task
      /\ stalled' \in Task \cup {NoTask}
  BY DEF PlannerSession, ContentAfter, TypeOK
<1>8. recovery' \in [stage : Stages, task : Task \cup {NoTask}]
  BY DEF PlannerSession, PlannerRecovery, TypeOK, Stages
<1>9. run' \in Runs /\ plannedRoles' \in 0..1
  BY AfterSessionType DEF PlannerSession, PlannerRun, Runs
<1> QED
  BY <1>1, <1>2, <1>3, <1>4, <1>5, <1>6, <1>7, <1>8, <1>9 DEF TypeOK, WorkspaceTypeOK

\* A planner session keeps the invariant: it only adds open tasks.
LEMMA PlannerStep == IInv /\ Planner => IInv'
<1> SUFFICES ASSUME IInv, Planner PROVE IInv'
  OBVIOUS
<1> PICK outcome \in SessionOutcomes, complete \in BOOLEAN, changed \in BOOLEAN,
         new \in SUBSET (Task \ ExistingTasks),
         revised \in {{}} \cup {{t} : t \in ExistingTasks},
         linked \in SUBSET {f \in Finding : findingStatus[f] # "absent"},
         mapped \in SUBSET {f \in Finding : findingStatus[f] # "absent"},
         boxes \in {"none", "unchecked", "checked"} :
           PlannerSession(outcome, new, revised, linked, mapped, complete, boxes, changed)
  BY Zenon DEF Planner
<1>1. revised \in SUBSET Task /\ linked \in SUBSET Finding /\ mapped \in SUBSET Finding
  BY DEF ExistingTasks
<1>2. TypeOK'
  BY <1>1, PlannerType
<1>3. status' = [t \in Task |-> IF t \in new THEN "open" ELSE status[t]]
  BY DEF PlannerSession, CreatesTasks
<1>4. \/ UNCHANGED recovery
      \/ Pending /\ recovery'.task = recovery.task
  BY DEF PlannerSession, PlannerRecovery, Pending, IInv, TypeOK
<1>5. ReviewTasks' = ReviewTasks
  BY <1>3 DEF ReviewTasks, ExistingTasks
<1>6. RecoveryOfActiveTask'
  BY <1>3, <1>4 DEF IInv, RecoveryOfActiveTask, Pending, ExistingTasks, Active
<1>7. SingleReview'
  BY <1>4, <1>5 DEF IInv, SingleReview, Pending
<1> QED BY <1>2, <1>6, <1>7 DEF IInv

-----------------------------------------------------------------------------

\* What a developer session does to its task and to the recovery.
LEMMA DeveloperEffect ==
    ASSUME NEW t \in Task, NEW outcome \in SessionOutcomes,
           NEW result \in ValidationResults(t, outcome),
           NEW complete \in BOOLEAN, NEW changed \in BOOLEAN,
           TypeOK, status[t] \in Active,
           recovery.stage \in {"none", "pending_developer"},
           recovery.stage = "pending_developer" => recovery.task = t,
           DeveloperSession(t, outcome, result, complete, changed)
    PROVE  /\ \E s \in Active :
                 /\ status' = [status EXCEPT ![t] = s]
                 /\ s = "changes_requested" => Developable(t)
                 /\ s = "open" => status[t] = "open"
           /\ recovery' \in [stage : Stages, task : Task \cup {NoTask}]
           /\ recovery'.stage # "none" => recovery'.task = t
           /\ stopped' \in SUBSET Task
           /\ run' \in Runs
           /\ plannedRoles' \in 0..1
<1>1. \E s \in Active :
         /\ status' = [status EXCEPT ![t] = s]
         /\ s = "changes_requested" => Developable(t)
         /\ s = "open" => status[t] = "open"
  <2> DEFINE s == IF outcome = "paused" THEN status[t] ELSE DeveloperStatus(t, result, complete)
  <2>1. status' = [status EXCEPT ![t] = s] /\ (outcome = "completed" => Developable(t))
    BY DEF DeveloperSession, WithStatus
  <2>2. result = "failed" => outcome = "completed"
    BY DEF ValidationResults
  <2>3. /\ s \in Active
        /\ (s = "changes_requested" => Developable(t)) /\ (s = "open" => status[t] = "open")
    BY <2>1, <2>2 DEF DeveloperStatus, Active, Developable
  <2> QED BY <2>1, <2>3
<1>2. CASE outcome = "paused"
  BY <1>1, <1>2 DEF DeveloperSession, TypeOK, runVars
<1>3. CASE outcome # "paused"
  <2> PICK advanced : DeveloperRecovery(t, outcome, result, advanced)
    BY <1>3 DEF DeveloperSession
  <2>1. /\ recovery' \in [stage : Stages, task : Task \cup {NoTask}]
        /\ recovery'.stage # "none" => recovery'.task = t
    BY DEF DeveloperRecovery, Recovery, NoRecovery, TypeOK, Stages
  <2>2. stopped' \in SUBSET Task /\ run' \in Runs /\ plannedRoles' \in 0..1
    BY DEF DeveloperRecovery, TypeOK, Runs
  <2> QED BY <1>1, <2>1, <2>2
<1> QED BY <1>2, <1>3

\* A developer session keeps the invariant: it submits its task when nothing else
\* is in review, and starts a recovery only for that task.
LEMMA DeveloperStep == IInv /\ Developer => IInv'
<1> SUFFICES ASSUME IInv, Developer PROVE IInv'
  OBVIOUS
<1> DEFINE t == DeveloperTask
<1> PICK outcome \in SessionOutcomes, complete \in BOOLEAN, changed \in BOOLEAN :
           \E result \in ValidationResults(t, outcome) :
              DeveloperSession(t, outcome, result, complete, changed)
  BY DEF Developer
<1> PICK result \in ValidationResults(t, outcome) :
           DeveloperSession(t, outcome, result, complete, changed)
  OBVIOUS
<1>1. /\ t \in Task /\ status[t] \in Active /\ ReviewTasks \subseteq {t}
      /\ recovery.stage \in {"none", "pending_developer"}
      /\ recovery.stage = "pending_developer" => recovery.task = t
  BY DeveloperHasTask DEF Developer
<1> HIDE DEF t
<1>2. /\ \E s \in Active : status' = [status EXCEPT ![t] = s]
      /\ recovery' \in [stage : Stages, task : Task \cup {NoTask}]
      /\ recovery'.stage # "none" => recovery'.task = t
      /\ stopped' \in SUBSET Task /\ run' \in Runs /\ plannedRoles' \in 0..1
  BY <1>1, DeveloperEffect DEF IInv
<1>3. TypeOK'
  <2>1. status' \in [Task -> Statuses]
    BY <1>2 DEF IInv, TypeOK, WorkspaceTypeOK, Statuses, Active
  <2>2. /\ knownTasks' \in [Milestone -> SUBSET Task]
        /\ integrated' \in [Milestone -> BOOLEAN]
        /\ reviewed' \in [Milestone -> BOOLEAN]
    BY SyncType DEF DeveloperSession, IInv, TypeOK, WorkspaceTypeOK
  <2>3. criteria' \in [Task -> BOOLEAN]
    BY DEF DeveloperSession, IInv, TypeOK, WorkspaceTypeOK
  <2>4. evidence' \in [Task -> Outcomes] /\ current' \in SUBSET Task
    BY <1>1 DEF DeveloperSession, Recorded, ValidationResults, ContentAfter, Outcomes, IInv, TypeOK
  <2>5. stalled' \in Task \cup {NoTask}
    BY <1>1 DEF DeveloperSession
  <2>6. UNCHANGED <<taskMilestone, dependsOn, addresses, findingStatus, planVars>>
    BY DEF DeveloperSession
  <2> QED BY <1>2, <2>1, <2>2, <2>3, <2>4, <2>5, <2>6 DEF IInv, TypeOK, WorkspaceTypeOK, planVars
<1>4. RecoveryOfActiveTask'
  BY <1>1, <1>2 DEF RecoveryOfActiveTask, IInv, TypeOK, WorkspaceTypeOK
<1>5. ReviewTasks' \subseteq {t}
  BY <1>1, <1>2 DEF ReviewTasks, IInv, TypeOK, WorkspaceTypeOK
<1>6. SingleReview'
  BY <1>2, <1>5 DEF SingleReview, Pending
<1> QED BY <1>3, <1>4, <1>6 DEF IInv

-----------------------------------------------------------------------------

\* What a review and a validation retry do to the one task in review.
LEMMA ReviewerEffect ==
    ASSUME IInv, Reviewer
    PROVE  \E t \in ReviewTasks :
              /\ \E s \in {"in_review", "changes_requested", "closed"} :
                    status' = [status EXCEPT ![t] = s]
              /\ UNCHANGED recovery /\ recovery.stage = "none"
              /\ TypeOK'
<1> DEFINE t == First(ReviewTasks)
<1> PICK outcome \in SessionOutcomes, result \in Outcomes, approves \in BOOLEAN,
         complete \in BOOLEAN, issues \in BOOLEAN, changed \in BOOLEAN :
           ReviewerSession(t, outcome, result, approves, complete, issues, changed)
  BY Zenon DEF Reviewer
<1>1. t \in ReviewTasks /\ recovery.stage = "none"
  BY ReviewerHasTask DEF Reviewer
<1> HIDE DEF t
<1>2. \E s \in {"in_review", "changes_requested", "closed"} : status' = [status EXCEPT ![t] = s]
  BY DEF ReviewerSession, WithStatus, ReviewStatus
<1>3. UNCHANGED <<taskMilestone, dependsOn, addresses, planVars, recovery, stopped, plannedRoles>>
  BY DEF ReviewerSession
<1>4. TypeOK'
  <2> USE DEF IInv, TypeOK, WorkspaceTypeOK
  <2>1. status' \in [Task -> Statuses]
    BY <1>2 DEF Statuses
  <2>2. criteria' \in [Task -> BOOLEAN]
    BY DEF ReviewerSession
  <2>3. findingStatus' \in [Finding -> FindingStatuses]
    BY DEF ReviewerSession, ResolveIfComplete, FindingStatuses
  <2>4. evidence' \in [Task -> Outcomes] /\ current' \in SUBSET Task
    BY <1>1 DEF ReviewerSession, Recorded, ContentAfter, Outcomes, ReviewTasks
  <2>5. stalled' \in Task \cup {NoTask} /\ run' \in Runs
    BY DEF ReviewerSession, Runs
  <2>6. /\ knownTasks' \in [Milestone -> SUBSET Task]
        /\ integrated' \in [Milestone -> BOOLEAN]
        /\ reviewed' \in [Milestone -> BOOLEAN]
    BY SyncType DEF ReviewerSession
  <2> QED BY <1>3, <2>1, <2>2, <2>3, <2>4, <2>5, <2>6 DEF planVars
<1> QED BY <1>1, <1>2, <1>3, <1>4

\* What a validation retry does to the task in review.
LEMMA RetryEffect ==
    ASSUME IInv, Retry
    PROVE  \E t \in ReviewTasks :
              /\ \E s \in {"in_review", "changes_requested"} :
                    status' = [status EXCEPT ![t] = s]
              /\ \/ UNCHANGED recovery
                 \/ recovery' = NoRecovery
                 \/ recovery' = [recovery EXCEPT !.stage = "blocked"] /\ recovery.task = t
              /\ TypeOK'
<1> DEFINE t == First(ReviewTasks)
<1> PICK result \in {"passed", "failed", "unverified"} : RetryValidation(result)
  BY DEF Retry
<1>1. t \in ReviewTasks
  BY RetryHasTask DEF RetryValidation
<1>2. \E s \in {"in_review", "changes_requested"} : status' = [status EXCEPT ![t] = s]
  BY <1>1 DEF RetryValidation, WithStatus, ReviewTasks
<1>3. \/ UNCHANGED recovery
      \/ recovery' = NoRecovery
      \/ recovery' = [recovery EXCEPT !.stage = "blocked"] /\ recovery.task = t
  BY DEF RetryValidation
<1>4. TypeOK'
  <2> USE DEF IInv, TypeOK, WorkspaceTypeOK
  <2>1. status' \in [Task -> Statuses]
    BY <1>2 DEF Statuses
  <2>2. criteria' \in [Task -> BOOLEAN] /\ evidence' \in [Task -> Outcomes]
        /\ current' \in SUBSET Task /\ run' \in Runs
    BY <1>1 DEF RetryValidation, Outcomes, Runs, ReviewTasks
  <2>3. recovery' \in [stage : Stages, task : Task \cup {NoTask}]
    BY <1>3 DEF NoRecovery, Stages
  <2>4. UNCHANGED <<taskMilestone, dependsOn, addresses, findingStatus,
                    milestoneVars, planVars, stalled, stopped, plannedRoles>>
    BY DEF RetryValidation
  <2> QED BY <2>1, <2>2, <2>3, <2>4 DEF milestoneVars, planVars
<1> QED BY <1>1, <1>2, <1>3, <1>4

\* A review and a validation retry keep the invariant: nothing enters review.
LEMMA ReviewStep == IInv /\ (Reviewer \/ Retry) => IInv'
<1> SUFFICES ASSUME IInv, Reviewer \/ Retry PROVE IInv'
  OBVIOUS
<1>1. PICK t \in ReviewTasks :
        /\ \E s \in {"in_review", "changes_requested", "closed"} :
              /\ status' = [status EXCEPT ![t] = s]
              /\ s = "closed" => UNCHANGED recovery /\ recovery.stage = "none"
        /\ \/ UNCHANGED recovery
           \/ recovery' = NoRecovery
           \/ recovery' = [recovery EXCEPT !.stage = "blocked"] /\ recovery.task = t
        /\ TypeOK'
  BY ReviewerEffect, RetryEffect
<1>2. t \in Task /\ ReviewTasks' \subseteq ReviewTasks
  BY <1>1 DEF ReviewTasks, IInv, TypeOK, WorkspaceTypeOK
<1>3. RecoveryOfActiveTask'
  <2> SUFFICES ASSUME recovery'.stage # "none"
               PROVE  recovery'.task \in Task /\ status'[recovery'.task] \in Active
    BY DEF RecoveryOfActiveTask
  <2>1. recovery.stage # "none" \/ recovery.task = t
    BY <1>1 DEF NoRecovery
  <2>2. recovery'.task = recovery.task
    BY <1>1 DEF NoRecovery, IInv, TypeOK
  <2> QED BY <1>1, <1>2, <2>1, <2>2
          DEF IInv, RecoveryOfActiveTask, TypeOK, WorkspaceTypeOK, Active
<1>4. SingleReview'
  BY <1>1, <1>2 DEF IInv, TypeOK, SingleReview, Pending, NoRecovery
<1> QED BY <1>1, <1>3, <1>4 DEF IInv

\* The invariant says nothing of the next state.
LEMMA StutterStep == IInv /\ UNCHANGED vars => IInv'
BY DEF IInv, TypeOK, WorkspaceTypeOK, RecoveryOfActiveTask, SingleReview, Pending, ReviewTasks,
       vars, workspaceVars, taskVars, milestoneVars, planVars, validationVars, recoveryVars,
       runVars

\* The invariant is inductive.
LEMMA NextIInv == IInv /\ [Next]_vars => IInv'
BY CommandStep, ArchitectStep, PlannerStep, DeveloperStep, IntegratorStep, ReviewStep,
   DoctorStep, StutterStep DEF Next

\* The inductive invariant holds in every state of the workflow.
THEOREM Inductive == Spec => []IInv
BY InitIInv, NextIInv, PTL DEF Spec

\* Every workflow file keeps a value the program can read back.
THEOREM TypeCorrect == Spec => []TypeOK
<1>1. IInv => TypeOK
  BY DEF IInv
<1> QED BY Inductive, <1>1, PTL

\* One task at most awaits review, and only the recovered one while a recovery
\* is pending: what _process_reviewer_handoff relies on when it closes the
\* first task in review.
THEOREM OneReviewAtATime == Spec => []SingleReview
<1>1. IInv => SingleReview
  BY DEF IInv
<1> QED BY Inductive, <1>1, PTL

-----------------------------------------------------------------------------
(* The task board *)

\* The workflow starts where the task board starts.
LEMMA InitBoard == Init => Board!Init
BY DEF Init, WorkspaceInit, Board!Init

\* A planner session creates tasks on the board and changes no other.
LEMMA PlannerBoard == IInv /\ Planner => Board!Create
<1> SUFFICES ASSUME Planner PROVE Board!Create
  OBVIOUS
<1>1. PICK outcome \in SessionOutcomes, complete \in BOOLEAN, changed \in BOOLEAN,
         new \in SUBSET (Task \ ExistingTasks),
         revised \in {{}} \cup {{t} : t \in ExistingTasks},
         linked \in SUBSET {f \in Finding : findingStatus[f] # "absent"},
         mapped \in SUBSET {f \in Finding : findingStatus[f] # "absent"},
         boxes \in {"none", "unchecked", "checked"} :
           PlannerSession(outcome, new, revised, linked, mapped, complete, boxes, changed)
  BY Zenon DEF Planner
<1>2. new \in SUBSET {t \in Task : status[t] = "absent"}
  BY DEF ExistingTasks
<1> QED BY <1>1, <1>2 DEF PlannerSession, CreatesTasks, Board!Create

\* A developer session submits, returns or leaves its task on the board.
LEMMA DeveloperBoard ==
    IInv /\ Developer => UNCHANGED status \/ \E t \in Task : Board!Submit(t) \/ Board!Return(t)
<1> SUFFICES ASSUME IInv, Developer
             PROVE  UNCHANGED status \/ \E t \in Task : Board!Submit(t) \/ Board!Return(t)
  OBVIOUS
<1> DEFINE t == DeveloperTask
<1>1. /\ t \in Task /\ status[t] \in Active /\ ReviewTasks \subseteq {t}
      /\ recovery.stage \in {"none", "pending_developer"}
      /\ recovery.stage = "pending_developer" => recovery.task = t
  BY DeveloperHasTask DEF Developer
<1>2. PICK outcome \in SessionOutcomes, complete \in BOOLEAN, changed \in BOOLEAN :
           \E result \in ValidationResults(t, outcome) :
              DeveloperSession(t, outcome, result, complete, changed)
  BY DEF Developer
<1> HIDE DEF t
<1>3. PICK s \in Active :
        /\ status' = [status EXCEPT ![t] = s]
        /\ s = "changes_requested" => Developable(t)
        /\ s = "open" => status[t] = "open"
  BY <1>1, <1>2, DeveloperEffect DEF IInv
<1>4. status \in [Task -> Statuses]
  BY DEF IInv, TypeOK, WorkspaceTypeOK
<1>5. CASE s = status[t]
  BY <1>1, <1>3, <1>4, <1>5
<1>6. CASE s = "changes_requested"
  BY <1>1, <1>3, <1>6 DEF Developable, Board!Return, Board!Becomes
<1>7. CASE s = "in_review" /\ status[t] # "in_review"
  <2>1. ReviewTasks = {}
    BY <1>1, <1>7 DEF ReviewTasks
  <2>2. Board!InReview = {}
    BY <2>1 DEF ReviewTasks, Board!InReview
  <2>3. status[t] \in {"open", "changes_requested"}
    BY <1>1, <1>7 DEF Active
  <2> QED BY <1>1, <1>3, <1>7, <2>2, <2>3 DEF Board!Submit, Board!Becomes
<1> QED BY <1>3, <1>5, <1>6, <1>7 DEF Active

\* A review or a validation retry closes, returns or leaves the task in review.
LEMMA ReviewBoard ==
    IInv /\ (Reviewer \/ Retry) =>
        UNCHANGED status \/ \E t \in Task : Board!Return(t) \/ Board!Close(t)
<1> SUFFICES ASSUME IInv, Reviewer \/ Retry
             PROVE  UNCHANGED status \/ \E t \in Task : Board!Return(t) \/ Board!Close(t)
  OBVIOUS
<1>1. PICK t \in ReviewTasks, s \in {"in_review", "changes_requested", "closed"} :
        status' = [status EXCEPT ![t] = s]
  BY ReviewerEffect, RetryEffect
<1>2. t \in Task /\ status[t] = "in_review" /\ status \in [Task -> Statuses]
  BY DEF ReviewTasks, IInv, TypeOK, WorkspaceTypeOK
<1>3. CASE s = "in_review"
  BY <1>1, <1>2, <1>3
<1>4. CASE s = "changes_requested"
  BY <1>1, <1>2, <1>4 DEF Board!Return, Board!Becomes
<1>5. CASE s = "closed"
  BY <1>1, <1>2, <1>5 DEF Board!Close, Board!Becomes
<1> QED BY <1>3, <1>4, <1>5

\* The steps that write no task's status.
LEMMA OtherBoard ==
    Command \/ RunEnds \/ Architect \/ Integrator \/ Doctor \/ ResetRecovery \/ UNCHANGED vars
    => UNCHANGED status
BY DEF Command, StartRun, RunEnds, Architect, ArchitectSession, Integrator, IntegratorSession,
       Doctor, DoctorSession, ResetRecovery, vars, workspaceVars, taskVars

\* Every step of the workflow is a step of the board or leaves it unchanged.
LEMMA NextBoard == IInv /\ [Next]_vars => [Board!Next]_status
BY PlannerBoard, DeveloperBoard, ReviewBoard, OtherBoard DEF Next, Board!Next

\* The workflow implements the task board, whatever agents and operators do.
THEOREM ImplementsTaskBoard == Spec => KeepsTaskBoard
BY InitBoard, NextBoard, Inductive, PTL DEF Spec, KeepsTaskBoard, Board!Spec

-----------------------------------------------------------------------------
(* Closing a task *)

\* A review that closes its task relied on no failed or stale validation.
LEMMA ReviewerCloses ==
    ASSUME IInv, Reviewer, NEW u \in Task, Closes(u)
    PROVE  /\ status[u] = "in_review"
           /\ evidence'[u] \notin {"failed", "unverified"}
           /\ u \in current => u \in current'
<1> DEFINE t == First(ReviewTasks)
<1> PICK outcome \in SessionOutcomes, result \in Outcomes, approves \in BOOLEAN,
         complete \in BOOLEAN, issues \in BOOLEAN, changed \in BOOLEAN :
           ReviewerSession(t, outcome, result, approves, complete, issues, changed)
  BY Zenon DEF Reviewer
<1>1. t \in ReviewTasks /\ evidence[t] \notin {"failed", "unverified"}
  BY ReviewerHasTask DEF Reviewer
<1> HIDE DEF t
<1>2. \E s : status' = [status EXCEPT ![t] = s]
  BY DEF ReviewerSession, WithStatus
<1>3. u = t
  BY <1>2 DEF Closes, IInv, TypeOK, WorkspaceTypeOK
<1>4. outcome # "paused" /\ ReviewStatus(result, approves, issues) = "closed"
  BY <1>3 DEF Closes, ReviewerSession, WithStatus, IInv, TypeOK, WorkspaceTypeOK
<1>5. result \notin {"failed", "unverified"} /\ Accepts(approves, issues)
  BY <1>4 DEF ReviewStatus
<1>6. evidence'[t] \notin {"failed", "unverified"}
  BY <1>1, <1>5 DEF ReviewerSession, Recorded, IInv, TypeOK, ReviewTasks
<1>7. t \in current => t \in current'
  <2>1. CASE ~changed
    BY <2>1 DEF ReviewerSession, ContentAfter
  <2>2. CASE changed /\ t \in current
    <3>1. outcome = "completed"
      BY <1>4, <1>5 DEF ReviewerSession, Accepts, SessionOutcomes
    <3>2. result = "passed"
      BY <1>5, <2>2, <3>1 DEF ReviewerSession, Revalidates
    <3> QED BY <3>2 DEF ReviewerSession
  <2> QED BY <2>1, <2>2
<1> QED BY <1>1, <1>3, <1>6, <1>7 DEF ReviewTasks

\* No other step closes a task.
LEMMA OnlyReviewerCloses ==
    ASSUME IInv, [Next]_vars, NEW u \in Task, Closes(u)
    PROVE  Reviewer
<1>1. ~Planner
  BY PlannerBoard DEF Board!Create, Closes
<1>2. ~Developer
  BY DeveloperBoard DEF Board!Submit, Board!Return, Board!Becomes, Closes, IInv, TypeOK,
                        WorkspaceTypeOK
<1>3. ~Retry
  BY RetryEffect DEF Closes, IInv, TypeOK, WorkspaceTypeOK
<1> QED BY <1>1, <1>2, <1>3, OtherBoard DEF Next, Closes

\* A task closes only from review, never on a failed or missing validation, and
\* on content that a validation the reviewer relied on, or a newer one, passed.
THEOREM ClosingIsValidated == Spec => ClosureIsValidated
<1>1. IInv /\ [Next]_vars =>
        [\A t \in Task : Closes(t) =>
            /\ status[t] = "in_review"
            /\ evidence'[t] \notin {"failed", "unverified"}
            /\ t \in current => t \in current']_vars
  BY ReviewerCloses, OnlyReviewerCloses
<1> QED BY <1>1, Inductive, PTL DEF Spec, ClosureIsValidated
-----------------------------------------------------------------------------
(* The bounded recovery *)

\* Only configured tasks have a validation record: without one the latest outcome
\* of a task stays "none", and nothing of it is current.
RecordsAreConfigured ==
    \A t \in Task \ Configured : evidence[t] = "none" /\ t \notin current

\* A developer session records what the configured validation of its task reported.
LEMMA DeveloperRecords ==
    ASSUME IInv, RecordsAreConfigured, Developer
    PROVE  RecordsAreConfigured'
<1> DEFINE t == DeveloperTask
<1>1. PICK outcome \in SessionOutcomes, complete \in BOOLEAN, changed \in BOOLEAN :
           \E result \in ValidationResults(t, outcome) :
              DeveloperSession(t, outcome, result, complete, changed)
  BY DEF Developer
<1>2. PICK result \in ValidationResults(t, outcome) :
           DeveloperSession(t, outcome, result, complete, changed)
  BY <1>1
<1>3. t \in Task
  BY DeveloperHasTask DEF Developer
<1> HIDE DEF t
<1>4. t \in Configured \/ result \in {"none", "not_configured"}
  BY DEF ValidationResults
<1>5. evidence' = Recorded(t, result)
      /\ \/ current' = ContentAfter(changed) \cup {t} /\ result = "passed"
         \/ current' \subseteq ContentAfter(changed)
  BY <1>2 DEF DeveloperSession
<1> QED BY <1>3, <1>4, <1>5 DEF RecordsAreConfigured, Recorded, ContentAfter, IInv, TypeOK

\* A review records a validation only for a task whose passing record was current.
LEMMA ReviewerRecords ==
    ASSUME IInv, RecordsAreConfigured, Reviewer
    PROVE  RecordsAreConfigured'
<1> DEFINE t == First(ReviewTasks)
<1> PICK outcome \in SessionOutcomes, result \in Outcomes, approves \in BOOLEAN,
         complete \in BOOLEAN, issues \in BOOLEAN, changed \in BOOLEAN :
           ReviewerSession(t, outcome, result, approves, complete, issues, changed)
  BY Zenon DEF Reviewer
<1>1. t \in Task
  BY ReviewerHasTask DEF Reviewer, ReviewTasks
<1> HIDE DEF t
<1>2. t \in Configured \/ result = "none"
  BY <1>1 DEF ReviewerSession, Revalidates, RecordsAreConfigured
<1>3. evidence' = Recorded(t, result)
      /\ current' = ContentAfter(changed) \cup (IF result = "passed" THEN {t} ELSE {})
  BY DEF ReviewerSession
<1> QED BY <1>1, <1>2, <1>3 DEF RecordsAreConfigured, Recorded, ContentAfter, IInv, TypeOK

\* A validation retry is of a task that has a record.
LEMMA RetryRecords ==
    ASSUME IInv, RecordsAreConfigured, Retry
    PROVE  RecordsAreConfigured'
<1> DEFINE t == First(ReviewTasks)
<1> PICK result \in {"passed", "failed", "unverified"} : RetryValidation(result)
  BY DEF Retry
<1>1. t \in Task /\ evidence[t] \in {"failed", "unverified"}
  BY RetryHasTask DEF RetryValidation, ReviewTasks, RetryDue
<1>2. evidence' = [evidence EXCEPT ![t] = result] /\ current' \subseteq current \cup {t}
  BY DEF RetryValidation
<1> HIDE DEF t
<1>3. t \in Configured
  BY <1>1 DEF RecordsAreConfigured
<1> QED BY <1>1, <1>2, <1>3 DEF RecordsAreConfigured, IInv, TypeOK

\* Only a session or a retry of a configured task writes its record.
LEMMA RecordsStep == IInv /\ RecordsAreConfigured /\ [Next]_vars => RecordsAreConfigured'
<1> SUFFICES ASSUME IInv, RecordsAreConfigured, [Next]_vars PROVE RecordsAreConfigured'
  OBVIOUS
<1>1. CASE Architect \/ Planner \/ Integrator
  <2>1. UNCHANGED evidence /\ current' \subseteq current
    <3>1. CASE Architect
      BY <3>1 DEF Architect, ArchitectSession, ContentAfter
    <3>2. CASE Integrator
      BY <3>2 DEF Integrator, IntegratorSession, ContentAfter
    <3>3. CASE Planner
      <4> PICK outcome \in SessionOutcomes, complete \in BOOLEAN, changed \in BOOLEAN,
               new \in SUBSET (Task \ ExistingTasks),
               revised \in {{}} \cup {{t} : t \in ExistingTasks},
               linked \in SUBSET {f \in Finding : findingStatus[f] # "absent"},
               mapped \in SUBSET {f \in Finding : findingStatus[f] # "absent"},
               boxes \in {"none", "unchecked", "checked"} :
                 PlannerSession(outcome, new, revised, linked, mapped, complete, boxes, changed)
        BY <3>3, Zenon DEF Planner
      <4> QED BY DEF PlannerSession, ContentAfter
    <3> QED BY <1>1, <3>1, <3>2, <3>3
  <2> QED BY <2>1 DEF RecordsAreConfigured
<1>2. CASE Command \/ RunEnds \/ Doctor \/ ResetRecovery \/ UNCHANGED vars
  <2>1. UNCHANGED validationVars
    BY <1>2 DEF Command, StartRun, RunEnds, Doctor, DoctorSession, ResetRecovery, vars
  <2> QED BY <2>1 DEF RecordsAreConfigured, validationVars
<1> QED BY <1>1, <1>2, DeveloperRecords, ReviewerRecords, RetryRecords DEF Next

\* Records belong to tasks whose validation commands are configured.
THEOREM RecordsNeedCommands == Spec => []RecordsAreConfigured
<1>1. Init => RecordsAreConfigured
  BY DEF Init, RecordsAreConfigured
<1> QED BY <1>1, RecordsStep, Inductive, PTL DEF Spec

\* The steps of a recovery, as RecoveryIsBounded lists them.
Bounded ==
    \/ recovery.stage = "none" /\ recovery'.stage = "pending_doctor"
    \/ /\ recovery'.task = recovery.task
       /\ <<recovery.stage, recovery'.stage>> \in
             {<<"pending_doctor", "pending_planner">>,
              <<"pending_doctor", "pending_developer">>,
              <<"pending_doctor", "blocked">>,
              <<"pending_planner", "pending_developer">>,
              <<"pending_planner", "blocked">>,
              <<"pending_developer", "blocked">>}
    \/ /\ recovery.stage = "pending_developer" /\ recovery' = NoRecovery
       /\ status'[recovery.task] = "in_review"
       /\ evidence'[recovery.task] \in {"passed", "none"}
    \/ recovery.stage = "blocked" /\ recovery' = NoRecovery /\ run = "retry"

\* A planner that was sent by a doctor passes its task on to a developer, or gives up.
LEMMA PlannerRecovers ==
    ASSUME IInv, Planner, recovery' # recovery
    PROVE  Bounded
<1> PICK outcome \in SessionOutcomes, complete \in BOOLEAN, changed \in BOOLEAN,
         new \in SUBSET (Task \ ExistingTasks),
         revised \in {{}} \cup {{t} : t \in ExistingTasks},
         linked \in SUBSET {f \in Finding : findingStatus[f] # "absent"},
         mapped \in SUBSET {f \in Finding : findingStatus[f] # "absent"},
         boxes \in {"none", "unchecked", "checked"} :
           PlannerSession(outcome, new, revised, linked, mapped, complete, boxes, changed)
  BY Zenon DEF Planner
<1>1. PlannerRecovery(outcome, revised)
  BY DEF PlannerSession
<1>2. recovery.stage = "pending_planner"
      /\ \E s \in {"pending_developer", "blocked"} : recovery' = [recovery EXCEPT !.stage = s]
  BY <1>1 DEF PlannerRecovery
<1> QED BY <1>2 DEF Bounded, IInv, TypeOK

\* A developer's recovery starts, is blocked, or ends with the work in review, validated
\* wherever its commands are configured.
LEMMA DeveloperRecovers ==
    ASSUME IInv, RecordsAreConfigured, Developer, recovery' # recovery
    PROVE  Bounded
<1> DEFINE t == DeveloperTask
<1>1. PICK outcome \in SessionOutcomes, complete \in BOOLEAN, changed \in BOOLEAN :
           \E result \in ValidationResults(t, outcome) :
              DeveloperSession(t, outcome, result, complete, changed)
  BY DEF Developer
<1>2. PICK result \in ValidationResults(t, outcome) :
           DeveloperSession(t, outcome, result, complete, changed)
  BY <1>1
<1>3. /\ t \in Task /\ recovery.stage \in {"none", "pending_developer"}
      /\ recovery.stage = "pending_developer" => recovery.task = t
  BY DeveloperHasTask DEF Developer
<1> HIDE DEF t
<1> DEFINE advanced == Advanced(t, changed)
<1>4. outcome # "paused" /\ DeveloperRecovery(t, outcome, result, advanced)
  BY <1>2 DEF DeveloperSession
<1> HIDE DEF advanced
<1>5. \/ recovery.stage = "none" /\ recovery' = Recovery("pending_doctor", t)
      \/ recovery.stage # "none" /\ recovery' = [recovery EXCEPT !.stage = "blocked"]
      \/ /\ recovery.stage = "pending_developer" /\ recovery' = NoRecovery
         /\ outcome = "completed" /\ result \notin {"failed", "unverified"}
  BY <1>4 DEF DeveloperRecovery
<1>6. CASE recovery.stage = "none" /\ recovery' = Recovery("pending_doctor", t)
  BY <1>6 DEF Bounded, Recovery
<1>7. CASE recovery.stage # "none" /\ recovery' = [recovery EXCEPT !.stage = "blocked"]
  BY <1>3, <1>7 DEF Bounded, IInv, TypeOK
<1>8. CASE /\ recovery.stage = "pending_developer" /\ recovery' = NoRecovery
           /\ outcome = "completed" /\ result \notin {"failed", "unverified"}
  <2>1. recovery.task = t
    BY <1>3, <1>8
  <2>2. complete /\ status' = WithStatus(t, DeveloperStatus(t, result, complete))
        /\ evidence' = Recorded(t, result)
    BY <1>2, <1>8 DEF DeveloperSession
  <2>3. status'[t] = "in_review"
    BY <1>3, <1>8, <2>2 DEF WithStatus, DeveloperStatus, IInv, TypeOK, WorkspaceTypeOK
  <2>4. \/ result = "passed"
        \/ result = "not_configured" /\ t \notin Configured
    BY <1>8 DEF ValidationResults
  <2>5. evidence'[t] \in {"passed", "none"}
    BY <1>3, <2>2, <2>4 DEF Recorded, RecordsAreConfigured, IInv, TypeOK
  <2> QED BY <1>8, <2>1, <2>3, <2>5 DEF Bounded
<1> QED BY <1>5, <1>6, <1>7, <1>8

\* A validation retry ends the recovery of its task when it passes, and blocks it when
\* it fails.
LEMMA RetryRecovers ==
    ASSUME IInv, Retry, recovery' # recovery
    PROVE  Bounded
<1> DEFINE t == First(ReviewTasks)
<1> PICK result \in {"passed", "failed", "unverified"} : RetryValidation(result)
  BY DEF Retry
<1>1. t \in Task /\ status[t] = "in_review"
  BY RetryHasTask DEF RetryValidation, ReviewTasks
<1>2. /\ recovery.stage = "pending_developer" /\ recovery.task = t
      /\ \/ result = "passed" /\ recovery' = NoRecovery
         \/ recovery' = [recovery EXCEPT !.stage = "blocked"]
  BY DEF RetryValidation
<1>3. result = "passed" => status'[t] = "in_review" /\ evidence'[t] = "passed"
  BY <1>1 DEF RetryValidation, WithStatus, IInv, TypeOK, WorkspaceTypeOK
<1> HIDE DEF t
<1> QED BY <1>2, <1>3 DEF Bounded, IInv, TypeOK

\* A doctor sends a recovery on, or leaves it blocked.
LEMMA DoctorRecovers ==
    ASSUME IInv, Doctor \/ ResetRecovery, recovery' # recovery
    PROVE  Bounded
<1>1. CASE ResetRecovery
  BY <1>1 DEF ResetRecovery, Bounded
<1>2. CASE Doctor
  <2>1. PICK action \in Treatments : DoctorSession(action)
    BY <1>2 DEF Doctor
  <2>2. recovery.stage = "pending_doctor"
        /\ \E s \in {"pending_planner", "pending_developer", "blocked"} :
              recovery' = [recovery EXCEPT !.stage = s]
    BY <2>1 DEF DoctorSession, StageAfter
  <2> QED BY <2>2 DEF Bounded, IInv, TypeOK
<1> QED BY <1>1, <1>2

\* A recovery goes through the doctor, at most one planner and at most one developer,
\* and ends with validated work or the operator (doctor recovery of the run loop).
THEOREM RecoveryStaysBounded == Spec => RecoveryIsBounded
<1>1. ASSUME IInv, RecordsAreConfigured, [Next]_vars, recovery' # recovery
      PROVE  Bounded
  <2>1. ~(Command \/ RunEnds \/ Architect \/ Integrator \/ UNCHANGED vars)
    BY <1>1 DEF Command, StartRun, RunEnds, Architect, ArchitectSession, Integrator,
                IntegratorSession, vars, recoveryVars
  <2>2. ~Reviewer
    BY <1>1, ReviewerEffect
  <2> QED BY <1>1, <2>1, <2>2, PlannerRecovers, DeveloperRecovers, RetryRecovers,
             DoctorRecovers DEF Next
<1>2. IInv /\ RecordsAreConfigured /\ [Next]_vars =>
        [recovery' # recovery =>
          \/ recovery.stage = "none" /\ recovery'.stage = "pending_doctor"
          \/ /\ recovery'.task = recovery.task
             /\ <<recovery.stage, recovery'.stage>> \in
                   {<<"pending_doctor", "pending_planner">>,
                    <<"pending_doctor", "pending_developer">>,
                    <<"pending_doctor", "blocked">>,
                    <<"pending_planner", "pending_developer">>,
                    <<"pending_planner", "blocked">>,
                    <<"pending_developer", "blocked">>}
          \/ /\ recovery.stage = "pending_developer" /\ recovery' = NoRecovery
             /\ status'[recovery.task] = "in_review"
             /\ evidence'[recovery.task] \in {"passed", "none"}
          \/ recovery.stage = "blocked" /\ recovery' = NoRecovery /\ run = "retry"]_vars
  BY <1>1, Zenon DEF Bounded
<1> QED BY <1>2, Inductive, RecordsNeedCommands, PTL DEF Spec, RecoveryIsBounded
=============================================================================
