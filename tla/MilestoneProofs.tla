--------------------------- MODULE MilestoneProofs ---------------------------
(***************************************************************************)
(* Theorems about what the milestone and finding files say of the tasks    *)
(* and about the end of the workflow, for every set of tasks, milestones   *)
(* and findings.  They need planners that keep what they wrote in a task:  *)
(* the run "moved" shows that IntegrationIsCurrent does not survive a task *)
(* that moves to another milestone.                                        *)
(***************************************************************************)
EXTENDS WorkflowProofs

KeepsMilestones == "milestone" \notin PlannerRewrites
KeepsFindings == "findings" \notin PlannerRewrites

\* A milestone file lists the tasks that name the milestone, and no other.
KnownAreListed == \A m \in Milestone : knownTasks[m] = TasksFor(m)

MilestonesAgree == KnownAreListed /\ IntegrationIsCurrent

-----------------------------------------------------------------------------
(* Steps of the task board *)

\* No step takes a task away or opens one that is closed; new tasks are open.
BoardMoves ==
    \A t \in Task :
        /\ status[t] # "absent" => status'[t] # "absent"
        /\ status[t] = "closed" => status'[t] = "closed"
        /\ status[t] = "absent" => status'[t] \in {"absent", "open"}

\* Every step moves the status of the tasks only as the board allows.
LEMMA NextBoardMoves == IInv /\ [Next]_vars => BoardMoves
<1> SUFFICES ASSUME IInv, [Next]_vars PROVE BoardMoves
  OBVIOUS
<1>1. [Board!Next]_status
  BY NextBoard
<1>2. status \in [Task -> Statuses]
  BY DEF IInv, TypeOK, WorkspaceTypeOK
<1>3. CASE Board!Create
  BY <1>2, <1>3 DEF Board!Create, BoardMoves
<1>4. ASSUME NEW t \in Task, Board!Submit(t) \/ Board!Return(t) \/ Board!Close(t)
      PROVE  BoardMoves
  BY <1>2, <1>4 DEF Board!Submit, Board!Return, Board!Close, Board!Becomes, BoardMoves
<1>5. CASE UNCHANGED status
  BY <1>2, <1>5 DEF BoardMoves
<1> QED BY <1>1, <1>3, <1>4, <1>5 DEF Board!Next


-----------------------------------------------------------------------------
(* Milestones *)

\* Synchronised milestone files agree with the tasks, if the flags that the session
\* left did: a milestone is integrated when its tasks are closed, and reviewed after it.
LEMMA SyncAgrees ==
    ASSUME TypeOK, TypeOK', MilestonesAgree, BoardMoves,
           NEW i \in [Milestone -> BOOLEAN], NEW r \in [Milestone -> BOOLEAN], Sync(i, r),
           \A t \in ExistingTasks : taskMilestone'[t] = taskMilestone[t],
           \A m \in Milestone : i[m] => TasksFor(m) \subseteq ClosedTasks,
           \A m \in Milestone : r[m] => i[m]
    PROVE  MilestonesAgree'
<1> DEFINE listed(m) == {t \in Task : status'[t] # "absent" /\ taskMilestone'[t] = m}
<1>1. \A m \in Milestone : TasksFor(m)' = listed(m)
  BY DEF TasksFor, ExistingTasks
<1>2. \A m \in Milestone : TasksFor(m) \subseteq listed(m)
  BY DEF TasksFor, ExistingTasks, BoardMoves
<1>3. \A m \in Milestone : /\ knownTasks'[m] = knownTasks[m] \cup listed(m)
                           /\ integrated'[m] = (i[m] /\ listed(m) \subseteq knownTasks[m])
                           /\ reviewed'[m] = (r[m] /\ ~(i[m] /\ ~(listed(m) \subseteq knownTasks[m])))
  BY DEF Sync
<1> HIDE DEF listed
<1>4. KnownAreListed'
  <2>1. ASSUME NEW m \in Milestone PROVE knownTasks'[m] = TasksFor(m)'
    <3>1. knownTasks[m] \subseteq listed(m) /\ knownTasks'[m] = knownTasks[m] \cup listed(m)
      BY <1>2, <1>3 DEF KnownAreListed, MilestonesAgree
    <3>2. knownTasks'[m] = listed(m)
      BY <3>1
    <3> QED BY <1>1, <3>2
  <2> QED BY <2>1 DEF KnownAreListed
<1>5. ASSUME NEW m \in Milestone, integrated'[m]
      PROVE  TasksFor(m)' \subseteq knownTasks'[m] \cap ClosedTasks'
  <2>1. i[m] /\ listed(m) \subseteq TasksFor(m)
    BY <1>3, <1>5 DEF KnownAreListed, MilestonesAgree
  <2>2. listed(m) \subseteq ClosedTasks
    BY <2>1
  <2>3. ClosedTasks \subseteq ClosedTasks'
    BY DEF ClosedTasks, BoardMoves
  <2> QED BY <1>1, <1>3, <2>2, <2>3
<1>6. ASSUME NEW m \in Milestone, reviewed'[m]
      PROVE  integrated'[m]
  BY <1>3, <1>6
<1> QED BY <1>4, <1>5, <1>6 DEF MilestonesAgree, IntegrationIsCurrent

\* The flags that most sessions leave are those that were there.
LEMMA FlagsAgree ==
    ASSUME TypeOK, MilestonesAgree
    PROVE  /\ integrated \in [Milestone -> BOOLEAN] /\ reviewed \in [Milestone -> BOOLEAN]
           /\ \A m \in Milestone : integrated[m] => TasksFor(m) \subseteq ClosedTasks
           /\ \A m \in Milestone : reviewed[m] => integrated[m]
BY DEF TypeOK, WorkspaceTypeOK, MilestonesAgree, IntegrationIsCurrent

\* An architect reviews a milestone and may raise a finding; no list and no task changes.
LEMMA ArchitectAgrees ==
    ASSUME IInv, IInv', BoardMoves, MilestonesAgree, Architect
    PROVE  MilestonesAgree'
<1> PICK outcome \in SessionOutcomes, writes \in BOOLEAN, issues \in BOOLEAN,
         changed \in BOOLEAN : ArchitectSession(outcome, writes, issues, changed)
  BY DEF Architect
<1> DEFINE m0 == First(ArchitectureReviewQueue)
<1>1. UNCHANGED taskVars
  BY DEF ArchitectSession
<1>2. \/ Sync(integrated, reviewed)
      \/ ArchitectureReviewQueue # {} /\ Sync(integrated, ArchitectureReviewed(m0))
  BY DEF ArchitectSession
<1>3. ArchitectureReviewQueue # {} =>
        m0 \in Milestone /\ integrated[m0]
  <2>1. ArchitectureReviewQueue \in SUBSET Nat
    BY WorkspaceAssumption DEF ArchitectureReviewQueue
  <2> QED BY <2>1, FirstIsMember DEF ArchitectureReviewQueue
<1> HIDE DEF m0
<1>4. \E r \in [Milestone -> BOOLEAN] :
         Sync(integrated, r) /\ \A m \in Milestone : r[m] => integrated[m]
  BY <1>2, <1>3, FlagsAgree DEF ArchitectureReviewed, IInv
<1> QED BY <1>1, <1>4, FlagsAgree, SyncAgrees DEF IInv, taskVars

\* A milestone is marked integrated only when all its tasks, listed by then, are closed.
LEMMA IntegratorAgrees ==
    ASSUME IInv, IInv', BoardMoves, MilestonesAgree, Integrator
    PROVE  MilestonesAgree'
<1> PICK outcome \in SessionOutcomes, issues \in BOOLEAN, changed \in BOOLEAN,
         result \in {"passed", "failed", "unverified"} :
           IntegratorSession(outcome, result, issues, changed)
  BY DEF Integrator
<1> DEFINE m0 == First(IntegrationQueue)
<1>1. UNCHANGED taskVars /\ IntegrationQueue # {}
  <2>1. recovery.stage # "pending_planner" /\ recovery.stage # "pending_developer"
        /\ (run = "revise" => FALSE) /\ AssessState = "integrator"
    BY DEF Integrator, Reaches, SelectedRole, PlanningRoles, IInv, TypeOK
  <2> QED BY <2>1 DEF IntegratorSession, AssessState
<1>2. m0 \in IntegrationQueue
  <2>1. IntegrationQueue \in SUBSET Nat
    BY WorkspaceAssumption DEF IntegrationQueue
  <2> QED BY <1>1, <2>1, FirstIsMember
<1>3. m0 \in Milestone /\ ~integrated[m0] /\ TasksFor(m0) \subseteq ClosedTasks
  BY <1>2, WorkspaceAssumption DEF IntegrationQueue, MilestoneComplete
<1>4. Sync(integrated, reviewed) \/ \E passes \in BOOLEAN : Sync(Integrated(m0, passes), reviewed)
  BY DEF IntegratorSession
<1> HIDE DEF m0
<1>5. ASSUME NEW passes \in BOOLEAN
      PROVE  /\ Integrated(m0, passes) \in [Milestone -> BOOLEAN]
             /\ \A m \in Milestone : Integrated(m0, passes)[m] => TasksFor(m) \subseteq ClosedTasks
             /\ \A m \in Milestone : reviewed[m] => Integrated(m0, passes)[m]
  BY <1>3, FlagsAgree DEF Integrated, IInv
<1> QED BY <1>1, <1>4, <1>5, FlagsAgree, SyncAgrees DEF IInv, taskVars

\* A planner that keeps the milestones of the tasks there are.
LEMMA PlannerAgrees ==
    ASSUME KeepsMilestones, IInv, IInv', BoardMoves, MilestonesAgree, Planner
    PROVE  MilestonesAgree'
<1> PICK outcome \in SessionOutcomes, complete \in BOOLEAN, changed \in BOOLEAN,
         new \in SUBSET (Task \ ExistingTasks),
         revised \in {{}} \cup {{t} : t \in ExistingTasks},
         linked \in SUBSET {f \in Finding : findingStatus[f] # "absent"},
         mapped \in SUBSET {f \in Finding : findingStatus[f] # "absent"},
         boxes \in {"none", "unchecked", "checked"} :
           PlannerSession(outcome, new, revised, linked, mapped, complete, boxes, changed)
  BY Zenon DEF Planner
<1>1. Sync(integrated, reviewed)
  BY DEF PlannerSession
<1>2. \A t \in ExistingTasks : taskMilestone'[t] = taskMilestone[t]
  <2>1. PICK m \in [new -> PlannerMilestones] :
            taskMilestone' = [t \in Task |-> IF t \in new THEN m[t] ELSE taskMilestone[t]]
    <3> DEFINE ms == new \cup (IF "milestone" \in PlannerRewrites THEN revised ELSE {})
    <3>1. \E m \in [ms -> PlannerMilestones] :
            taskMilestone' = [t \in Task |-> IF t \in ms THEN m[t] ELSE taskMilestone[t]]
      BY DEF PlannerSession, WritesTasks
    <3>2. ms = new
      BY DEF KeepsMilestones
    <3> QED BY <3>1, <3>2
  <2> QED BY <2>1 DEF ExistingTasks
<1> QED BY <1>1, <1>2, FlagsAgree, SyncAgrees DEF IInv

\* Developers and reviewers move their task on the board and leave the flags alone.
LEMMA WorkerAgrees ==
    ASSUME IInv, IInv', BoardMoves, MilestonesAgree, Developer \/ Reviewer
    PROVE  MilestonesAgree'
<1>1. Sync(integrated, reviewed) /\ UNCHANGED taskMilestone
  BY DEF Developer, DeveloperSession, Reviewer, ReviewerSession
<1> QED BY <1>1, FlagsAgree, SyncAgrees DEF IInv

\* A validation retry, a doctor and a command write no milestone file.
LEMMA OthersAgree ==
    ASSUME IInv, IInv', BoardMoves, MilestonesAgree,
           Retry \/ Command \/ RunEnds \/ Doctor \/ ResetRecovery \/ UNCHANGED vars
    PROVE  MilestonesAgree'
<1>1. UNCHANGED <<milestoneVars, taskMilestone>>
  BY DEF Retry, RetryValidation, Command, StartRun, RunEnds, Doctor, DoctorSession,
         ResetRecovery, vars, workspaceVars, taskVars
<1>2. \A t \in Task : status[t] = "absent" => status'[t] = "absent"
  <2>1. CASE Retry
    BY <2>1, RetryEffect DEF IInv, TypeOK, WorkspaceTypeOK, ReviewTasks
  <2>2. CASE ~Retry
    BY <2>2, OtherBoard DEF Command, StartRun, RunEnds, Doctor, DoctorSession,
         ResetRecovery, vars, workspaceVars, taskVars
  <2> QED BY <2>1, <2>2
<1>3. \A m \in Milestone : TasksFor(m)' = TasksFor(m)
  BY <1>1, <1>2 DEF TasksFor, ExistingTasks, BoardMoves
<1>4. ClosedTasks \subseteq ClosedTasks'
  BY DEF ClosedTasks, BoardMoves
<1> QED BY <1>1, <1>3, <1>4
        DEF MilestonesAgree, KnownAreListed, IntegrationIsCurrent, milestoneVars
\* With planners that leave tasks in their milestone, lists and flags follow the tasks.
LEMMA AgreeStep ==
    ASSUME KeepsMilestones
    PROVE  IInv /\ IInv' /\ MilestonesAgree /\ [Next]_vars => MilestonesAgree'
<1> SUFFICES ASSUME IInv, IInv', MilestonesAgree, [Next]_vars PROVE MilestonesAgree'
  OBVIOUS
<1>1. BoardMoves
  BY NextBoardMoves
<1> QED BY <1>1, ArchitectAgrees, IntegratorAgrees, PlannerAgrees, WorkerAgrees, OthersAgree
        DEF Next

\* A new workspace has no milestone.
LEMMA InitAgrees == Init => MilestonesAgree
BY DEF Init, WorkspaceInit, MilestonesAgree, KnownAreListed, IntegrationIsCurrent, TasksFor,
       ExistingTasks

\* Where planners leave tasks in their milestones, the milestone files list their tasks.
THEOREM MilestonesStayAgreed ==
    ASSUME KeepsMilestones
    PROVE  Spec => []MilestonesAgree
BY InitAgrees, AgreeStep, Inductive, PTL DEF Spec

\* An integrated milestone has closed tasks only and lists them all, whatever tasks arrive
\* after its integration (upsert_from_tasks).
THEOREM IntegrationStaysCurrent ==
    ASSUME KeepsMilestones
    PROVE  Spec => []IntegrationIsCurrent
<1>1. MilestonesAgree => IntegrationIsCurrent
  BY DEF MilestonesAgree
<1> QED BY <1>1, MilestonesStayAgreed, PTL

-----------------------------------------------------------------------------
(* Findings *)

\* A raised finding is open, and no other finding is planned or resolved by it.
LEMMA RaisedIsOpen ==
    ASSUME NEW fs \in [Finding -> FindingStatuses], CanRaise(fs)
    PROVE  \A f \in Finding : Raised(fs)[f] = "planned" => fs[f] = "planned"
BY DEF Raised

\* A finding that is still planned when the findings of a set have been looked at has a task
\* that is not closed, if it belongs to the set and any task addresses it.
LEMMA UnresolvedHasWork ==
    ASSUME NEW F \in SUBSET Finding, NEW fs, NEW st, NEW addr, NEW f \in F,
           ResolveIfComplete(F, fs, st, addr)[f] = "planned",
           AddressingTasks(f, st, addr) # {}
    PROVE  \E t \in Task : st[t] \notin {"absent", "closed"} /\ f \in addr[t]
BY DEF ResolveIfComplete, AddressingTasks

\* Findings that stay as they are keep their tasks, unless one of them is closed.
LEMMA WorkRemains ==
    ASSUME IInv, PlannedFindingHasWork, BoardMoves, UNCHANGED addresses,
           \A t \in Task : status[t] # "closed" => status'[t] # "closed",
           \A f \in Finding : findingStatus'[f] = "planned" => findingStatus[f] = "planned"
    PROVE  PlannedFindingHasWork'
BY DEF PlannedFindingHasWork, ExistingTasks, BoardMoves

\* A planner that keeps what its tasks address plans a finding only for work there is.
LEMMA PlannerHasWork ==
    ASSUME KeepsFindings, IInv, BoardMoves, PlannedFindingHasWork, Planner
    PROVE  PlannedFindingHasWork'
<1> PICK outcome \in SessionOutcomes, complete \in BOOLEAN, changed \in BOOLEAN,
         new \in SUBSET (Task \ ExistingTasks),
         revised \in {{}} \cup {{t} : t \in ExistingTasks},
         linked \in SUBSET {f \in Finding : findingStatus[f] # "absent"},
         mapped \in SUBSET {f \in Finding : findingStatus[f] # "absent"},
         boxes \in {"none", "unchecked", "checked"} :
           PlannerSession(outcome, new, revised, linked, mapped, complete, boxes, changed)
  BY Zenon DEF Planner
<1>1. \A t \in Task : status[t] # "absent" => status'[t] = status[t]
  BY DEF PlannerSession, CreatesTasks, ExistingTasks
<1>2. \A t \in ExistingTasks : addresses[t] \subseteq addresses'[t]
  BY DEF PlannerSession, WritesTasks, KeepsFindings, ExistingTasks
<1>3. ASSUME NEW f \in Finding, findingStatus[f] = "planned"
      PROVE  \E t \in ExistingTasks' : f \in addresses'[t] /\ status'[t] # "closed"
  BY <1>1, <1>2, <1>3 DEF PlannedFindingHasWork, ExistingTasks
<1>4. CASE UNCHANGED findingStatus
  BY <1>3, <1>4 DEF PlannedFindingHasWork
<1>5. CASE MapsFindings(mapped)
  <2> SUFFICES ASSUME NEW f \in Finding, findingStatus'[f] = "planned"
               PROVE  \E t \in ExistingTasks' : f \in addresses'[t] /\ status'[t] # "closed"
    BY DEF PlannedFindingHasWork
  <2>1. findingStatus' =
          ResolveIfComplete(mapped, Planned(mapped, findingStatus), status', addresses')
    BY <1>5 DEF MapsFindings
  <2>2. CASE f \in mapped
    <3>1. AddressingTasks(f, status', addresses') # {}
      BY <1>5, <2>2 DEF MapsFindings, AddressingTasks
    <3>2. \E t \in Task : status'[t] \notin {"absent", "closed"} /\ f \in addresses'[t]
      <4> DEFINE planned == Planned(mapped, findingStatus)
      <4>1. ResolveIfComplete(mapped, planned, status', addresses')[f] = "planned"
            /\ mapped \in SUBSET Finding
        BY <2>1
      <4> HIDE DEF planned
      <4> QED BY <2>2, <3>1, <4>1, UnresolvedHasWork
    <3> QED BY <3>2 DEF ExistingTasks
  <2>3. CASE f \notin mapped
    BY <1>3, <2>1, <2>3 DEF ResolveIfComplete, Planned
  <2> QED BY <2>2, <2>3
<1> QED BY <1>4, <1>5 DEF PlannerSession

\* The review that closes the last task of a planned finding resolves the finding.
LEMMA ReviewerHasWork ==
    ASSUME IInv, BoardMoves, PlannedFindingHasWork, Reviewer
    PROVE  PlannedFindingHasWork'
<1> DEFINE t == First(ReviewTasks)
<1> PICK outcome \in SessionOutcomes, result \in Outcomes, approves \in BOOLEAN,
         complete \in BOOLEAN, issues \in BOOLEAN, changed \in BOOLEAN :
           ReviewerSession(t, outcome, result, approves, complete, issues, changed)
  BY Zenon DEF Reviewer
<1> DEFINE verdict == IF outcome = "paused" THEN "in_review"
                      ELSE ReviewStatus(result, approves, issues)
<1>1. t \in Task /\ status[t] = "in_review"
  BY ReviewerHasTask DEF Reviewer, ReviewTasks
<1> HIDE DEF t
<1>2. /\ status' = [status EXCEPT ![t] = verdict] /\ UNCHANGED addresses
      /\ findingStatus' = IF verdict = "closed"
                          THEN ResolveIfComplete(addresses[t], findingStatus, status', addresses)
                          ELSE findingStatus
      /\ verdict \in {"in_review", "changes_requested", "closed"}
  BY DEF ReviewerSession, WithStatus, ReviewStatus
<1> HIDE DEF verdict
<1>3. status \in [Task -> Statuses] /\ addresses[t] \in SUBSET Finding
  BY <1>1 DEF IInv, TypeOK, WorkspaceTypeOK
<1>4. CASE verdict # "closed"
  BY <1>1, <1>2, <1>3, <1>4, WorkRemains
<1>5. CASE verdict = "closed"
  <2> SUFFICES ASSUME NEW f \in Finding, findingStatus'[f] = "planned"
               PROVE  \E u \in ExistingTasks' : f \in addresses'[u] /\ status'[u] # "closed"
    BY DEF PlannedFindingHasWork
  <2>1. findingStatus' = ResolveIfComplete(addresses[t], findingStatus, status', addresses)
    BY <1>2, <1>5
  <2>2. CASE f \in addresses[t]
    <3>1. AddressingTasks(f, status', addresses) # {}
      BY <1>1, <1>2, <1>3, <1>5, <2>2 DEF AddressingTasks
    <3>2. \E u \in Task : status'[u] \notin {"absent", "closed"} /\ f \in addresses[u]
      BY <1>3, <2>1, <2>2, <3>1, UnresolvedHasWork
    <3> QED BY <1>2, <3>2 DEF ExistingTasks
  <2>3. CASE f \notin addresses[t]
    <3>1. findingStatus[f] = "planned"
      BY <2>1, <2>3 DEF ResolveIfComplete
    <3>2. PICK u \in ExistingTasks : f \in addresses[u] /\ status[u] # "closed"
      BY <3>1 DEF PlannedFindingHasWork
    <3>3. u # t /\ status'[u] = status[u]
      BY <1>2, <1>3, <2>3, <3>2 DEF ExistingTasks
    <3> QED BY <1>2, <3>2, <3>3 DEF ExistingTasks
  <2> QED BY <2>2, <2>3
<1> QED BY <1>4, <1>5

\* No other step closes a task or plans a finding.
LEMMA OthersHaveWork ==
    ASSUME IInv, BoardMoves, PlannedFindingHasWork, [Next]_vars, ~Planner, ~Reviewer
    PROVE  PlannedFindingHasWork'
<1>1. UNCHANGED addresses
  BY DEF Next, Command, StartRun, RunEnds, Architect, ArchitectSession, Developer,
         DeveloperSession, Integrator, IntegratorSession, Retry, RetryValidation, Doctor,
         DoctorSession, ResetRecovery, vars, workspaceVars, taskVars
<1>2. \A t \in Task : status[t] # "closed" => status'[t] # "closed"
  BY OnlyReviewerCloses DEF Closes
<1>3. \A f \in Finding : findingStatus'[f] = "planned" => findingStatus[f] = "planned"
  <2>1. CASE UNCHANGED findingStatus
    BY <2>1
  <2>2. CASE CanRaise(findingStatus) /\ findingStatus' = Raised(findingStatus)
    BY <2>2, RaisedIsOpen DEF IInv, TypeOK, WorkspaceTypeOK
  <2>3. CASE Architect
    BY <2>1, <2>2, <2>3 DEF Architect, ArchitectSession
  <2>4. CASE Integrator
    BY <2>1, <2>2, <2>4 DEF Integrator, IntegratorSession
  <2>5. CASE ~Architect /\ ~Integrator
    <3>1. UNCHANGED findingStatus
      BY <2>5 DEF Next, Command, StartRun, RunEnds, Developer, DeveloperSession, Retry,
             RetryValidation, Doctor, DoctorSession, ResetRecovery, vars, workspaceVars
    <3> QED BY <2>1, <3>1
  <2> QED BY <2>3, <2>4, <2>5
<1> QED BY <1>1, <1>2, <1>3, WorkRemains

\* A new workspace has no finding.
LEMMA InitHasWork == Init => PlannedFindingHasWork
BY DEF Init, WorkspaceInit, PlannedFindingHasWork

\* With planners that leave findings in their lists, a planned finding keeps an open task.
LEMMA WorkStep ==
    ASSUME KeepsFindings
    PROVE  IInv /\ PlannedFindingHasWork /\ [Next]_vars => PlannedFindingHasWork'
BY NextBoardMoves, PlannerHasWork, ReviewerHasWork, OthersHaveWork

\* A planned finding waits for a task that is not closed, wherever planners only add to the
\* findings that a task addresses (resolve_if_complete).
THEOREM PlannedFindingsHaveWork ==
    ASSUME KeepsFindings
    PROVE  Spec => []PlannedFindingHasWork
BY InitHasWork, WorkStep, Inductive, PTL DEF Spec

-----------------------------------------------------------------------------
(* The end of the workflow *)

\* A run that stops as complete leaves no task, no finding and no milestone behind.
LEMMA NothingIsLeft ==
    ASSUME IInv, MilestonesAgree, PlannedFindingHasWork
    PROVE  CompleteLeavesNothing
<1> SUFFICES ASSUME AssessState = "none", BlockedTasks = {}, ExistingTasks # {}
             PROVE  /\ ExistingTasks \subseteq ClosedTasks
                    /\ \A f \in Finding : findingStatus[f] \in {"absent", "resolved"}
                    /\ \A m \in Required : TasksFor(m) # {} => integrated[m] /\ reviewed[m]
  BY DEF CompleteLeavesNothing
<1>1. /\ ReviewTasks = {} /\ OpenFindings = {} /\ ArchitectureReviewQueue = {}
      /\ IntegrationQueue = {} /\ EligibleTasks = {}
  BY DEF AssessState
<1>2. ExistingTasks \subseteq ClosedTasks
  <2> SUFFICES ASSUME NEW t \in Task, status[t] # "absent" PROVE status[t] = "closed"
    BY DEF ExistingTasks, ClosedTasks
  <2>1. status[t] \in Statuses /\ status[t] # "in_review"
    BY <1>1 DEF ReviewTasks, IInv, TypeOK, WorkspaceTypeOK
  <2>2. ~Developable(t)
    BY <1>1 DEF EligibleTasks, BlockedTasks
  <2> QED BY <2>1, <2>2 DEF Developable, Statuses
<1>3. ASSUME NEW f \in Finding PROVE findingStatus[f] \in {"absent", "resolved"}
  <2>1. findingStatus[f] \in FindingStatuses /\ findingStatus[f] # "open"
    BY <1>1 DEF OpenFindings, IInv, TypeOK, WorkspaceTypeOK
  <2>2. findingStatus[f] # "planned"
    BY <1>2 DEF PlannedFindingHasWork, ClosedTasks
  <2> QED BY <2>1, <2>2 DEF FindingStatuses
<1>4. ASSUME NEW m \in Required, TasksFor(m) # {} PROVE integrated[m] /\ reviewed[m]
  <2>1. m \in Milestone /\ knownTasks[m] # {}
    BY <1>4, WorkspaceAssumption DEF MilestonesAgree, KnownAreListed
  <2>2. MilestoneComplete(m)
    BY <1>2, <1>4 DEF MilestoneComplete, TasksFor
  <2>3. integrated[m]
    BY <1>1, <2>1, <2>2 DEF IntegrationQueue
  <2> QED BY <1>1, <2>1, <2>3 DEF ArchitectureReviewQueue
<1> QED BY <1>2, <1>3, <1>4

\* The run loop reports completion only when every task is closed, every finding resolved,
\* every required milestone integrated and every integration reviewed (assess_state).
THEOREM CompletionLeavesNothing ==
    ASSUME KeepsMilestones, KeepsFindings
    PROVE  Spec => []CompleteLeavesNothing
BY NothingIsLeft, MilestonesStayAgreed, PlannedFindingsHaveWork, Inductive, PTL
=============================================================================
