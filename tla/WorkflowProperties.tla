------------------------- MODULE WorkflowProperties -------------------------
(***************************************************************************)
(* What the workflow of module Workflow must keep true, whatever agents    *)
(* and operators do within the rules of their roles.                       *)
(***************************************************************************)
EXTENDS Workflow

Pending == recovery.stage \in {"pending_doctor", "pending_planner", "pending_developer"}

-----------------------------------------------------------------------------
(* Safety *)

\* One task at most awaits review, and while a doctor recovery is pending no
\* other task than the recovered one does.  A reviewer's result is applied to
\* the first task in review, not to the task its session was given
\* (_process_reviewer_handoff), so a second one could be closed unread.
SingleReview ==
    /\ \A t, u \in ReviewTasks : t = u
    /\ Pending => ReviewTasks \subseteq {recovery.task}

\* An integrated milestone has only closed tasks and its file lists them all;
\* an architecture review is of an integrated milestone.  Tasks that arrive
\* after the integration must reopen the milestone (upsert_from_tasks).
IntegrationIsCurrent ==
    \A m \in Milestone :
        /\ integrated[m] => TasksFor(m) \subseteq knownTasks[m] \cap ClosedTasks
        /\ reviewed[m] => integrated[m]

\* A planned finding waits for an open task that addresses it; otherwise no
\* event of the workflow would resolve it (resolve_if_complete is called only
\* by a planner's mapping and by the closing of an addressing task).
PlannedFindingHasWork ==
    \A f \in Finding : findingStatus[f] = "planned" =>
        \E t \in ExistingTasks : f \in addresses[t] /\ status[t] # "closed"

\* assess_state ends the run as complete only when nothing is left to do: every
\* task closed, every finding resolved, every milestone that still has tasks and
\* requires it integrated, and every integrated one reviewed.
CompleteLeavesNothing ==
    AssessState = "none" /\ BlockedTasks = {} /\ ExistingTasks # {} =>
        /\ ExistingTasks \subseteq ClosedTasks
        /\ \A f \in Finding : findingStatus[f] \in {"absent", "resolved"}
        /\ \A m \in Required : TasksFor(m) # {} => integrated[m] /\ reviewed[m]

-----------------------------------------------------------------------------
(* What a step may never do *)

Closes(t) == status[t] # "closed" /\ status'[t] = "closed"

\* A task closes only from review, its latest validation neither failed nor
\* unverified, and if the reviewer relied on a recorded validation, on content
\* that this validation or a newer one has passed.
ClosureIsValidated ==
    [][\A t \in Task : Closes(t) =>
          /\ status[t] = "in_review"
          /\ evidence'[t] \notin {"failed", "unverified"}
          /\ t \in current => t \in current']_vars

\* A recovery keeps its task and goes through the doctor, at most one planner
\* and at most one developer; it is over when that developer's work awaits
\* review without a failed validation, or the operator resets it.
RecoveryIsBounded ==
    [][recovery' # recovery =>
          \/ recovery.stage = "none" /\ recovery'.stage = "pending_doctor"
          \/ /\ recovery'.task = recovery.task
             /\ <<recovery.stage, recovery'.stage>> \in
                   {<<"pending_doctor", "pending_planner">>,
                    <<"pending_doctor", "pending_developer">>,
                    <<"pending_doctor", "blocked">>,
                    <<"pending_planner", "pending_developer">>,
                    <<"pending_planner", "blocked">>,
                    <<"pending_developer", "blocked">>}
          \/ /\ recovery.stage = "pending_developer" /\ recovery' = NoRecovery
             /\ status'[recovery.task] = "in_review"
             /\ evidence'[recovery.task] \in {"passed", "none"}
          \/ recovery.stage = "blocked" /\ recovery' = NoRecovery /\ run = "retry"]_vars

\* The sessions, validations and recoveries together implement the task board:
\* the status column of the task files never moves in another way.
Board == INSTANCE TaskBoard
KeepsTaskBoard == Board!Spec

-----------------------------------------------------------------------------
(* What the documents say, and the code does not keep *)

\* "configured validation is the durable workflow gate" (docs/design.md:176):
\* a task with configured commands is closed only after they passed.
ClosedOnlyValidated ==
    \A t \in Configured : status[t] = "closed" => evidence[t] = "passed"

\* "Run planning sessions and stop before implementation." (cli.py, plan): a
\* plan --revise run never submits a task for review.
ReviseOnlyPlans ==
    [][run = "revise" => \A t \in Task : status'[t] = "in_review" => status[t] = "in_review"]_vars

\* "Developer sessions work on exactly one eligible task." and an eligible task
\* has "all dependencies closed" (docs/operator-guide.md:732-735).
DevelopsEligibleTask ==
    [][\A t \in Task : Developable(t) /\ status'[t] = "in_review" => t \in EligibleTasks]_vars

=============================================================================
