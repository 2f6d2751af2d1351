-------------------------- MODULE WorkflowLiveness --------------------------
(***************************************************************************)
(* What the workflow eventually does.  The orchestrator itself only waits: *)
(* every step is caused by an operator's command or a result of an agent,  *)
(* a validation or a doctor.  Fairness is therefore an assumption on them, *)
(* one strong fairness condition per kind of result: what is possible      *)
(* infinitely often happens sometimes, in any order with everything else.  *)
(***************************************************************************)
EXTENDS WorkflowProperties

-----------------------------------------------------------------------------
(* Recovery: operators continue, and nothing is interrupted for ever *)

Continues == StartRun("implement")
DoctorReports == Doctor

\* The planner ends a session with a result, rather than a question.
PlannerAnswers ==
    /\ Reaches("planner")
    /\ \E outcome \in {"completed", "failed"}, revised \in {{}} \cup {{t} : t \in ExistingTasks},
          new \in SUBSET (Task \ ExistingTasks), complete \in BOOLEAN :
          PlannerSession(outcome, new, revised, {}, {}, complete, planBoxes, FALSE)

\* The developer ends a session with a result, and validation can run.
DeveloperAnswers ==
    /\ Reaches("developer")
    /\ \E outcome \in {"completed", "failed"}, complete, changed \in BOOLEAN :
       \E result \in ValidationResults(DeveloperTask, outcome) \ {"unverified"} :
          DeveloperSession(DeveloperTask, outcome, result, complete, changed)

RetryAnswers == \E result \in {"passed", "failed"} : RetryValidation(result)

\* A run ends by itself: it has a session limit (max_sessions).
RecoverySpec ==
    /\ Spec
    /\ WF_vars(RunEnds)
    /\ SF_vars(Continues)
    /\ SF_vars(DoctorReports)
    /\ SF_vars(PlannerAnswers)
    /\ SF_vars(DeveloperAnswers)
    /\ SF_vars(RetryAnswers)

\* Every recovery comes to an end, solved or blocked for the operator, whatever
\* the doctor proposes and however well the planner and the developer do.
RecoveryEnds == Pending ~> ~Pending

-----------------------------------------------------------------------------
(* Completion: agents sometimes do well *)

Retries == StartRun("retry")

ArchitectDelivers == Reaches("architect") /\ ArchitectSession("completed", TRUE, FALSE, FALSE)

\* The planner leaves tasks, and maps every open finding to one.
PlannerDelivers ==
    /\ Reaches("planner")
    /\ \E new \in SUBSET (Task \ ExistingTasks), revised \in {{}} \cup {{t} : t \in ExistingTasks} :
          /\ new \cup ExistingTasks # {}
          /\ PlannerSession("completed", new, revised, OpenFindings, OpenFindings, TRUE, planBoxes, FALSE)

DeveloperDelivers ==
    /\ Reaches("developer")
    /\ \E result \in {"passed", "not_configured"} \cap ValidationResults(DeveloperTask, "completed") :
          DeveloperSession(DeveloperTask, "completed", result, TRUE, TRUE)

ReviewerApproves ==
    /\ Reaches("reviewer")
    /\ ReviewerSession(First(ReviewTasks), "completed", "none", TRUE, TRUE, FALSE, FALSE)

IntegratorDelivers ==
    Reaches("integrator") /\ IntegratorSession("completed", "passed", FALSE, FALSE)

CompletionSpec ==
    /\ Spec
    /\ WF_vars(RunEnds)
    /\ SF_vars(Continues) /\ SF_vars(Retries)
    /\ SF_vars(ArchitectDelivers) /\ SF_vars(PlannerDelivers)
    /\ SF_vars(DeveloperDelivers) /\ SF_vars(ReviewerApproves)
    /\ SF_vars(IntegratorDelivers) /\ SF_vars(RetryValidation("passed"))
    /\ SF_vars(DoctorSession("retry_developer")) /\ SF_vars(ResetRecovery)

\* The workflow reaches the end: no sequence of failures, rejections, findings,
\* recoveries and stopped tasks leaves it in a state from which agents that do
\* well and an operator who continues cannot finish.
WorkflowFinishes == <>(AssessState = "none")

=============================================================================
