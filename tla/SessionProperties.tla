------------------------- MODULE SessionProperties -------------------------
(***************************************************************************)
(* What holds of sessions, their results and the commits they end in.      *)
(***************************************************************************)
EXTENDS Session

Accounted == {"passed"} \cup Unvalidated

Committed == INSTANCE CommittedWork WITH
    stage <- head.stage,
    record <- head.record,
    awaits <- (head.blocker \in {Blocker(role, "validation") : role \in {"developer", "reviewer"}}),
    edits <- head.edits,
    tagged <- tagged

\* HEAD holds whole sessions: however a run is interrupted, discarded and continued, no commit
\* takes in the edits of a session whose result was not processed, and the task moves by one
\* session at a time (the clean worktree asked for, commit_all, the discard).
KeepsAtomicity == Committed!Spec

\* The result that is applied is one submitted under the identity of the running session, with
\* its handoff in place, though a process of an earlier session may still be submitting into
\* the same directory (load_accepted_result, publish_accepted_result).
AppliesWholeResult ==
    [][pc = "accept" /\ pc' = "process" =>
         /\ tree.artifacts.result.session = run.session
         /\ tree.artifacts.handoff # None]_vars

\* What a correction invocation does to the product never reaches a commit, and it checks
\* acceptance boxes only if these were what the refusal asked for.
CorrectionIsBookkeeping ==
    (pc = "accept" /\ corrected # None) =>
        /\ tree.edits = corrected.files.edits
        /\ tree.boxes = corrected.files.boxes \/ (tree.boxes /\ corrected.semantic)

\* No reviewer begins with content whose validation failed, could not run or is still to come:
\* across commits, crashes and retries the task is validated first, the two ways named by
\* Unvalidated apart.
ReviewIsGated ==
    [][pc = "prepare" /\ pc' = "agent" /\ run.role = "reviewer" => tree.record \in Accounted]_vars

\* A commit that the operator makes before the discard of an interrupted session is confirmed
\* survives it (the proposal is compared with HEAD again).
KeepsOperatorsCommits ==
    [][pc = "idle" /\ pc' = "idle" /\ head.own = "early" => head'.own = "early"]_vars

\* Executable configuration that a task's sessions changed is not used beyond that task: no
\* integrator starts with it until the operator has authorised it.
AsksAgain ==
    [][pc = "prepare" /\ pc' = "agent" /\ tree.configured => run.role # "integrator"]_vars

-----------------------------------------------------------------------------
(* Progress, once everything goes well *)

AgentDelivers ==
    /\ AgentWorks
    /\ tree'.boxes
    /\ HasResult(tree.artifacts) \/ tree'.artifacts.candidate = "completed"
    /\ tree'.configured = tree.configured

Delivered == tree.boxes /\ (HasResult(tree.artifacts) \/ tree.artifacts.candidate = "completed")

SessionGoesWell ==
    \/ StartSession \/ AgentDelivers \/ (AgentSucceeds /\ Delivered)
    \/ (SubmitHandoff /\ pc' = "accept") \/ CorrectionEnds
    \/ AcceptResult \/ (RejectResult /\ ~OwnResult)
    \/ ProcessDeveloper
    \/ (ProcessReviewer /\ (pc' = "validate" \/ tree'.stage = "integrate"))
    \/ (ProcessIntegrator /\ tree'.stage = "done")
    \/ (ValidateTask /\ tree'.record = "passed")
    \/ Commit \/ CreateTag

RunGoesOn ==
    \/ StartRun \/ (BeginLoop /\ (MayProceed => pc' = "retry"))
    \/ NoRetry \/ RetryBegins \/ (RetryRuns /\ tree'.record = "passed")
    \/ WorkflowDone \/ SelectRole \/ PrerequisiteResolved

OperatorHelps == ProposeDiscard \/ ConfirmDiscard \/ DiscardInterrupted

Helpful == RunGoesOn \/ SessionGoesWell \/ OperatorHelps \/ PublishSubmission \/ SubmissionDies

\* From some time on nothing fails any more, agents deliver, and the operator continues.
FairSpec == Spec /\ <>[][Helpful]_vars /\ WF_vars(Helpful)

\* Whatever was interrupted, refused, blocked or left behind before: the operator can always
\* bring the work to its end with continue and its discard alone.
WorkIsFinished == <>[](head.stage = "done" /\ Clean)
=============================================================================
