------------------------------ MODULE Session ------------------------------
(***************************************************************************)
(* Role sessions between two commits.  The workspace is a worktree over    *)
(* the last commit: a run resolves prerequisites, opens a session, invokes *)
(* the agent, accepts its result, applies it, validates, commits and tags, *)
(* and may be interrupted at each of these steps.  The operator discards   *)
(* what an interrupted session left and continues.  The workflow is one    *)
(* task of one milestone, reduced to the stage it is in.                   *)
(***************************************************************************)
EXTENDS Submission, Validation, Prerequisites, FiniteSets

CONSTANTS
    Operations,      \* prerequisite operations, in the order of their checks
    MaxInFlight      \* bound: submissions whose steps interleave

ASSUME SessionAssumption ==
    /\ Operations \in Seq({"session", "setup", "validation"})
    /\ MaxInFlight \in Nat
    /\ None \notin Roles \cup [role : Roles, operation : {"session", "setup", "validation"}]

VARIABLES
    tree,            \* the worktree
    head,            \* the last commit
    tagged,          \* the milestone's tag exists
    pc,              \* what the run does next
    run,             \* what the running process remembers
    submissions,     \* submissions in progress
    proposal,        \* a discard the operator was offered, confirmed or not
    corrected        \* history: the worktree before a correction, None without one

vars == <<tree, head, tagged, pc, run, submissions, proposal, corrected>>
repository == <<tree, head, tagged>>

Stages == {"develop", "review", "integrate", "done"}

\* What is known of the task's content: nothing yet, or nothing although it may be reviewed
\* (the developer failed; a retry began after a blocker), or the result of a validation.
Unvalidated == {"skipped", "retried"}
Records == {"none", "passed", "failed", "unverified"} \cup Unvalidated

RoleOf == [stage \in {"develop", "review", "integrate"} |->
    IF stage = "develop" THEN "developer"
    ELSE IF stage = "review" THEN "reviewer" ELSE "integrator"]

Blocker(role, operation) == [role |-> role, operation |-> operation]

\* edits: sessions whose edits are in the workspace and whose result was not processed;
\* own: the operator committed since the last run, early or during a discard;
\* configured: the executable configuration is not the one the run was authorised for.
Workspaces ==
    [stage : Stages, boxes : BOOLEAN, record : Records, ready : BOOLEAN,
     blocker : [role : Roles, operation : {"session", "setup", "validation"}] \cup {None},
     edits : SUBSET Sessions, own : {"none", "early", "late"}, configured : BOOLEAN, artifacts : Artifacts]

Phases == {"idle", "loop", "retry", "validating", "select", "prepare", "start", "agent", "handoff",
           "correction", "accept", "process", "validate", "commit", "tag"}

NoRun == [role |-> None, session |-> None, step |-> 0, outcome |-> "invalid",
          evidence |-> FALSE]

TypeOK ==
    /\ tree \in Workspaces /\ head \in Workspaces /\ tagged \in BOOLEAN
    /\ pc \in Phases
    /\ run \in [role : Roles \cup {None}, session : Sessions \cup {None}, step : Nat,
                outcome : Candidates, evidence : BOOLEAN]
    /\ submissions \subseteq Submissions
    /\ proposal = None \/ proposal \in [head : Workspaces, resetting : BOOLEAN]
    /\ corrected = None \/ corrected \in [files : Workspaces, semantic : BOOLEAN]
    /\ pc = "idle" => run = NoRun
    /\ corrected # None => pc \in {"correction", "accept"}

InitialWorkspace ==
    [stage |-> "develop", boxes |-> FALSE, record |-> "none", ready |-> FALSE, blocker |-> None,
     edits |-> {}, own |-> "none", configured |-> FALSE,
     artifacts |-> EmptyArtifacts]

Init ==
    /\ tree = InitialWorkspace /\ head = tree /\ tagged = FALSE
    /\ pc = "idle" /\ run = NoRun
    /\ submissions = {} /\ proposal = None /\ corrected = None

\* Mutant of Clean: files that are not yet tracked are not looked at.
CleanTracked == [tree EXCEPT !.artifacts = head.artifacts, !.edits = head.edits] = head

Clean == tree = head

-----------------------------------------------------------------------------
(* What the steps of a run do to the repository *)

\* Everything in the worktree is committed; of the submission's files nothing is read again.
Commits(workspace) ==
    /\ tree' = [workspace EXCEPT !.artifacts = EmptyArtifacts]
    /\ head' = tree'

Leaves(workspace) == tree' = workspace /\ UNCHANGED head

Stops == pc' = "idle" /\ run' = NoRun /\ corrected' = None

\* A run that ends in between leaves its files; the submission's are not read again.
Fails ==
    /\ Leaves([tree EXCEPT !.artifacts = Unfinished(@)])
    /\ Stops

Continues(phase) == pc' = phase /\ UNCHANGED <<run, corrected>>

Elsewhere == UNCHANGED <<tagged, submissions, proposal>>

\* The one blocker record is replaced; nothing is written when it says the same already.
Blocked(role, operation) == [tree EXCEPT !.blocker = Blocker(role, operation)]

Cleared(role, operation) ==
    IF tree.blocker = Blocker(role, operation) THEN [tree EXCEPT !.blocker = None] ELSE tree

\* The places of the operations a role needs, and those that this session has still to resolve.
Needs(role) == {i \in DOMAIN Operations : role = "reviewer" => Operations[i] # "validation"}

Remaining == {i \in Needs(run.role) : run.step <= i}

-----------------------------------------------------------------------------
(* The loop up to a session *)

\* A run begins in a clean worktree with the configuration that was authorised.
StartRun ==
    /\ pc = "idle" /\ proposal = None /\ Clean /\ tree.stage # "done"
    /\ pc' = "loop"
    /\ Commits([tree EXCEPT !.own = "none", !.configured = FALSE])
    /\ UNCHANGED <<run, tagged, submissions, proposal, corrected>>

\* Mutant of ConfigChanged: not compared after the start of the run.
ConfigNeverChanged == FALSE

\* Asked between tasks: not before the first session, and not while the last task is open.
ConfigChanged ==
    /\ run.role = "integrator" \/ (run.role # None /\ tree.stage \notin {"develop", "review"})
    /\ tree.configured

MayProceed == ~ConfigChanged /\ Clean

\* The run goes on, or ends at the limit of its sessions, with an error, or for renewed trust.
BeginLoop ==
    /\ pc = "loop"
    /\ IF MayProceed THEN Continues("retry") \/ (run.role # None /\ Stops) ELSE Stops
    /\ Elsewhere /\ UNCHANGED <<tree, head>>

\* Mutant of NeedsRetry: a blocker does not count, a record does.
NeedsRetryOnRecord == tree.stage = "review" /\ tree.record \in {"failed", "unverified"}

NeedsRetry ==
    /\ tree.stage = "review"
    /\ \/ tree.blocker \in {Blocker(role, "validation") : role \in {"developer", "reviewer"}}
       \/ tree.record \in {"failed", "unverified"}

NoRetry ==
    /\ pc = "retry" /\ ~NeedsRetry
    /\ Continues("select")
    /\ Elsewhere /\ UNCHANGED <<tree, head>>

\* A prerequisite may be found satisfied or not each time; the host changes at any time.
RetryBlocked ==
    /\ pc = "retry" /\ NeedsRetry
    /\ \E resolution \in Resolutions : resolution = "blocked"
    /\ Commits(Blocked("developer", "validation"))
    /\ Stops /\ Elsewhere

\* Without a record nothing else says that the task is to be validated.
Unmarked(workspace) ==
    [workspace EXCEPT !.record = IF @ = "none" THEN "retried" ELSE @]

\* The blocker is cleared, and this is committed, before the commands run.
RetryBegins ==
    /\ pc = "retry" /\ NeedsRetry
    /\ LET cleared == Cleared("developer", "validation")
       IN  IF cleared = tree THEN UNCHANGED <<tree, head>> ELSE Commits(Unmarked(cleared))
    /\ Continues("validating") /\ Elsewhere

\* What the run makes of the outcome of a validation.
Settles(outcome) == IF outcome \in {"passed", "failed"} THEN outcome ELSE "unverified"

\* A pass or a failure stays uncommitted until the next commit of the run.
RetryRuns ==
    /\ pc = "validating"
    /\ \E record \in {Settles(outcome) : outcome \in ValidationOutcomes} :
         \/ /\ record = "passed"
            /\ Leaves([tree EXCEPT !.record = record])
            /\ Continues("select")
         \/ /\ record = "failed"
            /\ Leaves([tree EXCEPT !.record = record, !.stage = "develop"])
            /\ Continues("select")
         \/ /\ record = "unverified"
            /\ Commits([tree EXCEPT !.record = record])
            /\ Stops
    /\ Elsewhere

WorkflowDone ==
    /\ pc = "select" /\ tree.stage = "done"
    /\ Stops /\ Elsewhere /\ UNCHANGED <<tree, head>>

\* Before the integrator is routed its milestone is marked ready.
SelectRole ==
    /\ pc = "select" /\ tree.stage # "done"
    /\ LET role == RoleOf[tree.stage]
       IN  /\ run' = [run EXCEPT !.role = role, !.step = 1]
           /\ tree' = IF role = "integrator" THEN [tree EXCEPT !.ready = TRUE] ELSE tree
    /\ pc' = "prepare"
    /\ Elsewhere /\ UNCHANGED <<head, corrected>>

\* An executable that is missing, stale specifications, a preparation that is refused, a test
\* service that fails: the run ends with an error and commits nothing.
RefuseSession ==
    /\ pc \in {"retry", "select", "prepare"}
    /\ pc = "retry" => NeedsRetry
    /\ Fails /\ Elsewhere

Operation == Operations[Least(Remaining)]

PrerequisiteBlocked ==
    /\ pc = "prepare" /\ Remaining # {}
    /\ \E resolution \in Resolutions : resolution = "blocked"
    /\ LET blocked == Blocked(run.role, Operation)
       IN  IF blocked = tree THEN UNCHANGED <<tree, head>> ELSE Commits(blocked)
    /\ Stops /\ Elsewhere

PrerequisiteResolved ==
    /\ pc = "prepare" /\ Remaining # {}
    /\ \E resolution \in Resolutions : resolution = "satisfied"
    /\ LET cleared == Cleared(run.role, Operation)
       IN  IF cleared = tree THEN UNCHANGED <<tree, head>> ELSE Commits(cleared)
    /\ run' = [run EXCEPT !.step = Least(Remaining) + 1]
    /\ Elsewhere /\ UNCHANGED <<pc, corrected>>

-----------------------------------------------------------------------------
(* A session *)

\* Until its result is processed the workflow is in the stage of the session.
Role == RoleOf[tree.stage]

\* All but the files of the submission.
Files == [tree EXCEPT !.artifacts = EmptyArtifacts]

Idle(session) ==
    /\ \A workspace \in {tree, head} :
         /\ session \notin workspace.edits
         /\ workspace.artifacts.envelope # session
    /\ \A submission \in submissions : submission.session # session

\* The directory of the role is made anew; what goes on in another one is left out.  The
\* reviewer is told of a validation that passed.
StartSession ==
    /\ pc = "prepare" /\ Remaining = {}
    /\ \E session \in Sessions : Idle(session)
    /\ LET session == CHOOSE session \in Sessions : Idle(session) IN
         /\ run' = [run EXCEPT !.session = session, !.step = 0,
                    !.evidence = run.role = "reviewer" /\ tree.record = "passed"]
         /\ Leaves([tree EXCEPT !.artifacts = FreshArtifacts(session)])
    /\ submissions' = {submission \in submissions : submission.role = run.role}
    /\ pc' = "agent"
    /\ UNCHANGED <<tagged, proposal, corrected>>

\* The agent may write the product, its candidate, the boxes of the task and configuration.
\* Whether a review or an integration says that it failed decides nothing here.
AgentWorks ==
    /\ pc = "agent"
    /\ \E candidate \in Candidates, boxes \in BOOLEAN, configured \in {tree.configured, TRUE} :
         /\ run.role # "developer" => boxes = tree.boxes /\ candidate # "failed"
         /\ HasResult(tree.artifacts) => candidate = "invalid"
         /\ Leaves([tree EXCEPT !.edits = @ \cup {run.session}, !.boxes = boxes,
                    !.configured = configured, !.artifacts.candidate = candidate])
    /\ Elsewhere /\ UNCHANGED <<pc, run, corrected>>

AgentSucceeds ==
    /\ pc = "agent"
    /\ Continues("handoff") /\ Elsewhere /\ UNCHANGED <<tree, head>>

\* The provider, the setup or the teardown of its environment fails.
AgentFails ==
    /\ pc = "agent"
    /\ Fails /\ Elsewhere

\* The agent, or a process it started, runs session handoff submit; such a process may
\* outlive the agent and the session.
BeginSubmission ==
    /\ pc \in {"agent", "correction"}
    /\ MaySubmit(tree.artifacts) /\ Acceptable(Role, tree.artifacts, tree.boxes)
    /\ Cardinality(submissions) < MaxInFlight
    /\ submissions' = submissions \cup {Submission(Role, tree.artifacts)}
    /\ UNCHANGED <<repository, pc, run, proposal, corrected>>

RefuseSubmission ==
    /\ pc \in {"agent", "correction"}
    /\ MaySubmit(tree.artifacts) /\ ~Acceptable(Role, tree.artifacts, tree.boxes)
    /\ Leaves([tree EXCEPT !.artifacts = WithAttempt(@)])
    /\ UNCHANGED <<tagged, pc, run, submissions, proposal, corrected>>

\* It writes into the directory, whosever session that is by now.  Between two sessions it
\* matters only that the worktree is no longer clean.
PublishSubmission ==
    \E submission \in submissions :
        /\ pc # "idle" \/ Clean
        /\ submissions' = (submissions \ {submission})
                              \cup (IF submission.begun THEN {} ELSE {[submission EXCEPT !.begun = TRUE]})
        /\ Leaves([tree EXCEPT !.artifacts =
                     IF @.envelope = None THEN WithHandoff(@, submission) ELSE Published(@, submission)])
        /\ UNCHANGED <<tagged, pc, run, proposal, corrected>>

SubmissionDies ==
    /\ \E submission \in submissions : submissions' = submissions \ {submission}
    /\ UNCHANGED <<repository, pc, run, proposal, corrected>>

\* The orchestrator submits itself if nobody did; in a run with --handoff-correction a
\* refusal is corrected once.
SubmitHandoff ==
    /\ pc = "handoff"
    /\ LET artifacts == IF HasResult(tree.artifacts) THEN tree.artifacts
                        ELSE Submitted(Role, tree.artifacts, tree.boxes)
           semantic  == MaySubmit(tree.artifacts) /\ SemanticConflict(Role, tree.artifacts, tree.boxes)
       IN  /\ Leaves([tree EXCEPT !.artifacts = artifacts])
           /\ \/ Continues("accept")
              \/ /\ ~HasResult(artifacts)
                 /\ pc' = "correction" /\ UNCHANGED run
                 /\ corrected' = [files |-> Files, semantic |-> semantic]
    /\ Elsewhere

\* The correction is an agent as well: it may do what it is told not to do.
CorrectionWorks ==
    /\ pc = "correction"
    /\ \E candidate \in Candidates, boxes \in BOOLEAN, edits \in {tree.edits, tree.edits \cup {run.session}} :
         /\ run.role # "developer" => boxes = tree.boxes /\ candidate # "failed"
         /\ HasResult(tree.artifacts) => candidate = "invalid"
         /\ Leaves([tree EXCEPT !.boxes = boxes, !.edits = edits,
                    !.artifacts.candidate = candidate])
    /\ Elsewhere /\ UNCHANGED <<pc, run, corrected>>

\* Mutant of CorrectionIsNarrow: checked boxes are let pass whatever was refused.
CorrectionChecksBoxes == [Files EXCEPT !.boxes = corrected.files.boxes] = corrected.files

\* Only the submission's own files changed; and boxes were checked, if these were missing.
CorrectionIsNarrow ==
    \/ Files = corrected.files
    \/ /\ corrected.semantic /\ Files = [corrected.files EXCEPT !.boxes = TRUE]

CorrectionEnds ==
    /\ pc = "correction"
    /\ IF CorrectionIsNarrow /\ HasResult(tree.artifacts)
       THEN Continues("accept") /\ UNCHANGED <<tree, head>>
       ELSE Fails
    /\ Elsewhere

CorrectionFails ==
    /\ pc = "correction"
    /\ Fails /\ Elsewhere

\* Mutant of OwnResult: whatever is there is taken.
AnyResult == HasResult(tree.artifacts)

OwnResult == tree.artifacts.result.session = run.session

\* The result is read; what the directory still holds is not read again.
AcceptResult ==
    /\ pc = "accept" /\ OwnResult
    /\ Leaves([tree EXCEPT !.artifacts = EmptyArtifacts])
    /\ run' = [run EXCEPT !.outcome = tree.artifacts.result.outcome]
    /\ pc' = "process" /\ corrected' = None
    /\ Elsewhere

\* No result, one of another session, or one that the workflow's state contradicts.
RejectResult ==
    /\ pc = "accept"
    /\ Fails /\ Elsewhere

-----------------------------------------------------------------------------
(* An accepted result *)

Edited == run.session \in tree.edits

\* The session's end is recorded with its edits; a validation before them is out of date.
Archived ==
    [tree EXCEPT !.edits = @ \ {run.session},
                 !.record = IF Edited /\ @ = "passed" THEN "none" ELSE @]

\* A developer's result: the boxes decide, the outcome only whether validation follows.
ProcessDeveloper ==
    /\ pc = "process" /\ run.role = "developer"
    /\ Leaves([Archived EXCEPT
                  !.stage = IF tree.boxes THEN "review" ELSE "develop",
                  !.record = IF @ \in {"failed", "unverified"} THEN @
                             ELSE IF run.outcome = "completed" THEN "none" ELSE "skipped"])
    /\ Continues(IF run.outcome = "completed" THEN "validate" ELSE "commit")
    /\ Elsewhere

\* A review with evidence at hand is decided after its edits, if it made any, are validated.
ProcessReviewer ==
    /\ pc = "process" /\ run.role = "reviewer"
    /\ \E verdict \in {"integrate", "develop"} :
         IF run.evidence /\ verdict = "integrate" /\ Edited
         THEN UNCHANGED tree /\ Continues("validate")
         ELSE tree' = [Archived EXCEPT !.stage = verdict] /\ Continues("commit")
    /\ Elsewhere /\ UNCHANGED head

\* Validation of a milestone; without its prerequisites the result is archived and not used.
ProcessIntegrator ==
    /\ pc = "process" /\ run.role = "integrator"
    /\ \E issues \in BOOLEAN, outcome \in ValidationOutcomes :
         \/ /\ MilestoneState(issues, outcome) = "verified"
            /\ Leaves([Archived EXCEPT !.stage = "done"])
         \/ /\ MilestoneState(issues, outcome) = "blocked_product_failure"
            /\ Leaves([Archived EXCEPT !.stage = "develop", !.boxes = FALSE, !.record = "none",
                                       !.ready = FALSE])
    /\ Continues("commit") /\ Elsewhere

MilestoneUnvalidated ==
    /\ pc = "process" /\ run.role = "integrator"
    /\ \/ /\ \E resolution \in Resolutions : resolution = "blocked"
          /\ Commits([Archived EXCEPT !.blocker = Blocker("integrator", "validation")])
       \/ /\ \E outcome \in ValidationOutcomes :
               MilestoneState(FALSE, outcome) \in {"blocked_prerequisite", "blocked_infrastructure"}
          /\ Commits(Archived)
    /\ Stops /\ Elsewhere

\* What a review comes to whose edits passed; its edits are recorded only now.
AfterPass ==
    IF run.role = "reviewer"
    THEN [Archived EXCEPT !.stage = "integrate", !.record = "passed"]
    ELSE [tree EXCEPT !.record = "passed"]

ValidateTask ==
    /\ pc = "validate"
    /\ \E outcome \in ValidationOutcomes :
         \/ outcome = "passed" /\ Leaves(AfterPass)
         \/ outcome = "failed" /\ Leaves([AfterPass EXCEPT !.record = "failed", !.stage = "develop"])
    /\ Continues("commit") /\ Elsewhere

\* A prerequisite or the infrastructure is missing: a blocker or a record, and the end.
TaskUnvalidated ==
    /\ pc = "validate"
    /\ \/ /\ \E resolution \in Resolutions : resolution = "blocked"
          /\ Commits([Archived EXCEPT !.blocker = Blocker(run.role, "validation")])
       \/ /\ \E outcome \in ValidationOutcomes : Settles(outcome) = "unverified"
          /\ Commits([Archived EXCEPT !.record = "unverified"])
    /\ Stops /\ Elsewhere

NextPhase(workspace) == IF workspace.stage = "done" THEN "tag" ELSE "loop"

Commit ==
    /\ pc = "commit"
    /\ Commits(tree)
    /\ pc' = NextPhase(tree)
    /\ run' = [run EXCEPT !.session = None,
                            !.outcome = "invalid", !.evidence = FALSE]
    /\ Elsewhere /\ UNCHANGED corrected

CommitFails ==
    /\ pc \in {"commit", "tag"}
    /\ Fails /\ Elsewhere

CreateTag ==
    /\ pc = "tag"
    /\ tagged' = TRUE /\ Continues("loop")
    /\ UNCHANGED <<tree, head, submissions, proposal>>

-----------------------------------------------------------------------------
(* Interruptions and the operator *)

\* A crash, an interrupt or an exception: the process ends, the files stay.
Interrupt ==
    /\ pc # "idle"
    /\ Fails /\ Elsewhere

\* continue shows what it would discard, and the commit it would return to.
ProposeDiscard ==
    /\ pc = "idle" /\ proposal = None /\ ~Clean
    /\ proposal' = [head |-> head, resetting |-> FALSE]
    /\ UNCHANGED <<repository, pc, run, submissions, corrected>>

\* Mutant of StillCurrent: the operator's answer is enough.
CurrentAnyway == TRUE

StillCurrent == proposal.head = head /\ ~Clean

ConfirmDiscard ==
    /\ proposal # None /\ ~proposal.resetting
    /\ proposal' = IF StillCurrent THEN [proposal EXCEPT !.resetting = TRUE] ELSE None
    /\ UNCHANGED <<repository, pc, run, submissions, corrected>>

DeclineDiscard ==
    /\ proposal # None
    /\ proposal' = None
    /\ UNCHANGED <<repository, pc, run, submissions, corrected>>

\* Mutant of Restored: what git does not track is left.
RestoredTracked == [proposal.head EXCEPT !.artifacts = tree.artifacts]

Restored == proposal.head

\* reset --hard and clean; the commit that records the discard changes none of this.
DiscardInterrupted ==
    /\ proposal # None /\ proposal.resetting
    /\ tree' = Restored /\ head' = proposal.head
    /\ proposal' = None
    /\ UNCHANGED <<tagged, pc, run, submissions, corrected>>

\* While a discard is on offer the operator may commit own work, and only that.
OwnCommit ==
    /\ proposal # None /\ head.own = "none"
    /\ LET own == IF proposal.resetting THEN "late" ELSE "early"
       IN  tree' = [tree EXCEPT !.own = own] /\ head' = [head EXCEPT !.own = own]
    /\ UNCHANGED <<tagged, pc, run, submissions, proposal, corrected>>

Prepare == BeginLoop \/ NoRetry \/ RetryBegins \/ RetryRuns \/ WorkflowDone
             \/ SelectRole \/ PrerequisiteResolved \/ StartSession

Perform == AgentWorks \/ AgentSucceeds \/ SubmitHandoff \/ CorrectionWorks \/ CorrectionEnds
             \/ AcceptResult \/ ProcessDeveloper \/ ProcessReviewer \/ ProcessIntegrator
             \/ ValidateTask \/ Commit \/ CreateTag

Blocks == RetryBlocked \/ PrerequisiteBlocked \/ MilestoneUnvalidated \/ TaskUnvalidated

Errors == RefuseSession \/ AgentFails \/ CorrectionFails \/ RejectResult \/ CommitFails \/ Interrupt

Submits == BeginSubmission \/ RefuseSubmission \/ PublishSubmission \/ SubmissionDies

Operator == StartRun \/ ProposeDiscard \/ ConfirmDiscard \/ DiscardInterrupted

Others == DeclineDiscard \/ OwnCommit

Next == Prepare \/ Perform \/ Blocks \/ Errors \/ Submits \/ Operator \/ Others

Spec == Init /\ [][Next]_vars
=============================================================================
