---------------------------- MODULE SessionProofs ----------------------------
(***************************************************************************)
(* Theorems about modules Session and SessionProperties, for any number of *)
(* sessions, submissions and operations.  The inductive invariant says for *)
(* each phase of a run what its worktree may hold that the last commit     *)
(* does not, and what is known of the task.                                *)
(***************************************************************************)
EXTENDS SessionProperties, WellFoundedInduction, TLAPS

\* The blocker that says the task awaits its validation.
Awaits(workspace) ==
    workspace.blocker \in {Blocker(role, "validation") : role \in {"developer", "reviewer"}}

\* A task in review was validated, or something says that it will be.
Gated(workspace) == workspace.stage = "review" => workspace.record # "none" \/ Awaits(workspace)

HeadIsWhole == head.edits = {} /\ Gated(head)

BeforeRole == {"loop", "retry", "validating", "tag"}
Sessional == {"agent", "handoff", "correction", "accept", "process"}
Routed == {"prepare"} \cup Sessional

\* Before a session the worktree holds nobody's edits, and the task is where the commit left it.
NothingPending ==
    /\ pc \in BeforeRole \cup {"select", "prepare", "commit"} => tree.edits = {}
    /\ pc \in BeforeRole => tree.stage = head.stage /\ Gated(tree)
    /\ pc = "validating" => tree.stage = "review"
    /\ pc = "tag" => tree.stage = "done"

\* From the choice of a role on a task in review may have fallen back, and is validated else.
Chosen ==
    pc \in {"select"} \cup Routed =>
        /\ tree.stage = head.stage \/ (head.stage = "review" /\ tree.stage = "develop")
        /\ tree.stage = "review" => tree.record \in Accounted

\* The role is that of the stage; a session's edits are its own, and the evidence the
\* reviewer was given is still the task's record.
SessionIsOwn ==
    /\ pc \in Routed => tree.stage # "done" /\ run.role = RoleOf[tree.stage]
    /\ pc \in Sessional \cup {"validate"} =>
          run.session \in Sessions /\ tree.edits \subseteq {run.session}
    /\ pc \in Sessional /\ run.role = "reviewer" => (run.evidence <=> tree.record = "passed")

\* Results of developers and reviewers are validated.
Validating ==
    pc = "validate" =>
        \/ /\ run.role = "developer" /\ tree.edits = {}
           /\ head.stage \in {"develop", "review"} /\ tree.stage \in {"develop", "review"}
        \/ run.role = "reviewer" /\ head.stage = "review" /\ tree.stage = "review"

\* What is about to be committed is one session's progress.
Committable ==
    pc = "commit" =>
        /\ run.role \in Roles
        /\ tree.stage \in Committed!After[head.stage]
        /\ tree.stage = "review" => tree.record # "none"
        /\ head.stage = "review" /\ tree.stage = "integrate" => tree.record \in Accounted

\* Configuration that changed during the milestone is not taken to its integration.
Authorised ==
    /\ pc = "tag" => run.role # None
    /\ pc = "loop" /\ run.role = None => ~tree.configured
    /\ pc \in {"retry", "validating", "select", "prepare"} =>
          tree.stage \in {"develop", "review"} \/ ~tree.configured

\* The directory is that of the running session, and its result does not come before its handoff.
DirectoryIsOwn ==
    pc \in Sessional \ {"process"} =>
        /\ tree.artifacts.envelope = run.session
        /\ tree.artifacts.result.session = run.session => tree.artifacts.handoff # None
        /\ \A submission \in submissions :
             submission.session = run.session /\ submission.begun => tree.artifacts.handoff # None

\* A discard on offer is one to the last commit, but for the operator's own.
DiscardIsCurrent ==
    proposal # None =>
        /\ pc = "idle"
        /\ [proposal.head EXCEPT !.own = head.own] = head
        /\ proposal.resetting /\ head.own # "late" => proposal.head = head

IInv ==
    /\ TypeOK /\ HeadIsWhole /\ NothingPending /\ Chosen /\ SessionIsOwn /\ Validating
    /\ Committable /\ Authorised /\ DirectoryIsOwn /\ DiscardIsCurrent /\ CorrectionIsBookkeeping
-----------------------------------------------------------------------------
(* Lemmas *)

\* A workspace stays one when its fields are replaced by others of their kind.
LEMMA WorkspaceUpdates ==
    ASSUME NEW w \in Workspaces
    PROVE  /\ \A a \in Artifacts : [w EXCEPT !.artifacts = a] \in Workspaces
           /\ \A s \in Stages, r \in Records, e \in SUBSET Sessions :
                [w EXCEPT !.stage = s, !.record = r, !.edits = e] \in Workspaces
           /\ \A b \in [role : Roles, operation : {"session", "setup", "validation"}] \cup {None} :
                [w EXCEPT !.blocker = b] \in Workspaces
  BY DEF Workspaces

\* Every write to the session's directory leaves files of their types.
LEMMA ArtifactUpdates ==
    ASSUME NEW a \in Artifacts
    PROVE  /\ EmptyArtifacts \in Artifacts
           /\ Unfinished(a) \in Artifacts
           /\ \A session \in Sessions : FreshArtifacts(session) \in Artifacts
           /\ \A candidate \in Candidates : [a EXCEPT !.candidate = candidate] \in Artifacts
           /\ MaySubmit(a) => WithAttempt(a) \in Artifacts
           /\ \A submission \in Submissions :
                WithHandoff(a, submission) \in Artifacts /\ WithResult(a, submission) \in Artifacts
<1>1. NoResult \in [session : Sessions \cup {None}, outcome : Candidates]
  BY DEF NoResult, Candidates
<1>2. /\ EmptyArtifacts \in Artifacts
      /\ \A session \in Sessions : FreshArtifacts(session) \in Artifacts
  BY <1>1, SubmissionAssumption DEF EmptyArtifacts, FreshArtifacts, Artifacts, Candidates
<1> DEFINE Shapes == [session : Sessions \cup {None}, outcome : Candidates]
<1>3. ASSUME NEW result \in Shapes
      PROVE  [a EXCEPT !.result = result, !.candidate = "invalid", !.attempts = 0] \in Artifacts
  <2>1. "invalid" \in Candidates /\ 0 \in 0..MaxAttempts
    BY SubmissionAssumption DEF Candidates
  <2> QED BY <1>3, <2>1 DEF Artifacts
<1>4. Unfinished(a) \in Artifacts
  <2>1. Unfinished(a) = [a EXCEPT !.result = NoResult, !.candidate = "invalid", !.attempts = 0]
    BY DEF Unfinished, Artifacts
  <2>2. [a EXCEPT !.result = NoResult, !.candidate = "invalid", !.attempts = 0] \in Artifacts
    BY <1>1, <1>3
  <2> QED BY <2>1, <2>2
<1>5. \A candidate \in Candidates : [a EXCEPT !.candidate = candidate] \in Artifacts
  BY DEF Artifacts
<1>6. MaySubmit(a) => WithAttempt(a) \in Artifacts
  BY SubmissionAssumption DEF MaySubmit, WithAttempt, Artifacts
<1>7. ASSUME NEW submission \in Submissions
      PROVE  WithHandoff(a, submission) \in Artifacts /\ WithResult(a, submission) \in Artifacts
  <2>1. submission.session \in Sessions /\ submission.outcome \in Candidates
    BY DEF Submissions
  <2>2. [session |-> submission.session, outcome |-> submission.outcome] \in Shapes
    BY <2>1
  <2>3. WithHandoff(a, submission) \in Artifacts
    BY <2>1 DEF WithHandoff, Artifacts
  <2> QED BY <1>3, <2>2, <2>3 DEF WithResult
<1> QED BY <1>2, <1>4, <1>5, <1>6, <1>7

\* Whatever ends a run leaves a commit that is whole.
LEMMA EndsStep ==
    ASSUME IInv, pc # "idle", Stops, Elsewhere,
           tree' \in Workspaces, head' \in Workspaces, head'.edits = {}, Gated(head)'
    PROVE  IInv'
<1> USE DEF Stops, Elsewhere, IInv
<1>1. NoRun \in [role : Roles \cup {None}, session : Sessions \cup {None}, step : Nat,
                outcome : Candidates, evidence : BOOLEAN]
  BY DEF NoRun, Candidates
<1>2. TypeOK'
  BY <1>1 DEF TypeOK, Phases
<1>3. HeadIsWhole'
  BY DEF HeadIsWhole
<1>4. NothingPending' /\ Chosen' /\ SessionIsOwn' /\ Validating'
  BY DEF NothingPending, BeforeRole, Chosen, SessionIsOwn, Routed, Sessional, Validating
<1>5. /\ Committable' /\ Authorised' /\ DirectoryIsOwn' /\ DiscardIsCurrent'
      /\ CorrectionIsBookkeeping'
  BY DEF Committable, Authorised, DirectoryIsOwn, Sessional, DiscardIsCurrent,
         CorrectionIsBookkeeping
<1> QED BY <1>2, <1>3, <1>4, <1>5

\* A run that fails leaves worktree and commit as they are.
LEMMA FailsStep == ASSUME IInv, pc # "idle", Fails, Elsewhere PROVE IInv'
<1> USE DEF Fails, Leaves
<1>1. tree' \in Workspaces
  <2>1. tree \in Workspaces /\ tree.artifacts \in Artifacts
    BY DEF IInv, TypeOK, Workspaces
  <2> QED BY <2>1, WorkspaceUpdates, ArtifactUpdates
<1>2. head' \in Workspaces /\ head'.edits = {} /\ Gated(head)'
  BY DEF IInv, TypeOK, HeadIsWhole, Gated, Awaits
<1> QED BY <1>1, <1>2, EndsStep

\* A commit of a workspace that is whole.
LEMMA CommitEffect ==
    ASSUME NEW w \in Workspaces, Commits(w)
    PROVE  /\ tree' \in Workspaces /\ head' = tree'
           /\ tree'.stage = w.stage /\ tree'.record = w.record /\ tree'.blocker = w.blocker
           /\ tree'.edits = w.edits /\ tree'.configured = w.configured /\ tree'.boxes = w.boxes
           /\ (Gated(tree)' <=> Gated(w))
<1>1. EmptyArtifacts \in Artifacts
  BY SubmissionAssumption DEF EmptyArtifacts, Artifacts, NoResult, Candidates
<1>2. tree' \in Workspaces
  BY <1>1, WorkspaceUpdates DEF Commits
<1> QED BY <1>2 DEF Commits, Workspaces, Gated, Awaits

\* A run may end with a commit if no edits are unprocessed and the review is gated.
LEMMA CommitsAndEnds ==
    ASSUME IInv, pc # "idle", Stops, Elsewhere, NEW w \in Workspaces, Commits(w),
           w.edits = {}, Gated(w)
    PROVE  IInv'
  BY CommitEffect, EndsStep

\* What only changes the directory of a session keeps the rest.
LEMMA DirectoryStep ==
    ASSUME IInv, NEW artifacts \in Artifacts, tree' = [tree EXCEPT !.artifacts = artifacts],
           UNCHANGED <<head, tagged, pc, run, proposal, corrected>>,
           submissions' \subseteq Submissions, DirectoryIsOwn'
    PROVE  IInv'
<1> USE DEF IInv
<1>1. tree' \in Workspaces
  BY WorkspaceUpdates DEF TypeOK
<1>2. /\ tree'.stage = tree.stage /\ tree'.record = tree.record /\ tree'.edits = tree.edits
      /\ tree'.blocker = tree.blocker /\ tree'.boxes = tree.boxes
      /\ tree'.configured = tree.configured
  BY DEF TypeOK, Workspaces
<1>3. TypeOK'
  BY <1>1 DEF TypeOK
<1>4. HeadIsWhole' /\ DiscardIsCurrent'
  BY DEF HeadIsWhole, Gated, Awaits, DiscardIsCurrent
<1>5. NothingPending' /\ Chosen' /\ SessionIsOwn'
  BY <1>2 DEF NothingPending, Gated, Awaits, Chosen, SessionIsOwn
<1>6. Validating' /\ Committable' /\ Authorised' /\ CorrectionIsBookkeeping'
  BY <1>2 DEF Validating, Committable, Authorised, CorrectionIsBookkeeping
<1> QED BY <1>3, <1>4, <1>5, <1>6

\* A submission begins with a candidate and its identity, and writes nothing yet.
LEMMA BeginSubmissionStep == IInv /\ BeginSubmission => IInv'
<1> SUFFICES ASSUME IInv, BeginSubmission PROVE IInv'
  OBVIOUS
<1> USE DEF BeginSubmission, repository
<1>1. tree \in Workspaces /\ tree.artifacts \in Artifacts /\ tree.stage # "done"
  BY DEF IInv, TypeOK, Workspaces, SessionIsOwn, Routed, Sessional
<1>2. Role \in Roles
  BY <1>1 DEF Role, RoleOf, Roles, Workspaces, Stages
<1>3. Submission(Role, tree.artifacts) \in Submissions
  BY <1>1, <1>2 DEF Submission, Submissions, MaySubmit, Artifacts
<1>4. Submission(Role, tree.artifacts).begun = FALSE
  BY DEF Submission
<1>5. DirectoryIsOwn'
  BY <1>4 DEF IInv, DirectoryIsOwn
<1>6. tree' = [tree EXCEPT !.artifacts = tree.artifacts]
  BY <1>1 DEF Workspaces
<1> QED BY <1>1, <1>3, <1>5, <1>6, DirectoryStep DEF IInv, TypeOK

\* A refused candidate costs an attempt and leaves handoff and result.
LEMMA RefuseSubmissionStep == IInv /\ RefuseSubmission => IInv'
<1> SUFFICES ASSUME IInv, RefuseSubmission PROVE IInv'
  OBVIOUS
<1> USE DEF RefuseSubmission, Leaves
<1>1. tree \in Workspaces /\ tree.artifacts \in Artifacts
  BY DEF IInv, TypeOK, Workspaces
<1>2. WithAttempt(tree.artifacts) \in Artifacts
  BY <1>1, ArtifactUpdates
<1>3. /\ tree'.artifacts.envelope = tree.artifacts.envelope
      /\ tree'.artifacts.handoff = tree.artifacts.handoff
      /\ tree'.artifacts.result = tree.artifacts.result
  BY <1>1 DEF WithAttempt, Workspaces, Artifacts
<1>4. DirectoryIsOwn'
  BY <1>3 DEF IInv, DirectoryIsOwn
<1> QED BY <1>2, <1>4, DirectoryStep DEF IInv, TypeOK

\* A result is published after its handoff, unless a session began in between: then it is not
\* that session's.
LEMMA PublishSubmissionStep == IInv /\ PublishSubmission => IInv'
<1> SUFFICES ASSUME IInv, PublishSubmission PROVE IInv'
  OBVIOUS
<1> USE DEF Leaves
<1>1. PICK submission \in submissions :
        /\ submissions' = (submissions \ {submission})
                              \cup (IF submission.begun THEN {} ELSE {[submission EXCEPT !.begun = TRUE]})
        /\ tree' = [tree EXCEPT !.artifacts =
                      IF @.envelope = None THEN WithHandoff(@, submission) ELSE Published(@, submission)]
        /\ UNCHANGED <<head, tagged, pc, run, proposal, corrected>>
  BY DEF PublishSubmission
<1> DEFINE artifacts == IF tree.artifacts.envelope = None THEN WithHandoff(tree.artifacts, submission)
                        ELSE Published(tree.artifacts, submission)
<1>2. tree \in Workspaces /\ tree.artifacts \in Artifacts /\ submission \in Submissions
  BY DEF IInv, TypeOK, Workspaces
<1>3. artifacts \in Artifacts
  BY <1>2, ArtifactUpdates DEF Published
<1>4. tree' = [tree EXCEPT !.artifacts = artifacts] /\ tree'.artifacts = artifacts
  BY <1>1, <1>2 DEF Workspaces
<1>5. submission.session \in Sessions /\ submission.session # None
  BY <1>2, SubmissionAssumption DEF Submissions
<1>6. /\ artifacts.envelope = tree.artifacts.envelope
      /\ artifacts.handoff # tree.artifacts.handoff => artifacts.handoff = submission.session
      /\ ~submission.begun => artifacts.handoff = submission.session
      /\ artifacts.result # tree.artifacts.result =>
            submission.begun /\ artifacts.result.session = submission.session
  BY <1>2 DEF Artifacts, Published, WithHandoff, WithResult
<1>7. submissions' \subseteq Submissions
  <2>1. [submission EXCEPT !.begun = TRUE] \in Submissions
    BY <1>2 DEF Submissions
  <2> QED BY <1>1, <2>1 DEF IInv, TypeOK
<1> HIDE DEF artifacts
<1>8. ASSUME pc \in Sessional \ {"process"}
      PROVE  /\ artifacts.envelope = run.session
             /\ artifacts.result.session = run.session => artifacts.handoff # None
             /\ \A q \in submissions' :
                  q.session = run.session /\ q.begun => artifacts.handoff # None
  <2>1. /\ tree.artifacts.envelope = run.session
        /\ tree.artifacts.result.session = run.session => tree.artifacts.handoff # None
        /\ \A q \in submissions :
             q.session = run.session /\ q.begun => tree.artifacts.handoff # None
    BY <1>8 DEF IInv, DirectoryIsOwn
  <2>2. artifacts.result.session = run.session => artifacts.handoff # None
    BY <1>5, <1>6, <2>1
  <2>3. ASSUME NEW q \in submissions', q.session = run.session, q.begun
        PROVE  artifacts.handoff # None
    BY <1>1, <1>5, <1>6, <2>1, <2>3
  <2> QED BY <1>6, <2>1, <2>2, <2>3
<1>9. DirectoryIsOwn'
  BY <1>1, <1>4, <1>8 DEF DirectoryIsOwn
<1> QED BY <1>1, <1>3, <1>4, <1>7, <1>9, DirectoryStep

\* A submission that dies leaves the files it has written.
LEMMA SubmissionDiesStep == IInv /\ SubmissionDies => IInv'
<1> SUFFICES ASSUME IInv, SubmissionDies PROVE IInv'
  OBVIOUS
<1> USE DEF SubmissionDies, repository
<1>1. tree.artifacts \in Artifacts /\ tree' = [tree EXCEPT !.artifacts = tree.artifacts]
  BY DEF IInv, TypeOK, Workspaces
<1>2. submissions' \subseteq submissions
  OBVIOUS
<1>3. DirectoryIsOwn'
  BY <1>2 DEF IInv, DirectoryIsOwn
<1> QED BY <1>1, <1>2, <1>3, DirectoryStep DEF IInv, TypeOK

-----------------------------------------------------------------------------
(* The operator *)

\* While no run is at work, only the commit and the discard on offer count.
LEMMA IdleStep ==
    ASSUME IInv, pc = "idle", UNCHANGED <<tagged, pc, run, submissions, corrected>>,
           tree' \in Workspaces, head' \in Workspaces, HeadIsWhole',
           proposal' = None \/ proposal' \in [head : Workspaces, resetting : BOOLEAN],
           DiscardIsCurrent'
    PROVE  IInv'
<1> USE DEF IInv
<1>1. TypeOK'
  BY DEF TypeOK
<1>2. NothingPending' /\ Chosen' /\ SessionIsOwn' /\ Validating'
  BY DEF NothingPending, BeforeRole, Chosen, SessionIsOwn, Routed, Sessional, Validating
<1>3. Committable' /\ Authorised' /\ DirectoryIsOwn' /\ CorrectionIsBookkeeping'
  BY DEF Committable, Authorised, DirectoryIsOwn, Sessional, CorrectionIsBookkeeping
<1> QED BY <1>1, <1>2, <1>3

\* The offer is of the last commit; confirmed, it is so still, or there is none.
LEMMA ProposalStep ==
    ASSUME IInv, ProposeDiscard \/ ConfirmDiscard \/ DeclineDiscard PROVE IInv'
<1> USE DEF ProposeDiscard, ConfirmDiscard, DeclineDiscard, StillCurrent, repository
<1>1. pc = "idle" /\ tree \in Workspaces /\ head \in Workspaces
  BY DEF IInv, DiscardIsCurrent, TypeOK
<1>2. HeadIsWhole'
  BY DEF IInv, HeadIsWhole, Gated, Awaits
<1>3. proposal' = None \/ proposal' \in [head : Workspaces, resetting : BOOLEAN]
  <2>1. ASSUME proposal \in [head : Workspaces, resetting : BOOLEAN]
        PROVE  [proposal EXCEPT !.resetting = TRUE] \in [head : Workspaces, resetting : BOOLEAN]
    BY <2>1
  <2>2. [head |-> head, resetting |-> FALSE] \in [head : Workspaces, resetting : BOOLEAN]
    BY <1>1
  <2> QED BY <2>1, <2>2 DEF IInv, TypeOK
<1>4. [head EXCEPT !.own = head.own] = head
  BY <1>1 DEF Workspaces
<1>5. DiscardIsCurrent'
  BY <1>1, <1>4 DEF IInv, TypeOK, DiscardIsCurrent
<1> QED BY <1>1, <1>2, <1>3, <1>5, IdleStep

\* A commit of the operator meets a proposed discard, or one that has been compared already.
LEMMA OwnCommitStep == IInv /\ OwnCommit => IInv'
<1> SUFFICES ASSUME IInv, OwnCommit PROVE IInv'
  OBVIOUS
<1> USE DEF OwnCommit
<1> DEFINE own == IF proposal.resetting THEN "late" ELSE "early"
<1>1. /\ tree' = [tree EXCEPT !.own = own] /\ head' = [head EXCEPT !.own = own]
      /\ UNCHANGED <<tagged, pc, run, submissions, proposal, corrected>>
  OBVIOUS
<1>2. proposal \in [head : Workspaces, resetting : BOOLEAN] /\ pc = "idle"
  BY DEF IInv, TypeOK, DiscardIsCurrent
<1>3. own \in {"early", "late"} /\ (proposal.resetting => own = "late")
  BY <1>2
<1> HIDE DEF own
<1>4. \A w \in {tree, head} : w \in Workspaces /\ [w EXCEPT !.own = own] \in Workspaces
  BY <1>3 DEF IInv, TypeOK, Workspaces
<1>5. HeadIsWhole' /\ head'.own = own
  BY <1>1, <1>4 DEF IInv, HeadIsWhole, Gated, Awaits, Workspaces
<1>6. [proposal.head EXCEPT !.own = own] = [head EXCEPT !.own = own]
  BY <1>2, <1>4 DEF IInv, DiscardIsCurrent, Workspaces
<1>7. DiscardIsCurrent'
  BY <1>1, <1>2, <1>3, <1>5, <1>6 DEF DiscardIsCurrent
<1> QED BY <1>1, <1>2, <1>4, <1>5, <1>7, IdleStep DEF IInv, TypeOK

\* A discard that is interrupted after its reset leaves the commit it compared.
LEMMA DiscardStep == IInv /\ DiscardInterrupted => IInv'
<1> SUFFICES ASSUME IInv, DiscardInterrupted PROVE IInv'
  OBVIOUS
<1> USE DEF DiscardInterrupted, Restored
<1>1. proposal \in [head : Workspaces, resetting : BOOLEAN] /\ pc = "idle"
  BY DEF IInv, TypeOK, DiscardIsCurrent
<1>2. head' \in Workspaces /\ tree' \in Workspaces
  BY <1>1
<1>3. head'.stage = head.stage /\ head'.record = head.record /\ head'.edits = head.edits
      /\ head'.blocker = head.blocker
  <2>1. [proposal.head EXCEPT !.own = head.own] = head
    BY DEF IInv, DiscardIsCurrent
  <2> QED BY <1>1, <2>1 DEF Workspaces
<1>4. HeadIsWhole'
  BY <1>3 DEF IInv, HeadIsWhole, Gated, Awaits
<1> QED BY <1>1, <1>2, <1>4, IdleStep DEF DiscardIsCurrent

-----------------------------------------------------------------------------
(* The loop up to a session *)

\* A set of numbers that is not empty has a least one.
LEMMA LeastIsIn ==
    ASSUME NEW S \in SUBSET Nat, S # {}
    PROVE  Least(S) \in S
<1> DEFINE less == {pair \in Nat \X Nat : pair[1] < pair[2]}
<1>1. IsWellFoundedOn(less, Nat)
  BY NatLessThanWellFounded DEF OpToRel
<1>2. \A a, b \in Nat : a < b => <<a, b>> \in less
  OBVIOUS
<1> HIDE DEF less
<1>3. PICK i \in S : \A j \in S : <<j, i>> \notin less
  BY <1>1, WFMin
<1>4. ASSUME NEW j \in S PROVE i <= j
  <2>1. i \in Nat /\ j \in Nat /\ ~(j < i)
    BY <1>2, <1>3
  <2> QED BY <2>1
<1> QED BY <1>4 DEF Least

\* The first operation that remains is one of the operations.
LEMMA OperationIsTyped ==
    ASSUME Remaining # {}
    PROVE  /\ Least(Remaining) \in Nat
           /\ Operation \in {"session", "setup", "validation"}
<1>1. Remaining \subseteq Nat /\ Remaining \subseteq DOMAIN Operations
  BY SessionAssumption DEF Remaining, Needs
<1>2. Least(Remaining) \in Remaining
  BY <1>1, LeastIsIn
<1>3. \A i \in DOMAIN Operations : Operations[i] \in {"session", "setup", "validation"}
  BY SessionAssumption
<1> QED BY <1>1, <1>2, <1>3 DEF Operation

\* No discard is on offer, and no correction remembered, while a run is outside a session.
LEMMA NothingOffered ==
    ASSUME IInv, pc # "idle"
    PROVE  /\ proposal = None
           /\ pc \notin {"correction", "accept"} => corrected = None
  BY DEF IInv, DiscardIsCurrent, TypeOK

Runs == [role : Roles \cup {None}, session : Sessions \cup {None}, step : Nat,
         outcome : Candidates, evidence : BOOLEAN]

\* A step before role selection that leaves nothing pending keeps the invariant.
LEMMA LoopStep ==
    ASSUME IInv, pc' \in BeforeRole \cup {"select"}, run' \in Runs, corrected' = None,
           tagged' \in BOOLEAN, UNCHANGED submissions, proposal' = None,
           tree' \in Workspaces, head' \in Workspaces,
           HeadIsWhole', NothingPending', Chosen', Authorised'
    PROVE  IInv'
<1>1. TypeOK'
  BY DEF IInv, TypeOK, Runs, BeforeRole, Phases
<1>2. SessionIsOwn' /\ Validating' /\ Committable'
  BY DEF SessionIsOwn, Routed, Sessional, Validating, Committable, BeforeRole
<1>3. DirectoryIsOwn' /\ DiscardIsCurrent' /\ CorrectionIsBookkeeping'
  BY DEF DirectoryIsOwn, Sessional, DiscardIsCurrent, CorrectionIsBookkeeping, BeforeRole
<1> QED BY <1>1, <1>2, <1>3 DEF IInv

\* The worktree is clean, so what holds of the commit holds of it.
LEMMA StartRunStep == IInv /\ StartRun => IInv'
<1> SUFFICES ASSUME IInv, StartRun PROVE IInv'
  OBVIOUS
<1> USE DEF StartRun, Clean
<1> DEFINE w == [tree EXCEPT !.own = "none", !.configured = FALSE]
<1>1. tree \in Workspaces /\ tree = head /\ run = NoRun /\ corrected = None
  BY DEF IInv, TypeOK
<1>2. /\ w \in Workspaces /\ w.stage = tree.stage /\ w.record = tree.record
      /\ w.edits = tree.edits /\ w.blocker = tree.blocker /\ w.configured = FALSE
  BY <1>1 DEF Workspaces
<1>3. Gated(w) /\ w.edits = {}
  BY <1>1, <1>2 DEF IInv, HeadIsWhole, Gated, Awaits
<1> HIDE DEF w
<1>4. Commits(w)
  BY DEF w
<1>5. HeadIsWhole' /\ NothingPending' /\ Chosen' /\ Authorised'
  BY <1>2, <1>3, <1>4, CommitEffect
     DEF HeadIsWhole, Gated, Awaits, NothingPending, BeforeRole, Chosen, Routed, Sessional,
         Authorised
<1> QED BY <1>1, <1>2, <1>4, <1>5, CommitEffect, LoopStep DEF IInv, TypeOK, BeforeRole, Runs

\* A run that goes on asked whether configuration changed, unless it just began.
LEMMA BeginLoopStep == IInv /\ BeginLoop => IInv'
<1> SUFFICES ASSUME IInv, BeginLoop PROVE IInv'
  OBVIOUS
<1> USE DEF BeginLoop
<1>1. UNCHANGED <<tree, head>> /\ pc = "loop" /\ Elsewhere
  OBVIOUS
<1>2. CASE Stops
  BY <1>1, <1>2, EndsStep DEF IInv, TypeOK, HeadIsWhole, Gated, Awaits
<1>3. CASE ~Stops
  <2>1. MayProceed /\ pc' = "retry" /\ UNCHANGED <<run, corrected>>
    BY <1>3 DEF Continues
  <2>2. tree.stage \notin {"develop", "review"} => ~tree.configured
    BY <1>1, <2>1 DEF MayProceed, ConfigChanged, IInv, Authorised
  <2>3. HeadIsWhole' /\ NothingPending'
    BY <1>1, <2>1 DEF IInv, HeadIsWhole, Gated, Awaits, NothingPending, BeforeRole
  <2>4. Chosen' /\ Authorised'
    BY <1>1, <2>1, <2>2 DEF Chosen, Routed, Sessional, Authorised
  <2> QED BY <1>1, <2>1, <2>3, <2>4, NothingOffered, LoopStep
          DEF IInv, TypeOK, BeforeRole, Runs, Elsewhere
<1> QED BY <1>2, <1>3

\* A task in review that needs no retry has a record, and one that does not fail it.
LEMMA NoRetryStep == IInv /\ NoRetry => IInv'
<1> SUFFICES ASSUME IInv, NoRetry PROVE IInv'
  OBVIOUS
<1> USE DEF NoRetry, Continues, Elsewhere
<1>1. tree.stage = "review" => tree.record \in Accounted
  BY DEF IInv, TypeOK, Workspaces, Records, NothingPending, BeforeRole, NeedsRetry, Gated, Awaits,
         Accounted
<1>2. HeadIsWhole' /\ NothingPending'
  BY DEF IInv, HeadIsWhole, Gated, Awaits, NothingPending, BeforeRole
<1>3. Chosen' /\ Authorised'
  BY <1>1 DEF IInv, Chosen, NothingPending, BeforeRole, Authorised
<1> QED BY <1>2, <1>3, NothingOffered, LoopStep DEF IInv, TypeOK, Runs

\* The developer's validation blocker may be cleared or set: a record, or it, says what is to come.
LEMMA BlockedEffect ==
    ASSUME NEW w \in Workspaces, NEW role \in Roles,
           NEW operation \in {"session", "setup", "validation"}
    PROVE  LET blocked == [w EXCEPT !.blocker = Blocker(role, operation)]
           IN  /\ blocked \in Workspaces /\ blocked.blocker = Blocker(role, operation)
               /\ blocked.stage = w.stage /\ blocked.record = w.record
               /\ blocked.edits = w.edits /\ blocked.configured = w.configured
  BY DEF Blocker, Workspaces

\* A retry whose prerequisite is still missing commits a blocker of its own and ends the run.
LEMMA RetryBlockedStep == IInv /\ RetryBlocked => IInv'
<1> SUFFICES ASSUME IInv, RetryBlocked PROVE IInv'
  OBVIOUS
<1> USE DEF RetryBlocked
<1> DEFINE w == Blocked("developer", "validation")
<1>1. w \in Workspaces /\ w.blocker = Blocker("developer", "validation") /\ w.edits = tree.edits
  BY BlockedEffect DEF Blocked, Roles, IInv, TypeOK
<1>2. w.edits = {} /\ Gated(w)
  BY <1>1 DEF IInv, NothingPending, BeforeRole, Gated, Awaits
<1> HIDE DEF w
<1>3. Commits(w) /\ Stops /\ Elsewhere
  BY DEF w
<1> QED BY <1>1, <1>2, <1>3, CommitsAndEnds

\* The retry commits that the blocker is gone, and marks what it owes.
LEMMA RetryBeginsStep == IInv /\ RetryBegins => IInv'
<1> SUFFICES ASSUME IInv, RetryBegins PROVE IInv'
  OBVIOUS
<1> USE DEF RetryBegins, Continues, Elsewhere
<1> DEFINE cleared == Cleared("developer", "validation")
<1>1. /\ tree \in Workspaces /\ tree.edits = {} /\ tree.stage = head.stage /\ Gated(tree)
      /\ tree.stage = "review"
  BY DEF IInv, TypeOK, NothingPending, BeforeRole, NeedsRetry
<1>2. CASE UNCHANGED <<tree, head>>
  <2>1. HeadIsWhole' /\ NothingPending'
    BY <1>1, <1>2 DEF IInv, HeadIsWhole, Gated, Awaits, NothingPending, BeforeRole
  <2>2. Chosen' /\ Authorised'
    BY <1>1, <1>2 DEF Chosen, Routed, Sessional, Authorised
  <2> QED BY <1>2, <2>1, <2>2, NothingOffered, LoopStep DEF IInv, TypeOK, BeforeRole, Runs
<1>3. CASE Commits(Unmarked(cleared))
  <2>1. /\ cleared \in Workspaces /\ cleared.stage = "review" /\ cleared.edits = {}
    BY <1>1, WorkspaceUpdates DEF Cleared, Workspaces
  <2>2. /\ Unmarked(cleared) \in Workspaces /\ Unmarked(cleared).stage = "review"
        /\ Unmarked(cleared).edits = {} /\ Unmarked(cleared).record # "none"
    BY <2>1 DEF Unmarked, Workspaces, Records, Unvalidated
  <2> HIDE DEF cleared
  <2>3. /\ tree' \in Workspaces /\ head' = tree' /\ tree'.stage = "review" /\ tree'.edits = {}
        /\ Gated(tree)'
    BY <1>3, <2>2, CommitEffect DEF Gated
  <2>4. HeadIsWhole' /\ NothingPending'
    BY <2>3 DEF HeadIsWhole, Gated, Awaits, NothingPending, BeforeRole
  <2>5. Chosen' /\ Authorised'
    BY <2>3 DEF Chosen, Routed, Sessional, Authorised
  <2> QED BY <2>3, <2>4, <2>5, NothingOffered, LoopStep DEF IInv, TypeOK, BeforeRole, Runs
<1> QED BY <1>2, <1>3

\* What the retried commands show becomes the record of the task.
LEMMA RetryRunsStep == IInv /\ RetryRuns => IInv'
<1> SUFFICES ASSUME IInv, RetryRuns PROVE IInv'
  OBVIOUS
<1> USE DEF RetryRuns, Continues, Leaves
<1>1. tree \in Workspaces /\ tree.edits = {} /\ tree.stage = "review" /\ head.stage = "review"
  BY DEF IInv, TypeOK, NothingPending, BeforeRole
<1>2. CASE Commits([tree EXCEPT !.record = "unverified"]) /\ Stops
  <2> DEFINE w == [tree EXCEPT !.record = "unverified"]
  <2>1. w \in Workspaces /\ w.edits = {} /\ w.record = "unverified"
    BY <1>1 DEF Workspaces, Records
  <2> HIDE DEF w
  <2>2. Commits(w) /\ Gated(w)
    BY <1>2, <2>1 DEF w, Gated
  <2> QED BY <1>2, <2>1, <2>2, CommitsAndEnds
<1>3. CASE pc' = "select"
  <2>1. /\ UNCHANGED <<head, run, corrected>>
        /\ \/ tree' = [tree EXCEPT !.record = "passed"]
           \/ tree' = [tree EXCEPT !.record = "failed", !.stage = "develop"]
    BY <1>3 DEF Stops
  <2>2. /\ tree' \in Workspaces /\ tree'.edits = {}
        /\ \/ tree'.stage = "develop"
           \/ tree'.stage = "review" /\ tree'.record = "passed"
    BY <1>1, <2>1 DEF Workspaces, Records, Stages
  <2>3. HeadIsWhole' /\ NothingPending'
    BY <1>3, <2>1, <2>2 DEF IInv, HeadIsWhole, Gated, Awaits, NothingPending, BeforeRole
  <2>4. Chosen' /\ Authorised'
    BY <1>1, <1>3, <2>1, <2>2 DEF Chosen, Accounted, Authorised
  <2> QED BY <1>3, <2>1, <2>2, <2>3, <2>4, NothingOffered, LoopStep
          DEF IInv, TypeOK, Elsewhere, Runs
<1> QED BY <1>2, <1>3

\* A finished workflow ends the run.
LEMMA WorkflowDoneStep == IInv /\ WorkflowDone => IInv'
  BY EndsStep DEF WorkflowDone, IInv, TypeOK, HeadIsWhole, Gated, Awaits

\* A refusal ends the run, like any other error.
LEMMA ErrorsStep == IInv /\ Errors => IInv'
<1> SUFFICES ASSUME IInv, Errors PROVE IInv'
  OBVIOUS
<1>1. pc # "idle" /\ Fails /\ Elsewhere
  BY DEF Errors, RefuseSession, AgentFails, CorrectionFails, RejectResult, CommitFails, Interrupt
<1> QED BY <1>1, FailsStep

\* What a session is prepared with: a role that fits the stage, and no edits.
LEMMA PrepareStep ==
    ASSUME IInv, pc # "idle", pc' = "prepare", run' \in Runs, corrected' = None, Elsewhere,
           tree' \in Workspaces, head' \in Workspaces,
           HeadIsWhole', NothingPending', Chosen', Authorised', SessionIsOwn'
    PROVE  IInv'
<1>1. TypeOK'
  BY NothingOffered DEF IInv, TypeOK, Runs, Phases, Elsewhere
<1>2. Validating' /\ Committable' /\ DirectoryIsOwn'
  BY DEF Validating, Committable, DirectoryIsOwn, Sessional
<1>3. DiscardIsCurrent' /\ CorrectionIsBookkeeping'
  BY NothingOffered DEF DiscardIsCurrent, CorrectionIsBookkeeping, Elsewhere
<1> QED BY <1>1, <1>2, <1>3 DEF IInv

\* The role follows from the stage; in review it follows from a gated review.
LEMMA SelectRoleStep == IInv /\ SelectRole => IInv'
<1> SUFFICES ASSUME IInv, SelectRole PROVE IInv'
  OBVIOUS
<1> USE DEF SelectRole
<1> DEFINE role == RoleOf[tree.stage]
<1>1. tree \in Workspaces /\ tree.edits = {} /\ tree.stage \in {"develop", "review", "integrate"}
  BY DEF IInv, TypeOK, NothingPending, Workspaces, Stages
<1>2. role \in Roles
  BY <1>1 DEF RoleOf, Roles
<1>3. /\ tree' \in Workspaces /\ tree'.stage = tree.stage /\ tree'.record = tree.record
      /\ tree'.edits = tree.edits /\ tree'.configured = tree.configured
  BY <1>1 DEF Workspaces
<1>4. run' \in Runs /\ run'.role = role
  BY <1>2 DEF IInv, TypeOK, Runs
<1>5. HeadIsWhole' /\ NothingPending' /\ Chosen'
  BY <1>1, <1>3 DEF IInv, HeadIsWhole, Gated, Awaits, NothingPending, BeforeRole, Chosen
<1>6. Authorised' /\ SessionIsOwn'
  BY <1>1, <1>3, <1>4 DEF IInv, Authorised, SessionIsOwn, Sessional
<1> QED BY <1>3, <1>4, <1>5, <1>6, NothingOffered, PrepareStep DEF IInv, TypeOK

\* A satisfied prerequisite leaves fewer operations that need one.
LEMMA PrerequisiteResolvedStep == IInv /\ PrerequisiteResolved => IInv'
<1> SUFFICES ASSUME IInv, PrerequisiteResolved PROVE IInv'
  OBVIOUS
<1> USE DEF PrerequisiteResolved
<1> DEFINE cleared == Cleared(run.role, Operation)
<1>1. tree \in Workspaces /\ tree.edits = {}
  BY DEF IInv, TypeOK, NothingPending
<1>2. /\ cleared \in Workspaces /\ cleared.stage = tree.stage /\ cleared.record = tree.record
      /\ cleared.edits = tree.edits /\ cleared.configured = tree.configured
  BY <1>1 DEF Cleared, Workspaces
<1>3. IF cleared = tree THEN UNCHANGED <<tree, head>> ELSE Commits(cleared)
  OBVIOUS
<1> HIDE DEF cleared
<1>4. /\ tree' \in Workspaces /\ tree'.stage = tree.stage /\ tree'.record = tree.record
      /\ tree'.edits = tree.edits /\ tree'.configured = tree.configured
      /\ UNCHANGED head \/ head' = tree'
  BY <1>1, <1>2, <1>3, CommitEffect
<1>5. run' \in Runs /\ run'.role = run.role /\ run'.session = run.session
  BY OperationIsTyped DEF IInv, TypeOK, Runs
<1>6. tree.stage = "review" => tree.record # "none"
  BY DEF IInv, Chosen, Routed, Accounted, Unvalidated
<1>7. HeadIsWhole'
  BY <1>1, <1>4, <1>6 DEF IInv, HeadIsWhole, Gated, Awaits
<1>8. NothingPending' /\ Chosen'
  BY <1>1, <1>4 DEF IInv, NothingPending, BeforeRole, Chosen, Routed
<1>9. Authorised' /\ SessionIsOwn'
  BY <1>4, <1>5 DEF IInv, Authorised, SessionIsOwn, Routed, Sessional
<1> QED BY <1>4, <1>5, <1>7, <1>8, <1>9, NothingOffered, PrepareStep DEF IInv, TypeOK

\* A blocked prerequisite of a session is recorded and committed alone.
LEMMA PrerequisiteBlockedStep == IInv /\ PrerequisiteBlocked => IInv'
<1> SUFFICES ASSUME IInv, PrerequisiteBlocked PROVE IInv'
  OBVIOUS
<1> USE DEF PrerequisiteBlocked
<1> DEFINE blocked == Blocked(run.role, Operation)
<1>1. tree \in Workspaces /\ tree.edits = {} /\ (tree.stage = "review" => tree.record # "none")
  BY DEF IInv, TypeOK, NothingPending, Chosen, Routed, Accounted, Unvalidated
<1>2. run.role \in Roles
  BY <1>1 DEF IInv, SessionIsOwn, Routed, RoleOf, Roles, Workspaces, Stages
<1>3. blocked \in Workspaces /\ blocked.edits = {} /\ Gated(blocked)
  BY <1>1, <1>2, OperationIsTyped, BlockedEffect DEF Blocked, Gated
<1>4. IF blocked = tree THEN UNCHANGED <<tree, head>> ELSE Commits(blocked)
  OBVIOUS
<1> HIDE DEF blocked
<1>5. CASE UNCHANGED <<tree, head>>
  BY <1>5, EndsStep DEF IInv, TypeOK, HeadIsWhole, Gated, Awaits
<1>6. CASE Commits(blocked)
  BY <1>3, <1>6, CommitsAndEnds
<1> QED BY <1>4, <1>5, <1>6

-----------------------------------------------------------------------------
(* A session *)

\* While a session lasts, its role fits the stage, which is the commit's or a step back from it.
LEMMA RoleFits ==
    ASSUME IInv, pc \in Routed
    PROVE  \/ /\ run.role = "developer" /\ tree.stage = "develop"
              /\ head.stage \in {"develop", "review"}
           \/ run.role = "reviewer" /\ tree.stage = "review" /\ head.stage = "review"
           \/ run.role = "integrator" /\ tree.stage = "integrate" /\ head.stage = "integrate"
<1>1. tree.stage \in {"develop", "review", "integrate"}
  BY DEF IInv, TypeOK, Workspaces, Stages, SessionIsOwn
<1>2. run.role = RoleOf[tree.stage]
  BY DEF IInv, SessionIsOwn
<1>3. tree.stage = head.stage \/ (head.stage = "review" /\ tree.stage = "develop")
  BY DEF IInv, Chosen
<1> QED BY <1>1, <1>2, <1>3 DEF RoleOf

\* A step of a session changes neither the commit nor the stage of the task.
LEMMA SessionStep ==
    ASSUME IInv, pc # "idle", pc' \in Sessional, run' \in Runs, tree' \in Workspaces,
           UNCHANGED <<head, tagged, proposal>>, submissions' \subseteq Submissions,
           \/ corrected' = None
           \/ /\ corrected' \in [files : Workspaces, semantic : BOOLEAN]
              /\ pc' \in {"correction", "accept"},
           Chosen', SessionIsOwn', DirectoryIsOwn', CorrectionIsBookkeeping'
    PROVE  IInv'
<1>1. TypeOK'
  BY DEF IInv, TypeOK, Runs, Phases, Sessional
<1>2. HeadIsWhole' /\ DiscardIsCurrent'
  BY NothingOffered DEF IInv, HeadIsWhole, Gated, Awaits, DiscardIsCurrent
<1>3. NothingPending' /\ Validating' /\ Committable' /\ Authorised'
  BY DEF NothingPending, BeforeRole, Sessional, Validating, Committable, Authorised
<1> QED BY <1>1, <1>2, <1>3 DEF IInv

\* The session that begins has its directory to itself: an earlier submission is not of it.
LEMMA StartSessionStep == IInv /\ StartSession => IInv'
<1> SUFFICES ASSUME IInv, StartSession PROVE IInv'
  OBVIOUS
<1> USE DEF StartSession, Leaves
<1> DEFINE session == CHOOSE session \in Sessions : Idle(session)
<1>1. session \in Sessions /\ Idle(session)
  OBVIOUS
<1>2. /\ run' = [run EXCEPT !.session = session, !.step = 0,
                    !.evidence = run.role = "reviewer" /\ tree.record = "passed"]
      /\ tree' = [tree EXCEPT !.artifacts = FreshArtifacts(session)]
      /\ submissions' = {submission \in submissions : submission.role = run.role}
      /\ pc = "prepare" /\ pc' = "agent"
      /\ UNCHANGED <<head, tagged, proposal, corrected>>
  OBVIOUS
<1> HIDE DEF session, StartSession
<1>3. FreshArtifacts(session) \in Artifacts /\ tree \in Workspaces
  BY <1>1, ArtifactUpdates DEF IInv, TypeOK, Workspaces
<1>4. /\ tree' \in Workspaces /\ tree'.artifacts = FreshArtifacts(session)
      /\ tree'.stage = tree.stage /\ tree'.record = tree.record /\ tree'.edits = tree.edits
  BY <1>2, <1>3 DEF Workspaces
<1>5. /\ run' \in Runs /\ run'.session = session /\ run'.role = run.role
      /\ run.role = "reviewer" => (run'.evidence <=> tree.record = "passed")
  <2>1. ASSUME NEW evidence \in BOOLEAN
        PROVE  LET changed == [run EXCEPT !.session = session, !.step = 0, !.evidence = evidence]
               IN  /\ changed \in Runs /\ changed.session = session /\ changed.role = run.role
                   /\ changed.evidence = evidence
    BY <1>1 DEF IInv, TypeOK, Runs
  <2>2. (run.role = "reviewer" /\ tree.record = "passed") \in BOOLEAN
    OBVIOUS
  <2> QED BY <1>2, <2>1, <2>2, Zenon
<1>6. Chosen' /\ SessionIsOwn'
  BY <1>1, <1>2, <1>4, <1>5
     DEF IInv, Chosen, NothingPending, SessionIsOwn, Routed, Sessional
<1>7. DirectoryIsOwn'
  <2>1. /\ FreshArtifacts(session).envelope = session
        /\ FreshArtifacts(session).result.session # session
    BY <1>1, SubmissionAssumption DEF FreshArtifacts, EmptyArtifacts, NoResult
  <2>2. \A submission \in submissions' : submission.session # session
    BY <1>1, <1>2 DEF Idle
  <2> QED BY <1>4, <1>5, <2>1, <2>2 DEF DirectoryIsOwn
<1>8. CorrectionIsBookkeeping' /\ corrected' = None
  BY <1>2, NothingOffered DEF CorrectionIsBookkeeping
<1> QED BY <1>2, <1>4, <1>5, <1>6, <1>7, <1>8, SessionStep DEF IInv, TypeOK, Sessional

\* What an agent, or a correction, may do to the workspace.
LEMMA WorkEffect ==
    ASSUME IInv, NEW candidate \in Candidates, NEW boxes \in BOOLEAN, NEW configured \in BOOLEAN,
           NEW edits \in SUBSET Sessions,
           tree' = [tree EXCEPT !.edits = edits, !.boxes = boxes, !.configured = configured,
                                !.artifacts.candidate = candidate]
    PROVE  /\ tree' \in Workspaces
           /\ tree'.stage = tree.stage /\ tree'.record = tree.record /\ tree'.edits = edits
           /\ tree'.artifacts.envelope = tree.artifacts.envelope
           /\ tree'.artifacts.handoff = tree.artifacts.handoff
           /\ tree'.artifacts.result = tree.artifacts.result
<1>1. tree \in Workspaces /\ tree.artifacts \in Artifacts
  BY DEF IInv, TypeOK, Workspaces
<1>2. [tree.artifacts EXCEPT !.candidate = candidate] \in Artifacts
  BY <1>1, ArtifactUpdates
<1>3. tree' \in Workspaces
  BY <1>1, <1>2 DEF Workspaces
<1> QED BY <1>1, <1>3 DEF Workspaces, Artifacts

\* What an agent edits is unprocessed until its result is accepted.
LEMMA WorksStep == ASSUME IInv, AgentWorks \/ CorrectionWorks PROVE IInv'
<1>1. /\ pc \in {"agent", "correction"}
      /\ UNCHANGED <<head, tagged, submissions, proposal, pc, run, corrected>>
  BY DEF AgentWorks, CorrectionWorks, Leaves, Elsewhere
<1>2. run.session \in Sessions /\ tree.edits \subseteq {run.session} /\ tree \in Workspaces
  BY <1>1 DEF IInv, TypeOK, SessionIsOwn, Sessional
<1>3. PICK candidate \in Candidates, boxes \in BOOLEAN, configured \in BOOLEAN,
           edits \in {tree.edits, tree.edits \cup {run.session}} :
        tree' = [tree EXCEPT !.edits = edits, !.boxes = boxes, !.configured = configured,
                             !.artifacts.candidate = candidate]
  <2>1. tree.configured \in BOOLEAN /\ tree.artifacts \in Artifacts
    BY <1>2 DEF Workspaces
  <2>2. CASE AgentWorks
    BY <2>1, <2>2 DEF AgentWorks, Leaves
  <2>3. CASE CorrectionWorks
    <3>1. PICK candidate \in Candidates, boxes \in BOOLEAN,
               edits \in {tree.edits, tree.edits \cup {run.session}} :
            tree' = [tree EXCEPT !.boxes = boxes, !.edits = edits,
                                 !.artifacts.candidate = candidate]
      BY <2>3 DEF CorrectionWorks, Leaves
    <3>2. tree' = [tree EXCEPT !.edits = edits, !.boxes = boxes, !.configured = tree.configured,
                               !.artifacts.candidate = candidate]
      BY <1>2, <3>1 DEF Workspaces
    <3> QED BY <2>1, <3>2
  <2> QED BY <2>2, <2>3
<1>4. edits \in SUBSET Sessions /\ edits \subseteq {run.session}
  BY <1>2
<1>5. /\ tree' \in Workspaces
      /\ tree'.stage = tree.stage /\ tree'.record = tree.record /\ tree'.edits = edits
      /\ tree'.artifacts.envelope = tree.artifacts.envelope
      /\ tree'.artifacts.handoff = tree.artifacts.handoff
      /\ tree'.artifacts.result = tree.artifacts.result
  BY <1>3, <1>4, WorkEffect
<1>6. Chosen' /\ SessionIsOwn'
  BY <1>1, <1>4, <1>5 DEF IInv, Chosen, SessionIsOwn
<1>7. DirectoryIsOwn'
  BY <1>1, <1>5 DEF IInv, DirectoryIsOwn
<1>8. CorrectionIsBookkeeping'
  BY <1>1 DEF CorrectionIsBookkeeping
<1> QED BY <1>1, <1>5, <1>6, <1>7, <1>8, SessionStep DEF IInv, TypeOK, Runs, Sessional

\* The directory the orchestrator reads is that of the session it ran.
LEMMA HandsOver ==
    ASSUME IInv, pc \in {"agent", "handoff", "correction"}, pc' \in {"handoff", "accept"},
           UNCHANGED <<tree, head, tagged, submissions, proposal, run, corrected>>,
           corrected # None => pc' = "accept",
           CorrectionIsBookkeeping'
    PROVE  IInv'
<1>1. Chosen' /\ SessionIsOwn' /\ DirectoryIsOwn'
  BY DEF IInv, Chosen, Routed, Sessional, SessionIsOwn, DirectoryIsOwn
<1> QED BY <1>1, SessionStep DEF IInv, TypeOK, Runs, Sessional

\* An invocation that succeeded has processed nothing yet.
LEMMA AgentSucceedsStep == IInv /\ AgentSucceeds => IInv'
  BY HandsOver, NothingOffered DEF AgentSucceeds, Continues, Elsewhere, CorrectionIsBookkeeping

\* What the correction changed besides the submission is nothing, or boxes it was asked to check.
LEMMA CorrectionEndsStep == IInv /\ CorrectionEnds => IInv'
<1> SUFFICES ASSUME IInv, CorrectionEnds PROVE IInv'
  OBVIOUS
<1> USE DEF CorrectionEnds
<1>1. CASE Fails
  BY <1>1, FailsStep
<1>2. CASE CorrectionIsNarrow /\ Continues("accept") /\ UNCHANGED <<tree, head>>
  <2>1. ASSUME corrected # None
        PROVE  /\ tree.edits = corrected.files.edits
               /\ tree.boxes = corrected.files.boxes \/ (tree.boxes /\ corrected.semantic)
    <3>1. corrected.files \in Workspaces /\ tree \in Workspaces
      BY <2>1 DEF IInv, TypeOK
    <3>2. Files.edits = tree.edits /\ Files.boxes = tree.boxes
      BY <3>1 DEF Files, Workspaces
    <3>3. CASE Files = corrected.files
      BY <3>2, <3>3
    <3>4. CASE corrected.semantic /\ Files = [corrected.files EXCEPT !.boxes = TRUE]
      BY <3>1, <3>2, <3>4 DEF Workspaces
    <3> QED BY <1>2, <3>3, <3>4 DEF CorrectionIsNarrow
  <2>2. CorrectionIsBookkeeping'
    BY <1>2, <2>1 DEF Continues, CorrectionIsBookkeeping
  <2> QED BY <1>2, <2>2, HandsOver DEF Continues, Elsewhere
<1> QED BY <1>1, <1>2

\* The orchestrator's own submission is of the envelope in the directory, its session's.
LEMMA SubmitHandoffStep == IInv /\ SubmitHandoff => IInv'
<1> SUFFICES ASSUME IInv, SubmitHandoff PROVE IInv'
  OBVIOUS
<1> DEFINE artifacts == IF HasResult(tree.artifacts) THEN tree.artifacts
                        ELSE Submitted(Role, tree.artifacts, tree.boxes)
           semantic == MaySubmit(tree.artifacts) /\ SemanticConflict(Role, tree.artifacts, tree.boxes)
<1>1. /\ pc = "handoff" /\ tree' = [tree EXCEPT !.artifacts = artifacts]
      /\ UNCHANGED <<head, tagged, submissions, proposal, run>>
      /\ \/ pc' = "accept" /\ corrected' = corrected
         \/ pc' = "correction" /\ corrected' = [files |-> Files, semantic |-> semantic]
  BY DEF SubmitHandoff, Leaves, Continues, Elsewhere
<1>2. /\ tree \in Workspaces /\ tree.artifacts \in Artifacts /\ run.session \in Sessions
      /\ tree.artifacts.envelope = run.session /\ corrected = None
  BY <1>1, NothingOffered DEF IInv, TypeOK, Workspaces, SessionIsOwn, DirectoryIsOwn, Sessional
<1>3. Role \in Roles
  BY <1>1, RoleFits DEF Role, RoleOf, Roles, Routed, Sessional
<1>4. /\ Submission(Role, tree.artifacts) \in Submissions
      /\ Submission(Role, tree.artifacts).session = run.session
  BY <1>2, <1>3 DEF Submission, Submissions, Artifacts
<1>5. /\ artifacts \in Artifacts /\ artifacts.envelope = run.session
      /\ tree.artifacts.handoff # None => artifacts.handoff # None
      /\ artifacts.result.session = tree.artifacts.result.session \/ artifacts.handoff # None
  <2> DEFINE submission == Submission(Role, tree.artifacts)
             submitted == WithResult(WithHandoff(tree.artifacts, submission), submission)
  <2>1. CASE artifacts = tree.artifacts
    BY <1>2, <2>1
  <2>2. CASE MaySubmit(tree.artifacts) /\ artifacts = WithAttempt(tree.artifacts)
    <3>1. artifacts \in Artifacts
      BY <1>2, <2>2, ArtifactUpdates
    <3>2. /\ artifacts.envelope = tree.artifacts.envelope
          /\ artifacts.handoff = tree.artifacts.handoff
          /\ artifacts.result = tree.artifacts.result
      BY <1>2, <2>2 DEF WithAttempt, Artifacts
    <3> QED BY <1>2, <3>1, <3>2
  <2>3. CASE artifacts = submitted
    <3>1. WithHandoff(tree.artifacts, submission) \in Artifacts
      BY <1>2, <1>4, ArtifactUpdates
    <3>2. submitted \in Artifacts
      BY <1>4, <3>1, ArtifactUpdates
    <3>3. submitted.envelope = run.session /\ submitted.handoff = run.session
      BY <1>2, <1>4, <3>1 DEF WithResult, WithHandoff, Artifacts
    <3> QED BY <1>2, <2>3, <3>2, <3>3, SubmissionAssumption
  <2> QED BY <2>1, <2>2, <2>3 DEF Submitted
<1> HIDE DEF artifacts
<1>6. /\ tree' \in Workspaces /\ tree'.artifacts = artifacts
      /\ tree'.stage = tree.stage /\ tree'.record = tree.record /\ tree'.edits = tree.edits
  BY <1>1, <1>2, <1>5 DEF Workspaces
<1>7. [files |-> Files, semantic |-> semantic] \in [files : Workspaces, semantic : BOOLEAN]
  <2>1. Files \in Workspaces
    BY <1>2, WorkspaceUpdates, ArtifactUpdates DEF Files
  <2>2. semantic \in BOOLEAN
    BY DEF MaySubmit, SemanticConflict
  <2> HIDE DEF semantic
  <2> QED BY <2>1, <2>2
<1>8. Chosen' /\ SessionIsOwn'
  BY <1>1, <1>6 DEF IInv, Chosen, Routed, SessionIsOwn, Sessional
<1>9. DirectoryIsOwn'
  BY <1>1, <1>5, <1>6 DEF IInv, DirectoryIsOwn, Sessional
<1>10. CorrectionIsBookkeeping'
  BY <1>1, <1>2 DEF CorrectionIsBookkeeping
<1> QED BY <1>1, <1>2, <1>6, <1>7, <1>8, <1>9, <1>10, SessionStep DEF IInv, TypeOK, Runs, Sessional

\* The result that is accepted is of the running session and has its handoff.
LEMMA AcceptResultStep == IInv /\ AcceptResult => IInv'
<1> SUFFICES ASSUME IInv, AcceptResult PROVE IInv'
  OBVIOUS
<1> USE DEF AcceptResult, Leaves, Elsewhere
<1>1. tree \in Workspaces /\ tree.artifacts.result.outcome \in Candidates
  BY DEF IInv, TypeOK, Workspaces, Artifacts
<1>2. /\ tree' \in Workspaces
      /\ tree'.stage = tree.stage /\ tree'.record = tree.record /\ tree'.edits = tree.edits
  <2>1. EmptyArtifacts \in Artifacts
    BY <1>1, ArtifactUpdates DEF Workspaces
  <2> QED BY <1>1, <2>1 DEF Workspaces
<1>3. /\ run' \in Runs /\ run'.session = run.session /\ run'.role = run.role
      /\ run'.evidence = run.evidence
  BY <1>1 DEF IInv, TypeOK, Runs
<1>4. Chosen' /\ SessionIsOwn'
  BY <1>2, <1>3 DEF IInv, Chosen, Routed, SessionIsOwn, Sessional
<1>5. DirectoryIsOwn' /\ CorrectionIsBookkeeping'
  BY DEF DirectoryIsOwn, CorrectionIsBookkeeping
<1> QED BY <1>2, <1>3, <1>4, <1>5, SessionStep DEF IInv, TypeOK, Sessional

-----------------------------------------------------------------------------
(* An accepted result *)

\* With its edits recorded, a session leaves none that were not processed.
LEMMA ArchivedEffect ==
    ASSUME IInv, pc \in {"process", "validate"}
    PROVE  /\ Archived \in Workspaces /\ Archived.edits = {} /\ Archived.stage = tree.stage
           /\ Archived.record \in {tree.record, "none"}
           /\ Archived.record # tree.record => Edited /\ tree.record = "passed"
<1>1. tree \in Workspaces /\ tree.edits \subseteq {run.session}
  BY DEF IInv, TypeOK, SessionIsOwn, Sessional
<1>2. tree.edits \ {run.session} = {}
  BY <1>1
<1> QED BY <1>1, <1>2 DEF Archived, Edited, Workspaces, Records

\* A result leads to its validation, or to its commit.
LEMMA ResultStep ==
    ASSUME IInv, pc \in {"process", "validate"}, pc' \in {"validate", "commit"},
           UNCHANGED <<head, run, corrected>>, Elsewhere, tree' \in Workspaces,
           pc' = "commit" => tree'.edits = {}, tree'.edits \subseteq {run.session},
           Validating', Committable'
    PROVE  IInv'
<1> USE DEF Elsewhere
<1>1. TypeOK'
  BY NothingOffered DEF IInv, TypeOK, Phases
<1>2. HeadIsWhole' /\ DiscardIsCurrent'
  BY NothingOffered DEF IInv, HeadIsWhole, Gated, Awaits, DiscardIsCurrent
<1>3. NothingPending' /\ Chosen' /\ SessionIsOwn'
  BY DEF IInv, NothingPending, BeforeRole, Chosen, SessionIsOwn, Routed, Sessional
<1>4. Authorised' /\ DirectoryIsOwn' /\ CorrectionIsBookkeeping'
  BY DEF Authorised, DirectoryIsOwn, Sessional, CorrectionIsBookkeeping
<1> QED BY <1>1, <1>2, <1>3, <1>4 DEF IInv

\* How far the task may move by one commit.
LEMMA Moves ==
    /\ Committed!After["develop"] = {"develop", "review"}
    /\ Committed!After["review"] = {"review", "develop", "integrate"}
    /\ Committed!After["integrate"] = {"integrate", "develop", "done"}
    /\ Committed!After["done"] = {"done"}
  BY DEF Committed!After

\* A developer's result moves the task to review or leaves it, and its edits count.
LEMMA ProcessDeveloperStep == IInv /\ ProcessDeveloper => IInv'
<1> SUFFICES ASSUME IInv, ProcessDeveloper PROVE IInv'
  OBVIOUS
<1> USE DEF ProcessDeveloper, Leaves, Continues
<1>1. /\ tree.stage = "develop" /\ head.stage \in {"develop", "review"} /\ run.role = "developer"
      /\ Archived \in Workspaces /\ Archived.edits = {}
  BY RoleFits, ArchivedEffect DEF Routed, Sessional
<1>2. /\ tree' \in Workspaces /\ tree'.edits = {} /\ tree'.stage \in {"develop", "review"}
      /\ run.outcome # "completed" => tree'.record # "none"
  BY <1>1 DEF Workspaces, Stages, Records, Unvalidated
<1>3. Validating'
  BY <1>1, <1>2 DEF Validating
<1>4. Committable'
  BY <1>1, <1>2, Moves DEF Committable, Roles
<1> QED BY <1>1, <1>2, <1>3, <1>4, ResultStep

\* A review without evidence began with a record that is not of a pass, and leaves it.
LEMMA ProcessReviewerStep == IInv /\ ProcessReviewer => IInv'
<1> SUFFICES ASSUME IInv, ProcessReviewer PROVE IInv'
  OBVIOUS
<1> USE DEF ProcessReviewer, Continues
<1>1. /\ tree.stage = "review" /\ head.stage = "review" /\ run.role = "reviewer"
      /\ tree.record \in Accounted /\ (run.evidence <=> tree.record = "passed")
      /\ tree.edits \subseteq {run.session} /\ tree \in Workspaces
  BY RoleFits DEF Routed, Sessional, IInv, Chosen, SessionIsOwn, TypeOK
<1>2. CASE UNCHANGED tree /\ pc' = "validate"
  <2>1. Validating' /\ Committable'
    BY <1>1, <1>2 DEF Validating, Committable
  <2> QED BY <1>1, <1>2, <2>1, ResultStep
<1>3. CASE pc' = "commit"
  <2>1. PICK verdict \in {"integrate", "develop"} :
          /\ ~(run.evidence /\ verdict = "integrate" /\ Edited)
          /\ tree' = [Archived EXCEPT !.stage = verdict]
    BY <1>3
  <2>2. /\ Archived \in Workspaces /\ Archived.edits = {}
        /\ Archived.record # tree.record => Edited /\ tree.record = "passed"
    BY ArchivedEffect
  <2>3. /\ tree' \in Workspaces /\ tree'.edits = {} /\ tree'.stage = verdict
        /\ tree'.record = Archived.record
    BY <2>1, <2>2 DEF Workspaces, Stages
  <2>4. verdict = "integrate" => tree'.record \in Accounted
    BY <1>1, <2>1, <2>2, <2>3
  <2>5. Validating' /\ Committable'
    BY <1>1, <1>3, <2>3, <2>4, Moves DEF Validating, Committable, Roles
  <2> QED BY <1>3, <2>3, <2>5, ResultStep
<1> QED BY <1>2, <1>3

\* An integrator's result finishes the milestone or reopens the task.
LEMMA ProcessIntegratorStep == IInv /\ ProcessIntegrator => IInv'
<1> SUFFICES ASSUME IInv, ProcessIntegrator PROVE IInv'
  OBVIOUS
<1> USE DEF ProcessIntegrator, Leaves, Continues
<1>1. /\ head.stage = "integrate" /\ run.role = "integrator"
      /\ Archived \in Workspaces /\ Archived.edits = {}
  BY RoleFits, ArchivedEffect DEF Routed, Sessional
<1>2. /\ UNCHANGED head
      /\ \/ tree' = [Archived EXCEPT !.stage = "done"]
         \/ tree' = [Archived EXCEPT !.stage = "develop", !.boxes = FALSE, !.record = "none",
                                     !.ready = FALSE]
  OBVIOUS
<1>3. tree' \in Workspaces /\ tree'.edits = {} /\ tree'.stage \in {"done", "develop"}
  BY <1>1, <1>2 DEF Workspaces, Stages, Records
<1>4. Validating' /\ Committable'
  BY <1>1, <1>2, <1>3, Moves DEF Validating, Committable, Roles
<1> QED BY <1>2, <1>3, <1>4, ResultStep

\* The milestone stays where it is.
LEMMA MilestoneUnvalidatedStep == IInv /\ MilestoneUnvalidated => IInv'
<1> SUFFICES ASSUME IInv, MilestoneUnvalidated PROVE IInv'
  OBVIOUS
<1> USE DEF MilestoneUnvalidated
<1>1. /\ tree.stage = "integrate" /\ Archived \in Workspaces /\ Archived.edits = {}
      /\ Archived.stage = tree.stage
  BY RoleFits, ArchivedEffect DEF Routed, Sessional
<1> DEFINE blocked == [Archived EXCEPT !.blocker = Blocker("integrator", "validation")]
<1>2. blocked \in Workspaces /\ blocked.edits = {} /\ blocked.stage = "integrate"
  BY <1>1, BlockedEffect DEF Roles
<1>3. Commits(blocked) \/ Commits(Archived)
  OBVIOUS
<1> HIDE DEF blocked
<1> QED BY <1>1, <1>2, <1>3, CommitsAndEnds DEF Gated

\* After a pass the task is where the result put it, and its record says so.
LEMMA ValidateTaskStep == IInv /\ ValidateTask => IInv'
<1> SUFFICES ASSUME IInv, ValidateTask PROVE IInv'
  OBVIOUS
<1> USE DEF ValidateTask, Leaves, Continues
<1>1. tree \in Workspaces /\ Archived \in Workspaces /\ Archived.edits = {}
  BY ArchivedEffect DEF IInv, TypeOK
<1>2. \/ /\ run.role = "developer" /\ tree.edits = {}
         /\ head.stage \in {"develop", "review"} /\ tree.stage \in {"develop", "review"}
      \/ run.role = "reviewer" /\ head.stage = "review" /\ tree.stage = "review"
  BY DEF IInv, Validating
<1>3. /\ AfterPass \in Workspaces /\ AfterPass.edits = {} /\ AfterPass.record = "passed"
      /\ AfterPass.stage = IF run.role = "reviewer" THEN "integrate" ELSE tree.stage
  BY <1>1, <1>2 DEF AfterPass, Workspaces, Stages, Records
<1>4. /\ UNCHANGED head
      /\ tree' = AfterPass \/ tree' = [AfterPass EXCEPT !.record = "failed", !.stage = "develop"]
  OBVIOUS
<1>5. /\ tree' \in Workspaces /\ tree'.edits = {}
      /\ \/ tree'.stage = "develop"
         \/ tree'.record = "passed" /\ tree'.stage = AfterPass.stage
  BY <1>3, <1>4 DEF Workspaces, Stages, Records
<1>6. Validating' /\ Committable'
  BY <1>2, <1>3, <1>4, <1>5, Moves DEF Validating, Committable, Roles, Accounted
<1> QED BY <1>4, <1>5, <1>6, ResultStep

\* Without a validation the task awaits it: the blocker says so, or the record.
LEMMA TaskUnvalidatedStep == IInv /\ TaskUnvalidated => IInv'
<1> SUFFICES ASSUME IInv, TaskUnvalidated PROVE IInv'
  OBVIOUS
<1> USE DEF TaskUnvalidated
<1>1. /\ Archived \in Workspaces /\ Archived.edits = {} /\ Archived.stage = tree.stage
      /\ run.role \in {"developer", "reviewer"}
  BY ArchivedEffect DEF IInv, Validating
<1> DEFINE blocked == [Archived EXCEPT !.blocker = Blocker(run.role, "validation")]
           unverified == [Archived EXCEPT !.record = "unverified"]
<1>2. blocked \in Workspaces /\ blocked.edits = {} /\ Awaits(blocked)
  <2>1. blocked \in Workspaces /\ blocked.edits = {}
        /\ blocked.blocker = Blocker(run.role, "validation")
    <3>1. run.role \in Roles
      BY <1>1 DEF Roles
    <3> QED BY <1>1, <3>1, BlockedEffect
  <2> HIDE DEF blocked
  <2> QED BY <1>1, <2>1 DEF Awaits
<1>3. unverified \in Workspaces /\ unverified.edits = {} /\ unverified.record # "none"
  BY <1>1 DEF Workspaces, Records
<1>4. Stops /\ Elsewhere /\ (Commits(blocked) \/ Commits(unverified))
  OBVIOUS
<1> HIDE DEF blocked, unverified
<1> QED BY <1>2, <1>3, <1>4, CommitsAndEnds DEF Gated

\* The commit of a session, and what the next loop finds.
LEMMA CommitStep == IInv /\ Commit => IInv'
<1> SUFFICES ASSUME IInv, Commit PROVE IInv'
  OBVIOUS
<1> USE DEF Commit, NextPhase, Elsewhere
<1>1. tree \in Workspaces /\ tree.edits = {} /\ run.role \in Roles /\ Gated(tree)
  BY DEF IInv, TypeOK, NothingPending, Committable, Gated
<1>2. /\ tree' \in Workspaces /\ head' = tree' /\ tree'.stage = tree.stage
      /\ tree'.edits = {} /\ Gated(tree)'
  BY <1>1, CommitEffect
<1>3. run' \in Runs /\ run'.role = run.role /\ run.role # None
  <2>1. run' \in Runs /\ run'.role = run.role
    BY DEF IInv, TypeOK, Runs, Candidates
  <2>2. run.role # None
    BY <1>1, SessionAssumption
  <2> QED BY <2>1, <2>2
<1>4. HeadIsWhole' /\ NothingPending'
  BY <1>2 DEF HeadIsWhole, Gated, Awaits, NothingPending, BeforeRole
<1>5. Chosen' /\ Authorised'
  BY <1>3 DEF Chosen, Routed, Sessional, Authorised
<1> QED BY <1>2, <1>3, <1>4, <1>5, NothingOffered, LoopStep DEF IInv, TypeOK, BeforeRole

\* Only finished work that is committed is tagged.
LEMMA CreateTagStep == IInv /\ CreateTag => IInv'
<1> SUFFICES ASSUME IInv, CreateTag PROVE IInv'
  OBVIOUS
<1> USE DEF CreateTag, Continues
<1>1. HeadIsWhole' /\ NothingPending'
  BY DEF IInv, HeadIsWhole, Gated, Awaits, NothingPending, BeforeRole
<1>2. Chosen' /\ Authorised'
  BY DEF IInv, Chosen, Routed, Sessional, Authorised
<1> QED BY <1>1, <1>2, NothingOffered, LoopStep DEF IInv, TypeOK, BeforeRole, Runs

-----------------------------------------------------------------------------
(* The inductive invariant *)

\* The first commit is whole.
LEMMA InitIInv == Init => IInv
<1> SUFFICES ASSUME Init PROVE IInv
  OBVIOUS
<1> USE DEF Init
<1>1. NoResult \in [session : Sessions \cup {None}, outcome : Candidates]
  BY DEF NoResult, Candidates
<1>2. EmptyArtifacts \in Artifacts
  BY <1>1, SubmissionAssumption DEF EmptyArtifacts, Artifacts, Candidates
<1>3. InitialWorkspace \in Workspaces
  BY <1>2 DEF InitialWorkspace, Workspaces, Stages, Records
<1>4. TypeOK
  BY <1>3 DEF TypeOK, NoRun, Candidates, Phases
<1>5. HeadIsWhole
  BY DEF HeadIsWhole, Gated, InitialWorkspace
<1>6. NothingPending /\ Chosen /\ SessionIsOwn /\ Validating
  BY DEF NothingPending, BeforeRole, Chosen, Routed, SessionIsOwn, Sessional, Validating
<1>7. Committable /\ Authorised /\ DirectoryIsOwn /\ DiscardIsCurrent /\ CorrectionIsBookkeeping
  BY DEF Committable, Authorised, DirectoryIsOwn, Sessional, DiscardIsCurrent,
         CorrectionIsBookkeeping
<1> QED BY <1>4, <1>5, <1>6, <1>7 DEF IInv

\* Each action keeps the invariant.
LEMMA NextIInv == IInv /\ [Next]_vars => IInv'
<1> SUFFICES ASSUME IInv, [Next]_vars PROVE IInv'
  OBVIOUS
<1>1. CASE Prepare
  BY <1>1, BeginLoopStep, NoRetryStep, RetryBeginsStep, RetryRunsStep, WorkflowDoneStep,
     SelectRoleStep, PrerequisiteResolvedStep, StartSessionStep DEF Prepare
<1>2. CASE Perform
  BY <1>2, WorksStep, AgentSucceedsStep, SubmitHandoffStep, CorrectionEndsStep, AcceptResultStep,
     ProcessDeveloperStep, ProcessReviewerStep, ProcessIntegratorStep, ValidateTaskStep,
     CommitStep, CreateTagStep DEF Perform
<1>3. CASE Blocks
  BY <1>3, RetryBlockedStep, PrerequisiteBlockedStep, MilestoneUnvalidatedStep,
     TaskUnvalidatedStep DEF Blocks
<1>4. CASE Errors
  BY <1>4, ErrorsStep
<1>5. CASE Submits
  BY <1>5, BeginSubmissionStep, RefuseSubmissionStep, PublishSubmissionStep, SubmissionDiesStep
     DEF Submits
<1>6. CASE Operator \/ Others
  BY <1>6, StartRunStep, ProposalStep, DiscardStep, OwnCommitStep DEF Operator, Others
<1>7. CASE UNCHANGED vars
  BY <1>7 DEF vars, IInv, TypeOK, HeadIsWhole, Gated, Awaits, NothingPending, Chosen, SessionIsOwn,
              Validating, Committable, Authorised, DirectoryIsOwn, DiscardIsCurrent,
              CorrectionIsBookkeeping
<1> QED BY <1>1, <1>2, <1>3, <1>4, <1>5, <1>6, <1>7 DEF Next

\* The invariant holds in every state.
THEOREM Invariance == Spec => []IInv
  BY InitIInv, NextIInv, PTL DEF Spec

-----------------------------------------------------------------------------
(* What follows *)

\* The types of the variables: what an idle run remembers, and when a correction is remembered.
THEOREM TypeCorrect == Spec => []TypeOK
<1>1. IInv => TypeOK
  BY DEF IInv
<1> QED BY <1>1, Invariance, PTL

\* No correction of a handoff changes the product, and it checks boxes only if these were
\* missing (handoff correction in _run_loop).
THEOREM CorrectionsAreBookkeeping == Spec => []CorrectionIsBookkeeping
<1>1. IInv => CorrectionIsBookkeeping
  BY DEF IInv
<1> QED BY <1>1, Invariance, PTL

\* The result that is applied is whole and the running session's (load_accepted_result).
THEOREM ResultsAreWhole == Spec => AppliesWholeResult
<1> DEFINE Applies == pc = "accept" /\ pc' = "process"
           Whole == tree.artifacts.result.session = run.session /\ tree.artifacts.handoff # None
<1>1. IInv /\ Next /\ Applies => Whole
  <2> SUFFICES ASSUME IInv, Next, Applies PROVE Whole
    OBVIOUS
  <2>1. AcceptResult
    BY DEF Next, Prepare, BeginLoop, NoRetry, RetryBegins, RetryRuns, WorkflowDone, SelectRole,
           PrerequisiteResolved, StartSession, Perform, AgentWorks, AgentSucceeds, SubmitHandoff,
           CorrectionWorks, CorrectionEnds, ProcessDeveloper, ProcessReviewer, ProcessIntegrator,
           ValidateTask, Commit, CreateTag, Blocks, RetryBlocked, PrerequisiteBlocked,
           MilestoneUnvalidated, TaskUnvalidated, Errors, RefuseSession, AgentFails,
           CorrectionFails, RejectResult, CommitFails, Interrupt, Submits, BeginSubmission,
           RefuseSubmission, PublishSubmission, SubmissionDies, Operator, StartRun,
           ProposeDiscard, ConfirmDiscard, DiscardInterrupted, Others, DeclineDiscard, OwnCommit,
           Stops, Fails
  <2> QED BY <2>1 DEF AcceptResult, OwnResult, IInv, DirectoryIsOwn, Sessional
<1>2. IInv /\ [Next]_vars => [Applies => Whole]_vars
  BY <1>1
<1> QED BY <1>2, Invariance, PTL DEF Spec, AppliesWholeResult

\* No review begins before the content is accounted for (_retry_unverified_task_validation).
THEOREM ReviewsAreGated == Spec => ReviewIsGated
<1> DEFINE Begins == pc = "prepare" /\ pc' = "agent" /\ run.role = "reviewer"
<1>1. IInv /\ Begins => tree.record \in Accounted
  <2> SUFFICES ASSUME IInv, Begins PROVE tree.record \in Accounted
    OBVIOUS
  <2> QED BY RoleFits DEF Routed, IInv, Chosen
<1>2. IInv /\ [Next]_vars => [Begins => tree.record \in Accounted]_vars
  BY <1>1
<1> QED BY <1>2, Invariance, PTL DEF Spec, ReviewIsGated

\* No integrator begins with configuration that changed during the milestone.
THEOREM AuthorisationIsAsked == Spec => AsksAgain
<1> DEFINE Begins == pc = "prepare" /\ pc' = "agent" /\ tree.configured
<1>1. IInv /\ Begins => run.role # "integrator"
  <2> SUFFICES ASSUME IInv, Begins PROVE run.role # "integrator"
    OBVIOUS
  <2> QED BY RoleFits DEF Routed, IInv, Authorised
<1>2. IInv /\ [Next]_vars => [Begins => run.role # "integrator"]_vars
  BY <1>1
<1> QED BY <1>2, Invariance, PTL DEF Spec, AsksAgain

\* The discard of an interrupted session does not take the operator's earlier commit with it.
THEOREM OperatorsCommitsAreKept == Spec => KeepsOperatorsCommits
<1> DEFINE Idles == pc = "idle" /\ pc' = "idle" /\ head.own = "early"
<1>1. IInv /\ [Next]_vars /\ Idles => head'.own = "early"
  <2> SUFFICES ASSUME IInv, [Next]_vars, Idles PROVE head'.own = "early"
    OBVIOUS
  <2>1. CASE DiscardInterrupted
    BY <2>1 DEF DiscardInterrupted, IInv, DiscardIsCurrent
  <2>2. CASE \/ Submits \/ ProposeDiscard \/ ConfirmDiscard \/ DeclineDiscard \/ OwnCommit
             \/ UNCHANGED vars
    BY <2>2 DEF Submits, BeginSubmission, RefuseSubmission, PublishSubmission, SubmissionDies,
                Leaves, ProposeDiscard, ConfirmDiscard, DeclineDiscard, OwnCommit, repository, vars
  <2>3. ~Prepare /\ ~Perform /\ ~Blocks /\ ~Errors /\ ~StartRun
    BY DEF Prepare, BeginLoop, NoRetry, RetryBegins, RetryRuns, WorkflowDone, SelectRole,
           PrerequisiteResolved, StartSession, Perform, AgentWorks, AgentSucceeds, SubmitHandoff,
           CorrectionWorks, CorrectionEnds, AcceptResult, ProcessDeveloper, ProcessReviewer,
           ProcessIntegrator, ValidateTask, Commit, CreateTag, Blocks, RetryBlocked,
           PrerequisiteBlocked, MilestoneUnvalidated, TaskUnvalidated, Errors, RefuseSession,
           AgentFails, CorrectionFails, RejectResult, CommitFails, Interrupt, StartRun
  <2> QED BY <2>1, <2>2, <2>3 DEF Next, Operator, Others
<1>2. IInv /\ [Next]_vars => [Idles => head'.own = "early"]_vars
  BY <1>1
<1> QED BY <1>2, Invariance, PTL DEF Spec, KeepsOperatorsCommits

-----------------------------------------------------------------------------
(* The last commit implements committed work *)

\* What a commit may do to the task.
Progress ==
    /\ head'.stage \in Committed!After[head.stage]
    /\ head.stage = "review" /\ head'.stage = "integrate" => head'.record \in Accounted

\* A commit that leaves the stage is progress, or none, of the abstract specification.
LEMMA Stays == IInv /\ head'.stage = head.stage => Progress
  BY Moves DEF IInv, TypeOK, Workspaces, Stages, Progress

\* A commit outside a session leaves the task where it is, or takes it back to development.
LEMMA BlocksProgress ==
    IInv /\ (Blocks \/ PrerequisiteResolved \/ RetryBegins \/ RetryRuns) => Progress
<1> SUFFICES ASSUME IInv, Blocks \/ PrerequisiteResolved \/ RetryBegins \/ RetryRuns PROVE Progress
  OBVIOUS
<1>1. tree \in Workspaces /\ tree.stage \in Stages
  BY DEF IInv, TypeOK, Workspaces
<1>2. CASE UNCHANGED head
  BY <1>2, Stays
<1>3. ASSUME NEW w \in Workspaces, Commits(w), w.stage = tree.stage,
             pc \in {"retry", "validating", "prepare", "process", "validate"}
      PROVE  Progress
  <2>1. head'.stage = tree.stage
    BY <1>3, CommitEffect
  <2>2. CASE tree.stage = head.stage
    BY <2>1, <2>2, Stays
  <2>3. CASE tree.stage # head.stage
    <3>1. pc # "retry" /\ pc # "validating"
      BY <2>3 DEF IInv, NothingPending, BeforeRole
    <3>2. tree.stage \in {"develop", "review"} /\ head.stage \in {"develop", "review"}
      BY <1>3, <2>3, <3>1, RoleFits DEF IInv, Validating, Routed, Sessional
    <3> QED BY <2>1, <3>2, Moves DEF Progress
  <2> QED BY <2>2, <2>3
<1>4. CASE RetryBlocked
  <2>1. Blocked("developer", "validation") \in Workspaces
        /\ Blocked("developer", "validation").stage = tree.stage
    BY <1>1, BlockedEffect DEF Blocked, Roles
  <2> QED BY <1>3, <1>4, <2>1 DEF RetryBlocked
<1>5. CASE PrerequisiteBlocked
  <2>1. run.role \in Roles
    BY <1>5, RoleFits DEF PrerequisiteBlocked, Routed, Roles
  <2>2. Blocked(run.role, Operation) \in Workspaces
        /\ Blocked(run.role, Operation).stage = tree.stage
    BY <1>1, <1>5, <2>1, OperationIsTyped, BlockedEffect DEF PrerequisiteBlocked, Blocked
  <2> QED BY <1>2, <1>3, <1>5, <2>2 DEF PrerequisiteBlocked
<1>6. CASE MilestoneUnvalidated \/ TaskUnvalidated
  <2>1. /\ pc \in {"process", "validate"} /\ run.role \in Roles
        /\ Archived \in Workspaces /\ Archived.stage = tree.stage
    BY <1>6, ArchivedEffect DEF MilestoneUnvalidated, TaskUnvalidated, IInv, Validating, Roles
  <2>2. \A role \in Roles :
          /\ [Archived EXCEPT !.blocker = Blocker(role, "validation")] \in Workspaces
          /\ [Archived EXCEPT !.blocker = Blocker(role, "validation")].stage = tree.stage
    BY <2>1, BlockedEffect
  <2>3. /\ [Archived EXCEPT !.record = "unverified"] \in Workspaces
        /\ [Archived EXCEPT !.record = "unverified"].stage = tree.stage
    BY <2>1 DEF Workspaces, Records
  <2>4. "integrator" \in Roles
    BY DEF Roles
  <2> QED BY <1>3, <1>6, <2>1, <2>2, <2>3, <2>4 DEF MilestoneUnvalidated, TaskUnvalidated
<1>7. CASE PrerequisiteResolved
  <2>1. Cleared(run.role, Operation) \in Workspaces
        /\ Cleared(run.role, Operation).stage = tree.stage
    BY <1>1 DEF Cleared, Workspaces
  <2> QED BY <1>2, <1>3, <1>7, <2>1 DEF PrerequisiteResolved
<1>8. CASE RetryBegins
  <2> DEFINE cleared == Cleared("developer", "validation")
  <2>1. cleared \in Workspaces /\ cleared.stage = tree.stage
    BY <1>1 DEF Cleared, Workspaces
  <2>2. Unmarked(cleared) \in Workspaces /\ Unmarked(cleared).stage = tree.stage
    BY <2>1 DEF Unmarked, Workspaces, Records, Unvalidated
  <2> QED BY <1>2, <1>3, <1>8, <2>2 DEF RetryBegins
<1>9. CASE RetryRuns
  <2>1. /\ [tree EXCEPT !.record = "unverified"] \in Workspaces
        /\ [tree EXCEPT !.record = "unverified"].stage = tree.stage
    BY <1>1 DEF Workspaces, Records
  <2> QED BY <1>2, <1>3, <1>9, <2>1 DEF RetryRuns, Leaves
<1> QED BY <1>4, <1>5, <1>6, <1>7, <1>8, <1>9 DEF Blocks

\* No step moves the committed task by more than a session, or past its review unvalidated.
LEMMA NextProgress == IInv /\ [Next]_vars => Progress
<1> SUFFICES ASSUME IInv, [Next]_vars PROVE Progress
  OBVIOUS
<1>1. CASE Blocks \/ PrerequisiteResolved \/ RetryBegins \/ RetryRuns
  BY <1>1, BlocksProgress
<1>2. CASE Commit
  <2>1. head'.stage = tree.stage /\ head'.record = tree.record
    BY <1>2, CommitEffect DEF Commit, IInv, TypeOK
  <2> QED BY <1>2, <2>1 DEF Commit, IInv, Committable, Progress
<1>3. CASE StartRun
  <2> DEFINE w == [tree EXCEPT !.own = "none", !.configured = FALSE]
  <2>1. w \in Workspaces /\ w.stage = head.stage
    BY <1>3 DEF StartRun, Clean, IInv, TypeOK, Workspaces
  <2>2. Commits(w)
    BY <1>3 DEF StartRun
  <2> HIDE DEF w
  <2> QED BY <2>1, <2>2, CommitEffect, Stays
<1>4. CASE DiscardInterrupted \/ OwnCommit
  <2>1. head \in Workspaces /\ proposal \in [head : Workspaces, resetting : BOOLEAN]
        /\ [proposal.head EXCEPT !.own = head.own] = head
    BY <1>4 DEF DiscardInterrupted, OwnCommit, IInv, TypeOK, DiscardIsCurrent
  <2>2. head'.stage = head.stage
    BY <1>4, <2>1 DEF DiscardInterrupted, OwnCommit, Workspaces
  <2> QED BY <2>2, Stays
<1>5. CASE UNCHANGED head
  BY <1>5, Stays
<1>6. ASSUME ~UNCHANGED head
      PROVE  \/ Blocks \/ PrerequisiteResolved \/ RetryBegins \/ RetryRuns
             \/ Commit \/ StartRun \/ DiscardInterrupted \/ OwnCommit
  BY <1>6 DEF Next, vars, Prepare, BeginLoop, NoRetry, WorkflowDone, SelectRole, StartSession,
       Perform, AgentWorks, AgentSucceeds, SubmitHandoff, CorrectionWorks, CorrectionEnds,
       AcceptResult, ProcessDeveloper, ProcessReviewer, ProcessIntegrator, ValidateTask,
       CreateTag, Errors, RefuseSession, AgentFails, CorrectionFails, RejectResult, CommitFails,
       Interrupt, Submits, BeginSubmission, RefuseSubmission, PublishSubmission, SubmissionDies,
       Operator, ProposeDiscard, ConfirmDiscard, Others, DeclineDiscard, Fails, Leaves, repository
<1> QED BY <1>1, <1>2, <1>3, <1>4, <1>5, <1>6

\* The tag is made after the commit of the integration.
LEMMA NextTags == IInv /\ [Next]_vars => tagged' = tagged \/ (CreateTag /\ head.stage = "done")
<1> SUFFICES ASSUME IInv, [Next]_vars, ~UNCHANGED tagged PROVE CreateTag /\ head.stage = "done"
  OBVIOUS
<1>1. CreateTag
  BY DEF Next, vars, Prepare, BeginLoop, NoRetry, RetryBegins, RetryRuns, WorkflowDone, SelectRole,
         PrerequisiteResolved, StartSession, Perform, AgentWorks, AgentSucceeds, SubmitHandoff,
         CorrectionWorks, CorrectionEnds, AcceptResult, ProcessDeveloper, ProcessReviewer,
         ProcessIntegrator, ValidateTask, Commit, Blocks, RetryBlocked, PrerequisiteBlocked,
         MilestoneUnvalidated, TaskUnvalidated, Errors, RefuseSession, AgentFails,
         CorrectionFails, RejectResult, CommitFails, Interrupt, Submits, BeginSubmission,
         RefuseSubmission, PublishSubmission, SubmissionDies, Operator, StartRun,
         ProposeDiscard, ConfirmDiscard, DiscardInterrupted, Others, DeclineDiscard, OwnCommit,
         Elsewhere, repository
<1> QED BY <1>1 DEF CreateTag, IInv, NothingPending, BeforeRole

\* The last commit implements module CommittedWork: every step of the model is the commit of
\* one session, a tag, or neither, whatever is interrupted, discarded and continued.
THEOREM AtomicityIsKept == Spec => KeepsAtomicity
<1>1. Init => Committed!Init
  <2> SUFFICES ASSUME Init PROVE Committed!Init
    OBVIOUS
  <2>1. \A role \in {"developer", "reviewer"} : None # Blocker(role, "validation")
    BY SessionAssumption DEF Blocker, Roles
  <2> QED BY <2>1 DEF Init, InitialWorkspace, Committed!Init
<1>2. IInv /\ [Next]_vars => [Committed!CommitSession \/ Committed!CreateTag]_Committed!vars
  <2> SUFFICES ASSUME IInv, [Next]_vars
               PROVE  [Committed!CommitSession \/ Committed!CreateTag]_Committed!vars
    OBVIOUS
  <2>1. IInv'
    BY NextIInv
  <2>2. /\ head.edits = {} /\ head'.edits = {} /\ head'.record \in Records
        /\ head'.stage = "review" => head'.record # "none" \/ Awaits(head)'
    BY <2>1 DEF IInv, HeadIsWhole, Gated, TypeOK, Workspaces
  <2>3. CASE UNCHANGED tagged
    BY <2>2, <2>3, NextProgress DEF Progress, Awaits, Committed!CommitSession, Committed!vars
  <2>4. CASE CreateTag /\ head.stage = "done"
    BY <2>4 DEF CreateTag, Committed!CreateTag, Committed!vars
  <2> QED BY <2>3, <2>4, NextTags
<1> QED BY <1>1, <1>2, Invariance, PTL DEF Spec, KeepsAtomicity, Committed!Spec

=============================================================================
