----------------------------- MODULE Submission -----------------------------
(***************************************************************************)
(* The artifact directory of a role's session: the envelope that names the *)
(* session, the candidate, the count of submissions, the rendered handoff  *)
(* and the accepted result, with what `session handoff submit' reads and   *)
(* writes there.  The files of a result are replaced one after the other,  *)
(* so a submission has steps in between which others may move.             *)
(***************************************************************************)
EXTENDS Naturals

CONSTANTS
    Sessions,        \* identities of sessions
    MaxAttempts,     \* submissions that a session may make
    None

ASSUME SubmissionAssumption == MaxAttempts \in Nat \ {0} /\ None \notin Sessions

Roles == {"developer", "reviewer", "integrator"}

\* What a candidate says: unreadable or refused, the work failed, the work is completed.
Candidates == {"invalid", "failed", "completed"}

Artifacts ==
    [envelope : Sessions \cup {None},
     candidate : Candidates,
     attempts : 0..MaxAttempts,
     handoff : Sessions \cup {None},
     result : [session : Sessions \cup {None}, outcome : Candidates]]

NoResult == [session |-> None, outcome |-> "invalid"]

EmptyArtifacts ==
    [envelope |-> None, candidate |-> "invalid", attempts |-> 0,
     handoff |-> None, result |-> NoResult]

\* A session begins with a directory of its own; the template is not acceptable.
FreshArtifacts(session) == [EmptyArtifacts EXCEPT !.envelope = session]

\* What is left of it when the session ends without its result having been read.
Unfinished(artifacts) ==
    [artifacts EXCEPT !.candidate = "invalid", !.attempts = 0, !.result = NoResult]

HasResult(artifacts) == artifacts.result.session # None

\* Mutant of MaySubmit: earlier submissions are not counted.
MaySubmitAgain(artifacts) == artifacts.envelope # None /\ ~HasResult(artifacts)

MaySubmit(artifacts) ==
    /\ artifacts.envelope # None
    /\ ~HasResult(artifacts)
    /\ artifacts.attempts < MaxAttempts

\* A completed developer must have checked every acceptance box of a task still in work.
SemanticConflict(role, artifacts, boxes) ==
    role = "developer" /\ artifacts.candidate = "completed" /\ ~boxes

Acceptable(role, artifacts, boxes) ==
    artifacts.candidate # "invalid" /\ ~SemanticConflict(role, artifacts, boxes)

\* A submission after its checks: the identity and outcome it will publish, and how far it is.
Submissions ==
    [role : Roles, session : Sessions, outcome : Candidates, begun : BOOLEAN]

Submission(role, artifacts) ==
    [role |-> role, session |-> artifacts.envelope, outcome |-> artifacts.candidate,
     begun |-> FALSE]

WithHandoff(artifacts, submission) == [artifacts EXCEPT !.handoff = submission.session]

WithAttempt(artifacts) == [artifacts EXCEPT !.attempts = @ + 1]

\* Once there is a result, candidate and attempts are not looked at again.
WithResult(artifacts, submission) ==
    [artifacts EXCEPT
        !.result = [session |-> submission.session, outcome |-> submission.outcome],
        !.candidate = "invalid", !.attempts = 0]

\* Mutant of Published: the accepted result is written before the handoff it stands for.
PublishedResultFirst(artifacts, submission) ==
    IF submission.begun
    THEN WithHandoff(artifacts, submission)
    ELSE WithResult(artifacts, submission)

\* The handoff is written first; the result follows as the mark of acceptance.
Published(artifacts, submission) ==
    IF submission.begun
    THEN WithResult(artifacts, submission)
    ELSE WithHandoff(artifacts, submission)

\* The orchestrator submits for a session that did not.
Submitted(role, artifacts, boxes) ==
    IF ~MaySubmit(artifacts) THEN artifacts
    ELSE IF ~Acceptable(role, artifacts, boxes) THEN WithAttempt(artifacts)
    ELSE LET submission == Submission(role, artifacts)
         IN  WithResult(WithHandoff(artifacts, submission), submission)
=============================================================================
