-------------------------- MODULE ResumeProperties --------------------------
(***************************************************************************)
(* What interruptions and replaced plans must keep true.                   *)
(***************************************************************************)
EXTENDS Resume

\* An open request that stops the workflow is the one the pointer names, so that
\* answering it leads back to its route.  Only a clarification of a plan that has
\* since been archived has no pointer.  Open research always has one: without it
\* check_research_resume_state would refuse every command, and no command
\* completes the research.
PendingIsPointed ==
    \A q \in Request : head.requests[q].status = "pending" =>
        \/ head.plan.pointer # None /\ head.plan.pointer.by = q
        \/ q \in Clarification /\ head.requests[q].plan < head.plan.number

\* The command that was interrupted does nothing before the interrupted route:
\* the session that replaces or clears the pointer is of the pointer's role and
\* work, whether the run selected it (_resume_validation_error), forced it
\* (plan --revise) or put it before other work (answered research).
ResumesItsRoute ==
    [][\A p \in {head.plan.pointer} \ {None} :
          /\ pc = "loop" /\ Family(run.mode) = p.command
          /\ head'.plan.pointer # p
          => /\ SelectedRoute.role = p.route.role
             /\ p.route.task # None => SelectedRoute.task = p.route.task
             /\ p.route.milestone => SelectedRoute.milestone]_vars

\* A change of the specifications is not swallowed: the recorded baseline is
\* never newer than what the planner that finished the plan, or an operator who
\* vouched for it, can have read (PlanningStateUpdate), so that a commit made
\* during a run is seen as a change by the next one.
BaselineWasRead == head.plan.baseline <= head.plan.seen

\* No plan is lost: whatever steps a process died between, and whether the
\* operator committed or discarded what it left, every earlier plan is whole in
\* a committed archive.
KeepsPlans ==
    \A n \in 1..(head.plan.number - 1) :
        \E a \in head.archived : a.plan = n /\ a.whole

-----------------------------------------------------------------------------
(* Liveness *)

\* A run that has worked may be at its limit; every other end needs a reason.
EndsRightly == pc = "stop" \/ run.ran

\* Operators use devlab continue and leave plan, baseline and specifications alone,
\* agents ask for nothing more, sessions, other agents and copies succeed.
Cooperates ==
    /\ pc = "idle" /\ pc' # "idle" => run'.mode = Advised
    /\ pc # "idle" /\ pc' = "idle" => EndsRightly
    /\ pc = "archive" => pc' = "copied"
    /\ pc = "loop" /\ pc' = "stop" => MustStop \/ head' # head
    /\ pc \in {"research", "resolve"} /\ pc' = "stop" => head' # head
    /\ pc = "idle" => plan'.baseline \in {plan.baseline, head.plan.baseline}
    /\ tree'.specs = tree.specs
    /\ \A q \in Request :
          Asked(q, "unasked") \/ Asked(q, "superseded") \/ Asked(q, "answered") =>
              tree'.requests[q].status \in {"unasked", tree.requests[q].status}
    /\ \A q \in Request : Unanswered(q) => tree'.requests[q].status # "superseded"

\* WF_vars(Next /\ Cooperates), as it reads where every step is one of Next.
WorkGoesOn == []<><<Cooperates>>_vars \/ []<>~ENABLED <<Next /\ Cooperates>>_vars

\* Everyone cooperates from some time on, and a run has a limit.
FairSpec ==
    /\ Spec
    /\ <>[][Cooperates]_vars
    /\ WorkGoesOn
    /\ WF_vars(RunEnds /\ EndsRightly)

\* The route of the pointer is what its plain command, the one devlab resume and devlab
\* continue run, would work on.
StillSelected ==
    /\ pointer.command = "plan" => IsPlanning(pointer.route.role)
    /\ Fits(plan, IF pointer.by \in Research THEN pointer.route
                  ELSE RouteFor(plan, Assess(plan)), pointer.route)

\* A route that was interrupted is resumed after its answer.  The exceptions are
\* those in which the code refuses it: the plan or the specifications have changed
\* under it, a planning flag had forced it and the plain command selects another
\* one, or a clarification was superseded.
AnswersAreUsed ==
    []<>(\/ pointer = None \/ SpecsChanged \/ ~StillSelected
         \/ \E c \in Clarification : Asked(c, "superseded"))

\* "If a clarification is genuinely obsolete, use devlab clarify supersede with
\* a reason instead of inventing an answer" (how-to/resume-interrupted-workflow.md:141):
\* after a committed supersession the workflow runs again.
SupersedingContinues ==
    \A c \in Clarification :
        pc = "idle" /\ Clean /\ Asked(c, "superseded") ~> pc # "idle"
=============================================================================
