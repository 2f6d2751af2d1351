------------------------------- MODULE Resume -------------------------------
(***************************************************************************)
(* Interrupted routes and replaced plans.  A role that needs an answer or  *)
(* research stops its route; a pointer in workflow.toml names the route    *)
(* that the same command must resume.  Specifications that changed, or     *)
(* --replace-plan, archive the active plan with that pointer in it.  The   *)
(* files are a worktree over the last commit; a run may die at any step,   *)
(* and an operator then discards or commits what it left.  Sessions are    *)
(* one step here, doctor recoveries and findings are left to Workflow.     *)
(***************************************************************************)
EXTENDS Generations, Candidate, Auxiliary

CONSTANTS
    Commands,      \* bound: commands the operator issues
    MaxArchives    \* bound: archives that are begun

ASSUME ResumeAssumption ==
    /\ Commands \subseteq {"implement", "plan", "revise", "replace", "adopt", "mark", "continue"}
    /\ MaxArchives \in Nat

VARIABLES
    tree,          \* the files of the worktree
    head,          \* the files of the last commit
    pc,            \* what the run does next
    run            \* what the running process remembers

vars == <<tree, head, pc, run>>

\* edited: files outside DevLab's state differ from the last commit; archived: number,
\* plan and completeness of each archive; requests: the status of each file, "advisory"
\* for a pending one that blocks nothing, and, a history, the plan it was asked in.
Files ==
    [specs : 1..MaxSpecs, plan : Plans, edited : BOOLEAN,
     archived : SUBSET [number : Nat, plan : Nat, whole : BOOLEAN],
     requests : [Request -> [status : {"unasked", "pending", "advisory", "answered", "superseded"},
                             plan : Nat]]]

Modes == {"implement", "plan", "revise", "replace", "adopt"}
Phases == {"idle", "research", "archive", "copied", "cleared", "emptied", "loop", "resolve", "stop"}

\* active: the pointer as the process read it; specs, changed, based: what it read of the
\* specifications; done: planning roles completed; ran: sessions were run.
NoRun == [mode |-> None, active |-> None, researched |-> FALSE,
          specs |-> 1, changed |-> FALSE, based |-> FALSE, forced |-> FALSE, fresh |-> FALSE,
          done |-> 0, ran |-> FALSE]

NoRequest == [status |-> "unasked", plan |-> 0]

Init ==
    /\ tree = [specs |-> 1, plan |-> EmptyPlan(1), edited |-> FALSE, archived |-> {},
               requests |-> [q \in Request |-> NoRequest]]
    /\ head = tree
    /\ pc = "idle" /\ run = NoRun

plan == tree.plan
pointer == tree.plan.pointer
\* The request that the pointer waits for.
Awaited == IF pointer = None THEN None ELSE pointer.by
Clean == tree = head
Asked(q, status) == tree.requests[q].status = status
Unanswered(q) == Asked(q, "pending") \/ Asked(q, "advisory")

TypeOK ==
    /\ tree \in Files /\ head \in Files
    /\ pc \in Phases
    /\ run \in [mode : Modes \cup {None}, active : Pointers \cup {None},
                researched : BOOLEAN, specs : 1..MaxSpecs, changed : BOOLEAN, based : BOOLEAN,
                forced : BOOLEAN, fresh : BOOLEAN, done : 0..2, ran : BOOLEAN]
    /\ pc = "idle" => run = NoRun
    /\ pc = "research" => Awaited \in Research /\ Asked(Awaited, "pending")
    /\ pc = "resolve" => Awaited \in Clarification

ActiveGeneration ==
    IF tree.archived = {} THEN 1 ELSE Max({a.number : a \in tree.archived}) + 1

\* An answered request that no pointer names has no further effect on runs.
Settled(files) ==
    [files EXCEPT
        !.edited = FALSE,
        !.requests = [q \in Request |->
            IF @[q].status = "answered" /\ (files.plan.pointer = None \/ files.plan.pointer.by # q)
            THEN NoRequest ELSE @[q]]]

Commits(files) == tree' = Settled(files) /\ head' = tree'

\* The run goes on with run r, or has only to end.
Proceeds(next, r) ==
    /\ pc' = next
    /\ run' = IF next = "stop" THEN NoRun ELSE r

-----------------------------------------------------------------------------
(* What may start *)

Family(mode) == IF mode = "implement" THEN "implement" ELSE "plan"
SpecsChanged == plan.baseline # 0 /\ plan.baseline # tree.specs
PendingBlockers == {q \in Clarification : Asked(q, "pending")}

\* Every clarification that is not pending has an answer that may be used.
AnswersAreValid == \A q \in Clarification : ~Asked(q, "superseded")

\* Requested research is what the pointer names.
ResearchIsPointed == \A q \in Research : Asked(q, "pending") => Awaited = q

\* The checks that planning and sessions need; the other ones are about text.
Healthy == AnswersAreValid /\ ResearchIsPointed

\* What devlab continue runs next; "none" when it only reports.
Advised ==
    IF Awaited \in Research THEN pointer.command
    ELSE IF PendingBlockers # {} THEN "none"
    ELSE IF pointer # None THEN IF Asked(pointer.by, "answered") THEN pointer.command ELSE "none"
    ELSE IF SpecsChanged THEN "plan"
    ELSE IF Assess(plan) = "none" THEN "none"
    ELSE IF IsPlanning(Assess(plan)) THEN "plan" ELSE "implement"

\* Only the stored command runs while a pointer exists, or an explicit revision.
OfPointer(mode) == pointer # None => pointer.command = Family(mode) \/ mode = "revise"

\* planning flag errors, stale specifications, and the stored command.
Accepts(mode) ==
    /\ mode = "adopt" => ~HasActivePlan(plan)
    /\ mode = "replace" => HasActivePlan(plan)
    /\ mode = "implement" => ~SpecsChanged
    /\ OfPointer(mode)

Replaces(mode) == mode = "replace" \/ (Family(mode) = "plan" /\ SpecsChanged)

\* A planning run that was interrupted goes on with the role that was.
Completed(forced) ==
    IF forced /\ pointer # None /\ pointer.command = "plan" /\ pointer.route.role = "planner"
    THEN 1 ELSE 0

PhaseAfterResearch(fresh) == IF fresh THEN "archive" ELSE "loop"

Start(mode) ==
    LET fresh == Replaces(mode)
        forced == fresh \/ mode \in {"revise", "adopt"}
        asks == Awaited \in Research
    IN  /\ pc = "idle" /\ Clean /\ Accepts(mode)
        /\ fresh => ActiveGeneration <= MaxArchives
        /\ run' = [NoRun EXCEPT
                     !.mode = mode, !.active = pointer,
                     !.researched = asks /\ Asked(pointer.by, "answered"),
                     !.specs = tree.specs, !.changed = SpecsChanged, !.based = plan.baseline # 0,
                     !.forced = forced, !.fresh = fresh,
                     !.done = IF Family(mode) = "plan" THEN Completed(forced) ELSE 0]
        /\ pc' = IF asks /\ Asked(pointer.by, "pending") THEN "research"
                 ELSE PhaseAfterResearch(fresh)
        /\ UNCHANGED <<tree, head>>

Command ==
    \E mode \in Modes \cap Commands : Healthy /\ Start(mode)

Continue == "continue" \in Commands /\ Healthy /\ Advised # "none" /\ Start(Advised)

\* devlab resume needs an answer, and does not look at the workspace's health.
ResumeCommand ==
    /\ "continue" \in Commands
    /\ Awaited \in Clarification /\ Asked(Awaited, "answered")
    /\ Start(pointer.command)

\* plan --mark-specs-planned: the operator vouches for the plan.
MarkPlanned ==
    /\ "mark" \in Commands /\ Healthy
    /\ pc = "idle" /\ Clean
    /\ Commits([tree EXCEPT !.plan.baseline = tree.specs, !.plan.seen = tree.specs])
    /\ UNCHANGED <<pc, run>>

-----------------------------------------------------------------------------
(* Archiving the active plan *)

\* Mutant of CopyEnds: a copy that failed is taken for one that ended.
CopyEndsAnyway(whole) == "copied"

\* A copy that fails ends the run; what was copied stays in the worktree.
CopyEnds(whole) == IF whole THEN "copied" ELSE "stop"

CopyPlan ==
    /\ pc = "archive"
    /\ \E whole \in BOOLEAN :
          /\ tree' = [tree EXCEPT !.archived = @ \cup
                        {[number |-> ActiveGeneration, plan |-> plan.number, whole |-> whole]}]
          /\ Proceeds(CopyEnds(whole), run)
    /\ UNCHANGED head

\* Tasks, milestones and plans are removed before workflow.toml.
ClearPlan ==
    /\ pc = "copied"
    /\ tree' = [tree EXCEPT !.plan = [EmptyPlan(plan.number + 1) EXCEPT
                   !.complete = plan.complete, !.baseline = plan.baseline, !.seen = plan.seen,
                   !.pointer = plan.pointer]]
    /\ pc' = "cleared"
    /\ UNCHANGED <<head, run>>

ClearState ==
    /\ pc = "cleared"
    /\ tree' = [tree EXCEPT !.plan = EmptyPlan(plan.number)]
    /\ pc' = "emptied"
    /\ UNCHANGED <<head, run>>

CommitArchive ==
    /\ pc = "emptied"
    /\ Commits(tree)
    /\ pc' = "loop"
    /\ run' = [run EXCEPT !.fresh = FALSE]

-----------------------------------------------------------------------------
(* The run loop *)

\* Research that is answered puts its route before every other selection.
Overrides == run.researched /\ run.active # None /\ run.active.by \in Research

SelectedRole ==
    IF Overrides THEN run.active.route.role
    ELSE IF run.forced /\ run.done < 2 THEN PlanningRoles[run.done + 1]
    ELSE Assess(plan)

ResumedRoute == run.active.route
SelectedRoute == IF Overrides THEN ResumedRoute ELSE RouteFor(plan, SelectedRole)

OfStoredCommand == run.active # None /\ run.active.command = Family(run.mode)

\* Mutant of Blocked: every pending clarification but the one the pointer names.
BlockedByOthers == \E q \in PendingBlockers : Awaited \notin {None, q}

Blocked == PendingBlockers # {}

\* The planning boundary: a plain plan stops before implementation.
PlansOnly == Family(run.mode) = "plan" /\ ~run.forced /\ ~IsPlanning(SelectedRole)

MustStop ==
    \/ Blocked
    \/ OfStoredCommand /\ ~Fits(plan, SelectedRoute, run.active.route)
    \/ SelectedRole = "none"
    \/ run.mode = "implement" /\ (~run.based \/ run.changed) /\ ~IsPlanning(SelectedRole)
    \/ PlansOnly
    \/ run.forced /\ run.done = 2

\* A plain plan that finds a plan without a baseline records one.
RecordsBaseline ==
    /\ PlansOnly /\ ~Blocked /\ ~run.ran /\ ~run.based /\ SelectedRole # "none"
    /\ OfStoredCommand => Fits(plan, SelectedRoute, run.active.route)

Stop ==
    /\ pc = "loop" /\ MustStop
    /\ IF RecordsBaseline /\ Clean
       THEN Commits([tree EXCEPT !.plan.baseline = run.specs, !.plan.seen = run.specs])
       ELSE UNCHANGED <<tree, head>>
    /\ Proceeds("stop", run)

\* Mutant of Planned: the baseline is the specifications there are when the planner ends.
PlannedLatest(p, specs) ==
    IF Family(run.mode) = "plan" \/ ~run.based
    THEN [p EXCEPT !.baseline = specs] ELSE p

\* The planner's result records as planned what was committed when the run began.
Planned(p, specs) ==
    IF Family(run.mode) = "plan" \/ ~run.based
    THEN [p EXCEPT !.baseline = run.specs] ELSE p

\* Mutant of Releases: only a research pointer is cleared.
ReleasesResearch == OfStoredCommand /\ run.active.by \in Research

\* A result that asks for nothing ends the interruption its command resumed.
Releases == OfStoredCommand
Released(p) == [p EXCEPT !.pointer = None]

\* The session is the forced planning role whose turn it is.
Advances == run.forced /\ run.done < 2 /\ SelectedRole = PlanningRoles[run.done + 1]

\* specs: the specifications when the session ends, which may be newer than when it began.
SessionEnds(p, specs, result) ==
    LET route == SelectedRoute
        planner == route.role = "planner"
        done == IF Advances /\ result.completed THEN run.done + 1 ELSE run.done
    IN  \E q \in Applied(IF planner THEN Planned([p EXCEPT !.seen = tree.specs], specs) ELSE p,
                         route, result.complete) :
          /\ Commits([tree EXCEPT !.specs = specs, !.plan = IF Releases THEN Released(q) ELSE q])
          /\ Proceeds(IF run.forced /\ done = 2 THEN "stop" ELSE "loop",
                      [run EXCEPT
                       !.active = IF Releases THEN None ELSE @, !.done = done, !.ran = TRUE,
                       !.changed = IF planner THEN q.baseline \notin {0, specs} ELSE @,
                       !.based = IF planner THEN q.baseline # 0 ELSE @])

\* Mutant of PhasesAfterRequest: clarifications go to the researcher too.
ResearchesAll(q) == {"research"}

\* Who takes a request: the researcher, or for a clarification the operator or, in the mode
\* the command chose, the resolver.
PhasesAfterRequest(q) == IF q \in Research THEN {"research"} ELSE {"stop", "resolve"}

\* The files of the kind that a result asks for, and the status they get.
Requests(asks) ==
    IF asks = "research" THEN Research
    ELSE IF asks \in {"answer", "advice"} THEN Clarification ELSE {}

RequestedAs(asks) == IF asks = "advice" THEN "advisory" ELSE "pending"

\* The new file of a request.
NewRequest(status) == [status |-> status, plan |-> plan.number]
Created(files, q, status) == [files EXCEPT !.requests[q] = NewRequest(status)]

\* The pointer that brings its command back to this route.
PointsAt(p, q) ==
    [p EXCEPT !.pointer = [by |-> q, command |-> Family(run.mode), route |-> SelectedRoute]]

\* The route stops for request q, and nothing else of the result is applied.
SessionAsks(p, specs, asks, q) ==
    /\ Asked(q, "unasked")
    /\ Commits([Created(tree, q, RequestedAs(asks)) EXCEPT !.specs = specs, !.plan = PointsAt(p, q)])
    /\ \E next \in PhasesAfterRequest(q) : Proceeds(next, [run EXCEPT !.ran = TRUE])

\* No result, a refused one, or research asked for outside the route: what the agent
\* wrote stays in the worktree.
SessionFails(p) ==
    /\ \E edited \in BOOLEAN : tree' = [tree EXCEPT !.plan = p, !.edited = edited]
    /\ Proceeds("stop", run)
    /\ UNCHANGED head

Results == [role \in Roles |-> ResultsOf(role)]

Session ==
    /\ pc = "loop" /\ Clean /\ ~MustStop
    /\ \E p \in Written(plan, SelectedRole) :
          \/ \E specs \in {tree.specs, Min({tree.specs + 1, MaxSpecs})},
                result \in Results[SelectedRole] :
                \/ result.asks = "nothing" /\ SessionEnds(HandoffArchived(p), specs, result)
                \/ \E q \in Requests(result.asks) :
                      SessionAsks(HandoffArchived(p), specs, result.asks, q)
          \/ SessionFails(p)

\* The result or the answer is written into the file of the request.
Answered(files, q) == [files EXCEPT !.requests[q].status = "answered"]

\* A refused attempt of the resolver or the researcher ends the run with what it left.
AttemptFails(attempt) ==
    /\ tree' = [tree EXCEPT !.edited = attempt.edited]
    /\ Proceeds("stop", run)
    /\ UNCHANGED head

\* The request of the pointer is answered, and the run goes on with the pointer.
AttemptAnswers(r, next) ==
    /\ Commits(Answered(tree, Awaited))
    /\ run' = [r EXCEPT !.active = pointer, !.ran = TRUE]
    /\ pc' = next

\* The researcher runs for the request of the pointer, first in a run that finds it open.
Researcher ==
    /\ pc = "research"
    /\ Awaited \in Research /\ Asked(Awaited, "pending")
    /\ \E attempt \in ResearcherOutcomes :
          \/ attempt.answers
             /\ AttemptAnswers([run EXCEPT !.researched = TRUE], PhaseAfterResearch(run.fresh))
          \/ ~attempt.answers /\ AttemptFails(attempt)

\* With --clarification-mode agent another agent answers at once.
Resolver ==
    /\ pc = "resolve"
    /\ Awaited \in Clarification /\ Unanswered(Awaited)
    /\ \E attempt \in ResolverOutcomes :
          \/ attempt.answers /\ AttemptAnswers(run, "loop")
          \/ ~attempt.answers /\ AttemptFails(attempt)

\* Reached stop, session limit, failed session, refused commit or a process that died.
RunEnds ==
    /\ pc # "idle"
    /\ pc' = "idle" /\ run' = NoRun
    /\ UNCHANGED <<tree, head>>

-----------------------------------------------------------------------------
(* Operators *)

\* devlab clarify answer commits the one file it changed.
Answer ==
    \E q \in Clarification :
        /\ Unanswered(q)
        /\ tree' = Answered(tree, q)
        /\ head' = Answered(head, q)
        /\ UNCHANGED <<pc, run>>

\* devlab clarify supersede changes the file only.
Supersede ==
    /\ pc = "idle"
    /\ \E q \in Clarification :
          /\ ~Asked(q, "unasked") /\ ~Asked(q, "superseded")
          /\ tree' = [tree EXCEPT !.requests[q].status = "superseded"]
    /\ UNCHANGED <<head, pc, run>>

\* A commit to the specifications, at any time.
EditSpecs ==
    /\ tree.specs < MaxSpecs
    /\ tree' = [tree EXCEPT !.specs = @ + 1]
    /\ head' = [head EXCEPT !.specs = @ + 1]
    /\ UNCHANGED <<pc, run>>

CommitAll ==
    /\ pc = "idle" /\ ~Clean
    /\ Commits(tree)
    /\ UNCHANGED <<pc, run>>

Discard ==
    /\ pc = "idle" /\ ~Clean
    /\ tree' = head
    /\ UNCHANGED <<head, pc, run>>

Next ==
    \/ RunEnds \/ Stop \/ Researcher \/ Resolver
    \/ CopyPlan \/ ClearPlan \/ ClearState \/ CommitArchive
    \/ Answer \/ Discard \/ CommitAll \/ Supersede \/ EditSpecs
    \/ Command \/ Continue \/ ResumeCommand \/ MarkPlanned
    \/ Session

Spec == Init /\ [][Next]_vars
=============================================================================
