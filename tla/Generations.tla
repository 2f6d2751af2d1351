---------------------------- MODULE Generations ----------------------------
(***************************************************************************)
(* The active plan of a target and the state that lives and dies with it:  *)
(* workflow.toml keeps planning completion, the specification baseline and *)
(* the resume pointer, and is archived and cleared with the tasks.  Here   *)
(* are the routes the run loop selects from a plan, the fit of a stored    *)
(* route with the present plan, and what a session does to a plan.         *)
(***************************************************************************)
EXTENDS Naturals, FiniteSetsExt

CONSTANTS
    Task,            \* numbers of task files
    Clarification,   \* numbers of clarification files
    Research,        \* numbers of research files
    MaxSpecs,        \* bound: commits to the specifications
    PlannerDeps,     \* bound: the depends_on lists a planner writes
    None

ASSUME GenerationsAssumption ==
    /\ Task \subseteq Nat \ {0} /\ Clarification \subseteq Nat /\ Research \subseteq Nat
    /\ Clarification \cap Research = {}
    /\ MaxSpecs \in Nat \ {0} /\ PlannerDeps \subseteq SUBSET Task
    /\ None \notin Nat

Request == Clarification \cup Research
PlanningRoles == <<"architect", "planner">>
IsPlanning(role) == role \in {"architect", "planner"}
Roles == {"architect", "planner", "developer", "reviewer", "integrator"}

\* milestone: the route is the integration of the milestone, or its review.
Routes == [role : Roles, task : Task \cup {None}, milestone : BOOLEAN]
Pointers == [by : Request, command : {"plan", "implement"}, route : Routes]

\* workflow.toml has a pointer or it has none.
ASSUME NoneAssumption == None \notin Pointers

\* baseline: the specification commit planned from, 0 when none is recorded;
\* seen, a history: the newest one a planner of this plan, or an operator who
\* vouched for it, can have read; number: the plans begun before, and this one.
\* begun: a handoff is archived, or the project plan is not empty.
Plans ==
    [number : Nat, designed : BOOLEAN, begun : BOOLEAN, complete : BOOLEAN,
     status : [Task -> {"absent", "open", "in_review", "closed"}],
     deps : [Task -> SUBSET Task], milestone : {"open", "integrated", "reviewed"},
     baseline : 0..MaxSpecs, seen : 0..MaxSpecs, pointer : Pointers \cup {None}]

EmptyPlan(number) ==
    [number |-> number, designed |-> FALSE, begun |-> FALSE, complete |-> FALSE,
     status |-> [t \in Task |-> "absent"], deps |-> [t \in Task |-> {}], milestone |-> "open",
     baseline |-> 0, seen |-> 0, pointer |-> None]

-----------------------------------------------------------------------------
(* Selection *)

With(p, status) == {t \in Task : p.status[t] = status}
Existing(p) == Task \ With(p, "absent")
Eligible(p) == {t \in With(p, "open") : p.deps[t] \subseteq With(p, "closed")}
AllClosed(p) == Existing(p) # {} /\ Existing(p) = With(p, "closed")
\* A milestone file comes from a task file, and neither goes before its plan does.
HasActivePlan(p) == p.designed \/ p.begun \/ Existing(p) # {}

\* The milestone that holds all tasks waits for this role.
Due(p, role) ==
    \/ role = "integrator" /\ p.milestone = "open" /\ AllClosed(p)
    \/ role = "architect" /\ p.milestone = "integrated"

Assess(p) ==
    IF ~p.designed THEN "architect"
    ELSE IF With(p, "in_review") # {} THEN "reviewer"
    ELSE IF Due(p, "architect") THEN "architect"
    ELSE IF Due(p, "integrator") THEN "integrator"
    ELSE IF Eligible(p) # {} THEN "developer"
    ELSE IF With(p, "open") # {} \/ p.complete THEN "none"
    ELSE "planner"

TaskFor(p, role) ==
    IF role = "developer" /\ Eligible(p) # {} THEN Min(Eligible(p))
    ELSE IF role = "reviewer" /\ With(p, "in_review") # {} THEN Min(With(p, "in_review"))
    ELSE None

RouteFor(p, role) == [role |-> role, task |-> TaskFor(p, role), milestone |-> Due(p, role)]

\* Mutant of Fits: the roles agree, the tasks are not compared.
FitsRole(p, selected, stored) == selected.role = stored.role

\* The interrupted work can still be done and is what the run has selected.
Fits(p, selected, stored) ==
    /\ selected.role = stored.role
    /\ stored.role = "developer" => stored.task \in Eligible(p) /\ selected.task = stored.task
    /\ stored.role = "reviewer" =>
          stored.task \in With(p, "in_review") /\ selected.task = stored.task
    /\ stored.milestone => Due(p, stored.role) /\ selected.milestone

-----------------------------------------------------------------------------
(* Sessions *)

\* What an agent may have written when it submits: a design and a project plan, task
\* files; the doctor refuses a dependency on a task that does not exist.
Written(p, role) ==
    IF role = "architect" THEN
        LET designs == {p, [p EXCEPT !.designed = TRUE]}
        IN  designs \cup {[q EXCEPT !.begun = TRUE] : q \in designs}
    ELSE IF role = "planner" THEN
        LET free == With(p, "absent")
            new == {{}} \cup {{t \in free : t <= n} : n \in free}
        IN  UNION {{[p EXCEPT
                !.status = [t \in Task |-> IF t \in N THEN "open" ELSE @[t]],
                !.deps = [t \in Task |-> IF t \in N \cup With(p, "open") THEN d \ {t} ELSE @[t]],
                !.milestone = IF N # {} THEN "open" ELSE @] :
             d \in {e \in PlannerDeps : e \subseteq Existing(p) \cup N}} : N \in new}
    ELSE {p}

\* The handoff of an accepted result goes to the history, whatever the result asks for.
HandoffArchived(p) == [p EXCEPT !.begun = TRUE]

\* What the orchestrator makes of a result that asks for nothing; complete: the planner's word.
Applied(p, route, complete) ==
    IF route.role = "architect" /\ route.milestone THEN {[p EXCEPT !.milestone = "reviewed"]}
    ELSE IF route.role = "planner" THEN
        IF AllClosed(p) /\ ~p.complete /\ ~complete THEN {} ELSE {[p EXCEPT !.complete = complete]}
    ELSE IF route.role = "developer" /\ route.task # None THEN
        {[p EXCEPT !.status[route.task] = s] : s \in {p.status[route.task], "in_review"}}
    ELSE IF route.role = "reviewer" /\ With(p, "in_review") # {} THEN
        {[p EXCEPT !.status[Min(With(p, "in_review"))] = s] : s \in {"open", "closed"}}
    ELSE IF route.role = "integrator" THEN
        {[p EXCEPT !.milestone = m] : m \in {p.milestone, "integrated"}}
    ELSE {p}
=============================================================================
