---------------------------- MODULE ResumeProofs ----------------------------
(***************************************************************************)
(* Theorems about modules Generations, Resume and ResumeProperties, for    *)
(* any number of tasks, requests, plans and commits to the specifications. *)
(* What must hold of the last commit holds of the worktree too, at every   *)
(* step, so that an operator may commit or discard what a dead run left.   *)
(***************************************************************************)
EXTENDS ResumeProperties, WellFoundedInduction, TLAPS

\* Only developers and reviewers are given a task.
Coherent(route) == route.task # None => route.role \in {"developer", "reviewer"}

Pending(files) == {q \in Request : files.requests[q].status = "pending"}

\* PendingIsPointed, BaselineWasRead and KeepsPlans of any version of the files.
PendingAre(files) ==
    \A q \in Pending(files) :
        \/ files.plan.pointer # None /\ files.plan.pointer.by = q
        \/ q \in Clarification /\ files.requests[q].plan < files.plan.number

BaselineIs(files) ==
    files.plan.baseline <= files.plan.seen /\ files.plan.seen <= files.specs

PlansAre(files) ==
    \A n \in 1..(files.plan.number - 1) : \E a \in files.archived : a.plan = n /\ a.whole

\* The rest of what those need: requests come from plans that were begun, archives are
\* numbered up to some number, the route of the pointer is one that was selected.
Sound(files) ==
    /\ files \in Files
    /\ PendingAre(files) /\ BaselineIs(files) /\ PlansAre(files)
    /\ \A q \in Request : files.requests[q].plan <= files.plan.number
    /\ \E n \in Nat : \A a \in files.archived : a.number <= n
    /\ files.plan.pointer # None => Coherent(files.plan.pointer.route)

\* Steps of an archive, and the loop that follows it.
Archiving == {"archive", "copied", "cleared", "emptied"}

\* Research is over before a plan is archived and before the loop selects a route, and
\* a pointer that is still there is the one the run remembers.
ResearchIsDone ==
    pc \in Archiving \cup {"loop", "resolve"} => Pending(tree) \cap Research = {}

PointerIsActive ==
    pc \in Archiving \cup {"loop"} => pointer \in {None, run.active}

\* The plan that is being cleared is whole in its archive, and leaves only older requests.
PlanIsCopied ==
    /\ pc = "copied" => \E a \in tree.archived : a.plan = plan.number /\ a.whole
    /\ pc \in {"cleared", "emptied"} =>
          \A q \in Request : tree.requests[q].plan < plan.number

\* What the run remembers can be read from the worktree.
RunIsOwn ==
    /\ run.specs <= tree.specs
    /\ run.active # None => Coherent(run.active.route)

IInv ==
    /\ TypeOK
    /\ Sound(tree) /\ Sound(head) /\ head.specs = tree.specs
    /\ ResearchIsDone /\ PointerIsActive /\ PlanIsCopied /\ RunIsOwn

-----------------------------------------------------------------------------
(* Plans and routes *)

\* A set of numbers that is not empty has a least one.
LEMMA LeastIsIn ==
    ASSUME NEW S \in SUBSET Nat, S # {}
    PROVE  Min(S) \in S /\ \A j \in S : Min(S) <= j
<1> DEFINE less == {pair \in Nat \X Nat : pair[1] < pair[2]}
<1>1. IsWellFoundedOn(less, Nat)
  BY NatLessThanWellFounded DEF OpToRel
<1>2. \A a, b \in Nat : a < b => <<a, b>> \in less
  OBVIOUS
<1> HIDE DEF less
<1>3. PICK i \in S : \A j \in S : <<j, i>> \notin less
  BY <1>1, WFMin
<1>4. ASSUME NEW j \in S PROVE i <= j
  <2>1. i \in Nat /\ j \in Nat /\ ~(j < i)
    BY <1>2, <1>3
  <2> QED BY <2>1
<1> QED BY <1>4 DEF Min

\* Numbers with an upper bound have a greatest one.
LEMMA GreatestIsIn ==
    ASSUME NEW S \in SUBSET Nat, S # {}, NEW n \in Nat, \A i \in S : i <= n
    PROVE  Max(S) \in S /\ \A j \in S : j <= Max(S)
<1> DEFINE bounds == {b \in Nat : \A i \in S : i <= b}
           least == Min(bounds)
<1>1. least \in bounds /\ \A b \in bounds : least <= b
  <2>1. bounds \subseteq Nat /\ bounds # {}
    OBVIOUS
  <2> QED BY <2>1, LeastIsIn
<1>2. least \in Nat /\ \A i \in S : i <= least
  BY <1>1
<1>3. \A b \in Nat : (\A i \in S : i <= b) => least <= b
  BY <1>1
<1> HIDE DEF least
<1>4. least \in S
  <2> SUFFICES ASSUME least \notin S PROVE FALSE
    OBVIOUS
  <2>1. \A i \in S : i < least
    BY <1>2
  <2>2. PICK j \in S : TRUE
    OBVIOUS
  <2>3. least - 1 \in Nat /\ \A i \in S : i <= least - 1
    BY <1>2, <2>1, <2>2
  <2> QED BY <1>2, <1>3, <2>3
<1> QED BY <1>2, <1>4 DEF Max

\* What the state report selects has a role, or nothing.
LEMMA AssessIsTyped == ASSUME NEW p PROVE Assess(p) \in Roles \cup {"none"}
BY DEF Assess, Roles

\* A selected route is typed, and only developers and reviewers are given a task.
LEMMA RouteIsTyped ==
    ASSUME NEW p \in Plans, NEW role \in Roles
    PROVE  RouteFor(p, role) \in Routes /\ Coherent(RouteFor(p, role))
<1>1. ASSUME NEW S \in SUBSET Task, S # {} PROVE Min(S) \in Task
  BY <1>1, LeastIsIn, GenerationsAssumption
<1>2. Eligible(p) \subseteq Task /\ With(p, "in_review") \subseteq Task
  BY DEF Eligible, With
<1>3. TaskFor(p, role) \in Task \cup {None}
  BY <1>1, <1>2 DEF TaskFor
<1>4. Due(p, role) \in BOOLEAN
  BY DEF Due
<1> QED BY <1>3, <1>4 DEF RouteFor, Routes, Coherent, TaskFor

\* p is the plan that q was, but for its tasks, its milestone and the planner's word.
SamePlan(p, q) ==
    /\ p.number = q.number /\ p.pointer = q.pointer
    /\ p.baseline = q.baseline /\ p.seen = q.seen

\* Agents write tasks and designs, and nothing else of a plan.
LEMMA WrittenIsSamePlan ==
    ASSUME NEW p \in Plans, NEW role, NEW q \in Written(p, role)
    PROVE  q \in Plans /\ SamePlan(q, p)
<1>1. CASE role = "architect"
  <2> DEFINE designs == {p, [p EXCEPT !.designed = TRUE]}
  <2>1. \A r \in designs : r \in Plans /\ SamePlan(r, p)
    BY DEF Plans, SamePlan
  <2>2. q \in designs \/ \E r \in designs : q = [r EXCEPT !.begun = TRUE]
    BY <1>1 DEF Written
  <2>3. ASSUME NEW r \in Plans, SamePlan(r, p)
        PROVE  [r EXCEPT !.begun = TRUE] \in Plans /\ SamePlan([r EXCEPT !.begun = TRUE], p)
    BY <2>3 DEF Plans, SamePlan
  <2> HIDE DEF designs
  <2> QED BY <2>1, <2>2, <2>3
<1>2. CASE role = "planner"
  <2>1. PICK N \in SUBSET Task, d \in SUBSET Task :
          q = [p EXCEPT
                !.status = [t \in Task |-> IF t \in N THEN "open" ELSE @[t]],
                !.deps = [t \in Task |-> IF t \in N \cup With(p, "open") THEN d \ {t} ELSE @[t]],
                !.milestone = IF N # {} THEN "open" ELSE @]
    <3> DEFINE free == With(p, "absent")
               new == {{}} \cup {{t \in free : t <= n} : n \in free}
               over(N) == {e \in PlannerDeps : e \subseteq Existing(p) \cup N}
               plans(N) == {[p EXCEPT
                 !.status = [t \in Task |-> IF t \in N THEN "open" ELSE @[t]],
                 !.deps = [t \in Task |-> IF t \in N \cup With(p, "open") THEN d \ {t} ELSE @[t]],
                 !.milestone = IF N # {} THEN "open" ELSE @] : d \in over(N)}
    <3>1. \A N \in new : N \subseteq Task
      BY DEF With
    <3>2. Written(p, role) = UNION {plans(N) : N \in new}
      BY <1>2, Zenon DEF Written
    <3> HIDE DEF new
    <3>3. PICK N \in new : q \in plans(N)
      <4> HIDE DEF plans
      <4> QED BY <3>2
    <3>4. over(N) \subseteq SUBSET Task
      BY GenerationsAssumption
    <3> HIDE DEF over
    <3>5. PICK d \in over(N) :
            q = [p EXCEPT
                 !.status = [t \in Task |-> IF t \in N THEN "open" ELSE @[t]],
                 !.deps = [t \in Task |-> IF t \in N \cup With(p, "open") THEN d \ {t} ELSE @[t]],
                 !.milestone = IF N # {} THEN "open" ELSE @]
      BY <3>3, Zenon
    <3>6. N \in SUBSET Task /\ d \in SUBSET Task
      BY <3>1, <3>4
    <3> QED BY <3>5, <3>6, Zenon
  <2>2. /\ [t \in Task |-> IF t \in N THEN "open" ELSE p.status[t]]
             \in [Task -> {"absent", "open", "in_review", "closed"}]
        /\ [t \in Task |-> IF t \in N \cup With(p, "open") THEN d \ {t} ELSE p.deps[t]]
             \in [Task -> SUBSET Task]
    BY DEF Plans
  <2> QED BY <2>1, <2>2 DEF Plans, SamePlan
<1>3. CASE role \notin {"architect", "planner"}
  BY <1>3 DEF Written, SamePlan
<1> QED BY <1>1, <1>2, <1>3

\* A result changes the tasks, the milestone or the planner's word.
LEMMA AppliedIsSamePlan ==
    ASSUME NEW p \in Plans, NEW route \in Routes, NEW complete \in BOOLEAN,
           NEW q \in Applied(p, route, complete)
    PROVE  q \in Plans /\ SamePlan(q, p)
<1>1. CASE q = p
  BY <1>1 DEF SamePlan
<1>2. ASSUME NEW m \in {"open", "integrated", "reviewed"}, q = [p EXCEPT !.milestone = m]
      PROVE  q \in Plans /\ SamePlan(q, p)
  BY <1>2 DEF Plans, SamePlan
<1>3. CASE q = [p EXCEPT !.complete = complete]
  BY <1>3 DEF Plans, SamePlan
<1>4. ASSUME NEW t \in Task, NEW s \in {"absent", "open", "in_review", "closed"},
             q = [p EXCEPT !.status[t] = s]
      PROVE  q \in Plans /\ SamePlan(q, p)
  <2>1. [p.status EXCEPT ![t] = s] \in [Task -> {"absent", "open", "in_review", "closed"}]
    BY DEF Plans
  <2> QED BY <1>4, <2>1 DEF Plans, SamePlan
<1>5. p.milestone \in {"open", "integrated", "reviewed"}
      /\ p.status \in [Task -> {"absent", "open", "in_review", "closed"}]
  BY DEF Plans
<1>6. With(p, "in_review") # {} => Min(With(p, "in_review")) \in Task
  BY LeastIsIn, GenerationsAssumption DEF With
<1>7. route.task # None => route.task \in Task
  BY DEF Routes
<1>8. \/ q = p \/ q = [p EXCEPT !.complete = complete]
      \/ \E m \in {"open", "integrated", "reviewed"} : q = [p EXCEPT !.milestone = m]
      \/ \E t \in Task, s \in {"absent", "open", "in_review", "closed"} :
            q = [p EXCEPT !.status[t] = s]
  BY <1>5, <1>6, <1>7 DEF Applied
<1> QED BY <1>1, <1>2, <1>3, <1>4, <1>8

-----------------------------------------------------------------------------
(* Files *)

Statuses == {"unasked", "pending", "advisory", "answered", "superseded"}

\* The types of the parts of files.
LEMMA FilesAreTyped ==
    ASSUME NEW f \in Files
    PROVE  /\ f.plan \in Plans /\ f.specs \in 1..MaxSpecs /\ f.edited \in BOOLEAN
           /\ f.plan.number \in Nat /\ f.plan.pointer \in Pointers \cup {None}
           /\ f.plan.baseline \in 0..MaxSpecs /\ f.plan.seen \in 0..MaxSpecs
           /\ f.archived \in SUBSET [number : Nat, plan : Nat, whole : BOOLEAN]
           /\ f.requests \in [Request -> [status : Statuses, plan : Nat]]
           /\ \A q \in Request : f.requests[q].plan \in Nat
BY DEF Files, Plans, Statuses

\* Files that keep archives, requests, the plan's number and its pointer stay sound.
LEMMA SoundAgain ==
    ASSUME NEW f, NEW g, Sound(f), g \in Files, BaselineIs(g),
           g.archived = f.archived, g.requests = f.requests,
           g.plan.number = f.plan.number, g.plan.pointer = f.plan.pointer
    PROVE  Sound(g) /\ Pending(g) = Pending(f)
BY DEF Sound, PendingAre, Pending, PlansAre

\* Fewer requests are pending, and none belongs to a later plan.
LEMMA FewerRequests ==
    ASSUME NEW f, NEW g, Sound(f), g \in Files,
           g.archived = f.archived, g.plan = f.plan, g.specs = f.specs,
           \A q \in Request : \/ g.requests[q].plan = f.requests[q].plan
                              \/ g.requests[q].plan = 0,
           \A q \in Pending(g) : q \in Pending(f) /\ g.requests[q] = f.requests[q]
    PROVE  Sound(g)
<1>1. PendingAre(g) /\ BaselineIs(g) /\ PlansAre(g)
  BY DEF Sound, PendingAre, BaselineIs, PlansAre
<1>2. \A q \in Request : g.requests[q].plan <= g.plan.number
  <2>1. f \in Files /\ f.plan.number \in Nat
    BY FilesAreTyped DEF Sound
  <2> QED BY <2>1 DEF Sound
<1> QED BY <1>1, <1>2 DEF Sound

\* A commit keeps what is pending, the plan, the archives and the specifications.
LEMMA SettledIsSound ==
    ASSUME NEW f, Sound(f)
    PROVE  /\ Sound(Settled(f)) /\ Pending(Settled(f)) = Pending(f)
           /\ Settled(f).plan = f.plan /\ Settled(f).specs = f.specs
           /\ Settled(f).archived = f.archived
           /\ \A q \in Request : \/ Settled(f).requests[q] = f.requests[q]
                                 \/ Settled(f).requests[q].plan = 0
<1> DEFINE settled == [q \in Request |->
             IF f.requests[q].status = "answered" /\ (f.plan.pointer = None \/ f.plan.pointer.by # q)
             THEN NoRequest ELSE f.requests[q]]
<1>1. f \in Files /\ f.requests \in [Request -> [status : Statuses, plan : Nat]]
  BY FilesAreTyped DEF Sound
<1>2. NoRequest \in [status : Statuses, plan : Nat] /\ NoRequest.plan = 0
      /\ NoRequest.status # "pending"
  BY DEF NoRequest, Statuses
<1>3. settled \in [Request -> [status : Statuses, plan : Nat]]
  BY <1>1, <1>2
<1>4. Settled(f) = [f EXCEPT !.edited = FALSE, !.requests = settled]
  BY <1>1 DEF Settled, Files
<1>5. \A q \in Request : settled[q] = f.requests[q]
                         \/ (settled[q] = NoRequest /\ f.requests[q].status = "answered")
  OBVIOUS
<1> HIDE DEF settled
<1>6. Settled(f) \in Files /\ Settled(f).requests = settled /\ Settled(f).plan = f.plan
      /\ Settled(f).specs = f.specs /\ Settled(f).archived = f.archived
  BY <1>1, <1>3, <1>4 DEF Files, Statuses
<1>7. Pending(Settled(f)) = Pending(f)
  BY <1>2, <1>5, <1>6 DEF Pending
<1>8. Sound(Settled(f))
  BY <1>2, <1>5, <1>6, <1>7, FewerRequests DEF Pending
<1> QED BY <1>2, <1>5, <1>6, <1>7, <1>8

\* A request that changes its status from or to something else than pending.
LEMMA RestatedIsSound ==
    ASSUME NEW f, Sound(f), NEW q \in Request, NEW status \in Statuses \ {"pending"}
    PROVE  LET g == [f EXCEPT !.requests[q].status = status]
           IN  /\ Sound(g) /\ Pending(g) = Pending(f) \ {q}
               /\ g.plan = f.plan /\ g.specs = f.specs /\ g.archived = f.archived
               /\ \A r \in Request : g.requests[r].plan = f.requests[r].plan
               /\ \A r \in Request \ {q} : g.requests[r] = f.requests[r]
<1> DEFINE g == [f EXCEPT !.requests[q].status = status]
           restated == [f.requests EXCEPT ![q].status = status]
<1>1. f \in Files /\ f.requests \in [Request -> [status : Statuses, plan : Nat]]
  BY FilesAreTyped DEF Sound
<1>2. restated \in [Request -> [status : Statuses, plan : Nat]]
  <2>1. [f.requests[q] EXCEPT !.status = status] \in [status : Statuses, plan : Nat]
    BY <1>1
  <2> QED BY <1>1, <2>1
<1>3. /\ \A r \in Request : restated[r].plan = f.requests[r].plan
      /\ \A r \in Request \ {q} : restated[r] = f.requests[r]
      /\ restated[q].status = status
  BY <1>1
<1>4. g = [f EXCEPT !.requests = restated]
  BY <1>1 DEF Files
<1> HIDE DEF restated
<1>5. g \in Files /\ g.requests = restated /\ g.plan = f.plan
      /\ g.specs = f.specs /\ g.archived = f.archived
  BY <1>1, <1>2, <1>4 DEF Files, Statuses
<1> HIDE DEF g
<1>6. Pending(g) = Pending(f) \ {q}
  BY <1>3, <1>5 DEF Pending
<1>7. Sound(g)
  <2>1. \A r \in Pending(g) : r \in Pending(f) /\ g.requests[r] = f.requests[r]
    BY <1>3, <1>5, <1>6 DEF Pending
  <2> QED BY <1>3, <1>5, <2>1, FewerRequests
<1> QED BY <1>3, <1>5, <1>6, <1>7 DEF g

-----------------------------------------------------------------------------
(* Steps *)

Runs == [mode : Modes \cup {None}, active : Pointers \cup {None},
         researched : BOOLEAN, specs : 1..MaxSpecs, changed : BOOLEAN, based : BOOLEAN,
         forced : BOOLEAN, fresh : BOOLEAN, done : 0..2, ran : BOOLEAN]

\* What a process remembers before its command has started.
LEMMA NoRunIsTyped == NoRun \in Runs /\ NoRun.specs = 1 /\ NoRun.active = None
BY GenerationsAssumption DEF NoRun, Runs

\* A run that stops or ends leaves files that are sound.
LEMMA EndStep ==
    ASSUME Sound(tree'), Sound(head'), head'.specs = tree'.specs,
           pc' \in {"idle", "stop"}, run' = NoRun
    PROVE  IInv'
<1>1. tree' \in Files /\ head' \in Files /\ tree'.specs \in 1..MaxSpecs
  BY FilesAreTyped DEF Sound
<1>2. TypeOK'
  BY <1>1, NoRunIsTyped DEF TypeOK, Runs, Phases
<1>3. ResearchIsDone' /\ PointerIsActive' /\ PlanIsCopied'
  BY DEF ResearchIsDone, PointerIsActive, PlanIsCopied, Archiving
<1>4. RunIsOwn'
  BY <1>1, NoRunIsTyped DEF RunIsOwn
<1> QED BY <1>2, <1>3, <1>4 DEF IInv

\* The end of a run forgets the run and leaves the files.
LEMMA RunEndsStep == IInv /\ RunEnds => IInv'
BY EndStep DEF IInv, RunEnds

\* The run goes on in a phase before or after a session.
LEMMA RunStep ==
    ASSUME Sound(tree'), Sound(head'), head'.specs = tree'.specs,
           pc' \in {"archive", "emptied", "copied", "cleared", "loop"}, run' \in Runs, RunIsOwn',
           Pending(tree') \cap Research = {}, pointer' \in {None, run'.active}, PlanIsCopied'
    PROVE  IInv'
<1>1. tree' \in Files /\ head' \in Files
  BY DEF Sound
<1>2. TypeOK'
  BY <1>1 DEF TypeOK, Runs, Phases
<1>3. ResearchIsDone' /\ PointerIsActive'
  BY DEF ResearchIsDone, PointerIsActive
<1> QED BY <1>2, <1>3 DEF IInv
\* A baseline that is recorded was read.
LEMMA VouchedIsSound ==
    ASSUME NEW f, Sound(f), NEW n \in 1..MaxSpecs, n <= f.specs
    PROVE  LET g == [f EXCEPT !.plan.baseline = n, !.plan.seen = n]
           IN  Sound(g) /\ Pending(g) = Pending(f) /\ g.specs = f.specs
               /\ g.plan.pointer = f.plan.pointer /\ g.requests = f.requests
               /\ g.plan.number = f.plan.number
<1> DEFINE p == [f.plan EXCEPT !.baseline = n, !.seen = n]
           g == [f EXCEPT !.plan.baseline = n, !.plan.seen = n]
<1>1. f \in Files /\ f.plan \in Plans /\ f.specs \in 1..MaxSpecs
  BY FilesAreTyped DEF Sound
<1>2. p \in Plans /\ p.baseline = n /\ p.seen = n
      /\ p.number = f.plan.number /\ p.pointer = f.plan.pointer
  <2>1. n \in 0..MaxSpecs
    BY GenerationsAssumption
  <2> QED BY <1>1, <2>1 DEF Plans
<1>3. g = [f EXCEPT !.plan = p]
  BY <1>1 DEF Files, Plans
<1> HIDE DEF p
<1>4. g \in Files /\ g.plan = p /\ g.specs = f.specs /\ g.archived = f.archived
      /\ g.requests = f.requests
  BY <1>1, <1>2, <1>3 DEF Files
<1> HIDE DEF g
<1>5. BaselineIs(g)
  BY <1>1, <1>2, <1>4, GenerationsAssumption DEF BaselineIs
<1>6. Sound(g) /\ Pending(g) = Pending(f)
  BY <1>2, <1>4, <1>5, SoundAgain
<1> QED BY <1>2, <1>4, <1>6 DEF g

\* A run that stops may record the baseline that it has read.
LEMMA StopStep == IInv /\ Stop => IInv'
<1> SUFFICES ASSUME IInv, Stop PROVE IInv'
  OBVIOUS
<1>1. pc' = "stop" /\ run' = NoRun
  BY DEF Stop, Proceeds
<1>2. CASE RecordsBaseline /\ Clean
  <2> DEFINE g == [tree EXCEPT !.plan.baseline = run.specs, !.plan.seen = run.specs]
  <2>1. Sound(g)
    BY VouchedIsSound DEF IInv, TypeOK, RunIsOwn
  <2>2. Commits(g)
    BY <1>2 DEF Stop
  <2> HIDE DEF g
  <2>3. Sound(tree') /\ head' = tree'
    BY <2>1, <2>2, SettledIsSound DEF Commits
  <2> QED BY <1>1, <2>3, EndStep
<1>3. CASE UNCHANGED <<tree, head>>
  BY <1>1, <1>3, EndStep DEF IInv
<1> QED BY <1>2, <1>3 DEF Stop

\* An attempt of another agent that is refused.
LEMMA AttemptFailsStep ==
    ASSUME IInv, NEW attempt, attempt.edited \in BOOLEAN, AttemptFails(attempt)
    PROVE  IInv'
<1>1. tree' = [tree EXCEPT !.edited = attempt.edited] /\ tree \in Files
  BY DEF IInv, TypeOK, AttemptFails
<1>2. tree' \in Files /\ tree'.plan = tree.plan /\ tree'.specs = tree.specs
      /\ tree'.archived = tree.archived /\ tree'.requests = tree.requests
  BY <1>1 DEF Files
<1>3. Sound(tree')
  BY <1>2, SoundAgain DEF IInv, Sound, BaselineIs
<1> QED BY <1>2, <1>3, EndStep DEF IInv, AttemptFails, Proceeds

\* An attempt that answers the request of the pointer.
LEMMA AttemptAnswersStep ==
    ASSUME IInv, NEW r \in Runs, RunIsOwn, r.specs <= tree.specs,
           NEW next \in {"archive", "loop"}, AttemptAnswers(r, next),
           Awaited \in Request, Pending(tree) \cap Research \subseteq {Awaited}
    PROVE  IInv'
<1> DEFINE g == Answered(tree, Awaited)
<1>1. Sound(g) /\ Pending(g) = Pending(tree) \ {Awaited} /\ g.plan = tree.plan
      /\ g.specs = tree.specs
  BY RestatedIsSound DEF IInv, Answered, Statuses
<1>2. Commits(g) /\ run' = [r EXCEPT !.active = pointer, !.ran = TRUE] /\ pc' = next
  BY DEF AttemptAnswers
<1> HIDE DEF g
<1>3. Sound(tree') /\ head' = tree' /\ Pending(tree') = Pending(g)
      /\ tree'.plan = tree.plan /\ tree'.specs = tree.specs
  BY <1>1, <1>2, SettledIsSound DEF Commits
<1>4. pointer \in Pointers \cup {None}
  BY FilesAreTyped DEF IInv, TypeOK, pointer
<1>5. run' \in Runs /\ run'.active = pointer /\ run'.specs = r.specs
  BY <1>2, <1>4 DEF Runs
<1>6. RunIsOwn'
  BY <1>3, <1>5 DEF RunIsOwn, IInv, Sound, pointer
<1>7. PlanIsCopied'
  BY <1>2 DEF PlanIsCopied
<1>8. Pending(tree') \cap Research = {}
  BY <1>1, <1>3
<1>9. pointer' = run'.active
  BY <1>3, <1>5 DEF pointer
<1> QED BY <1>2, <1>3, <1>5, <1>6, <1>7, <1>8, <1>9, RunStep

\* Open research is what the pointer waits for.
LEMMA ResearchIsAwaited ==
    ASSUME NEW f, Sound(f), NEW q \in Pending(f), q \in Research
    PROVE  f.plan.pointer # None /\ f.plan.pointer.by = q
BY GenerationsAssumption DEF Sound, PendingAre

\* Every attempt of researcher and resolver says whether it edited.
LEMMA AttemptsAreTyped ==
    \A attempt \in ResearcherOutcomes \cup ResolverOutcomes : attempt.edited \in BOOLEAN
<1>1. ASSUME NEW attempt \in ResearcherOutcomes PROVE attempt.edited \in BOOLEAN
  <2>1. PICK succeeds \in BOOLEAN, edits \in SUBSET Paths, result \in ResultFiles :
          attempt = [answers |-> Completes(succeeds, edits, result),
                     edited |-> Restored(edits) # {}]
    BY <1>1 DEF ResearcherOutcomes
  <2>2. (Restored(edits) # {}) \in BOOLEAN
    OBVIOUS
  <2> HIDE DEF Restored
  <2> QED BY <2>1, <2>2
<1>2. ASSUME NEW attempt \in ResolverOutcomes PROVE attempt.edited \in BOOLEAN
  <2>1. PICK shape \in Shapes, a \in Attempts :
          attempt = [answers |-> Resolves(shape, a), edited |-> Remain(shape, a) # {}]
    BY <1>2 DEF ResolverOutcomes
  <2>2. (Remain(shape, a) # {}) \in BOOLEAN
    OBVIOUS
  <2> QED BY <2>1, <2>2
<1> QED BY <1>1, <1>2

\* An answered research request keeps its plan and its route.
LEMMA ResearcherStep == IInv /\ Researcher => IInv'
<1> SUFFICES ASSUME IInv, Researcher PROVE IInv'
  OBVIOUS
<1>1. PICK attempt \in ResearcherOutcomes :
        \/ AttemptAnswers([run EXCEPT !.researched = TRUE], PhaseAfterResearch(run.fresh))
        \/ AttemptFails(attempt)
  BY DEF Researcher
<1>2. attempt.edited \in BOOLEAN
  BY AttemptsAreTyped
<1>3. CASE AttemptAnswers([run EXCEPT !.researched = TRUE], PhaseAfterResearch(run.fresh))
  <2>1. [run EXCEPT !.researched = TRUE] \in Runs /\ RunIsOwn
        /\ [run EXCEPT !.researched = TRUE].specs <= tree.specs
    BY DEF IInv, TypeOK, Runs, RunIsOwn
  <2>2. Awaited \in Request
    BY DEF Researcher, Request
  <2>3. Pending(tree) \cap Research \subseteq {Awaited}
    BY ResearchIsAwaited DEF IInv, Awaited, pointer
  <2>4. PhaseAfterResearch(run.fresh) \in {"archive", "loop"}
    BY DEF PhaseAfterResearch
  <2> QED BY <1>3, <2>1, <2>2, <2>3, <2>4, AttemptAnswersStep
<1> QED BY <1>1, <1>2, <1>3, AttemptFailsStep

\* A resolved clarification keeps its plan and its route.
LEMMA ResolverStep == IInv /\ Resolver => IInv'
<1> SUFFICES ASSUME IInv, Resolver PROVE IInv'
  OBVIOUS
<1>1. PICK attempt \in ResolverOutcomes : AttemptAnswers(run, "loop") \/ AttemptFails(attempt)
  BY DEF Resolver
<1>2. attempt.edited \in BOOLEAN
  BY AttemptsAreTyped
<1>3. CASE AttemptAnswers(run, "loop")
  <2>1. run \in Runs /\ RunIsOwn /\ run.specs <= tree.specs
    BY DEF IInv, TypeOK, Runs, RunIsOwn
  <2>2. Awaited \in Request /\ Pending(tree) \cap Research = {}
    BY DEF Resolver, Request, IInv, ResearchIsDone
  <2> QED BY <1>3, <2>1, <2>2, AttemptAnswersStep
<1> QED BY <1>1, <1>2, <1>3, AttemptFailsStep
\* An empty plan has neither pointer nor baseline: nothing of it can be too new.
LEMMA EmptyPlanIsTyped ==
    ASSUME NEW n \in Nat
    PROVE  /\ EmptyPlan(n) \in Plans /\ EmptyPlan(n).number = n /\ EmptyPlan(n).pointer = None
           /\ EmptyPlan(n).baseline = 0 /\ EmptyPlan(n).seen = 0
<1>1. 0 \in 0..MaxSpecs
  BY GenerationsAssumption
<1> QED BY <1>1 DEF EmptyPlan, Plans

\* Archives are numbered.
LEMMA GenerationIsTyped ==
    ASSUME Sound(tree)
    PROVE  ActiveGeneration \in Nat
<1> DEFINE numbers == {a.number : a \in tree.archived}
<1>1. tree.archived \in SUBSET [number : Nat, plan : Nat, whole : BOOLEAN]
  BY FilesAreTyped DEF Sound
<1>2. PICK n \in Nat : \A a \in tree.archived : a.number <= n
  BY DEF Sound
<1>3. numbers \in SUBSET Nat /\ \A i \in numbers : i <= n
  BY <1>1, <1>2
<1>4. tree.archived # {} => numbers # {}
  OBVIOUS
<1> HIDE DEF numbers
<1>5. tree.archived # {} => Max(numbers) \in Nat
  BY <1>3, <1>4, GreatestIsIn
<1> QED BY <1>5 DEF ActiveGeneration, numbers

\* A copy is whole or marked as not: whatever is left of it, the plan is still active.
LEMMA CopyPlanStep == IInv /\ CopyPlan => IInv'
<1> SUFFICES ASSUME IInv, CopyPlan PROVE IInv'
  OBVIOUS
<1>1. PICK whole \in BOOLEAN :
        /\ tree' = [tree EXCEPT !.archived = @ \cup
              {[number |-> ActiveGeneration, plan |-> plan.number, whole |-> whole]}]
        /\ Proceeds(CopyEnds(whole), run)
  BY DEF CopyPlan
<1> DEFINE a0 == [number |-> ActiveGeneration, plan |-> plan.number, whole |-> whole]
<1>2. Sound(tree) /\ Sound(head) /\ tree \in Files /\ plan.number \in Nat
  BY FilesAreTyped DEF IInv, TypeOK, plan
<1>3. ActiveGeneration \in Nat
  BY <1>2, GenerationIsTyped
<1>4. a0 \in [number : Nat, plan : Nat, whole : BOOLEAN]
  BY <1>2, <1>3
<1> DEFINE archived == tree.archived \cup {a0}
<1>5. tree' = [tree EXCEPT !.archived = archived]
  BY <1>1, <1>2 DEF Files
<1>6. archived \in SUBSET [number : Nat, plan : Nat, whole : BOOLEAN]
  BY <1>2, <1>4, FilesAreTyped
<1>7. \E n \in Nat : \A a \in archived : a.number <= n
  <2>1. PICK n \in Nat : \A a \in tree.archived : a.number <= n
    BY <1>2 DEF Sound
  <2>2. \A a \in tree.archived : a.number \in Nat
    BY <1>2, FilesAreTyped
  <2>3. n + ActiveGeneration \in Nat /\ n <= n + ActiveGeneration
        /\ ActiveGeneration <= n + ActiveGeneration
    BY <1>3
  <2>4. \A a \in archived : a.number <= n + ActiveGeneration
    BY <1>3, <2>1, <2>2, <2>3
  <2> QED BY <2>3, <2>4
<1>8. tree' \in Files /\ tree'.plan = tree.plan /\ tree'.specs = tree.specs
      /\ tree'.archived = archived /\ tree'.requests = tree.requests
  <2> HIDE DEF archived
  <2> QED BY <1>2, <1>5, <1>6 DEF Files
<1>9. Sound(tree') /\ Pending(tree') = Pending(tree)
  <2>1. PendingAre(tree') /\ BaselineIs(tree') /\ Pending(tree') = Pending(tree)
    BY <1>2, <1>8 DEF Sound, PendingAre, BaselineIs, Pending
  <2>2. PlansAre(tree')
    BY <1>2, <1>8 DEF Sound, PlansAre
  <2> HIDE DEF archived
  <2> QED BY <1>2, <1>7, <1>8, <2>1, <2>2 DEF Sound
<1>10. UNCHANGED head /\ tree'.specs = head'.specs
  BY <1>8 DEF CopyPlan, IInv
<1>11. CASE ~whole
  BY <1>1, <1>2, <1>9, <1>10, <1>11, EndStep DEF Proceeds, CopyEnds
<1>12. CASE whole
  <2>1. pc' = "copied" /\ run' = run
    BY <1>1, <1>12 DEF Proceeds, CopyEnds
  <2>2. run' \in Runs /\ RunIsOwn'
    BY <1>8, <2>1 DEF IInv, TypeOK, Runs, RunIsOwn
  <2>3. PlanIsCopied'
    <3>1. a0 \in tree'.archived /\ a0.plan = plan'.number /\ a0.whole
      BY <1>8, <1>12 DEF plan
    <3> HIDE DEF a0
    <3> QED BY <2>1, <3>1 DEF PlanIsCopied
  <2>4. Pending(tree') \cap Research = {} /\ pointer' \in {None, run'.active}
    BY <1>8, <1>9, <2>1
       DEF IInv, CopyPlan, ResearchIsDone, PointerIsActive, Archiving, pointer
  <2> QED BY <1>2, <1>9, <1>10, <2>1, <2>2, <2>3, <2>4, RunStep
<1> QED BY <1>11, <1>12

\* The active files are cleared only after a whole copy of them is in the archive.
LEMMA ClearPlanStep == IInv /\ ClearPlan => IInv'
<1> SUFFICES ASSUME IInv, ClearPlan PROVE IInv'
  OBVIOUS
<1> DEFINE p == [EmptyPlan(plan.number + 1) EXCEPT
                   !.complete = plan.complete, !.baseline = plan.baseline, !.seen = plan.seen,
                   !.pointer = plan.pointer]
<1>1. tree' = [tree EXCEPT !.plan = p] /\ pc = "copied" /\ pc' = "cleared"
      /\ UNCHANGED <<head, run>>
  BY DEF ClearPlan
<1>2. Sound(tree) /\ Sound(head) /\ tree \in Files /\ plan.number \in Nat /\ plan \in Plans
  BY FilesAreTyped DEF IInv, TypeOK, plan
<1>3. EmptyPlan(plan.number + 1) \in Plans /\ EmptyPlan(plan.number + 1).number = plan.number + 1
  BY <1>2, EmptyPlanIsTyped
<1>4. p \in Plans /\ p.number = plan.number + 1 /\ p.pointer = plan.pointer
      /\ p.baseline = plan.baseline /\ p.seen = plan.seen
  BY <1>2, <1>3 DEF Plans
<1> HIDE DEF p
<1>5. tree' \in Files /\ tree'.plan = p /\ tree'.specs = tree.specs
      /\ tree'.archived = tree.archived /\ tree'.requests = tree.requests
  BY <1>1, <1>2, <1>4 DEF Files
<1>6. \A q \in Request : tree'.requests[q].plan < tree'.plan.number
  BY <1>2, <1>4, <1>5, FilesAreTyped DEF Sound, plan
<1>7. Pending(tree') = Pending(tree) /\ PendingAre(tree') /\ BaselineIs(tree')
  BY <1>2, <1>4, <1>5, <1>6 DEF Sound, Pending, PendingAre, BaselineIs, plan
<1>8. PlansAre(tree')
  <2>1. PICK a \in tree.archived : a.plan = plan.number /\ a.whole
    BY <1>1 DEF IInv, PlanIsCopied
  <2>2. \A n \in 1..(tree'.plan.number - 1) : n \in 1..(plan.number - 1) \/ n = plan.number
    BY <1>2, <1>4, <1>5
  <2> QED BY <1>2, <1>5, <2>1, <2>2 DEF PlansAre, Sound, plan
<1>9. Sound(tree')
  BY <1>2, <1>4, <1>5, <1>6, <1>7, <1>8, FilesAreTyped DEF Sound, plan
<1>10. run' \in Runs /\ RunIsOwn' /\ head'.specs = tree'.specs
  BY <1>1, <1>5 DEF IInv, TypeOK, Runs, RunIsOwn
<1>11. Pending(tree') \cap Research = {} /\ pointer' \in {None, run'.active}
  BY <1>1, <1>4, <1>5, <1>7
     DEF IInv, ResearchIsDone, PointerIsActive, Archiving, pointer, plan
<1>12. PlanIsCopied'
  BY <1>1, <1>6 DEF PlanIsCopied, plan
<1> QED BY <1>1, <1>2, <1>9, <1>10, <1>11, <1>12, RunStep

\* workflow.toml is cleared last and takes the pointer along.
LEMMA ClearStateStep == IInv /\ ClearState => IInv'
<1> SUFFICES ASSUME IInv, ClearState PROVE IInv'
  OBVIOUS
<1> DEFINE p == EmptyPlan(plan.number)
<1>1. tree' = [tree EXCEPT !.plan = p] /\ pc = "cleared" /\ pc' = "emptied"
      /\ UNCHANGED <<head, run>>
  BY DEF ClearState
<1>2. Sound(tree) /\ Sound(head) /\ tree \in Files /\ plan.number \in Nat
      /\ tree.specs \in 1..MaxSpecs
  BY FilesAreTyped DEF IInv, TypeOK, plan
<1>3. p \in Plans /\ p.number = plan.number /\ p.pointer = None /\ p.baseline = 0 /\ p.seen = 0
  BY <1>2, EmptyPlanIsTyped
<1> HIDE DEF p
<1>4. tree' \in Files /\ tree'.plan = p /\ tree'.specs = tree.specs
      /\ tree'.archived = tree.archived /\ tree'.requests = tree.requests
  BY <1>1, <1>2, <1>3 DEF Files
<1>5. Pending(tree') = Pending(tree) /\ Pending(tree) \cap Research = {}
      /\ \A q \in Request : tree.requests[q].plan < plan.number
  BY <1>1, <1>4 DEF Pending, IInv, ResearchIsDone, PlanIsCopied, Archiving
<1>6. PendingAre(tree') /\ BaselineIs(tree') /\ PlansAre(tree')
  <2>1. PendingAre(tree')
    BY <1>3, <1>4, <1>5 DEF Pending, PendingAre, Request
  <2>2. BaselineIs(tree')
    BY <1>2, <1>3, <1>4 DEF BaselineIs
  <2>3. PlansAre(tree')
    BY <1>2, <1>3, <1>4 DEF PlansAre, Sound, plan
  <2> QED BY <2>1, <2>2, <2>3
<1>7. Sound(tree')
  BY <1>2, <1>3, <1>4, <1>6 DEF Sound, plan
<1>8. run' \in Runs /\ RunIsOwn' /\ head'.specs = tree'.specs
  BY <1>1, <1>4 DEF IInv, TypeOK, Runs, RunIsOwn
<1>9. pointer' = None
  BY <1>3, <1>4 DEF pointer
<1>10. PlanIsCopied'
  BY <1>1, <1>3, <1>4, <1>5 DEF PlanIsCopied, plan
<1> QED BY <1>1, <1>2, <1>5, <1>7, <1>8, <1>9, <1>10, RunStep

\* The commit of an archive makes the whole copy permanent.
LEMMA CommitArchiveStep == IInv /\ CommitArchive => IInv'
<1> SUFFICES ASSUME IInv, CommitArchive PROVE IInv'
  OBVIOUS
<1>1. Commits(tree) /\ pc = "emptied" /\ pc' = "loop" /\ run' = [run EXCEPT !.fresh = FALSE]
  BY DEF CommitArchive
<1>2. Sound(tree') /\ head' = tree' /\ Pending(tree') = Pending(tree)
      /\ tree'.plan = tree.plan /\ tree'.specs = tree.specs
  BY <1>1, SettledIsSound DEF Commits, IInv
<1>3. run' \in Runs /\ run'.active = run.active /\ run'.specs = run.specs
  BY <1>1 DEF IInv, TypeOK, Runs
<1>4. RunIsOwn'
  BY <1>2, <1>3 DEF IInv, RunIsOwn
<1>5. Pending(tree') \cap Research = {} /\ pointer' \in {None, run'.active}
  BY <1>1, <1>2, <1>3 DEF IInv, ResearchIsDone, PointerIsActive, Archiving, pointer
<1>6. PlanIsCopied'
  BY <1>1 DEF PlanIsCopied
<1> QED BY <1>1, <1>2, <1>3, <1>4, <1>5, <1>6, RunStep
\* An operator changes files under a run, which does not notice.
LEMMA OperatorStep ==
    ASSUME IInv, UNCHANGED <<pc, run>>,
           Sound(tree'), Sound(head'), head'.specs = tree'.specs, tree.specs <= tree'.specs,
           tree'.plan = tree.plan, tree'.archived = tree.archived,
           \A q \in Request : tree'.requests[q].plan = tree.requests[q].plan,
           \A q \in Research : tree'.requests[q] = tree.requests[q]
    PROVE  IInv'
<1>1. tree' \in Files /\ head' \in Files /\ tree.specs \in 1..MaxSpecs /\ tree'.specs \in 1..MaxSpecs
  BY FilesAreTyped DEF Sound, IInv
<1>2. Awaited' = Awaited /\ pointer' = pointer /\ plan' = plan
  BY DEF Awaited, pointer, plan
<1>3. Awaited \in Research => (Asked(Awaited, "pending") <=> Asked(Awaited, "pending")')
  BY <1>2 DEF Asked
<1>4. TypeOK'
  BY <1>1, <1>2, <1>3 DEF IInv, TypeOK
<1>5. Pending(tree') \cap Research = Pending(tree) \cap Research
  BY DEF Pending
<1>6. ResearchIsDone' /\ PointerIsActive'
  BY <1>2, <1>5 DEF IInv, ResearchIsDone, PointerIsActive
<1>7. PlanIsCopied'
  BY <1>2 DEF IInv, PlanIsCopied
<1>8. RunIsOwn'
  <2>1. run.specs \in 1..MaxSpecs
    BY DEF IInv, TypeOK
  <2> QED BY <1>1, <2>1 DEF IInv, RunIsOwn
<1> QED BY <1>4, <1>6, <1>7, <1>8 DEF IInv

\* An answer is committed at once and leaves the pointer at its request.
LEMMA AnswerStep == IInv /\ Answer => IInv'
<1> SUFFICES ASSUME IInv, Answer PROVE IInv'
  OBVIOUS
<1>1. PICK q \in Clarification : tree' = Answered(tree, q) /\ head' = Answered(head, q)
  BY DEF Answer
<1>2. q \in Request /\ q \notin Research /\ "answered" \in Statuses \ {"pending"}
  BY GenerationsAssumption DEF Request, Statuses
<1>3. /\ Sound(tree') /\ tree'.plan = tree.plan /\ tree'.specs = tree.specs
      /\ tree'.archived = tree.archived
      /\ \A r \in Request : tree'.requests[r].plan = tree.requests[r].plan
      /\ \A r \in Request \ {q} : tree'.requests[r] = tree.requests[r]
  BY <1>1, <1>2, RestatedIsSound DEF IInv, Answered
<1>4. Sound(head') /\ head'.specs = head.specs
  BY <1>1, <1>2, RestatedIsSound DEF IInv, Answered
<1>5. tree.specs <= tree'.specs /\ head'.specs = tree'.specs
  BY <1>3, <1>4, FilesAreTyped DEF IInv, Sound
<1>6. Research \subseteq Request \ {q}
  BY <1>2 DEF Request
<1> QED BY <1>3, <1>4, <1>5, <1>6, OperatorStep DEF Answer

\* Newer specifications.
LEMMA NewerSpecs ==
    ASSUME NEW f, Sound(f), f.specs < MaxSpecs
    PROVE  LET g == [f EXCEPT !.specs = @ + 1]
           IN  Sound(g) /\ g.specs = f.specs + 1 /\ g.plan = f.plan
               /\ g.archived = f.archived /\ g.requests = f.requests
<1> DEFINE g == [f EXCEPT !.specs = @ + 1]
<1>1. f \in Files /\ f.specs \in 1..MaxSpecs
      /\ f.plan.seen \in 0..MaxSpecs /\ f.plan.baseline \in 0..MaxSpecs
  BY FilesAreTyped DEF Sound
<1>2. f.specs + 1 \in 1..MaxSpecs
  BY <1>1, GenerationsAssumption
<1>3. g \in Files /\ g.specs = f.specs + 1 /\ g.plan = f.plan
      /\ g.archived = f.archived /\ g.requests = f.requests
  BY <1>1, <1>2 DEF Files
<1> HIDE DEF g
<1>4. BaselineIs(g)
  BY <1>1, <1>2, <1>3, GenerationsAssumption DEF BaselineIs, Sound
<1> QED BY <1>3, <1>4, SoundAgain DEF g

\* A commit to the specifications makes them newer than what anybody has read.
LEMMA EditSpecsStep == IInv /\ EditSpecs => IInv'
<1> SUFFICES ASSUME IInv, EditSpecs PROVE IInv'
  OBVIOUS
<1>1. /\ tree.specs < MaxSpecs /\ head.specs < MaxSpecs /\ tree.specs \in 1..MaxSpecs
      /\ tree' = [tree EXCEPT !.specs = @ + 1] /\ head' = [head EXCEPT !.specs = @ + 1]
  BY FilesAreTyped DEF IInv, Sound, EditSpecs
<1>2. Sound(tree') /\ tree'.specs = tree.specs + 1 /\ tree'.plan = tree.plan
      /\ tree'.archived = tree.archived /\ tree'.requests = tree.requests
  BY <1>1, NewerSpecs DEF IInv
<1>3. Sound(head') /\ head'.specs = head.specs + 1
  BY <1>1, NewerSpecs DEF IInv
<1>4. tree.specs <= tree'.specs /\ head'.specs = tree'.specs
  BY <1>1, <1>2, <1>3 DEF IInv
<1> QED BY <1>2, <1>3, <1>4, OperatorStep DEF EditSpecs

\* Between runs nothing is remembered.
LEMMA BetweenRuns == ASSUME IInv, pc = "idle" PROVE run = NoRun
BY DEF IInv, TypeOK

\* A superseded clarification stops nothing any more.
LEMMA SupersedeStep == IInv /\ Supersede => IInv'
<1> SUFFICES ASSUME IInv, Supersede PROVE IInv'
  OBVIOUS
<1>1. PICK q \in Clarification : tree' = [tree EXCEPT !.requests[q].status = "superseded"]
  BY DEF Supersede
<1>2. q \in Request /\ "superseded" \in Statuses \ {"pending"}
  BY DEF Request, Statuses
<1>3. Sound(tree') /\ tree'.specs = tree.specs
  BY <1>1, <1>2, RestatedIsSound DEF IInv
<1> QED BY <1>3, BetweenRuns, EndStep DEF Supersede, IInv

\* A commit between runs.
LEMMA CommitsIdle ==
    ASSUME IInv, pc = "idle", UNCHANGED <<pc, run>>, NEW f, Sound(f), Commits(f)
    PROVE  IInv'
<1>1. Sound(tree') /\ head' = tree'
  BY SettledIsSound DEF Commits
<1> QED BY <1>1, BetweenRuns, EndStep

\* A commit of everything makes the worktree, which is sound, the last commit.
LEMMA CommitAllStep == IInv /\ CommitAll => IInv'
BY CommitsIdle DEF IInv, CommitAll

\* A discard brings back the last commit, which is sound.
LEMMA DiscardStep == IInv /\ Discard => IInv'
<1> SUFFICES ASSUME IInv, Discard PROVE IInv'
  OBVIOUS
<1>1. Sound(tree') /\ Sound(head') /\ head'.specs = tree'.specs
  BY DEF IInv, Discard
<1> QED BY <1>1, BetweenRuns, EndStep DEF Discard

\* An operator vouches for the specifications as they are.
LEMMA MarkPlannedStep == IInv /\ MarkPlanned => IInv'
<1> SUFFICES ASSUME IInv, MarkPlanned PROVE IInv'
  OBVIOUS
<1>1. tree.specs \in 1..MaxSpecs /\ tree.specs <= tree.specs
  BY FilesAreTyped DEF IInv, Sound
<1>2. Sound([tree EXCEPT !.plan.baseline = tree.specs, !.plan.seen = tree.specs])
  BY <1>1, VouchedIsSound DEF IInv
<1> QED BY <1>2, CommitsIdle DEF MarkPlanned

\* A command starts in the phase that its pointer and its mode call for.
LEMMA StartStep ==
    ASSUME IInv, NEW mode \in Modes, Start(mode),
           Pending(tree) \cap Research # {} => Awaited \in Research /\ Asked(Awaited, "pending")
    PROVE  IInv'
<1>1. UNCHANGED <<tree, head>> /\ pc = "idle"
  BY DEF Start
<1> DEFINE fresh == Replaces(mode)
           forced == fresh \/ mode \in {"revise", "adopt"}
           asks == Awaited \in Research
           done == IF Family(mode) = "plan" THEN Completed(forced) ELSE 0
           r == [NoRun EXCEPT
                     !.mode = mode, !.active = pointer,
                     !.researched = asks /\ Asked(pointer.by, "answered"),
                     !.specs = tree.specs, !.changed = SpecsChanged, !.based = plan.baseline # 0,
                     !.forced = forced, !.fresh = fresh,
                     !.done = done]
<1>2. run' = r /\ pc' = IF asks /\ Asked(pointer.by, "pending") THEN "research"
                        ELSE PhaseAfterResearch(fresh)
  BY DEF Start
<1>3. /\ fresh \in BOOLEAN /\ forced \in BOOLEAN /\ SpecsChanged \in BOOLEAN
      /\ (asks /\ Asked(pointer.by, "answered")) \in BOOLEAN /\ (plan.baseline # 0) \in BOOLEAN
      /\ done \in 0..2
  BY DEF Replaces, SpecsChanged, Asked, Completed
<1>4. pointer \in Pointers \cup {None} /\ tree.specs \in 1..MaxSpecs
  BY FilesAreTyped DEF IInv, Sound, pointer
<1> HIDE DEF fresh, forced, asks, done
<1>5. run' \in Runs /\ run'.active = pointer /\ run'.specs = tree.specs
  <2> DEFINE researched == asks /\ Asked(pointer.by, "answered")
             based == plan.baseline # 0
             changed == SpecsChanged
  <2>1. /\ mode \in Modes /\ fresh \in BOOLEAN /\ forced \in BOOLEAN /\ done \in 0..2
        /\ researched \in BOOLEAN /\ based \in BOOLEAN /\ changed \in BOOLEAN
    BY <1>3
  <2>2. r = [NoRun EXCEPT
                     !.mode = mode, !.active = pointer, !.researched = researched,
                     !.specs = tree.specs, !.changed = changed, !.based = based,
                     !.forced = forced, !.fresh = fresh, !.done = done]
    OBVIOUS
  <2> HIDE DEF researched, based, changed, r
  <2>3. r = [mode |-> mode, active |-> pointer, researched |-> researched,
             specs |-> tree.specs, changed |-> changed, based |-> based,
             forced |-> forced, fresh |-> fresh, done |-> done, ran |-> FALSE]
    BY <2>2 DEF NoRun
  <2>4. FALSE \in BOOLEAN
    OBVIOUS
  <2>5. r \in Runs /\ r.active = pointer /\ r.specs = tree.specs
    BY <1>4, <2>1, <2>3, <2>4 DEF Runs
  <2> QED BY <1>2, <2>5
<1>6. RunIsOwn'
  BY <1>1, <1>4, <1>5 DEF RunIsOwn, IInv, Sound, pointer
<1>7. CASE asks /\ Asked(pointer.by, "pending")
  <2>1. pc' = "research" /\ Awaited' \in Research /\ Asked(Awaited, "pending")'
    <3>1. Awaited = pointer.by /\ Awaited \in Research
      BY <1>7, GenerationsAssumption DEF Awaited, asks
    <3> QED BY <1>1, <1>2, <1>7, <3>1 DEF Awaited, pointer, Asked
  <2>2. TypeOK'
    BY <1>1, <1>5, <2>1 DEF IInv, TypeOK, Runs, Phases
  <2>3. ResearchIsDone' /\ PointerIsActive' /\ PlanIsCopied'
    BY <2>1 DEF ResearchIsDone, PointerIsActive, PlanIsCopied, Archiving
  <2> QED BY <1>1, <1>6, <2>2, <2>3 DEF IInv
<1>8. CASE ~(asks /\ Asked(pointer.by, "pending"))
  <2>1. pc' \in {"archive", "loop"}
    BY <1>2, <1>8 DEF PhaseAfterResearch
  <2>2. Pending(tree) \cap Research = {}
    BY <1>8, GenerationsAssumption DEF asks, Awaited, Asked
  <2>3. PlanIsCopied'
    BY <2>1 DEF PlanIsCopied
  <2>4. pointer' = run'.active
    BY <1>1, <1>5 DEF pointer
  <2> QED BY <1>1, <1>5, <1>6, <2>1, <2>2, <2>3, <2>4, RunStep DEF IInv
<1> QED BY <1>7, <1>8

\* A healthy workspace has its open research pointed at.
LEMMA HealthyResearch ==
    ASSUME Healthy, Pending(tree) \cap Research # {}
    PROVE  Awaited \in Research /\ Asked(Awaited, "pending")
BY DEF Healthy, ResearchIsPointed, Pending, Asked, Request

\* A command starts on a clean worktree and reads the pointer and the specifications.
LEMMA CommandStep == IInv /\ Command => IInv'
BY StartStep, HealthyResearch DEF Command

\* devlab continue is one of the commands it advises.
LEMMA ContinueStep == IInv /\ Continue => IInv'
<1> SUFFICES ASSUME IInv, Continue PROVE IInv'
  OBVIOUS
<1>1. Advised # "none" /\ Start(Advised) /\ Healthy
  BY DEF Continue
<1>2. pointer # None => pointer.command \in {"plan", "implement"}
  BY FilesAreTyped DEF IInv, TypeOK, pointer, Pointers
<1>3. Awaited \in Research => pointer # None
  BY GenerationsAssumption DEF Awaited
<1>4. Advised \in Modes
  BY <1>1, <1>2, <1>3 DEF Advised, Modes
<1> QED BY <1>1, <1>4, StartStep, HealthyResearch

\* A pointer is resumed under its command only, and only where its route fits.
LEMMA ResumeCommandStep == IInv /\ ResumeCommand => IInv'
<1> SUFFICES ASSUME IInv, ResumeCommand PROVE IInv'
  OBVIOUS
<1>1. Awaited \in Clarification /\ Awaited \notin Research /\ pointer # None
  BY GenerationsAssumption DEF ResumeCommand, Awaited
<1>2. pointer.command \in Modes
  BY <1>1, FilesAreTyped DEF IInv, TypeOK, pointer, Pointers, Modes
<1>3. Pending(tree) \cap Research = {}
  BY <1>1, ResearchIsAwaited DEF IInv, Awaited, pointer
<1> QED BY <1>2, <1>3, StartStep DEF ResumeCommand
-----------------------------------------------------------------------------
(* Sessions *)

\* The loop selects a route for a role, while no request is open.
LEMMA SelectedIsTyped ==
    ASSUME IInv, pc = "loop", ~MustStop
    PROVE  /\ SelectedRole \in Roles /\ SelectedRoute \in Routes /\ Coherent(SelectedRoute)
           /\ Pending(tree) = {}
<1>1. tree \in Files /\ plan \in Plans /\ run \in Runs
  BY FilesAreTyped DEF IInv, TypeOK, Runs, plan
<1>2. run.active # None => run.active.route \in Routes /\ run.active.route.role \in Roles
  BY <1>1 DEF Runs, Pointers, Routes
<1>3. SelectedRole \in Roles
  <2>1. CASE Overrides
    BY <1>2, <2>1 DEF SelectedRole, Overrides
  <2>2. CASE ~Overrides /\ run.forced /\ run.done < 2
    <3>1. run.done \in {0, 1}
      BY <1>1, <2>2 DEF Runs
    <3> QED BY <2>2, <3>1 DEF SelectedRole, PlanningRoles, Roles
  <2>3. CASE ~Overrides /\ ~(run.forced /\ run.done < 2)
    BY <2>3, AssessIsTyped DEF SelectedRole, MustStop
  <2> QED BY <2>1, <2>2, <2>3
<1>4. SelectedRoute \in Routes /\ Coherent(SelectedRoute)
  BY <1>1, <1>2, <1>3, RouteIsTyped DEF SelectedRoute, ResumedRoute, Overrides, IInv, RunIsOwn
<1>5. Pending(tree) = {}
  BY DEF MustStop, Blocked, PendingBlockers, Asked, Pending, IInv, ResearchIsDone, Request
<1> QED BY <1>3, <1>4, <1>5

\* Specifications are not older when a session ends.
LEMMA SpecsAreNewer ==
    ASSUME Sound(tree), NEW specs \in {tree.specs, Min({tree.specs + 1, MaxSpecs})}
    PROVE  specs \in 1..MaxSpecs /\ tree.specs <= specs
<1>1. tree.specs \in 1..MaxSpecs
  BY FilesAreTyped DEF Sound
<1>2. {tree.specs + 1, MaxSpecs} \in SUBSET Nat /\ {tree.specs + 1, MaxSpecs} # {}
  BY <1>1, GenerationsAssumption
<1> HIDE DEF Min
<1>3. specs \in {tree.specs, tree.specs + 1, MaxSpecs} /\ (specs # tree.specs => specs <= MaxSpecs)
  <2>1. Min({tree.specs + 1, MaxSpecs}) \in {tree.specs + 1, MaxSpecs}
        /\ Min({tree.specs + 1, MaxSpecs}) <= MaxSpecs
    BY <1>2, LeastIsIn
  <2> QED BY <2>1
<1> QED BY <1>1, <1>3, GenerationsAssumption

\* The files of a session that has ended, in which nothing was pending.
LEMMA WorkedIsSound ==
    ASSUME Sound(tree), Pending(tree) = {}, NEW p \in Plans, NEW specs \in 1..MaxSpecs,
           p.number = plan.number, p.baseline <= p.seen, p.seen <= specs,
           p.pointer # None => Coherent(p.pointer.route)
    PROVE  LET g == [tree EXCEPT !.specs = specs, !.plan = p]
           IN  /\ Sound(g) /\ Pending(g) = {} /\ g.plan = p /\ g.specs = specs
               /\ g.archived = tree.archived /\ g.requests = tree.requests
<1> DEFINE g == [tree EXCEPT !.specs = specs, !.plan = p]
<1>1. g \in Files /\ g.plan = p /\ g.specs = specs
      /\ g.archived = tree.archived /\ g.requests = tree.requests
  BY DEF Sound, Files
<1> HIDE DEF g
<1>2. Pending(g) = {} /\ PendingAre(g)
  BY <1>1 DEF Pending, PendingAre
<1>3. BaselineIs(g) /\ PlansAre(g)
  BY <1>1 DEF BaselineIs, PlansAre, Sound, plan
<1>4. Sound(g)
  BY <1>1, <1>2, <1>3 DEF Sound, plan
<1> QED BY <1>1, <1>2, <1>4 DEF g

\* The planner's result records a baseline that was read.
LEMMA PlannedIsRead ==
    ASSUME IInv, NEW p \in Plans, SamePlan(p, plan), NEW specs
    PROVE  LET q == Planned([p EXCEPT !.seen = tree.specs], specs)
           IN  /\ q \in Plans /\ q.number = plan.number /\ q.pointer = plan.pointer
               /\ q.baseline <= q.seen /\ q.seen <= tree.specs
<1> DEFINE r == [p EXCEPT !.seen = tree.specs]
<1>1. tree.specs \in 1..MaxSpecs /\ run.specs \in 1..MaxSpecs /\ run.specs <= tree.specs
      /\ plan.baseline <= plan.seen /\ plan.seen <= tree.specs
      /\ plan.baseline \in 0..MaxSpecs /\ plan.seen \in 0..MaxSpecs
  BY FilesAreTyped DEF IInv, TypeOK, RunIsOwn, Sound, BaselineIs, plan
<1>2. tree.specs \in 0..MaxSpecs /\ run.specs \in 0..MaxSpecs /\ plan.baseline <= tree.specs
  BY <1>1, GenerationsAssumption
<1>3. r \in Plans /\ r.seen = tree.specs /\ r.number = plan.number /\ r.pointer = plan.pointer
      /\ r.baseline = plan.baseline
  BY <1>2 DEF Plans, SamePlan
<1> HIDE DEF r
<1>4. [r EXCEPT !.baseline = run.specs] \in Plans
  BY <1>2, <1>3 DEF Plans
<1> DEFINE q == Planned(r, specs)
<1> SUFFICES /\ q \in Plans /\ q.number = plan.number /\ q.pointer = plan.pointer
             /\ q.baseline <= q.seen /\ q.seen <= tree.specs
  BY DEF r
<1>5. q = r \/ q = [r EXCEPT !.baseline = run.specs]
  BY DEF Planned
<1> HIDE DEF q
<1>6. tree.specs <= tree.specs
  BY <1>1
<1>7. CASE q = r
  BY <1>2, <1>3, <1>6, <1>7
<1>8. CASE q = [r EXCEPT !.baseline = run.specs]
  <2>1. q.baseline = run.specs /\ q.seen = tree.specs
        /\ q.number = plan.number /\ q.pointer = plan.pointer
    BY <1>3, <1>8 DEF Plans
  <2> QED BY <1>1, <1>4, <1>6, <1>8, <2>1
<1> QED BY <1>5, <1>7, <1>8

\* What a failing session leaves in the worktree is sound.
LEMMA SessionFailsStep ==
    ASSUME IInv, NEW p \in Plans, SamePlan(p, plan), SessionFails(p)
    PROVE  IInv'
<1>1. PICK edited \in BOOLEAN : tree' = [tree EXCEPT !.plan = p, !.edited = edited]
  BY DEF SessionFails
<1>2. tree' \in Files /\ tree'.plan = p /\ tree'.specs = tree.specs
      /\ tree'.archived = tree.archived /\ tree'.requests = tree.requests
  BY <1>1 DEF IInv, TypeOK, Files
<1>3. BaselineIs(tree')
  BY <1>2 DEF IInv, Sound, BaselineIs, SamePlan, plan
<1>4. Sound(tree')
  BY <1>2, <1>3, SoundAgain DEF IInv, SamePlan, plan
<1> QED BY <1>2, <1>4, EndStep DEF IInv, SessionFails, Proceeds

\* Results say whether they complete the session, and planning.
LEMMA ResultsAreTyped ==
    ASSUME NEW role \in Roles, NEW result \in Results[role]
    PROVE  result.completed \in BOOLEAN /\ result.complete \in BOOLEAN
<1>1. PICK c \in Candidates : result = Result(c)
  BY DEF Results, ResultsOf
<1>2. (c.outcome = "completed") \in BOOLEAN /\ (c.planning = "complete") \in BOOLEAN
  OBVIOUS
<1> QED BY <1>1, <1>2 DEF Result

\* A session that ends records at most the baseline that its run has read.
LEMMA SessionEndsStep ==
    ASSUME IInv, pc = "loop", ~MustStop, NEW p \in Plans, SamePlan(p, plan),
           NEW specs \in {tree.specs, Min({tree.specs + 1, MaxSpecs})},
           NEW result \in Results[SelectedRole], SessionEnds(p, specs, result)
    PROVE  IInv'
<1> DEFINE planner == SelectedRoute.role = "planner"
           done == IF Advances /\ result.completed THEN run.done + 1 ELSE run.done
           base == IF planner THEN Planned([p EXCEPT !.seen = tree.specs], specs) ELSE p
<1>1. PICK q \in Applied(base, SelectedRoute, result.complete) :
        /\ Commits([tree EXCEPT !.specs = specs, !.plan = IF Releases THEN Released(q) ELSE q])
        /\ Proceeds(IF run.forced /\ done = 2 THEN "stop" ELSE "loop",
                    [run EXCEPT
                       !.active = IF Releases THEN None ELSE @, !.done = done, !.ran = TRUE,
                       !.changed = IF planner THEN q.baseline \notin {0, specs} ELSE @,
                       !.based = IF planner THEN q.baseline # 0 ELSE @])
  BY DEF SessionEnds
<1>2. /\ SelectedRole \in Roles /\ SelectedRoute \in Routes /\ Coherent(SelectedRoute)
      /\ Pending(tree) = {} /\ result.completed \in BOOLEAN /\ result.complete \in BOOLEAN
  BY SelectedIsTyped, ResultsAreTyped
<1>3. specs \in 1..MaxSpecs /\ tree.specs <= specs /\ tree.specs \in 1..MaxSpecs /\ Sound(tree)
  BY SpecsAreNewer, FilesAreTyped DEF IInv, Sound
<1>4. base \in Plans /\ base.number = plan.number /\ base.pointer = plan.pointer
      /\ base.baseline <= base.seen /\ base.seen <= tree.specs
  BY PlannedIsRead DEF IInv, Sound, BaselineIs, SamePlan, plan
<1> HIDE DEF base
<1>5. q \in Plans /\ q.number = plan.number /\ q.pointer = plan.pointer
      /\ q.baseline <= q.seen /\ q.seen <= tree.specs /\ q.seen \in 0..MaxSpecs
  BY <1>2, <1>4, AppliedIsSamePlan DEF SamePlan, Plans
<1> DEFINE q2 == IF Releases THEN Released(q) ELSE q
<1>6. q2 \in Plans /\ q2.number = plan.number /\ q2.baseline <= q2.seen /\ q2.seen <= specs
      /\ q2.pointer = IF Releases THEN None ELSE plan.pointer
  <2>1. q.seen <= specs
    BY <1>3, <1>5
  <2>2. Released(q) \in Plans /\ Released(q).pointer = None /\ Released(q).number = q.number
        /\ Released(q).baseline = q.baseline /\ Released(q).seen = q.seen
    BY <1>5 DEF Released, Plans
  <2> QED BY <1>5, <2>1, <2>2
<1> HIDE DEF q2
<1>7. q2.pointer # None => Coherent(q2.pointer.route)
  BY <1>3, <1>6 DEF Sound, plan
<1>8. Sound([tree EXCEPT !.specs = specs, !.plan = q2])
      /\ Pending([tree EXCEPT !.specs = specs, !.plan = q2]) = {}
      /\ [tree EXCEPT !.specs = specs, !.plan = q2].plan = q2
      /\ [tree EXCEPT !.specs = specs, !.plan = q2].specs = specs
  BY <1>2, <1>3, <1>6, <1>7, WorkedIsSound
<1>9. Sound(tree') /\ head' = tree' /\ Pending(tree') = {} /\ tree'.plan = q2 /\ tree'.specs = specs
  <2>1. Commits([tree EXCEPT !.specs = specs, !.plan = q2])
    BY <1>1 DEF q2
  <2> QED BY <1>8, <2>1, SettledIsSound DEF Commits
<1>10. CASE run.forced /\ done = 2
  BY <1>1, <1>9, <1>10, EndStep DEF Proceeds
<1>11. CASE ~(run.forced /\ done = 2)
  <2> DEFINE active == IF Releases THEN None ELSE run.active
             changed == IF planner THEN q.baseline \notin {0, specs} ELSE run.changed
             based == IF planner THEN q.baseline # 0 ELSE run.based
  <2>1. run \in Runs
    BY DEF IInv, TypeOK, Runs
  <2>2. pc' = "loop" /\ run' = [run EXCEPT !.active = active, !.done = done, !.ran = TRUE,
                                 !.changed = changed, !.based = based]
    BY <1>1, <1>11, <2>1 DEF Proceeds, Runs
  <2>3. active \in Pointers \cup {None} /\ changed \in BOOLEAN /\ based \in BOOLEAN
    BY <2>1 DEF Runs
  <2>4. done \in 0..2
    BY <2>1 DEF Advances, Runs
  <2>5. active # None => Coherent(active.route)
    BY DEF IInv, RunIsOwn
  <2>6. q2.pointer \in {None, active}
    BY <1>6 DEF IInv, PointerIsActive, pointer, plan
  <2> HIDE DEF active, changed, based, done
  <2>7. run' \in Runs /\ run'.active = active /\ run'.specs = run.specs
    BY <2>1, <2>2, <2>3, <2>4 DEF Runs
  <2>8. RunIsOwn'
    <3>1. run.specs \in 1..MaxSpecs /\ run.specs <= tree.specs
      BY <2>1 DEF IInv, RunIsOwn, Runs
    <3> QED BY <1>3, <1>9, <2>5, <2>7, <3>1 DEF RunIsOwn
  <2>9. pointer' \in {None, run'.active} /\ PlanIsCopied'
    BY <1>9, <2>2, <2>6, <2>7 DEF pointer, PlanIsCopied
  <2> QED BY <1>9, <2>2, <2>7, <2>8, <2>9, RunStep
<1> QED BY <1>10, <1>11
\* A session that asks sets the pointer to its request and to its own route.
LEMMA SessionAsksStep ==
    ASSUME IInv, pc = "loop", ~MustStop, NEW p \in Plans, SamePlan(p, plan),
           NEW specs \in {tree.specs, Min({tree.specs + 1, MaxSpecs})},
           NEW asks, NEW q \in Requests(asks), SessionAsks(p, specs, asks, q)
    PROVE  IInv'
<1> DEFINE p2 == PointsAt(p, q)
           request == NewRequest(RequestedAs(asks))
           g == [Created(tree, q, RequestedAs(asks)) EXCEPT !.specs = specs, !.plan = p2]
<1>1. Commits(g) /\ \E next \in PhasesAfterRequest(q) : Proceeds(next, [run EXCEPT !.ran = TRUE])
  BY DEF SessionAsks
<1>2. /\ SelectedRoute \in Routes /\ Coherent(SelectedRoute) /\ Pending(tree) = {}
      /\ Sound(tree) /\ tree \in Files /\ plan \in Plans /\ plan.number \in Nat
      /\ tree.requests \in [Request -> [status : Statuses, plan : Nat]]
  BY SelectedIsTyped, FilesAreTyped DEF IInv, Sound, plan
<1>3. specs \in 1..MaxSpecs /\ tree.specs <= specs /\ tree.specs \in 1..MaxSpecs
  BY <1>2, SpecsAreNewer, FilesAreTyped
<1>4. q \in Request /\ (q \in Research => RequestedAs(asks) = "pending")
      /\ (q \notin Research => q \in Clarification)
  BY GenerationsAssumption DEF Requests, RequestedAs, Request
<1>5. request \in [status : Statuses, plan : Nat] /\ request.plan = plan.number
      /\ request.status = RequestedAs(asks)
  BY <1>2 DEF NewRequest, RequestedAs, Statuses
<1> HIDE DEF request
<1> DEFINE requests == [tree.requests EXCEPT ![q] = request]
<1>6. requests \in [Request -> [status : Statuses, plan : Nat]] /\ requests[q] = request
      /\ \A r \in Request \ {q} : requests[r] = tree.requests[r]
  BY <1>2, <1>4, <1>5
<1>7. p2 \in Plans /\ p2.number = plan.number /\ p2.baseline <= p2.seen /\ p2.seen <= specs
      /\ p2.pointer # None /\ p2.pointer.by = q /\ Coherent(p2.pointer.route)
  <2> DEFINE x == [by |-> q, command |-> Family(run.mode), route |-> SelectedRoute]
  <2>1. x \in Pointers /\ x.by = q /\ x.route = SelectedRoute
    BY <1>2, <1>4 DEF Pointers, Family
  <2>2. p2 = [p EXCEPT !.pointer = x]
    BY DEF PointsAt
  <2>3. x # None
    BY <2>1, NoneAssumption
  <2> HIDE DEF x, p2
  <2>4. p2 \in Plans /\ p2.pointer = x /\ p2.number = p.number
        /\ p2.baseline = p.baseline /\ p2.seen = p.seen
    BY <2>1, <2>2 DEF Plans
  <2>5. plan.baseline <= plan.seen /\ plan.seen <= tree.specs /\ plan.seen \in 0..MaxSpecs
    BY <1>2 DEF Sound, BaselineIs, plan, Plans
  <2> QED BY <1>2, <1>3, <2>1, <2>3, <2>4, <2>5 DEF SamePlan
<1> HIDE DEF p2
<1>8. g = [tree EXCEPT !.requests = requests, !.specs = specs, !.plan = p2]
  BY <1>2 DEF Created, Files, request
<1> HIDE DEF requests
<1>9. g \in Files /\ g.requests = requests /\ g.specs = specs /\ g.plan = p2
      /\ g.archived = tree.archived
  BY <1>2, <1>3, <1>6, <1>7, <1>8 DEF Files, Statuses
<1> HIDE DEF g
<1>10. Pending(g) \subseteq {q} /\ (RequestedAs(asks) = "pending" => Pending(g) = {q})
  BY <1>2, <1>4, <1>5, <1>6, <1>9 DEF Pending
<1>11. Sound(g)
  <2>1. PendingAre(g)
    BY <1>7, <1>9, <1>10 DEF PendingAre
  <2>2. BaselineIs(g) /\ PlansAre(g)
    BY <1>2, <1>7, <1>9 DEF BaselineIs, PlansAre, Sound, plan
  <2>3. \A r \in Request : g.requests[r].plan <= g.plan.number
    BY <1>2, <1>5, <1>6, <1>7, <1>9 DEF Sound, plan
  <2> QED BY <1>2, <1>7, <1>9, <2>1, <2>2, <2>3 DEF Sound
<1>12. Sound(tree') /\ head' = tree' /\ Pending(tree') = Pending(g) /\ tree'.plan = p2
       /\ tree'.specs = specs
  BY <1>1, <1>9, <1>11, SettledIsSound DEF Commits
<1>13. PICK next \in PhasesAfterRequest(q) : Proceeds(next, [run EXCEPT !.ran = TRUE])
  BY <1>1
<1>14. CASE next = "stop"
  BY <1>12, <1>13, <1>14, EndStep DEF Proceeds
<1>15. CASE next # "stop"
  <2>1. pc' = next /\ run' = [run EXCEPT !.ran = TRUE]
    BY <1>13, <1>15 DEF Proceeds
  <2>2. \/ next = "research" /\ q \in Research /\ Pending(g) = {q}
        \/ next = "resolve" /\ q \in Clarification /\ q \notin Research
    BY <1>4, <1>10, <1>13, <1>15 DEF PhasesAfterRequest
  <2>3. run' \in Runs /\ run'.active = run.active /\ run'.specs = run.specs
    BY <2>1 DEF IInv, TypeOK, Runs
  <2>4. RunIsOwn'
    <3>1. run.specs \in 1..MaxSpecs /\ run.specs <= tree.specs
      BY DEF IInv, TypeOK, RunIsOwn
    <3> QED BY <1>3, <1>12, <2>3, <3>1 DEF IInv, RunIsOwn
  <2>5. Awaited' = q
    BY <1>7, <1>12 DEF Awaited, pointer
  <2>6. TypeOK'
    <3>1. tree' \in Files /\ head' \in Files
      BY <1>12 DEF Sound
    <3>2. pc' = "research" => Asked(q, "pending")'
      BY <1>12, <2>1, <2>2 DEF Pending, Asked
    <3> QED BY <2>1, <2>2, <2>3, <2>5, <3>1, <3>2 DEF TypeOK, Runs, Phases
  <2>7. ResearchIsDone' /\ PointerIsActive' /\ PlanIsCopied'
    BY <1>10, <1>12, <2>1, <2>2
       DEF ResearchIsDone, PointerIsActive, PlanIsCopied, Archiving
  <2> QED BY <1>12, <2>4, <2>6, <2>7 DEF IInv
<1> QED BY <1>14, <1>15

\* All three ends of a session keep the invariant.
LEMMA SessionStep == IInv /\ Session => IInv'
<1> SUFFICES ASSUME IInv, Session PROVE IInv'
  OBVIOUS
<1>1. pc = "loop" /\ ~MustStop
  BY DEF Session
<1>2. PICK p \in Written(plan, SelectedRole) :
        \/ \E specs \in {tree.specs, Min({tree.specs + 1, MaxSpecs})},
              result \in Results[SelectedRole] :
              \/ SessionEnds(HandoffArchived(p), specs, result)
              \/ \E q \in Requests(result.asks) :
                    SessionAsks(HandoffArchived(p), specs, result.asks, q)
        \/ SessionFails(p)
  BY DEF Session
<1>3. p \in Plans /\ SamePlan(p, plan)
  <2>1. plan \in Plans
    BY FilesAreTyped DEF IInv, Sound, plan
  <2> QED BY <2>1, WrittenIsSamePlan
<1>4. HandoffArchived(p) \in Plans /\ SamePlan(HandoffArchived(p), plan)
  BY <1>3 DEF HandoffArchived, Plans, SamePlan
<1> QED BY <1>1, <1>2, <1>3, <1>4, SessionEndsStep, SessionAsksStep, SessionFailsStep
-----------------------------------------------------------------------------
(* The invariant *)

\* The first plan of a target has no archive, no request and no pointer.
LEMMA InitIInv == Init => IInv
<1> SUFFICES ASSUME Init PROVE IInv
  OBVIOUS
<1> DEFINE requests == [q \in Request |-> NoRequest]
<1>1. EmptyPlan(1) \in Plans /\ EmptyPlan(1).number = 1 /\ EmptyPlan(1).pointer = None
      /\ EmptyPlan(1).baseline = 0 /\ EmptyPlan(1).seen = 0
  BY EmptyPlanIsTyped
<1>2. NoRequest \in [status : Statuses, plan : Nat] /\ NoRequest.status = "unasked"
      /\ NoRequest.plan = 0
  BY DEF NoRequest, Statuses
<1>3. requests \in [Request -> [status : Statuses, plan : Nat]]
      /\ \A q \in Request : requests[q] = NoRequest
  BY <1>2
<1>4. 1 \in 1..MaxSpecs
  BY GenerationsAssumption
<1>5. tree = [specs |-> 1, plan |-> EmptyPlan(1), edited |-> FALSE, archived |-> {},
              requests |-> requests]
      /\ head = tree /\ pc = "idle" /\ run = NoRun
  BY DEF Init
<1> HIDE DEF requests
<1>6. tree \in Files /\ tree.specs = 1 /\ tree.plan = EmptyPlan(1) /\ tree.archived = {}
      /\ tree.requests = requests
  BY <1>1, <1>3, <1>4, <1>5 DEF Files, Statuses
<1>7. PendingAre(tree) /\ BaselineIs(tree) /\ PlansAre(tree)
  BY <1>1, <1>2, <1>3, <1>6 DEF Pending, PendingAre, BaselineIs, PlansAre
<1>8. Sound(tree)
  BY <1>1, <1>2, <1>3, <1>6, <1>7 DEF Sound
<1>9. TypeOK
  BY <1>5, <1>6, NoRunIsTyped DEF TypeOK, Runs, Phases
<1>10. ResearchIsDone /\ PointerIsActive /\ PlanIsCopied /\ RunIsOwn
  BY <1>5, <1>6, NoRunIsTyped
     DEF ResearchIsDone, PointerIsActive, PlanIsCopied, RunIsOwn, Archiving
<1> QED BY <1>5, <1>8, <1>9, <1>10 DEF IInv

\* Every step of a run and of an operator keeps the invariant.
LEMMA NextIInv == IInv /\ [Next]_vars => IInv'
<1> SUFFICES ASSUME IInv, [Next]_vars PROVE IInv'
  OBVIOUS
<1>1. CASE RunEnds \/ Stop \/ Researcher \/ Resolver
  BY <1>1, RunEndsStep, StopStep, ResearcherStep, ResolverStep
<1>2. CASE CopyPlan \/ ClearPlan \/ ClearState \/ CommitArchive
  BY <1>2, CopyPlanStep, ClearPlanStep, ClearStateStep, CommitArchiveStep
<1>3. CASE Answer \/ Discard \/ CommitAll \/ Supersede \/ EditSpecs
  BY <1>3, AnswerStep, DiscardStep, CommitAllStep, SupersedeStep, EditSpecsStep
<1>4. CASE Command \/ Continue \/ ResumeCommand \/ MarkPlanned
  BY <1>4, CommandStep, ContinueStep, ResumeCommandStep, MarkPlannedStep
<1>5. CASE Session
  BY <1>5, SessionStep
<1>6. CASE UNCHANGED vars
  BY <1>6 DEF vars, IInv, TypeOK, ResearchIsDone, PointerIsActive, PlanIsCopied, RunIsOwn,
             plan, pointer, Awaited, Asked
<1> QED BY <1>1, <1>2, <1>3, <1>4, <1>5, <1>6 DEF Next

\* Whatever step a run dies at and whatever an operator does with what it left, both
\* the worktree and the last commit are sound.
THEOREM Invariance == Spec => []IInv
BY InitIInv, NextIInv, PTL DEF Spec

-----------------------------------------------------------------------------
(* The properties *)

\* The state has its types; a run waits for research or for an answer only while the
\* pointer names it.
THEOREM TypeCorrect == Spec => []TypeOK
<1>1. IInv => TypeOK
  BY DEF IInv
<1> QED BY <1>1, Invariance, PTL

\* Open requests are reachable from the pointer (check_research_resume_state), whatever
\* is archived, resumed, answered or died on the way.
THEOREM RequestsArePointed == Spec => []PendingIsPointed
<1>1. IInv => PendingIsPointed
  BY DEF IInv, Sound, PendingAre, Pending, PendingIsPointed
<1> QED BY <1>1, Invariance, PTL

\* No recorded baseline is newer than what was read (PlanningStateUpdate).
THEOREM BaselinesWereRead == Spec => []BaselineWasRead
<1>1. IInv => BaselineWasRead
  BY DEF IInv, Sound, BaselineIs, BaselineWasRead
<1> QED BY <1>1, Invariance, PTL

\* Every earlier plan is whole in a committed archive (archive_active_generation).
THEOREM PlansAreKept == Spec => []KeepsPlans
<1>1. IInv => KeepsPlans
  BY DEF IInv, Sound, PlansAre, KeepsPlans
<1> QED BY <1>1, Invariance, PTL

\* A route fits the interrupted one only if it has its role, its task and its milestone.
LEMMA FittingRoutes ==
    ASSUME NEW p, NEW selected, NEW stored, Fits(p, selected, stored), Coherent(stored)
    PROVE  /\ selected.role = stored.role
           /\ stored.task # None => selected.task = stored.task
           /\ stored.milestone => selected.milestone
BY DEF Fits, Coherent

\* Commits of a run that has not finished or left its interrupted route keep the pointer.
LEMMA RunResumes ==
    ASSUME IInv, [Next]_vars, NEW p \in {head.plan.pointer} \ {None},
           pc = "loop", Family(run.mode) = p.command, head'.plan.pointer # p
    PROVE  /\ SelectedRoute.role = p.route.role
           /\ p.route.task # None => SelectedRoute.task = p.route.task
           /\ p.route.milestone => SelectedRoute.milestone
<1>1. Session
  <2>1. ASSUME NEW f, Commits(f), Sound(f), f.plan.pointer = head.plan.pointer PROVE FALSE
    BY <2>1, SettledIsSound DEF Commits
  <2>2. ~Stop
    <3> SUFFICES ASSUME Stop PROVE FALSE
      OBVIOUS
    <3>1. head' # head
      OBVIOUS
    <3> DEFINE g == [tree EXCEPT !.plan.baseline = run.specs, !.plan.seen = run.specs]
    <3>2. Commits(g) /\ tree = head
      BY <3>1 DEF Stop, Clean
    <3>3. Sound(g) /\ g.plan.pointer = tree.plan.pointer
      <4>1. run.specs \in 1..MaxSpecs /\ run.specs <= tree.specs /\ Sound(tree)
        BY DEF IInv, TypeOK, RunIsOwn
      <4> QED BY <4>1, VouchedIsSound
    <3> HIDE DEF g
    <3> QED BY <2>1, <3>2, <3>3
  <2>3. ~Answer
    <3> SUFFICES ASSUME Answer PROVE FALSE
      OBVIOUS
    <3>1. PICK q \in Clarification : head' = Answered(head, q)
      BY DEF Answer
    <3>2. head'.plan = head.plan
      BY <3>1 DEF Answered, IInv, TypeOK, Files
    <3> QED BY <3>2
  <2>4. ~EditSpecs
    BY DEF EditSpecs, IInv, TypeOK, Files
  <2>5. ~RunEnds /\ head' # head
    BY DEF RunEnds
  <2> QED BY <2>2, <2>3, <2>4, <2>5
       DEF Next, vars, Researcher, Resolver, CopyPlan, ClearPlan, ClearState, CommitArchive,
           Discard, CommitAll, Supersede, Command, Continue, ResumeCommand, Start, MarkPlanned
<1>2. tree = head /\ ~MustStop /\ pointer = p /\ p # None
  BY <1>1 DEF Session, Clean, pointer
<1>3. run.active = p
  BY <1>2 DEF IInv, PointerIsActive
<1>4. Fits(plan, SelectedRoute, p.route)
  BY <1>2, <1>3 DEF MustStop, OfStoredCommand
<1>5. Coherent(p.route)
  BY <1>2, <1>3 DEF IInv, RunIsOwn
<1> QED BY <1>4, <1>5, FittingRoutes

\* An interrupted command does its interrupted route before anything else
\* (_resume_validation_error, plan --revise, answered research).
THEOREM RoutesAreResumed == Spec => ResumesItsRoute
<1>1. IInv /\ [Next]_vars =>
        [\A p \in {head.plan.pointer} \ {None} :
          /\ pc = "loop" /\ Family(run.mode) = p.command
          /\ head'.plan.pointer # p
          => /\ SelectedRoute.role = p.route.role
             /\ p.route.task # None => SelectedRoute.task = p.route.task
             /\ p.route.milestone => SelectedRoute.milestone]_vars
  BY RunResumes
<1> QED BY <1>1, Invariance, PTL DEF Spec, ResumesItsRoute
=============================================================================
