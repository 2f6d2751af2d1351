---------------------------- MODULE TestServices ----------------------------
(***************************************************************************)
(* A managed test service of a workspace: an external resource (a          *)
(* container, a database) that target commands ensure and destroy, the     *)
(* record by which DevLab owns it, and the DevLab processes that use it or *)
(* clean it up.  The record is a file of the worktree, committed alone     *)
(* after each write; an operator may discard uncommitted files at any      *)
(* time, and a process may be killed between any two steps, with the       *)
(* target command it runs or without it.                                   *)
(***************************************************************************)
EXTENDS Naturals, FiniteSets

CONSTANTS
    Process,       \* DevLab processes of one workspace
    Instance,      \* bound: the random identities that can be drawn
    Definition,    \* digests of the service's definition in the configuration
    MaxOrphans,    \* bound: target commands that ever outlive their process
    None           \* no process, instance or definition

ASSUME TestServicesAssumption ==
    /\ None \notin Process \cup Instance \cup Definition
    /\ MaxOrphans \in Nat

VARIABLES
    config,        \* digest of the definition in the present configuration
    lock,          \* the process that holds the service lock
    record,        \* the record file in the worktree
    head,          \* the record in the last commit
    dirty,         \* the record file or its event differs from the last commit
    pc,            \* what each process does next
    after,         \* what it does once the record is committed
    mine,          \* the record each process holds in memory
    definition,    \* digest of the definition each process acts on
    resources,     \* instances whose external resource exists
    orphans,       \* target commands that outlived the process that started them
    haunted        \* instances for which an ensure command has outlived its process

repository == <<record, head, dirty>>
processes == <<pc, after, mine, definition>>
external == <<resources, orphans, haunted>>
vars == <<config, lock, repository, processes, external>>

States == {"none", "preparing", "ready", "failed", "destroying", "cleanup_failed", "destroyed"}
Record == [state : States, instance : Instance \cup {None}, digest : Definition \cup {None}]
NoRecord == [state |-> "none", instance |-> None, digest |-> None]
Steps == {"idle", "starting", "reading", "committing", "checking", "ensuring", "using", "asked",
          "cleaning", "destroying"}

TypeOK ==
    /\ config \in Definition
    /\ lock \in Process \cup {None}
    /\ record \in Record /\ head \in Record /\ dirty \in BOOLEAN
    /\ pc \in [Process -> Steps]
    /\ after \in [Process -> Steps]
    /\ mine \in [Process -> Record]
    /\ definition \in [Process -> Definition \cup {None}]
    /\ \A p \in Process : definition[p] = None <=> pc[p] = "idle"
    /\ resources \subseteq Instance /\ haunted \subseteq Instance
    /\ orphans \subseteq {"ensure", "destroy"} \X Instance

Init ==
    /\ config \in Definition
    /\ lock = None
    /\ record = NoRecord /\ head = NoRecord /\ dirty = FALSE
    /\ pc = [p \in Process |-> "idle"]
    /\ after = [p \in Process |-> "idle"]
    /\ mine = [p \in Process |-> NoRecord]
    /\ definition = [p \in Process |-> None]
    /\ resources = {} /\ orphans = {} /\ haunted = {}

\* No record owns a resource, or the last one was cleaned up.
Unowned(r) == r.state \in {"none", "destroyed"}

-----------------------------------------------------------------------------
(* Writing the record *)

\* The file is written at once and committed by the next step.
Write(p, r, next) ==
    /\ record' = r /\ dirty' = TRUE
    /\ mine' = [mine EXCEPT ![p] = r]
    /\ pc' = [pc EXCEPT ![p] = "committing"]
    /\ after' = [after EXCEPT ![p] = next]
    /\ UNCHANGED <<config, lock, head, definition>>

WriteState(p, state, next) == Write(p, [mine[p] EXCEPT !.state = state], next)

\* Mutant of Stop: the process keeps the definition it was authorised for.
StopKeepsDefinition(p) ==
    /\ pc' = [pc EXCEPT ![p] = "idle"]
    /\ after' = [after EXCEPT ![p] = "idle"]
    /\ mine' = [mine EXCEPT ![p] = NoRecord]
    /\ lock' = IF lock = p THEN None ELSE lock
    /\ UNCHANGED definition

\* A process ends, and the lock it holds with it.
Stop(p) ==
    /\ pc' = [pc EXCEPT ![p] = "idle"]
    /\ after' = [after EXCEPT ![p] = "idle"]
    /\ mine' = [mine EXCEPT ![p] = NoRecord]
    /\ definition' = [definition EXCEPT ![p] = None]
    /\ lock' = IF lock = p THEN None ELSE lock

Commit(p) ==
    /\ pc[p] = "committing"
    /\ dirty
    /\ head' = record /\ dirty' = FALSE
    /\ IF after[p] = "idle" THEN Stop(p)
       ELSE /\ pc' = [pc EXCEPT ![p] = after[p]]
            /\ UNCHANGED <<lock, after, mine, definition>>
    /\ UNCHANGED <<config, record, external>>

\* Git refuses (always when nothing is left to commit) and the error ends the process.
CommitFails(p) ==
    /\ pc[p] = "committing"
    /\ Stop(p)
    /\ UNCHANGED <<config, repository, external>>

\* The lock does not wait.
LockRefused(p) ==
    /\ pc[p] \in {"starting", "asked"}
    /\ lock # None
    /\ Stop(p)
    /\ UNCHANGED <<config, repository, external>>

-----------------------------------------------------------------------------
(* A run prepares the service and uses it *)

\* The run found a clean worktree and froze its configuration.
StartRun(p) ==
    /\ pc[p] = "idle"
    /\ ~dirty
    /\ definition' = [definition EXCEPT ![p] = config]
    /\ pc' = [pc EXCEPT ![p] = "starting"]
    /\ UNCHANGED <<config, lock, repository, after, mine, external>>

\* The first session that needs the service takes the lock for the rest of the
\* run.  The worktree may have changed since it was found clean.
LockRun(p) ==
    /\ pc[p] = "starting"
    /\ lock = None
    /\ lock' = p
    /\ pc' = [pc EXCEPT ![p] = "reading"]
    /\ UNCHANGED <<config, repository, after, mine, definition, external>>

Fresh == Instance \ (resources \cup haunted \cup {record.instance, head.instance}
                     \cup {o[2] : o \in orphans} \cup {mine[p].instance : p \in Process})

\* Mutant of Adoptable: an interrupted or failed cleanup does not matter.
AdoptableAlways(p) == ~Unowned(record) /\ record.digest = definition[p]

\* A record of the same definition that no cleanup has touched.
Adoptable(p) ==
    record.state \in {"preparing", "ready", "failed"} /\ record.digest = definition[p]

Register(p) ==
    /\ pc[p] = "reading"
    /\ Unowned(record)
    /\ \E i \in Fresh :
          Write(p, [state |-> "preparing", instance |-> i, digest |-> definition[p]], "checking")
    /\ UNCHANGED external

Adopt(p) ==
    /\ pc[p] = "reading"
    /\ Adoptable(p)
    /\ mine' = [mine EXCEPT ![p] = record]
    /\ pc' = [pc EXCEPT ![p] = "checking"]
    /\ UNCHANGED <<config, lock, repository, after, definition, external>>

\* The service changed, or its cleanup must be retried.
Refuse(p) ==
    /\ pc[p] = "reading"
    /\ ~Unowned(record) /\ ~Adoptable(p)
    /\ Stop(p)
    /\ UNCHANGED <<config, repository, external>>

\* A host prerequisite is missing, or the wait was interrupted.
HostCheckFails(p) ==
    /\ pc[p] = "checking"
    /\ WriteState(p, "failed", "idle")
    /\ UNCHANGED external

\* The readiness command succeeds on a resource that is recorded as ready.
Reuse(p) ==
    /\ pc[p] = "checking"
    /\ mine[p].state = "ready"
    /\ mine[p].instance \in resources
    /\ WriteState(p, "ready", "using")
    /\ UNCHANGED external

\* Otherwise, or when exports or readiness are not as declared, ensure runs
\* again for the same instance.
Prepare(p) ==
    /\ pc[p] = "checking"
    /\ WriteState(p, "preparing", "ensuring")
    /\ UNCHANGED external

EnsureSucceeds(p) ==
    /\ pc[p] = "ensuring"
    /\ resources' = resources \cup {mine[p].instance}
    /\ WriteState(p, "ready", "using")
    /\ UNCHANGED <<orphans, haunted>>

\* The command, its exports or the readiness check fails or times out.
EnsureFails(p) ==
    /\ pc[p] = "ensuring"
    /\ resources' \in {resources, resources \cup {mine[p].instance}}
    /\ WriteState(p, "failed", "idle")
    /\ UNCHANGED <<orphans, haunted>>

\* The next session or validation of the run prepares the service again.
PrepareAgain(p) ==
    /\ pc[p] = "using"
    /\ pc' = [pc EXCEPT ![p] = "reading"]
    /\ UNCHANGED <<config, lock, repository, after, mine, definition, external>>

EndRun(p) ==
    /\ pc[p] \in {"starting", "using"}
    /\ Stop(p)
    /\ UNCHANGED <<config, repository, external>>

-----------------------------------------------------------------------------
(* devlab test-service cleanup *)

\* The command reads the record and authorises its definition before it locks.
Ask(p) ==
    /\ pc[p] = "idle"
    /\ ~Unowned(record)
    /\ definition' = [definition EXCEPT ![p] = record.digest]
    /\ pc' = [pc EXCEPT ![p] = "asked"]
    /\ UNCHANGED <<config, lock, repository, after, mine, external>>

Lock(p) ==
    /\ pc[p] = "asked"
    /\ lock = None
    /\ lock' = p
    /\ pc' = [pc EXCEPT ![p] = "cleaning"]
    /\ UNCHANGED <<config, repository, after, mine, definition, external>>

\* Mutant of StartCleanup: a cleanup that was interrupted is not taken up again.
StartCleanupOnce(p) ==
    /\ pc[p] = "cleaning"
    /\ ~Unowned(record) /\ record.digest = definition[p] /\ record.state # "destroying"
    /\ Write(p, [record EXCEPT !.state = "destroying"], "destroying")
    /\ UNCHANGED external

\* The record is read again under the lock.
StartCleanup(p) ==
    /\ pc[p] = "cleaning"
    /\ ~Unowned(record) /\ record.digest = definition[p]
    /\ Write(p, [record EXCEPT !.state = "destroying"], "destroying")
    /\ UNCHANGED external

NothingToClean(p) ==
    /\ pc[p] = "cleaning"
    /\ Unowned(record) \/ record.digest # definition[p]
    /\ Stop(p)
    /\ UNCHANGED <<config, repository, external>>

DestroySucceeds(p) ==
    /\ pc[p] = "destroying"
    /\ resources' = resources \ {mine[p].instance}
    /\ WriteState(p, "destroyed", "idle")
    /\ UNCHANGED <<orphans, haunted>>

\* Mutant of DestroyFails: the exit status of the destroy command is not looked at.
DestroyFailsUnseen(p) ==
    /\ pc[p] = "destroying"
    /\ resources' \in {resources, resources \ {mine[p].instance}}
    /\ WriteState(p, "destroyed", "idle")
    /\ UNCHANGED <<orphans, haunted>>

DestroyFails(p) ==
    /\ pc[p] = "destroying"
    /\ resources' \in {resources, resources \ {mine[p].instance}}
    /\ WriteState(p, "cleanup_failed", "idle")
    /\ UNCHANGED <<orphans, haunted>>

-----------------------------------------------------------------------------
(* Operators, crashes and the outside *)

EditConfig ==
    /\ config' \in Definition \ {config}
    /\ UNCHANGED <<lock, repository, processes, external>>

\* git reset and git clean; private exports are ignored files and stay.
Discard ==
    /\ dirty
    /\ record' = head /\ dirty' = FALSE
    /\ UNCHANGED <<config, lock, head, processes, external>>

\* A session's commit, or the operator's, takes whatever is uncommitted.
CommitAll ==
    /\ dirty
    /\ head' = record /\ dirty' = FALSE
    /\ UNCHANGED <<config, lock, record, processes, external>>

\* The kernel releases the lock of a killed process.  Its target command runs in a
\* session of its own and may go on: only an exception of Python would end it.
Crash(p) ==
    /\ pc[p] \notin {"idle", "starting", "asked"}
    /\ LET i == mine[p].instance
           command == IF pc[p] = "ensuring" THEN "ensure" ELSE "destroy"
       IN  \/ UNCHANGED external
           \/ /\ pc[p] \in {"ensuring", "destroying"}
              /\ Cardinality(orphans \cup {"ensure"} \X haunted) < MaxOrphans
              /\ orphans' = orphans \cup {<<command, i>>}
              /\ haunted' = IF command = "ensure" THEN haunted \cup {i} ELSE haunted
              /\ UNCHANGED resources
           \/ /\ pc[p] = "ensuring" /\ resources' = resources \cup {i}
              /\ UNCHANGED <<orphans, haunted>>
           \/ /\ pc[p] = "destroying" /\ resources' = resources \ {i}
              /\ UNCHANGED <<orphans, haunted>>
    /\ Stop(p)
    /\ UNCHANGED <<config, repository>>

\* A command that outlived its process has its effect, late, or none.
OrphanEnds ==
    \E o \in orphans :
        /\ orphans' = orphans \ {o}
        /\ resources' \in {resources, IF o[1] = "ensure" THEN resources \cup {o[2]}
                                                        ELSE resources \ {o[2]}}
        /\ UNCHANGED <<config, lock, repository, processes, haunted>>

-----------------------------------------------------------------------------
Step(p) ==
    \/ Commit(p) \/ CommitFails(p)
    \/ StartRun(p) \/ LockRun(p) \/ LockRefused(p)
    \/ Register(p) \/ Adopt(p) \/ Refuse(p) \/ HostCheckFails(p) \/ Reuse(p) \/ Prepare(p)
    \/ EnsureSucceeds(p) \/ EnsureFails(p) \/ PrepareAgain(p) \/ EndRun(p)
    \/ Ask(p) \/ Lock(p) \/ StartCleanup(p) \/ NothingToClean(p)
    \/ DestroySucceeds(p) \/ DestroyFails(p)
    \/ Crash(p)

Next == (\E p \in Process : Step(p)) \/ EditConfig \/ Discard \/ CommitAll \/ OrphanEnds

Spec == Init /\ [][Next]_vars

-----------------------------------------------------------------------------
(* Properties *)

\* A process that uses the service holds the lock, and the resource it was given
\* exists: no cleanup, no late command of a killed cleanup and no other run can
\* have removed it (test_service_lock spans run_loop, ensure refuses a record
\* whose cleanup has begun).
InUseExists ==
    \A p \in Process : pc[p] = "using" => lock = p /\ mine[p].instance \in resources

\* The committed record owns every resource, through crashes, failed commits and
\* discarded worktrees: one instance at a time, registered before its ensure
\* command starts and released after its destroy command succeeded.  A resource
\* whose ensure command outlived its process is outside the promise.
Owner == INSTANCE ServiceOwnership
             WITH owner <- IF Unowned(head) THEN None ELSE head.instance,
                  live <- resources \ haunted
OwnsResources == Owner!Spec

-----------------------------------------------------------------------------
(* Fairness: processes go on, runs end, and the operator retries the cleanup *)

GoesOn(p) ==
    \/ Commit(p) \/ CommitFails(p) \/ LockRun(p) \/ LockRefused(p)
    \/ Register(p) \/ Adopt(p) \/ Refuse(p) \/ HostCheckFails(p) \/ Reuse(p)
    \/ Prepare(p) \/ EnsureSucceeds(p) \/ EnsureFails(p)
    \/ StartCleanup(p) \/ NothingToClean(p) \/ DestroySucceeds(p) \/ DestroyFails(p)

\* A killed process, a refused commit, a failed destroy command, and an operator
\* who commits or discards under the hands of a process.
Fault ==
    \E p \in Process :
        \/ CommitFails(p) \/ DestroyFails(p) \/ Crash(p)
        \/ pc[p] = "committing" /\ (CommitAll \/ Discard)

\* Faults stop some day.  A dirty worktree is committed or discarded, runs end, and
\* somebody retries the cleanup when the service is not in use, not always at the
\* moment another process holds the lock.
FairSpec ==
    /\ Spec
    /\ <>[][~Fault]_vars
    /\ WF_vars(CommitAll \/ Discard)
    /\ \A p \in Process : WF_vars(GoesOn(p)) /\ SF_vars(EndRun(p))
    /\ SF_vars(\E p \in Process : Ask(p) /\ lock = None)
    /\ SF_vars(\E p \in Process : Lock(p))

\* No crash, failed commit, discarded worktree, changed definition or interrupted
\* cleanup leaves a record that can never be released: once faults stop, cleanup
\* succeeds (cleanup takes the definition from the record and accepts every state).
CleanupSucceeds == []<>Unowned(head)
=============================================================================
