------------------------- MODULE TestServicesProofs -------------------------
(***************************************************************************)
(* Theorems about module TestServices, for any number of processes,        *)
(* instances, definitions and commands that outlive their process.  The    *)
(* inductive invariant says what the holder of the lock knows of the two   *)
(* copies of the record, and what an interrupted cleanup excludes.         *)
(***************************************************************************)
EXTENDS TestServices, TLAPS

Locked == {"reading", "committing", "checking", "ensuring", "using", "cleaning", "destroying"}

\* The lock is held by the process that is in one of the steps that need it.
LockIsHeld == \A p \in Process : pc[p] \in Locked <=> lock = p

\* A record that was written names an instance and a definition.
Complete(r) == r.state # "none" => r.instance \in Instance /\ r.digest \in Definition

RecordsAreComplete == Complete(record) /\ Complete(head) /\ \A p \in Process : Complete(mine[p])

\* The record a process holds in memory, in each of its steps.
Holds(p) ==
    /\ pc[p] \in {"idle", "starting", "asked", "cleaning"} => mine[p] = NoRecord
    /\ pc[p] = "committing" =>
         \/ after[p] = "idle" /\ mine[p].state \in {"failed", "cleanup_failed", "destroyed"}
         \/ after[p] \in {"checking", "ensuring"} /\ mine[p].state = "preparing"
         \/ after[p] = "using" /\ mine[p].state = "ready"
         \/ after[p] = "destroying" /\ mine[p].state = "destroying"
    /\ pc[p] = "checking" => mine[p].state \in {"preparing", "ready", "failed"}
    /\ pc[p] = "ensuring" => mine[p].state = "preparing"
    /\ pc[p] = "using" => mine[p].state = "ready"
    /\ pc[p] = "destroying" => mine[p].state = "destroying"

HoldsRecord == \A p \in Process : Holds(p)

\* What is to be committed is what the process wrote; a target command runs only when its
\* record is committed.
CommitsOwn ==
    /\ ~dirty => record = head
    /\ \A p \in Process :
         /\ pc[p] = "committing" /\ dirty => record = mine[p]
         /\ pc[p] \in {"ensuring", "destroying"} => ~dirty /\ head = mine[p]

Owning(r) == IF Unowned(r) THEN None ELSE r.instance
Live == resources \ haunted

\* Only what the committed record owns is live; nothing is when the worktree's record, or that
\* of a process that is about to write it, owns another instance.
OwnedIsLive ==
    /\ Live \subseteq {Owning(head)}
    /\ Owning(record) # Owning(head) => Live = {}
    /\ \A p \in Process : pc[p] = "checking" => mine[p].instance = Owning(head) \/ Live = {}
    /\ \A o \in orphans : o[1] = "ensure" => o[2] \in haunted

Cleaned(r, i) == r.instance = i => r.state \in {"destroying", "cleanup_failed", "destroyed"}

\* An instance whose destroy command outlived its process is never prepared again.
CleanupIsFinal ==
    \A o \in orphans : o[1] = "destroy" =>
        /\ Cleaned(record, o[2]) /\ Cleaned(head, o[2])
        /\ \A p \in Process : Cleaned(mine[p], o[2])

\* The resource exists from the end of its preparation on.
GivenExists ==
    \A p \in Process :
        pc[p] = "using" \/ (pc[p] = "committing" /\ after[p] = "using")
            => mine[p].instance \in resources

IInv ==
    /\ TypeOK /\ LockIsHeld /\ RecordsAreComplete /\ HoldsRecord /\ CommitsOwn
    /\ OwnedIsLive /\ CleanupIsFinal /\ GivenExists
-----------------------------------------------------------------------------
(* Lemmas *)

\* The processes and what each of them holds in memory.
LEMMA FunctionTypes ==
    ASSUME IInv
    PROVE  /\ pc \in [Process -> Steps] /\ after \in [Process -> Steps]
           /\ mine \in [Process -> Record]
           /\ definition \in [Process -> Definition \cup {None}]
  BY DEF IInv, TypeOK

\* While one process holds the lock, the others have read nothing.
LEMMA OthersHoldNothing ==
    ASSUME IInv, NEW p \in Process, pc[p] \in Locked, NEW q \in Process, q # p
    PROVE  pc[q] \in {"idle", "starting", "asked"} /\ mine[q] = NoRecord
<1>1. pc[q] \notin Locked
  BY DEF IInv, LockIsHeld
<1>2. pc[q] \in Steps
  BY DEF IInv, TypeOK
<1>3. pc[q] \in {"idle", "starting", "asked"}
  BY <1>1, <1>2 DEF Steps, Locked
<1> QED BY <1>3 DEF IInv, HoldsRecord, Holds

\* A record owns one instance or none.
LEMMA OwningIsTyped == ASSUME NEW r \in Record PROVE Owning(r) \in Instance \cup {None}
  BY DEF Owning, Record

\* What the next step of a process expects of the record it writes.
Expects(next, r) ==
    \/ next = "idle" /\ r.state \in {"failed", "cleanup_failed", "destroyed"}
    \/ next \in {"checking", "ensuring"} /\ r.state = "preparing"
    \/ next = "using" /\ r.state = "ready"
    \/ next = "destroying" /\ r.state = "destroying"

\* Writing the record keeps the invariant, if the record names what is live (Services.record).
LEMMA WriteStep ==
    ASSUME IInv, NEW p \in Process, pc[p] \in Locked, NEW r \in Record, Complete(r),
           NEW next, Expects(next, r), Write(p, r, next),
           resources' \subseteq Instance, UNCHANGED <<orphans, haunted>>,
           Live' \subseteq {Owning(head)}, Owning(r) # Owning(head) => Live' = {},
           \A o \in orphans : o[1] = "destroy" => Cleaned(r, o[2]),
           next = "using" => r.instance \in resources'
    PROVE  IInv'
<1> USE DEF Write
<1>1. \A q \in Process : /\ pc'[q] = IF q = p THEN "committing" ELSE pc[q]
                         /\ mine'[q] = IF q = p THEN r ELSE mine[q]
                         /\ after'[q] = IF q = p THEN next ELSE after[q]
  BY FunctionTypes
<1>2. TypeOK'
  BY DEF IInv, TypeOK, Steps, Expects, Locked
<1>3. LockIsHeld'
  BY <1>1 DEF IInv, LockIsHeld, Locked
<1>4. RecordsAreComplete'
  BY <1>1 DEF IInv, RecordsAreComplete
<1>5. HoldsRecord'
  <2> SUFFICES ASSUME NEW q \in Process PROVE Holds(q)'
    BY DEF HoldsRecord
  <2>1. CASE q = p
    BY <1>1, <2>1 DEF Holds, Expects
  <2>2. CASE q # p
    BY <1>1, <2>2 DEF IInv, HoldsRecord, Holds
  <2> QED BY <2>1, <2>2
<1>6. CommitsOwn'
  <2> SUFFICES ASSUME NEW q \in Process
               PROVE  /\ pc'[q] = "committing" => record' = mine'[q]
                      /\ pc'[q] \notin {"ensuring", "destroying"}
    BY DEF CommitsOwn
  <2>1. CASE q = p
    BY <1>1, <2>1
  <2>2. CASE q # p
    BY <1>1, <2>2, OthersHoldNothing
  <2> QED BY <2>1, <2>2
<1>7. OwnedIsLive'
  BY <1>1, OthersHoldNothing DEF IInv, OwnedIsLive
<1>8. CleanupIsFinal'
  BY <1>1 DEF IInv, CleanupIsFinal
<1>9. GivenExists'
  <2> SUFFICES ASSUME NEW q \in Process,
                      pc'[q] = "using" \/ (pc'[q] = "committing" /\ after'[q] = "using")
               PROVE  mine'[q].instance \in resources'
    BY DEF GivenExists
  <2>1. q = p
    BY <1>1, OthersHoldNothing
  <2> QED BY <1>1, <2>1
<1> QED BY <1>2, <1>3, <1>4, <1>5, <1>6, <1>7, <1>8, <1>9 DEF IInv

\* What the end of a process leaves of its state, and of the others'.
LEMMA StopEffect ==
    ASSUME IInv, NEW p \in Process, Stop(p)
    PROVE  /\ lock' \in Process \cup {None}
           /\ pc' \in [Process -> Steps] /\ after' \in [Process -> Steps]
           /\ mine' \in [Process -> Record]
           /\ definition' \in [Process -> Definition \cup {None}]
           /\ \A q \in Process : definition'[q] = None <=> pc'[q] = "idle"
           /\ \A q \in Process : /\ pc'[q] = IF q = p THEN "idle" ELSE pc[q]
                                 /\ mine'[q] = IF q = p THEN NoRecord ELSE mine[q]
                                 /\ after'[q] = IF q = p THEN "idle" ELSE after[q]
           /\ LockIsHeld' /\ HoldsRecord'
<1> USE DEF Stop
<1>1. NoRecord \in Record
  BY DEF NoRecord, Record, States
<1>2. \A q \in Process : /\ pc'[q] = IF q = p THEN "idle" ELSE pc[q]
                         /\ mine'[q] = IF q = p THEN NoRecord ELSE mine[q]
                         /\ after'[q] = IF q = p THEN "idle" ELSE after[q]
                         /\ definition'[q] = IF q = p THEN None ELSE definition[q]
  BY FunctionTypes
<1>3. LockIsHeld'
  BY <1>2, TestServicesAssumption DEF IInv, LockIsHeld, Locked
<1>4. HoldsRecord'
  <2> SUFFICES ASSUME NEW q \in Process PROVE Holds(q)'
    BY DEF HoldsRecord
  <2>1. CASE q = p
    BY <1>2, <2>1 DEF Holds
  <2>2. CASE q # p
    BY <1>2, <2>2 DEF IInv, HoldsRecord, Holds
  <2> QED BY <2>1, <2>2
<1>5. /\ lock' \in Process \cup {None}
      /\ pc' \in [Process -> Steps] /\ after' \in [Process -> Steps]
      /\ mine' \in [Process -> Record]
      /\ definition' \in [Process -> Definition \cup {None}]
      /\ \A q \in Process : definition'[q] = None <=> pc'[q] = "idle"
  BY <1>1, <1>2 DEF IInv, TypeOK, Steps
<1> QED BY <1>2, <1>3, <1>4, <1>5

\* A process that ends by itself leaves the record and the resources as they are.
LEMMA StopStep ==
    ASSUME IInv, NEW p \in Process, Stop(p), UNCHANGED <<config, repository, external>>
    PROVE  IInv'
<1> USE DEF repository, external
<1>1. \A q \in Process : \/ pc'[q] = "idle" /\ mine'[q] = NoRecord
                         \/ pc'[q] = pc[q] /\ mine'[q] = mine[q] /\ after'[q] = after[q]
  BY StopEffect
<1>2. TypeOK'
  BY StopEffect DEF IInv, TypeOK
<1>3. RecordsAreComplete'
  BY <1>1 DEF IInv, RecordsAreComplete, Complete, NoRecord
<1>4. CommitsOwn'
  BY <1>1 DEF IInv, CommitsOwn
<1>5. OwnedIsLive'
  BY <1>1 DEF IInv, OwnedIsLive, Live
<1>6. CleanupIsFinal'
  <2>1. \A o \in orphans : Cleaned(NoRecord, o[2])
    BY TestServicesAssumption DEF IInv, TypeOK, Cleaned, NoRecord
  <2> QED BY <1>1, <2>1 DEF IInv, CleanupIsFinal
<1>7. GivenExists'
  BY <1>1 DEF IInv, GivenExists
<1>8. LockIsHeld' /\ HoldsRecord'
  BY StopEffect
<1> QED BY <1>2, <1>3, <1>4, <1>5, <1>6, <1>7, <1>8 DEF IInv

-----------------------------------------------------------------------------
(* Steps of one process *)

\* A commit makes the record the owner, and the process goes on with what it wrote.
LEMMA CommitStep == ASSUME NEW p \in Process, IInv, Commit(p) PROVE IInv'
<1> USE DEF Commit, external
<1>1. pc[p] \in Locked /\ record = mine[p] /\ Expects(after[p], mine[p])
  BY DEF IInv, CommitsOwn, Locked, HoldsRecord, Holds, Expects
<1>2. CASE after[p] = "idle"
  <2>1. Stop(p)
    BY <1>2
  <2>2. \A q \in Process : pc'[q] \in {"idle", "starting", "asked"} /\ mine'[q] = NoRecord
    BY <1>1, <2>1, StopEffect, OthersHoldNothing
  <2>3. TypeOK'
    BY <2>1, StopEffect DEF IInv, TypeOK
  <2>4. RecordsAreComplete'
    BY <2>2 DEF IInv, RecordsAreComplete, Complete, NoRecord
  <2>5. CommitsOwn'
    BY <2>2 DEF CommitsOwn
  <2>6. OwnedIsLive'
    BY <2>2 DEF IInv, OwnedIsLive, Live
  <2>7. CleanupIsFinal'
    <3>1. \A o \in orphans : Cleaned(NoRecord, o[2])
      BY TestServicesAssumption DEF IInv, TypeOK, Cleaned, NoRecord
    <3> QED BY <2>2, <3>1 DEF IInv, CleanupIsFinal
  <2>8. GivenExists'
    BY <2>2 DEF GivenExists
  <2>9. LockIsHeld' /\ HoldsRecord'
    BY <2>1, StopEffect
  <2> QED BY <2>3, <2>4, <2>5, <2>6, <2>7, <2>8, <2>9 DEF IInv
<1>3. CASE after[p] # "idle"
  <2>1. \A q \in Process : pc'[q] = IF q = p THEN after[p] ELSE pc[q]
    BY <1>3 DEF IInv, TypeOK
  <2>2. UNCHANGED <<lock, after, mine, definition>>
    BY <1>3
  <2>3. TypeOK'
    BY <1>3, <2>1, <2>2 DEF IInv, TypeOK, Steps
  <2>4. LockIsHeld'
    BY <1>1, <1>3, <2>1, <2>2 DEF IInv, LockIsHeld, Locked, Expects
  <2>5. RecordsAreComplete'
    BY <2>2 DEF IInv, RecordsAreComplete
  <2>6. HoldsRecord'
    BY <1>1, <1>3, <2>1, <2>2 DEF IInv, HoldsRecord, Holds, Expects
  <2>7. CommitsOwn'
    BY <1>1, <2>1, <2>2, OthersHoldNothing DEF IInv, CommitsOwn
  <2>8. OwnedIsLive'
    BY <1>1, <2>1, <2>2, OthersHoldNothing DEF IInv, OwnedIsLive, Live, Expects, Owning, Unowned
  <2>9. CleanupIsFinal'
    BY <2>2 DEF IInv, CleanupIsFinal
  <2>10. GivenExists'
    BY <1>3, <2>1, <2>2 DEF IInv, GivenExists
  <2> QED BY <2>3, <2>4, <2>5, <2>6, <2>7, <2>8, <2>9, <2>10 DEF IInv
<1> QED BY <1>2, <1>3

\* A step that only moves a process on, between steps that the invariant treats alike.
LEMMA MoveStep ==
    ASSUME IInv, NEW p \in Process, NEW step,
           UNCHANGED <<config, repository, after, mine, external>>, TypeOK', LockIsHeld',
           pc' = [pc EXCEPT ![p] = step],
           pc[p] \in {"idle", "starting", "asked", "using"},
           step \in {"starting", "reading", "asked", "cleaning"},
           step # "reading" => pc[p] \in {"idle", "asked"}
    PROVE  IInv'
<1> USE DEF repository, external
<1>1. \A q \in Process : pc'[q] = IF q = p THEN step ELSE pc[q]
  BY DEF IInv, TypeOK
<1>2. RecordsAreComplete'
  BY DEF IInv, RecordsAreComplete
<1>3. HoldsRecord'
  <2> SUFFICES ASSUME NEW q \in Process PROVE Holds(q)'
    BY DEF HoldsRecord
  <2> QED BY <1>1 DEF IInv, HoldsRecord, Holds
<1>4. CommitsOwn'
  BY <1>1 DEF IInv, CommitsOwn
<1>5. OwnedIsLive'
  BY <1>1 DEF IInv, OwnedIsLive, Live
<1>6. CleanupIsFinal'
  BY DEF IInv, CleanupIsFinal
<1>7. GivenExists'
  BY <1>1 DEF IInv, GivenExists
<1> QED BY <1>2, <1>3, <1>4, <1>5, <1>6, <1>7 DEF IInv

\* A run takes its definition from the configuration and reads nothing yet.
LEMMA StartRunStep == ASSUME NEW p \in Process, IInv, StartRun(p) PROVE IInv'
<1> USE DEF StartRun
<1>1. TypeOK'
  BY TestServicesAssumption DEF IInv, TypeOK, Steps, repository, external
<1>2. LockIsHeld'
  BY FunctionTypes DEF IInv, LockIsHeld, Locked
<1> QED BY <1>1, <1>2, MoveStep

\* The lock was free, so no other process is in a step that needs it.
LEMMA LockRunStep == ASSUME NEW p \in Process, IInv, LockRun(p) PROVE IInv'
<1> USE DEF LockRun
<1>1. TypeOK'
  BY DEF IInv, TypeOK, Steps, repository, external
<1>2. LockIsHeld'
  BY FunctionTypes, TestServicesAssumption DEF IInv, LockIsHeld, Locked
<1> QED BY <1>1, <1>2, MoveStep

\* Nothing changes before the record is read again.
LEMMA PrepareAgainStep == ASSUME NEW p \in Process, IInv, PrepareAgain(p) PROVE IInv'
<1> USE DEF PrepareAgain
<1>1. TypeOK'
  BY DEF IInv, TypeOK, Steps, repository, external
<1>2. LockIsHeld'
  BY FunctionTypes DEF IInv, LockIsHeld, Locked
<1> QED BY <1>1, <1>2, MoveStep

\* A written record names the definition that the command is authorised for.
LEMMA AskStep == ASSUME NEW p \in Process, IInv, Ask(p) PROVE IInv'
<1> USE DEF Ask
<1>1. TypeOK'
  BY TestServicesAssumption DEF IInv, TypeOK, Steps, repository, external,
                                RecordsAreComplete, Complete, Unowned
<1>2. LockIsHeld'
  BY FunctionTypes DEF IInv, LockIsHeld, Locked
<1> QED BY <1>1, <1>2, MoveStep

\* The lock was free, so no other process is in a step that needs it.
LEMMA LockStep == ASSUME NEW p \in Process, IInv, Lock(p) PROVE IInv'
<1> USE DEF Lock
<1>1. TypeOK'
  BY DEF IInv, TypeOK, Steps, repository, external
<1>2. LockIsHeld'
  BY FunctionTypes, TestServicesAssumption DEF IInv, LockIsHeld, Locked
<1> QED BY <1>1, <1>2, MoveStep

\* A fresh instance is registered when nothing is live and no command of it is left.
LEMMA RegisterStep == ASSUME NEW p \in Process, IInv, Register(p) PROVE IInv'
<1> USE DEF Register, external
<1>1. PICK i \in Fresh :
        Write(p, [state |-> "preparing", instance |-> i, digest |-> definition[p]], "checking")
  OBVIOUS
<1> DEFINE r == [state |-> "preparing", instance |-> i, digest |-> definition[p]]
<1>2. i \in Instance /\ \A o \in orphans : o[2] # i
  BY DEF Fresh
<1>3. definition[p] \in Definition
  BY FunctionTypes DEF IInv, TypeOK
<1>4. r \in Record /\ Complete(r) /\ Expects("checking", r)
  BY <1>2, <1>3 DEF Record, States, Complete, Expects
<1>5. Live = {}
  <2>1. Owning(record) = None
    BY DEF Owning
  <2>2. CASE Owning(head) = None
    BY <2>2, TestServicesAssumption DEF IInv, TypeOK, OwnedIsLive, Live
  <2> QED BY <2>1, <2>2 DEF IInv, OwnedIsLive
<1>6. Live' = {} /\ resources' \subseteq Instance
  BY <1>5 DEF Live, IInv, TypeOK
<1>7. \A o \in orphans : Cleaned(r, o[2])
  BY <1>2 DEF Cleaned
<1>8. pc[p] \in Locked
  BY DEF Locked
<1> QED BY <1>1, <1>4, <1>6, <1>7, <1>8, WriteStep

\* The record that is adopted owns what is live, and no cleanup has touched it.
LEMMA AdoptStep == ASSUME NEW p \in Process, IInv, Adopt(p) PROVE IInv'
<1> USE DEF Adopt, Adoptable, repository, external
<1>1. \A q \in Process : /\ pc'[q] = IF q = p THEN "checking" ELSE pc[q]
                         /\ mine'[q] = IF q = p THEN record ELSE mine[q]
  BY FunctionTypes
<1>2. TypeOK'
  BY DEF IInv, TypeOK, Steps
<1>3. LockIsHeld'
  BY <1>1 DEF IInv, LockIsHeld, Locked
<1>4. RecordsAreComplete'
  BY <1>1 DEF IInv, RecordsAreComplete
<1>5. HoldsRecord'
  <2> SUFFICES ASSUME NEW q \in Process PROVE Holds(q)'
    BY DEF HoldsRecord
  <2>1. CASE q = p
    BY <1>1, <2>1 DEF Holds
  <2>2. CASE q # p
    BY <1>1, <2>2 DEF IInv, HoldsRecord, Holds
  <2> QED BY <2>1, <2>2
<1>6. CommitsOwn'
  BY <1>1 DEF IInv, CommitsOwn
<1>7. OwnedIsLive'
  <2>1. Owning(record) = record.instance
    BY DEF Owning, Unowned
  <2> QED BY <1>1, <2>1 DEF IInv, OwnedIsLive, Live
<1>8. CleanupIsFinal'
  BY <1>1 DEF IInv, CleanupIsFinal
<1>9. GivenExists'
  BY <1>1 DEF IInv, GivenExists
<1> QED BY <1>2, <1>3, <1>4, <1>5, <1>6, <1>7, <1>8, <1>9 DEF IInv

\* A record that is adopted or registered, in another state of its preparation.
LEMMA RewriteStep ==
    ASSUME NEW p \in Process, IInv, pc[p] = "checking", UNCHANGED external,
           NEW state \in {"preparing", "ready", "failed"}, NEW next, WriteState(p, state, next),
           Expects(next, [mine[p] EXCEPT !.state = state]),
           next = "using" => mine[p].instance \in resources
    PROVE  IInv'
<1> USE DEF WriteState, external
<1> DEFINE r == [mine[p] EXCEPT !.state = state]
<1>1. mine[p] \in Record /\ mine[p].state \in {"preparing", "ready", "failed"} /\ Complete(mine[p])
  BY FunctionTypes DEF IInv, HoldsRecord, Holds, RecordsAreComplete
<1>2. r \in Record /\ Complete(r) /\ r.instance = mine[p].instance /\ r.state = state
  BY <1>1 DEF Record, States, Complete
<1>3. Owning(r) = mine[p].instance
  BY <1>2 DEF Owning, Unowned
<1>4. Live' = Live /\ Live \subseteq {Owning(head)} /\ (Owning(r) # Owning(head) => Live = {})
  BY <1>3 DEF Live, IInv, OwnedIsLive
<1>5. \A o \in orphans : o[1] = "destroy" => Cleaned(r, o[2])
  BY <1>1, <1>2 DEF IInv, CleanupIsFinal, Cleaned
<1>6. pc[p] \in Locked /\ resources' \subseteq Instance
  BY DEF Locked, IInv, TypeOK
<1>7. Write(p, r, next) /\ Expects(next, r) /\ (next = "using" => r.instance \in resources')
  BY <1>2
<1> HIDE DEF r
<1> QED BY <1>2, <1>4, <1>5, <1>6, <1>7, WriteStep

\* Between taking the lock and the ensure command only the own record is written.
LEMMA CheckingStep ==
    ASSUME NEW p \in Process, IInv, HostCheckFails(p) \/ Reuse(p) \/ Prepare(p)
    PROVE  IInv'
<1> DEFINE written(state) == [mine[p] EXCEPT !.state = state]
<1>1. ASSUME NEW state \in States PROVE written(state).state = state
  BY <1>1, FunctionTypes DEF Record
<1>2. /\ written("failed").state = "failed"
      /\ written("ready").state = "ready"
      /\ written("preparing").state = "preparing"
  BY <1>1 DEF States
<1>3. CASE HostCheckFails(p)
  BY <1>2, <1>3, RewriteStep DEF HostCheckFails, Expects
<1>4. CASE Reuse(p)
  BY <1>2, <1>4, RewriteStep DEF Reuse, Expects
<1>5. CASE Prepare(p)
  BY <1>2, <1>5, RewriteStep DEF Prepare, Expects
<1> QED BY <1>3, <1>4, <1>5

\* A target command works on the instance that the committed record owns.
LEMMA CommandStep ==
    ASSUME NEW p \in Process, IInv, pc[p] \in {"ensuring", "destroying"},
           UNCHANGED <<orphans, haunted>>,
           NEW state \in States \ {"none"}, NEW next, WriteState(p, state, next),
           Expects(next, [mine[p] EXCEPT !.state = state]),
           resources' \in {resources, resources \cup {mine[p].instance},
                           resources \ {mine[p].instance}},
           next = "using" => mine[p].instance \in resources',
           state = "destroyed" => mine[p].instance \notin resources',
           pc[p] = "destroying" => state \in {"destroyed", "cleanup_failed"}
    PROVE  IInv'
<1> USE DEF WriteState
<1> DEFINE r == [mine[p] EXCEPT !.state = state]
           i == mine[p].instance
<1>1. /\ mine[p] \in Record /\ Complete(mine[p])
      /\ mine[p].state = IF pc[p] = "ensuring" THEN "preparing" ELSE "destroying"
  BY FunctionTypes DEF IInv, HoldsRecord, Holds, RecordsAreComplete
<1>2. r \in Record /\ Complete(r) /\ r.instance = i /\ r.state = state /\ i \in Instance
  BY <1>1 DEF Record, States, Complete
<1>3. Owning(head) = i
  BY <1>1 DEF IInv, CommitsOwn, Owning, Unowned
<1>4. Live \subseteq {i}
  BY <1>3 DEF IInv, OwnedIsLive
<1>5. Live' \subseteq {i}
  BY <1>4 DEF Live
<1>6. Owning(r) # Owning(head) => Live' = {}
  <2>1. CASE state = "destroyed"
    BY <1>5, <2>1 DEF Live
  <2>2. CASE state # "destroyed"
    BY <1>2, <1>3, <2>2 DEF Owning, Unowned
  <2> QED BY <2>1, <2>2
<1>7. \A o \in orphans : o[1] = "destroy" => Cleaned(r, o[2])
  BY <1>1, <1>2 DEF IInv, CleanupIsFinal, Cleaned
<1>8. pc[p] \in Locked /\ resources' \subseteq Instance
  BY <1>2 DEF Locked, IInv, TypeOK
<1> QED BY <1>2, <1>3, <1>5, <1>6, <1>7, <1>8, WriteStep

\* A command ends under the lock, and what it did is what its process will record.
LEMMA OutcomeStep ==
    ASSUME NEW p \in Process, IInv,
           EnsureSucceeds(p) \/ EnsureFails(p) \/ DestroySucceeds(p) \/ DestroyFails(p)
    PROVE  IInv'
<1> DEFINE written(state) == [mine[p] EXCEPT !.state = state]
<1>1. ASSUME NEW state \in States PROVE written(state).state = state
  BY <1>1, FunctionTypes DEF Record
<1>2. \A state \in {"failed", "ready", "destroyed", "cleanup_failed"} :
        written(state).state = state /\ state \in States \ {"none"}
  BY <1>1 DEF States
<1>3. CASE EnsureSucceeds(p)
  BY <1>2, <1>3, CommandStep DEF EnsureSucceeds, Expects
<1>4. CASE EnsureFails(p)
  BY <1>2, <1>4, CommandStep DEF EnsureFails, Expects
<1>5. CASE DestroySucceeds(p)
  BY <1>2, <1>5, CommandStep DEF DestroySucceeds, Expects
<1>6. CASE DestroyFails(p)
  BY <1>2, <1>6, CommandStep DEF DestroyFails, Expects
<1> QED BY <1>3, <1>4, <1>5, <1>6

\* The record is read under the lock; it owns what is live.
LEMMA StartCleanupStep == ASSUME NEW p \in Process, IInv, StartCleanup(p) PROVE IInv'
<1> USE DEF StartCleanup, external
<1> DEFINE r == [record EXCEPT !.state = "destroying"]
<1>1. record \in Record /\ Complete(record) /\ record.state \notin {"none", "destroyed"}
  BY DEF IInv, TypeOK, RecordsAreComplete, Unowned
<1>2. r \in Record /\ Complete(r) /\ r.instance = record.instance /\ r.state = "destroying"
  BY <1>1 DEF Record, States, Complete
<1>3. Owning(r) = Owning(record)
  BY <1>1, <1>2 DEF Owning, Unowned
<1>4. Live' = Live /\ Live \subseteq {Owning(head)} /\ (Owning(r) # Owning(head) => Live = {})
  BY <1>3 DEF Live, IInv, OwnedIsLive
<1>5. \A o \in orphans : Cleaned(r, o[2])
  BY <1>2 DEF Cleaned
<1>6. pc[p] \in Locked /\ resources' \subseteq Instance /\ Expects("destroying", r)
  BY <1>2 DEF Locked, IInv, TypeOK, Expects
<1> QED BY <1>2, <1>4, <1>5, <1>6, WriteStep

\* A killed process leaves the lock, its record in the repository, and at most one command,
\* which works on the instance that the committed record owns.
LEMMA CrashStep == ASSUME NEW p \in Process, IInv, Crash(p) PROVE IInv'
<1> USE DEF repository, external
<1> DEFINE i == mine[p].instance
<1>1. Stop(p) /\ UNCHANGED <<config, repository>>
  BY DEF Crash
<1>2. pc[p] \in Locked
  BY FunctionTypes DEF Crash, Steps, Locked
<1>3. \A q \in Process : pc'[q] \in {"idle", "starting", "asked"} /\ mine'[q] = NoRecord
  BY <1>1, <1>2, StopEffect, OthersHoldNothing
<1>4. pc[p] \in {"ensuring", "destroying"} =>
        /\ i \in Instance /\ Owning(head) = i /\ record = head
        /\ pc[p] = "destroying" => head.state = "destroying"
  BY FunctionTypes DEF IInv, HoldsRecord, Holds, RecordsAreComplete, Complete, CommitsOwn, Owning,
                       Unowned
<1>5. /\ resources' \in {resources, resources \cup {i}, resources \ {i}}
      /\ UNCHANGED resources \/ pc[p] \in {"ensuring", "destroying"}
      /\ haunted' = haunted \/ (haunted' = haunted \cup {i} /\ pc[p] = "ensuring")
  BY DEF Crash
<1>6. \/ orphans' = orphans
      \/ pc[p] = "ensuring" /\ orphans' = orphans \cup {<<"ensure", i>>} /\ i \in haunted'
      \/ pc[p] = "destroying" /\ orphans' = orphans \cup {<<"destroy", i>>}
  BY DEF Crash
<1>7. TypeOK'
  <2>1. resources' \subseteq Instance /\ haunted' \subseteq Instance
    BY <1>4, <1>5 DEF IInv, TypeOK
  <2>2. orphans' \subseteq {"ensure", "destroy"} \X Instance
    BY <1>4, <1>6 DEF IInv, TypeOK
  <2> QED BY <1>1, <2>1, <2>2, StopEffect DEF IInv, TypeOK
<1>8. RecordsAreComplete'
  BY <1>1, <1>3 DEF IInv, RecordsAreComplete, Complete, NoRecord
<1>9. CommitsOwn'
  BY <1>1, <1>3 DEF IInv, CommitsOwn
<1>10. OwnedIsLive'
  <2>1. Live' \subseteq {Owning(head)} /\ (Owning(record) # Owning(head) => Live' = {})
    BY <1>4, <1>5 DEF IInv, OwnedIsLive, Live
  <2>2. \A o \in orphans' : o[1] = "ensure" => o[2] \in haunted'
    BY <1>5, <1>6 DEF IInv, OwnedIsLive
  <2> QED BY <1>1, <1>3, <2>1, <2>2 DEF OwnedIsLive
<1>11. CleanupIsFinal'
  <2>1. ASSUME NEW o \in orphans', o[1] = "destroy"
        PROVE  o[2] \in Instance /\ Cleaned(record, o[2]) /\ Cleaned(head, o[2])
    BY <1>4, <1>6, <2>1 DEF IInv, TypeOK, CleanupIsFinal, Cleaned
  <2>2. \A o \in orphans' : o[1] = "destroy" => Cleaned(NoRecord, o[2])
    BY <2>1, TestServicesAssumption DEF Cleaned, NoRecord
  <2> QED BY <1>1, <1>3, <2>1, <2>2 DEF CleanupIsFinal
<1>12. GivenExists'
  BY <1>3 DEF GivenExists
<1>13. LockIsHeld' /\ HoldsRecord'
  BY <1>1, StopEffect
<1> QED BY <1>7, <1>8, <1>9, <1>10, <1>11, <1>12, <1>13 DEF IInv

-----------------------------------------------------------------------------
(* Steps of others *)

\* Committing or discarding makes the two copies of the record agree.
LEMMA AgreeStep ==
    ASSUME IInv, CommitAll \/ Discard
    PROVE  IInv'
<1> USE DEF CommitAll, Discard, processes, external
<1>1. UNCHANGED <<config, lock, pc, after, mine, definition, resources, orphans, haunted>>
      /\ ~dirty' /\ record' = head' /\ head' \in {record, head} /\ dirty
  OBVIOUS
<1>2. TypeOK'
  BY <1>1 DEF IInv, TypeOK
<1>3. LockIsHeld' /\ HoldsRecord' /\ GivenExists'
  BY <1>1 DEF IInv, LockIsHeld, HoldsRecord, Holds, GivenExists
<1>4. RecordsAreComplete'
  BY <1>1 DEF IInv, RecordsAreComplete
<1>5. CommitsOwn'
  BY <1>1 DEF IInv, CommitsOwn
<1>6. OwnedIsLive'
  BY <1>1 DEF IInv, OwnedIsLive, Live
<1>7. CleanupIsFinal'
  BY <1>1 DEF IInv, CleanupIsFinal
<1> QED BY <1>2, <1>3, <1>4, <1>5, <1>6, <1>7 DEF IInv

\* A late command touches nothing that is in use: an ensure command's instance is outside the
\* promise, and the instance of a destroy command is not prepared again.
LEMMA OrphanStep == IInv /\ OrphanEnds => IInv'
<1> SUFFICES ASSUME IInv, OrphanEnds PROVE IInv'
  OBVIOUS
<1> USE DEF repository, processes
<1>1. PICK o \in orphans :
        /\ orphans' = orphans \ {o}
        /\ resources' \in {resources, IF o[1] = "ensure" THEN resources \cup {o[2]}
                                                        ELSE resources \ {o[2]}}
        /\ UNCHANGED <<config, lock, repository, processes, haunted>>
  BY DEF OrphanEnds
<1>2. o[1] \in {"ensure", "destroy"} /\ o[2] \in Instance
  BY DEF IInv, TypeOK
<1>3. TypeOK'
  BY <1>1, <1>2 DEF IInv, TypeOK
<1>4. LockIsHeld' /\ RecordsAreComplete' /\ HoldsRecord' /\ CommitsOwn'
  BY <1>1 DEF IInv, LockIsHeld, RecordsAreComplete, HoldsRecord, Holds, CommitsOwn
<1>5. OwnedIsLive'
  <2>1. Live' \subseteq Live
    BY <1>1 DEF IInv, OwnedIsLive, Live
  <2> QED BY <1>1, <2>1 DEF IInv, OwnedIsLive
<1>6. CleanupIsFinal'
  BY <1>1 DEF IInv, CleanupIsFinal
<1>7. GivenExists'
  <2> SUFFICES ASSUME NEW q \in Process,
                      pc[q] = "using" \/ (pc[q] = "committing" /\ after[q] = "using")
               PROVE  mine[q].instance \in resources'
    BY <1>1 DEF GivenExists
  <2>1. mine[q].state = "ready" /\ mine[q].instance \in resources
    BY DEF IInv, HoldsRecord, Holds, GivenExists
  <2>2. o[1] = "destroy" => mine[q].instance # o[2]
    BY <2>1 DEF IInv, CleanupIsFinal, Cleaned
  <2> QED BY <1>1, <1>2, <2>1, <2>2
<1> QED BY <1>3, <1>4, <1>5, <1>6, <1>7 DEF IInv

\* The configuration, or nothing, changes.
LEMMA ConfigStep ==
    ASSUME IInv, config' \in Definition, UNCHANGED <<lock, repository, processes, external>>
    PROVE  IInv'
<1> USE DEF repository, processes, external
<1>1. TypeOK'
  BY DEF IInv, TypeOK
<1>2. LockIsHeld' /\ RecordsAreComplete' /\ HoldsRecord' /\ CommitsOwn'
  BY DEF IInv, LockIsHeld, RecordsAreComplete, HoldsRecord, Holds, CommitsOwn
<1>3. OwnedIsLive' /\ CleanupIsFinal' /\ GivenExists'
  BY DEF IInv, OwnedIsLive, Live, CleanupIsFinal, GivenExists
<1> QED BY <1>1, <1>2, <1>3 DEF IInv

-----------------------------------------------------------------------------
(* The inductive invariant *)

\* Nothing is owned, locked or live at first.
LEMMA InitIInv == Init => IInv
<1> SUFFICES ASSUME Init PROVE IInv
  OBVIOUS
<1> USE DEF Init
<1>1. NoRecord \in Record /\ NoRecord.state = "none" /\ NoRecord.instance = None
  BY DEF NoRecord, Record, States
<1>2. TypeOK
  BY <1>1 DEF TypeOK, Steps
<1>3. LockIsHeld
  BY TestServicesAssumption DEF LockIsHeld, Locked
<1>4. RecordsAreComplete /\ HoldsRecord /\ CommitsOwn
  BY <1>1 DEF RecordsAreComplete, Complete, HoldsRecord, Holds, CommitsOwn
<1>5. OwnedIsLive /\ CleanupIsFinal /\ GivenExists
  BY DEF OwnedIsLive, Live, CleanupIsFinal, GivenExists
<1> QED BY <1>2, <1>3, <1>4, <1>5 DEF IInv

\* Each action keeps the invariant.
LEMMA NextIInv == IInv /\ [Next]_vars => IInv'
<1> SUFFICES ASSUME IInv, [Next]_vars PROVE IInv'
  OBVIOUS
<1>1. ASSUME NEW p \in Process, Step(p) PROVE IInv'
  <2>1. CASE CommitFails(p) \/ LockRefused(p) \/ Refuse(p) \/ EndRun(p) \/ NothingToClean(p)
    BY <2>1, StopStep DEF CommitFails, LockRefused, Refuse, EndRun, NothingToClean
  <2>2. CASE StartRun(p) \/ LockRun(p) \/ PrepareAgain(p) \/ Ask(p) \/ Lock(p)
    BY <2>2, StartRunStep, LockRunStep, PrepareAgainStep, AskStep, LockStep
  <2>3. CASE Commit(p) \/ Register(p) \/ Adopt(p) \/ StartCleanup(p) \/ Crash(p)
    BY <2>3, CommitStep, RegisterStep, AdoptStep, StartCleanupStep, CrashStep
  <2>4. CASE HostCheckFails(p) \/ Reuse(p) \/ Prepare(p)
    BY <2>4, CheckingStep
  <2>5. CASE EnsureSucceeds(p) \/ EnsureFails(p) \/ DestroySucceeds(p) \/ DestroyFails(p)
    BY <2>5, OutcomeStep
  <2> QED BY <1>1, <2>1, <2>2, <2>3, <2>4, <2>5 DEF Step
<1>2. CASE EditConfig \/ UNCHANGED vars
  BY <1>2, ConfigStep DEF EditConfig, vars, IInv, TypeOK
<1> QED BY <1>1, <1>2, AgreeStep, OrphanStep DEF Next

\* The invariant holds in every state.
THEOREM Invariance == Spec => []IInv
  BY InitIInv, NextIInv, PTL DEF Spec

-----------------------------------------------------------------------------
(* What follows *)

\* The types of the variables: a process acts on a definition exactly when it is not idle.
THEOREM TypeCorrect == Spec => []TypeOK
<1>1. IInv => TypeOK
  BY DEF IInv
<1> QED BY <1>1, Invariance, PTL

\* A run that was given the service holds the lock, and the resource exists, whatever other
\* runs, cleanups, crashes and late commands do (TestServices.ensure, test_service_lock).
THEOREM GivenServiceExists == Spec => []InUseExists
<1>1. IInv => InUseExists
  BY DEF IInv, LockIsHeld, Locked, GivenExists, InUseExists
<1> QED BY <1>1, Invariance, PTL

\* The committed record implements ownership: each step of the model passes the record on when
\* nothing is live, changes what is live of its instance, or does neither.
THEOREM OwnershipIsImplemented == Spec => OwnsResources
<1>1. Init => Owner!Init
  BY DEF Init, Owner!Init, Unowned, NoRecord
<1>2. IInv /\ [Next]_vars => [Owner!Next]_Owner!vars
  <2> SUFFICES ASSUME IInv, [Next]_vars PROVE [Owner!Next]_Owner!vars
    OBVIOUS
  <2>1. IInv'
    BY NextIInv
  <2>2. /\ Live \subseteq {Owning(head)} /\ Live' \subseteq {Owning(head')}
        /\ Owning(head') \in Instance \cup {None} /\ resources \subseteq Instance
        /\ resources' \subseteq Instance
    BY <2>1, OwningIsTyped DEF IInv, OwnedIsLive, TypeOK
  <2>3. CASE head' = head
    <3>1. Owning(head) = None => Live = {} /\ Live' = {}
      BY <2>2, <2>3, TestServicesAssumption DEF Live
    <3> QED BY <2>2, <2>3, <3>1 DEF Owner!vars, Owner!Next, Owner!Change, Live, Owning
  <2>4. CASE head' # head
    <3>1. head' = record /\ UNCHANGED <<resources, haunted>>
      <4>1. ASSUME NEW p \in Process, Step(p) PROVE Commit(p)
        BY <2>4, <4>1 DEF Step, Commit, CommitFails, StartRun, LockRun, LockRefused, Register,
             Adopt, Refuse, HostCheckFails, Reuse, Prepare, EnsureSucceeds, EnsureFails,
             PrepareAgain, EndRun, Ask, Lock, StartCleanup, NothingToClean, DestroySucceeds,
             DestroyFails, Crash, Write, WriteState, repository
      <4>2. ~(EditConfig \/ Discard \/ OrphanEnds \/ UNCHANGED vars)
        BY <2>4 DEF EditConfig, Discard, OrphanEnds, vars, repository
      <4> QED BY <4>1, <4>2 DEF Next, Commit, CommitAll, external
    <3>2. Owning(record) # Owning(head) => Live = {}
      BY DEF IInv, OwnedIsLive
    <3> QED
      BY <2>2, <3>1, <3>2 DEF Owner!vars, Owner!Next, Owner!Pass, Live, Owning
  <2> QED BY <2>3, <2>4
<1> QED BY <1>1, <1>2, Invariance, PTL DEF Spec, OwnsResources, Owner!Spec
=============================================================================
