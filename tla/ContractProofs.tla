---------------------------- MODULE ContractProofs ----------------------------
(***************************************************************************)
(* What follows from the contracts of sessions, of the agents that serve   *)
(* them, of validation and of prerequisites, for every input these take.   *)
(***************************************************************************)
EXTENDS Candidate, Auxiliary, Diagnosis, Validation, Prerequisites, Trust,
        WellFoundedInduction, TLAPS

-----------------------------------------------------------------------------
(* Validation *)

\* A set of positions has a greatest one.
LEMMA HasGreatest ==
    ASSUME NEW n \in Nat, NEW S \in SUBSET (1..n), S # {}
    PROVE  Greatest(S) \in S
<1> DEFINE T == {n - i : i \in S}
<1>1. T \subseteq Nat /\ T # {}
  <2>1. \A i \in S : n - i \in Nat
    OBVIOUS
  <2> QED BY <2>1
<1>2. PICK k \in T : \A l \in T : ~(<<l, k>> \in OpToRel(<, Nat))
  BY <1>1, NatLessThanWellFounded, WFMin, Zenon
<1>3. \A l \in T : ~(l < k)
  BY <1>1, <1>2, Zenon DEF OpToRel
<1>4. PICK i \in S : k = n - i
  OBVIOUS
<1>5. \A j \in S : n - j \in T /\ j \in Int
  OBVIOUS
<1>6. \A j \in S : j <= i
  BY <1>3, <1>4, <1>5
<1> QED BY <1>4, <1>6 DEF Greatest

\* And a least one.
LEMMA HasLeast ==
    ASSUME NEW S \in SUBSET Nat, S # {}
    PROVE  Least(S) \in S
<1>1. PICK i \in S : \A j \in S : ~(<<j, i>> \in OpToRel(<, Nat))
  BY NatLessThanWellFounded, WFMin, Zenon
<1>2. \A j \in S : ~(j < i)
  BY <1>1, Zenon DEF OpToRel
<1>3. \A j \in S : i <= j
  BY <1>2
<1> QED BY <1>3 DEF Least

\* A validation passes only if there was something to run, all of it ran, and each command
\* exited with zero (run_validation_commands).
THEOREM PassedMeansAllPassed ==
    ASSUME NEW verdicts \in Seq(Verdicts), Overall(verdicts) = "passed"
    PROVE  /\ verdicts # <<>>
           /\ Ran(verdicts) = DOMAIN verdicts
           /\ \A i \in DOMAIN verdicts : verdicts[i] = "passed"
<1>1. Misses(verdicts) \in SUBSET Nat
  BY DEF Misses
<1>2. Misses(verdicts) = {}
  <2>1. CASE Misses(verdicts) # {}
    <3>1. Least(Misses(verdicts)) \in Misses(verdicts)
      BY <1>1, <2>1, HasLeast
    <3>2. verdicts[Least(Misses(verdicts))] # "passed"
      BY <3>1 DEF Misses
    <3> QED BY <2>1, <3>2 DEF Overall
  <2> QED BY <2>1
<1>3. DOMAIN verdicts # {}
  BY DEF Overall
<1>4. verdicts # <<>>
  BY <1>3
<1>5. Ran(verdicts) = DOMAIN verdicts
  BY <1>2 DEF Ran
<1>6. \A i \in DOMAIN verdicts : verdicts[i] = "passed"
  BY <1>2 DEF Misses
<1> QED BY <1>4, <1>5, <1>6

\* A milestone is verified only if the file shows every command of its contract as passed,
\* although the results are looked up by the command alone (_write_milestone_verification).
THEOREM VerifiedMilestone ==
    ASSUME NEW verdicts \in Seq(Verdicts), NEW contract, DOMAIN contract = DOMAIN verdicts,
           NEW issues \in BOOLEAN,
           MilestoneState(issues, Overall(verdicts)) = "verified"
    PROVE  ~issues /\ \A i \in DOMAIN contract : Verified(contract, verdicts, i) = "passed"
<1>1. Overall(verdicts) \in Verdicts \cup {"not_configured"}
  <2>1. Misses(verdicts) # {} => Least(Misses(verdicts)) \in DOMAIN verdicts
    BY HasLeast DEF Misses
  <2> QED BY <2>1 DEF Overall, Verdicts
<1>2. ~issues /\ Overall(verdicts) = "passed"
  BY <1>1 DEF MilestoneState, Verdicts
<1>3. /\ Ran(verdicts) = DOMAIN verdicts
      /\ \A i \in DOMAIN verdicts : verdicts[i] = "passed"
  BY <1>2, PassedMeansAllPassed
<1>4. ASSUME NEW i \in DOMAIN contract PROVE Verified(contract, verdicts, i) = "passed"
  <2>1. i \in Results(contract, verdicts, i)
    BY <1>3 DEF Results
  <2>2. Results(contract, verdicts, i) \in SUBSET (1..Len(verdicts))
    BY DEF Results, Ran
  <2>3. Len(verdicts) \in Nat
    OBVIOUS
  <2>4. Greatest(Results(contract, verdicts, i)) \in Results(contract, verdicts, i)
    BY <2>1, <2>2, <2>3, HasGreatest
  <2>5. Greatest(Results(contract, verdicts, i)) \in DOMAIN verdicts
    BY <2>2, <2>4
  <2> QED BY <1>3, <2>1, <2>5 DEF Verified
<1> QED BY <1>2, <1>4

\* A record is reused only for the commands, the contents, the contract and the runtime it
\* recorded, and only if every one of these commands passed (reusable_task_validation).
THEOREM ReuseIsSound ==
    ASSUME NEW verdicts \in Seq(Verdicts), NEW made, NEW commands, NEW then, NEW now,
           NEW changed \in BOOLEAN, DOMAIN made = DOMAIN verdicts,
           Reusable(RecordOf(made, verdicts, then, changed), commands, now)
    PROVE  /\ commands = made /\ now = then /\ ~changed
           /\ \A i \in DOMAIN commands : verdicts[i] = "passed"
<1>1. Overall(verdicts) = "passed" /\ commands = made /\ now = then /\ ~changed
  BY DEF Reusable, RecordOf
<1> QED BY <1>1, PassedMeansAllPassed

\* A command whose verdict stands leaves nobody behind that could still write to the output
\* that was recorded; a late one leaves nobody of its group (_run_environment_command).
THEOREM OutputIsFinal ==
    ASSUME NEW e \in Executions, e.starts
    PROVE  /\ Verdict(e) # "timeout" => \A child \in Survivors(e) : ~child.holds
           /\ Verdict(e) = "timeout" => \A child \in Survivors(e) : ~child.grouped
  BY DEF Executions, Verdict, InTime, Survivors

-----------------------------------------------------------------------------
(* Prerequisites *)

\* What a satisfied prerequisite rests on: the word of the operator for this very definition,
\* a variable that is set, or a check that exited with zero, before or after its preparation.
Evidence(p, host, after) ==
    \/ p.attestation /\ host.attested = "of this definition"
    \/ p.environment /\ host.variable = "set"
    \/ p.check /\ "zero" \in {host.check, after.check}

\* No prerequisite is satisfied without such evidence, and none that is not a check is
\* prepared for (resolve_prerequisites).
THEOREM SatisfiedHasEvidence ==
    ASSUME NEW p \in Declarations, WellDeclared(p), NEW contract \in Contracts,
           NEW host \in Hosts, NEW preparation \in Preparations, NEW after \in Hosts,
           Resolution(p, contract, host, preparation, after) = "satisfied"
    PROVE  /\ Evidence(p, host, after)
           /\ Prepares(p, host) => p.check /\ preparation.ends = "zero"
<1>1. Status(p, host, preparation, after) = "satisfied"
  BY DEF Resolution
<1>2. p.prepare # "none" => p.check
  BY DEF WellDeclared
<1>3. p.check => ~p.attestation /\ ~p.environment
  BY DEF WellDeclared, Established, Declarations
<1>4. p.check \/ p.attestation \/ p.environment
  BY DEF WellDeclared, Established, Declarations
<1>5. CASE Prepares(p, host)
  BY <1>1, <1>2, <1>3, <1>5 DEF Prepares, Status, Evaluate, Evidence
<1>6. CASE ~Prepares(p, host)
  BY <1>1, <1>4, <1>6 DEF Status, Evaluate, Attested, Evidence
<1> QED BY <1>5, <1>6

\* An attestation counts until it is revoked, and nothing else stands for it
\* (attest_prerequisite, revoke_prerequisite_attestation).
THEOREM AttestationCounts ==
    ASSUME NEW p \in Declarations, WellDeclared(p), p.attestation, NEW host \in Hosts
    PROVE  /\ Evaluate(p, Attest(p, host)) = "satisfied"
           /\ Evaluate(p, Revoke(host)) = "unverified"
  BY DEF Hosts, Evaluate, Attest, Revoke, Attested

-----------------------------------------------------------------------------
(* Candidates *)

\* An accepted candidate asks for one thing at most: it stops its route with a question or
\* with a research request, or it reports work; a completed one never asks (submit_role_result,
\* process_session_result).
THEOREM AsksOrReports ==
    ASSUME NEW role, NEW c \in Candidates, WellFormed(role, c)
    PROVE  /\ c.research = "absent" \/ c.clarification = "absent"
           /\ AsksFor(c) = "nothing" <=> c.outcome \in {"completed", "failed"}
           /\ Result(c).completed => Result(c).asks = "nothing"
<1>1. c.outcome \in {"completed", "needs_clarification", "needs_research", "failed"}
  BY DEF WellFormed, KnownOutcome, Outcomes
<1>2. /\ c.outcome = "needs_clarification" <=> c.clarification # "absent"
      /\ c.outcome = "needs_research" <=> c.research # "absent"
  BY DEF WellFormed, AsksForAnswer, AsksForResearch
<1>3. c.clarification # "nothing" /\ c.research # "nothing"
  <2>1. c.clarification \in Clarifications /\ c.research \in Researches
    BY DEF Candidates
  <2> QED BY <2>1 DEF Clarifications, Researches, ReadClarification, ReadResearch
<1>4. AsksFor(c) = "nothing" <=> c.research = "absent" /\ c.clarification = "absent"
  BY <1>2, <1>3 DEF AsksFor
<1>5. Result(c).completed => Result(c).asks = "nothing"
  BY <1>1, <1>2, <1>4 DEF Result
<1> QED BY <1>1, <1>2, <1>4, <1>5

-----------------------------------------------------------------------------
(* Agents that serve a stopped route *)

\* An answer that is recorded was given without an edit to anything but the files that the
\* clarification lists, and none of these is missing (resolve_clarification_agent).
THEOREM AnswersEditListedFiles ==
    ASSUME NEW shape \in Shapes, NEW a \in Attempts, Resolves(shape, a)
    PROVE  /\ Remain(shape, a) \subseteq {"listed"}
           /\ Remain(shape, a) # {} => shape = "file-edit" /\ a.listed
  BY DEF Resolves, Remain, Unexpected, ListedForEdit, Forgets, Attempts, Shapes

\* An attempt that fails, or is refused although no listed file is missing, leaves DevLab's
\* own files as they were.
THEOREM RefusedLeavesState ==
    ASSUME NEW shape \in Shapes, NEW a \in Attempts, ~Forgets(shape, a)
    PROVE  "state" \notin Remain(shape, a)
  BY DEF Remain, Unexpected, ListedForEdit, Attempts

\* But the listed files are looked for first: an agent that says it succeeded and left one of
\* them out keeps its edits to DevLab's own files (_validate_resolver_file_edits).
THEOREM StateMayRemain ==
    \E a \in Attempts : ~Resolves("file-edit", a) /\ "state" \in Remain("file-edit", a)
<1> DEFINE f == [of |-> "this", shape |-> "file-edit", value |-> "text"]
           a == [succeeds |-> TRUE, edits |-> {"state"}, listed |-> FALSE, answer |-> f]
<1>1. f \in AnswerFiles
  BY DEF AnswerFiles, Shapes
<1>2. a \in Attempts
  BY <1>1 DEF Attempts, Paths
<1>3. Forgets("file-edit", a)
  BY DEF Forgets
<1>4. ~Resolves("file-edit", a)
  BY <1>3 DEF Resolves
<1>5. "state" \in Remain("file-edit", a)
  BY <1>3 DEF Remain
<1> QED BY <1>2, <1>4, <1>5

-----------------------------------------------------------------------------
(* The doctor *)

\* A diagnosis that is followed comes from a doctor that ended well and edited nothing, and
\* what is stored of it can be read again (_run_doctor, _parse_result).
THEOREM DiagnosisIsReadable ==
    ASSUME NEW succeeds \in BOOLEAN, NEW edited \in BOOLEAN, NEW report \in Reports,
           NEW message, Treated(succeeds, edited, report) \in Actions
    PROVE  /\ succeeds /\ ~edited
           /\ Readable(StageAfter(Treated(succeeds, edited, report)),
                       Stored(Treated(succeeds, edited, report), report, message))
<1>1. succeeds /\ ~edited /\ IsDiagnosis(report)
  BY DEF Treated, Actions
<1>2. Treated(succeeds, edited, report) = report.action /\ report.action # "failure"
  BY <1>1 DEF Treated, IsDiagnosis, Actions
<1>3. Stored(report.action, report, message) = "bounded"
  BY <1>1, <1>2 DEF Stored, IsDiagnosis
<1>4. StageAfter(report.action) # "pending_doctor"
  BY DEF StageAfter
<1> QED BY <1>1, <1>2, <1>3, <1>4 DEF Readable

\* A doctor that fails is stored with its message as it is: a long one makes a recovery file
\* that cannot be read (run_loop, load_doctor_recovery).
THEOREM LongFailureIsUnreadable ==
    ASSUME NEW report \in Reports
    PROVE  ~Readable(StageAfter("failure"), Stored("failure", report, "long"))
  BY DEF Readable, StageAfter, Stored
-----------------------------------------------------------------------------
(* Executable configuration *)

\* A command that may start processes was authorised by the operator for this very fingerprint:
\* by quoting it, by accepting what is there, by a record made before, or by agreeing at the
\* prompt (authorize_executable_config, _authorized_executable_config).
THEOREM AuthorizedByOperator ==
    ASSUME NEW request \in Requests, NEW store \in Stores, NEW id \in Identities,
           Authorized(request, store, id) # "refused"
    PROVE  \/ request.expected = id.digest
           \/ request.accept
           \/ IsTrusted(store, id)
           \/ request.prompts /\ request.terminal /\ request.agrees
<1>1. CASE Plain(request)
  BY <1>1 DEF Plain, Authorized, StoreAfter, Asks, Authorize
<1>2. CASE ~Plain(request)
  BY <1>2 DEF Plain, Authorized, StoreAfter, Asks, Authorize
<1> QED BY <1>1, <1>2

\* Trust comes only from the operator's agreement, for the fingerprint that was shown: no other
\* record becomes valid, and an unattended command, one that requires a digest or one that
\* accepts the current configuration leaves the records as they are.
THEOREM TrustIsExact ==
    ASSUME NEW request \in Requests, NEW command \in TrustCommands,
           NEW store \in Stores, NEW id \in Identities, NEW other \in Identities,
           NEW after \in {StoreAfter(request, store, id), StoreAfterTrust(command, store, id)},
           IsTrusted(after, other), ~IsTrusted(store, other)
    PROVE  /\ other = id
           /\ IF after = StoreAfter(request, store, id)
              THEN Plain(request) /\ request.prompts /\ request.terminal /\ request.agrees
              ELSE command.agrees /\ ~command.shows /\ ~command.revokes
<1>1. CASE after = StoreAfter(request, store, id)
  <2>1. after # store
    OBVIOUS
  <2>2. Asks(request, store, id) /\ request.agrees /\ after = Granted(store, id)
    BY <1>1, <2>1 DEF StoreAfter
  <2>3. other = id
    BY <2>2 DEF Granted, IsTrusted, Stores
  <2> QED BY <1>1, <2>2, <2>3 DEF Asks
<1>2. CASE after # StoreAfter(request, store, id)
  <2>1. after = StoreAfterTrust(command, store, id) /\ after # store
    BY <1>2
  <2>2. ~command.shows
    BY <2>1 DEF StoreAfterTrust
  <2>3. ~command.revokes
    BY <2>1, <2>2 DEF StoreAfterTrust, Revoked, IsTrusted, Stores
  <2>4. command.agrees /\ after = Granted(store, id)
    BY <2>1, <2>2, <2>3 DEF StoreAfterTrust
  <2>5. other = id
    BY <2>4 DEF Granted, IsTrusted, Stores
  <2> QED BY <1>2, <2>2, <2>3, <2>4, <2>5
<1> QED BY <1>1, <1>2

\* Where only one configuration is trusted, a command without a digest and without acceptance
\* that cannot ask runs exactly what has the same executable parts; a run that began with it
\* proceeds with exactly the same (build_executable_config_snapshot, _run_loop).
THEOREM ExecutableChangeIsSeen ==
    ASSUME NEW s \in Scopes, NEW reviewed \in Configurations, NEW current \in Configurations,
           NEW store \in Stores, NEW request \in Requests,
           \A id \in Identities : IsTrusted(store, id) <=> id = Identity(s, reviewed),
           Plain(request), ~request.terminal
    PROVE  /\ (Authorized(request, store, Identity(s, current)) = "stored_trust")
                  <=> \A part \in Executable : current[part] = reviewed[part]
           /\ (Recheck(reviewed, TRUE, current) = "proceed")
                  <=> \A part \in Executable : current[part] = reviewed[part]
<1>1. (Fingerprint(current) = Fingerprint(reviewed))
         <=> \A part \in Executable : current[part] = reviewed[part]
  BY DEF Fingerprint
<1>2. Fingerprint(current) \in Digests /\ Identity(s, current) \in Identities
  BY DEF Fingerprint, Digests, Identity, Identities, Configurations, Executable
<1>3. (Identity(s, current) = Identity(s, reviewed))
         <=> Fingerprint(current) = Fingerprint(reviewed)
  BY DEF Identity
<1>4. StoreAfter(request, store, Identity(s, current)) = store
  BY DEF StoreAfter, Asks
<1>5. (Authorized(request, store, Identity(s, current)) = "stored_trust")
         <=> IsTrusted(store, Identity(s, current))
  BY <1>4 DEF Authorized, Authorize, Plain
<1>6. (Recheck(reviewed, TRUE, current) = "proceed")
         <=> Fingerprint(current) = Fingerprint(reviewed)
  BY DEF Recheck
<1> QED BY <1>1, <1>2, <1>3, <1>5, <1>6

\* Revocation takes back this fingerprint and no other of the workspace: what was trusted before
\* the configuration changed is trusted again when it changes back
\* (revoke_executable_config_trust, executable_config_trust_record_path).
THEOREM RevocationIsPartial ==
    ASSUME NEW s \in Scopes, NEW current \in Configurations, NEW former \in Configurations,
           NEW store \in Stores, IsTrusted(store, Identity(s, former))
    PROVE  IsTrusted(Revoked(store, Identity(s, current)), Identity(s, former))
               <=> Fingerprint(former) # Fingerprint(current)
<1>1. \A c \in Configurations : Fingerprint(c) \in Digests
  BY DEF Fingerprint, Digests, Configurations, Executable
<1>2. \A c \in Configurations : Identity(s, c) \in Identities
  BY <1>1 DEF Identity, Identities
<1>3. (Identity(s, current) = Identity(s, former))
         <=> Fingerprint(current) = Fingerprint(former)
  BY DEF Identity
<1> QED BY <1>2, <1>3 DEF Revoked, IsTrusted, Stores
=============================================================================
