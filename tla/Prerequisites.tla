---------------------------- MODULE Prerequisites ----------------------------
(***************************************************************************)
(* Prerequisites: what the host must provide before an operation of a      *)
(* session.  Each is established by a command that checks it, by a         *)
(* variable of the environment or by the word of the operator; a command   *)
(* that fails may be prepared for, once, and is then checked again.        *)
(***************************************************************************)

\* A prerequisite as its profile declares it: what it is established by, how it is prepared;
\* outputs: it names what the preparation writes; services: its profile has test services.
Declarations ==
    [check : BOOLEAN, environment : BOOLEAN, attestation : BOOLEAN,
     prepare : {"none", "workspace_local", "owned_service"},
     outputs : BOOLEAN, services : BOOLEAN]

Established(p) ==
    {means \in {"check", "environment", "attestation"} :
        CASE means = "check"       -> p.check
          [] means = "environment" -> p.environment
          [] OTHER                 -> p.attestation}

WellDeclared(p) ==
    /\ \E means \in Established(p) : Established(p) = {means}
    /\ p.prepare # "none" => p.check
    /\ p.outputs <=> p.prepare = "workspace_local"
    /\ p.prepare = "owned_service" => p.services

\* The host at one moment.  The record of an attestation is found by the definition and the
\* workspace it was made for, and read; the check exits, or cannot be run to its end.
Hosts ==
    [attested : {"none", "of this definition", "of another", "unreadable"},
     variable : {"set", "empty", "unset"},
     check : {"zero", "not found", "other", "no exit"}]

Attested(host) == host.attested = "of this definition"

Evaluate(p, host) ==
    IF p.attestation THEN IF Attested(host) THEN "satisfied" ELSE "unverified"
    ELSE IF p.environment THEN IF host.variable = "set" THEN "satisfied" ELSE "unsatisfied"
    ELSE IF host.check = "no exit" THEN "error"
    ELSE IF host.check = "zero" THEN "satisfied"
    ELSE IF host.check = "not found" THEN "unverified"
    ELSE "unsatisfied"

\* The operator attests a prerequisite, and takes it back.
Attest(p, host) == IF p.attestation THEN [host EXCEPT !.attested = "of this definition"] ELSE host
Revoke(host) == [host EXCEPT !.attested = "none"]

-----------------------------------------------------------------------------
(* Preparation *)

\* How the command ends: late, it is stopped with its group, and its output is still open if
\* others hold it; visible: git sees what it wrote.
Preparations == [ends : {"zero", "other", "late", "held open"}, visible : BOOLEAN]

\* ignored: git ignores the outputs and tracks none of them; serves: a test service of the
\* profile is needed for the operation.
Contracts == [ignored : BOOLEAN, serves : BOOLEAN]

ContractHolds(p, contract) ==
    /\ p.prepare = "workspace_local" => contract.ignored
    /\ p.prepare = "owned_service" => contract.serves

Prepares(p, host) == Evaluate(p, host) = "unsatisfied" /\ p.prepare # "none"

\* after: the host when the preparation is over.
Status(p, host, preparation, after) ==
    IF ~Prepares(p, host) THEN Evaluate(p, host)
    ELSE IF preparation.ends = "zero" THEN Evaluate(p, after)
    ELSE "error"

Unusable(preparation) == preparation.ends = "held open" \/ preparation.visible

\* What comes of one prerequisite; a refusal ends the run with an error.
Resolution(p, contract, host, preparation, after) ==
    IF ~ContractHolds(p, contract) \/ (Prepares(p, host) /\ Unusable(preparation)) THEN "refused"
    ELSE IF Status(p, host, preparation, after) # "satisfied" THEN "blocked"
    ELSE "satisfied"

\* The ways an operation with one prerequisite can come out: after a preparation the host may
\* be another one.
Resolutions ==
    UNION {{Resolution(p, contract, host, preparation, after) :
               contract \in Contracts, preparation \in Preparations,
               after \in IF Prepares(p, host) THEN Hosts ELSE {host}} :
           p \in {d \in Declarations : WellDeclared(d)}, host \in Hosts}
=============================================================================
