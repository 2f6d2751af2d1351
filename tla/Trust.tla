------------------------------- MODULE Trust -------------------------------
(***************************************************************************)
(* The executable configuration: what may start a process, by which        *)
(* fingerprint it is known, and how a command obtains the operator's       *)
(* authorisation of it.  The records of trust are the operator's, outside  *)
(* the workspace, one for each workspace, source of the agents'            *)
(* configuration and fingerprint.                                          *)
(***************************************************************************)

CONSTANTS
    Contents,    \* what a part of the configuration may say
    Scopes,      \* workspaces, each with a source of its agents' configuration
    None

\* agents: defaults, roles and providers; profiles: commands, rules of prerequisites, services
\* and limits; wording: titles, guides, prose and layout.
Parts == {"agents", "overrides", "services", "profiles", "wording"}
Executable == Parts \ {"wording"}

Configurations == [Parts -> Contents]
Fingerprint(configuration) == [part \in Executable |-> configuration[part]]
Digests == [Executable -> Contents]

\* The digest of a saved cleanup is of another kind, in the scope of the services' file.
Identities == [scope : Scopes, digest : Digests \cup Contents]
Identity(s, configuration) == [scope |-> s, digest |-> Fingerprint(configuration)]

Stores == [Identities -> {"none", "intact", "unreadable"}]

IsTrusted(store, id) == store[id] = "intact"
Granted(store, id) == [store EXCEPT ![id] = "intact"]
Revoked(store, id) == [store EXCEPT ![id] = "none"]

-----------------------------------------------------------------------------
(* A command that starts processes *)

\* expected: the digest that is required; accept: whatever is there; prompts: the command may
\* ask, which takes a terminal, and what the operator then says.
Requests ==
    [expected : Digests \cup Contents \cup {None}, accept : BOOLEAN,
     prompts : BOOLEAN, terminal : BOOLEAN, agrees : BOOLEAN]

Plain(request) == request.expected = None /\ ~request.accept

Authorize(request, store, id) ==
    IF request.expected # None
    THEN IF ~request.accept /\ request.expected = id.digest THEN "expected_digest" ELSE "refused"
    ELSE IF request.accept THEN "accepted_current"
    ELSE IF IsTrusted(store, id) THEN "stored_trust"
    ELSE "refused"

Asks(request, store, id) ==
    /\ Authorize(request, store, id) = "refused"
    /\ Plain(request) /\ request.prompts /\ request.terminal

StoreAfter(request, store, id) ==
    IF Asks(request, store, id) /\ request.agrees THEN Granted(store, id) ELSE store

Authorized(request, store, id) == Authorize(request, StoreAfter(request, store, id), id)

\* Between the tasks of a run the configuration is read again: invalid, it ends the run with an
\* error; with another fingerprint, the run stops for renewed authorisation.
Recheck(authorized, loads, current) ==
    IF ~loads THEN "error"
    ELSE IF Fingerprint(current) # Fingerprint(authorized) THEN "stop"
    ELSE "proceed"

-----------------------------------------------------------------------------
(* The operator's own commands *)

TrustCommands == [shows : BOOLEAN, revokes : BOOLEAN, agrees : BOOLEAN]

StoreAfterTrust(command, store, id) ==
    IF command.shows THEN store
    ELSE IF command.revokes THEN Revoked(store, id)
    ELSE IF ~IsTrusted(store, id) /\ command.agrees THEN Granted(store, id)
    ELSE store

\* Cleanup of a test service runs what was saved with the instance; trust in the current
\* configuration covers it when that defines the service in the same way.
AuthorizeCleanup(request, store, saved, current, unchanged) ==
    IF Plain(request) /\ unchanged /\ IsTrusted(store, current)
    THEN "stored_trust"
    ELSE Authorize(request, store, saved)
=============================================================================
