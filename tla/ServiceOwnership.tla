-------------------------- MODULE ServiceOwnership --------------------------
(***************************************************************************)
(* What the record of a test service promises: every resource that exists  *)
(* is the one it owns, and it gives up an instance only when nothing of it *)
(* is left.                                                                *)
(***************************************************************************)
CONSTANTS Instance, None
VARIABLES owner, live

vars == <<owner, live>>

Init == owner = None /\ live = {}

\* The record passes on to another instance, or to none.
Pass == live = {} /\ owner' \in Instance \cup {None} /\ UNCHANGED live

\* Target commands, and the world, create and remove the owned resource.
Change == owner # None /\ live' \in SUBSET {owner} /\ UNCHANGED owner

Next == Pass \/ Change

Spec == Init /\ [][Next]_vars
=============================================================================
