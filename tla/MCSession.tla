----------------------------- MODULE MCSession -----------------------------
(* The operations that can fail, for TLC. *)
EXTENDS SessionProperties

FallibleOperations == <<"session", "validation">>
=============================================================================
