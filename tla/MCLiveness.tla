----------------------------- MODULE MCLiveness -----------------------------
(* Small instances of Workflow under fairness, for the liveness properties. *)
EXTENDS WorkflowLiveness
=============================================================================
