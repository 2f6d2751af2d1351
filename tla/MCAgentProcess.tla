--------------------------- MODULE MCAgentProcess ---------------------------
(* Limits of a few ticks for TLC. *)
EXTENDS AgentProcess

\* A filter needs a prompt longer than both pipes.
SomePrograms == {[kind |-> "filter", prompt |-> 4], [kind |-> "free", prompt |-> 1],
                 [kind |-> "free", prompt |-> 0]}
=============================================================================
