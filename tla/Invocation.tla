----------------------------- MODULE Invocation -----------------------------
(***************************************************************************)
(* What the caller of an agent may rely on when an invocation has ended:   *)
(* which processes of the provider's group can still be at work.           *)
(***************************************************************************)
CONSTANT None  \* not ended

VARIABLES
    ended,     \* how the invocation ended
    leader,    \* the provider runs
    member     \* another process of its group runs

vars == <<ended, leader, member>>

Init == ended = None /\ leader = TRUE /\ member = FALSE

\* Only a running provider starts processes; once stopped, nothing starts again.
Works ==
    /\ ended' = ended
    /\ leader' => leader
    /\ member' => member \/ leader

\* A timeout leaves no process of the group.  An exit or an error leaves no provider, but
\* what it started may go on; only interrupts leave the provider itself at work.
Ends ==
    /\ ended = None /\ ended' # None
    /\ leader' => leader
    /\ member' => member
    /\ ended' # "interrupted" => ~leader'
    /\ ended' \in {"timeout", "missing_executable"} => ~member'

Next == Works \/ Ends

Spec == Init /\ [][Next]_vars
=============================================================================
