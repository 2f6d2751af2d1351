------------------------------ MODULE TaskBoard ------------------------------
(***************************************************************************)
(* What a reader of the task files may rely on: tasks are created open and *)
(* in batches, one at most awaits review, every other change concerns one  *)
(* task, a task is closed only from review, and closed is final.           *)
(***************************************************************************)
CONSTANT Task
VARIABLE status

InReview == {t \in Task : status[t] = "in_review"}
Becomes(t, s) == status' = [status EXCEPT ![t] = s]

Init == status = [t \in Task |-> "absent"]

Create == \E new \in SUBSET {t \in Task : status[t] = "absent"} :
              status' = [t \in Task |-> IF t \in new THEN "open" ELSE status[t]]

\* Developed work awaits review when no other task does.
Submit(t) ==
    /\ status[t] \in {"open", "changes_requested"}
    /\ InReview = {}
    /\ Becomes(t, "in_review")

\* A failed validation or a review asks for changes.
Return(t) ==
    /\ status[t] \in {"open", "changes_requested", "in_review"}
    /\ Becomes(t, "changes_requested")

Close(t) ==
    /\ status[t] = "in_review"
    /\ Becomes(t, "closed")

Next == Create \/ \E t \in Task : Submit(t) \/ Return(t) \/ Close(t)

Spec == Init /\ [][Next]_status
=============================================================================
