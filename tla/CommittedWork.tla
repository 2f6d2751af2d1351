--------------------------- MODULE CommittedWork ---------------------------
(***************************************************************************)
(* What the last commit promises whatever happens to a session: it holds   *)
(* whole sessions only, the work moves by one session per commit, what is  *)
(* in review was validated or is marked to be, and only integrated work    *)
(* is tagged.                                                              *)
(***************************************************************************)
CONSTANTS
    Accounted,       \* records that let a review begin and end
    Records          \* records of a validation, "none" among them

VARIABLES
    stage,           \* of the task
    record,          \* of the task's validation
    awaits,          \* a blocker says that the task awaits its validation
    edits,           \* edits of sessions that did not end well
    tagged           \* the milestone has its tag

vars == <<stage, record, awaits, edits, tagged>>

Init ==
    /\ stage = "develop" /\ record = "none" /\ awaits = FALSE
    /\ edits = {} /\ tagged = FALSE

After == [develop |-> {"develop", "review"}, review |-> {"review", "develop", "integrate"},
          integrate |-> {"integrate", "develop", "done"}, done |-> {"done"}]

CommitSession ==
    /\ stage' \in After[stage] /\ record' \in Records /\ awaits' \in BOOLEAN
    /\ stage' = "review" => record' # "none" \/ awaits'
    /\ stage = "review" /\ stage' = "integrate" => record' \in Accounted
    /\ UNCHANGED <<edits, tagged>>

CreateTag == stage = "done" /\ tagged' = TRUE /\ UNCHANGED <<stage, record, awaits, edits>>

Spec == Init /\ [][CommitSession \/ CreateTag]_vars
=============================================================================
