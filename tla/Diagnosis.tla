------------------------------ MODULE Diagnosis ------------------------------
(***************************************************************************)
(* The doctor, which looks at a task that its developer could not advance: *)
(* what its report must say, where the recovery goes from there, and what  *)
(* of it can be read back from the recovery file.                          *)
(***************************************************************************)

Actions == {"revise_task", "retry_developer", "operator"}

\* result.json, if there is one; texts: the longest of its cause, summary and guidance.
Reports ==
    [of : {"this task", "another", "no file"}, fields : BOOLEAN,
     texts : {"empty", "bounded", "long"},
     evidence : {"workspace files", "other paths", "too many", "none"},
     action : Actions \cup {"other"}]

IsDiagnosis(report) ==
    /\ report.of = "this task" /\ report.fields
    /\ report.texts = "bounded"
    /\ report.evidence = "workspace files"
    /\ report.action \in Actions

\* The doctor may edit nothing: what it edited is restored, and its report refused.
Treated(succeeds, edited, report) ==
    IF succeeds /\ ~edited /\ IsDiagnosis(report) THEN report.action ELSE "failure"

Treatments ==
    {Treated(succeeds, edited, report) : succeeds, edited \in BOOLEAN, report \in Reports}

StageAfter(action) ==
    IF action = "revise_task" THEN "pending_planner"
    ELSE IF action = "retry_developer" THEN "pending_developer"
    ELSE "blocked"

\* The recovery file: a stage and the text of its diagnosis, none before the doctor.
Readable(stage, text) ==
    /\ stage = "pending_doctor" <=> text = "none"
    /\ text \in {"none", "bounded"}

\* The text stored with a treatment: a failure's is its message, whatever the length.
Stored(action, report, message) == IF action = "failure" THEN message ELSE report.texts
=============================================================================
