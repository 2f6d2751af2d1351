------------------------------ MODULE MCResume ------------------------------
(* Instances of the interruption model for TLC. *)
EXTENDS ResumeProperties
=============================================================================
