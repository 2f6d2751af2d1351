--------------------------- MODULE MCTestServices ---------------------------
(* Two processes and one test service for TLC. *)
EXTENDS TestServices
=============================================================================
