----------------------------- MODULE MCRuntimeReads -----------------------------
(* An instance of RuntimeReads for TLC: two requests. *)
EXTENDS RuntimeReads

CONSTANTS q1, q2

=============================================================================
