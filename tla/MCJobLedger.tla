---------------------------- MODULE MCJobLedger ----------------------------
(* Small instances of JobLedger for TLC. *)
EXTENDS JobLedger

CONSTANTS j1, j2, c1, c2
=============================================================================
