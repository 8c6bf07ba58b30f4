--------------------------- MODULE MCRuntimeReset ---------------------------
(* Small instances of RuntimeReset for TLC. *)
EXTENDS RuntimeReset

CONSTANT r1
=============================================================================
