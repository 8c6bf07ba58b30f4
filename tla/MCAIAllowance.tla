--------------------------- MODULE MCAIAllowance ---------------------------
(* A small instance of AIAllowance for TLC. *)
EXTENDS AIAllowance, TLC

CONSTANTS p1, p2, s1, s2

MCSymmetry == Permutations({p1, p2}) \cup Permutations({s1, s2})
=============================================================================
