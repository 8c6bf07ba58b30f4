-------------------------- MODULE MCSourceDeletion --------------------------
(* A small instance of SourceDeletion for TLC.  Filings are interchangeable, *)
(* and so are versions: the property names neither.                          *)
EXTENDS SourceDeletion

MCSymmetry == Permutations(Filing) \cup Permutations(Version)
=============================================================================
