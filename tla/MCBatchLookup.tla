--------------------------- MODULE MCBatchLookup ---------------------------
(***************************************************************************)
(* Instances of BatchLookup for TLC.  Identifiers are interchangeable, and *)
(* so are lines.                                                           *)
(***************************************************************************)
EXTENDS BatchLookup, TLC

Symmetry == Permutations(Values) \cup Permutations(Lines)
=============================================================================
