--------------------------- MODULE MCInspections ---------------------------
(***************************************************************************)
(* Instances of Inspections for TLC.  Scans, walkers, chips and boards are *)
(* interchangeable, each within its own set; identifiers are not.          *)
(***************************************************************************)
EXTENDS Inspections, TLC

Symmetry == Permutations(Scans) \cup Permutations(Walkers) \cup
            Permutations(Chips) \cup Permutations(Boards)
=============================================================================
