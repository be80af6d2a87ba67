--------------------------- MODULE MCBindingStore ---------------------------
(***************************************************************************)
(* Instances of BindingStore for TLC.  Attempts, keys, chips and boards    *)
(* are interchangeable, each within its own set.                           *)
(***************************************************************************)
EXTENDS BindingStore, TLC

Symmetry == Permutations(Attempts) \cup Permutations(Keys) \cup
            Permutations(Chips) \cup Permutations(Boards)
=============================================================================
