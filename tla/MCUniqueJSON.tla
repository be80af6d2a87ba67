--------------------------- MODULE MCUniqueJSON ---------------------------
(***************************************************************************)
(* Instances of UniqueJSON for TLC.  chip_uid and CHIP_UID are two member  *)
(* names and one struct field; other is the name of another field.         *)
(***************************************************************************)
EXTENDS UniqueJSON

FoldCase(name) == IF name = "CHIP_UID" THEN "chip_uid" ELSE name
=============================================================================
