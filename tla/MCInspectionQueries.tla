------------------------ MODULE MCInspectionQueries ------------------------
(***************************************************************************)
(* The statements of InspectionQueries on every table of inspections with  *)
(* at most MaxRows rows: the table grows by one committed row at a time,   *)
(* in any order of ids, with any pair of hits.                             *)
(***************************************************************************)
EXTENDS InspectionQueries

CONSTANTS BindingIDs, MaxRows, MaxLimit

ASSUME TablesAssumption ==
  /\ IsFiniteSet(BindingIDs) /\ BindingIDs \subseteq Nat
  /\ NoID \notin Nat
  /\ MaxRows \in Nat /\ MaxLimit \in Nat \ {0}

VARIABLE rows

bindings == {[binding_id |-> id] : id \in BindingIDs}

Init == rows = {}

Record(id, chip, board) ==
  [inspection_id |-> id, result |-> Verdict(chip, board), chip_binding_id |-> chip,
   board_binding_id |-> board, created_at |-> id]

AddRow ==
  \E id \in (1..MaxRows) \ {i.inspection_id : i \in rows} :
    \E chip, board \in BindingIDs \cup {NoID} :
      rows' = rows \cup {Record(id, chip, board)}

Full == Cardinality(rows) = MaxRows /\ UNCHANGED rows

Next == AddRow \/ Full

Spec == Init /\ [][Next]_rows

\* Every page of every history is exact (see ExactPage).
EveryPageIsExact ==
  \A t \in BindingIDs, n \in 1..MaxLimit, before \in {NoID} \cup (1..MaxRows + 1) :
    ExactPage(rows, t, before, n)

\* A record is shown as hit on both sides exactly when its verdict was
\* CONSISTENT (types.go:173-175).
SidesMatchVerdicts ==
  \A t \in BindingIDs : \A i \in Page(rows, t, NoID, MaxLimit).entries :
    HitSide(i, t) = "both" <=> i.result = "CONSISTENT"

\* Every list of mismatch peers is exact (see ExactPeers).
EveryPeerListIsExact ==
  \A t \in BindingIDs, n \in 1..MaxLimit : ExactPeers(rows, bindings, t, n)
=============================================================================
