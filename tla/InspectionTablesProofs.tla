----------------------- MODULE InspectionTablesProofs -----------------------
(***************************************************************************)
(* The invariants of MCInspectionQueries for bindings and tables of any    *)
(* size: pages, sides and peer lists are right in every table that can be  *)
(* built record by record.                                                 *)
(***************************************************************************)
EXTENDS MCInspectionQueries, InspectionQueriesProofs

\* A table that is built of records is one that the queries are exact on.
TableInv == Decided(rows, bindings)

\* Adding a record with an id of its own keeps the table one.
LEMMA TableInvariant == Spec => []TableInv
<1>1. IsFiniteSet(bindings)
  <2>1. [id \in BindingIDs |-> [binding_id |-> id]] \in Surjection(BindingIDs, bindings)
    BY DEF Surjection, bindings
  <2> QED
    BY <2>1, TablesAssumption, FS_Surjection
<1>2. Init => TableInv
  BY <1>1, FS_EmptySet, TablesAssumption DEF Init, TableInv, Decided, Table, bindings
<1>3. ASSUME TableInv, [Next]_rows
      PROVE  TableInv'
  <2>1. CASE UNCHANGED rows
    BY <1>3, <2>1 DEF TableInv, bindings
  <2>2. CASE AddRow
    <3>1. PICK id \in (1..MaxRows) \ {i.inspection_id : i \in rows} :
            \E chip, board \in BindingIDs \cup {NoID} :
              rows' = rows \cup {Record(id, chip, board)}
      BY <2>2 DEF AddRow
    <3>2. PICK chip, board \in BindingIDs \cup {NoID} :
            rows' = rows \cup {Record(id, chip, board)}
      BY <3>1
    <3> DEFINE r == Record(id, chip, board)
    <3>3. /\ r.inspection_id = id /\ id \in Nat
          /\ r.chip_binding_id = chip
          /\ r.board_binding_id = board
          /\ r.result = Verdict(r.chip_binding_id, r.board_binding_id)
      BY TablesAssumption DEF Record
    <3> HIDE DEF r
    <3>4. rows' = rows \cup {r}
      BY <3>2 DEF r
    <3>5. {b.binding_id : b \in bindings} = BindingIDs
      <4>1. ASSUME NEW n \in BindingIDs
            PROVE  \E b \in bindings : b.binding_id = n
        <5>1. [binding_id |-> n] \in bindings
          BY DEF bindings
        <5>2. [binding_id |-> n].binding_id = n
          OBVIOUS
        <5> QED
          BY <5>1, <5>2
      <4>2. \A b \in bindings : b.binding_id \in BindingIDs
        BY DEF bindings
      <4> QED
        BY <4>1, <4>2
    <3>6. Table(rows')
      <4>1. IsFiniteSet(rows')
        BY <1>3, <3>4, FS_AddElement DEF TableInv, Decided, Table
      <4>2. \A i \in rows' : i.inspection_id \in Nat
        BY <1>3, <3>3, <3>4 DEF TableInv, Decided, Table
      <4>3. \A i, j \in rows' : i.inspection_id = j.inspection_id => i = j
        BY <1>3, <3>1, <3>3, <3>4 DEF TableInv, Decided, Table
      <4> QED
        BY <4>1, <4>2, <4>3 DEF Table
    <3>7. \A i \in rows' : /\ i.chip_binding_id \in {b.binding_id : b \in bindings} \cup {NoID}
                           /\ i.board_binding_id \in {b.binding_id : b \in bindings} \cup {NoID}
                           /\ i.result = Verdict(i.chip_binding_id, i.board_binding_id)
      BY <1>3, <3>2, <3>3, <3>4, <3>5 DEF TableInv, Decided
    <3> QED
      BY <1>1, <1>3, <3>6, <3>7 DEF TableInv, Decided, bindings
  <2> QED
    BY <1>3, <2>1, <2>2 DEF Next, Full
<1> QED
  BY <1>2, <1>3, PTL DEF Spec

\* Every page of every history is exact, in every table (store.go:547-557).
THEOREM EveryPageInvariant == Spec => []EveryPageIsExact
<1>1. TableInv => EveryPageIsExact
  BY PagesExact, TablesAssumption DEF TableInv, Decided, EveryPageIsExact
<1> QED
  BY <1>1, TableInvariant, PTL

\* A record of the history is shown as hit on both sides exactly when its
\* verdict was CONSISTENT (types.go:173-175).
THEOREM SidesInvariant == Spec => []SidesMatchVerdicts
<1>1. ASSUME TableInv, NEW t \in BindingIDs, NEW i \in Page(rows, t, NoID, MaxLimit).entries
      PROVE  HitSide(i, t) = "both" <=> i.result = "CONSISTENT"
  <2>1. i \in rows /\ i \in Hitting(rows, t)
    <3>1. ExactPage(rows, t, NoID, MaxLimit)
      BY <1>1, PagesExact, TablesAssumption DEF TableInv, Decided
    <3> QED
      BY <3>1 DEF ExactPage, Below, Hitting
  <2>2. i.chip_binding_id = t \/ i.board_binding_id = t
    BY <2>1 DEF Hitting
  <2>3. i.result = Verdict(i.chip_binding_id, i.board_binding_id) /\ t # NoID
    BY <1>1, <2>1, TablesAssumption DEF TableInv, Decided
  <2> QED
    BY <2>2, <2>3 DEF HitSide, Verdict
<1>2. TableInv => SidesMatchVerdicts
  BY <1>1 DEF SidesMatchVerdicts
<1> QED
  BY <1>2, TableInvariant, PTL

\* Every list of mismatch peers is exact, in every table (store.go:467-474).
THEOREM EveryPeerListInvariant == Spec => []EveryPeerListIsExact
<1>1. TableInv => EveryPeerListIsExact
  BY PeersExact, TablesAssumption DEF TableInv, EveryPeerListIsExact
<1> QED
  BY <1>1, TableInvariant, PTL
=============================================================================
