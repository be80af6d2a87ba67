-------------------------- MODULE InspectionsProofs --------------------------
(***************************************************************************)
(* What Inspections guarantees for any number of scans, supervisors,       *)
(* bindings and records, and any page size.                                *)
(***************************************************************************)
EXTENDS Inspections, InspectionQueriesProofs

-----------------------------------------------------------------------------
(* Types.                                                                   *)

\* The verdict is one of four.
LEMMA VerdictType ==
  \A c, b : Verdict(c, b) \in {"CONSISTENT", "MISMATCH", "PARTIAL", "UNREGISTERED"}
  BY DEF Verdict

\* Each side resolves to the id of a binding, or to none.
LEMMA ResolveType ==
  ASSUME NEW rows \in SUBSET Bindings, NEW p \in ScanPairs
  PROVE  Resolve(rows, p) \in Hits
<1>1. ASSUME NEW S \in SUBSET Bindings
      PROVE  IDOf(S) \in BindingIDs \cup {NoID}
  <2>1. CASE S = {}
    BY <2>1 DEF IDOf
  <2>2. CASE S # {}
    <3>1. (CHOOSE b \in S : TRUE) \in Bindings
      BY <2>2
    <3>2. (CHOOSE b \in S : TRUE).binding_id \in BindingIDs
      BY <3>1 DEF Bindings
    <3> QED
      BY <2>2, <3>2 DEF IDOf
  <2> QED
    BY <2>1, <2>2
<1>2. /\ IDOf({b \in rows : b.chip_uid = p.chip_uid}) \in BindingIDs \cup {NoID}
      /\ IDOf({b \in rows : b.board_serial = p.board_serial}) \in BindingIDs \cup {NoID}
  BY <1>1
<1> QED
  BY <1>2 DEF Resolve, Hits

\* The row a scan inserts is a record.
LEMMA RowType ==
  ASSUME IndInv, NEW s \in Scans, pc[s] \in HasID
  PROVE  Row(s) \in Records /\ Row(s).inspection_id = iid[s]
<1>1. scan[s] \in ScanPairs /\ iid[s] \in 1..MaxInspection
  BY InspectionBounds DEF IndInv, TypeOK, Phases, Phase, HasID
<1>2. hits[s] \in Hits /\ began[s] \in Nat
  BY DEF IndInv, TypeOK
<1> QED
  BY <1>1, <1>2, VerdictType DEF Row, Records, ScanPairs, Hits

\* What is read back of a record is a view.
LEMMA SummaryType ==
  ASSUME NEW i \in Records, NEW rows \in SUBSET Bindings
  PROVE  Summary(i, rows) \in Views
  BY DEF Summary, Views

\* inspection_id is the primary key of inspections.
LEMMA InspectionsAreATable ==
  ASSUME IndInv
  PROVE  Table(inspections)
<1>1. \A i \in inspections : i.inspection_id \in Nat
  BY InspectionBounds DEF IndInv, TypeOK, Records
<1>2. ASSUME NEW i \in inspections, NEW j \in inspections, i.inspection_id = j.inspection_id
      PROVE  i = j
  <2>1. PICK s \in Scans : pc[s] = "committed" /\ i = Row(s)
    BY DEF IndInv, RecordsOfScans
  <2>2. PICK t \in Scans : pc[t] = "committed" /\ j = Row(t)
    BY DEF IndInv, RecordsOfScans
  <2>3. iid[s] = iid[t]
    BY <1>2, <2>1, <2>2 DEF Row
  <2>4. s = t
    BY <2>1, <2>2, <2>3 DEF IndInv, RecordsOfScans, HasID
  <2> QED
    BY <2>1, <2>2, <2>4
<1> QED
  BY <1>1, <1>2 DEF Table, IndInv, RecordsOfScans

\* What a step of a walk reads: the newest records below the cursor, with the
\* id of the oldest of them when there are more.
LEMMA ReadPageReads ==
  ASSUME IndInv, NEW w \in Walkers, ReadPage(w)
  PROVE  LET k == walk[w]
             p == Page(inspections, k.target, k.before, k.limit)
             want == Below(Hitting(inspections, k.target), k.before)
         IN  /\ k \in Walks
             /\ p.entries \subseteq want
             /\ IsFiniteSet(p.entries)
             /\ \A i \in p.entries, j \in want \ p.entries : i.inspection_id > j.inspection_id
             /\ IF want \ p.entries = {} THEN p.next_cursor = NoID
                ELSE /\ p.next_cursor \in Nat
                     /\ \E o \in p.entries : p.next_cursor = o.inspection_id
                     /\ \A i \in p.entries : p.next_cursor <= i.inspection_id
<1> DEFINE k == walk[w]
           p == Page(inspections, k.target, k.before, k.limit)
           want == Below(Hitting(inspections, k.target), k.before)
<1>1. k \in Walks /\ k.limit \in Nat \ {0}
  BY InspectionBounds DEF IndInv, TypeOK, Walking, Walks, ReadPage
<1>2. Table(inspections)
  BY InspectionsAreATable
<1>3. ExactPage(inspections, k.target, k.before, k.limit)
  <2> HIDE DEF k
  <2> QED
    BY <1>1, <1>2, PagesExact
<1>4. /\ p.entries \subseteq want
      /\ \A i \in p.entries, j \in want \ p.entries : i.inspection_id > j.inspection_id
      /\ want \ p.entries # {} => Cardinality(p.entries) = k.limit
      /\ p.next_cursor = IF want \ p.entries = {} THEN NoID ELSE OldestID(p.entries)
  BY <1>3 DEF ExactPage
<1>5. want \subseteq inspections
  BY DEF Below, Hitting
<1> HIDE DEF k, p, want
<1>6. Table(p.entries)
  BY <1>2, <1>4, <1>5, SubTable
<1>7. ASSUME want \ p.entries # {}
      PROVE  /\ p.next_cursor \in Nat
             /\ \E o \in p.entries : p.next_cursor = o.inspection_id
             /\ \A i \in p.entries : p.next_cursor <= i.inspection_id
  <2>1. p.entries # {}
    BY <1>1, <1>4, <1>7, FS_EmptySet
  <2> DEFINE E == p.entries
  <2> HIDE DEF E
  <2>2. Table(E) /\ E # {}
    BY <1>6, <2>1 DEF E
  <2>3. PICK o \in E : /\ OldestID(E) = o.inspection_id
                       /\ \A j \in E \ {o} : o.inspection_id < j.inspection_id
    BY <2>2, Oldest
  <2>4. o.inspection_id \in Nat /\ \A j \in E : j.inspection_id \in Nat
    BY <2>2 DEF Table
  <2>5. \A j \in E : o.inspection_id <= j.inspection_id
    BY <2>3, <2>4
  <2> QED
    BY <1>4, <1>7, <2>3, <2>4, <2>5 DEF E
<1> QED
  BY <1>1, <1>4, <1>6, <1>7 DEF Table, k, p, want

\* What a walk is when it starts.
LEMMA StartWalkWrites ==
  ASSUME IndInv, NEW w \in Walkers, StartWalk(w)
  PROVE  \E b \in bindings, n \in 1..MaxLimit :
           /\ walk' = [walk EXCEPT ![w] = walk'[w]]
           /\ walk'[w] = [state |-> "open", target |-> b.binding_id, limit |-> n,
                          before |-> NoID, collected |-> {}, delivered |-> 0,
                          owed |-> Hitting(inspections, b.binding_id)]
           /\ UNCHANGED <<tables, locals, history>>
<1>1. walk \in [Walkers -> Walks]
  BY DEF IndInv, TypeOK
<1> QED
  BY <1>1 DEF StartWalk, NotWalking

\* What a step of a walk leaves behind.
LEMMA ReadPageWrites ==
  ASSUME IndInv, NEW w \in Walkers, ReadPage(w)
  PROVE  LET k == walk[w]
             p == Page(inspections, k.target, k.before, k.limit)
         IN  /\ k.state = "open"
             /\ walk' = [walk EXCEPT ![w] = walk'[w]]
             /\ walk'[w] = [state     |-> IF p.next_cursor = NoID THEN "done" ELSE "open",
                            target    |-> k.target,
                            limit     |-> k.limit,
                            before    |-> p.next_cursor,
                            collected |-> k.collected \cup p.entries,
                            delivered |-> k.delivered + Cardinality(p.entries),
                            owed      |-> k.owed]
             /\ UNCHANGED <<tables, locals, history>>
<1>1. walk \in [Walkers -> Walks]
  BY DEF IndInv, TypeOK
<1> QED
  BY <1>1 DEF ReadPage, Walks

\* Every step keeps the types.
LEMMA TypeStep == IndInv /\ [Next]_vars => TypeOK'
<1> SUFFICES ASSUME IndInv, [Next]_vars
             PROVE  TypeOK'
  OBVIOUS
<1> USE InspectionBounds
<1>0. TypeOK
  BY DEF IndInv
<1>1. CASE Book
  <2>1. bindings' \subseteq Bindings
    BY <1>0, <1>1 DEF Book, TypeOK
  <2>2. history' \subseteq SUBSET Bindings
    BY <1>0, <1>1, <2>1 DEF Book, TypeOK
  <2> QED
    BY <1>0, <1>1, <2>1, <2>2 DEF Book, TypeOK, locals
<1>2. ASSUME NEW s \in Scans, Begin(s)
      PROVE  TypeOK'
  <2>1. scan' \in [Scans -> ScanPairs \cup {NoScan}]
    BY <1>0, <1>2 DEF Begin, TypeOK
  <2>2. known' \in [Scans -> SUBSET Bindings]
    BY <1>0, <1>2 DEF Begin, TypeOK
  <2> QED
    BY <1>0, <1>2, <2>1, <2>2 DEF Begin, TypeOK, Goto
<1>3. ASSUME NEW s \in Scans, ResolveSides(s)
      PROVE  TypeOK'
  <2>1. scan[s] \in ScanPairs /\ bindings \in SUBSET Bindings
    BY <1>0, <1>3 DEF ResolveSides, IndInv, Phases, Phase, TypeOK
  <2>2. Resolve(bindings, scan[s]) \in Hits
    BY <2>1, ResolveType
  <2>3. hits' \in [Scans -> Hits]
    BY <1>0, <1>3, <2>2 DEF ResolveSides, TypeOK
  <2> QED
    BY <1>0, <1>3, <2>3 DEF ResolveSides, TypeOK, Goto, tables
<1>4. ASSUME NEW s \in Scans, Insert(s)
      PROVE  TypeOK'
  <2>1. CASE lastID < MaxInspection /\ lastID' = lastID + 1
             /\ iid' = [iid EXCEPT ![s] = lastID + 1] /\ Goto(s, "select") /\ UNCHANGED answer
    BY <1>0, <1>4, <2>1 DEF Insert, TypeOK, Goto
  <2>2. CASE Goto(s, "closed") /\ answer' = [answer EXCEPT ![s] = InternalError]
             /\ UNCHANGED <<lastID, iid>>
    BY <1>0, <1>4, <2>2 DEF Insert, TypeOK, Goto
  <2> QED
    BY <1>4, <2>1, <2>2 DEF Insert
<1>5. ASSUME NEW s \in Scans, Select(s)
      PROVE  TypeOK'
  <2>1. Row(s) \in Records /\ bindings \in SUBSET Bindings
    BY <1>0, <1>5, RowType DEF Select, HasID, TypeOK
  <2>2. Summary(Row(s), bindings) \in Views
    BY <2>1, SummaryType
  <2>3. view' \in [Scans -> Views \cup {NoAnswer}]
    BY <1>0, <1>5, <2>2 DEF Select, TypeOK
  <2> QED
    BY <1>0, <1>5, <2>3 DEF Select, TypeOK, Goto, tables
<1>6. ASSUME NEW s \in Scans, Commit(s)
      PROVE  TypeOK'
  <2>1. inspections' \subseteq Records
    BY <1>0, <1>6, RowType DEF Commit, HasID, TypeOK
  <2> QED
    BY <1>0, <1>6, <2>1 DEF Commit, TypeOK, Goto
<1>7. ASSUME NEW s \in Scans, Acknowledge(s)
      PROVE  TypeOK'
  BY <1>0, <1>7 DEF Acknowledge, TypeOK, tables
<1>8. ASSUME NEW s \in Scans, Fail(s) \/ CommitLost(s)
      PROVE  TypeOK'
  BY <1>0, <1>8 DEF Fail, CommitLost, TypeOK, Goto, tables
<1>9. ASSUME NEW w \in Walkers, StartWalk(w)
      PROVE  TypeOK'
  <2>1. PICK b \in bindings, n \in 1..MaxLimit :
          /\ walk' = [walk EXCEPT ![w] = walk'[w]]
          /\ walk'[w] = [state |-> "open", target |-> b.binding_id, limit |-> n,
                         before |-> NoID, collected |-> {}, delivered |-> 0,
                         owed |-> Hitting(inspections, b.binding_id)]
          /\ UNCHANGED <<tables, locals, history>>
    BY <1>9, StartWalkWrites
  <2>2. b.binding_id \in BindingIDs
    BY <1>0 DEF TypeOK, Bindings
  <2>3. Hitting(inspections, b.binding_id) \in SUBSET Records
    BY <1>0 DEF TypeOK, Hitting
  <2>4. walk'[w] \in Walks
    BY <2>1, <2>2, <2>3 DEF Walks
  <2>5. walk' \in [Walkers -> Walks]
    BY <1>0, <2>1, <2>4 DEF TypeOK
  <2> QED
    BY <1>0, <2>1, <2>5 DEF TypeOK, tables, locals
<1>10. ASSUME NEW w \in Walkers, ReadPage(w)
       PROVE  TypeOK'
  <2> DEFINE k == walk[w]
             p == Page(inspections, k.target, k.before, k.limit)
  <2>1. /\ k \in Walks
        /\ p.entries \subseteq Below(Hitting(inspections, k.target), k.before)
        /\ IsFiniteSet(p.entries)
        /\ p.next_cursor \in Nat \cup {NoID}
    BY <1>10, ReadPageReads
  <2>2. /\ walk' = [walk EXCEPT ![w] = walk'[w]]
        /\ walk'[w] = [state     |-> IF p.next_cursor = NoID THEN "done" ELSE "open",
                       target    |-> k.target,
                       limit     |-> k.limit,
                       before    |-> p.next_cursor,
                       collected |-> k.collected \cup p.entries,
                       delivered |-> k.delivered + Cardinality(p.entries),
                       owed      |-> k.owed]
        /\ UNCHANGED <<tables, locals, history>>
    BY <1>10, ReadPageWrites
  <2> HIDE DEF k, p
  <2>3. p.entries \in SUBSET Records
    BY <1>0, <2>1 DEF TypeOK, Below, Hitting
  <2>4. Cardinality(p.entries) \in Nat
    BY <2>1, FS_CardinalityType
  <2>5. walk'[w] \in Walks
    BY <2>1, <2>2, <2>3, <2>4 DEF Walks
  <2>6. walk' \in [Walkers -> Walks]
    BY <1>0, <2>2, <2>5 DEF TypeOK
  <2> QED
    BY <1>0, <2>2, <2>6 DEF TypeOK, tables, locals
<1>11. CASE Terminated \/ UNCHANGED vars
  BY <1>0, <1>11 DEF Terminated, TypeOK, vars, tables, locals
<1> QED
  BY <1>1, <1>2, <1>3, <1>4, <1>5, <1>6, <1>7, <1>8, <1>9, <1>10, <1>11 DEF Next, Scanning

-----------------------------------------------------------------------------
(* Bindings.                                                                *)

\* Only Book changes bindings, and it adds one that shares nothing.
LEMMA BindingsStep ==
  ASSUME IndInv, [Next]_vars
  PROVE  /\ OneToOne'
         /\ Growing'
         /\ bindings \subseteq bindings'
         /\ history \subseteq history'
         /\ \A b \in bindings' \ bindings, c \in bindings : b.binding_id # c.binding_id
<1>1. CASE Book
  BY <1>1 DEF Book, IndInv, OneToOne, Growing
<1>2. CASE UNCHANGED <<bindings, history>>
  BY <1>2 DEF IndInv, OneToOne, Growing
<1>3. Book \/ UNCHANGED <<bindings, history>>
  <2>1. ASSUME NEW s \in Scans, Scanning(s)
        PROVE  UNCHANGED <<bindings, history>>
    BY <2>1 DEF Scanning, Begin, ResolveSides, Insert, Select, Commit, Acknowledge, Fail,
                CommitLost, tables
  <2>2. ASSUME NEW w \in Walkers, StartWalk(w) \/ ReadPage(w)
        PROVE  UNCHANGED <<bindings, history>>
    BY <2>2 DEF StartWalk, ReadPage, tables
  <2> QED
    BY <2>1, <2>2 DEF Next, Terminated, vars, tables
<1> QED
  BY <1>1, <1>2, <1>3

-----------------------------------------------------------------------------
(* Scans.                                                                   *)

\* A stored id that is set belongs to a binding, so what is shown of a record
\* does not change when bindings are added.
LEMMA SummaryStands ==
  ASSUME IndInv, [Next]_vars, NEW s \in Scans, pc[s] \in Resolved
  PROVE  Summary(Row(s), bindings') = Summary(Row(s), bindings)
<1>1. PICK rows \in history : hits[s] = Resolve(rows, scan[s])
  BY DEF IndInv, Phases, Phase
<1>2. rows \subseteq bindings /\ bindings \subseteq Bindings
  BY DEF IndInv, Growing, TypeOK
<1>3. ASSUME NEW id \in {hits[s].chip, hits[s].board}
      PROVE  id = NoID \/ \E c \in bindings : c.binding_id = id
  <2>1. ASSUME NEW S \in SUBSET rows
        PROVE  IDOf(S) = NoID \/ \E c \in bindings : c.binding_id = IDOf(S)
    BY <1>2 DEF IDOf
  <2> QED
    BY <1>1, <2>1 DEF Resolve
<1>4. bindings \subseteq bindings'
  BY BindingsStep
<1>5. \A b \in bindings' \ bindings : b.binding_id \notin {hits[s].chip, hits[s].board}
  <2>1. \A b \in bindings' \ bindings, c \in bindings : b.binding_id # c.binding_id
    BY BindingsStep
  <2>2. \A b \in bindings' : b.binding_id # NoID
    BY TypeStep, IDAssumption DEF TypeOK, Bindings
  <2> QED
    BY <1>3, <2>1, <2>2
<1> QED
  BY <1>4, <1>5 DEF Summary, Row

\* A scan keeps what it has drawn and resolved.
LEMMA RowStands ==
  ASSUME IndInv, [Next]_vars, NEW s \in Scans
  PROVE  /\ pc[s] \in Resolved => scan'[s] = scan[s] /\ known'[s] = known[s] /\ hits'[s] = hits[s]
         /\ pc[s] \in HasID => Row(s)' = Row(s) /\ iid'[s] = iid[s]
         /\ pc[s] = "committed" => pc'[s] = "committed"
<1>1. /\ scan \in [Scans -> ScanPairs \cup {NoScan}] /\ known \in [Scans -> SUBSET Bindings]
      /\ hits \in [Scans -> Hits] /\ iid \in [Scans -> 0..MaxInspection]
      /\ began \in [Scans -> Nat]
  BY DEF IndInv, TypeOK
<1>2. pc \in [Scans -> {"idle", "resolve", "insert", "select",
                       "committing", "committed", "closed"}]
  BY DEF IndInv, TypeOK
<1>3. ASSUME NEW t \in Scans, Begin(t) \/ ResolveSides(t) \/ Insert(t)
      PROVE  /\ pc[s] \in Resolved => scan'[s] = scan[s] /\ known'[s] = known[s] /\ hits'[s] = hits[s]
             /\ pc[s] \in HasID => began'[s] = began[s] /\ iid'[s] = iid[s]
             /\ pc[s] = "committed" => pc'[s] = "committed"
  BY <1>1, <1>2, <1>3 DEF Begin, ResolveSides, Insert, Goto, Resolved, HasID, tables
<1>4. ASSUME NEW t \in Scans,
             Select(t) \/ Commit(t) \/ Acknowledge(t) \/ Fail(t) \/ CommitLost(t)
      PROVE  /\ UNCHANGED <<scan, known, hits, iid, began>>
             /\ pc[s] = "committed" => pc'[s] = "committed"
  BY <1>2, <1>4 DEF Select, Commit, Acknowledge, Fail, CommitLost, Goto, tables
<1>5. CASE Book \/ Terminated \/ UNCHANGED vars \/ \E w \in Walkers : StartWalk(w) \/ ReadPage(w)
  BY <1>5 DEF Book, Terminated, StartWalk, ReadPage, vars, locals, Row
<1> QED
  BY <1>3, <1>4, <1>5 DEF Next, Scanning, Row, Resolved, HasID

\* A scan that no step touches stays as it is, while bindings and records grow.
LEMMA PhaseStands ==
  ASSUME IndInv, [Next]_vars, NEW s \in Scans,
         lastID' \in Nat, lastID <= lastID', inspections \subseteq inspections',
         scan'[s] = scan[s], pc'[s] = pc[s], began'[s] = began[s], hits'[s] = hits[s],
         iid'[s] = iid[s], view'[s] = view[s], answer'[s] = answer[s], known'[s] = known[s]
  PROVE  Phase(s)'
<1>1. Phase(s) /\ lastID \in Nat /\ iid[s] \in Nat
  BY InspectionBounds DEF IndInv, Phases, TypeOK
<1>2. bindings \subseteq bindings' /\ history \subseteq history'
  BY BindingsStep
<1>3. Row(s)' = Row(s)
  BY DEF Row
<1>4. pc[s] \in Viewed => view'[s] = Summary(Row(s)', bindings')
  BY <1>1, <1>3, SummaryStands DEF Phase, Viewed, Resolved
<1>5. pc'[s] \in HasID => iid'[s] \in 1..lastID'
  BY <1>1 DEF Phase
<1>6. pc'[s] \in Resolved =>
        \E rows \in history' : known'[s] \subseteq rows /\ hits'[s] = Resolve(rows, scan'[s])
  BY <1>1, <1>2 DEF Phase
<1> QED
  BY <1>1, <1>2, <1>3, <1>4, <1>5, <1>6 DEF Phase

\* Every step keeps what pc says of every scan.
LEMMA PhasesStep == IndInv /\ [Next]_vars => Phases'
<1> SUFFICES ASSUME IndInv, [Next]_vars, NEW s \in Scans
             PROVE  Phase(s)'
  BY DEF Phases
<1>1. TypeOK /\ Phase(s) /\ lastID \in Nat
  BY InspectionBounds DEF IndInv, Phases, TypeOK
<1>2. /\ bindings \subseteq bindings' /\ history \subseteq history'
      /\ bindings \in history
  BY BindingsStep DEF IndInv, Growing
<1>3. ASSUME NEW t \in Scans, t # s, Scanning(t)
      PROVE  Phase(s)'
  <2>1. /\ lastID' \in Nat /\ lastID <= lastID' /\ inspections \subseteq inspections'
    BY <1>1, <1>3 DEF Scanning, Begin, ResolveSides, Insert, Select, Commit, Acknowledge,
                      Fail, CommitLost, tables
  <2>2. /\ scan'[s] = scan[s] /\ pc'[s] = pc[s] /\ began'[s] = began[s]
        /\ hits'[s] = hits[s] /\ iid'[s] = iid[s] /\ view'[s] = view[s]
        /\ answer'[s] = answer[s] /\ known'[s] = known[s]
    BY <1>1, <1>3 DEF Scanning, Begin, ResolveSides, Insert, Select, Commit, Acknowledge,
                      Fail, CommitLost, tables, Goto, TypeOK
  <2> QED
    BY <2>1, <2>2, PhaseStands
<1>4. CASE Book \/ Terminated \/ UNCHANGED vars \/ \E w \in Walkers : StartWalk(w) \/ ReadPage(w)
  <2>1. UNCHANGED <<locals, lastID, inspections>>
    BY <1>4 DEF Book, Terminated, StartWalk, ReadPage, vars, tables, locals
  <2> QED
    BY <1>1, <2>1, PhaseStands DEF locals
<1>5. CASE Begin(s)
  <2>1. pc'[s] = "resolve" /\ scan'[s] \in ScanPairs /\ known'[s] = bindings
    BY <1>1, <1>5 DEF Begin, TypeOK, Goto
  <2>2. UNCHANGED <<bindings, answer>> /\ answer[s] \in {NoAnswer, InternalError}
    BY <1>1, <1>5 DEF Begin, Phase
  <2> QED
    BY <2>1, <2>2 DEF Phase, Resolved, HasID, Viewed
<1>6. CASE ResolveSides(s)
  <2>1. pc'[s] = "insert" /\ hits'[s] = Resolve(bindings, scan[s])
    BY <1>1, <1>6 DEF ResolveSides, TypeOK, Goto
  <2>2. UNCHANGED <<bindings, history, answer, scan, known>> /\ pc[s] = "resolve"
    BY <1>6 DEF ResolveSides, tables
  <2> QED
    BY <1>1, <1>2, <2>1, <2>2 DEF Phase, Resolved, HasID, Viewed
<1>7. CASE Insert(s)
  <2>1. /\ UNCHANGED <<bindings, history, scan, known, hits>>
        /\ pc[s] = "insert"
    BY <1>7 DEF Insert
  <2>2. \/ /\ pc'[s] = "select" /\ iid'[s] = lastID + 1 /\ lastID' = lastID + 1
           /\ UNCHANGED answer
        \/ pc'[s] = "closed" /\ answer'[s] = InternalError
    BY <1>1, <1>7 DEF Insert, TypeOK, Goto
  <2> QED
    BY <1>1, <2>1, <2>2 DEF Phase, Resolved, HasID, Viewed
<1>8. CASE Select(s)
  <2>1. /\ UNCHANGED <<bindings, history, scan, known, hits, iid, lastID, answer>>
        /\ Row(s)' = Row(s)
        /\ pc[s] = "select"
    BY <1>8 DEF Select, tables, Row
  <2>2. pc'[s] = "committing" /\ view'[s] = Summary(Row(s), bindings)
    BY <1>1, <1>8 DEF Select, TypeOK, Goto
  <2> QED
    BY <1>1, <2>1, <2>2 DEF Phase, Resolved, HasID, Viewed
<1>9. CASE Commit(s)
  <2>1. /\ UNCHANGED <<bindings, history, scan, known, hits, iid, lastID, view, answer>>
        /\ Row(s)' = Row(s)
        /\ pc[s] = "committing"
    BY <1>9 DEF Commit, Row
  <2>2. pc'[s] = "committed" /\ Row(s) \in inspections'
    BY <1>1, <1>9 DEF Commit, TypeOK, Goto
  <2> QED
    BY <1>1, <2>1, <2>2 DEF Phase, Resolved, HasID, Viewed
<1>10. CASE Acknowledge(s)
  <2>1. /\ UNCHANGED <<bindings, inspections, history, scan, pc, known, hits, iid, lastID, view>>
        /\ Row(s)' = Row(s)
        /\ pc[s] = "committed"
    BY <1>10 DEF Acknowledge, tables, Row
  <2>2. answer'[s] = view[s]
    BY <1>1, <1>10 DEF Acknowledge, TypeOK
  <2> QED
    BY <1>1, <2>1, <2>2 DEF Phase
<1>11. CASE Fail(s) \/ CommitLost(s)
  <2>1. /\ UNCHANGED <<bindings, inspections, history, scan, known, hits, iid, lastID, view>>
        /\ Row(s)' = Row(s)
        /\ pc[s] # "idle"
    BY <1>11 DEF Fail, CommitLost, tables, Row
  <2>2. pc'[s] \in {pc[s], "closed"} /\ answer'[s] \in {NoAnswer, answer[s], InternalError}
    BY <1>1, <1>11 DEF Fail, CommitLost, TypeOK, Goto
  <2>3. answer'[s] \notin {NoAnswer, InternalError} => pc[s] = "committed" /\ answer'[s] = view[s]
    BY <1>1, <2>2 DEF Phase
  <2>4. pc'[s] = "closed" => pc[s] # "committed"
    BY <1>1, <1>11 DEF Fail, CommitLost, TypeOK, Goto
  <2> QED
    BY <1>1, <2>1, <2>2, <2>3, <2>4 DEF Phase, Resolved, HasID, Viewed
<1> QED
  BY <1>3, <1>4, <1>5, <1>6, <1>7, <1>8, <1>9, <1>10, <1>11 DEF Next, Scanning

\* Records are only added, each by the scan whose row it is.
LEMMA RecordsGrow ==
  ASSUME IndInv, [Next]_vars
  PROVE  \/ UNCHANGED inspections
         \/ \E s \in Scans : /\ pc[s] = "committing" /\ pc'[s] = "committed"
                             /\ inspections' = inspections \cup {Row(s)}
                             /\ UNCHANGED walk
<1>1. TypeOK
  BY DEF IndInv
<1>2. ASSUME NEW s \in Scans, Commit(s)
      PROVE  /\ pc[s] = "committing" /\ pc'[s] = "committed"
             /\ inspections' = inspections \cup {Row(s)}
             /\ UNCHANGED walk
  BY <1>1, <1>2 DEF Commit, Goto, TypeOK
<1>3. ASSUME NEW s \in Scans, Scanning(s), ~ Commit(s)
      PROVE  UNCHANGED inspections
  BY <1>3 DEF Scanning, Begin, ResolveSides, Insert, Select, Acknowledge, Fail, CommitLost, tables
<1>4. CASE Book \/ Terminated \/ UNCHANGED vars \/ \E w \in Walkers : StartWalk(w) \/ ReadPage(w)
  BY <1>4 DEF Book, Terminated, StartWalk, ReadPage, vars, tables
<1> QED
  BY <1>2, <1>3, <1>4 DEF Next

\* No id is drawn twice.
LEMMA IDsStayDistinct ==
  ASSUME IndInv, [Next]_vars, NEW s \in Scans, NEW t \in Scans, s # t,
         pc'[s] \in HasID, pc'[t] \in HasID
  PROVE  iid'[s] # iid'[t]
<1>1. TypeOK /\ lastID \in Nat
  BY InspectionBounds DEF IndInv, TypeOK
<1>2. ASSUME NEW u \in Scans, pc[u] \in HasID
      PROVE  iid[u] \in 1..lastID
  BY <1>2 DEF IndInv, Phases, Phase
<1>3. pc[s] \in HasID /\ pc[t] \in HasID => iid[s] # iid[t]
  BY DEF IndInv, RecordsOfScans
<1>4. ASSUME NEW u \in Scans, Insert(u)
      PROVE  iid'[s] # iid'[t]
  <2>1. CASE UNCHANGED iid /\ Goto(u, "closed")
    BY <1>1, <1>3, <2>1 DEF Goto, TypeOK, HasID
  <2>2. CASE iid' = [iid EXCEPT ![u] = lastID + 1] /\ Goto(u, "select")
    BY <1>1, <1>2, <1>3, <2>2 DEF Goto, TypeOK, HasID
  <2> QED
    BY <1>4, <2>1, <2>2 DEF Insert
<1>5. ASSUME NEW u \in Scans, Scanning(u), ~ Insert(u)
      PROVE  iid'[s] # iid'[t]
  <2>1. UNCHANGED iid
    BY <1>5 DEF Scanning, Begin, ResolveSides, Select, Commit, Acknowledge, Fail, CommitLost
  <2>2. \A v \in Scans : pc'[v] \in HasID => pc[v] \in HasID
    BY <1>1, <1>5 DEF Scanning, Begin, ResolveSides, Select, Commit, Acknowledge, Fail,
                      CommitLost, Goto, TypeOK, HasID, tables
  <2> QED
    BY <1>3, <2>1, <2>2
<1>6. CASE Book \/ Terminated \/ UNCHANGED vars \/ \E w \in Walkers : StartWalk(w) \/ ReadPage(w)
  BY <1>3, <1>6 DEF Book, Terminated, StartWalk, ReadPage, vars, locals
<1> QED
  BY <1>4, <1>5, <1>6 DEF Next

\* Every record goes on being the row of one scan.
LEMMA RecordsStep == IndInv /\ [Next]_vars => RecordsOfScans'
<1> SUFFICES ASSUME IndInv, [Next]_vars
             PROVE  RecordsOfScans'
  OBVIOUS
<1>1. IsFiniteSet(inspections')
  <2>1. IsFiniteSet(inspections)
    BY DEF IndInv, RecordsOfScans
  <2> QED
    BY <2>1, RecordsGrow, FS_AddElement
<1>2. ASSUME NEW i \in inspections'
      PROVE  \E s \in Scans : pc'[s] = "committed" /\ i = Row(s)'
  <2>1. CASE i \in inspections
    <3>1. PICK s \in Scans : pc[s] = "committed" /\ i = Row(s)
      BY <2>1 DEF IndInv, RecordsOfScans
    <3> QED
      BY <3>1, RowStands DEF HasID
  <2>2. CASE i \notin inspections
    <3>1. PICK s \in Scans : pc[s] = "committing" /\ pc'[s] = "committed" /\ i = Row(s)
      BY <1>2, <2>2, RecordsGrow
    <3> QED
      BY <3>1, RowStands DEF HasID
  <2> QED
    BY <2>1, <2>2
<1> QED
  BY <1>1, <1>2, IDsStayDistinct DEF RecordsOfScans

-----------------------------------------------------------------------------
(* Walks.                                                                   *)

\* Every step keeps what a walk has collected apart from what it has not.
LEMMA WalkingStep == IndInv /\ [Next]_vars => Walking' /\ WalkNeitherRepeatsNorLoses'
<1> SUFFICES ASSUME IndInv, [Next]_vars
             PROVE  Walking' /\ WalkNeitherRepeatsNorLoses'
  OBVIOUS
<1>1. walk \in [Walkers -> Walks]
  BY DEF IndInv, TypeOK
<1>2. Walking /\ WalkNeitherRepeatsNorLoses
  BY DEF IndInv
<1>3. CASE UNCHANGED walk
  <2>1. inspections \subseteq inspections'
    BY RecordsGrow
  <2>2. \A t : Hitting(inspections, t) \subseteq Hitting(inspections', t)
    BY <2>1 DEF Hitting
  <2>3. Walking'
    BY <1>2, <1>3, <2>1, <2>2 DEF Walking
  <2>4. WalkNeitherRepeatsNorLoses'
    BY <1>2, <1>3 DEF WalkNeitherRepeatsNorLoses
  <2> QED
    BY <2>3, <2>4
<1>4. ASSUME NEW w \in Walkers, StartWalk(w)
      PROVE  Walking' /\ WalkNeitherRepeatsNorLoses'
  <2>1. PICK b \in bindings, n \in 1..MaxLimit :
          /\ walk' = [walk EXCEPT ![w] = walk'[w]]
          /\ walk'[w] = [state |-> "open", target |-> b.binding_id, limit |-> n,
                         before |-> NoID, collected |-> {}, delivered |-> 0,
                         owed |-> Hitting(inspections, b.binding_id)]
          /\ UNCHANGED <<tables, locals, history>>
    BY <1>4, StartWalkWrites
  <2>2. \A v \in Walkers \ {w} : walk'[v] = walk[v]
    BY <1>1, <2>1
  <2>3. UNCHANGED inspections /\ n # 0
    BY <2>1, InspectionBounds DEF tables
  <2>4. Walking'
    BY <1>2, <2>1, <2>2, <2>3 DEF Walking
  <2>5. WalkNeitherRepeatsNorLoses'
    <3>1. /\ walk'[w].delivered = Cardinality(walk'[w].collected)
          /\ walk'[w].state = "open" /\ walk'[w].before = NoID
      BY <2>1, FS_EmptySet
    <3>2. \A v \in Walkers : v = w \/ walk'[v] = walk[v]
      BY <2>2
    <3> QED
      BY <1>2, <3>1, <3>2 DEF WalkNeitherRepeatsNorLoses
  <2> QED
    BY <2>4, <2>5
<1>5. ASSUME NEW w \in Walkers, ReadPage(w)
      PROVE  Walking' /\ WalkNeitherRepeatsNorLoses'
  <2> DEFINE k == walk[w]
             p == Page(inspections, k.target, k.before, k.limit)
             want == Below(Hitting(inspections, k.target), k.before)
  <2>1. /\ k \in Walks
        /\ p.entries \subseteq want
        /\ IsFiniteSet(p.entries)
        /\ \A i \in p.entries, j \in want \ p.entries : i.inspection_id > j.inspection_id
        /\ IF want \ p.entries = {} THEN p.next_cursor = NoID
           ELSE /\ p.next_cursor \in Nat
                /\ \E o \in p.entries : p.next_cursor = o.inspection_id
                /\ \A i \in p.entries : p.next_cursor <= i.inspection_id
    BY <1>5, ReadPageReads
  <2>2. /\ k.state = "open"
        /\ walk' = [walk EXCEPT ![w] = walk'[w]]
        /\ walk'[w] = [state     |-> IF p.next_cursor = NoID THEN "done" ELSE "open",
                       target    |-> k.target,
                       limit     |-> k.limit,
                       before    |-> p.next_cursor,
                       collected |-> k.collected \cup p.entries,
                       delivered |-> k.delivered + Cardinality(p.entries),
                       owed      |-> k.owed]
        /\ UNCHANGED <<tables, locals, history>>
    BY <1>5, ReadPageWrites
  <2>3. /\ k.collected \subseteq inspections
        /\ k.owed \subseteq Hitting(inspections, k.target)
        /\ k.limit # 0
        /\ IF k.before = NoID THEN k.collected = {}
           ELSE \A i \in k.collected : i.inspection_id >= k.before
    BY <1>2, <2>2 DEF Walking
  <2>4. /\ k.delivered = Cardinality(k.collected)
        /\ \A i \in k.owed \ k.collected :
             IF k.before = NoID THEN TRUE ELSE i.inspection_id < k.before
    BY <1>2 DEF WalkNeitherRepeatsNorLoses
  <2>5. Table(inspections) /\ IsFiniteSet(k.collected)
    BY <2>3, InspectionsAreATable, SubTable DEF Table
  <2>6. UNCHANGED inspections /\ \A v \in Walkers \ {w} : walk'[v] = walk[v]
    BY <1>1, <2>2 DEF tables
  <2>7. k.before \in Nat \cup {NoID}
    BY <2>1 DEF Walks
  <2>8. want = {i \in Hitting(inspections, k.target) :
                  IF k.before = NoID THEN TRUE ELSE i.inspection_id < k.before}
    BY DEF Below
  <2>9. want \subseteq inspections /\ \A i \in inspections : i.inspection_id \in Nat
    BY <2>5, <2>8 DEF Hitting, Table
  <2> HIDE DEF k, p, want
  <2>10. k.collected \cap p.entries = {}
    BY <2>1, <2>3, <2>7, <2>8, <2>9
  <2>11. walk'[w].delivered = Cardinality(walk'[w].collected)
    <3>1. /\ Cardinality(k.collected \cup p.entries)
               = Cardinality(k.collected) + Cardinality(p.entries)
                 - Cardinality(k.collected \cap p.entries)
          /\ Cardinality(k.collected) \in Nat /\ Cardinality(p.entries) \in Nat
      BY <2>1, <2>5, FS_Union, FS_CardinalityType
    <3>2. Cardinality(k.collected \cap p.entries) = 0
      BY <2>10, FS_EmptySet
    <3> QED
      BY <2>2, <2>4, <3>1, <3>2
  <2>12. ASSUME NEW i \in k.owed \ (k.collected \cup p.entries)
         PROVE  /\ p.next_cursor # NoID
                /\ i.inspection_id < p.next_cursor
    <3>1. i \in want \ p.entries
      BY <2>3, <2>4, <2>8, <2>12
    <3> QED
      BY <2>1, <3>1, IDAssumption
  <2>13. p.next_cursor # NoID =>
           \A i \in k.collected \cup p.entries : i.inspection_id >= p.next_cursor
    <3> SUFFICES ASSUME p.next_cursor # NoID, NEW i \in k.collected, k.before # NoID
                 PROVE  i.inspection_id >= p.next_cursor
      BY <2>1, <2>3, <2>9
    <3>1. PICK o \in p.entries : p.next_cursor = o.inspection_id
      BY <2>1
    <3>2. o.inspection_id < k.before /\ o.inspection_id \in Nat
      BY <2>1, <2>8, <2>9, <3>1
    <3>3. i.inspection_id >= k.before /\ i.inspection_id \in Nat
      BY <2>3, <2>9
    <3> QED
      BY <2>7, <3>1, <3>2, <3>3
  <2>14. Walking'
    <3>1. \A v \in Walkers : v = w \/ walk'[v] = walk[v]
      BY <2>6
    <3>2. /\ walk'[w].collected \subseteq inspections
          /\ walk'[w].owed \subseteq Hitting(inspections, walk'[w].target)
          /\ walk'[w].state # "idle" /\ walk'[w].limit # 0
          /\ walk'[w].state = "open" =>
               IF walk'[w].before = NoID THEN walk'[w].collected = {}
               ELSE \A i \in walk'[w].collected : i.inspection_id >= walk'[w].before
      BY <2>1, <2>2, <2>3, <2>9, <2>13
    <3> QED
      BY <1>2, <2>6, <3>1, <3>2 DEF Walking
  <2>15. WalkNeitherRepeatsNorLoses'
    <3>1. \A i \in walk'[w].owed \ walk'[w].collected :
            /\ walk'[w].state = "open"
            /\ IF walk'[w].before = NoID THEN TRUE ELSE i.inspection_id < walk'[w].before
      BY <2>2, <2>12
    <3> QED
      BY <1>2, <2>6, <2>11, <3>1 DEF WalkNeitherRepeatsNorLoses
  <2> QED
    BY <2>14, <2>15
<1>6. \/ UNCHANGED walk
      \/ \E w \in Walkers : StartWalk(w) \/ ReadPage(w)
  BY DEF Next, Scanning, Book, Begin, ResolveSides, Insert, Select, Commit, Acknowledge, Fail,
         CommitLost, Terminated, vars
<1> QED
  BY <1>3, <1>4, <1>5, <1>6

-----------------------------------------------------------------------------
(* Theorems.                                                                *)

\* An empty database satisfies the invariant.
LEMMA InitIndInv == Init => IndInv
<1> SUFFICES ASSUME Init
             PROVE  IndInv
  OBVIOUS
<1> USE InspectionBounds
<1>1. TypeOK
  <2>1. NotWalking \in Walks
    BY DEF NotWalking, Walks
  <2>2. NoHits \in Hits
    BY DEF NoHits, Hits
  <2> QED
    BY <2>1, <2>2 DEF Init, TypeOK
<1>2. OneToOne /\ Growing
  BY DEF Init, OneToOne, Growing
<1>3. Phases
  BY DEF Init, Phases, Phase, Resolved, HasID, Viewed
<1>4. RecordsOfScans
  BY FS_EmptySet DEF Init, RecordsOfScans, HasID
<1>5. Walking /\ WalkNeitherRepeatsNorLoses
  BY FS_EmptySet DEF Init, Walking, WalkNeitherRepeatsNorLoses, NotWalking
<1> QED
  BY <1>1, <1>2, <1>3, <1>4, <1>5 DEF IndInv

\* The inductive invariant holds for all scans and walks.
THEOREM IndInvariant == Spec => []IndInv
<1>1. Init => IndInv
  BY InitIndInv
<1>2. IndInv /\ [Next]_vars => IndInv'
  BY TypeStep, BindingsStep, PhasesStep, RecordsStep, WalkingStep DEF IndInv
<1> QED
  BY <1>1, <1>2, PTL DEF Spec

\* Type correctness, for every sequence and every page size.
THEOREM TypeInvariant == Spec => []TypeOK
<1>1. IndInv => TypeOK
  BY DEF IndInv
<1> QED
  BY <1>1, IndInvariant, PTL

\* What the LATERAL sub-selects find of a one-to-one table is its only row.
LEMMA ResolvedSide ==
  ASSUME NEW S \in SUBSET Bindings, \A b, c \in S : b = c
  PROVE  /\ {b.binding_id : b \in S} = {IDOf(S)} \ {NoID}
         /\ IDOf(S) = NoID <=> S = {}
<1>1. CASE S = {}
  BY <1>1 DEF IDOf
<1>2. CASE S # {}
  <2>1. PICK b \in S : S = {b}
    BY <1>2
  <2>2. (CHOOSE x \in S : TRUE) = b
    BY <2>1
  <2>3. IDOf(S) = b.binding_id /\ b.binding_id # NoID
    BY <2>1, <2>2, IDAssumption DEF IDOf, Bindings
  <2> QED
    BY <2>1, <2>3
<1> QED
  BY <1>1, <1>2

\* Every verdict was the truth of one instant of its scan (store.go:335-339).
THEOREM VerdictInvariant == Spec => []VerdictOfOneInstant
<1>1. ASSUME IndInv, NEW i \in inspections
      PROVE  \E s \in Scans : \E rows \in history :
               /\ pc[s] = "committed" /\ i = Row(s)
               /\ known[s] \subseteq rows
               /\ i.result = Expected(rows, i)
               /\ {b.binding_id : b \in {x \in rows : x.chip_uid = i.chip_uid}}
                    = {i.chip_binding_id} \ {NoID}
               /\ {b.binding_id : b \in {x \in rows : x.board_serial = i.board_serial}}
                    = {i.board_binding_id} \ {NoID}
  <2>1. PICK s \in Scans : pc[s] = "committed" /\ i = Row(s)
    BY <1>1 DEF IndInv, RecordsOfScans
  <2>2. PICK rows \in history : known[s] \subseteq rows /\ hits[s] = Resolve(rows, scan[s])
    BY <1>1, <2>1 DEF IndInv, Phases, Phase, Resolved
  <2>3. /\ rows \in SUBSET Bindings
        /\ \A b, c \in rows : \/ b = c
                              \/ /\ b.binding_id # c.binding_id
                                 /\ b.chip_uid # c.chip_uid
                                 /\ b.board_serial # c.board_serial
    BY <1>1 DEF IndInv, TypeOK, Growing, OneToOne
  <2> DEFINE C == {x \in rows : x.chip_uid = i.chip_uid}
             B == {x \in rows : x.board_serial = i.board_serial}
  <2>4. /\ C \in SUBSET Bindings /\ \A b, c \in C : b = c
        /\ B \in SUBSET Bindings /\ \A b, c \in B : b = c
        /\ \A b \in C, c \in B : b = c \/ b.binding_id # c.binding_id
    BY <2>3
  <2>5. /\ i.chip_uid = scan[s].chip_uid /\ i.board_serial = scan[s].board_serial
        /\ i.result = Verdict(hits[s].chip, hits[s].board)
        /\ i.chip_binding_id = hits[s].chip /\ i.board_binding_id = hits[s].board
    BY <2>1 DEF Row
  <2>6. hits[s].chip = IDOf(C) /\ hits[s].board = IDOf(B)
    BY <2>2, <2>5 DEF Resolve
  <2>7. Expected(rows, i) = IF C = {} /\ B = {} THEN "UNREGISTERED"
                            ELSE IF C = {} \/ B = {} THEN "PARTIAL"
                            ELSE IF C = B THEN "CONSISTENT" ELSE "MISMATCH"
    BY DEF Expected
  <2> HIDE DEF C, B
  <2>8. /\ {b.binding_id : b \in C} = {IDOf(C)} \ {NoID} /\ (IDOf(C) = NoID <=> C = {})
        /\ {b.binding_id : b \in B} = {IDOf(B)} \ {NoID} /\ (IDOf(B) = NoID <=> B = {})
    BY <2>4, ResolvedSide
  <2>9. C # {} /\ B # {} => (C = B <=> IDOf(C) = IDOf(B))
    <3> SUFFICES ASSUME C # {}, B # {}, IDOf(C) = IDOf(B)
                 PROVE  C = B
      OBVIOUS
    <3>1. PICK b \in C, c \in B : C = {b} /\ B = {c}
      BY <2>4
    <3>2. b.binding_id = IDOf(C) /\ c.binding_id = IDOf(B)
      BY <2>8, <3>1
    <3> QED
      BY <2>4, <3>1, <3>2
  <2>10. i.result = Expected(rows, i)
    BY <2>5, <2>6, <2>7, <2>8, <2>9 DEF Verdict
  <2>11. /\ {b.binding_id : b \in C} = {i.chip_binding_id} \ {NoID}
         /\ {b.binding_id : b \in B} = {i.board_binding_id} \ {NoID}
    BY <2>5, <2>6, <2>8
  <2>12. /\ pc[s] = "committed" /\ i = Row(s)
         /\ known[s] \subseteq rows
         /\ i.result = Expected(rows, i)
         /\ {b.binding_id : b \in {x \in rows : x.chip_uid = i.chip_uid}}
              = {i.chip_binding_id} \ {NoID}
         /\ {b.binding_id : b \in {x \in rows : x.board_serial = i.board_serial}}
              = {i.board_binding_id} \ {NoID}
    BY <2>1, <2>2, <2>10, <2>11, Zenon DEF C, B
  <2> QED
    BY <2>12, Zenon
<1>2. IndInv => VerdictOfOneInstant
  BY <1>1 DEF VerdictOfOneInstant
<1> QED
  BY <1>2, IndInvariant, PTL

\* A record reads back as it was answered, whatever was bound since
\* (types.go:140-143).
THEOREM ReadBackInvariant == Spec => []ReadsBackUnchanged
<1>1. ASSUME IndInv, NEW s \in Scans, answer[s] \notin {NoAnswer, InternalError}
      PROVE  \E i \in inspections : /\ i.inspection_id = iid[s]
                                    /\ Summary(i, bindings) = answer[s]
  <2>1. pc[s] = "committed" /\ answer[s] = view[s]
    BY <1>1 DEF IndInv, Phases, Phase
  <2>2. Row(s) \in inspections /\ view[s] = Summary(Row(s), bindings)
    BY <1>1, <2>1 DEF IndInv, Phases, Phase, Viewed
  <2>3. Row(s).inspection_id = iid[s]
    BY <1>1, <2>1, RowType DEF HasID
  <2> QED
    BY <2>1, <2>2, <2>3
<1>2. IndInv => ReadsBackUnchanged
  BY <1>1 DEF ReadsBackUnchanged
<1> QED
  BY <1>2, IndInvariant, PTL

\* Every page of every table the service can reach is exact (store.go:547-557).
THEOREM PageInvariant == Spec => []PageIsExact
<1>1. IndInv => PageIsExact
  BY InspectionsAreATable, PagesExact, InspectionBounds DEF PageIsExact
<1> QED
  BY <1>1, IndInvariant, PTL

\* Only finitely many bindings are ever made.
LEMMA BindingsFinite == Spec => []IsFiniteSet(bindings)
<1>1. Init => IsFiniteSet(bindings)
  BY FS_EmptySet DEF Init
<1>2. ASSUME IsFiniteSet(bindings), [Next]_vars
      PROVE  IsFiniteSet(bindings)'
  <2>1. bindings' = bindings \/ \E b \in Bindings : bindings' = bindings \cup {b}
    BY <1>2 DEF Next, Scanning, Book, Begin, ResolveSides, Insert, Select, Commit,
                Acknowledge, Fail, CommitLost, StartWalk, ReadPage, Terminated, tables, vars
  <2> QED
    BY <1>2, <2>1, FS_AddElement
<1> QED
  BY <1>1, <1>2, PTL DEF Spec

\* The records are what PeersExact is about: a result that follows from two
\* foreign keys.
LEMMA InspectionsAreDecided ==
  ASSUME IndInv, IsFiniteSet(bindings)
  PROVE  Decided(inspections, bindings)
<1>1. Table(inspections) /\ NoID \notin Nat /\ \A b \in bindings : b.binding_id \in Nat
  BY InspectionsAreATable, IDAssumption DEF IndInv, TypeOK, Bindings
<1>2. ASSUME NEW rows \in history, NEW p
      PROVE  /\ Resolve(rows, p).chip \in {b.binding_id : b \in bindings} \cup {NoID}
             /\ Resolve(rows, p).board \in {b.binding_id : b \in bindings} \cup {NoID}
  <2>1. rows \subseteq bindings
    BY DEF IndInv, Growing
  <2>2. ASSUME NEW S \in SUBSET rows
        PROVE  IDOf(S) \in {b.binding_id : b \in bindings} \cup {NoID}
    BY <2>1 DEF IDOf
  <2>3. Resolve(rows, p) = [chip  |-> IDOf({b \in rows : b.chip_uid = p.chip_uid}),
                            board |-> IDOf({b \in rows : b.board_serial = p.board_serial})]
    BY DEF Resolve
  <2>4. /\ IDOf({b \in rows : b.chip_uid = p.chip_uid}) \in {b.binding_id : b \in bindings} \cup {NoID}
        /\ IDOf({b \in rows : b.board_serial = p.board_serial}) \in {b.binding_id : b \in bindings} \cup {NoID}
    BY <2>2
  <2> QED
    BY <2>3, <2>4
<1>3. ASSUME NEW i \in inspections
      PROVE  /\ i.chip_binding_id \in {b.binding_id : b \in bindings} \cup {NoID}
             /\ i.board_binding_id \in {b.binding_id : b \in bindings} \cup {NoID}
             /\ i.result = Verdict(i.chip_binding_id, i.board_binding_id)
  <2>1. PICK s \in Scans : pc[s] = "committed" /\ i = Row(s)
    BY DEF IndInv, RecordsOfScans
  <2>2. PICK rows \in history : hits[s] = Resolve(rows, scan[s])
    BY <2>1 DEF IndInv, Phases, Phase, Resolved
  <2>3. /\ i.chip_binding_id = hits[s].chip
        /\ i.board_binding_id = hits[s].board
        /\ i.result = Verdict(hits[s].chip, hits[s].board)
    BY <2>1 DEF Row
  <2> QED
    BY <1>2, <2>2, <2>3
<1> QED
  BY <1>1, <1>3 DEF Decided

PeersAreExact == \A t, n \in Nat : ExactPeers(inspections, bindings, t, n)

\* Every list of peers anybody could ask for is exact, in every table the
\* service can reach (store.go:467-474).
THEOREM PeersInvariant == Spec => []PeersAreExact
<1>1. IndInv /\ IsFiniteSet(bindings) => PeersAreExact
  BY InspectionsAreDecided, PeersExact DEF PeersAreExact
<1> QED
  BY <1>1, IndInvariant, BindingsFinite, PTL

\* No walk repeats a record or loses one that was there when it began
\* (store.go:555-557).
THEOREM WalkInvariant == Spec => []WalkNeitherRepeatsNorLoses
<1>1. IndInv => WalkNeitherRepeatsNorLoses
  BY DEF IndInv
<1> QED
  BY <1>1, IndInvariant, PTL

\* The cursors of a walk strictly descend (store.go:636-645).
THEOREM CursorDescendsHolds == Spec => CursorDescends
<1>1. ASSUME IndInv, [Next]_vars, NEW w \in Walkers,
             walk'[w] # walk[w], walk[w].state = "open", walk'[w].state = "open"
      PROVE  /\ walk'[w].before # NoID
             /\ walk[w].before # NoID => walk'[w].before < walk[w].before
  <2>1. ReadPage(w)
    <3>1. walk \in [Walkers -> Walks]
      BY <1>1 DEF IndInv, TypeOK
    <3>2. \E v \in Walkers : StartWalk(v) \/ ReadPage(v)
      BY <1>1 DEF Next, Scanning, Book, Begin, ResolveSides, Insert, Select, Commit,
                  Acknowledge, Fail, CommitLost, Terminated, vars
    <3>3. PICK v \in Walkers : StartWalk(v) \/ ReadPage(v)
      BY <3>2
    <3>4. v = w
      BY <1>1, <3>1, <3>3 DEF StartWalk, ReadPage
    <3> QED
      BY <1>1, <3>3, <3>4 DEF StartWalk
  <2> DEFINE k == walk[w]
             p == Page(inspections, k.target, k.before, k.limit)
             want == Below(Hitting(inspections, k.target), k.before)
  <2>2. /\ k \in Walks
        /\ p.entries \subseteq want
        /\ p.next_cursor = NoID \/ \E o \in p.entries : p.next_cursor = o.inspection_id
    BY <1>1, <2>1, ReadPageReads
  <2>3. walk'[w].before = p.next_cursor /\ p.next_cursor # NoID
    <3>1. walk'[w] = [state     |-> IF p.next_cursor = NoID THEN "done" ELSE "open",
                      target    |-> k.target,
                      limit     |-> k.limit,
                      before    |-> p.next_cursor,
                      collected |-> k.collected \cup p.entries,
                      delivered |-> k.delivered + Cardinality(p.entries),
                      owed      |-> k.owed]
      BY <1>1, <2>1, ReadPageWrites
    <3> HIDE DEF k, p
    <3> QED
      BY <1>1, <3>1
  <2>4. \A i \in want : k.before # NoID => i.inspection_id < k.before
    BY DEF Below
  <2> HIDE DEF p, want
  <2> QED
    BY <1>1, <2>2, <2>3, <2>4
<1>2. IndInv /\ [Next]_vars =>
        [\A w \in Walkers :
           LET k == walk[w]
               next == walk'[w]
           IN  (next # k /\ k.state = "open" /\ next.state = "open") =>
                 /\ next.before # NoID
                 /\ k.before # NoID => next.before < k.before]_vars
  BY <1>1
<1> QED
  BY <1>2, IndInvariant, PTL DEF Spec, CursorDescends
=============================================================================
