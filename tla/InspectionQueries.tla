-------------------------- MODULE InspectionQueries --------------------------
(***************************************************************************)
(* The statements of store.go that decide and report inspections, each as  *)
(* an operator on the rows its snapshot holds.  A set of rows with ORDER   *)
(* BY id DESC LIMIT n is the set of its n greatest ids.                    *)
(***************************************************************************)
EXTENDS Naturals, FiniteSets

CONSTANT NoID          \* SQL NULL, a nil *int64, an absent before_id

-----------------------------------------------------------------------------
(* Deciding.                                                                *)

\* chip_uid and board_serial are unique: a LATERAL sub-select has at most one row.
IDOf(rows) == IF rows = {} THEN NoID ELSE (CHOOSE b \in rows : TRUE).binding_id

\* resolveInspectionSQL: both sides in one statement.
Resolve(bindings, scan) ==
  [chip  |-> IDOf({b \in bindings : b.chip_uid = scan.chip_uid}),
   board |-> IDOf({b \in bindings : b.board_serial = scan.board_serial})]

\* Mutant: a chip without a binding is taken for the board's.
VerdictByBoard(chip, board) ==
  CASE board # NoID /\ chip \in {board, NoID}  -> "CONSISTENT"
    [] chip # NoID /\ board # NoID             -> "MISMATCH"
    [] chip # NoID                             -> "PARTIAL"
    [] OTHER                                   -> "UNREGISTERED"

Verdict(chip, board) ==
  CASE chip # NoID /\ board # NoID /\ chip = board -> "CONSISTENT"
    [] chip # NoID /\ board # NoID /\ chip # board -> "MISMATCH"
    [] chip = NoID /\ board = NoID                 -> "UNREGISTERED"
    [] OTHER                                       -> "PARTIAL"

\* Mutant: the summary is looked up by the scanned identifier.
SummaryByScan(i, bindings) ==
  [inspection    |-> i,
   chip_binding  |-> {b \in bindings : b.chip_uid = i.chip_uid},
   board_binding |-> {b \in bindings : b.board_serial = i.board_serial}]

\* selectInspectionSQL: the stored record and the binding of each stored id.
Summary(i, bindings) ==
  [inspection    |-> i,
   chip_binding  |-> {b \in bindings : b.binding_id = i.chip_binding_id},
   board_binding |-> {b \in bindings : b.binding_id = i.board_binding_id}]

-----------------------------------------------------------------------------
(* One page of the history of a binding.                                    *)

Newer(i, rows) == {j \in rows : j.inspection_id > i.inspection_id}

\* ORDER BY id DESC LIMIT n
Top(n, rows) == {i \in rows : Cardinality(Newer(i, rows)) < n}

\* Mutant: the cursor is an inclusive bound.
BelowInclusive(rows, before) ==
  {i \in rows : before = NoID \/ i.inspection_id <= before}

\* $2::bigint IS NULL OR i.id < $2
Below(rows, before) == {i \in rows : IF before = NoID THEN TRUE ELSE i.inspection_id < before}

\* Mutant: only the chip side is bounded by the full limit.
HistoryRowsShort(rows, target, before, n) ==
  Top(n, Top(n, Below({i \in rows : i.chip_binding_id = target}, before))
         \cup Top(n - 1, Below({i \in rows : i.board_binding_id = target}, before)))

\* bindingInspectionsSQL: one bounded branch per side; UNION ALL with DISTINCT
\* ON the id keeps a record once that is in both.
HistoryRows(rows, target, before, n) ==
  Top(n, Top(n, Below({i \in rows : i.chip_binding_id = target}, before))
         \cup Top(n, Below({i \in rows : i.board_binding_id = target}, before)))

OldestID(rows) ==
  (CHOOSE i \in rows : \A j \in rows : i.inspection_id <= j.inspection_id).inspection_id

\* Mutant: the look-ahead row is asked for but its id becomes the cursor.
PageSkippingOne(rows, target, before, limit) ==
  LET read    == HistoryRows(rows, target, before, limit + 1)
      entries == Top(limit, read)
  IN  [entries     |-> entries,
       next_cursor |-> IF Cardinality(read) > limit THEN OldestID(read) ELSE NoID]

\* GetBindingInspections asks for one row more than the page holds: it proves
\* that an older one exists and stays out.
Page(rows, target, before, limit) ==
  LET read    == HistoryRows(rows, target, before, limit + 1)
      entries == Top(limit, read)
  IN  [entries     |-> entries,
       next_cursor |-> IF Cardinality(read) > limit /\ entries # {}
                       THEN OldestID(entries) ELSE NoID]

HitSide(i, target) ==
  CASE i.chip_binding_id = target /\ i.board_binding_id = target -> "both"
    [] i.chip_binding_id = target /\ i.board_binding_id # target -> "chip"
    [] OTHER                                                     -> "board"

-----------------------------------------------------------------------------
(* Mismatch peers.                                                          *)

MaxOf(S) == CHOOSE x \in S : \A y \in S : y <= x

\* Mutant: every verdict on two bindings counts, CONSISTENT too.
ImplicatingAll(rows, target) ==
  {i \in rows : /\ i.chip_binding_id # NoID /\ i.board_binding_id # NoID
                /\ i.chip_binding_id = target \/ i.board_binding_id = target}

\* The WHERE clause, and the CASE that names the other side.
Implicating(rows, target) ==
  {i \in rows : /\ i.result = "MISMATCH"
                /\ i.chip_binding_id = target \/ i.board_binding_id = target}

PeerID(i, target) ==
  IF i.chip_binding_id = target THEN i.board_binding_id ELSE i.chip_binding_id

\* GROUP BY the peer
PeerStats(rows, target) ==
  LET group(p) == {i \in Implicating(rows, target) : PeerID(i, target) = p}
  IN  {[peer               |-> p,
        occurrences        |-> Cardinality(group(p)),
        last_inspection_id |-> MaxOf({i.inspection_id : i \in group(p)}),
        last_occurred_at   |-> MaxOf({i.created_at : i \in group(p)})] :
         p \in {PeerID(i, target) : i \in Implicating(rows, target)}}

\* ORDER BY occurrences DESC, last_inspection_id DESC, peer_id ASC
Before(p, q) ==
  \/ p.occurrences > q.occurrences
  \/ p.occurrences = q.occurrences /\ p.last_inspection_id > q.last_inspection_id
  \/ /\ p.occurrences = q.occurrences
     /\ p.last_inspection_id = q.last_inspection_id
     /\ p.peer < q.peer

\* LIMIT cuts the groups, then JOIN bindings would drop a peer without a row.
Peers(rows, bindings, target, limit) ==
  LET stats == PeerStats(rows, target)
  IN  {p \in stats : /\ Cardinality({q \in stats : Before(q, p)}) < limit
                     /\ \E b \in bindings : b.binding_id = p.peer}

-----------------------------------------------------------------------------
(* What the statements are for.                                             *)

Hitting(rows, target) ==
  {i \in rows : i.chip_binding_id = target \/ i.board_binding_id = target}

\* The page holds the newest limit records of either side below the cursor,
\* each once, and has a next_cursor, the id of its oldest record, exactly when
\* there is an older one (store.go:547-557, 636-645).
ExactPage(rows, target, before, limit) ==
  LET page == Page(rows, target, before, limit)
      want == Below(Hitting(rows, target), before)
      rest == want \ page.entries
  IN  /\ page.entries \subseteq want
      /\ \A i \in page.entries, j \in rest : i.inspection_id > j.inspection_id
      /\ rest # {} => Cardinality(page.entries) = limit
      /\ page.next_cursor = IF rest = {} THEN NoID ELSE OldestID(page.entries)

\* The records of a MISMATCH between two bindings, whichever side was which.
Shared(rows, t, p) ==
  {i \in rows : /\ i.result = "MISMATCH"
                /\ {i.chip_binding_id, i.board_binding_id} = {t, p}}

\* The peers of a binding are the other bindings it shares a MISMATCH with,
\* counted once per record, and the cut at the limit keeps the most frequent
\* and loses no more than it must (store.go:467-474).
ExactPeers(rows, bindings, t, limit) ==
  LET peers == {p \in {x.binding_id : x \in bindings} \ {t} : Shared(rows, t, p) # {}}
      all   == Peers(rows, bindings, t, Cardinality(bindings))
      cut   == Peers(rows, bindings, t, limit)
  IN  /\ {r.peer : r \in all} = peers
      /\ \A r \in all : r.occurrences = Cardinality(Shared(rows, t, r.peer))
      /\ cut \subseteq all
      /\ Cardinality(cut) = IF Cardinality(peers) < limit THEN Cardinality(peers) ELSE limit
      /\ \A r \in cut, q \in all \ cut : r.occurrences >= q.occurrences
=============================================================================
