----------------------------- MODULE Inspections -----------------------------
(***************************************************************************)
(* Physical verifications: POST /api/v1/inspections statement by statement *)
(* under READ COMMITTED, and the supervisor who walks the pages of         *)
(* GET /api/v1/bindings/{id}/inspections, each page one REPEATABLE READ    *)
(* snapshot.  Bindings appear while both are at work; what a create does   *)
(* to them is BindingStore's business, here a binding is just booked, one  *)
(* to one, at an instant (BindingLedger).                                  *)
(*                                                                         *)
(* inspections.id is drawn from a sequence by the INSERT, created_at is    *)
(* now(), the instant the transaction began, and the row is visible from   *)
(* COMMIT on: three orders, and nothing keeps them equal.                  *)
(***************************************************************************)
EXTENDS InspectionQueries

CONSTANTS Scans,         \* deliveries of POST /inspections
          Walkers,       \* supervisors paging through a history
          Chips, Boards,
          BindingIDs,    \* the identifiers bindings may get
          MaxInspection, \* last value of the BIGSERIAL sequence of inspections.id
          MaxLimit,      \* largest page a walker asks for
          NoScan, NoAnswer,
          InternalError  \* the 500 envelope

ASSUME InspectionBounds == MaxInspection \in Nat /\ MaxLimit \in Nat \ {0}
ASSUME IDAssumption     == BindingIDs \subseteq Nat /\ NoID \notin Nat

VARIABLES bindings,      \* committed rows of table bindings
          inspections,   \* committed rows of table inspections
          lastID,        \* inspections_id_seq
          clock,         \* the database clock, one tick per BEGIN
          scan, pc, began, hits, iid, view, answer,   \* one transaction per scan
          walk,          \* where each walker is
          history,       \* every content table bindings has had
          known          \* what was bound when the scan's transaction began

tables  == <<bindings, inspections, lastID, clock>>
locals  == <<scan, pc, began, hits, iid, view, answer, known>>
vars    == <<tables, locals, walk, history>>

ScanPairs == [chip_uid : Chips, board_serial : Boards]

Bindings == [binding_id : BindingIDs, chip_uid : Chips, board_serial : Boards]

Records ==
  [inspection_id : 1..MaxInspection, chip_uid : Chips, board_serial : Boards,
   result : {"CONSISTENT", "MISMATCH", "PARTIAL", "UNREGISTERED"},
   chip_binding_id : BindingIDs \cup {NoID}, board_binding_id : BindingIDs \cup {NoID},
   created_at : Nat]

Alive(s) == answer[s] = NoAnswer

Hits == [chip : BindingIDs \cup {NoID}, board : BindingIDs \cup {NoID}]

NoHits == [chip |-> NoID, board |-> NoID]

\* The row that the transaction of s inserts.
Row(s) == [inspection_id    |-> iid[s],
           chip_uid         |-> scan[s].chip_uid,
           board_serial     |-> scan[s].board_serial,
           result           |-> Verdict(hits[s].chip, hits[s].board),
           chip_binding_id  |-> hits[s].chip,
           board_binding_id |-> hits[s].board,
           created_at       |-> began[s]]

\* What a 201 or GET /inspections/{id} shows.
Views == [inspection : Records, chip_binding : SUBSET Bindings,
          board_binding : SUBSET Bindings]

Walks == [state : {"idle", "open", "done"}, target : BindingIDs \cup {NoID},
          limit : 0..MaxLimit, before : Nat \cup {NoID},
          collected : SUBSET Records, delivered : Nat, owed : SUBSET Records]

NotWalking == [state |-> "idle", target |-> NoID, limit |-> 0, before |-> NoID,
               collected |-> {}, delivered |-> 0, owed |-> {}]

Goto(s, label) == pc' = [pc EXCEPT ![s] = label]

-----------------------------------------------------------------------------
\* Scans that failed may have used up any number of ids, which are not given back.
Init == /\ bindings    = {}
        /\ inspections = {}
        /\ lastID      \in 0..MaxInspection
        /\ clock       = 0
        /\ scan   = [s \in Scans |-> NoScan]
        /\ pc     = [s \in Scans |-> "idle"]
        /\ began  = [s \in Scans |-> 0]
        /\ hits   = [s \in Scans |-> NoHits]
        /\ iid    = [s \in Scans |-> 0]
        /\ view   = [s \in Scans |-> NoAnswer]
        /\ answer = [s \in Scans |-> NoAnswer]
        /\ known  = [s \in Scans |-> {}]
        /\ walk   = [w \in Walkers |-> NotWalking]
        /\ history = {{}}

\* Some create commits.
Book ==
  /\ \E b \in Bindings :
       /\ \A x \in bindings : /\ x.binding_id # b.binding_id
                              /\ x.chip_uid # b.chip_uid
                              /\ x.board_serial # b.board_serial
       /\ bindings' = bindings \cup {b}
  /\ history' = history \cup {bindings'}
  /\ UNCHANGED <<inspections, lastID, clock, locals, walk>>

\* A valid scan reaches the handler, which begins the transaction.
Begin(s) ==
  /\ pc[s] = "idle"
  /\ \E p \in ScanPairs : scan' = [scan EXCEPT ![s] = p]
  /\ clock' = clock + 1
  /\ began' = [began EXCEPT ![s] = clock + 1]
  /\ known' = [known EXCEPT ![s] = bindings]
  /\ Goto(s, "resolve")
  /\ UNCHANGED <<bindings, inspections, lastID, hits, iid, view, answer, walk, history>>

\* Mutant: one statement for each side, and the board's comes second.
ResolveTorn(s) ==
  /\ pc[s] = "resolve" /\ Alive(s)
  /\ \E earlier \in {x \in history : known[s] \subseteq x} :
       hits' = [hits EXCEPT ![s] =
                  [chip  |-> Resolve(earlier, scan[s]).chip,
                   board |-> Resolve(bindings, scan[s]).board]]
  /\ Goto(s, "insert")
  /\ UNCHANGED <<tables, scan, began, iid, view, answer, known, walk, history>>

ResolveSides(s) ==
  /\ pc[s] = "resolve" /\ Alive(s)
  /\ hits' = [hits EXCEPT ![s] = Resolve(bindings, scan[s])]
  /\ Goto(s, "insert")
  /\ UNCHANGED <<tables, scan, began, iid, view, answer, known, walk, history>>

\* Mutant: the sequence runs past the last bigint.
InsertUnbounded(s) ==
  /\ pc[s] = "insert" /\ Alive(s)
  /\ lastID' = lastID + 1
  /\ iid' = [iid EXCEPT ![s] = lastID + 1]
  /\ Goto(s, "select")
  /\ UNCHANGED <<bindings, inspections, clock, scan, began, hits, view, answer, known, walk, history>>

\* INSERT ... RETURNING id, created_at; an exhausted sequence is a 500.
Insert(s) ==
  /\ pc[s] = "insert" /\ Alive(s)
  /\ \/ /\ lastID < MaxInspection
        /\ lastID' = lastID + 1
        /\ iid' = [iid EXCEPT ![s] = lastID + 1]
        /\ Goto(s, "select")
        /\ UNCHANGED answer
     \/ /\ lastID = MaxInspection
        /\ Goto(s, "closed")
        /\ answer' = [answer EXCEPT ![s] = InternalError]
        /\ UNCHANGED <<lastID, iid>>
  /\ UNCHANGED <<bindings, inspections, clock, scan, began, hits, view, known, walk, history>>

\* selectInspectionSQL inside the transaction sees its own row; COMMIT is sent.
Select(s) ==
  /\ pc[s] = "select" /\ Alive(s)
  /\ view' = [view EXCEPT ![s] = Summary(Row(s), bindings)]
  /\ Goto(s, "committing")
  /\ UNCHANGED <<tables, scan, began, hits, iid, answer, known, walk, history>>

Commit(s) ==
  /\ pc[s] = "committing"
  /\ inspections' = inspections \cup {Row(s)}
  /\ Goto(s, "committed")
  /\ UNCHANGED <<bindings, lastID, clock, scan, began, hits, iid, view, answer, known, walk, history>>

Acknowledge(s) ==
  /\ pc[s] = "committed" /\ Alive(s)
  /\ answer' = [answer EXCEPT ![s] = view[s]]
  /\ UNCHANGED <<tables, scan, pc, began, hits, iid, view, known, walk, history>>

\* A call returns an error.  Before COMMIT that is the end of the transaction,
\* which nobody waits for; a COMMIT that was sent may still take effect.
Fail(s) ==
  /\ pc[s] # "idle" /\ Alive(s)
  /\ answer' = [answer EXCEPT ![s] = InternalError]
  /\ Goto(s, IF pc[s] \in {"committing", "committed"} THEN pc[s] ELSE "closed")
  /\ UNCHANGED <<tables, scan, began, hits, iid, view, known, walk, history>>

CommitLost(s) ==
  /\ pc[s] = "committing" /\ ~ Alive(s)
  /\ Goto(s, "closed")
  /\ UNCHANGED <<tables, scan, began, hits, iid, view, answer, known, walk, history>>

-----------------------------------------------------------------------------
\* A supervisor opens the history of an existing binding, without before_id.
\* owed is what the first page's snapshot holds.
StartWalk(w) ==
  /\ walk[w].state = "idle"
  /\ \E b \in bindings, n \in 1..MaxLimit :
       walk' = [walk EXCEPT ![w] = [NotWalking EXCEPT !.state = "open",
                                                      !.target = b.binding_id,
                                                      !.limit = n,
                                                      !.owed = Hitting(inspections, b.binding_id)]]
  /\ UNCHANGED <<tables, locals, history>>

\* Mutant: a page is cut by the number of records shown so far, OFFSET.
ReadPageByOffset(w) ==
  /\ walk[w].state = "open"
  /\ LET k    == walk[w]
         rows == Hitting(inspections, k.target)
         page == Top(k.delivered + k.limit, rows) \ Top(k.delivered, rows)
         more == Cardinality(rows) > k.delivered + k.limit
     IN  walk' = [walk EXCEPT ![w].collected = @ \cup page,
                              ![w].delivered = @ + Cardinality(page),
                              ![w].before    = IF page = {} THEN @ ELSE OldestID(page),
                              ![w].state     = IF more THEN "open" ELSE "done"]
  /\ UNCHANGED <<tables, locals, history>>

\* One page; the next one, if there is one, is asked for with its cursor.
ReadPage(w) ==
  /\ walk[w].state = "open"
  /\ LET k == walk[w]
         p == Page(inspections, k.target, k.before, k.limit)
     IN  walk' = [walk EXCEPT ![w].collected = @ \cup p.entries,
                              ![w].delivered = @ + Cardinality(p.entries),
                              ![w].before    = p.next_cursor,
                              ![w].state     = IF p.next_cursor = NoID THEN "done" ELSE "open"]
  /\ UNCHANGED <<tables, locals, history>>

\* Everything has been answered and nothing more is booked.
Terminated ==
  /\ \A s \in Scans : pc[s] \in {"closed", "committed"} /\ ~ Alive(s)
  /\ \A w \in Walkers : walk[w].state = "done"
  /\ UNCHANGED vars

Scanning(s) == \/ Begin(s) \/ ResolveSides(s) \/ Insert(s) \/ Select(s)
               \/ Commit(s) \/ Acknowledge(s) \/ Fail(s) \/ CommitLost(s)

Next == \/ Book
        \/ \E s \in Scans : Scanning(s)
        \/ \E w \in Walkers : StartWalk(w) \/ ReadPage(w)
        \/ Terminated

Spec == Init /\ [][Next]_vars

-----------------------------------------------------------------------------
(* Properties.                                                              *)

\* Records are complete, ids stay in the range of the sequence, and a page's
\* cursor is an id or absent (types.go:140-154).
TypeOK ==
  /\ bindings \subseteq Bindings
  /\ inspections \subseteq Records
  /\ lastID \in 0..MaxInspection
  /\ clock \in Nat
  /\ scan \in [Scans -> ScanPairs \cup {NoScan}]
  /\ pc \in [Scans -> {"idle", "resolve", "insert", "select",
                      "committing", "committed", "closed"}]
  /\ began \in [Scans -> Nat]
  /\ hits \in [Scans -> Hits]
  /\ iid \in [Scans -> 0..MaxInspection]
  /\ view \in [Scans -> Views \cup {NoAnswer}]
  /\ answer \in [Scans -> Views \cup {NoAnswer, InternalError}]
  /\ known \in [Scans -> SUBSET Bindings]
  /\ history \subseteq SUBSET Bindings
  /\ walk \in [Walkers -> Walks]

\* What Verdict must say, in words of the table of README.md:114-119.
Expected(rows, p) ==
  LET chipSide  == {b \in rows : b.chip_uid = p.chip_uid}
      boardSide == {b \in rows : b.board_serial = p.board_serial}
  IN  IF chipSide = {} /\ boardSide = {} THEN "UNREGISTERED"
      ELSE IF chipSide = {} \/ boardSide = {} THEN "PARTIAL"
      ELSE IF chipSide = boardSide THEN "CONSISTENT" ELSE "MISMATCH"

\* A verdict is the truth of one instant between the scan's arrival and its
\* record: no mixture of two instants, no older one (store.go:335-339).
VerdictOfOneInstant ==
  \A i \in inspections : \E s \in Scans : \E rows \in history :
    /\ pc[s] = "committed" /\ i = Row(s)
    /\ known[s] \subseteq rows
    /\ i.result = Expected(rows, i)
    /\ {b.binding_id : b \in {x \in rows : x.chip_uid = i.chip_uid}}
         = {i.chip_binding_id} \ {NoID}
    /\ {b.binding_id : b \in {x \in rows : x.board_serial = i.board_serial}}
         = {i.board_binding_id} \ {NoID}

\* GET /inspections/{id} shows for ever what the 201 showed, however the
\* bindings have grown since (README.md:143, types.go:140-143).
ReadsBackUnchanged ==
  \A s \in Scans : answer[s] \notin {NoAnswer, InternalError} =>
    \E i \in inspections : /\ i.inspection_id = iid[s]
                           /\ Summary(i, bindings) = answer[s]

\* Every page anybody could ask for now is exact (see ExactPage).
PageIsExact ==
  \A b \in bindings, n \in 1..MaxLimit, before \in {NoID} \cup (1..lastID + 1) :
    ExactPage(inspections, b.binding_id, before, n)

\* A walk delivers no record twice and loses none that was there when it began,
\* while scans go on committing (store.go:555-557).
WalkNeitherRepeatsNorLoses ==
  \A w \in Walkers :
    LET k == walk[w]
    IN  /\ k.delivered = Cardinality(k.collected)
        /\ \A i \in k.owed \ k.collected :
             /\ k.state = "open"
             /\ IF k.before = NoID THEN TRUE ELSE i.inspection_id < k.before

\* README.md:205 and store.go:636-639 promise that the page of a before_id never
\* changes, because later inspections have greater ids.  They do not: ids are
\* drawn by the INSERT and rows appear at COMMIT.
PageOfCursorNeverChanges ==
  [][\A w \in Walkers : LET k == walk[w] IN k.before # NoID =>
       HistoryRows(inspections', k.target, k.before, k.limit)
         = HistoryRows(inspections, k.target, k.before, k.limit)]_vars

\* types.go:97-99 promises the most recent inspection id and when that most
\* recent mismatch happened; the query takes MAX(id) and MAX(created_at) apart.
LastOccurrenceIsLastInspection ==
  \A b \in bindings : \A r \in Peers(inspections, bindings, b.binding_id, MaxLimit) :
    \E i \in inspections : /\ i.inspection_id = r.last_inspection_id
                           /\ i.created_at = r.last_occurred_at

\* README.md:139 promises that a save that fails is a 500 and leaves no record.
FailedScanLeavesNoRecord ==
  \A s \in Scans : answer[s] = InternalError => Row(s) \notin inspections

\* The cursors of a walk strictly descend, whatever is recorded meanwhile, so
\* following them reaches a last page (store.go:636-645).
CursorDescends ==
  [][\A w \in Walkers :
       LET k == walk[w]
           next == walk'[w]
       IN  (next # k /\ k.state = "open" /\ next.state = "open") =>
             /\ next.before # NoID
             /\ k.before # NoID => next.before < k.before]_vars

-----------------------------------------------------------------------------
(* The inductive invariant.                                                 *)

\* What a create guarantees (BindingStore!OneToOne).
OneToOne ==
  \A b, c \in bindings :
    \/ b = c
    \/ /\ b.binding_id # c.binding_id
       /\ b.chip_uid # c.chip_uid
       /\ b.board_serial # c.board_serial

\* Bindings are never taken back.
Growing == /\ bindings \in history
           /\ \A rows \in history : rows \subseteq bindings

Resolved == {"insert", "select", "committing", "committed"}
HasID    == {"select", "committing", "committed"}
Viewed   == {"committing", "committed"}

\* What pc says of the other variables of a scan.
Phase(s) ==
  /\ pc[s] # "idle" => scan[s] \in ScanPairs /\ known[s] \subseteq bindings
  /\ pc[s] \in Resolved =>
       \E rows \in history : known[s] \subseteq rows /\ hits[s] = Resolve(rows, scan[s])
  /\ pc[s] \in HasID => iid[s] \in 1..lastID
  /\ pc[s] \in Viewed => view[s] = Summary(Row(s), bindings)
  /\ pc[s] = "committed" => Row(s) \in inspections
  /\ answer[s] \notin {NoAnswer, InternalError} =>
       pc[s] = "committed" /\ answer[s] = view[s]

Phases == \A s \in Scans : Phase(s)

\* Every record is the row of one scan, and no two scans share an id.
RecordsOfScans ==
  /\ IsFiniteSet(inspections)
  /\ \A i \in inspections : \E s \in Scans : pc[s] = "committed" /\ i = Row(s)
  /\ \A s, t \in Scans : s # t /\ pc[s] \in HasID /\ pc[t] \in HasID => iid[s] # iid[t]

\* A walk has collected what lies at or above its cursor, and only that.
Walking ==
  \A w \in Walkers :
    LET k == walk[w]
    IN  /\ k.collected \subseteq inspections
        /\ k.owed \subseteq Hitting(inspections, k.target)
        /\ k.state = "idle" => k.collected = {} /\ k.owed = {}
        /\ k.state # "idle" => k.limit # 0
        /\ k.state = "open" =>
             IF k.before = NoID THEN k.collected = {}
             ELSE \A i \in k.collected : i.inspection_id >= k.before

\* Everything the properties rest on: a verdict is of one instant because both
\* sides were resolved in one content of bindings, it reads back because ids of
\* bindings are never used again, and a walk loses nothing because what it has
\* collected is cut off from the rest by its cursor.
IndInv == /\ TypeOK
          /\ OneToOne
          /\ Growing
          /\ Phases
          /\ RecordsOfScans
          /\ Walking
          /\ WalkNeitherRepeatsNorLoses
=============================================================================
