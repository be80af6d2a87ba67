---------------------------- MODULE BindingStore ----------------------------
(***************************************************************************)
(* POST /api/v1/bindings: Handler.Create and Store.Create, statement by    *)
(* statement, over PostgreSQL at its default READ COMMITTED isolation.     *)
(*                                                                         *)
(* Every attempt is one HTTP request: a handler goroutine with, from       *)
(* BEGIN on, a pooled connection and a backend transaction.  pc says how   *)
(* far the transaction is, answer what the handler has made of it.  The    *)
(* two part ways when the handler fails (client gone, connection lost,     *)
(* process killed): the backend keeps what it holds until it notices, may  *)
(* finish the statement it was sent, and a COMMIT already sent may still   *)
(* take effect.                                                            *)
(*                                                                         *)
(* The committed rows are variables; what is in flight is derived from pc: *)
(* a transaction holds a unique-index entry from the step that inserts it  *)
(* to the end of the transaction, and whoever needs that entry waits.      *)
(***************************************************************************)
EXTENDS Naturals, FiniteSets

CONSTANTS Attempts, Keys, Chips, Boards, NoReq, NoBinding, NoAnswer,
          PoolSize,      \* connections of the pgx pool
          MaxBigint      \* last value of the BIGSERIAL sequence of bindings.id

VARIABLES requests,      \* committed rows of table requests
          bindings,      \* committed rows of table bindings
          lastID,        \* bindings_id_seq; a rolled back draw is not returned
          req, pc, answer,
          bid            \* the bindings.id an attempt has drawn, 0 before

vars == <<requests, bindings, lastID, req, pc, answer, bid>>

\* booked is the set of attempts whose COMMIT took effect.
Ledger == INSTANCE BindingLedger
            WITH BindingIDs <- 1..MaxBigint,
                 ledger <- bindings,
                 booked <- {a \in Attempts : pc[a] = "committed"}

Payloads == Ledger!Payloads

ASSUME PoolAssumption     == PoolSize \in Nat \ {0}
ASSUME SequenceAssumption == MaxBigint \in Nat
ASSUME SentinelAssumption == /\ NoReq \notin Payloads
                             /\ NoBinding \notin Ledger!Bindings
                             /\ NoAnswer \notin Ledger!Answers

-----------------------------------------------------------------------------
(* Where an attempt is, what it holds and what it waits for.                *)

\* BEGIN has been answered and neither COMMIT nor ROLLBACK has taken effect.
InTransaction == {"insertRequest", "readExisting", "insertBinding",
                  "chipIndex", "boardIndex", "commit", "committing"}

Alive(a) == answer[a] = NoAnswer

\* Mutant: a create that fails leaves its transaction open, connection and all.
HoldsConnLeaky(a) ==
  /\ pc[a] \in InTransaction \cup {"committed", "closed"}
  /\ Alive(a) \/ answer[a] = Ledger!InternalError

\* The handler returns its connection when it returns.
HoldsConn(a) == Alive(a) /\ pc[a] \in InTransaction \cup {"committed"}

\* The entry a row has, or would have, in each unique index.
KeyEntry(row)   == <<"request_key",  row.request_key>>
ChipEntry(row)  == <<"chip_uid",     row.chip_uid>>
BoardEntry(row) == <<"board_serial", row.board_serial>>

\* A create inserts into the primary key of requests first, then into the
\* indexes of bindings in the order 0001_init.sql declares them.
FirstDevice(a)  == ChipEntry(req[a])
SecondDevice(a) == BoardEntry(req[a])

HoldsKey    == {"insertBinding", "chipIndex", "boardIndex", "commit", "committing"}
HoldsFirst  == {"boardIndex", "commit", "committing"}
HoldsSecond == {"commit", "committing"}

\* The entries the transaction of a has inserted and not yet committed.
Held(a) == (IF pc[a] \in HoldsKey    THEN {KeyEntry(req[a])} ELSE {}) \cup
           (IF pc[a] \in HoldsFirst  THEN {FirstDevice(a)}   ELSE {}) \cup
           (IF pc[a] \in HoldsSecond THEN {SecondDevice(a)}  ELSE {})

\* Mutant: a create does not wait for an in-flight transaction on its board.
NeededWithoutBoard(a) ==
  CASE pc[a] = "insertRequest" -> {KeyEntry(req[a])}
    [] pc[a] = "chipIndex"     -> {FirstDevice(a)}
    [] OTHER                   -> {}

\* The entries that must not be in flight for a's next step to be taken.
Needed(a) ==
  CASE pc[a] = "insertRequest" -> {KeyEntry(req[a])}
    [] pc[a] = "chipIndex"     -> {FirstDevice(a)}
    [] pc[a] = "boardIndex"    -> {SecondDevice(a)}
    [] OTHER                   -> {}

\* Mutant: getByRequestKey takes a second connection from the pool.
NeedsConnTwice(a) == pc[a] \in {"begin", "readExisting"}

\* Mutant: INSERT INTO bindings goes to the pool, outside the transaction.
NeedsConnForInsert(a) == pc[a] \in {"begin", "insertBinding"}

NeedsConn(a) == pc[a] = "begin"

Holders == {b \in Attempts : HoldsConn(b)}

WaitsForLock(a, b) == a # b /\ Needed(a) \cap Held(b) # {}

WaitsForConn(a) == NeedsConn(a) /\ Cardinality(Holders) >= PoolSize

Runnable(a) == /\ ~ WaitsForConn(a)
               /\ \A b \in Attempts : ~ WaitsForLock(a, b)

\* Mutant: bindings has no unique index on board_serial.
CommittedWithoutBoard(entry) ==
  \E b \in bindings : entry \in {KeyEntry(b), ChipEntry(b)}

\* The entry is in its index for good: an inserter gets unique_violation.
Committed(entry) ==
  \E b \in bindings : entry \in {KeyEntry(b), ChipEntry(b), BoardEntry(b)}

Goto(a, label) == pc' = [pc EXCEPT ![a] = label]

\* The transaction is over with nothing written; res reaches a handler that is
\* still there to read it.
Return(a, res) ==
  /\ answer' = IF Alive(a) THEN [answer EXCEPT ![a] = res] ELSE answer
  /\ Goto(a, "closed")

-----------------------------------------------------------------------------
(* What the lookups read, in the snapshot of one statement.                 *)

\* selectBindingSQL: requests JOIN bindings on the request key.
Joined == {Ledger!BindingOf(x[2].binding_id, x[1]) :
             x \in {y \in requests \X bindings : y[1].request_key = y[2].request_key}}

\* GET by-request-key, by-chip-uid, by-board-serial filter columns of requests.
GetBy(column, value) == {r \in Joined : r[column] = value}

\* batchLookupSQL and resolveInspectionSQL filter columns of bindings.
JoinedFrom(column, value) ==
  {Ledger!BindingOf(x[2].binding_id, x[1]) :
     x \in {y \in requests \X bindings : /\ y[2][column] = value
                                         /\ y[1].request_key = y[2].request_key}}

-----------------------------------------------------------------------------
Init == /\ requests = {}
        /\ bindings = {}
        /\ lastID   = 0
        /\ req      = [a \in Attempts |-> NoReq]
        /\ pc       = [a \in Attempts |-> "idle"]
        /\ answer   = [a \in Attempts |-> NoAnswer]
        /\ bid      = [a \in Attempts |-> 0]

\* A valid request reaches the handler: first try or retry, from any station.
Arrive(a) ==
  /\ pc[a] = "idle"
  /\ \E p \in Payloads : req' = [req EXCEPT ![a] = p]
  /\ Goto(a, "begin")
  /\ UNCHANGED <<requests, bindings, lastID, answer, bid>>

\* pool.Begin waits for a connection.
Begin(a) ==
  /\ pc[a] = "begin" /\ Alive(a) /\ Runnable(a)
  /\ Goto(a, "insertRequest")
  /\ UNCHANGED <<requests, bindings, lastID, req, answer, bid>>

\* Mutant: the ledger row is committed on its own, outside the transaction.
InsertRequestAutocommit(a) ==
  /\ pc[a] = "insertRequest" /\ Runnable(a)
  /\ Goto(a, IF \E r \in requests : KeyEntry(r) = KeyEntry(req[a])
             THEN "readExisting" ELSE "insertBinding")
  /\ requests' = IF \E r \in requests : KeyEntry(r) = KeyEntry(req[a])
                 THEN requests ELSE requests \cup {req[a]}
  /\ UNCHANGED <<bindings, lastID, req, answer, bid>>

\* Mutant: ON CONFLICT DO UPDATE, so that RETURNING always yields a row.
InsertRequestUpsert(a) ==
  /\ pc[a] = "insertRequest" /\ Runnable(a)
  /\ LET old == {r \in requests : KeyEntry(r) = KeyEntry(req[a])}
     IN  /\ requests' = IF old = {} THEN requests ELSE (requests \ old) \cup {req[a]}
         /\ Goto(a, IF old = {} THEN "insertBinding" ELSE "readExisting")
  /\ UNCHANGED <<bindings, lastID, req, answer, bid>>

\* Mutant: an in-flight row on the same key counts as an existing row.
InsertRequestNoWait(a) ==
  /\ pc[a] = "insertRequest"
  /\ Goto(a, IF \/ \E r \in requests : KeyEntry(r) = KeyEntry(req[a])
                \/ \E b \in Attempts \ {a} : KeyEntry(req[a]) \in Held(b)
             THEN "readExisting" ELSE "insertBinding")
  /\ UNCHANGED <<requests, bindings, lastID, req, answer, bid>>

\* INSERT INTO requests ... ON CONFLICT DO NOTHING waits for any transaction
\* that holds the key, then inserts, or inserts nothing when the key is there.
InsertRequest(a) ==
  /\ pc[a] = "insertRequest" /\ Runnable(a)
  /\ Goto(a, IF \E r \in requests : KeyEntry(r) = KeyEntry(req[a])
             THEN "readExisting" ELSE "insertBinding")
  /\ UNCHANGED <<requests, bindings, lastID, req, answer, bid>>

\* Mutant: the stored payload is not compared with the request.
ReadExistingUnchecked(a) ==
  /\ pc[a] = "readExisting" /\ Alive(a) /\ Runnable(a)
  /\ \E x \in GetBy("request_key", req[a].request_key) : Return(a, Ledger!Replayed(x))
  /\ UNCHANGED <<requests, bindings, lastID, req, bid>>

\* getByRequestKey on the transaction's own connection, in a snapshot of its
\* own.  No row would be ErrNotFound, which Handler.Create answers with 500.
ReadExisting(a) ==
  /\ pc[a] = "readExisting" /\ Alive(a) /\ Runnable(a)
  /\ LET rows == GetBy("request_key", req[a].request_key)
     IN  \/ /\ rows = {}
            /\ Return(a, Ledger!InternalError)
         \/ \E x \in rows : Return(a, Ledger!AnswerExisting(x, req[a]))
  /\ UNCHANGED <<requests, bindings, lastID, req, bid>>

\* Mutant: the sequence runs past the last bigint.
InsertBindingUnbounded(a) ==
  /\ pc[a] = "insertBinding" /\ Alive(a) /\ Runnable(a)
  /\ lastID' = lastID + 1
  /\ bid' = [bid EXCEPT ![a] = lastID + 1]
  /\ IF Committed(KeyEntry(req[a]))
     THEN Return(a, Ledger!InternalError)
     ELSE Goto(a, "chipIndex") /\ UNCHANGED answer
  /\ UNCHANGED <<requests, bindings, req>>

\* INSERT INTO bindings starts: nextval, then bindings_request_key_unique,
\* whose violation occupiedField does not map.  Both failures are a 500.  A
\* handler that is gone sends no further statement; the one it sent goes on.
InsertBinding(a) ==
  /\ pc[a] = "insertBinding" /\ Alive(a) /\ Runnable(a)
  /\ \/ /\ lastID < MaxBigint
        /\ lastID' = lastID + 1
        /\ bid' = [bid EXCEPT ![a] = lastID + 1]
        /\ IF Committed(KeyEntry(req[a]))
           THEN Return(a, Ledger!InternalError)
           ELSE Goto(a, "chipIndex") /\ UNCHANGED answer
     \/ /\ lastID = MaxBigint
        /\ Return(a, Ledger!InternalError)
        /\ UNCHANGED <<lastID, bid>>
  /\ UNCHANGED <<requests, bindings, req>>

\* Mutant: an in-flight binding on the device already counts as occupied.
InsertDeviceNoWait(a, entry, next) ==
  /\ IF Committed(entry) \/ \E b \in Attempts \ {a} : entry \in Held(b)
     THEN Return(a, Ledger!DeviceOccupied(entry[1]))
     ELSE Goto(a, next) /\ UNCHANGED answer
  /\ UNCHANGED <<requests, bindings, lastID, req, bid>>

\* Mutant: a create that finds its device bound starts its statements over.
InsertDeviceRetries(a, entry, next) ==
  /\ Runnable(a)
  /\ Goto(a, IF Committed(entry) THEN "insertRequest" ELSE next)
  /\ UNCHANGED <<requests, bindings, lastID, req, answer, bid>>

\* One unique index of bindings: a committed entry is a unique_violation, which
\* aborts the transaction at once and names the occupied device.
InsertDevice(a, entry, next) ==
  /\ Runnable(a)
  /\ IF Committed(entry)
     THEN Return(a, Ledger!DeviceOccupied(entry[1]))
     ELSE Goto(a, next) /\ UNCHANGED answer
  /\ UNCHANGED <<requests, bindings, lastID, req, bid>>

InsertChip(a) ==
  /\ pc[a] = "chipIndex"
  /\ InsertDevice(a, FirstDevice(a), "boardIndex")

InsertBoard(a) ==
  /\ pc[a] = "boardIndex"
  /\ InsertDevice(a, SecondDevice(a), "commit")

\* Mutant: the 201 is written without waiting for the answer to COMMIT.
SendCommitAnswers(a) ==
  /\ pc[a] = "commit" /\ Alive(a)
  /\ Goto(a, "committing")
  /\ answer' = [answer EXCEPT ![a] = Ledger!Created(Ledger!BindingOf(bid[a], req[a]))]
  /\ UNCHANGED <<requests, bindings, lastID, req, bid>>

SendCommit(a) ==
  /\ pc[a] = "commit" /\ Alive(a)
  /\ Goto(a, "committing")
  /\ UNCHANGED <<requests, bindings, lastID, req, answer, bid>>

\* Mutant: the ledger row is not part of what is committed.
CommitBindingOnly(a) ==
  /\ pc[a] = "committing"
  /\ bindings' = bindings \cup {Ledger!BindingOf(bid[a], req[a])}
  /\ Goto(a, "committed")
  /\ UNCHANGED <<requests, lastID, req, answer, bid>>

\* Both rows become visible at one instant.
Commit(a) ==
  /\ pc[a] = "committing"
  /\ requests' = requests \cup {req[a]}
  /\ bindings' = bindings \cup {Ledger!BindingOf(bid[a], req[a])}
  /\ Goto(a, "committed")
  /\ UNCHANGED <<lastID, req, answer, bid>>

AckCommit(a) ==
  /\ pc[a] = "committed" /\ Alive(a)
  /\ answer' = [answer EXCEPT ![a] = Ledger!Created(Ledger!BindingOf(bid[a], req[a]))]
  /\ UNCHANGED <<requests, bindings, lastID, req, pc, bid>>

\* Any call returns an error: the client hung up and its context is cancelled,
\* the connection broke, the process was killed.  The deferred Rollback gives
\* the connection back (or has the pool destroy it).
Fail(a) ==
  /\ pc[a] # "idle" /\ Alive(a)
  /\ answer' = [answer EXCEPT ![a] = Ledger!InternalError]
  /\ Goto(a, IF pc[a] = "begin" THEN "closed" ELSE pc[a])
  /\ UNCHANGED <<requests, bindings, lastID, req, bid>>

\* The backend learns of the rollback, of the lost client, or is restarted; a
\* COMMIT that never arrived ends the same way.
BackendAbort(a) ==
  /\ pc[a] \in InTransaction /\ ~ Alive(a)
  /\ Goto(a, "closed")
  /\ UNCHANGED <<requests, bindings, lastID, req, answer, bid>>

\* Everything has been answered and every transaction is over.
Terminated ==
  /\ \A a \in Attempts : pc[a] \in {"closed", "committed"} /\ ~ Alive(a)
  /\ UNCHANGED vars

Progress(a) == \/ Begin(a) \/ InsertRequest(a) \/ ReadExisting(a)
               \/ InsertBinding(a) \/ InsertChip(a) \/ InsertBoard(a)
               \/ SendCommit(a) \/ Commit(a) \/ AckCommit(a) \/ BackendAbort(a)

Next == \/ \E a \in Attempts : Arrive(a) \/ Progress(a) \/ Fail(a)
        \/ Terminated

Spec == Init /\ [][Next]_vars

-----------------------------------------------------------------------------
(* Properties.                                                              *)

\* Rows are complete, identifiers stay in the range of the sequence, and every
\* attempt is at a known point with a known answer (types.go:12-26).
TypeOK ==
  /\ requests \subseteq Payloads
  /\ bindings \subseteq Ledger!Bindings
  /\ lastID \in 0..MaxBigint
  /\ req \in [Attempts -> Payloads \cup {NoReq}]
  /\ pc \in [Attempts -> InTransaction \cup {"idle", "begin", "committed", "closed"}]
  /\ answer \in [Attempts -> Ledger!Answers \cup {NoAnswer}]
  /\ bid \in [Attempts -> 0..MaxBigint]

\* The two tables tell one story: each ledger row has exactly one binding, with
\* the same key and devices, and no binding lacks its row (store.go:67-72).
LedgerAgreement ==
  /\ \A b \in bindings : \E r \in requests : b = Ledger!BindingOf(b.binding_id, r)
  /\ \A r \in requests : \E b \in bindings : b = Ledger!BindingOf(b.binding_id, r)
  /\ \A r, s \in requests : r.request_key = s.request_key => r = s

\* One chip, one board, one key: two committed bindings share no identifier,
\* whatever transactions raced for them (0001_init.sql:15-18).
OneToOne ==
  \A b, c \in bindings :
    \/ b = c
    \/ /\ b.binding_id # c.binding_id
       /\ b.request_key # c.request_key
       /\ b.chip_uid # c.chip_uid
       /\ b.board_serial # c.board_serial

\* What the answer res to attempt a claims about the ledger.
Honest(a, res) ==
  /\ res.outcome = "created" =>
       /\ pc[a] = "committed"
       /\ res.binding \in bindings
       /\ res.binding = Ledger!BindingOf(bid[a], req[a])
  /\ res.outcome = "replayed" =>
       /\ res.binding \in bindings
       /\ res.binding = Ledger!BindingOf(res.binding.binding_id, req[a])
  /\ res.outcome = "request_key_conflict" =>
       /\ res.binding \in bindings
       /\ res.binding.request_key = req[a].request_key
       /\ ~ Ledger!SamePayload(res.binding, req[a])
  /\ res.outcome = "device_occupied" =>
       \E b \in bindings : /\ b.request_key # req[a].request_key
                           /\ b[res.field] = req[a][res.field]

\* No answer is ever contradicted by the ledger: a record that was answered is
\* there unchanged, and a device reported occupied is bound for good under
\* another key, never merely held by a transaction that may roll back
\* (store.go:22-34).
AnswersHonest ==
  \A a \in Attempts : answer[a] # NoAnswer => Honest(a, answer[a])

\* Every row is the work of an attempt whose COMMIT took effect: what was
\* rejected, failed or rolled back left nothing (store.go:106-107).
RejectedLeaveNoTrace ==
  /\ \A r \in requests : \E a \in Attempts : pc[a] = "committed" /\ req[a] = r
  /\ \A b \in bindings : \E a \in Attempts :
       pc[a] = "committed" /\ b = Ledger!BindingOf(bid[a], req[a])

\* When ON CONFLICT inserts nothing, the committed row and its binding are
\* visible to the next statement, so a replay is never a 500 (store.go:87-89).
ReplayFindsOriginal ==
  \A a \in Attempts :
    pc[a] = "readExisting" => GetBy("request_key", req[a].request_key) # {}

\* The single lookups filter columns of requests, the batch lookup and the
\* inspections columns of bindings: they find the same record, and at most one
\* (store.go:174-178).
LookupsAgree ==
  \A column \in {"request_key", "chip_uid", "board_serial"} :
    \A value \in {b[column] : b \in requests \cup bindings} :
      /\ GetBy(column, value) = JoinedFrom(column, value)
      /\ Cardinality(GetBy(column, value)) = 1

\* No set of attempts waits on itself, for index entries or for connections:
\* all creates insert into the indexes in one order and none asks the pool for
\* a second connection.
BlockedWithin(a, C) == \/ \E b \in C : WaitsForLock(a, b)
                       \/ WaitsForConn(a) /\ Holders \subseteq C

NoDeadlock ==
  \A C \in SUBSET Attempts : C # {} => \E a \in C : ~ BlockedWithin(a, C)

\* Two transactions never hold the same index entry.
Exclusive ==
  \A a, b \in Attempts : a # b =>
    /\ pc[a] \in HoldsKey /\ pc[b] \in HoldsKey
         => req[a].request_key # req[b].request_key
    /\ pc[a] \in HoldsFirst /\ pc[b] \in HoldsFirst
         => req[a].chip_uid # req[b].chip_uid
    /\ pc[a] \in HoldsSecond /\ pc[b] \in HoldsSecond
         => req[a].board_serial # req[b].board_serial

\* An entry in flight is not in its index for good.
Fresh ==
  \A a \in Attempts : \A x \in bindings :
    /\ pc[a] \in HoldsKey    => x.request_key # req[a].request_key
    /\ pc[a] \in HoldsFirst  => x.chip_uid # req[a].chip_uid
    /\ pc[a] \in HoldsSecond => x.board_serial # req[a].board_serial

HasID == {"chipIndex", "boardIndex", "commit", "committing"}

\* The sequence hands out every identifier once.
IDsDrawnOnce ==
  /\ \A a \in Attempts : pc[a] \in HasID => bid[a] \in 1..lastID
  /\ \A a, b \in Attempts :
       a # b /\ pc[a] \in HasID /\ pc[b] \in HasID => bid[a] # bid[b]
  /\ \A x \in bindings : x.binding_id <= lastID
  /\ \A a \in Attempts, x \in bindings : pc[a] \in HasID => x.binding_id # bid[a]

\* What pc says of the other variables of an attempt.
Phases ==
  \A a \in Attempts :
    /\ IF pc[a] = "idle" THEN req[a] = NoReq ELSE req[a] \in Payloads
    /\ pc[a] \in {"idle", "begin"} => Alive(a)
    /\ pc[a] \in InTransaction => answer[a] \in {NoAnswer, Ledger!InternalError}
    /\ pc[a] = "readExisting" => \E r \in requests : r.request_key = req[a].request_key
    /\ pc[a] = "committed" => Ledger!BindingOf(bid[a], req[a]) \in bindings

\* The inductive invariant: rows agree because what is in flight is exclusive
\* and fresh.
IndInv == /\ TypeOK
          /\ Exclusive
          /\ Fresh
          /\ IDsDrawnOnce
          /\ Phases
          /\ LedgerAgreement
          /\ OneToOne

\* No step takes a committed row back: existing rows are never updated or
\* deleted (store.go:72).
RowsImmutable == [][requests \subseteq requests' /\ bindings \subseteq bindings']_vars

\* Store.Create decides every request at one instant, against the ledger of
\* that instant: the service is a BindingLedger.
LedgerSpec == Ledger!Spec

\* A request that reaches a handler is answered, also when transactions of lost
\* clients stand in its way.
EveryRequestAnswered == \A a \in Attempts : pc[a] = "begin" ~> ~ Alive(a)

\* No index entry is held for ever, whatever became of its handler.
EntriesReleased == \A a \in Attempts : Held(a) # {} ~> Held(a) = {}
=============================================================================
