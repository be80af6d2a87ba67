---------------------------- MODULE ServiceProofs ----------------------------
(***************************************************************************)
(* What BindingStore guarantees for any number of attempts, keys, chips    *)
(* and boards, any pool and any sequence; then creates and scans on one    *)
(* pool and one set of tables, for any number of both.                     *)
(***************************************************************************)
EXTENDS Service, FiniteSetTheorems, TLAPS

-----------------------------------------------------------------------------
(* Types.                                                                   *)

\* The fields of a payload.
LEMMA PayloadFields ==
  ASSUME NEW p \in Payloads
  PROVE  /\ p.request_key \in Keys
         /\ p.chip_uid \in Chips
         /\ p.board_serial \in Boards
  BY DEF Payloads, Ledger!Payloads

\* A payload with an identifier of the sequence is a binding.
LEMMA BindingOfType ==
  ASSUME NEW p \in Payloads, NEW id \in 1..MaxBigint
  PROVE  Ledger!BindingOf(id, p) \in Ledger!Bindings
  BY DEF Payloads, Ledger!Payloads, Ledger!BindingOf, Ledger!Bindings

\* The fields of a binding.
LEMMA BindingFields ==
  ASSUME NEW b \in Ledger!Bindings
  PROVE  /\ b.binding_id \in 1..MaxBigint
         /\ b.request_key \in Keys
         /\ b.chip_uid \in Chips
         /\ b.board_serial \in Boards
  BY DEF Ledger!Bindings

\* The five outcomes of a create are answers (store.go:36-44).
LEMMA AnswerTypes ==
  /\ Ledger!InternalError \in Ledger!Answers
  /\ \A b \in Ledger!Bindings : /\ Ledger!Created(b) \in Ledger!Answers
                                /\ Ledger!Replayed(b) \in Ledger!Answers
                                /\ Ledger!KeyConflict(b) \in Ledger!Answers
  /\ \A f \in {"chip_uid", "board_serial"} : Ledger!DeviceOccupied(f) \in Ledger!Answers
  BY DEF Ledger!InternalError, Ledger!Created, Ledger!Replayed, Ledger!KeyConflict,
         Ledger!DeviceOccupied, Ledger!CreateResult, Ledger!Answers

\* What a lookup returns has the type of a binding (selectBindingSQL).
LEMMA JoinedType ==
  ASSUME TypeOK, NEW column, NEW value, NEW x \in GetBy(column, value)
  PROVE  x \in Ledger!Bindings
<1>1. x \in Joined
  BY DEF GetBy
<1>2. PICK y \in requests \X bindings : x = Ledger!BindingOf(y[2].binding_id, y[1])
  BY <1>1 DEF Joined
<1>3. y[1] \in Payloads /\ y[2] \in Ledger!Bindings
  BY <1>2 DEF TypeOK
<1> QED
  BY <1>2, <1>3, BindingOfType, BindingFields

\* What the two ways of leaving a step mean for the types: going on,
LEMMA GotoType ==
  ASSUME TypeOK, NEW a \in Attempts,
         NEW label \in InTransaction \cup {"begin", "committed", "closed"}, Goto(a, label)
  PROVE  pc' \in [Attempts -> InTransaction \cup {"idle", "begin", "committed", "closed"}]
  BY DEF TypeOK, Goto

\* and returning an answer.
LEMMA ReturnType ==
  ASSUME TypeOK, NEW a \in Attempts, NEW res \in Ledger!Answers, Return(a, res)
  PROVE  /\ pc' \in [Attempts -> InTransaction \cup {"idle", "begin", "committed", "closed"}]
         /\ answer' \in [Attempts -> Ledger!Answers \cup {NoAnswer}]
  BY GotoType DEF TypeOK, Return, Goto

\* Insertion into a device index keeps the types.
LEMMA InsertDeviceType ==
  ASSUME TypeOK, NEW a \in Attempts, NEW next \in InTransaction, NEW entry,
         entry[1] \in {"chip_uid", "board_serial"}, InsertDevice(a, entry, next)
  PROVE  TypeOK'
<1>1. Ledger!DeviceOccupied(entry[1]) \in Ledger!Answers
  BY AnswerTypes
<1>2. CASE Committed(entry)
  BY <1>1, <1>2, ReturnType DEF InsertDevice, TypeOK
<1>3. CASE ~ Committed(entry)
  BY <1>3, GotoType DEF InsertDevice, TypeOK
<1> QED
  BY <1>2, <1>3

\* The entry names the device that occupiedField reports (store.go:135-140).
LEMMA DeviceTags ==
  ASSUME NEW a \in Attempts
  PROVE  FirstDevice(a)[1] = "chip_uid" /\ SecondDevice(a)[1] = "board_serial"
  BY DEF FirstDevice, SecondDevice, ChipEntry, BoardEntry

\* Every step keeps the types.
LEMMA TypeStep == IndInv /\ [Next]_vars => TypeOK'
<1> SUFFICES ASSUME IndInv, [Next]_vars
             PROVE  TypeOK'
  OBVIOUS
<1> USE DEF IndInv
<1>1. ASSUME NEW a \in Attempts, Arrive(a)
      PROVE  TypeOK'
  <2>1. pc' \in [Attempts -> InTransaction \cup {"idle", "begin", "committed", "closed"}]
    BY <1>1, GotoType DEF Arrive
  <2> QED
    BY <1>1, <2>1 DEF Arrive, TypeOK
<1>2. ASSUME NEW a \in Attempts, Begin(a)
      PROVE  TypeOK'
  BY <1>2, GotoType DEF Begin, TypeOK, InTransaction
<1>3. ASSUME NEW a \in Attempts, InsertRequest(a)
      PROVE  TypeOK'
  BY <1>3, GotoType DEF InsertRequest, TypeOK, InTransaction
<1>4. ASSUME NEW a \in Attempts, ReadExisting(a)
      PROVE  TypeOK'
  <2>1. \E res \in Ledger!Answers : Return(a, res)
    BY <1>4, AnswerTypes, JoinedType DEF ReadExisting, Ledger!AnswerExisting
  <2> QED
    BY <1>4, <2>1, ReturnType DEF ReadExisting, TypeOK
<1>5. ASSUME NEW a \in Attempts, InsertBinding(a)
      PROVE  TypeOK'
  <2>1. \/ Return(a, Ledger!InternalError)
        \/ Goto(a, "chipIndex") /\ UNCHANGED answer
    BY <1>5 DEF InsertBinding
  <2>2. /\ pc' \in [Attempts -> InTransaction \cup {"idle", "begin", "committed", "closed"}]
        /\ answer' \in [Attempts -> Ledger!Answers \cup {NoAnswer}]
    BY <2>1, GotoType, ReturnType, AnswerTypes DEF InTransaction, TypeOK
  <2>3. lastID' \in 0..MaxBigint /\ bid' \in [Attempts -> 0..MaxBigint]
    BY <1>5, SequenceAssumption DEF InsertBinding, TypeOK
  <2> QED
    BY <1>5, <2>2, <2>3 DEF InsertBinding, TypeOK
<1>6. ASSUME NEW a \in Attempts, InsertChip(a)
      PROVE  TypeOK'
  BY <1>6, InsertDeviceType, DeviceTags DEF InsertChip, InTransaction
<1>7. ASSUME NEW a \in Attempts, InsertBoard(a)
      PROVE  TypeOK'
  BY <1>7, InsertDeviceType, DeviceTags DEF InsertBoard, InTransaction
<1>8. ASSUME NEW a \in Attempts, SendCommit(a)
      PROVE  TypeOK'
  BY <1>8, GotoType DEF SendCommit, TypeOK, InTransaction
<1>9. ASSUME NEW a \in Attempts, Commit(a)
      PROVE  TypeOK'
  <2>1. req[a] \in Payloads /\ bid[a] \in 1..MaxBigint
    BY <1>9 DEF Commit, Phases, IDsDrawnOnce, HasID, TypeOK
  <2>2. Ledger!BindingOf(bid[a], req[a]) \in Ledger!Bindings
    BY <2>1, BindingOfType
  <2> QED
    BY <1>9, <2>1, <2>2, GotoType DEF Commit, TypeOK
<1>10. ASSUME NEW a \in Attempts, AckCommit(a)
       PROVE  TypeOK'
  <2>1. Ledger!BindingOf(bid[a], req[a]) \in Ledger!Bindings
    BY <1>10 DEF AckCommit, Phases, TypeOK
  <2> QED
    BY <1>10, <2>1, AnswerTypes DEF AckCommit, TypeOK
<1>11. ASSUME NEW a \in Attempts, Fail(a)
       PROVE  TypeOK'
  BY <1>11, GotoType, AnswerTypes DEF Fail, TypeOK
<1>12. ASSUME NEW a \in Attempts, BackendAbort(a)
       PROVE  TypeOK'
  BY <1>12, GotoType DEF BackendAbort, TypeOK
<1>13. ASSUME UNCHANGED vars
       PROVE  TypeOK'
  BY <1>13 DEF vars, TypeOK
<1> QED
  BY <1>1, <1>2, <1>3, <1>4, <1>5, <1>6, <1>7, <1>8, <1>9, <1>10, <1>11, <1>12, <1>13
     DEF Next, Progress, Terminated

-----------------------------------------------------------------------------
(* Index entries: what an attempt waits for is what it then holds alone.    *)

\* An entry is in its index for good when a committed binding has its value.
LEMMA CommittedEntries ==
  ASSUME NEW row
  PROVE  /\ Committed(KeyEntry(row)) <=> \E b \in bindings : b.request_key = row.request_key
         /\ Committed(ChipEntry(row)) <=> \E b \in bindings : b.chip_uid = row.chip_uid
         /\ Committed(BoardEntry(row)) <=> \E b \in bindings : b.board_serial = row.board_serial
  BY DEF Committed, KeyEntry, ChipEntry, BoardEntry

\* Whoever need not wait finds its entry in nobody else's transaction.
LEMMA FreeEntries ==
  ASSUME NEW a \in Attempts, Runnable(a), NEW b \in Attempts, a # b
  PROVE  /\ pc[a] = "insertRequest" /\ pc[b] \in HoldsKey
              => req[a].request_key # req[b].request_key
         /\ pc[a] = "chipIndex" /\ pc[b] \in HoldsFirst
              => req[a].chip_uid # req[b].chip_uid
         /\ pc[a] = "boardIndex" /\ pc[b] \in HoldsSecond
              => req[a].board_serial # req[b].board_serial
  BY DEF Runnable, WaitsForLock, Needed, Held, KeyEntry, FirstDevice, SecondDevice,
         ChipEntry, BoardEntry

\* An attempt that gains no entry, and whose request stands, disturbs nobody.
LEMMA NoNewEntry ==
  ASSUME TypeOK, Exclusive, NEW a \in Attempts,
         \A b \in Attempts : b # a => pc'[b] = pc[b],
         pc'[a] \in HoldsKey => pc[a] \in HoldsKey,
         pc'[a] \in HoldsFirst => pc[a] \in HoldsFirst,
         pc'[a] \in HoldsSecond => pc[a] \in HoldsSecond,
         req' = req
  PROVE  Exclusive'
  BY DEF Exclusive

\* Every step keeps index entries exclusive: an insertion waits for holders.
LEMMA ExclusiveStep == IndInv /\ [Next]_vars => Exclusive'
<1> SUFFICES ASSUME IndInv, [Next]_vars
             PROVE  Exclusive'
  OBVIOUS
<1> USE DEF IndInv, Goto, HoldsKey, HoldsFirst, HoldsSecond
<1>1. ASSUME NEW a \in Attempts, Arrive(a)
      PROVE  Exclusive'
  BY <1>1 DEF Arrive, Exclusive, TypeOK
<1>2. ASSUME NEW a \in Attempts, Begin(a)
      PROVE  Exclusive'
  BY <1>2, NoNewEntry DEF Begin, TypeOK
<1>3. ASSUME NEW a \in Attempts, InsertRequest(a)
      PROVE  Exclusive'
  BY <1>3, FreeEntries DEF InsertRequest, Exclusive, TypeOK
<1>4. ASSUME NEW a \in Attempts, ReadExisting(a)
      PROVE  Exclusive'
  BY <1>4, NoNewEntry DEF ReadExisting, Return, TypeOK
<1>5. ASSUME NEW a \in Attempts, InsertBinding(a)
      PROVE  Exclusive'
  BY <1>5, NoNewEntry DEF InsertBinding, Return, TypeOK
<1>6. ASSUME NEW a \in Attempts, InsertChip(a)
      PROVE  Exclusive'
  BY <1>6, FreeEntries DEF InsertChip, InsertDevice, Return, Exclusive, TypeOK
<1>7. ASSUME NEW a \in Attempts, InsertBoard(a)
      PROVE  Exclusive'
  BY <1>7, FreeEntries DEF InsertBoard, InsertDevice, Return, Exclusive, TypeOK
<1>8. ASSUME NEW a \in Attempts, SendCommit(a)
      PROVE  Exclusive'
  BY <1>8, NoNewEntry DEF SendCommit, TypeOK
<1>9. ASSUME NEW a \in Attempts, Commit(a)
      PROVE  Exclusive'
  BY <1>9, NoNewEntry DEF Commit, TypeOK
<1>10. ASSUME NEW a \in Attempts, AckCommit(a)
       PROVE  Exclusive'
  BY <1>10, NoNewEntry DEF AckCommit, TypeOK
<1>11. ASSUME NEW a \in Attempts, Fail(a)
       PROVE  Exclusive'
  BY <1>11, NoNewEntry DEF Fail, TypeOK
<1>12. ASSUME NEW a \in Attempts, BackendAbort(a)
       PROVE  Exclusive'
  BY <1>12, NoNewEntry DEF BackendAbort, TypeOK
<1>13. ASSUME UNCHANGED vars
       PROVE  Exclusive'
  BY <1>13 DEF vars, Exclusive
<1> QED
  BY <1>1, <1>2, <1>3, <1>4, <1>5, <1>6, <1>7, <1>8, <1>9, <1>10, <1>11, <1>12, <1>13
     DEF Next, Progress, Terminated

\* Every step keeps entries in flight fresh: a commit adds only what its
\* transaction held, and nobody else can hold that too.
LEMMA FreshStep == IndInv /\ [Next]_vars => Fresh'
<1> SUFFICES ASSUME IndInv, [Next]_vars
             PROVE  Fresh'
  OBVIOUS
<1> USE DEF IndInv, Goto, HoldsKey, HoldsFirst, HoldsSecond
<1>1. ASSUME NEW a \in Attempts, Arrive(a)
      PROVE  Fresh'
  BY <1>1 DEF Arrive, Fresh, TypeOK
<1>2. ASSUME NEW a \in Attempts, Begin(a)
      PROVE  Fresh'
  BY <1>2 DEF Begin, Fresh, TypeOK
<1>3. ASSUME NEW a \in Attempts, InsertRequest(a)
      PROVE  Fresh'
  <2>1. pc'[a] = "insertBinding" => \A x \in bindings : x.request_key # req[a].request_key
    BY <1>3 DEF InsertRequest, TypeOK, LedgerAgreement, KeyEntry, Ledger!BindingOf
  <2> QED
    BY <1>3, <2>1 DEF InsertRequest, Fresh, TypeOK
<1>4. ASSUME NEW a \in Attempts, ReadExisting(a)
      PROVE  Fresh'
  BY <1>4 DEF ReadExisting, Return, Fresh, TypeOK
<1>5. ASSUME NEW a \in Attempts, InsertBinding(a)
      PROVE  Fresh'
  BY <1>5 DEF InsertBinding, Return, Fresh, TypeOK
<1>6. ASSUME NEW a \in Attempts, InsertChip(a)
      PROVE  Fresh'
  BY <1>6, CommittedEntries DEF InsertChip, InsertDevice, FirstDevice, Return, Fresh, TypeOK
<1>7. ASSUME NEW a \in Attempts, InsertBoard(a)
      PROVE  Fresh'
  BY <1>7, CommittedEntries DEF InsertBoard, InsertDevice, SecondDevice, Return, Fresh, TypeOK
<1>8. ASSUME NEW a \in Attempts, SendCommit(a)
      PROVE  Fresh'
  BY <1>8 DEF SendCommit, Fresh, TypeOK
<1>9. ASSUME NEW a \in Attempts, Commit(a)
      PROVE  Fresh'
  BY <1>9 DEF Commit, Fresh, Exclusive, TypeOK, Ledger!BindingOf
<1>10. ASSUME NEW a \in Attempts, AckCommit(a)
       PROVE  Fresh'
  BY <1>10 DEF AckCommit, Fresh, TypeOK
<1>11. ASSUME NEW a \in Attempts, Fail(a)
       PROVE  Fresh'
  BY <1>11 DEF Fail, Fresh, TypeOK
<1>12. ASSUME NEW a \in Attempts, BackendAbort(a)
       PROVE  Fresh'
  BY <1>12 DEF BackendAbort, Fresh, TypeOK
<1>13. ASSUME UNCHANGED vars
       PROVE  Fresh'
  BY <1>13 DEF vars, Fresh
<1> QED
  BY <1>1, <1>2, <1>3, <1>4, <1>5, <1>6, <1>7, <1>8, <1>9, <1>10, <1>11, <1>12, <1>13
     DEF Next, Progress, Terminated

\* Every step keeps identifiers apart: nextval never returns one twice.
LEMMA IDsDrawnOnceStep == IndInv /\ [Next]_vars => IDsDrawnOnce'
<1> SUFFICES ASSUME IndInv, [Next]_vars
             PROVE  IDsDrawnOnce'
  OBVIOUS
<1> USE DEF IndInv, Goto, HasID
<1>1. ASSUME NEW a \in Attempts, Arrive(a)
      PROVE  IDsDrawnOnce'
  BY <1>1 DEF Arrive, IDsDrawnOnce, TypeOK
<1>2. ASSUME NEW a \in Attempts, Begin(a)
      PROVE  IDsDrawnOnce'
  BY <1>2 DEF Begin, IDsDrawnOnce, TypeOK
<1>3. ASSUME NEW a \in Attempts, InsertRequest(a)
      PROVE  IDsDrawnOnce'
  BY <1>3 DEF InsertRequest, IDsDrawnOnce, TypeOK
<1>4. ASSUME NEW a \in Attempts, ReadExisting(a)
      PROVE  IDsDrawnOnce'
  BY <1>4 DEF ReadExisting, Return, IDsDrawnOnce, TypeOK
<1>5. ASSUME NEW a \in Attempts, InsertBinding(a)
      PROVE  IDsDrawnOnce'
  <2>1. CASE lastID < MaxBigint /\ lastID' = lastID + 1 /\ bid' = [bid EXCEPT ![a] = lastID + 1]
    <3>1. /\ \A b \in Attempts : b # a => pc'[b] = pc[b] /\ bid'[b] = bid[b]
          /\ bid'[a] = lastID'
          /\ bindings' = bindings
      BY <1>5, <2>1 DEF InsertBinding, Return, TypeOK
    <3>2. lastID \in Nat /\ lastID' \in Nat /\ lastID' > lastID /\ lastID' >= 1
      BY <2>1, SequenceAssumption DEF TypeOK
    <3>3. \A b \in Attempts : pc[b] \in HasID => bid[b] \in 1..lastID
      BY DEF IDsDrawnOnce
    <3>4. \A x \in bindings : x.binding_id \in Nat /\ x.binding_id <= lastID
      BY BindingFields DEF IDsDrawnOnce, TypeOK
    <3>5. \A b \in Attempts : pc'[b] \in HasID => bid'[b] \in 1..lastID'
      BY <3>1, <3>2, <3>3
    <3>6. \A b, c \in Attempts :
            b # c /\ pc'[b] \in HasID /\ pc'[c] \in HasID => bid'[b] # bid'[c]
      BY <3>1, <3>2, <3>3 DEF IDsDrawnOnce
    <3>7. /\ \A x \in bindings' : x.binding_id <= lastID'
          /\ \A b \in Attempts, x \in bindings' : pc'[b] \in HasID => x.binding_id # bid'[b]
      BY <3>1, <3>2, <3>4 DEF IDsDrawnOnce
    <3> QED
      BY <3>5, <3>6, <3>7 DEF IDsDrawnOnce
  <2>2. CASE lastID = MaxBigint /\ UNCHANGED <<lastID, bid>> /\ Return(a, Ledger!InternalError)
    BY <1>5, <2>2 DEF InsertBinding, Return, IDsDrawnOnce, TypeOK
  <2> QED
    BY <1>5, <2>1, <2>2 DEF InsertBinding
<1>6. ASSUME NEW a \in Attempts, InsertChip(a)
      PROVE  IDsDrawnOnce'
  BY <1>6 DEF InsertChip, InsertDevice, Return, IDsDrawnOnce, TypeOK
<1>7. ASSUME NEW a \in Attempts, InsertBoard(a)
      PROVE  IDsDrawnOnce'
  BY <1>7 DEF InsertBoard, InsertDevice, Return, IDsDrawnOnce, TypeOK
<1>8. ASSUME NEW a \in Attempts, SendCommit(a)
      PROVE  IDsDrawnOnce'
  BY <1>8 DEF SendCommit, IDsDrawnOnce, TypeOK
<1>9. ASSUME NEW a \in Attempts, Commit(a)
      PROVE  IDsDrawnOnce'
  BY <1>9 DEF Commit, IDsDrawnOnce, TypeOK, Ledger!BindingOf
<1>10. ASSUME NEW a \in Attempts, AckCommit(a)
       PROVE  IDsDrawnOnce'
  BY <1>10 DEF AckCommit, IDsDrawnOnce, TypeOK
<1>11. ASSUME NEW a \in Attempts, Fail(a)
       PROVE  IDsDrawnOnce'
  BY <1>11 DEF Fail, IDsDrawnOnce, TypeOK
<1>12. ASSUME NEW a \in Attempts, BackendAbort(a)
       PROVE  IDsDrawnOnce'
  BY <1>12 DEF BackendAbort, IDsDrawnOnce, TypeOK
<1>13. ASSUME UNCHANGED vars
       PROVE  IDsDrawnOnce'
  BY <1>13 DEF vars, IDsDrawnOnce
<1> QED
  BY <1>1, <1>2, <1>3, <1>4, <1>5, <1>6, <1>7, <1>8, <1>9, <1>10, <1>11, <1>12, <1>13
     DEF Next, Progress, Terminated

\* Every step keeps what pc says of the other variables.
LEMMA PhasesStep == IndInv /\ [Next]_vars => Phases'
<1> SUFFICES ASSUME IndInv, [Next]_vars
             PROVE  Phases'
  OBVIOUS
<1> USE DEF IndInv, Goto, InTransaction, Alive
<1>1. ASSUME NEW a \in Attempts, Arrive(a)
      PROVE  Phases'
  BY <1>1 DEF Arrive, Phases, TypeOK
<1>2. ASSUME NEW a \in Attempts, Begin(a)
      PROVE  Phases'
  BY <1>2 DEF Begin, Phases, TypeOK
<1>3. ASSUME NEW a \in Attempts, InsertRequest(a)
      PROVE  Phases'
  BY <1>3 DEF InsertRequest, Phases, TypeOK, KeyEntry
<1>4. ASSUME NEW a \in Attempts, ReadExisting(a)
      PROVE  Phases'
  BY <1>4 DEF ReadExisting, Return, Phases, TypeOK
<1>5. ASSUME NEW a \in Attempts, InsertBinding(a)
      PROVE  Phases'
  BY <1>5 DEF InsertBinding, Return, Phases, TypeOK
<1>6. ASSUME NEW a \in Attempts, InsertChip(a)
      PROVE  Phases'
  BY <1>6 DEF InsertChip, InsertDevice, Return, Phases, TypeOK
<1>7. ASSUME NEW a \in Attempts, InsertBoard(a)
      PROVE  Phases'
  BY <1>7 DEF InsertBoard, InsertDevice, Return, Phases, TypeOK
<1>8. ASSUME NEW a \in Attempts, SendCommit(a)
      PROVE  Phases'
  BY <1>8 DEF SendCommit, Phases, TypeOK
<1>9. ASSUME NEW a \in Attempts, Commit(a)
      PROVE  Phases'
  BY <1>9 DEF Commit, Phases, TypeOK
<1>10. ASSUME NEW a \in Attempts, AckCommit(a)
       PROVE  Phases'
  BY <1>10 DEF AckCommit, Phases, TypeOK
<1>11. ASSUME NEW a \in Attempts, Fail(a)
       PROVE  Phases'
  BY <1>11 DEF Fail, Phases, TypeOK
<1>12. ASSUME NEW a \in Attempts, BackendAbort(a)
       PROVE  Phases'
  BY <1>12 DEF BackendAbort, Phases, TypeOK
<1>13. ASSUME UNCHANGED vars
       PROVE  Phases'
  BY <1>13 DEF vars, Phases
<1> QED
  BY <1>1, <1>2, <1>3, <1>4, <1>5, <1>6, <1>7, <1>8, <1>9, <1>10, <1>11, <1>12, <1>13
     DEF Next, Progress, Terminated

\* Every step keeps the two tables in agreement: only COMMIT writes, both rows.
LEMMA LedgerAgreementStep == IndInv /\ [Next]_vars => LedgerAgreement'
<1> SUFFICES ASSUME IndInv, [Next]_vars
             PROVE  LedgerAgreement'
  OBVIOUS
<1> USE DEF IndInv, Goto
<1>1. ASSUME NEW a \in Attempts, Arrive(a)
      PROVE  LedgerAgreement'
  BY <1>1 DEF Arrive, LedgerAgreement, TypeOK
<1>2. ASSUME NEW a \in Attempts, Begin(a)
      PROVE  LedgerAgreement'
  BY <1>2 DEF Begin, LedgerAgreement, TypeOK
<1>3. ASSUME NEW a \in Attempts, InsertRequest(a)
      PROVE  LedgerAgreement'
  BY <1>3 DEF InsertRequest, LedgerAgreement, TypeOK
<1>4. ASSUME NEW a \in Attempts, ReadExisting(a)
      PROVE  LedgerAgreement'
  BY <1>4 DEF ReadExisting, Return, LedgerAgreement, TypeOK
<1>5. ASSUME NEW a \in Attempts, InsertBinding(a)
      PROVE  LedgerAgreement'
  BY <1>5 DEF InsertBinding, Return, LedgerAgreement, TypeOK
<1>6. ASSUME NEW a \in Attempts, InsertChip(a)
      PROVE  LedgerAgreement'
  BY <1>6 DEF InsertChip, InsertDevice, Return, LedgerAgreement, TypeOK
<1>7. ASSUME NEW a \in Attempts, InsertBoard(a)
      PROVE  LedgerAgreement'
  BY <1>7 DEF InsertBoard, InsertDevice, Return, LedgerAgreement, TypeOK
<1>8. ASSUME NEW a \in Attempts, SendCommit(a)
      PROVE  LedgerAgreement'
  BY <1>8 DEF SendCommit, LedgerAgreement, TypeOK
<1>9. ASSUME NEW a \in Attempts, Commit(a)
      PROVE  LedgerAgreement'
  <2>1. req[a] \in Payloads /\ \A x \in bindings : x.request_key # req[a].request_key
    BY <1>9 DEF Commit, Phases, Fresh, HoldsKey
  <2>2. Ledger!BindingOf(bid[a], req[a]).binding_id = bid[a]
    BY DEF Ledger!BindingOf
  <2>3. \A r \in requests : r.request_key # req[a].request_key
    BY <2>1 DEF LedgerAgreement, Ledger!BindingOf
  <2> QED
    BY <1>9, <2>2, <2>3 DEF Commit, LedgerAgreement
<1>10. ASSUME NEW a \in Attempts, AckCommit(a)
       PROVE  LedgerAgreement'
  BY <1>10 DEF AckCommit, LedgerAgreement, TypeOK
<1>11. ASSUME NEW a \in Attempts, Fail(a)
       PROVE  LedgerAgreement'
  BY <1>11 DEF Fail, LedgerAgreement, TypeOK
<1>12. ASSUME NEW a \in Attempts, BackendAbort(a)
       PROVE  LedgerAgreement'
  BY <1>12 DEF BackendAbort, LedgerAgreement, TypeOK
<1>13. ASSUME UNCHANGED vars
       PROVE  LedgerAgreement'
  BY <1>13 DEF vars, LedgerAgreement
<1> QED
  BY <1>1, <1>2, <1>3, <1>4, <1>5, <1>6, <1>7, <1>8, <1>9, <1>10, <1>11, <1>12, <1>13
     DEF Next, Progress, Terminated

\* Every step keeps the bindings one to one: a committed row was fresh.
LEMMA OneToOneStep == IndInv /\ [Next]_vars => OneToOne'
<1> SUFFICES ASSUME IndInv, [Next]_vars
             PROVE  OneToOne'
  OBVIOUS
<1> USE DEF IndInv, Goto
<1>1. ASSUME NEW a \in Attempts, Arrive(a)
      PROVE  OneToOne'
  BY <1>1 DEF Arrive, OneToOne, TypeOK
<1>2. ASSUME NEW a \in Attempts, Begin(a)
      PROVE  OneToOne'
  BY <1>2 DEF Begin, OneToOne, TypeOK
<1>3. ASSUME NEW a \in Attempts, InsertRequest(a)
      PROVE  OneToOne'
  BY <1>3 DEF InsertRequest, OneToOne, TypeOK
<1>4. ASSUME NEW a \in Attempts, ReadExisting(a)
      PROVE  OneToOne'
  BY <1>4 DEF ReadExisting, Return, OneToOne, TypeOK
<1>5. ASSUME NEW a \in Attempts, InsertBinding(a)
      PROVE  OneToOne'
  BY <1>5 DEF InsertBinding, Return, OneToOne, TypeOK
<1>6. ASSUME NEW a \in Attempts, InsertChip(a)
      PROVE  OneToOne'
  BY <1>6 DEF InsertChip, InsertDevice, Return, OneToOne, TypeOK
<1>7. ASSUME NEW a \in Attempts, InsertBoard(a)
      PROVE  OneToOne'
  BY <1>7 DEF InsertBoard, InsertDevice, Return, OneToOne, TypeOK
<1>8. ASSUME NEW a \in Attempts, SendCommit(a)
      PROVE  OneToOne'
  BY <1>8 DEF SendCommit, OneToOne, TypeOK
<1>9. ASSUME NEW a \in Attempts, Commit(a)
      PROVE  OneToOne'
  <2>1. \A x \in bindings : /\ x.request_key # req[a].request_key
                            /\ x.chip_uid # req[a].chip_uid
                            /\ x.board_serial # req[a].board_serial
                            /\ x.binding_id # bid[a]
    BY <1>9 DEF Commit, Fresh, HoldsKey, HoldsFirst, HoldsSecond, IDsDrawnOnce, HasID
  <2> QED
    BY <1>9, <2>1 DEF Commit, OneToOne, Ledger!BindingOf
<1>10. ASSUME NEW a \in Attempts, AckCommit(a)
       PROVE  OneToOne'
  BY <1>10 DEF AckCommit, OneToOne, TypeOK
<1>11. ASSUME NEW a \in Attempts, Fail(a)
       PROVE  OneToOne'
  BY <1>11 DEF Fail, OneToOne, TypeOK
<1>12. ASSUME NEW a \in Attempts, BackendAbort(a)
       PROVE  OneToOne'
  BY <1>12 DEF BackendAbort, OneToOne, TypeOK
<1>13. ASSUME UNCHANGED vars
       PROVE  OneToOne'
  BY <1>13 DEF vars, OneToOne
<1> QED
  BY <1>1, <1>2, <1>3, <1>4, <1>5, <1>6, <1>7, <1>8, <1>9, <1>10, <1>11, <1>12, <1>13
     DEF Next, Progress, Terminated

-----------------------------------------------------------------------------
(* The invariant, and what follows from it at once.                         *)

\* Empty tables satisfy the invariant.
LEMMA InitIndInv == Init => IndInv
<1> SUFFICES ASSUME Init
             PROVE  IndInv
  OBVIOUS
<1>1. TypeOK
  BY SequenceAssumption DEF Init, TypeOK
<1>2. Exclusive /\ Fresh /\ LedgerAgreement /\ OneToOne
  BY DEF Init, Exclusive, Fresh, LedgerAgreement, OneToOne, HoldsKey, HoldsFirst, HoldsSecond
<1>3. IDsDrawnOnce /\ Phases
  BY DEF Init, IDsDrawnOnce, Phases, HasID, InTransaction, Alive
<1> QED
  BY <1>1, <1>2, <1>3 DEF IndInv

\* The inductive invariant holds in every reachable state.
THEOREM IndInvariant == Spec => []IndInv
<1>1. IndInv /\ [Next]_vars => IndInv'
  BY TypeStep, ExclusiveStep, FreshStep, IDsDrawnOnceStep, PhasesStep,
     LedgerAgreementStep, OneToOneStep DEF IndInv
<1> QED
  BY InitIndInv, <1>1, PTL DEF Spec

\* Every variable has its type: no row, answer or identifier outside the
\* domains of 0001_init.sql and types.go.
THEOREM TypeInvariant == Spec => []TypeOK
BY IndInvariant, PTL DEF IndInv

\* A chip, a board and a request key are in at most one committed binding
\* (0001_init.sql:15-18), for any number of racing attempts.
THEOREM OneToOneInvariant == Spec => []OneToOne
BY IndInvariant, PTL DEF IndInv

\* The request ledger and the bindings never disagree (store.go:67-72).
THEOREM LedgerAgreementInvariant == Spec => []LedgerAgreement
BY IndInvariant, PTL DEF IndInv

-----------------------------------------------------------------------------
(* Rows, lookups and replays.                                               *)

\* No step takes a committed row away.
LEMMA RowsOnlyGrow == [Next]_vars => requests \subseteq requests' /\ bindings \subseteq bindings'
BY DEF Next, Progress, Terminated, vars, Arrive, Begin, InsertRequest, ReadExisting,
       InsertBinding, InsertChip, InsertBoard, InsertDevice, SendCommit, Commit,
       AckCommit, Fail, BackendAbort

\* No step updates or deletes a row (store.go:72, 0001_init.sql:1-2).
THEOREM RowsImmutableHolds == Spec => RowsImmutable
BY RowsOnlyGrow, PTL DEF Spec, RowsImmutable

\* The join of the two tables is the table of bindings.
LEMMA JoinedIsBindings ==
  ASSUME TypeOK, LedgerAgreement, OneToOne
  PROVE  Joined = bindings
<1>1. ASSUME NEW x \in Joined
      PROVE  x \in bindings
  <2>1. PICK y \in requests \X bindings :
          /\ y[1].request_key = y[2].request_key
          /\ x = Ledger!BindingOf(y[2].binding_id, y[1])
    BY DEF Joined
  <2>2. PICK b \in bindings : b = Ledger!BindingOf(b.binding_id, y[1])
    BY <2>1 DEF LedgerAgreement
  <2>3. b = y[2]
    BY <2>1, <2>2 DEF OneToOne, Ledger!BindingOf
  <2> QED
    BY <2>1, <2>2, <2>3
<1>2. ASSUME NEW b \in bindings
      PROVE  b \in Joined
  <2>1. PICK r \in requests : b = Ledger!BindingOf(b.binding_id, r)
    BY DEF LedgerAgreement
  <2>2. r.request_key = b.request_key
    BY <2>1 DEF Ledger!BindingOf
  <2>3. /\ <<r, b>> \in requests \X bindings
        /\ <<r, b>>[1].request_key = <<r, b>>[2].request_key
        /\ b = Ledger!BindingOf(<<r, b>>[2].binding_id, <<r, b>>[1])
    BY <2>1, <2>2
  <2> QED
    BY <2>3 DEF Joined
<1> QED
  BY <1>1, <1>2

\* A replay always finds the record it replays (store.go:87-89).
THEOREM ReplayInvariant == Spec => []ReplayFindsOriginal
<1>1. IndInv => ReplayFindsOriginal
  <2> SUFFICES ASSUME IndInv, NEW a \in Attempts, pc[a] = "readExisting"
               PROVE  GetBy("request_key", req[a].request_key) # {}
    BY DEF ReplayFindsOriginal
  <2>1. PICK r \in requests : r.request_key = req[a].request_key
    BY DEF IndInv, Phases
  <2>2. PICK b \in bindings : b = Ledger!BindingOf(b.binding_id, r)
    BY DEF IndInv, LedgerAgreement
  <2>3. b["request_key"] = req[a].request_key
    BY <2>1, <2>2 DEF Ledger!BindingOf
  <2>4. b \in Joined
    BY JoinedIsBindings DEF IndInv
  <2> QED
    BY <2>3, <2>4 DEF GetBy
<1> QED
  BY <1>1, IndInvariant, PTL

\* A lookup that filters bindings before the join selects from the bindings.
LEMMA JoinedFromIsSelection ==
  ASSUME TypeOK, LedgerAgreement, OneToOne, NEW column, NEW value
  PROVE  JoinedFrom(column, value) = {b \in bindings : b[column] = value}
<1>1. \A y \in requests \X bindings :
        y[1].request_key = y[2].request_key => Ledger!BindingOf(y[2].binding_id, y[1]) = y[2]
  <2> TAKE y \in requests \X bindings
  <2> HAVE y[1].request_key = y[2].request_key
  <2>1. PICK b \in bindings : b = Ledger!BindingOf(b.binding_id, y[1])
    BY DEF LedgerAgreement
  <2>2. b = y[2]
    BY <2>1 DEF OneToOne, Ledger!BindingOf
  <2> QED
    BY <2>1, <2>2
<1>2. ASSUME NEW b \in bindings, b[column] = value
      PROVE  b \in JoinedFrom(column, value)
  <2>1. PICK r \in requests : b = Ledger!BindingOf(b.binding_id, r)
    BY DEF LedgerAgreement
  <2>2. r.request_key = b.request_key
    BY <2>1 DEF Ledger!BindingOf
  <2>3. /\ <<r, b>> \in requests \X bindings
        /\ <<r, b>>[2][column] = value
        /\ <<r, b>>[1].request_key = <<r, b>>[2].request_key
        /\ b = Ledger!BindingOf(<<r, b>>[2].binding_id, <<r, b>>[1])
    BY <1>2, <2>1, <2>2
  <2> QED
    BY <2>3 DEF JoinedFrom
<1>3. ASSUME NEW x \in JoinedFrom(column, value)
      PROVE  x \in bindings /\ x[column] = value
  BY <1>1 DEF JoinedFrom
<1> QED
  BY <1>2, <1>3

\* Single lookups and batch lookups find the same record, exactly one for every
\* identifier that is stored (store.go:174-178).
THEOREM LookupsAgreeInvariant == Spec => []LookupsAgree
<1> DEFINE Columns == {"request_key", "chip_uid", "board_serial"}
<1>1. ASSUME IndInv, NEW column \in Columns,
             NEW row \in requests \cup bindings, NEW value, value = row[column]
      PROVE  /\ GetBy(column, value) = JoinedFrom(column, value)
             /\ Cardinality(GetBy(column, value)) = 1
  <2>1. GetBy(column, value) = {b \in bindings : b[column] = value}
    BY <1>1, JoinedIsBindings DEF IndInv, GetBy
  <2>2. JoinedFrom(column, value) = {b \in bindings : b[column] = value}
    BY <1>1, JoinedFromIsSelection DEF IndInv
  <2>3. PICK b \in bindings : b[column] = value
    <3>1. CASE row \in bindings
      BY <1>1, <3>1
    <3>2. CASE row \in requests
      <4>1. PICK b \in bindings : b = Ledger!BindingOf(b.binding_id, row)
        BY <1>1, <3>2 DEF IndInv, LedgerAgreement
      <4>2. b[column] = row[column]
        BY <4>1 DEF Ledger!BindingOf
      <4> QED
        BY <1>1, <4>2
    <3> QED
      BY <3>1, <3>2
  <2>4. \A c \in bindings : c[column] = value => c = b
    BY <1>1, <2>3 DEF IndInv, OneToOne
  <2>5. GetBy(column, value) = {b}
    BY <2>1, <2>3, <2>4
  <2> QED
    BY <2>1, <2>2, <2>5, FS_Singleton
<1>2. IndInv => LookupsAgree
  BY <1>1 DEF LookupsAgree
<1> QED
  BY <1>2, IndInvariant, PTL

-----------------------------------------------------------------------------
(* Deadlock.                                                                *)

\* Waiting for index entries goes up the order insertRequest, chipIndex,
\* boardIndex, and whoever holds a board waits for nothing: this is why every
\* create must insert in the same order.  Among creates that all wait, none
\* waits for an entry.
LEMMA EntriesAreOrdered ==
  ASSUME NEW C \in SUBSET Attempts,
         \A a \in C : (\E b \in C : WaitsForLock(a, b)) \/ NeedsConn(a)
  PROVE  \A a \in C : pc[a] = "begin"
<1>1. \A a \in C : pc[a] \in {"begin", "insertRequest", "chipIndex", "boardIndex"}
  BY DEF WaitsForLock, NeedsConn, Needed
<1>2. \A a \in C : pc[a] # "boardIndex"
  <2> SUFFICES ASSUME NEW a \in C, pc[a] = "boardIndex"
               PROVE  FALSE
    OBVIOUS
  <2>1. PICK b \in C : Needed(a) \cap Held(b) # {}
    BY DEF WaitsForLock, NeedsConn
  <2>2. pc[b] \in HoldsSecond
    BY <2>1 DEF Needed, Held, KeyEntry, FirstDevice, SecondDevice, ChipEntry, BoardEntry
  <2> QED
    BY <1>1, <2>2 DEF HoldsSecond
<1>3. \A a \in C : pc[a] # "chipIndex"
  <2> SUFFICES ASSUME NEW a \in C, pc[a] = "chipIndex"
               PROVE  FALSE
    OBVIOUS
  <2>1. PICK b \in C : Needed(a) \cap Held(b) # {}
    BY DEF WaitsForLock, NeedsConn
  <2>2. pc[b] \in HoldsFirst
    BY <2>1 DEF Needed, Held, KeyEntry, FirstDevice, SecondDevice, ChipEntry, BoardEntry
  <2> QED
    BY <1>1, <1>2, <2>2 DEF HoldsFirst
<1>4. \A a \in C : pc[a] # "insertRequest"
  <2> SUFFICES ASSUME NEW a \in C, pc[a] = "insertRequest"
               PROVE  FALSE
    OBVIOUS
  <2>1. PICK b \in C : Needed(a) \cap Held(b) # {}
    BY DEF WaitsForLock, NeedsConn
  <2>2. pc[b] \in HoldsKey
    BY <2>1 DEF Needed, Held, KeyEntry, FirstDevice, SecondDevice, ChipEntry, BoardEntry
  <2> QED
    BY <1>1, <1>2, <1>3, <2>2 DEF HoldsKey
<1> QED
  BY <1>1, <1>2, <1>3, <1>4

\* Nor do they wait for connections: whoever has one is past BEGIN.
LEMMA HoldersAreBeyondBegin ==
  ASSUME NEW C \in SUBSET Attempts, \A a \in C : pc[a] = "begin", Holders \subseteq C
  PROVE  Holders = {}
  BY DEF Holders, HoldsConn, InTransaction

\* No set of attempts waits on itself (store.go:81-90).
THEOREM NoDeadlockInvariant == Spec => []NoDeadlock
<1>1. ASSUME NEW C \in SUBSET Attempts, C # {}, \A a \in C : BlockedWithin(a, C)
      PROVE  FALSE
  <2>1. \A a \in C : pc[a] = "begin"
    BY <1>1, EntriesAreOrdered DEF BlockedWithin, WaitsForConn
  <2>2. PICK a \in C : TRUE
    BY <1>1
  <2>3. Cardinality(Holders) >= PoolSize /\ Holders \subseteq C
    BY <1>1, <2>1, <2>2 DEF BlockedWithin, WaitsForLock, WaitsForConn, Needed
  <2> QED
    BY <2>1, <2>3, HoldersAreBeyondBegin, FS_EmptySet, PoolAssumption
<1>2. NoDeadlock
  BY <1>1 DEF NoDeadlock
<1> QED
  BY <1>2, PTL

-----------------------------------------------------------------------------
(* Answers.                                                                 *)

\* The fields of the answers (store.go:36-44).
LEMMA AnswerFields ==
  /\ Ledger!InternalError.outcome = "internal_error"
  /\ \A b : /\ Ledger!Created(b).outcome = "created"
            /\ Ledger!Created(b).binding = b
            /\ Ledger!Replayed(b).outcome = "replayed"
            /\ Ledger!Replayed(b).binding = b
            /\ Ledger!KeyConflict(b).outcome = "request_key_conflict"
            /\ Ledger!KeyConflict(b).binding = b
  /\ \A f : /\ Ledger!DeviceOccupied(f).outcome = "device_occupied"
            /\ Ledger!DeviceOccupied(f).field = f
  BY DEF Ledger!InternalError, Ledger!Created, Ledger!Replayed, Ledger!KeyConflict,
         Ledger!DeviceOccupied, Ledger!CreateResult

\* An answer given is never changed, nor what it rests on.
LEMMA AnswersStand ==
  ASSUME IndInv, [Next]_vars, NEW a \in Attempts, answer[a] # NoAnswer
  PROVE  /\ answer'[a] = answer[a]
         /\ req'[a] = req[a]
         /\ \/ answer[a] = Ledger!InternalError
            \/ pc'[a] = pc[a] /\ bid'[a] = bid[a]
<1> USE DEF IndInv, Alive, Goto, TypeOK
<1>1. pc[a] \notin {"idle", "begin"}
  BY DEF Phases
<1>2. pc[a] \in InTransaction => answer[a] = Ledger!InternalError
  BY DEF Phases
<1>3. ASSUME NEW b \in Attempts,
             Arrive(b) \/ Begin(b) \/ SendCommit(b) \/ Commit(b) \/ AckCommit(b) \/ Fail(b)
      PROVE  answer'[a] = answer[a] /\ req'[a] = req[a]
             /\ (answer[a] = Ledger!InternalError \/ (pc'[a] = pc[a] /\ bid'[a] = bid[a]))
  BY <1>1, <1>2, <1>3 DEF Arrive, Begin, SendCommit, Commit, AckCommit, Fail, InTransaction
<1>4. ASSUME NEW b \in Attempts,
             InsertRequest(b) \/ ReadExisting(b) \/ InsertBinding(b) \/ BackendAbort(b)
      PROVE  answer'[a] = answer[a] /\ req'[a] = req[a]
             /\ (answer[a] = Ledger!InternalError \/ (pc'[a] = pc[a] /\ bid'[a] = bid[a]))
  BY <1>1, <1>2, <1>4 DEF InsertRequest, ReadExisting, InsertBinding, BackendAbort, Return,
                          InTransaction
<1>5. ASSUME NEW b \in Attempts, InsertChip(b) \/ InsertBoard(b)
      PROVE  answer'[a] = answer[a] /\ req'[a] = req[a]
             /\ (answer[a] = Ledger!InternalError \/ (pc'[a] = pc[a] /\ bid'[a] = bid[a]))
  BY <1>1, <1>2, <1>5 DEF InsertChip, InsertBoard, InsertDevice, Return, InTransaction
<1> QED
  BY <1>3, <1>4, <1>5 DEF Next, Progress, Terminated, vars

\* Who was told the truth stays told the truth: rows are never taken back.
LEMMA HonestyStands ==
  ASSUME IndInv, [Next]_vars, NEW a \in Attempts, answer[a] # NoAnswer,
         Honest(a, answer[a])
  PROVE  Honest(a, answer[a])'
<1>1. CASE answer[a] = Ledger!InternalError
  BY <1>1, AnswersStand, AnswerFields DEF Honest
<1>2. CASE pc'[a] = pc[a] /\ bid'[a] = bid[a]
  BY <1>2, AnswersStand, RowsOnlyGrow DEF Honest
<1> QED
  BY <1>1, <1>2, AnswersStand

\* Every new answer is honest.
LEMMA NewAnswerHonest ==
  ASSUME IndInv, NEW a \in Attempts, Progress(a) \/ Fail(a),
         answer[a] = NoAnswer, answer'[a] # NoAnswer
  PROVE  Honest(a, answer[a])'
<1> USE DEF IndInv, Alive
<1>1. req[a] \in Payloads /\ answer \in [Attempts -> Ledger!Answers \cup {NoAnswer}]
  BY DEF Phases, TypeOK, Progress, Begin, InsertRequest, ReadExisting, InsertBinding,
         InsertChip, InsertBoard, SendCommit, Commit, AckCommit, Fail, BackendAbort,
         InTransaction
<1>2. CASE ReadExisting(a)
  <2>1. /\ bindings' = bindings /\ req' = req
        /\ \/ answer'[a] = Ledger!InternalError
           \/ \E x \in GetBy("request_key", req[a].request_key) :
                answer'[a] = Ledger!AnswerExisting(x, req[a])
    BY <1>1, <1>2 DEF ReadExisting, Return
  <2>2. CASE answer'[a] = Ledger!InternalError
    BY <2>2, AnswerFields DEF Honest
  <2>3. ASSUME NEW x \in GetBy("request_key", req[a].request_key),
               answer'[a] = Ledger!AnswerExisting(x, req[a])
        PROVE  Honest(a, answer[a])'
    <3>1. x \in bindings /\ x.request_key = req[a].request_key
      BY JoinedIsBindings DEF GetBy
    <3>2. CASE Ledger!SamePayload(x, req[a])
      <4>1. answer'[a] = Ledger!Replayed(x)
        BY <2>3, <3>2 DEF Ledger!AnswerExisting
      <4>2. x = Ledger!BindingOf(x.binding_id, req[a])
        BY <3>1, <3>2 DEF TypeOK, Ledger!Bindings, Ledger!BindingOf, Ledger!SamePayload
      <4> QED
        BY <2>1, <3>1, <4>1, <4>2, AnswerFields DEF Honest
    <3>3. CASE ~ Ledger!SamePayload(x, req[a])
      <4>1. answer'[a] = Ledger!KeyConflict(x)
        BY <2>3, <3>3 DEF Ledger!AnswerExisting
      <4> QED
        BY <2>1, <3>1, <3>3, <4>1, AnswerFields DEF Honest
    <3> QED
      BY <3>2, <3>3
  <2> QED
    BY <2>1, <2>2, <2>3
<1>3. CASE InsertBinding(a)
  <2>1. answer'[a] = Ledger!InternalError
    BY <1>1, <1>3 DEF InsertBinding, Return
  <2> QED
    BY <2>1, AnswerFields DEF Honest
<1>4. CASE InsertChip(a)
  <2>1. /\ bindings' = bindings /\ req' = req
        /\ answer'[a] = Ledger!DeviceOccupied("chip_uid")
        /\ \E b \in bindings : b.chip_uid = req[a].chip_uid
    BY <1>1, <1>4, DeviceTags, CommittedEntries
       DEF InsertChip, InsertDevice, Return, FirstDevice
  <2>2. \A b \in bindings : b.request_key # req[a].request_key
    BY <1>4 DEF InsertChip, Fresh, HoldsKey
  <2> QED
    BY <2>1, <2>2, AnswerFields DEF Honest
<1>5. CASE InsertBoard(a)
  <2>1. /\ bindings' = bindings /\ req' = req
        /\ answer'[a] = Ledger!DeviceOccupied("board_serial")
        /\ \E b \in bindings : b.board_serial = req[a].board_serial
    BY <1>1, <1>5, DeviceTags, CommittedEntries
       DEF InsertBoard, InsertDevice, Return, SecondDevice
  <2>2. \A b \in bindings : b.request_key # req[a].request_key
    BY <1>5 DEF InsertBoard, Fresh, HoldsKey
  <2> QED
    BY <2>1, <2>2, AnswerFields DEF Honest
<1>6. CASE AckCommit(a)
  <2>1. /\ answer'[a] = Ledger!Created(Ledger!BindingOf(bid[a], req[a]))
        /\ pc'[a] = "committed"
        /\ Ledger!BindingOf(bid[a], req[a]) \in bindings'
        /\ bid' = bid /\ req' = req
    BY <1>1, <1>6 DEF AckCommit, Phases
  <2> QED
    BY <2>1, AnswerFields DEF Honest
<1>7. CASE Fail(a)
  <2>1. answer'[a] = Ledger!InternalError
    BY <1>1, <1>7 DEF Fail
  <2> QED
    BY <2>1, AnswerFields DEF Honest
<1> QED
  BY <1>2, <1>3, <1>4, <1>5, <1>6, <1>7
     DEF Progress, Begin, InsertRequest, SendCommit, Commit, BackendAbort

\* No answer is ever contradicted by the ledger, then or later (store.go:22-34).
THEOREM AnswersHonestInvariant == Spec => []AnswersHonest
<1>1. Init => AnswersHonest
  BY DEF Init, AnswersHonest
<1>2. IndInv /\ AnswersHonest /\ [Next]_vars => AnswersHonest'
  <2> SUFFICES ASSUME IndInv, AnswersHonest, [Next]_vars,
                      NEW a \in Attempts, answer'[a] # NoAnswer
               PROVE  Honest(a, answer[a])'
    BY DEF AnswersHonest
  <2>1. CASE answer[a] # NoAnswer
    BY <2>1, HonestyStands DEF AnswersHonest
  <2>2. CASE answer[a] = NoAnswer
    <3>1. Progress(a) \/ Fail(a)
      BY <2>2 DEF IndInv, TypeOK, Next, Progress, Terminated, vars, Arrive, Begin,
                  InsertRequest, ReadExisting, InsertBinding, InsertChip, InsertBoard,
                  InsertDevice, Return, SendCommit, Commit, AckCommit, Fail, BackendAbort
    <3> QED
      BY <2>2, <3>1, NewAnswerHonest
  <2> QED
    BY <2>1, <2>2
<1> QED
  BY <1>1, <1>2, IndInvariant, PTL DEF Spec

\* Rows come from attempts whose COMMIT took effect and from nothing else
\* (store.go:106-107).
THEOREM NoTraceInvariant == Spec => []RejectedLeaveNoTrace
<1>1. Init => RejectedLeaveNoTrace
  BY DEF Init, RejectedLeaveNoTrace
<1>2. IndInv /\ RejectedLeaveNoTrace /\ [Next]_vars => RejectedLeaveNoTrace'
  <2> SUFFICES ASSUME IndInv, RejectedLeaveNoTrace, [Next]_vars
               PROVE  RejectedLeaveNoTrace'
    OBVIOUS
  <2>1. \A a \in Attempts : pc[a] = "committed" =>
          pc'[a] = "committed" /\ req'[a] = req[a] /\ bid'[a] = bid[a]
    BY DEF IndInv, TypeOK, Next, Progress, Terminated, vars, Arrive, Begin, Goto,
           InsertRequest, ReadExisting, InsertBinding, InsertChip, InsertBoard,
           InsertDevice, Return, SendCommit, Commit, AckCommit, Fail, BackendAbort,
           InTransaction
  <2>2. \/ requests' = requests /\ bindings' = bindings
        \/ \E a \in Attempts : Commit(a)
    BY DEF Next, Progress, Terminated, vars, Arrive, Begin, InsertRequest, ReadExisting,
           InsertBinding, InsertChip, InsertBoard, InsertDevice, SendCommit, AckCommit,
           Fail, BackendAbort
  <2>3. CASE requests' = requests /\ bindings' = bindings
    BY <2>1, <2>3 DEF RejectedLeaveNoTrace
  <2>4. ASSUME NEW a \in Attempts, Commit(a)
        PROVE  RejectedLeaveNoTrace'
    <3>1. pc'[a] = "committed" /\ req'[a] = req[a] /\ bid'[a] = bid[a]
      BY <2>4 DEF Commit, Goto, IndInv, TypeOK
    <3> QED
      BY <2>1, <2>4, <3>1 DEF Commit, RejectedLeaveNoTrace
  <2> QED
    BY <2>2, <2>3, <2>4
<1> QED
  BY <1>1, <1>2, IndInvariant, PTL DEF Spec

-----------------------------------------------------------------------------
(* Store.Create implements BindingLedger.                                   *)

\* A step that commits nothing, keeps the requests and gives no answer is
\* invisible in the ledger.
LEMMA Invisible ==
  ASSUME UNCHANGED <<bindings, req, answer>>,
         \A b \in Attempts : pc'[b] = "committed" <=> pc[b] = "committed"
  PROVE  UNCHANGED Ledger!ledgerVars
  BY DEF Ledger!ledgerVars

\* A step that ends a's transaction with the verdict v of the ledger.
LEMMA DecideStep ==
  ASSUME TypeOK, NEW a \in Attempts, req[a] # NoReq, answer[a] = NoAnswer,
         UNCHANGED <<bindings, req>>,
         \A b \in Attempts : pc'[b] = "committed" <=> pc[b] = "committed",
         NEW v \in Ledger!Verdicts(a) \cup {Ledger!InternalError},
         answer' = [answer EXCEPT ![a] = v]
  PROVE  Ledger!Decide(a) \/ Ledger!GiveUp(a)
<1>1. {b \in Attempts : pc'[b] = "committed"} = {b \in Attempts : pc[b] = "committed"}
  OBVIOUS
<1>2. CASE v \in Ledger!Verdicts(a)
  BY <1>1, <1>2 DEF Ledger!Decide
<1>3. CASE v = Ledger!InternalError
  BY <1>1, <1>3 DEF Ledger!GiveUp
<1> QED
  BY <1>2, <1>3

\* Every step of BindingStore is a step of BindingLedger or invisible in it.
LEMMA RefinementStep == IndInv /\ [Next]_vars => [Ledger!Next]_Ledger!ledgerVars
<1> SUFFICES ASSUME IndInv, [Next]_vars
             PROVE  [Ledger!Next]_Ledger!ledgerVars
  OBVIOUS
<1> USE DEF IndInv, Goto
<1>0. \A a \in Attempts : pc[a] # "idle" => req[a] # NoReq
  BY SentinelAssumption DEF Phases
<1>1. ASSUME NEW a \in Attempts, Arrive(a)
      PROVE  Ledger!Submit(a)
  <2>1. req[a] = NoReq /\ bindings' = bindings /\ answer' = answer
    BY <1>1 DEF Arrive, Phases
  <2>2. \E p \in Payloads : req' = [req EXCEPT ![a] = p]
    BY <1>1 DEF Arrive
  <2>3. {b \in Attempts : pc'[b] = "committed"} = {b \in Attempts : pc[b] = "committed"}
    BY <1>1 DEF Arrive, TypeOK
  <2> QED
    BY <2>1, <2>2, <2>3 DEF Ledger!Submit, Payloads
<1>2. ASSUME NEW a \in Attempts, Begin(a) \/ InsertRequest(a) \/ SendCommit(a) \/ BackendAbort(a)
      PROVE  UNCHANGED Ledger!ledgerVars
  <2>1. \A b \in Attempts : pc'[b] = "committed" <=> pc[b] = "committed"
    BY <1>2 DEF Begin, InsertRequest, SendCommit, BackendAbort, InTransaction, TypeOK
  <2> QED
    BY <1>2, <2>1, Invisible DEF Begin, InsertRequest, SendCommit, BackendAbort
<1>3. ASSUME NEW a \in Attempts, NEW res, Return(a, res), UNCHANGED <<bindings, req>>,
             pc[a] # "committed", pc[a] # "idle",
             res \in Ledger!Verdicts(a) \cup {Ledger!InternalError}
      PROVE  Ledger!Decide(a) \/ Ledger!GiveUp(a) \/ UNCHANGED Ledger!ledgerVars
  <2>1. \A b \in Attempts : pc'[b] = "committed" <=> pc[b] = "committed"
    BY <1>3 DEF Return, TypeOK
  <2>2. CASE Alive(a)
    BY <1>0, <1>3, <2>1, <2>2, DecideStep DEF Return, Alive
  <2>3. CASE ~ Alive(a)
    BY <1>3, <2>1, <2>3, Invisible DEF Return
  <2> QED
    BY <2>2, <2>3
<1>4. ASSUME NEW a \in Attempts, ReadExisting(a)
      PROVE  Ledger!Decide(a) \/ Ledger!GiveUp(a) \/ UNCHANGED Ledger!ledgerVars
  <2>1. CASE Return(a, Ledger!InternalError)
    BY <1>3, <1>4, <2>1 DEF ReadExisting
  <2>2. ASSUME NEW x \in GetBy("request_key", req[a].request_key),
               Return(a, Ledger!AnswerExisting(x, req[a]))
        PROVE  Ledger!Decide(a) \/ Ledger!GiveUp(a) \/ UNCHANGED Ledger!ledgerVars
    <3>1. x \in bindings /\ x.request_key = req[a].request_key
      BY JoinedIsBindings DEF GetBy
    <3>2. Ledger!AnswerExisting(x, req[a]) \in Ledger!Verdicts(a)
      BY <1>4, <3>1 DEF ReadExisting, Ledger!Verdicts, Ledger!KeyTaken
    <3> QED
      BY <1>3, <1>4, <2>2, <3>2 DEF ReadExisting
  <2> QED
    BY <1>4, <2>1, <2>2 DEF ReadExisting
<1>5. ASSUME NEW a \in Attempts, InsertBinding(a)
      PROVE  Ledger!Decide(a) \/ Ledger!GiveUp(a) \/ UNCHANGED Ledger!ledgerVars
  <2>1. CASE Return(a, Ledger!InternalError)
    BY <1>3, <1>5, <2>1 DEF InsertBinding
  <2>2. CASE Goto(a, "chipIndex") /\ UNCHANGED answer
    BY <1>5, <2>2, Invisible DEF InsertBinding, TypeOK
  <2> QED
    BY <1>5, <2>1, <2>2 DEF InsertBinding
<1>6. ASSUME NEW a \in Attempts, InsertChip(a)
      PROVE  Ledger!Decide(a) \/ Ledger!GiveUp(a) \/ UNCHANGED Ledger!ledgerVars
  <2>1. CASE Committed(FirstDevice(a))
    <3>1. Ledger!ChipTaken(req[a]) /\ ~ Ledger!KeyTaken(req[a])
      BY <1>6, <2>1, CommittedEntries
         DEF InsertChip, FirstDevice, Fresh, HoldsKey, Ledger!ChipTaken, Ledger!KeyTaken
    <3>2. Ledger!DeviceOccupied("chip_uid") \in Ledger!Verdicts(a)
      BY <1>6, <3>1 DEF InsertChip, Ledger!Verdicts
    <3> QED
      BY <1>3, <1>6, <2>1, <3>2, DeviceTags DEF InsertChip, InsertDevice
  <2>2. CASE ~ Committed(FirstDevice(a))
    BY <1>6, <2>2, Invisible DEF InsertChip, InsertDevice, TypeOK
  <2> QED
    BY <2>1, <2>2
<1>7. ASSUME NEW a \in Attempts, InsertBoard(a)
      PROVE  Ledger!Decide(a) \/ Ledger!GiveUp(a) \/ UNCHANGED Ledger!ledgerVars
  <2>1. CASE Committed(SecondDevice(a))
    <3>1. Ledger!BoardTaken(req[a]) /\ ~ Ledger!KeyTaken(req[a]) /\ ~ Ledger!ChipTaken(req[a])
      BY <1>7, <2>1, CommittedEntries
         DEF InsertBoard, SecondDevice, Fresh, HoldsKey, HoldsFirst, Ledger!BoardTaken,
             Ledger!ChipTaken, Ledger!KeyTaken
    <3>2. Ledger!DeviceOccupied("board_serial") \in Ledger!Verdicts(a)
      BY <1>7, <3>1 DEF InsertBoard, Ledger!Verdicts
    <3> QED
      BY <1>3, <1>7, <2>1, <3>2, DeviceTags DEF InsertBoard, InsertDevice
  <2>2. CASE ~ Committed(SecondDevice(a))
    BY <1>7, <2>2, Invisible DEF InsertBoard, InsertDevice, TypeOK
  <2> QED
    BY <2>1, <2>2
<1>8. ASSUME NEW a \in Attempts, Commit(a)
      PROVE  Ledger!Book(a)
  <2>1. {b \in Attempts : pc'[b] = "committed"}
          = {b \in Attempts : pc[b] = "committed"} \cup {a}
    BY <1>8 DEF Commit, TypeOK
  <2>2. ~ (Ledger!KeyTaken(req[a]) \/ Ledger!ChipTaken(req[a]) \/ Ledger!BoardTaken(req[a]))
    BY <1>8 DEF Commit, Fresh, HoldsKey, HoldsFirst, HoldsSecond, Ledger!BoardTaken,
                Ledger!ChipTaken, Ledger!KeyTaken
  <2>3. bid[a] \in 1..MaxBigint /\ \A b \in bindings : b.binding_id # bid[a]
    BY <1>8 DEF Commit, IDsDrawnOnce, HasID, TypeOK
  <2>4. answer[a] \in {NoAnswer, Ledger!InternalError}
    BY <1>8 DEF Commit, Phases, InTransaction
  <2>5. pc[a] # "committed" /\ req[a] # NoReq
    BY <1>0, <1>8 DEF Commit
  <2> QED
    BY <1>8, <2>1, <2>2, <2>3, <2>4, <2>5 DEF Commit, Ledger!Book
<1>9. ASSUME NEW a \in Attempts, AckCommit(a)
      PROVE  Ledger!Decide(a) \/ Ledger!GiveUp(a)
  <2>1. Ledger!Created(Ledger!BindingOf(bid[a], req[a])) \in Ledger!Verdicts(a)
    <3>1. Ledger!BindingOf(bid[a], req[a]) \in bindings
      BY <1>9 DEF AckCommit, Phases
    <3>2. Ledger!BindingOf(bid[a], req[a]).request_key = req[a].request_key
      BY DEF Ledger!BindingOf
    <3> QED
      BY <1>9, <3>1, <3>2 DEF AckCommit, Ledger!Verdicts
  <2> QED
    BY <1>0, <1>9, <2>1, DecideStep DEF AckCommit, Alive
<1>10. ASSUME NEW a \in Attempts, Fail(a)
       PROVE  Ledger!Decide(a) \/ Ledger!GiveUp(a)
  <2>1. \A b \in Attempts : pc'[b] = "committed" <=> pc[b] = "committed"
    BY <1>10 DEF Fail, TypeOK
  <2> QED
    BY <1>0, <1>10, <2>1, DecideStep DEF Fail, Alive
<1>11. CASE UNCHANGED vars
  BY <1>11 DEF vars, Ledger!ledgerVars
<1>12. CASE \E a \in Attempts : Arrive(a) \/ Progress(a) \/ Fail(a)
  BY <1>1, <1>2, <1>4, <1>5, <1>6, <1>7, <1>8, <1>9, <1>10, <1>12
     DEF Progress, Ledger!Next
<1> QED
  BY <1>11, <1>12 DEF Next, Terminated

\* Every create is decided at one instant against the ledger of that instant:
\* concurrent stations, replicas and crashes are invisible to clients, but for
\* requests whose outcome nobody learnt.
THEOREM Refinement == Spec => LedgerSpec
<1>1. Init => Ledger!Init
  BY DEF Init, Ledger!Init
<1> QED
  BY <1>1, RefinementStep, IndInvariant, PTL DEF Spec, LedgerSpec, Ledger!Spec

-----------------------------------------------------------------------------
(* Creates: the scans leave them alone.                                     *)

\* Every step is a step of BindingStore or leaves its variables unchanged.
LEMMA StoreStep ==
  ASSUME [ServiceNext]_serviceVars
  PROVE  [Next]_vars
<1>1. ASSUME NEW a \in Attempts, CreateStep(a) \/ CreateArrivesOrFails(a)
      PROVE  Next
  BY <1>1 DEF CreateStep, CreateArrivesOrFails, Next
<1>2. ASSUME NEW s \in Scans,
             ArriveScan(s) \/ LeaveQueue(s) \/ ScanStep(s) \/ FailScan(s)
      PROVE  UNCHANGED vars
  BY <1>2 DEF ArriveScan, LeaveQueue, ScanStep, FailScan
<1>3. CASE AllOver \/ UNCHANGED serviceVars
  BY <1>3 DEF AllOver, serviceVars
<1> QED
  BY <1>1, <1>2, <1>3 DEF ServiceNext

\* The service implements BindingStore, whatever scans it serves besides.
THEOREM ServiceRefinesStore == ServiceSpec => Spec
<1>1. ServiceInit => Init
  BY DEF ServiceInit
<1> QED
  BY <1>1, StoreStep, PTL DEF ServiceSpec, Spec

\* Hence every invariant of creates holds in it, these above all.
LEMMA StoreInvariants == ServiceSpec => [](IndInv /\ AnswersHonest)
  BY ServiceRefinesStore, IndInvariant, AnswersHonestInvariant, PTL

-----------------------------------------------------------------------------
(* Scans: to them a create is a booking.                                    *)

\* A step of a create either leaves the bindings alone or books one.
LEMMA CreateBooks ==
  ASSUME IndInv, IndInv', Bound \in history, NEW a \in Attempts, CreateStep(a)
  PROVE  Scanner!Book \/ UNCHANGED Scanner!vars
<1>1. /\ history' = history \cup {Bound'}
      /\ UNCHANGED <<scanVars, waiting, told>>
  BY DEF CreateStep
<1>2. UNCHANGED <<inspections, inspectionSeq, clock, scan, scanPC, began, hits,
                  iid, view, scanAnswer, known>>
  BY <1>1 DEF scanVars
<1>3. CASE Bound' = Bound
  <2>1. history' = history
    BY <1>1, <1>3
  <2> QED
    BY <1>2, <1>3, <2>1 DEF Scanner!vars, Scanner!tables, Scanner!locals
<1>4. CASE Bound' # Bound
  <2>1. Commit(a)
    <3>1. bindings' # bindings
      BY <1>4 DEF Bound
    <3> QED
      BY <3>1 DEF CreateStep, Progress, Begin, InsertRequest, ReadExisting, InsertBinding,
                  InsertChip, InsertBoard, InsertDevice, SendCommit, AckCommit, BackendAbort
  <2> DEFINE b == Ledger!BindingOf(bid[a], req[a])
             n == ScanColumns(b)
  <2>2. bindings' = bindings \cup {b}
    BY <2>1 DEF Commit
  <2>3. Bound' = Bound \cup {n}
    BY <2>2 DEF Bound
  <2>4. b \in bindings' /\ b \in Ledger!Bindings /\ b \notin bindings
    <3>1. b \in bindings'
      BY <2>2
    <3>2. bindings' \subseteq Ledger!Bindings
      BY DEF IndInv, TypeOK
    <3>3. b \notin bindings
      BY <1>4, <2>2 DEF Bound
    <3> QED
      BY <3>1, <3>2, <3>3
  <2>5. n \in Scanner!Bindings
    BY <2>4 DEF Scanner!Bindings, ScanColumns, Ledger!Bindings
  <2>6. ASSUME NEW x \in Bound
        PROVE  /\ x.binding_id # n.binding_id
               /\ x.chip_uid # n.chip_uid
               /\ x.board_serial # n.board_serial
    <3>1. PICK y \in bindings : x = ScanColumns(y)
      BY DEF Bound
    <3>2. y \in bindings' /\ y # b
      BY <2>2, <2>4
    <3>3. OneToOne'
      BY DEF IndInv
    <3>4. y.binding_id # b.binding_id /\ y.chip_uid # b.chip_uid /\ y.board_serial # b.board_serial
      BY <2>4, <3>2, <3>3 DEF OneToOne
    <3> QED
      BY <3>1, <3>4 DEF ScanColumns
  <2> HIDE DEF n
  <2>7. \E x \in Scanner!Bindings :
          /\ \A y \in Bound : /\ y.binding_id # x.binding_id
                              /\ y.chip_uid # x.chip_uid
                              /\ y.board_serial # x.board_serial
          /\ Bound' = Bound \cup {x}
    BY <2>3, <2>5, <2>6
  <2> QED
    BY <1>1, <1>2, <2>7 DEF Scanner!Book, Scanner!locals
<1> QED
  BY <1>3, <1>4

\* Every step is one of Inspections, or none.
LEMMA ScansStep ==
  ASSUME IndInv, IndInv', Bound \in history, [ServiceNext]_serviceVars
  PROVE  [Scanner!Next]_Scanner!vars
<1>1. ASSUME NEW a \in Attempts, CreateStep(a)
      PROVE  [Scanner!Next]_Scanner!vars
  BY <1>1, CreateBooks DEF Scanner!Next
<1>2. ASSUME UNCHANGED <<bindings, scanVars, history>>
      PROVE  UNCHANGED Scanner!vars
  BY <1>2 DEF Bound, scanVars, Scanner!vars, Scanner!tables, Scanner!locals
<1>3. ASSUME NEW a \in Attempts, CreateArrivesOrFails(a)
      PROVE  UNCHANGED Scanner!vars
  BY <1>2, <1>3 DEF CreateArrivesOrFails, Arrive, Fail
<1>4. ASSUME NEW s \in Scans, ArriveScan(s) \/ LeaveQueue(s)
      PROVE  UNCHANGED Scanner!vars
  BY <1>2, <1>4 DEF ArriveScan, LeaveQueue, vars
<1>5. ASSUME NEW s \in Scans, ScanStep(s) \/ FailScan(s)
      PROVE  Scanner!Next
  <2>1. Scanner!Scanning(s)
    BY <1>5 DEF ScanStep, BeginScan, ContinueScan, FailScan, Scanner!Scanning
  <2> QED
    BY <2>1 DEF Scanner!Next
<1>6. CASE AllOver \/ UNCHANGED serviceVars
  BY <1>2, <1>6 DEF AllOver, serviceVars, vars
<1> QED
  BY <1>1, <1>3, <1>4, <1>5, <1>6 DEF ServiceNext

-----------------------------------------------------------------------------
(* What a station was told counts.                                          *)

\* A binding that the statement of a scan finds is the only one it can find.
LEMMA ResolveCounts ==
  ASSUME IndInv, NEW p, NEW b \in bindings
  PROVE  /\ b.chip_uid = p.chip_uid => Scanner!Resolve(Bound, p).chip = b.binding_id
         /\ b.board_serial = p.board_serial => Scanner!Resolve(Bound, p).board = b.binding_id
<1> DEFINE C == {x \in Bound : x.chip_uid = p.chip_uid}
           B == {x \in Bound : x.board_serial = p.board_serial}
<1>1. ScanColumns(b) \in Bound /\ ScanColumns(b).binding_id = b.binding_id
  BY DEF Bound, ScanColumns
<1>2. ASSUME NEW x \in Bound,
             x.chip_uid = b.chip_uid \/ x.board_serial = b.board_serial
      PROVE  x = ScanColumns(b)
  BY <1>2 DEF Bound, ScanColumns, IndInv, OneToOne
<1>3. ASSUME b.chip_uid = p.chip_uid
      PROVE  Scanner!Resolve(Bound, p).chip = b.binding_id
  <2>1. C = {ScanColumns(b)}
    BY <1>1, <1>2, <1>3 DEF ScanColumns
  <2>2. (CHOOSE x \in C : TRUE) = ScanColumns(b)
    BY <2>1
  <2> HIDE DEF C
  <2>3. Scanner!IDOf(C) = b.binding_id
    BY <1>1, <2>1, <2>2 DEF Scanner!IDOf
  <2> QED
    BY <2>3 DEF Scanner!Resolve, C
<1>4. ASSUME b.board_serial = p.board_serial
      PROVE  Scanner!Resolve(Bound, p).board = b.binding_id
  <2>1. B = {ScanColumns(b)}
    BY <1>1, <1>2, <1>4 DEF ScanColumns
  <2>2. (CHOOSE x \in B : TRUE) = ScanColumns(b)
    BY <2>1
  <2> HIDE DEF B
  <2>3. Scanner!IDOf(B) = b.binding_id
    BY <1>1, <2>1, <2>2 DEF Scanner!IDOf
  <2> QED
    BY <2>3 DEF Scanner!Resolve, B
<1> QED
  BY <1>3, <1>4

\* A scan that does nothing stays aware.
LEMMA AwareStands ==
  ASSUME NEW s \in Scans, Aware(s), Bound \subseteq Bound',
         scan'[s] = scan[s], scanPC'[s] = scanPC[s], known'[s] = known[s],
         hits'[s] = hits[s], view'[s] = view[s], scanAnswer'[s] = scanAnswer[s],
         told'[s] = told[s]
  PROVE  Aware(s)'
  BY DEF Aware, Counts

\* A create commits rows under scans that go on undisturbed.
LEMMA CreateKeepsAware ==
  ASSUME ServiceIndInv, Bound \subseteq Bound', bindings \subseteq bindings',
         UNCHANGED <<scanVars, waiting, told>>, Bound' \in history'
  PROVE  ServiceIndInv'
<1>1. UNCHANGED <<scan, scanPC, known, hits, view, scanAnswer, waiting, told>>
  BY DEF scanVars
<1>2. \A s \in Scans : Aware(s)'
  BY <1>1, AwareStands DEF ServiceIndInv
<1> QED
  BY <1>1, <1>2 DEF ServiceIndInv

\* What a scan does concerns itself alone.
LEMMA OthersStayAware ==
  ASSUME ServiceIndInv, NEW s \in Scans, UNCHANGED <<bindings, history>>,
         told' \in [Scans -> SUBSET bindings],
         DOMAIN scan' = Scans, DOMAIN scanPC' = Scans, DOMAIN known' = Scans,
         DOMAIN hits' = Scans, DOMAIN view' = Scans, DOMAIN scanAnswer' = Scans,
         \A t \in waiting' : t \in Scans /\ scanPC'[t] = "idle",
         \A t \in Scans \ {s} :
           /\ scan'[t] = scan[t] /\ scanPC'[t] = scanPC[t] /\ known'[t] = known[t]
           /\ hits'[t] = hits[t] /\ view'[t] = view[t]
           /\ scanAnswer'[t] = scanAnswer[t] /\ told'[t] = told[t],
         Aware(s)'
  PROVE  ServiceIndInv'
<1>1. Bound' = Bound
  BY DEF Bound
<1>2. \A t \in Scans \ {s} : Aware(t)'
  BY <1>1, AwareStands DEF ServiceIndInv
<1> QED
  BY <1>1, <1>2 DEF ServiceIndInv

\* Every step keeps the invariant.
LEMMA ServiceStep ==
  ASSUME IndInv, AnswersHonest, ServiceIndInv, [ServiceNext]_serviceVars
  PROVE  ServiceIndInv'
<1>1. /\ bindings \subseteq bindings' /\ Bound \subseteq Bound'
  BY StoreStep, RowsOnlyGrow DEF Bound
<1>2. ASSUME NEW a \in Attempts, CreateStep(a)
      PROVE  ServiceIndInv'
  BY <1>1, <1>2, CreateKeepsAware DEF CreateStep
<1>3. ASSUME NEW a \in Attempts, CreateArrivesOrFails(a)
      PROVE  ServiceIndInv'
  <2>1. UNCHANGED <<bindings, scanVars, history, waiting, told>>
    BY <1>3 DEF CreateArrivesOrFails, Arrive, Fail
  <2> QED
    BY <1>1, <2>1, CreateKeepsAware DEF ServiceIndInv, Bound
<1>4. ASSUME NEW s \in Scans, ArriveScan(s)
      PROVE  ServiceIndInv'
  <2>1. /\ scanPC[s] = "idle" /\ UNCHANGED <<bindings, history>>
        /\ UNCHANGED <<scan, scanPC, known, hits, view, scanAnswer>>
        /\ waiting' = waiting \cup {s} /\ told' = [told EXCEPT ![s] = Shown]
    BY <1>4 DEF ArriveScan, vars, scanVars
  <2>2. Shown \subseteq bindings
    BY DEF Shown, AnswersHonest, Honest
  <2>3. told' \in [Scans -> SUBSET bindings]
    BY <2>1, <2>2 DEF ServiceIndInv
  <2>4. Aware(s)'
    BY <2>1 DEF ServiceIndInv, Aware, Scanner!Resolved, Scanner!Viewed
  <2> QED
    BY <2>1, <2>3, <2>4, OthersStayAware DEF ServiceIndInv
<1>5. ASSUME NEW s \in Scans, LeaveQueue(s)
      PROVE  ServiceIndInv'
  <2>1. /\ UNCHANGED <<bindings, history, told>>
        /\ UNCHANGED <<scan, scanPC, known, hits, view, scanAnswer>>
        /\ waiting' = waiting \ {s}
    BY <1>5 DEF LeaveQueue, vars, scanVars
  <2>2. Aware(s)'
    BY <1>1, <2>1, AwareStands DEF ServiceIndInv
  <2> QED
    BY <2>1, <2>2, OthersStayAware DEF ServiceIndInv
<1>6. ASSUME NEW s \in Scans, ScanStep(s), BeginScan(s)
      PROVE  ServiceIndInv'
  <2>1. /\ scanPC[s] = "idle" /\ UNCHANGED <<bindings, history, told>>
        /\ UNCHANGED <<hits, view, scanAnswer>> /\ waiting' = waiting \ {s}
        /\ scanPC' = [scanPC EXCEPT ![s] = "resolve"]
        /\ known' = [known EXCEPT ![s] = Bound]
        /\ \E p \in Scanner!ScanPairs : scan' = [scan EXCEPT ![s] = p]
    BY <1>6 DEF ScanStep, BeginScan, vars, Scanner!Begin, Scanner!Goto
  <2>2. told[s] \subseteq bindings
    BY DEF ServiceIndInv
  <2>3. scanPC'[s] = "resolve" /\ known'[s] = Bound
    BY <2>1 DEF ServiceIndInv
  <2>4. scanAnswer[s] \in {NoAnswer, ScanFailed}
    BY <2>1 DEF ServiceIndInv, Aware
  <2>5. Aware(s)'
    BY <2>1, <2>2, <2>3, <2>4 DEF Aware, Scanner!Resolved, Scanner!Viewed, Bound
  <2>6. \A t \in waiting' : t \in Scans /\ scanPC'[t] = "idle"
    BY <2>1 DEF ServiceIndInv
  <2>7. \A t \in Scans \ {s} : scanPC'[t] = scanPC[t] /\ known'[t] = known[t] /\ scan'[t] = scan[t]
    BY <2>1 DEF ServiceIndInv
  <2>8. /\ told' \in [Scans -> SUBSET bindings]
        /\ DOMAIN scan' = Scans /\ DOMAIN scanPC' = Scans /\ DOMAIN known' = Scans
        /\ DOMAIN hits' = Scans /\ DOMAIN view' = Scans /\ DOMAIN scanAnswer' = Scans
    BY <2>1 DEF ServiceIndInv
  <2> QED
    BY <2>1, <2>5, <2>6, <2>7, <2>8, OthersStayAware
<1>7. ASSUME NEW s \in Scans, (ScanStep(s) /\ ContinueScan(s)) \/ FailScan(s)
      PROVE  ServiceIndInv'
  <2> USE DEF Scanner!Goto
  <2>1. UNCHANGED <<bindings, waiting, told>>
    BY <1>7 DEF ScanStep, ContinueScan, FailScan, vars
  <2>2. /\ scanPC[s] # "idle"
        /\ UNCHANGED <<history, scan, known>>
        /\ DOMAIN scanPC' = Scans /\ DOMAIN hits' = Scans
        /\ DOMAIN view' = Scans /\ DOMAIN scanAnswer' = Scans
        /\ \A t \in Scans \ {s} :
             /\ scanPC'[t] = scanPC[t] /\ hits'[t] = hits[t] /\ view'[t] = view[t]
             /\ scanAnswer'[t] = scanAnswer[t]
    <3>1. /\ DOMAIN scanPC = Scans /\ DOMAIN hits = Scans
          /\ DOMAIN view = Scans /\ DOMAIN scanAnswer = Scans
      BY DEF ServiceIndInv
    <3>2. CASE Scanner!ResolveSides(s)
      BY <3>1, <3>2 DEF Scanner!ResolveSides
    <3>3. CASE Scanner!Insert(s)
      BY <3>1, <3>3 DEF Scanner!Insert
    <3>4. CASE Scanner!Select(s)
      BY <3>1, <3>4 DEF Scanner!Select
    <3>5. CASE Scanner!Commit(s) \/ Scanner!CommitLost(s)
      BY <3>1, <3>5 DEF Scanner!Commit, Scanner!CommitLost
    <3>6. CASE Scanner!Acknowledge(s)
      BY <3>1, <3>6 DEF Scanner!Acknowledge
    <3>7. CASE Scanner!Fail(s)
      BY <3>1, <3>7 DEF Scanner!Fail
    <3> QED
      BY <1>7, <3>2, <3>3, <3>4, <3>5, <3>6, <3>7 DEF ContinueScan, FailScan
  <2>3. Bound' = Bound /\ Aware(s)
    BY <2>1 DEF Bound, ServiceIndInv
  <2>4. ASSUME Scanner!ResolveSides(s)
       PROVE  Aware(s)'
    <3>1. hits'[s] = Scanner!Resolve(Bound, scan[s]) /\ scanPC'[s] = "insert"
      BY <2>4 DEF Scanner!ResolveSides, ServiceIndInv
    <3>2. scanAnswer'[s] = NoAnswer
      BY <2>4 DEF Scanner!ResolveSides, Scanner!Alive
    <3>3. ASSUME NEW b \in told[s]
          PROVE  /\ b.chip_uid = scan[s].chip_uid => hits'[s].chip = b.binding_id
                 /\ b.board_serial = scan[s].board_serial => hits'[s].board = b.binding_id
      <4>1. b \in bindings
        BY DEF ServiceIndInv
      <4> QED
        BY <3>1, <4>1, ResolveCounts
    <3>4. Counts(s, hits[s].chip, hits[s].board)'
      BY <2>1, <2>2, <3>3 DEF Counts
    <3> QED
      BY <2>1, <2>2, <2>3, <2>4, <3>1, <3>2, <3>4
      DEF Aware, Scanner!Viewed, Scanner!ResolveSides
  <2>5. ASSUME Scanner!Insert(s)
       PROVE  Aware(s)'
    BY <2>1, <2>2, <2>3, <2>5
    DEF Scanner!Insert, Scanner!Alive, Aware, Counts, Scanner!Resolved, Scanner!Viewed, ServiceIndInv
  <2>6. ASSUME Scanner!Select(s)
       PROVE  Aware(s)'
    <3>1. /\ view'[s].inspection.chip_binding_id = hits[s].chip
          /\ view'[s].inspection.board_binding_id = hits[s].board
      BY <2>6 DEF Scanner!Select, Scanner!Summary, Scanner!Row, ServiceIndInv
    <3>2. scanPC[s] = "select" /\ scanPC'[s] = "committing"
      BY <2>6 DEF Scanner!Select, ServiceIndInv
    <3>3. scanAnswer'[s] = NoAnswer /\ hits' = hits
      BY <2>6 DEF Scanner!Select, Scanner!Alive
    <3>4. Counts(s, hits[s].chip, hits[s].board)
      BY <2>3, <3>2 DEF Aware, Scanner!Resolved
    <3>5. /\ Counts(s, hits[s].chip, hits[s].board)'
          /\ Counts(s, view[s].inspection.chip_binding_id, view[s].inspection.board_binding_id)'
      BY <2>1, <2>2, <3>1, <3>3, <3>4 DEF Counts
    <3> QED
      BY <2>1, <2>2, <2>3, <3>2, <3>3, <3>5 DEF Aware
  <2>7. ASSUME Scanner!Commit(s) \/ Scanner!CommitLost(s)
       PROVE  Aware(s)'
    BY <2>1, <2>2, <2>3, <2>7
    DEF Scanner!Commit, Scanner!CommitLost, Scanner!Alive, Aware, Counts, Scanner!Resolved,
        Scanner!Viewed, ServiceIndInv
  <2>8. ASSUME Scanner!Acknowledge(s)
       PROVE  Aware(s)'
    BY <2>1, <2>2, <2>3, <2>8
    DEF Scanner!Acknowledge, Aware, Counts, Scanner!Resolved, Scanner!Viewed, ServiceIndInv
  <2>9. ASSUME Scanner!Fail(s)
       PROVE  Aware(s)'
    BY <2>1, <2>2, <2>3, <2>9
    DEF Scanner!Fail, Aware, Counts, Scanner!Resolved, Scanner!Viewed, ServiceIndInv
  <2>10. Aware(s)'
    BY <1>7, <2>4, <2>5, <2>6, <2>7, <2>8, <2>9 DEF ContinueScan, FailScan
  <2>11. DOMAIN scan' = Scans /\ DOMAIN known' = Scans
    BY <2>2 DEF ServiceIndInv
  <2>12. \A t \in waiting' : t \in Scans /\ scanPC'[t] = "idle"
    BY <2>1, <2>2 DEF ServiceIndInv
  <2> QED
    BY <2>1, <2>2, <2>10, <2>11, <2>12, OthersStayAware DEF ServiceIndInv
<1>8. CASE AllOver \/ UNCHANGED serviceVars
  BY <1>1, <1>8, CreateKeepsAware DEF AllOver, serviceVars, vars, ServiceIndInv, Bound
<1> QED
  BY <1>2, <1>3, <1>4, <1>5, <1>6, <1>7, <1>8 DEF ServiceNext, ScanStep

\* Nothing has been told yet.
LEMMA ServiceInitInv == ServiceInit => ServiceIndInv
<1> SUFFICES ASSUME ServiceInit
             PROVE  ServiceIndInv
  OBVIOUS
<1>1. bindings = {} /\ Bound = {}
  BY DEF ServiceInit, Init, Bound
<1>2. \A s \in Scans : Aware(s)
  BY DEF ServiceInit, Scanner!Init, Aware, Scanner!Resolved, Scanner!Viewed
<1> QED
  BY <1>1, <1>2 DEF ServiceInit, Scanner!Init, ServiceIndInv

\* The inductive invariant of the two together.
THEOREM ServiceInvariant == ServiceSpec => []ServiceIndInv
<1>1. /\ IndInv /\ AnswersHonest /\ ServiceIndInv /\ [ServiceNext]_serviceVars
      => ServiceIndInv'
  BY ServiceStep
<1> QED
  BY <1>1, ServiceInitInv, StoreInvariants, PTL DEF ServiceSpec

\* The service implements Inspections, for which its creates are bookings: what
\* is proved of Inspections holds of the service.
THEOREM ServiceRefinesInspections == ServiceSpec => ScansSpec
<1>1. ServiceInit => Scanner!Init
  BY DEF ServiceInit
<1>2. /\ IndInv /\ IndInv' /\ ServiceIndInv /\ [ServiceNext]_serviceVars
      => [Scanner!Next]_Scanner!vars
  BY ScansStep DEF ServiceIndInv
<1> QED
  BY <1>1, <1>2, ServiceInvariant, StoreInvariants, PTL DEF ServiceSpec, ScansSpec, Scanner!Spec

\* A binding that a create has answered counts in every later scan
\* (README.md:72-75 and 110-119).
THEOREM AnsweredBindingsCount == ServiceSpec => []ScansSeeAnsweredBindings
<1>1. ServiceIndInv => ScansSeeAnsweredBindings
  BY DEF ServiceIndInv, Aware, ScansSeeAnsweredBindings, Scanner!Viewed
<1> QED
  BY <1>1, ServiceInvariant, PTL

-----------------------------------------------------------------------------
(* Creates and scans on one pool.                                           *)

\* No creates and scans wait on each other, whatever the size of the pool
\* (store.go:341).  All that wait wait for a connection; so whoever has one
\* would be among them, and is not.
THEOREM NobodyStuckInvariant == ServiceSpec => []NobodyStuck
<1>1. ASSUME ServiceIndInv, NEW C \in SUBSET Attempts, NEW S \in SUBSET Scans,
             C # {} \/ S # {},
             \A a \in C : CreateStuck(a, C, S), \A s \in S : ScanStuck(s, C, S)
      PROVE  FALSE
  <2>1. \A a \in C : pc[a] = "begin"
    BY <1>1, EntriesAreOrdered DEF CreateStuck
  <2>2. \A s \in S : scanPC[s] = "idle"
    BY <1>1 DEF ScanStuck, ScanNeedsConn, ServiceIndInv
  <2>3. PoolWithin(C, S)
    BY <1>1, <2>1 DEF CreateStuck, ScanStuck, WaitsForLock, Needed
  <2>4. Holders = {}
    BY <2>1, <2>3, HoldersAreBeyondBegin DEF PoolWithin
  <2>5. ScanHolders = {}
    BY <2>2, <2>3 DEF PoolWithin, ScanHolders, ScanHoldsConn
  <2>6. Cardinality(Holders) + Cardinality(ScanHolders) = 0
    BY <2>4, <2>5, FS_EmptySet
  <2> QED
    BY <2>3, <2>6, PoolAssumption DEF PoolWithin, ConnFree
<1>2. ServiceIndInv => NobodyStuck
  BY <1>1 DEF NobodyStuck
<1> QED
  BY <1>2, ServiceInvariant, PTL

-----------------------------------------------------------------------------
(* What is proved of Inspections, for the scans of the service.  Scanner is *)
(* Inspections; ScanProofs is Inspections too, with its theorems, and their *)
(* definitions say the same.                                                *)

ScanProofs == INSTANCE InspectionsProofs
                WITH bindings <- Bound,
                     BindingIDs <- 1..MaxBigint, lastID <- inspectionSeq,
                     pc <- scanPC, answer <- scanAnswer, InternalError <- ScanFailed,
                     Walkers <- {}, walk <- [w \in {} |-> w], MaxLimit <- 1

\* The assumptions of Inspections hold of these constants.
LEMMA ScannerAssumptions ==
  /\ MaxInspection \in Nat /\ 1 \in Nat \ {0}
  /\ 1..MaxBigint \subseteq Nat /\ NoID \notin Nat
  BY ServiceAssumption, SequenceAssumption

\* The actions of a scan.
LEMMA SameScan ==
  ASSUME NEW s
  PROVE  Scanner!Scanning(s) => ScanProofs!Scanning(s)
<1>1. Scanner!Begin(s) => ScanProofs!Begin(s)
  BY DEF Scanner!Begin, ScanProofs!Begin, Scanner!ScanPairs, ScanProofs!ScanPairs,
         Scanner!Goto, ScanProofs!Goto
<1>2. Scanner!ResolveSides(s) => ScanProofs!ResolveSides(s)
  BY DEF Scanner!ResolveSides, ScanProofs!ResolveSides,
         Scanner!Alive, ScanProofs!Alive, Scanner!Resolve, ScanProofs!Resolve,
         Scanner!IDOf, ScanProofs!IDOf, Scanner!Goto, ScanProofs!Goto,
         Scanner!tables, ScanProofs!tables
<1>3. Scanner!Insert(s) => ScanProofs!Insert(s)
  BY DEF Scanner!Insert, ScanProofs!Insert, Scanner!Alive, ScanProofs!Alive,
         Scanner!Goto, ScanProofs!Goto
<1>4. Scanner!Select(s) => ScanProofs!Select(s)
  BY DEF Scanner!Select, ScanProofs!Select, Scanner!Alive, ScanProofs!Alive,
         Scanner!Summary, ScanProofs!Summary, Scanner!Row, ScanProofs!Row,
         Scanner!Verdict, ScanProofs!Verdict, Scanner!Goto, ScanProofs!Goto,
         Scanner!tables, ScanProofs!tables
<1>5. Scanner!Commit(s) => ScanProofs!Commit(s)
  BY DEF Scanner!Commit, ScanProofs!Commit, Scanner!Row, ScanProofs!Row,
         Scanner!Verdict, ScanProofs!Verdict, Scanner!Goto, ScanProofs!Goto
<1>6. Scanner!Acknowledge(s) => ScanProofs!Acknowledge(s)
  BY DEF Scanner!Acknowledge, ScanProofs!Acknowledge, Scanner!Alive, ScanProofs!Alive,
         Scanner!tables, ScanProofs!tables
<1>7. Scanner!Fail(s) => ScanProofs!Fail(s)
  BY DEF Scanner!Fail, ScanProofs!Fail, Scanner!Alive, ScanProofs!Alive,
         Scanner!Goto, ScanProofs!Goto, Scanner!tables, ScanProofs!tables
<1>8. Scanner!CommitLost(s) => ScanProofs!CommitLost(s)
  BY DEF Scanner!CommitLost, ScanProofs!CommitLost, Scanner!Alive, ScanProofs!Alive,
         Scanner!Goto, ScanProofs!Goto, Scanner!tables, ScanProofs!tables
<1> QED
  BY <1>1, <1>2, <1>3, <1>4, <1>5, <1>6, <1>7, <1>8 DEF Scanner!Scanning, ScanProofs!Scanning

\* The behaviours.
LEMMA SameScans == ServiceSpec => ScanProofs!Spec
<1>1. Scanner!Init => ScanProofs!Init
  BY DEF Scanner!Init, ScanProofs!Init, Scanner!NoHits, ScanProofs!NoHits,
         Scanner!NotWalking, ScanProofs!NotWalking
<1>2. Scanner!Book => ScanProofs!Book
  BY DEF Scanner!Book, ScanProofs!Book, Scanner!Bindings, ScanProofs!Bindings,
         Scanner!locals, ScanProofs!locals
<1>3. Scanner!Terminated => ScanProofs!Terminated
  BY DEF Scanner!Terminated, ScanProofs!Terminated, Scanner!Alive, ScanProofs!Alive,
         Scanner!vars, ScanProofs!vars, Scanner!tables, ScanProofs!tables,
         Scanner!locals, ScanProofs!locals
<1>4. Scanner!Next => ScanProofs!Next
  BY <1>2, <1>3, SameScan DEF Scanner!Next, ScanProofs!Next
<1>5. UNCHANGED Scanner!vars => UNCHANGED ScanProofs!vars
  BY DEF Scanner!vars, ScanProofs!vars, Scanner!tables, ScanProofs!tables,
         Scanner!locals, ScanProofs!locals
<1>6. [Scanner!Next]_Scanner!vars => [ScanProofs!Next]_ScanProofs!vars
  BY <1>4, <1>5
<1> QED
  BY <1>1, <1>6, ServiceRefinesInspections, PTL DEF ScansSpec, Scanner!Spec, ScanProofs!Spec

\* Hence the inductive invariant of scans is one of the service.
LEMMA ScanInvariants == ServiceSpec => []ScanProofs!IndInv
  BY SameScans, ScannerAssumptions, ScanProofs!IndInvariant, PTL

\* With creates at work on the same tables and the same pool, a verdict is still
\* the truth of one instant, and every record reads back as its 201 showed it
\* (store.go:335-339, README.md:143).
THEOREM ServiceKeepsVerdicts ==
  ServiceSpec => [](VerdictsBesideCreates /\ Scanner!ReadsBackUnchanged)
<1>1. ScanProofs!VerdictOfOneInstant => VerdictsBesideCreates
  BY DEF VerdictsBesideCreates, Scanner!VerdictOfOneInstant, ScanProofs!VerdictOfOneInstant,
         Scanner!Expected, ScanProofs!Expected, Scanner!Row, ScanProofs!Row,
         Scanner!Verdict, ScanProofs!Verdict
<1>2. ScanProofs!ReadsBackUnchanged => Scanner!ReadsBackUnchanged
  BY DEF Scanner!ReadsBackUnchanged, ScanProofs!ReadsBackUnchanged,
         Scanner!Summary, ScanProofs!Summary
<1> QED
  BY <1>1, <1>2, SameScans, ScannerAssumptions, ScanProofs!VerdictInvariant,
     ScanProofs!ReadBackInvariant, PTL

-----------------------------------------------------------------------------
(* Progress.                                                                *)

\* What is left of a create is a number of steps.
LEMMA StepsLeftType ==
  ASSUME TypeOK, NEW a \in Attempts
  PROVE  StepsLeft(a) \in Nat
<1>1. pc[a] \in InTransaction \cup {"idle", "begin", "committed", "closed"}
  BY DEF TypeOK
<1> QED
  BY <1>1 DEF StepsLeft, InTransaction

\* A step of a create has fewer before it, and leaves the other creates alone.
LEMMA CreateCounts ==
  ASSUME IndInv, NEW a \in Attempts, Arrive(a) \/ Progress(a) \/ Fail(a)
  PROVE  /\ StepsLeft(a)' \in 0..StepsLeft(a) - 1
         /\ \A b \in Attempts \ {a} : StepsLeft(b)' = StepsLeft(b)
<1> USE DEF Goto
<1>0. TypeOK
  BY DEF IndInv
<1>1. /\ \A b \in Attempts \ {a} : pc'[b] = pc[b] /\ answer'[b] = answer[b]
      /\ StepsLeft(a)' \in 0..StepsLeft(a) - 1
  <2>1. CASE Arrive(a) \/ Begin(a)
    BY <1>0, <2>1 DEF Arrive, Begin, TypeOK, StepsLeft, Alive
  <2>2. CASE InsertRequest(a)
    BY <1>0, <2>2 DEF InsertRequest, TypeOK, StepsLeft, Alive
  <2>3. CASE ReadExisting(a)
    BY <1>0, <2>3 DEF ReadExisting, Return, TypeOK, StepsLeft, Alive
  <2>4. CASE InsertBinding(a)
    BY <1>0, <2>4 DEF InsertBinding, Return, TypeOK, StepsLeft, Alive
  <2>5. CASE InsertChip(a) \/ InsertBoard(a)
    BY <1>0, <2>5 DEF InsertChip, InsertBoard, InsertDevice, Return, TypeOK, StepsLeft, Alive
  <2>6. CASE SendCommit(a) \/ Commit(a) \/ BackendAbort(a)
    BY <1>0, <2>6 DEF SendCommit, Commit, BackendAbort, InTransaction, TypeOK, StepsLeft, Alive
  <2>7. CASE AckCommit(a)
    <3>1. Ledger!BindingOf(bid[a], req[a]) \in Ledger!Bindings
      BY <1>0, <2>7 DEF AckCommit, IndInv, Phases, TypeOK
    <3>2. Ledger!Created(Ledger!BindingOf(bid[a], req[a])) # NoAnswer
      BY <3>1, AnswerTypes, SentinelAssumption
    <3> QED
      BY <1>0, <2>7, <3>2 DEF AckCommit, TypeOK, StepsLeft, Alive
  <2>8. CASE Fail(a)
    <3>1. Ledger!InternalError # NoAnswer
      BY AnswerTypes, SentinelAssumption
    <3>2. pc[a] \in InTransaction \cup {"begin", "committed", "closed"}
      BY <1>0, <2>8 DEF Fail, TypeOK
    <3>3. /\ Alive(a) /\ ~ Alive(a)'
          /\ pc'[a] = IF pc[a] = "begin" THEN "closed" ELSE pc[a]
          /\ \A b \in Attempts \ {a} : pc'[b] = pc[b] /\ answer'[b] = answer[b]
      BY <1>0, <2>8, <3>1 DEF Fail, TypeOK, Alive
    <3>4. StepsLeft(a)' \in 0..StepsLeft(a) - 1
      <4>1. CASE pc[a] = "begin"
        <5>1. pc'[a] = "closed"
          BY <3>3, <4>1
        <5>2. StepsLeft(a) = 9
          BY <3>3, <4>1 DEF StepsLeft
        <5>3. StepsLeft(a)' = 0
          BY <3>3, <5>1 DEF StepsLeft
        <5> QED
          BY <5>2, <5>3
      <4>2. CASE pc[a] # "begin"
        <5>1. StepsLeft(a)' = StepsLeft(a) - 1
          BY <3>2, <3>3, <4>2 DEF InTransaction, StepsLeft
        <5>2. StepsLeft(a) # 0
          BY <3>2, <3>3, <4>2 DEF InTransaction, StepsLeft
        <5> QED
          BY <1>0, <5>1, <5>2, StepsLeftType
      <4> QED
        BY <4>1, <4>2
    <3> QED
      BY <3>3, <3>4
  <2> QED
    BY <2>1, <2>2, <2>3, <2>4, <2>5, <2>6, <2>7, <2>8 DEF Progress
<1> QED
  BY <1>1 DEF StepsLeft, Alive

\* Likewise the scans.
LEMMA ScanStepsLeftType ==
  ASSUME ScanProofs!TypeOK, NEW s \in Scans
  PROVE  ScanStepsLeft(s) \in Nat
<1>1. scanPC[s] \in {"idle", "resolve", "insert", "select", "committing", "committed", "closed"}
  BY DEF ScanProofs!TypeOK
<1> QED
  BY <1>1 DEF ScanStepsLeft

\* What a scan shows is a view, and a view is an answer.
LEMMA ShownIsAnswer ==
  ASSUME ScanProofs!IndInv, NEW s \in Scans, scanPC[s] = "committed"
  PROVE  view[s] # NoAnswer
<1>1. view[s] = ScanProofs!Summary(ScanProofs!Row(s), Bound)
  BY DEF ScanProofs!IndInv, ScanProofs!Phases, ScanProofs!Phase, ScanProofs!Viewed
<1>2. ScanProofs!Row(s) \in ScanProofs!Records /\ Bound \in SUBSET ScanProofs!Bindings
  BY ScannerAssumptions, ScanProofs!RowType
  DEF ScanProofs!HasID, ScanProofs!IndInv, ScanProofs!TypeOK
<1>3. view[s] \in ScanProofs!Views
  BY <1>1, <1>2, ScannerAssumptions, ScanProofs!SummaryType
<1>4. ScanProofs!Views = Scanner!Views
  BY DEF ScanProofs!Views, Scanner!Views, ScanProofs!Records, Scanner!Records,
         ScanProofs!Bindings, Scanner!Bindings
<1> QED
  BY <1>3, <1>4, ScanSentinelAssumption

LEMMA ScanCounts ==
  ASSUME ScanProofs!IndInv, NEW s \in Scans, Scanner!Scanning(s)
  PROVE  /\ ScanStepsLeft(s)' \in 0..ScanStepsLeft(s) - 1
         /\ \A t \in Scans \ {s} : ScanStepsLeft(t)' = ScanStepsLeft(t)
<1> USE DEF Scanner!Goto
<1>0. /\ scanPC \in [Scans -> {"idle", "resolve", "insert", "select",
                             "committing", "committed", "closed"}]
      /\ DOMAIN scanAnswer = Scans
  BY DEF ScanProofs!IndInv, ScanProofs!TypeOK
<1>1. ScanFailed # NoAnswer
  BY ScanSentinelAssumption
<1>2. /\ \A t \in Scans \ {s} : scanPC'[t] = scanPC[t] /\ scanAnswer'[t] = scanAnswer[t]
      /\ ScanStepsLeft(s)' \in 0..ScanStepsLeft(s) - 1
  <2>1. CASE Scanner!Begin(s) \/ Scanner!ResolveSides(s) \/ Scanner!Select(s)
    BY <1>0, <2>1
    DEF Scanner!Begin, Scanner!ResolveSides, Scanner!Select, ScanStepsLeft, Scanner!Alive
  <2>2. CASE Scanner!Insert(s)
    BY <1>0, <1>1, <2>2 DEF Scanner!Insert, ScanStepsLeft, Scanner!Alive
  <2>3. CASE Scanner!Commit(s) \/ Scanner!CommitLost(s)
    BY <1>0, <2>3 DEF Scanner!Commit, Scanner!CommitLost, ScanStepsLeft, Scanner!Alive
  <2>4. CASE Scanner!Acknowledge(s)
    <3>1. view[s] # NoAnswer
      BY <2>4, ShownIsAnswer DEF Scanner!Acknowledge
    <3> QED
      BY <1>0, <2>4, <3>1 DEF Scanner!Acknowledge, ScanStepsLeft, Scanner!Alive
  <2>5. CASE Scanner!Fail(s)
    BY <1>0, <1>1, <2>5 DEF Scanner!Fail, ScanStepsLeft, Scanner!Alive
  <2> QED
    BY <2>1, <2>2, <2>3, <2>4, <2>5 DEF Scanner!Scanning
<1> QED
  BY <1>2 DEF ScanStepsLeft, Scanner!Alive

\* Every step of the service brings one create or one scan nearer to its end and
\* sends none back (store.go:74-126 and 340-384 hold no loop): with NobodyStuck,
\* what the liveness properties rest on.
THEOREM EveryStepCountsHolds == ServiceSpec => EveryStepCounts
<1> DEFINE counts ==
      /\ \A a \in Attempts : StepsLeft(a)' <= StepsLeft(a)
      /\ \A s \in Scans : ScanStepsLeft(s)' <= ScanStepsLeft(s)
      /\ <<vars, scanVars>>' # <<vars, scanVars>> =>
           \/ \E a \in Attempts : StepsLeft(a)' < StepsLeft(a)
           \/ \E s \in Scans : ScanStepsLeft(s)' < ScanStepsLeft(s)
<1>1. ASSUME IndInv, ScanProofs!IndInv, ServiceNext
      PROVE  counts
  <2>1. /\ \A a \in Attempts : StepsLeft(a) \in Nat
        /\ \A s \in Scans : ScanStepsLeft(s) \in Nat
    BY <1>1, StepsLeftType, ScanStepsLeftType DEF IndInv, ScanProofs!IndInv
  <2>2. UNCHANGED vars => \A a \in Attempts : StepsLeft(a)' = StepsLeft(a)
    BY DEF vars, StepsLeft, Alive
  <2>3. UNCHANGED scanVars => \A s \in Scans : ScanStepsLeft(s)' = ScanStepsLeft(s)
    BY DEF scanVars, ScanStepsLeft, Scanner!Alive
  <2>4. CASE \E a \in Attempts : CreateStep(a) \/ CreateArrivesOrFails(a)
    <3>1. PICK a \in Attempts : CreateStep(a) \/ CreateArrivesOrFails(a)
      BY <2>4
    <3>2. (Arrive(a) \/ Progress(a) \/ Fail(a)) /\ UNCHANGED scanVars
      BY <3>1 DEF CreateStep, CreateArrivesOrFails
    <3>3. /\ StepsLeft(a)' \in 0..StepsLeft(a) - 1
          /\ \A b \in Attempts \ {a} : StepsLeft(b)' = StepsLeft(b)
      BY <1>1, <3>2, CreateCounts
    <3>4. ASSUME NEW b \in Attempts
          PROVE  StepsLeft(b)' <= StepsLeft(b)
      BY <2>1, <3>3
    <3>5. \A s \in Scans : ScanStepsLeft(s)' <= ScanStepsLeft(s)
      BY <2>1, <2>3, <3>2
    <3> QED
      BY <2>1, <3>3, <3>4, <3>5
  <2>5. CASE \E s \in Scans : ScanStep(s) \/ FailScan(s)
    <3>1. PICK s \in Scans : ScanStep(s) \/ FailScan(s)
      BY <2>5
    <3>2. Scanner!Scanning(s) /\ UNCHANGED vars
      BY <3>1 DEF ScanStep, BeginScan, ContinueScan, FailScan, Scanner!Scanning
    <3>3. /\ ScanStepsLeft(s)' \in 0..ScanStepsLeft(s) - 1
          /\ \A t \in Scans \ {s} : ScanStepsLeft(t)' = ScanStepsLeft(t)
      BY <1>1, <3>2, ScanCounts
    <3>4. ASSUME NEW t \in Scans
          PROVE  ScanStepsLeft(t)' <= ScanStepsLeft(t)
      BY <2>1, <3>3
    <3>5. \A a \in Attempts : StepsLeft(a)' <= StepsLeft(a)
      BY <2>1, <2>2, <3>2
    <3> QED
      BY <2>1, <3>3, <3>4, <3>5
  <2>6. CASE (\E s \in Scans : ArriveScan(s) \/ LeaveQueue(s)) \/ AllOver
    <3>1. UNCHANGED <<vars, scanVars>>
      BY <2>6 DEF ArriveScan, LeaveQueue, AllOver, serviceVars
    <3> QED
      BY <2>1, <2>2, <2>3, <3>1
  <2> QED
    BY <1>1, <2>4, <2>5, <2>6 DEF ServiceNext
<1>2. IndInv /\ ScanProofs!IndInv /\ [ServiceNext]_serviceVars => [counts]_serviceVars
  BY <1>1
<1> QED
  BY <1>2, StoreInvariants, ScanInvariants, PTL DEF ServiceSpec, EveryStepCounts
=============================================================================
