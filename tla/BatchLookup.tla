----------------------------- MODULE BatchLookup -----------------------------
(***************************************************************************)
(* POST /api/v1/bindings/batch-lookup: what Handler.BatchLookup and        *)
(* ValidateBatchQueries reject, and how Store.BatchLookup asks once for    *)
(* every distinct (type, value), tags the question with the line of its    *)
(* first occurrence and restores the rows onto all items, while stations   *)
(* go on creating bindings.  Chips, boards and request keys are the same   *)
(* kind of string: one value may be all three.                             *)
(***************************************************************************)
EXTENDS Naturals, Sequences, FiniteSets

CONSTANTS Values,          \* legal identifiers
          Lines,           \* positive line numbers
          MaxBatchQueries,
          NoLine,          \* a line that is missing, zero or negative
          OtherType,       \* a type that is none of the three
          BadValue,        \* a string identPattern does not match
          Malformed,       \* an item that does not decode
          NoBinding        \* nil in BatchItem.Binding: NOT_FOUND

ASSUME BatchAssumption == MaxBatchQueries \in Nat /\ NoLine \notin Lines

LookupTypes == {"chip_uid", "board_serial", "request_key"}

Items == [line  : Lines \cup {NoLine},
          type  : LookupTypes \cup {OtherType},
          value : Values \cup {BadValue}]

Batches == UNION {[1..n -> Items \cup {Malformed}] : n \in 0..MaxBatchQueries + 1}

-----------------------------------------------------------------------------
(* Validation.  An error is the position of an item, 0 for the whole array, *)
(* and the field at fault.                                                  *)

DecodeErrors(batch) ==
  {<<i, "item">> : i \in {j \in DOMAIN batch : batch[j] = Malformed}}

Legal(item, field) ==
  CASE field = "line"  -> item.line # NoLine
    [] field = "type"  -> item.type # OtherType
    [] field = "value" -> item.value # BadValue

\* Mutant: only the item just before is looked at, and only if it was legal.
RepeatsAdjacent(batch, i) ==
  i > 1 /\ batch[i].line = batch[i - 1].line /\ Legal(batch[i - 1], "type")

\* seenLines: every earlier item counts that has a line, whatever else is wrong.
Repeats(batch, i) == \E j \in 1..i - 1 : batch[i].line = batch[j].line

\* Mutant: more items than the bound are let through.
BatchErrorsUnbounded(batch) ==
  IF batch = <<>> THEN {<<0, "queries">>}
  ELSE {e \in (DOMAIN batch) \X {"line", "type", "value"} :
          \/ ~ Legal(batch[e[1]], e[2])
          \/ e[2] = "line" /\ Repeats(batch, e[1])}

\* ValidateBatchQueries
BatchErrors(batch) ==
  IF batch = <<>> \/ Len(batch) > MaxBatchQueries THEN {<<0, "queries">>}
  ELSE {e \in (DOMAIN batch) \X {"line", "type", "value"} :
          \/ ~ Legal(batch[e[1]], e[2])
          \/ e[2] = "line" /\ Repeats(batch, e[1])}

\* The handler decodes every item before it validates any.
FieldErrors(batch) ==
  IF DecodeErrors(batch) # {} THEN DecodeErrors(batch) ELSE BatchErrors(batch)

-----------------------------------------------------------------------------
(* The lookup.                                                              *)

\* Mutant: one question for a value, whatever its type.
QueryKeyOfValue(query) == query.value

QueryKey(query) == <<query.type, query.value>>

\* The items that are sent: the first of each query key.
Distinct(queries) ==
  {i \in DOMAIN queries : \A j \in 1..i - 1 : QueryKey(queries[j]) # QueryKey(queries[i])}

\* A later write to keyByLine replaces an earlier one.
KeyByLine(queries) ==
  [line \in {queries[i].line : i \in Distinct(queries)} |->
     QueryKey(queries[CHOOSE i \in Distinct(queries) :
       /\ queries[i].line = line
       /\ \A j \in Distinct(queries) : queries[j].line = line => j <= i])]

\* batchLookupSQL: the rows in table, each with the line it answers.
Rows(queries, table) ==
  {<<queries[x[1]].line, x[2]>> :
     x \in {y \in Distinct(queries) \X table : y[2][queries[y[1]].type] = queries[y[1]].value}}

\* found maps query keys to bindings; every item looks its own key up.
Restore(queries, rows) ==
  LET hits(i) == {r \in rows : KeyByLine(queries)[r[1]] = QueryKey(queries[i])}
  IN  [i \in DOMAIN queries |->
         [query   |-> queries[i],
          binding |-> IF hits(i) = {} THEN NoBinding ELSE (CHOOSE r \in hits(i) : TRUE)[2]]]

-----------------------------------------------------------------------------
VARIABLES bindings,   \* committed read, with the columns of their ledger read
          batch, pc, read, answer,
          seen        \* every content of bindings since the batch arrived

vars == <<bindings, batch, pc, read, answer, seen>>

Answer(status, errors, results) ==
  [status |-> status, field_errors |-> errors, results |-> results]

Init == /\ bindings = {}
        /\ batch    = <<>>
        /\ pc       = "idle"
        /\ read     = {}
        /\ answer   = Answer(0, {}, <<>>)
        /\ seen     = {}

\* Some create commits.
Book ==
  /\ pc # "done"
  /\ \E b \in [request_key : Values, chip_uid : Values, board_serial : Values] :
       /\ \A x \in bindings : \A column \in LookupTypes : x[column] # b[column]
       /\ bindings' = bindings \cup {b}
  /\ seen' = IF pc = "idle" THEN seen ELSE seen \cup {bindings'}
  /\ UNCHANGED <<batch, pc, read, answer>>

\* Any error rejects the whole batch before the database is asked.
Submit ==
  /\ pc = "idle"
  /\ batch' \in Batches
  /\ IF FieldErrors(batch') # {}
     THEN /\ pc' = "done"
          /\ answer' = Answer(422, FieldErrors(batch'), <<>>)
     ELSE /\ pc' = "query"
          /\ UNCHANGED answer
  /\ seen' = {bindings}
  /\ UNCHANGED <<bindings, read>>

\* BEGIN takes no snapshot yet, the one SELECT does.
Query ==
  /\ pc = "query"
  /\ read' = Rows(batch, bindings)
  /\ pc' = "commit"
  /\ UNCHANGED <<bindings, batch, answer, seen>>

Commit ==
  /\ pc = "commit"
  /\ answer' = Answer(200, {}, Restore(batch, read))
  /\ pc' = "done"
  /\ UNCHANGED <<bindings, batch, read, seen>>

Fail ==
  /\ pc \in {"query", "commit"}
  /\ answer' = Answer(500, {}, <<>>)
  /\ pc' = "done"
  /\ UNCHANGED <<bindings, batch, read, seen>>

Answered == pc = "done" /\ UNCHANGED vars

Next == Book \/ Submit \/ Query \/ Commit \/ Fail \/ Answered

Spec == Init /\ [][Next]_vars

-----------------------------------------------------------------------------
(* Properties.                                                              *)

\* A batch that reaches the database holds at most MaxBatchQueries items, and
\* only a rejected one carries errors.
TypeOK ==
  /\ pc \in {"idle", "query", "commit", "done"}
  /\ batch \in Batches
  /\ pc \in {"query", "commit"} => Len(batch) \in 1..MaxBatchQueries
  /\ answer.status \in {0, 200, 422, 500}
  /\ answer.status = 422 <=> answer.field_errors # {}

\* GET by-chip-uid, by-board-serial or by-request-key in a given table.
Single(query, table) ==
  LET hits == {b \in table : b[query.type] = query.value}
  IN  IF hits = {} THEN NoBinding ELSE CHOOSE b \in hits : TRUE

\* A batch is answered item by item, in input order, with what the single
\* lookups would all have said at one instant after it arrived: no item gets
\* another's binding, and no two items come from two instants
\* (store.go:189-199).
BatchEqualsSingles ==
  answer.status = 200 =>
    \E table \in seen :
      answer.results = [i \in DOMAIN batch |-> [query   |-> batch[i],
                                                binding |-> Single(batch[i], table)]]

\* The errors of a batch whose items all decode name every item at fault: an
\* item they do not name is legal, and its line is none of an earlier item's,
\* be that one at fault or not (validate.go:67-71).
UnnamedItemsAreLegal ==
  LET named == {e[1] : e \in answer.field_errors}
      rest  == DOMAIN batch \ named
  IN  (answer.status = 422 /\ named \cap {0} = {} /\ DecodeErrors(batch) = {}) =>
        /\ \A i \in rest : batch[i] \in [line : Lines, type : LookupTypes, value : Values]
        /\ \A i \in rest : \A j \in 1..i - 1 : batch[i].line # batch[j].line

-----------------------------------------------------------------------------
(* The inductive invariant.                                                 *)

\* A batch is answered from one content of bindings, each content one to one
\* (BindingStore!OneToOne), and only a batch without errors gets there.
IndInv ==
  /\ TypeOK
  /\ \A x, y \in bindings : x = y \/ \A column \in LookupTypes : x[column] # y[column]
  /\ \A table \in seen : table \subseteq bindings
  /\ pc # "idle" => bindings \in seen
  /\ pc # "done" => answer.status = 0
  /\ pc \in {"query", "commit"} => FieldErrors(batch) = {}
  /\ pc = "commit" => \E table \in seen : read = Rows(batch, table)
  /\ BatchEqualsSingles
  /\ UnnamedItemsAreLegal
=============================================================================
