----------------------------- MODULE BindingAPI -----------------------------
(***************************************************************************)
(* Every route of the service as its clients see it: what a request is     *)
(* answered, by the tables of the instant it is decided at, and the rows   *)
(* it adds.  That creates are decided at one instant is what BindingStore  *)
(* shows; that inspections and batches are, Inspections and BatchLookup.   *)
(* Here are the handlers around the store: decoding, validation, status    *)
(* codes and error envelopes, in the order the handlers apply them.        *)
(*                                                                         *)
(* A JSON body is the sequence of its members <<name, value>>; UniqueJSON  *)
(* is about its tokens.  A value is a pair of its kind and its content:    *)
(* kind "illegal" for a string that identPattern rejects, "number" for a   *)
(* value of the wrong JSON type.                                           *)
(***************************************************************************)
EXTENDS Parameters, InspectionQueries, TLC

CONSTANTS MaxBatchQueries, NoBinding

ASSUME NullAssumption == NoID \notin Nat
ASSUME BatchSizeAssumption == MaxBatchQueries \in Nat

VARIABLES bindings, inspections,      \* the tables
          bindingSeq, inspectionSeq   \* the last identifier of each sequence

tables == <<bindings, inspections, bindingSeq, inspectionSeq>>

Ledger == INSTANCE BindingLedger
            WITH Attempts <- {}, Keys <- {}, Chips <- {}, Boards <- {},
                 BindingIDs <- 1..MaxInt64, NoReq <- NoText, NoAnswer <- NoText,
                 ledger <- bindings, booked <- {}, req <- <<>>, answer <- <<>>

Batch == INSTANCE BatchLookup
           WITH Values <- {}, Lines <- Nat \ {0}, NoLine <- 0, OtherType <- "serial",
                BadValue <- <<"illegal", "lowercase">>, Malformed <- NoText,
                batch <- <<>>, pc <- "idle", read <- {}, answer <- NoText, seen <- {}

-----------------------------------------------------------------------------
(* Envelopes.                                                               *)

\* What a client decodes from a body that lacks what it looks for.
Blank == [binding_id |-> 0, request_key |-> "", board_serial |-> "",
          inspection_id |-> 0, created_at |-> 0, entries |-> <<>>, next_cursor |-> NoID]

Reply(status, body) == [status |-> status, body |-> body, code |-> "", fields |-> {}]

Refuse(status, code, fields) ==
  [status |-> status, body |-> Blank, code |-> code, fields |-> fields]

Invalid(fields) == Refuse(422, "VALIDATION_FAILED", fields)
NotFound        == Refuse(404, "NOT_FOUND", {})
Internal        == Refuse(500, "INTERNAL", {})

-----------------------------------------------------------------------------
(* Decoding and validating the body of a create or a scan.                  *)

Repetitions(body) == {k \in DOMAIN body : \E j \in 1..k - 1 : body[j][1] = body[k][1]}

\* The scan stops at the first repeated name.
RepeatedName(body) ==
  {body[k][1] : k \in {j \in Repetitions(body) : \A i \in Repetitions(body) : j <= i}}

\* A field that no member names keeps the zero value, the empty string.
Decoded(body, fields) ==
  [f \in fields |-> IF \E k \in DOMAIN body : body[k][1] = f
                    THEN body[CHOOSE k \in DOMAIN body : body[k][1] = f][2]
                    ELSE <<"illegal", "">>]

Undecodable(body, fields) ==
  \E k \in DOMAIN body : body[k][1] \notin fields \/ body[k][2][1] = "number"

IsIdent(value) == value[1] # "illegal"

\* decodeUniqueObject, then ValidateCreateRequest or ValidateInspectionRequest.
Refusals(body, fields) ==
  IF Repetitions(body) # {} THEN {Invalid(RepeatedName(body))}
  ELSE IF Undecodable(body, fields) THEN {Invalid({})}
  ELSE {Invalid(bad) : bad \in {{f \in fields : ~ IsIdent(Decoded(body, fields)[f])}} \ {{}}}

-----------------------------------------------------------------------------
(* The endpoints.                                                           *)

CreateFields == {"request_key", "chip_uid", "board_serial"}
ScanFields   == {"chip_uid", "board_serial"}

\* Mutant: devices are looked at before the request key.
CreateResultDeviceFirst(p) ==
  IF bindingSeq = MaxInt64     THEN Ledger!InternalError
  ELSE IF Ledger!ChipTaken(p)  THEN Ledger!DeviceOccupied("chip_uid")
  ELSE IF Ledger!BoardTaken(p) THEN Ledger!DeviceOccupied("board_serial")
  ELSE Ledger!Created(Ledger!BindingOf(bindingSeq + 1, p))

\* Store.Create, decided at one instant.  The identifier is drawn before the
\* unique indexes are looked at.
CreateResult(p) ==
  LET old == {b \in bindings : b.request_key = p.request_key}
  IN  IF old # {}                  THEN Ledger!AnswerExisting(CHOOSE b \in old : TRUE, p)
      ELSE IF bindingSeq = MaxInt64 THEN Ledger!InternalError
      ELSE IF Ledger!ChipTaken(p)  THEN Ledger!DeviceOccupied("chip_uid")
      ELSE IF Ledger!BoardTaken(p) THEN Ledger!DeviceOccupied("board_serial")
      ELSE Ledger!Created(Ledger!BindingOf(bindingSeq + 1, p))

\* The switch of Handler.Create.
Envelope(res) ==
  CASE res.outcome = "created"              -> Reply(201, res.binding)
    [] res.outcome = "replayed"             -> Reply(200, res.binding)
    [] res.outcome = "request_key_conflict" -> Refuse(409, "REQUEST_KEY_CONFLICT", {})
    [] res.outcome = "device_occupied"      -> Refuse(409, "DEVICE_ALREADY_BOUND", {res.field})
    [] res.outcome = "internal_error"       -> Internal

Create(body) ==
  LET refused == Refusals(body, CreateFields)
  IN  IF refused # {} THEN CHOOSE r \in refused : TRUE
      ELSE Envelope(CreateResult(Decoded(body, CreateFields)))

GetBy(column, value) ==
  LET rows == {b \in bindings : b[column] = value}
  IN  IF ~ IsIdent(value) THEN Invalid({column})
      ELSE IF rows = {}   THEN NotFound
      ELSE Reply(200, CHOOSE b \in rows : TRUE)

\* An item that does not decode is a record [fault |-> the field it fails on].
BatchFaults(items) ==
  LET decode == {<<k, items[k].fault>> :
                   k \in {j \in DOMAIN items : "fault" \in DOMAIN items[j]}}
  IN  IF decode # {} THEN decode ELSE Batch!BatchErrors(items)

BatchItem(item, binding) ==
  [line    |-> item.line,
   type    |-> item.type,
   value   |-> item.value,
   status  |-> IF binding = NoBinding THEN "NOT_FOUND" ELSE "FOUND",
   binding |-> binding]

BatchLookup(repeated, items) ==
  IF repeated THEN Invalid({<<0, "queries">>})
  ELSE IF BatchFaults(items) # {} THEN Invalid(BatchFaults(items))
  ELSE LET found == Batch!Restore(items, Batch!Rows(items, bindings))
       IN  Reply(200, [results |-> [k \in DOMAIN items |-> BatchItem(items[k], found[k].binding)]])

\* An inspection on the wire, with the summaries of the bindings it hit.
Wire(i) == i @@ [chip_binding  |-> Summary(i, bindings).chip_binding,
                 board_binding |-> Summary(i, bindings).board_binding]

Judged(scan) ==
  LET hits == Resolve(bindings, scan)
  IN  [inspection_id    |-> inspectionSeq + 1,
       chip_uid         |-> scan.chip_uid,
       board_serial     |-> scan.board_serial,
       result           |-> Verdict(hits.chip, hits.board),
       chip_binding_id  |-> hits.chip,
       board_binding_id |-> hits.board,
       created_at       |-> inspectionSeq + 1]

CreateInspection(body) ==
  LET refused == Refusals(body, ScanFields)
  IN  IF refused # {} THEN CHOOSE r \in refused : TRUE
      ELSE IF inspectionSeq = MaxInt64 THEN Internal
      ELSE Reply(201, Wire(Judged(Decoded(body, ScanFields))))

GetInspection(id) ==
  LET rows == {i \in inspections : i.inspection_id \in ParsePositiveID(id)}
  IN  IF ParsePositiveID(id) = {} THEN Invalid({"inspection_id"})
      ELSE IF rows = {}           THEN NotFound
      ELSE Reply(200, Wire(CHOOSE i \in rows : TRUE))

\* The rows in the order of the relation before, a set of pairs.
Ranked(rows, before) ==
  [k \in 1..Cardinality(rows) |->
     CHOOSE x \in rows : Cardinality({y \in rows : <<y, x>> \in before}) = k - 1]

BindingRow(id) == CHOOSE b \in bindings : b.binding_id = id

\* A binding that exists, or 404.
OfBinding(target, body) ==
  IF target \in {b.binding_id : b \in bindings} THEN Reply(200, body) ELSE NotFound

PeersBody(target, ranked) ==
  [binding |-> BindingRow(target),
   peers   |-> [k \in DOMAIN ranked |-> ranked[k] @@ [binding |-> BindingRow(ranked[k].peer)]]]

MostFrequentFirst(peers) == Ranked(peers, {e \in peers \X peers : Before(e[1], e[2])})

PeersReply(target, peers) == OfBinding(target, PeersBody(target, MostFrequentFirst(peers)))

GetMismatchPeers(id, limit) ==
  IF ParsePositiveID(id) = {} THEN Invalid({"binding_id"})
  ELSE IF ParseLimit(limit) = {} THEN Invalid({"limit"})
  ELSE CHOOSE reply \in {PeersReply(target, Peers(inspections, bindings, target, n)) :
                           target \in ParsePositiveID(id), n \in ParseLimit(limit)} : TRUE

HistoryBody(target, page, sorted) ==
  [binding     |-> BindingRow(target),
   entries     |-> [k \in DOMAIN sorted |->
                     Wire(sorted[k]) @@ [hit_side |-> HitSide(sorted[k], target)]],
   next_cursor |-> page.next_cursor]

NewestFirst(rows) ==
  Ranked(rows, {e \in rows \X rows : e[1].inspection_id > e[2].inspection_id})

HistoryReply(target, page) == OfBinding(target, HistoryBody(target, page, NewestFirst(page.entries)))

\* A page without before_id is the first one.
Cursors(before) == IF before = NoText THEN {NoID} ELSE ParsePositiveID(before)

GetBindingInspections(id, before, limit) ==
  IF ParsePositiveID(id) = {} THEN Invalid({"binding_id"})
  ELSE IF Cursors(before) = {} THEN Invalid({"before_id"})
  ELSE IF ParseLimit(limit) = {} THEN Invalid({"limit"})
  ELSE CHOOSE reply \in {HistoryReply(target, Page(inspections, target, cursor, n)) :
                           target \in ParsePositiveID(id),
                           cursor \in Cursors(before),
                           n \in ParseLimit(limit)} : TRUE

\* The probe pings the database.
Health(up) == IF up THEN Reply(200, Blank) ELSE Refuse(503, "", {})

\* NewRouter
Response(call) ==
  CASE call.route = "create"     -> Create(call.body)
    [] call.route = "by"         -> GetBy(call.column, call.value)
    [] call.route = "batch"      -> BatchLookup(call.repeated, call.items)
    [] call.route = "inspect"    -> CreateInspection(call.body)
    [] call.route = "inspection" -> GetInspection(call.id)
    [] call.route = "peers"      -> GetMismatchPeers(call.id, call.limit)
    [] call.route = "history"    -> GetBindingInspections(call.id, call.before, call.limit)

-----------------------------------------------------------------------------
InitTables == /\ bindings = {}
              /\ inspections = {}
              /\ bindingSeq = 0
              /\ inspectionSeq = 0

\* The rows a call adds are the ones its 201 shows.  An insert that failed on
\* an occupied device has drawn an identifier all the same.
Effect(call, res) ==
  /\ bindings' = IF call.route = "create" /\ res.status = 201
                 THEN bindings \cup {res.body} ELSE bindings
  /\ bindingSeq' = IF /\ call.route = "create"
                      /\ res.status = 201 \/ res.code = "DEVICE_ALREADY_BOUND"
                   THEN bindingSeq + 1 ELSE bindingSeq
  /\ inspections' = IF call.route = "inspect" /\ res.status = 201
                    THEN inspections \cup {Judged(Decoded(call.body, ScanFields))}
                    ELSE inspections
  /\ inspectionSeq' = IF call.route = "inspect" /\ res.status = 201
                      THEN inspectionSeq + 1 ELSE inspectionSeq

Serve(call) == Effect(call, Response(call))
=============================================================================
