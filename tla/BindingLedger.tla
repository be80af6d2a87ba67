--------------------------- MODULE BindingLedger ---------------------------
(***************************************************************************)
(* What POST /api/v1/bindings promises, with no transactions in sight: a   *)
(* ledger of bindings against which every request is decided at one        *)
(* instant, by the request key first, then by the chip, then by the board. *)
(* A request whose outcome the service could not learn fails, and its      *)
(* binding may still be booked afterwards.                                 *)
(***************************************************************************)
CONSTANTS Attempts,      \* deliveries of POST /bindings, retries included
          Keys,          \* request keys generated by the stations
          Chips,         \* chip UIDs
          Boards,        \* board serial numbers
          BindingIDs,    \* identifiers a binding may get
          NoReq,         \* an attempt that has not arrived
          NoBinding,     \* the zero value of a CreateResult's Binding
          NoAnswer       \* an attempt that is not answered yet

VARIABLES ledger,        \* the bindings in force
          booked,        \* the attempts whose binding is in the ledger
          req,           \* the payload of every attempt
          answer         \* the CreateResult of every attempt, or its failure

ledgerVars == <<ledger, booked, req, answer>>

Payloads == [request_key : Keys, chip_uid : Chips, board_serial : Boards]

Bindings == [binding_id : BindingIDs, request_key : Keys,
             chip_uid : Chips, board_serial : Boards]

BindingOf(id, p) == [binding_id   |-> id,
                     request_key  |-> p.request_key,
                     chip_uid     |-> p.chip_uid,
                     board_serial |-> p.board_serial]

SamePayload(b, p) == /\ b.chip_uid = p.chip_uid
                     /\ b.board_serial = p.board_serial

CreateResult(outcome, binding, field) ==
  [outcome |-> outcome, binding |-> binding, field |-> field]

Created(b)         == CreateResult("created", b, "")
Replayed(b)        == CreateResult("replayed", b, "")
KeyConflict(b)     == CreateResult("request_key_conflict", b, "")
DeviceOccupied(f)  == CreateResult("device_occupied", NoBinding, f)
InternalError      == CreateResult("internal_error", NoBinding, "")

Answers == [outcome : {"created", "replayed", "request_key_conflict",
                       "device_occupied", "internal_error"},
            binding : Bindings \cup {NoBinding},
            field   : {"", "chip_uid", "board_serial"}]

\* The answer to an existing request key: the original record either way.
AnswerExisting(b, p) == IF SamePayload(b, p) THEN Replayed(b) ELSE KeyConflict(b)

KeyTaken(p)   == \E b \in ledger : b.request_key = p.request_key
ChipTaken(p)  == \E b \in ledger : b.chip_uid = p.chip_uid
BoardTaken(p) == \E b \in ledger : b.board_serial = p.board_serial

-----------------------------------------------------------------------------
Init == /\ ledger = {}
        /\ booked = {}
        /\ req    = [a \in Attempts |-> NoReq]
        /\ answer = [a \in Attempts |-> NoAnswer]

Submit(a) ==
  /\ req[a] = NoReq
  /\ \E p \in Payloads : req' = [req EXCEPT ![a] = p]
  /\ UNCHANGED <<ledger, booked, answer>>

\* The binding comes into force, all at once, when nothing stands against it.
Book(a) ==
  /\ req[a] # NoReq
  /\ a \notin booked
  /\ answer[a] \in {NoAnswer, InternalError}
  /\ ~ (KeyTaken(req[a]) \/ ChipTaken(req[a]) \/ BoardTaken(req[a]))
  /\ \E id \in BindingIDs :
       /\ \A b \in ledger : b.binding_id # id
       /\ ledger' = ledger \cup {BindingOf(id, req[a])}
  /\ booked' = booked \cup {a}
  /\ UNCHANGED <<req, answer>>

\* The answer is what the ledger says at the instant it is given.
Verdicts(a) ==
  IF a \in booked
  THEN {Created(b) : b \in {x \in ledger : x.request_key = req[a].request_key}}
  ELSE IF KeyTaken(req[a])
  THEN {AnswerExisting(b, req[a]) :
          b \in {x \in ledger : x.request_key = req[a].request_key}}
  ELSE IF ChipTaken(req[a])  THEN {DeviceOccupied("chip_uid")}
  ELSE IF BoardTaken(req[a]) THEN {DeviceOccupied("board_serial")}
  ELSE {}

Decide(a) ==
  /\ req[a] # NoReq
  /\ answer[a] = NoAnswer
  /\ \E v \in Verdicts(a) : answer' = [answer EXCEPT ![a] = v]
  /\ UNCHANGED <<ledger, booked, req>>

GiveUp(a) ==
  /\ req[a] # NoReq
  /\ answer[a] = NoAnswer
  /\ answer' = [answer EXCEPT ![a] = InternalError]
  /\ UNCHANGED <<ledger, booked, req>>

Next == \E a \in Attempts : Submit(a) \/ Book(a) \/ Decide(a) \/ GiveUp(a)

Spec == Init /\ [][Next]_ledgerVars
=============================================================================
