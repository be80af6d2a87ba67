-------------------------- MODULE AcceptanceClient --------------------------
(***************************************************************************)
(* cmd/verify: waits for the service, drives it through fourteen scenarios *)
(* and counts the checks that fail.  Two stations race in one scenario,    *)
(* writers churn in another; meanwhile a foreign station works with        *)
(* identifiers of its own, and a call of the client may be lost, with or   *)
(* without its effect.                                                     *)
(*                                                                         *)
(* A scenario is a sequence of steps.  A step is the calls it sends        *)
(* together, what it wants of their answers in any order, and what has to  *)
(* hold of the answers so far; Body(k) is the body that step k was given.  *)
(***************************************************************************)
EXTENDS BindingAPI

CONSTANTS Suites,       \* sequences of scenarios to run, that of main and parts of it
          UnknownID,    \* 999999999: an id nobody has
          SnapRows, SnapWriters, SnapRounds,  \* rows, writers, round < 16
          MaxPolls,     \* polls before the deadline of waitHealthy
          MaxPages,     \* bound: pages of one walk
          MaxTrouble    \* bound: lost and foreign calls, for each of Suites

VARIABLES suite,        \* the scenarios that this run consists of
          up,           \* the service is up and its database answers
          polls, phase,
          scenario,     \* how many scenarios are done
          got,          \* the answers to each step of the current scenario
          answers,      \* the answers to the calls of the current step
          walk,         \* what a walk over the pages has collected
          churn,        \* the writers, and what the batches among them saw
          failures,     \* <<scenario, label>> of every failed check
          lostIn,       \* the scenarios in which a call was lost
          trouble       \* lost calls and calls of the foreign station

progress == <<phase, scenario, got, answers, walk, failures>>
vars     == <<tables, suite, up, polls, progress, churn, lostIn, trouble>>

-----------------------------------------------------------------------------
(* Calls and what is wanted of an answer.                                   *)

Key(t)   == <<"request_key", t>>
Chip(t)  == <<"chip_uid", t>>
Board(t) == <<"board_serial", t>>
Illegal  == <<"illegal", "lowercase">>
Number   == <<"number", "42">>

\* A text that is not JSON, and a member nobody knows.
Broken == <<<<"", Number>>>>
Extra  == <<"extra", Key("true")>>

PostRaw(body)  == [route |-> "create", body |-> body]
Post(k, c, b)  == PostRaw(<<<<"request_key", k>>, <<"chip_uid", c>>, <<"board_serial", b>>>>)
Bind(t)        == Post(Key(t), Chip(t), Board(t))
ScanRaw(body)  == [route |-> "inspect", body |-> body]
Scan(c, b)     == ScanRaw(<<<<"chip_uid", Chip(c)>>, <<"board_serial", Board(b)>>>>)
By(id)         == [route |-> "by", column |-> id[1], value |-> id]
Lookup(items)  == [route |-> "batch", repeated |-> FALSE, items |-> items]
Item(line, id) == [line |-> line, type |-> id[1], value |-> id]
Twice(batch)   == [batch EXCEPT !.repeated = TRUE]

TextOf(id)                    == IF id = NoID THEN NoText ELSE Numeral[id]
InspectionRaw(text)           == [route |-> "inspection", id |-> text]
Inspection(id)                == InspectionRaw(Numeral[id])
PeersRaw(text, limit)         == [route |-> "peers", id |-> text, limit |-> limit]
PeersOf(id, limit)            == PeersRaw(Numeral[id], limit)
HistoryRaw(text, before, lim) == [route |-> "history", id |-> text, before |-> before, limit |-> lim]
History(id, before, limit)    == HistoryRaw(Numeral[id], TextOf(before), Numeral[limit])

Answered(status)   == [status |-> status, code |-> "", names |-> {}, shows |-> <<>>, rows |-> <<>>]
Shown(status, r)   == [Answered(status) EXCEPT !.shows = r]
Refused(status, code, names) == [Answered(status) EXCEPT !.code = code, !.names = names]
Rejected(names)    == Refused(422, "VALIDATION_FAILED", names)
Missing            == Refused(404, "NOT_FOUND", {})
Occupied(field)    == Refused(409, "DEVICE_ALREADY_BOUND", {field})
KeyConflict        == Refused(409, "REQUEST_KEY_CONFLICT", {})
Listed(r, list, rows) == [Shown(200, r) EXCEPT !.rows = [l \in {list} |-> rows]]
Anything           == Answered(0)

Shows(body, part) == \A f \in DOMAIN part : f \in DOMAIN body /\ body[f] = part[f]

Meets(reply, want) ==
  \/ want = Anything
  \/ /\ reply.status = want.status
     /\ want.code # "" => reply.code = want.code
     /\ want.names \subseteq reply.fields
     /\ Shows(reply.body, want.shows)
     /\ \A l \in DOMAIN want.rows :
          /\ Len(reply.body[l]) = Len(want.rows[l])
          /\ \A k \in DOMAIN want.rows[l] : Shows(reply.body[l][k], want.rows[l][k])

\* A race is judged by how many stations got which answer.
AllMet(replies, wants) ==
  \E order \in {f \in [DOMAIN wants -> DOMAIN wants] : {f[k] : k \in DOMAIN f} = DOMAIN wants} :
    \A k \in DOMAIN wants : Meets(replies[order[k]], wants[k])

-----------------------------------------------------------------------------
(* Steps.                                                                   *)

Step == [calls |-> <<>>, wants |-> <<>>, ok |-> TRUE, label |-> "",
         must  |-> FALSE,   \* a failure ends the scenario
         needs |-> TRUE,    \* what the client goes on to dereference
         walks |-> FALSE,   \* repeated until there is no next_cursor
         churn |-> FALSE]

Expect(call, want)   == [Step EXCEPT !.calls = <<call>>, !.wants = <<want>>]
Send(call)           == Expect(call, Anything)
Race(p, q, w1, w2)   == [Step EXCEPT !.calls = <<p, q>>, !.wants = <<w1, w2>>]
That(ok)             == [Step EXCEPT !.ok = ok]
Labelled(step, name) == [step EXCEPT !.label = name]
Must(step)           == [step EXCEPT !.must = TRUE]
Needing(step, what)  == [step EXCEPT !.needs = what]
ExpectAll(calls, want) == [k \in DOMAIN calls |-> Expect(calls[k], want)]

Replies(k) == IF k > Len(got) THEN {} ELSE {got[k][c] : c \in DOMAIN got[k]}

Body(k) == LET good == {r \in Replies(k) : r.status \in {200, 201}}
           IN  IF good = {} THEN Blank ELSE (CHOOSE r \in good : TRUE).body

\* The ids and parameters that are not canonical positive integers.
BadTexts == <<<<"0">>, <<"-", "1">>, <<"a", "b", "c">>, <<"0", "1">>,
              <<"1", ".", "5">>, <<"+", "1">>>>

BadLimits == <<<<"0">>, <<"5", "1">>, <<"a", "b", "c">>,
               <<"1", "0", "0">>, <<"-", "3">>, <<"0", "5">>>>

-----------------------------------------------------------------------------
(* The scenarios on bindings.                                               *)

ReplayAfterLostResponse ==
  <<Expect(Bind("REPLAY"), Answered(201)),
    Expect(Bind("REPLAY"), Shown(200, Body(1)))>>
  \o ExpectAll(<<By(Key("REPLAY")), By(Chip("REPLAY")), By(Board("REPLAY"))>>,
               Shown(200, Body(1)))

RequestKeyConflict ==
  <<Expect(Bind("KEYCONF"), Answered(201)),
    Expect(Post(Key("KEYCONF"), Chip("KEYCONF-ALT"), Board("KEYCONF-ALT")), KeyConflict),
    Expect(By(Key("KEYCONF")), Shown(200, Body(1)))>>

DeviceOccupied ==
  <<Expect(Bind("OCC"), Answered(201)),
    Expect(Post(Key("OCC-CHIP"), Chip("OCC"), Board("OCC-NEW")), Occupied("chip_uid")),
    Expect(Post(Key("OCC-BOARD"), Chip("OCC-NEW"), Board("OCC")), Occupied("board_serial"))>>
  \o ExpectAll(<<By(Key("OCC-CHIP")), By(Key("OCC-BOARD"))>>, Missing)
  \o ExpectAll(<<By(Chip("OCC")), By(Board("OCC"))>>, Shown(200, Body(1)))

ConcurrentStations ==
  LET won   == Body(1)
      loser == CHOOSE k \in {Key("RACE-A"), Key("RACE-B")} : k # won.request_key
  IN  <<Must(Race(Post(Key("RACE-A"), Chip("RACE"), Board("RACE-A")),
                  Post(Key("RACE-B"), Chip("RACE"), Board("RACE-B")),
                  Answered(201), Answered(409))),
        That(\E r \in Replies(1) : Meets(r, Occupied("chip_uid"))),
        Expect(By(Chip("RACE")), Shown(200, won)),
        Expect(By(IF won = Blank THEN Key("RACE-A") ELSE won.request_key), Shown(200, won)),
        Expect(By(IF won = Blank THEN Board("RACE-A") ELSE won.board_serial), Shown(200, won)),
        Expect(By(loser), Answered(404)),
        Race(Post(Key("RACEB-A"), Chip("RACEB-A"), Board("RACEB")),
             Post(Key("RACEB-B"), Chip("RACEB-B"), Board("RACEB")),
             Answered(201), Occupied("board_serial")),
        Race(Bind("RACEDUP"), Bind("RACEDUP"), Answered(201), Answered(200)),
        That(\A r, s \in Replies(8) : r.body = s.body),
        Race(Post(Key("RACECONF"), Chip("RACECONF-A"), Board("RACECONF-A")),
             Post(Key("RACECONF"), Chip("RACECONF-B"), Board("RACECONF-B")),
             Answered(201), KeyConflict)>>

ValidationRejected ==
  LET chip(k, v)  == PostRaw(<<<<"request_key", Key(k)>>, <<"chip_uid", v>>, <<"board_serial", Board("1")>>>>)
      board(k, v) == Post(Key(k), Chip("1"), v)
  IN  ExpectAll(<<chip("BAD1", Illegal), chip("BAD2", Illegal),
                  board("BAD3", Illegal), board("BAD4", Illegal),
                  Post(Illegal, Chip("1"), Board("1")),
                  PostRaw(<<<<"request_key", Key("BAD6")>>, <<"chip_uid", Chip("1")>>>>),
                  PostRaw(Broken), chip("BAD8", Number)>>, Rejected({}))
      \o ExpectAll(<<By(Key("BAD1")), By(Key("BAD2")), By(Key("BAD3")),
                     By(Key("BAD4")), By(Key("BAD6")), By(Key("BAD8"))>>, Answered(404))
      \o <<Expect(By(Chip("NOPE")), Missing)>>

-----------------------------------------------------------------------------
(* The scenarios on batches.                                                *)

Found(b) == [status |-> "FOUND", binding |-> b]
Absent   == [status |-> "NOT_FOUND", binding |-> NoBinding]

BatchMixedWithMissing ==
  LET items == <<Item(7, Chip("BMIX")), Item(2, Board("MISSING")), Item(9, Key("BMIX")),
                 Item(1, Board("BMIX")), Item(5, Chip("MISSING"))>>
      wants == <<Found(Body(1)), Absent, Found(Body(1)), Found(Body(1)), Absent>>
  IN  <<Expect(Bind("BMIX"), Answered(201)),
        Expect(Lookup(items), Listed(<<>>, "results", [k \in 1..5 |-> items[k] @@ wants[k]]))>>

\* indexByLine yields -1 for a line that is not there, and results is indexed.
BatchDuplicatesReturnedPerRow ==
  LET items == <<Item(10, Chip("BDUP")), Item(20, Key("NEVER")), Item(30, Chip("BDUP")),
                 Item(40, Chip("BDUP")), Item(50, Key("NEVER"))>>
      wants == <<Found(Body(1)), Absent, Found(Body(1)), Found(Body(1)), Absent>>
  IN  <<Expect(Bind("BDUP"), Answered(201)),
        Expect(Lookup(items), Listed(<<>>, "results", [k \in 1..5 |-> [line |-> items[k].line] @@ wants[k]])),
        Needing(Step, Body(2) # Blank)>>

\* The identifiers of row i carry a number.
SnapID(column, i) == <<column, "SNAP", i>>

SnapRow(i) == Post(SnapID("request_key", i), SnapID("chip_uid", i), SnapID("board_serial", i))

SnapItems ==
  [k \in 1..3 * SnapRows |->
     Item(k, SnapID(CASE k % 3 = 1 -> "request_key"
                      [] k % 3 = 2 -> "chip_uid"
                      [] k % 3 = 0 -> "board_serial",
                    ((k - 1) \div 3) + 1))]

BatchSnapshotUnderConcurrentWrites ==
  <<[Step EXCEPT !.churn = TRUE],
    That(~ churn.torn),
    Labelled(That(churn.observed), "observed"),
    Labelled(Expect(Lookup(SnapItems),
                    Listed(<<>>, "results", [k \in 1..3 * SnapRows |-> [status |-> "FOUND"]])),
             "complete")>>

BatchValidationRejected ==
  <<Expect(Lookup(<<>>), Rejected({<<0, "queries">>})),
    Expect(Lookup(<<Item(3, Chip("X")), Item(3, Board("X"))>>), Rejected({<<2, "line">>})),
    Expect(Lookup(<<[line |-> 1, type |-> "serial", value |-> Board("X")]>>), Rejected({<<1, "type">>})),
    Expect(Lookup(<<[line |-> 1, type |-> "chip_uid", value |-> Illegal]>>), Rejected({<<1, "value">>})),
    Expect(Lookup(<<[fault |-> "line"]>>), Rejected({<<1, "line">>})),
    Expect(Lookup([k \in 1..MaxBatchQueries + 1 |-> Item(k, Chip("X"))]), Rejected({<<0, "queries">>}))>>

-----------------------------------------------------------------------------
(* The scenarios on inspections.                                            *)

\* A verdict with the bindings a and b on its two sides, or Blank for none.
Judges(result, a, b) ==
  Shown(201, [result           |-> result,
              chip_binding_id  |-> IF a = Blank THEN NoID ELSE a.binding_id,
              board_binding_id |-> IF b = Blank THEN NoID ELSE b.binding_id,
              chip_binding     |-> {a} \ {Blank},
              board_binding    |-> {b} \ {Blank}])

Verdicted(result) == Shown(201, [result |-> result])

InspectionVerdicts ==
  <<Expect(Bind("INS-A"), Answered(201)),
    Expect(Bind("INS-B"), Answered(201)),
    Expect(Scan("INS-A", "INS-A"), Judges("CONSISTENT", Body(1), Body(1))),
    Expect(Scan("INS-A", "INS-B"), Judges("MISMATCH", Body(1), Body(2))),
    Expect(Scan("INS-A", "INS-MISSING"), Judges("PARTIAL", Body(1), Blank)),
    Expect(Scan("INS-MISSING", "INS-B"), Judges("PARTIAL", Blank, Body(2))),
    Expect(Scan("INS-GHOST", "INS-GHOST"), Judges("UNREGISTERED", Blank, Blank))>>
  \o [k \in 1..5 |-> Expect(Inspection(Body(k + 2).inspection_id), Shown(200, Body(k + 2)))]

InspectionReviewAndErrors ==
  LET chip(v) == ScanRaw(<<<<"chip_uid", v>>, <<"board_serial", Board("1")>>>>)
  IN  <<Expect(Bind("INR"), Answered(201)),
        Expect(Scan("INR", "INR"), Verdicted("CONSISTENT"))>>
      \o [k \in DOMAIN BadTexts |-> Expect(InspectionRaw(BadTexts[k]), Rejected({}))]
      \o <<Expect(Inspection(UnknownID), Missing)>>
      \o ExpectAll(<<chip(Illegal), chip(Illegal),
                     ScanRaw(<<<<"chip_uid", Chip("1")>>, <<"board_serial", Illegal>>>>),
                     ScanRaw(<<<<"chip_uid", Chip("1")>>>>),
                     ScanRaw(<<>>), chip(Number),
                     ScanRaw(<<<<"chip_uid", Chip("1")>>, <<"board_serial", Board("1")>>, Extra>>),
                     ScanRaw(Broken)>>, Rejected({}))
      \o <<Expect(Inspection(Body(2).inspection_id), Shown(200, Body(2))),
           Expect(By(Chip("INR")), Shown(200, Body(1)))>>

PeerRow(b, n, last) == [binding |-> b, occurrences |-> n, last_inspection_id |-> last.inspection_id]

MismatchPeers ==
  LET a == Body(1)  b == Body(2)  c == Body(3)  d == Body(4)
      ab == Body(6) ac == Body(7) ad == Body(8)
      target == a.binding_id
  IN  ExpectAll(<<Bind("MP-A"), Bind("MP-B"), Bind("MP-C"), Bind("MP-D")>>, Answered(201))
      \o <<Send(Scan("MP-A", "MP-B"))>>
      \o ExpectAll(<<Scan("MP-B", "MP-A"), Scan("MP-A", "MP-C"), Scan("MP-A", "MP-D")>>,
                   Verdicted("MISMATCH"))
      \o <<Send(Scan("MP-A", "MP-A")),
           Send(Scan("MP-A", "MP-GHOST")),
           Expect(PeersOf(target, NoText),
                  Listed([binding |-> a], "peers",
                         <<PeerRow(b, 2, ab) @@ [last_occurred_at |-> ab.created_at],
                           PeerRow(d, 1, ad), PeerRow(c, 1, ac)>>)),
           Expect(PeersOf(b.binding_id, NoText), Listed(<<>>, "peers", <<PeerRow(a, 2, ab)>>)),
           Expect(PeersOf(target, Numeral[1]), Listed(<<>>, "peers", <<[binding |-> b]>>)),
           Expect(PeersOf(target, Numeral[2]), Listed(<<>>, "peers", <<<<>>, <<>>>>)),
           Expect(Bind("MP-E"), Answered(201)),
           Expect(PeersOf(Body(15).binding_id, NoText), Listed(<<>>, "peers", <<>>))>>
      \o [k \in 1..4 |-> Expect(PeersRaw(BadTexts[k], NoText), Rejected({}))]
      \o [k \in 1..3 |-> Expect(PeersOf(target, BadLimits[k]), Rejected({}))]
      \o <<Expect(PeersOf(UnknownID, NoText), Missing),
           Expect(By(Chip("MP-A")), Shown(200, a)),
           Expect(Inspection(ab.inspection_id), Shown(200, ab))>>

-----------------------------------------------------------------------------
(* The scenario on the history of one binding.                              *)

NoWalk == [cursor |-> NoID, ids |-> <<>>, sizes |-> {}, pages |-> 0]

\* One page of a walk that begins at the cursor start.
WalkPage(target, start, limit) ==
  [Expect(History(target, IF walk.pages = 0 THEN start ELSE walk.cursor, limit), Answered(200))
     EXCEPT !.walks = TRUE]

\* The scans of the setup, newest first, with the side they hit A on.
HistoryWants == LET hit(k, side) == Body(k) @@ [hit_side |-> side]
                IN  <<hit(7, "board"), hit(6, "chip"), hit(5, "board"), hit(4, "chip"), hit(3, "both")>>

HistorySetup ==
  ExpectAll(<<Bind("IH-A"), Bind("IH-B")>>, Answered(201))
  \o <<Expect(Scan("IH-A", "IH-A"), Verdicted("CONSISTENT")),
       Expect(Scan("IH-A", "IH-B"), Verdicted("MISMATCH")),
       Expect(Scan("IH-B", "IH-A"), Verdicted("MISMATCH")),
       Expect(Scan("IH-A", "IH-GHOST"), Verdicted("PARTIAL")),
       Expect(Scan("IH-GHOST", "IH-A"), Verdicted("PARTIAL")),
       Send(Scan("IH-B", "IH-B")),
       Send(Scan("IH-NEVER", "IH-NEVER2"))>>

\* Steps 10 to 29: one page, small pages, a cursor read twice, a cursor held
\* while newer scans commit, and the walk that finds those.
HistoryWalks ==
  LET a     == Body(1).binding_id
      ids   == [k \in 1..5 |-> HistoryWants[k].inspection_id]
      held  == Body(20).next_cursor
      newer == Body(22).inspection_id
  IN  <<Expect(HistoryRaw(Numeral[a], NoText, NoText),
               Listed([binding |-> Body(1), next_cursor |-> NoID], "entries", HistoryWants))>>
      \o [k \in 1..5 |-> Expect(Inspection(ids[k]), Shown(200, Body(8 - k)))]
      \o <<WalkPage(a, NoID, 2),
           That(walk.pages = 3 /\ walk.ids = ids /\ walk.sizes \subseteq 1..2),
           Expect(History(a, ids[1], 2), Answered(200)),
           Expect(History(a, ids[1], 2), Shown(200, [entries     |-> Body(18).entries,
                                                     next_cursor |-> Body(18).next_cursor])),
           Expect(History(a, NoID, 2), Answered(200)),
           Needing(That(held # NoID), held # NoID),
           Expect(Scan("IH-B", "IH-A"), Answered(201)),
           That(IF held = NoID THEN FALSE ELSE newer > held),
           Send(Scan("IH-B", "IH-B")),
           Send(Scan("IH-X", "IH-Y")),
           WalkPage(a, held, 2),
           That(walk.ids = SubSeq(ids, 3, 5)),
           WalkPage(a, NoID, 50),
           That(walk.ids = <<newer>> \o ids)>>

HistoryErrors ==
  LET a == Body(1).binding_id
  IN  <<Expect(HistoryRaw(Numeral[a], Numeral[1], NoText),
               Listed([next_cursor |-> NoID], "entries", <<>>))>>
      \o [k \in DOMAIN BadTexts |->
            Expect(HistoryRaw(BadTexts[k], NoText, NoText), Rejected({"binding_id"}))]
      \o [k \in DOMAIN BadTexts |->
            Expect(HistoryRaw(Numeral[a], BadTexts[k], NoText), Rejected({"before_id"}))]
      \o [k \in DOMAIN BadLimits |->
            Expect(HistoryRaw(Numeral[a], NoText, BadLimits[k]), Rejected({"limit"}))]
      \o <<Expect(HistoryRaw(Numeral[UnknownID], NoText, NoText), Missing),
           Expect(By(Chip("IH-A")), Shown(200, Body(1))),
           Expect(Inspection(Body(4).inspection_id), Shown(200, Body(4))),
           Expect(Lookup(<<Item(1, Board("IH-A"))>>), Listed(<<>>, "results", <<Found(Body(1))>>)),
           Expect(PeersOf(a, NoText), Listed(<<>>, "peers", <<[binding |-> Body(2)]>>))>>

BindingInspectionHistory == HistorySetup \o HistoryWalks \o HistoryErrors

-----------------------------------------------------------------------------
(* The scenario on repeated members.                                        *)

DuplicateFieldsRejected ==
  LET key(t) == <<"request_key", Key(t)>>
      chip(t) == <<"chip_uid", Chip(t)>>
      board(t) == <<"board_serial", Board(t)>>
  IN  <<Expect(Bind("DUP"), Answered(201)),
        Expect(PostRaw(<<key("DUP-K1"), key("DUP-K2"), chip("NEW1"), board("NEW1")>>), Rejected({"request_key"})),
        Expect(PostRaw(<<key("DUP-C"), chip("NEW2"), chip("DUP"), board("NEW2")>>), Rejected({"chip_uid"})),
        Expect(PostRaw(<<key("DUP-B"), chip("NEW3"), board("NEW3"), board("DUP")>>), Rejected({"board_serial"})),
        Expect(PostRaw(<<key("DUP-S"), key("DUP-S"), chip("NEW4"), board("NEW4")>>), Rejected({"request_key"}))>>
      \o ExpectAll(<<By(Key("DUP-K1")), By(Key("DUP-K2")), By(Key("DUP-C")), By(Key("DUP-B")), By(Key("DUP-S"))>>,
                   Answered(404))
      \o <<Expect(ScanRaw(<<chip("GHOST"), chip("DUP"), board("DUP")>>), Rejected({"chip_uid"})),
           Expect(ScanRaw(<<chip("DUP"), board("GHOST"), board("DUP")>>), Rejected({"board_serial"})),
           Expect(Scan("DUP", "DUP"), Verdicted("CONSISTENT")),
           Expect(Lookup(<<[fault |-> "type"]>>), Rejected({<<1, "type">>})),
           Expect(Twice(Lookup(<<Item(1, Chip("DUP"))>>)), Rejected({<<0, "queries">>})),
           Expect(Lookup(<<Item(1, Chip("DUP"))>>), Listed(<<>>, "results", <<[status |-> "FOUND"]>>))>>

Steps(name) ==
  CASE name = "replay"      -> ReplayAfterLostResponse
    [] name = "conflict"    -> RequestKeyConflict
    [] name = "occupied"    -> DeviceOccupied
    [] name = "race"        -> ConcurrentStations
    [] name = "validation"  -> ValidationRejected
    [] name = "mixed"       -> BatchMixedWithMissing
    [] name = "duplicates"  -> BatchDuplicatesReturnedPerRow
    [] name = "snapshot"    -> BatchSnapshotUnderConcurrentWrites
    [] name = "batch 422"   -> BatchValidationRejected
    [] name = "verdicts"    -> InspectionVerdicts
    [] name = "review"      -> InspectionReviewAndErrors
    [] name = "peers"       -> MismatchPeers
    [] name = "history"     -> BindingInspectionHistory
    [] name = "ambiguous"   -> DuplicateFieldsRejected

\* main calls the scenarios one after the other.
MainSuite == <<"replay", "conflict", "occupied", "race", "validation", "mixed", "duplicates",
               "snapshot", "batch 422", "verdicts", "review", "peers", "history", "ambiguous">>

Scenarios == {MainSuite[k] : k \in DOMAIN MainSuite}

ASSUME SuitesAssumption == Suites \subseteq Seq(Scenarios) \ {<<>>}
ASSUME SnapAssumption   == /\ SnapRows \in Nat \ {0} /\ SnapWriters \in Nat \ {0}
                           /\ 3 * SnapRows <= MaxBatchQueries

-----------------------------------------------------------------------------
(* The run.                                                                 *)

Writers == 1..SnapWriters

\* Writer w creates the rows w, w + SnapWriters, ... and looks at stop first.
NoChurn == [next     |-> [w \in Writers |-> w],
            pc       |-> [w \in Writers |-> "check"],
            stopped  |-> FALSE,
            rounds   |-> 0,
            torn     |-> FALSE,
            observed |-> FALSE]

Init == /\ InitTables
        /\ suite \in Suites
        /\ up       = FALSE
        /\ polls    = 0
        /\ phase    = "waiting"
        /\ scenario = 0
        /\ got      = <<>>
        /\ answers  = <<>>
        /\ walk     = NoWalk
        /\ churn    = NoChurn
        /\ failures = {}
        /\ lostIn   = {}
        /\ trouble  = 0

ServiceUp ==
  /\ phase = "waiting"
  /\ up' = TRUE
  /\ UNCHANGED <<tables, suite, polls, progress, churn, lostIn, trouble>>

\* waitHealthy: the deadline is MaxPolls polls away.
Poll ==
  /\ phase = "waiting"
  /\ IF Health(up).status = 200 THEN phase' = "running" /\ UNCHANGED polls
     ELSE /\ polls' = polls + 1
          /\ phase' = IF polls' > MaxPolls THEN "unhealthy" ELSE phase
  /\ UNCHANGED <<tables, suite, up, scenario, got, answers, walk, failures, churn, lostIn, trouble>>

Name == suite[scenario + 1]
Plan == Steps(Name)
Now  == Plan[Len(got) + 1]

\* The client gets no answer within its ten seconds; the service may have
\* handled the request.
Gone == Refuse(-1, "", {})

MayMeetTrouble == trouble < MaxTrouble[suite]

Lose(call) ==
  /\ MayMeetTrouble
  /\ Serve(call) \/ UNCHANGED tables
  /\ lostIn' = lostIn \cup {Name}
  /\ trouble' = trouble + 1

Deliver(call) == Serve(call) /\ UNCHANGED <<lostIn, trouble>>

\* Some call of the current step that is not answered yet.
Call(step) ==
  /\ \E k \in DOMAIN step.calls \ DOMAIN answers :
       \/ Deliver(step.calls[k]) /\ answers' = answers @@ (k :> Response(step.calls[k]))
       \/ Lose(step.calls[k])    /\ answers' = answers @@ (k :> Gone)
  /\ UNCHANGED <<suite, up, polls, phase, scenario, got, walk, failures, churn>>

\* The walk after one more page.
Collected(page) ==
  [cursor |-> page.next_cursor,
   ids    |-> walk.ids \o [k \in DOMAIN page.entries |-> page.entries[k].inspection_id],
   sizes  |-> walk.sizes \cup {Len(page.entries)},
   pages  |-> walk.pages + 1]

\* The step is over: on to the next one, to the next scenario, or to the end.
Advance(step, over, failed) ==
  /\ scenario' = IF over THEN scenario + 1 ELSE scenario
  /\ got'      = IF over THEN <<>> ELSE Append(got, answers)
  /\ phase'    = CASE ~ step.needs           -> "panicked"
                   [] step.needs /\ scenario' < Len(suite) -> "running"
                   [] OTHER -> IF failed = {} THEN "passed" ELSE "failed"

\* check, and what the code after it does.
Judge(step) ==
  /\ ~ step.churn
  /\ DOMAIN answers = DOMAIN step.calls
  /\ walk.pages < MaxPages
  /\ LET ok   == IF step.calls = <<>> THEN step.ok ELSE AllMet(answers, step.wants)
         last == Len(got) + 1 = Len(Plan) \/ (step.must /\ ~ ok)
     IN  /\ failures' = IF ok THEN failures ELSE failures \cup {<<Name, step.label>>}
         /\ walk' = IF step.walks THEN Collected(answers[1].body) ELSE NoWalk
         /\ IF step.walks /\ walk'.cursor # NoID
            THEN UNCHANGED <<phase, scenario, got>>
            ELSE Advance(step, last, failures')
         /\ churn' = IF last THEN NoChurn ELSE churn
         /\ answers' = <<>>
  /\ UNCHANGED <<tables, suite, up, polls, lostIn, trouble>>

\* The writers and the batches of the snapshot scenario.
LookAtStop(w) ==
  /\ churn.pc[w] = "check"
  /\ churn' = [churn EXCEPT !.pc[w] =
       IF churn.stopped \/ churn.next[w] > SnapRows THEN "done" ELSE "create"]
  /\ UNCHANGED <<tables, suite, up, polls, progress, lostIn, trouble>>

WriteRow(w) ==
  /\ churn.pc[w] = "create"
  /\ Deliver(SnapRow(churn.next[w])) \/ Lose(SnapRow(churn.next[w]))
  /\ churn' = [churn EXCEPT !.pc[w] = "check", !.next[w] = @ + SnapWriters]
  /\ UNCHANGED <<suite, up, polls, progress>>

\* How many of the three items of row i a batch found.
FoundOf(results, i) == {k \in 3 * i - 2 .. 3 * i : results[k].status = "FOUND"}

TornRow(results, i) ==
  \/ Cardinality(FoundOf(results, i)) \in {1, 2}
  \/ \E j, k \in FoundOf(results, i) : results[j].binding # results[k].binding

\* A batch that is not answered with 200 is skipped.
Round ==
  /\ churn.rounds < SnapRounds
  /\ LET results == Response(Lookup(SnapItems)).body.results
     IN  \/ /\ Deliver(Lookup(SnapItems))
            /\ churn' = [churn EXCEPT
                 !.rounds   = @ + 1,
                 !.torn     = @ \/ \E i \in 1..SnapRows : TornRow(results, i),
                 !.observed = @ \/ \E i \in 1..SnapRows : Cardinality(FoundOf(results, i)) = 3]
         \/ /\ Lose(Lookup(SnapItems))
            /\ churn' = [churn EXCEPT !.rounds = @ + 1]
  /\ UNCHANGED <<suite, up, polls, progress>>

\* close(stop), before the writers are waited for.
CloseStop ==
  /\ churn.rounds = SnapRounds
  /\ ~ churn.stopped
  /\ churn' = [churn EXCEPT !.stopped = TRUE]
  /\ UNCHANGED <<tables, suite, up, polls, progress, lostIn, trouble>>

Join ==
  /\ churn.stopped
  /\ \A w \in Writers : churn.pc[w] = "done"
  /\ got' = Append(got, <<>>)
  /\ UNCHANGED <<tables, suite, up, polls, phase, scenario, answers, walk, failures, churn, lostIn, trouble>>

\* A station that is no part of the run binds or scans.
ForeignStation ==
  /\ phase = "running"
  /\ MayMeetTrouble
  /\ Serve(Bind("FOREIGN")) \/ Serve(Scan("FOREIGN", "FOREIGN"))
  /\ trouble' = trouble + 1
  /\ UNCHANGED <<suite, up, polls, progress, churn, lostIn>>

Over == phase \in {"unhealthy", "passed", "failed", "panicked"} /\ UNCHANGED vars

Churn == (\E w \in Writers : LookAtStop(w) \/ WriteRow(w)) \/ Round \/ CloseStop \/ Join

Go(step) == Call(step) \/ Judge(step) \/ (step.churn /\ Churn)

Client == Poll \/ (phase = "running" /\ Go(Now))

Next == Client \/ ServiceUp \/ ForeignStation \/ Over

Spec == Init /\ [][Next]_vars

-----------------------------------------------------------------------------
(* Properties.                                                              *)

\* Every check of the suite holds of the API in every order of racing calls and
\* whatever other stations do.  A lost call fails checks of its own scenario
\* only; without one a failure is the client's own timing: no batch met a whole
\* row, or the writers saw stop closed (main.go:572) and left a row unwritten
\* that the final batch wants (main.go:577).
FailuresAreExplained ==
  \A f \in failures :
    \/ f[1] \in lostIn
    \/ f = <<"snapshot", "observed">>
    \/ /\ f = <<"snapshot", "complete">>
       /\ \E i \in 1..SnapRows : \A b \in bindings : b.request_key # SnapID("request_key", i)

\* A station that was not answered sends its request again: from the instant its
\* binding is booked it gets that binding, and a request that uses its key for
\* another chip is refused for the key alone, whether that chip is free or
\* some foreign station's, and whatever became of the sequence meanwhile
\* (store.go:83-101, README.md:45-46).
RetriesReplay ==
  \A b \in bindings : \A chip \in {b.chip_uid, Chip("FOREIGN")} :
    Response(Post(b.request_key, chip, b.board_serial)) =
      IF chip = b.chip_uid THEN Reply(200, b) ELSE Refuse(409, "REQUEST_KEY_CONFLICT", {})

\* What a client was once shown of a binding or an inspection it is shown for
\* ever: no later call changes the answer to a lookup that found something, nor
\* the summaries beside an inspection (README.md:143, types.go:140-143).
AnswersStand ==
  [][tables' # tables =>
       /\ \A b \in bindings, column \in CreateFields :
            GetBy(column, b[column])' = GetBy(column, b[column])
       /\ \A i \in inspections : i \in inspections' /\ Wire(i)' = Wire(i)]_vars

Texts == UNION {[1..n -> {"0", "1", "2", "9", "+", "-"}] : n \in 1..3}

\* In the tables a run leaves behind every record has one name in the API, the
\* one that its id is written as: no sign or leading zero gives it a second,
\* and the last id of all has one too (handler.go:317-327).
OneNamePerRecord ==
  phase \in {"passed", "failed"} =>
    \A n \in {i.inspection_id : i \in inspections} \cup {MaxInt64} :
      {t \in Texts : ParsePositiveID(t) = {n}} = {Numeral[n]} \cap Texts
=============================================================================
