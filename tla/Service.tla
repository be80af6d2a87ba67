------------------------------ MODULE Service ------------------------------
(***************************************************************************)
(* One server process: the creates of BindingStore and the scans of        *)
(* Inspections at work on the same tables, through the one connection pool *)
(* that db.NewPool opens and the Store shares.  A scan that arrives waits  *)
(* in pool.Begin until creates and scans leave a connection free, and      *)
(* keeps it to the end of its transaction.                                 *)
(*                                                                         *)
(* The scans see of a binding its identifier, its chip and its board.      *)
(***************************************************************************)
EXTENDS BindingStore

CONSTANTS Scans, MaxInspection, NoScan, NoID, ScanFailed

VARIABLES inspections, inspectionSeq, clock, scan, scanPC, began, hits, iid,
          view, scanAnswer, known, history,   \* see Inspections
          waiting,    \* scans in pool.Begin
          told        \* what creates had answered when a scan arrived

ASSUME ServiceAssumption == MaxInspection \in Nat /\ NoID \notin Nat

ScanColumns(b) == [binding_id   |-> b.binding_id,
                   chip_uid     |-> b.chip_uid,
                   board_serial |-> b.board_serial]

\* Table bindings, as the statements about inspections read it.
Bound == {ScanColumns(b) : b \in bindings}

Scanner == INSTANCE Inspections
             WITH bindings <- Bound,
                  BindingIDs <- 1..MaxBigint, lastID <- inspectionSeq,
                  pc <- scanPC, answer <- scanAnswer, InternalError <- ScanFailed,
                  Walkers <- {}, walk <- [w \in {} |-> w], MaxLimit <- 1

ASSUME ScanSentinelAssumption == NoAnswer \notin Scanner!Views \cup {ScanFailed}

scanVars    == <<inspections, inspectionSeq, clock, scan, scanPC, began, hits,
                 iid, view, scanAnswer, known>>
serviceVars == <<vars, scanVars, history, waiting, told>>

-----------------------------------------------------------------------------
(* The pool.                                                                *)

\* The deferred Rollback gives the connection back when the handler returns.
ScanHoldsConn(s) == scanPC[s] \notin {"idle", "closed"} /\ Scanner!Alive(s)

ScanHolders == {s \in Scans : ScanHoldsConn(s)}

ConnFree == Cardinality(Holders) + Cardinality(ScanHolders) < PoolSize

\* Mutant: the record is read back through the pool, not the transaction.
ScanNeedsConnTwice(s) == s \in waiting \/ scanPC[s] = "select"

\* pool.Begin is the one call of a scan that asks the pool for a connection.
ScanNeedsConn(s) == s \in waiting

ServiceInit == /\ Init
               /\ Scanner!Init
               /\ waiting = {}
               /\ told = [s \in Scans |-> {}]

\* A create commits between any two statements of a scan.
CreateStep(a) ==
  /\ NeedsConn(a) => ConnFree
  /\ Progress(a)
  /\ history' = history \cup {Bound'}
  /\ UNCHANGED <<scanVars, waiting, told>>

CreateArrivesOrFails(a) ==
  /\ Arrive(a) \/ Fail(a)
  /\ UNCHANGED <<scanVars, history, waiting, told>>

-----------------------------------------------------------------------------
(* Scans.                                                                   *)

\* What the answers of creates have shown to the stations by now.
Shown == {answer[a].binding : a \in {x \in Attempts :
            /\ answer[x] # NoAnswer
            /\ answer[x].outcome \in {"created", "replayed", "request_key_conflict"}}}

ArriveScan(s) ==
  /\ scanPC[s] = "idle" /\ s \notin waiting
  /\ waiting' = waiting \cup {s}
  /\ told' = [told EXCEPT ![s] = Shown]
  /\ UNCHANGED <<vars, scanVars, history>>

\* The client hangs up in the queue of the pool; its retry is an arrival.
LeaveQueue(s) ==
  /\ s \in waiting
  /\ waiting' = waiting \ {s}
  /\ UNCHANGED <<vars, scanVars, history, told>>

BeginScan(s) ==
  /\ s \in waiting
  /\ waiting' = waiting \ {s}
  /\ Scanner!Begin(s)

ContinueScan(s) ==
  /\ \/ Scanner!ResolveSides(s) \/ Scanner!Insert(s) \/ Scanner!Select(s)
     \/ Scanner!Commit(s) \/ Scanner!Acknowledge(s) \/ Scanner!CommitLost(s)
  /\ UNCHANGED waiting

ScanStep(s) ==
  /\ ScanNeedsConn(s) => ConnFree
  /\ UNCHANGED <<vars, told>>
  /\ BeginScan(s) \/ ContinueScan(s)

FailScan(s) ==
  /\ UNCHANGED <<vars, waiting, told>>
  /\ Scanner!Fail(s)

\* Everything has been answered and every transaction is over.
AllOver ==
  /\ \A a \in Attempts : pc[a] \in {"closed", "committed"} /\ ~ Alive(a)
  /\ \A s \in Scans : scanPC[s] \in {"closed", "committed"} /\ ~ Scanner!Alive(s)
  /\ UNCHANGED serviceVars

ServiceNext ==
  \/ \E a \in Attempts : CreateStep(a) \/ CreateArrivesOrFails(a)
  \/ \E s \in Scans : ArriveScan(s) \/ LeaveQueue(s) \/ ScanStep(s) \/ FailScan(s)
  \/ AllOver

ServiceSpec == ServiceInit /\ [][ServiceNext]_serviceVars

\* The Go scheduler runs every handler, PostgreSQL every backend, and a backend
\* notices that its client is gone.  Nothing obliges a client to send a request,
\* to hang up, or a call to fail.
ServiceFairSpec ==
  /\ ServiceSpec
  /\ \A a \in Attempts : WF_serviceVars(CreateStep(a))
  /\ \A s \in Scans : WF_serviceVars(ScanStep(s))

-----------------------------------------------------------------------------
(* Properties.                                                              *)

\* The sides of a scan agree with what its station had been told.
Counts(s, chip, board) ==
  \A b \in told[s] :
    /\ b.chip_uid = scan[s].chip_uid => chip = b.binding_id
    /\ b.board_serial = scan[s].board_serial => board = b.binding_id

\* A binding that a create has answered to a station counts in every scan that
\* arrives afterwards (README.md:72-75 and 110-119).
ScansSeeAnsweredBindings ==
  \A s \in Scans : scanAnswer[s] \notin {NoAnswer, ScanFailed} =>
    Counts(s, scanAnswer[s].inspection.chip_binding_id,
              scanAnswer[s].inspection.board_binding_id)

\* What Inspections takes from creates, that bindings are booked one to one and
\* never taken back, is what BindingStore does to the shared table.
ScansSpec == Scanner!Spec

\* A verdict is the truth of one instant of the scan while creates race, fail and
\* roll back on the same table: it rests on there being one binding at most for
\* either side, which only the creates see to (store.go:81-104, 335-339).
VerdictsBesideCreates == Scanner!VerdictOfOneInstant

\* What a scan makes of what its station had been told.
Aware(s) ==
  /\ scanPC[s] # "idle" =>
       known[s] \subseteq Bound /\ \A b \in told[s] : ScanColumns(b) \in known[s]
  /\ scanPC[s] \in Scanner!Resolved => Counts(s, hits[s].chip, hits[s].board)
  /\ scanPC[s] \in Scanner!Viewed =>
       Counts(s, view[s].inspection.chip_binding_id, view[s].inspection.board_binding_id)
  /\ scanAnswer[s] \notin {NoAnswer, ScanFailed} =>
       scanPC[s] = "committed" /\ scanAnswer[s] = view[s]

\* The inductive invariant, beyond those of the two components: what a scan was
\* told is committed, known when its transaction begins, and counted from then on.
ServiceIndInv ==
  /\ Bound \in history
  /\ told \in [Scans -> SUBSET bindings]
  /\ DOMAIN scan = Scans /\ DOMAIN scanPC = Scans /\ DOMAIN known = Scans
  /\ DOMAIN hits = Scans /\ DOMAIN view = Scans /\ DOMAIN scanAnswer = Scans
  /\ \A s \in waiting : s \in Scans /\ scanPC[s] = "idle"
  /\ \A s \in Scans : Aware(s)

\* What a create or a scan waits for, where only the creates of C and the scans
\* of S have it.
PoolWithin(C, S)     == ~ ConnFree /\ Holders \subseteq C /\ ScanHolders \subseteq S
CreateStuck(a, C, S) == \/ \E b \in C : WaitsForLock(a, b)
                        \/ NeedsConn(a) /\ PoolWithin(C, S)
ScanStuck(s, C, S)   == ScanNeedsConn(s) /\ PoolWithin(C, S)

\* No creates and scans wait on each other, whatever the size of the pool they
\* share: a create may keep its connection while it waits for an index entry,
\* but then some connection is in hands that wait for nothing (store.go:341).
NobodyStuck ==
  \A C \in SUBSET Attempts, S \in SUBSET Scans : C # {} \/ S # {} =>
    \/ \E a \in C : ~ CreateStuck(a, C, S)
    \/ \E s \in S : ~ ScanStuck(s, C, S)

\* How many more steps a create or a scan takes at most.
StepsLeft(a) ==
  (CASE pc[a] = "idle"                            -> 9
     [] pc[a] = "begin"                           -> 8
     [] pc[a] = "insertRequest"                   -> 7
     [] pc[a] \in {"readExisting", "insertBinding"} -> 6
     [] pc[a] = "chipIndex"                       -> 5
     [] pc[a] = "boardIndex"                      -> 4
     [] pc[a] = "commit"                          -> 3
     [] pc[a] = "committing"                      -> 2
     [] pc[a] = "committed"                       -> 1
     [] pc[a] = "closed"                          -> 0) + (IF Alive(a) THEN 1 ELSE 0)

ScanStepsLeft(s) ==
  (CASE scanPC[s] = "idle"       -> 6
     [] scanPC[s] = "resolve"    -> 5
     [] scanPC[s] = "insert"     -> 4
     [] scanPC[s] = "select"     -> 3
     [] scanPC[s] = "committing" -> 2
     [] scanPC[s] = "committed"  -> 1
     [] scanPC[s] = "closed"     -> 0) + (IF Scanner!Alive(s) THEN 1 ELSE 0)

\* Nothing is tried twice inside the service: no step sends a create or a scan
\* back, and whatever happens brings one of them nearer to its end.  A key that
\* is taken, a device that is bound, a lost race, a spent sequence are answered,
\* and whether to come again is left to the client.
EveryStepCounts ==
  [][/\ \A a \in Attempts : StepsLeft(a)' <= StepsLeft(a)
     /\ \A s \in Scans : ScanStepsLeft(s)' <= ScanStepsLeft(s)
     /\ <<vars, scanVars>>' # <<vars, scanVars>> =>
          \/ \E a \in Attempts : StepsLeft(a)' < StepsLeft(a)
          \/ \E s \in Scans : ScanStepsLeft(s)' < ScanStepsLeft(s)]_serviceVars

\* A scan in the queue of the pool gets a connection, and then its answer.
Open(s) == s \in waiting \/ ScanHoldsConn(s)

EveryScanAnswered == \A s \in Scans : Open(s) ~> ~ Open(s)
=============================================================================
