# A formal model of the chip-board binding service

The service (Go, pgx, PostgreSQL 16) records which chip was mounted on which
board. Stations on a line post bindings and physical inspections, supervisors
look them up. This directory holds TLA+ modules that model the service, TLC
configurations that check them on small instances, and proofs that TLAPS
checks for every value of the constants.

Citations in comments such as `store.go:72` or `README.md:205` are lines of the
*repository* (`src/internal/binding/store.go`, the repository's own README);
`PROJECT.json` names for every definition the lines it stands for.

## 1. Inventory

| Component | State it keeps | Operations | Interacts with |
|---|---|---|---|
| Binding creation (`Handler.Create`, `Store.Create`) | tables `requests`, `bindings`, sequence of `bindings.id`; one transaction per request | `POST /bindings` | all lookups; other creates through unique indexes; the pool |
| Single lookups | none | `GET .../by-request-key`, `by-chip-uid`, `by-board-serial` | committed rows |
| Batch lookup (`ValidateBatchQueries`, `Store.BatchLookup`) | none | `POST /bindings/batch-lookup` | committed rows, one statement |
| Inspections (`Store.CreateInspection`, `GetInspection`) | table `inspections`, its sequence; one transaction per scan | `POST /inspections`, `GET /inspections/{id}` | reads `bindings`; never waits |
| Inspection history (`GetBindingInspections`) | none; the cursor is the client's | `GET /bindings/{id}/inspections` | `inspections`, one snapshot per page |
| Mismatch peers (`GetMismatchPeers`) | none | `GET /bindings/{id}/mismatch-peers` | `inspections`, one snapshot |
| Request decoding (`validateUniqueJSON`, `decodeUniqueJSON`) | a stack of frames while it reads | called by every POST handler | `encoding/json` |
| Identifier and integer syntax (`validate.go`, `parsePositiveID`) | none | predicates on strings | handlers |
| Handlers, routing, error envelopes, health probe | none | one route per operation: decode, validate, call the store, map the outcome to a status | stations, supervisors, the acceptance client |
| Migrations and boot (`Migrate`, `main`) | `schema_migrations`, the schema | run by every replica when it boots | other replicas |
| Server life cycle (`main`, `config`) | the process: listener goroutine, requests in flight | start, signal, `Shutdown`, fatal exits | its handlers, the pool |
| Acceptance client (`cmd/verify`) | failures, the answers it compares, a cursor | fourteen scenarios; races and writers in goroutines | every route |
| Connection pool (`db.NewPool`) | connections in use | acquire, release | every handler |
| Containers | none | | |

**What is hard.** Handlers of several replicas run at once and share nothing but
PostgreSQL at READ COMMITTED. Every guarantee of a create rests on who waits for
whose index entry, on what a statement's snapshot shows after a wait, and on one
transaction for two tables. A client may hang up, a connection break or a
process die between any two statements, and a COMMIT may take effect without
anybody learning of it. Inspections have three orders (transaction start, id,
commit) that nothing keeps equal. Replicas boot together and race through the
migrations; a signal may arrive while handlers wait for the database. The
acceptance client races stations on purpose and loses calls to its own timeout.

**What makes the components correct.**

* Creation: one chip, one board, one key; ledger and bindings never disagree;
  a retry finds its original; nothing rejected leaves a trace; a device called
  occupied is bound for good; no deadlock; every request is answered.
* Lookups: the three filters and the batch query find the same record; a batch
  is the truth of one instant, item by item.
* Inspections: a verdict was true at one instant of the scan and reads back
  unchanged; pages are exact; a walk repeats and loses nothing.
* Peers: exactly the bindings that share a MISMATCH, counted once per record.
* Decoding: a body is accepted exactly when no checked object repeats a name.
* Creates and scans together: a scan sees every binding its station was told of;
  neither starves the other on the pool they share.
* Migrations: records and schema agree; no replica serves too early; a race does
  not take every replica down.
* Server: nothing is accepted once the last look at handlers is over, so an orderly
  stop cuts no request off; every shutdown ends.
* Acceptance client: while the service is right, only a lost call or the client's
  own timing fails a check, and a lost call only in its own scenario.

`PROJECT.json` lists the hazards behind these, each at its line.

## 2. Modules

| Module | Models | Proved about |
|---|---|---|
| `BindingLedger` | abstract: what `POST /bindings` promises | as the target of the refinement |
| `BindingStore` | `Create` statement by statement, pool, backends, the lookup filters | `ServiceProofs` |
| `InspectionQueries` | the SQL that resolves, pages and aggregates, as operators | `InspectionQueriesProofs`, `InspectionTablesProofs` |
| `Inspections` | `CreateInspection` statement by statement, a paging client; EXTENDS `InspectionQueries` | `InspectionsProofs` |
| `BatchLookup` | validation, deduplication, the query, restoring | `BatchLookupProofs` |
| `Service` | `BindingStore` and `Inspections` on the same tables and one pool | `ServiceProofs` |
| `UniqueJSON` | the token automaton against a definition of JSON structure by positions | `UniqueJSONProofs` |
| `Parameters` | integers in paths and query strings, character by character | `AcceptanceClientProofs` |
| `BindingAPI` | every route as its clients see it; EXTENDS `Parameters`, `InspectionQueries`, instantiates `BindingLedger` and `BatchLookup` | `AcceptanceClientProofs` |
| `AcceptanceClient` | `cmd/verify` driving `BindingAPI`, with lost calls and a foreign station | `AcceptanceClientProofs` |
| `Migrations` | concurrent boots | `ServerProofs` |
| `Server` | the life of a process around `Migrations` | `ServerProofs` |
| `MC*` | instances for TLC; `MCInspectionQueries` enumerates tables | |

No module declares a RECURSIVE operator; `ValueOf` and `Numeral` are recursive
functions. `ServiceProofs` holds the theorems about `BindingStore` and those about
the composition that builds on it.

### BindingLedger and BindingStore

`BindingLedger` has no transactions: `Submit` (a request arrives), `Book` (a
binding comes into force at one instant, if key, chip and board are free),
`Decide` (the answer is what the ledger says now: created, replayed, key
conflict, chip or board occupied, in this order) and `GiveUp` (the service could
not learn the outcome: 500; the binding may still be booked afterwards).

`BindingStore` is `Store.Create` with one action per statement:

| Action | Code |
|---|---|
| `Arrive`, `Begin` | the handler has a valid request; `pool.Begin` waits for a connection |
| `InsertRequest` | `INSERT INTO requests ... ON CONFLICT DO NOTHING`: waits for a transaction that holds the key, then inserts or finds the row |
| `ReadExisting` | `getByRequestKey` on the same connection, then `SamePayload`, then rollback |
| `InsertBinding` | `INSERT INTO bindings` starts: `nextval`, the index on `request_key` |
| `InsertChip`, `InsertBoard` | the unique indexes on `chip_uid` and `board_serial`, in the order the table declares them; a violation is mapped by `occupiedField` |
| `SendCommit`, `Commit`, `AckCommit` | `tx.Commit`: sent, takes effect, is acknowledged |
| `Fail` | any call returns an error: context cancelled, connection lost, process killed. The handler answers 500 |
| `BackendAbort` | the deferred rollback arrives, or the backend notices that its client is gone |

`requests`, `bindings` and `lastID` are what is committed (a sequence does not
roll back). Rows in flight are not stored twice: `Held` derives from `pc` the
index entries a transaction has inserted, `Needed` the entry it needs next, and
an action that needs an entry in flight waits (`Runnable`). `pc` is the backend,
`answer` the handler; after `Fail` they part, the statement already sent may
still run, a COMMIT already sent may still take effect, but no *further*
statement is sent. A process crash is `Fail` for all its handlers, a database
restart `BackendAbort` after it; nothing else is held in memory, so there is no
recovery code to model.

All handlers share one pool of `PoolSize` connections. Several replicas have a
pool each; one pool is the case with the least capacity, and the proofs hold for
every size.

### InspectionQueries and Inspections

A result set with `ORDER BY id DESC LIMIT n` is the set of its `n` greatest ids
(`Top`); SQL NULL is `NoID`. `Page` keeps the code's shape: one bounded branch
for each side, union, cut, one look-ahead row. `PeerStats`, `Before` and `Peers`
keep the grouping, the order and the cut of the aggregation.

`Inspections` gives each scan a transaction: `Begin` stamps `created_at`,
`ResolveSides` is the one statement that looks both identifiers up, `Insert`
draws the id, `Select` reads the record back, `Commit` makes it visible,
`Acknowledge` answers; `Fail` and `CommitLost` are errors and lost COMMITs.
`Book` lets a binding appear at any moment: how is `BindingStore`'s business, and
its `OneToOne` is the guard here. `StartWalk` and `ReadPage` are a supervisor who
follows `next_cursor`; each page is one REPEATABLE READ snapshot, so it is one
action. The clock ticks once per BEGIN: two transactions never begin at the same
microsecond here, which only removes ties in `created_at`. `known`, `history`
and `walk.owed` are history variables for the properties.

### Service

A composition, not a new model of either part: `Service` EXTENDS `BindingStore`
and instantiates `Inspections` with `bindings` replaced by `Bound`, the scans'
view of the creates' table. What is added is what the parts leave open: the pool
(`ConnFree`: creates and scans together hold at most `PoolSize` connections, a
scan waits in `pool.Begin`, may leave the queue, and keeps its connection until
its handler returns) and `told`, a history variable with what creates had
answered when a scan arrived. `Inspections` allows a binding to appear at any
moment as long as bindings are one to one; that `BindingStore` adds them no other
way is the refinement `ScansSpec`.

### BindingAPI, Parameters and AcceptanceClient

`BindingAPI` is the handlers around the store: `Response(call)` is the answer of a
route in the tables of one instant, `Serve(call)` the rows it adds. A handler
decodes, refuses, looks up and maps the outcome to an envelope in the order of the
code; what the store returns is taken from the modules that show it to be decided
at one instant (`Ledger`, `Batch`, `Page`, `Peers`, `Verdict`). A body is a
sequence of members, a value is legal, illegal or of the wrong type, an id in a
path is a sequence of characters that `ParsePositiveID` reads like
`strconv.ParseInt` and the look at the first byte; `Numeral` is the text that a client
writes for an id. A create draws its identifier before the unique indexes are looked
at, so a sequence at its end is an internal error even for a device that is taken.

`AcceptanceClient` writes each scenario of `cmd/verify` as a sequence of steps: the
calls sent together, what is wanted of their answers, what must hold of the
answers so far (`Body(k)`: the body that step k was given). One handler of the
client's runs at a time except in `race` and in the snapshot scenario, whose
writers, batches, `close(stop)` and `wg.Wait()` are actions of their own
(`LookAtStop`, `WriteRow`, `Round`, `CloseStop`, `Join`). A call may be lost with
or without its effect (`Lose`, the client's ten seconds), another station may bind
and scan (`ForeignStation`). `phase = "panicked"` stands for the two places that
dereference an answer after its check has failed (main.go:478 and 968).

### BatchLookup

One batch of up to one item more than the limit, each item malformed or with a
legal or illegal line, type and value. `BatchErrors` is `ValidateBatchQueries`,
`FieldErrors` puts the handler's decoding first, `Distinct`, `KeyByLine`, `Rows`
and `Restore` are the four steps of `Store.BatchLookup`. Chips, boards and keys
are drawn from *one* set of strings, so that one value asked for by two types is
a case. One remark on text: the repository's README says (line 86) that every
position at fault is marked; items that do not decode are reported alone,
without the errors of the others, because decoding comes first. The property
`UnnamedItemsAreLegal` is therefore about batches whose items all decode.

### UniqueJSON

`json.Decoder.Token` is external: it yields any well-formed prefix (`Follows`),
any scalar is one token; `last` is what it returned last, a token, io.EOF
(`EndOfBody`) or another error (`SyntaxError`), and both ends may come anywhere.
The automaton (`stack`, `consumed`) is compared with
`Container`, `NamePosition` and `IsName`, which define the structure from token
positions alone, without a stack. `rootOnly` is the argument of the same name.

### Migrations

`FindTable` and `CreateTable` are the two halves of `CREATE TABLE IF NOT EXISTS`
(which is not atomic in PostgreSQL: the loser of that race gets an error and
exits), `Check` the `SELECT EXISTS`, `Apply`, `Record` and `Commit` the
transaction of one file. `Apply` waits for a transaction that is creating the
same objects; afterwards the statement may do nothing (`IF NOT EXISTS`) or fail.
Every error is fatal. `docker-compose.yml` has no restart policy, so `Boot` of an
exited replica is possible and never obliged.

### Server

`Server` EXTENDS `Migrations` with the rest of `main`: `Start` (`FromEnv`), `Dial`
(`NewPool` and its ping), one `MigrateStep` per step of `Migrate`, the goroutine
that listens (`Listen`, which may come after the signal), requests that are
accepted and answered, `Signal`, and the two ways `Shutdown` returns: `Drained`
(it saw no request) and `TimesUp` (ten seconds, fatal). After `Drained` the process
is still there ("closing"): it logs "stopped", closes the pool and returns from `main`
(`Return`) without another look at its handlers, while the goroutine that listens may
get to run for the first time.
`End` is the end of a process, with the fate of the requests it had not answered.

## 3. Runs

Passing runs:

| Run | Question | Instance, and why it is enough |
|---|---|---|
| `create_safety` | Are rows, answers, lookups and locks right in every interleaving, and is `Create` a `BindingLedger`? | 3 attempts, 2 keys, chips, boards, 2 connections, 2 identifiers. Three attempts give a holder, a waiter and a third that takes over after a rollback; two of each identifier give replay, key conflict and both occupied devices; two connections make the pool a bound, two identifiers let the sequence run out. The proofs remove the bounds |
| `service` | Do creates and scans that share the tables and one connection keep what each promises, and is everybody answered? | 2 creates, 1 scan, 1 connection, 2 keys, chips and boards. One connection is the case in which everyone waits for everyone; the scan meets every state of two creates, which `VerdictsBesideCreates` needs (two creates for one board in flight while a scan looks it up); two creates give a replay, a conflict, an occupied device and a holder with a waiter. `FirstNames` breaks the symmetry by naming the first create's key, chip and board: it only constrains arrivals, which carry no fairness, so the liveness properties lose no behaviour but renamed ones. `NobodyStuck` looks for any set of creates and scans that wait on each other; `EveryStepCounts` says that no step sends anybody back |
| `inspection_walk` | Is a verdict the truth of one instant, is it kept, and does a walk repeat and lose nothing while scans commit? | 3 scans of one chip and board, 1 binding that appears meanwhile, 3 identifiers, pages of 1. Two committed records are two pages with a cursor between them, and the third scan commits before, between or after the two reads, above, between or below the records already read; read on, the walk has three pages and two cursors. The sequence starts anywhere (failed scans use identifiers up), so an insert beyond its end happens too. A second chip or board would only add scans that share nothing with the walked binding; the other verdicts meet racing creates in `service` and every page and list in `inspection_queries`, and the proofs remove all bounds |
| `inspection_queries` | Are page and peer list exact on every table? | tables of up to 4 rows over 3 bindings and NULL, limits 1 and 2: ties in the counts, both roles, cut in either branch |
| `batch_lookup` | Does a batch say what single lookups would? | 2 identifiers, 3 lines, batches of 0 to 3 items with a limit of 2: every repetition of a line, a value or a type, and one item too many that is legal in itself |
| `unique_json` | Does the scan accept exactly the right bodies, and refuse the others for what is wrong with them? | every token sequence of up to 8 tokens over two names, ended or followed by an error anywhere, both values of `rootOnly`: nesting to depth 3 with siblings after a closed child |
| `server` | Do records and schema agree, does a race leave a server, and what does a shutdown do to requests? | 3 replicas, all 4 migration files, 1 request. Two replicas race, the third is killed or boots late; requests do not interact |
| `acceptance` | Does every check of the suite hold of the API, whatever the order of racing calls, does a retry find its binding, and does what was shown stand? | the whole suite without trouble, any two consecutive scenarios with one lost call or one call of a foreign station (what a scenario leaves behind reaches the next), and the first scenario, the one of retries, with two; 2 rows, 2 writers and 2 rounds in the snapshot scenario, so that a writer can be late, stopped or done. `RetriesReplay` asks in every state for a retry of every binding there is, also when a foreign station took the other device; `AnswersStand` compares the answers on both sides of every step |

Each run checks what the project states of the system; the inductive invariants of
the proofs were checked with TLC while they were found and are listed in section 4.
Symmetry is used for safety only; identifiers
that are compared by order (ids) are never symmetric. `CursorDescends`, an action
property, stands for "a walk ends": ids are bounded below, so a strictly
descending cursor cannot go on for ever.

Runs that must find a violation, each a disagreement between the code and what
the repository says of it:

| Run | What it shows |
|---|---|
| `history_cursor` | The README says a page read again by the same `before_id` is the same, because later inspections have greater ids. An id is drawn by the INSERT and its row appears at COMMIT: a slow scan enters a page below a cursor already handed out, and a walk past it never sees the record |
| `peer_last_occurrence` | `last_inspection_id` and `last_occurred_at` are two separate MAX: with overlapping scans they come from two inspections, types.go says they describe one |
| `failed_scan` | The README says a failed save leaves no record. A COMMIT that took effect but was reported as an error leaves one, and a retry records the scan again (inspections have no request key) |
| `json_field_case` | Names are compared exactly, `encoding/json` matches fields regardless of case: `chip_uid` with `CHIP_UID` passes, and the last value wins, which json.go says cannot happen |

`AcceptsExactlyUnique` says both directions: a body read to its end is accepted if
*and only if* it is one whole value, a refusal is for a fault the body has, and the
only repetition there can be is the last token of a body refused as "duplicate".

What `inspection_walk` does and does not say: a walk loses nothing *that was
committed when it began*. Records that commit during the walk with a smaller id
may be missed; that is `history_cursor`.

One more disagreement is not a run of its own. In `cmd/verify`, `close(stop)`
(main.go:572) comes before `wg.Wait()`: writers that are not done after sixteen
rounds leave rows unwritten, and the final batch, which by main.go:577 finds every
row, fails although the service is right. `FailuresAreExplained` allows the check
"complete" to fail for this reason only.

Every property of a passing run has a mutant (two of them have two), a plausible bug in one definition
under which TLC finds that property violated. Mutants stand before the
definition they replace.

### Fairness

`ServiceFairSpec`: weak fairness of `CreateStep(a)` for every attempt and of
`ScanStep(s)` for every scan (its BEGIN included). The Go scheduler runs every handler,
PostgreSQL runs every backend and wakes the waiters of an index entry when its
transaction ends, the pool hands a returned connection to a waiting `Acquire`.
`BackendAbort` is in `CreateStep` because a backend is told by ROLLBACK or finds
its connection closed. Arrivals, `LeaveQueue` and failures have no fairness: no
client has to come or to hang up, no call has to fail. Weak fairness is enough
since there are finitely many attempts and scans: after the last arrival nobody
can overtake a waiter for ever.

`ServerSpec`: weak fairness of `MainStep(r)` (a running process goes on, its
goroutine gets to run) and of `Shutdown(r)` (a timer fires). `Answer` has none: a
handler may wait for the database for ever, and `ShutdownEnds` must hold all the
same. Starts, signals and kills have none. `SomeReplicaListens` excuses runs in
which a replica was stopped from outside (`disturbed`); a race alone is no excuse.

Deadlock is checked in every run; the action that lets a finished system stutter
(`Terminated`, `AllOver`, `Answered`, `Returned`, `Full`, `Over`) is enabled only in a state where
the system is done, so a state in which everybody waits for ever is an error. In
`Server` a process can always be started or killed, and the liveness properties
do that work. A walk of pages in `AcceptanceClient` that went on for more than
`MaxPages` pages would be such a deadlock.

## 4. Proofs

### BindingStore

`ServiceProofs` proves of `BindingStore`, for every finite or infinite set of attempts, keys,
chips and boards, every pool and every sequence length:

| Theorem | Statement |
|---|---|
| `IndInvariant` | `Spec => []IndInv` |
| `TypeInvariant`, `OneToOneInvariant`, `LedgerAgreementInvariant` | conjuncts of `IndInv` |
| `RowsImmutableHolds` | no step changes or removes a row |
| `ReplayInvariant` | a replay finds the row it replays |
| `LookupsAgreeInvariant` | single, batch and inspection lookups find the same one record |
| `NoDeadlockInvariant` | no set of attempts waits on itself |
| `AnswersHonestInvariant` | no answer is ever contradicted by the ledger |
| `NoTraceInvariant` | every row is the work of a committed attempt |
| `Refinement` | `Spec => Ledger!Spec` |

Assumptions, all named in `BindingStore`: the pool has a positive size
(`PoolAssumption`), the sequence ends at a natural number
(`SequenceAssumption`), and the three sentinels are none of the values they are
told apart from (`SentinelAssumption`).

**The argument.** `OneToOne` alone is not inductive: nothing in it forbids two
transactions from holding the same chip, and both would then commit.
`IndInv` adds what PostgreSQL's indexes do with rows in flight: no two
transactions hold one entry (`Exclusive`), an entry in flight is not in the index
for good (`Fresh`), an identifier is drawn once (`IDsDrawnOnce`), and what `pc`
says of an attempt's other variables (`Phases`). `Exclusive` is kept because an
attempt inserts an entry only when nobody else holds it, `Fresh` because it also
finds no committed one and every commit of another attempt commits entries that,
by `Exclusive`, are not its own. From these four, `Commit` adds two rows that
share nothing with any other: `LedgerAgreement` and `OneToOne`. Each conjunct has
a lemma of its own (`...Step`), with one step per action.

`NoDeadlock` follows from the order of the indexes and needs no invariant. Suppose
a non-empty set in which everybody waits within the set. Who waits for a board
waits for somebody who holds a board, who waits for nothing; so nobody in the set
waits for a board, then nobody for a chip, then nobody for a key, and what is left
waits for a connection, although every connection is held by an attempt that
itself is not waiting for one.
`AnswersHonest` rests on `RowsImmutable`: what an answer says of the ledger stays
true. For `Refinement`, the ledger is `bindings` and an attempt is booked when
its COMMIT has taken effect; `Commit` maps to `Book`, each answer to `Decide` or
`GiveUp`, every other step to a stutter.

### Inspections

`InspectionQueriesProofs` proves what the queries return of every table, for every
target, cursor and limit. The table is finite, with natural ids that are distinct
(`Table`); for peers a record's result also follows from its two ids, which are
foreign keys (`Decided`):

| Theorem | Statement |
|---|---|
| `PagesExact` | `Page` returns the newest records of either side below the cursor, and a next cursor exactly when older ones remain |
| `PeersExact` | `Peers` returns the other bindings that share a MISMATCH with the target, each with the number of records they share, and the limit keeps the most frequent |

`InspectionTablesProofs` shows the invariants of `MCInspectionQueries` (`EveryPageIsExact`,
`SidesMatchVerdicts`, `EveryPeerListIsExact`) for any bindings and tables of any
size: every table built record by record is `Decided`.

`InspectionsProofs` proves, for any scans, walkers, identifiers and bounds:

| Theorem | Statement |
|---|---|
| `IndInvariant`, `TypeInvariant` | `Spec => []IndInv`, `Spec => []TypeOK` |
| `VerdictInvariant` | a recorded verdict was true at one instant of the scan |
| `ReadBackInvariant` | a record reads back as it was answered |
| `PageInvariant` | every page of every reachable table is exact |
| `PeersInvariant` | every list of peers of every reachable table is exact |
| `WalkInvariant` | a walk delivers nothing twice and loses nothing it owes |
| `CursorDescendsHolds` | the cursor of a walk strictly descends |

Assumptions: bindings are numbered by natural numbers and NULL is none
(`IDAssumption`), the sequence ends somewhere and a page holds at least
one record (`InspectionBounds`).

**The argument.** That a page is exact is a counting argument. `Top(n, S)` is the
set of records with fewer than `n` newer ones in `S`. It never has more than `n`
members: the oldest of them has all the others above it (`TopAtMost`). It has `n`
of them when `S` does: otherwise take the newest record it leaves out, which has
only records of `Top` above it (`TopAtLeast`). Both need an oldest or a newest
record; the library's induction theorems have an operator parameter, so existence
comes from well-founded minimality over sets (`LeastNatural`).
`TopOfPart` says that a part of `S` that contains `Top(n, S)` has the same top;
each branch of the SQL is such a part for its own records, so the two bounded
branches lose nothing (`BranchesSuffice`), and the look-ahead row is one record
more than the page exactly when a record is left.

The list of peers has a `GROUP BY` before its cut, so its order is one of records
that are built, not stored. `CutCounts` is about any strict total order on a finite
set: the numbers of predecessors are pairwise different and below the size of the
set, so they are exactly `0 .. size - 1`, and a cut at `n` keeps `n` elements or
all. `Groups` says that the CASE of the statement names the other binding whichever
side the target was on, and that no record is counted twice, because a MISMATCH
has two different ids. Peers are as many as groups and no more than bindings
(foreign keys), so the unlimited list is complete; what is kept is ordered before
what is cut, so it is at least as frequent.

The properties of scans rest on what `pc` says of a scan (`Phase`): its two sides
were resolved in one content of `bindings`, with everything the scan knew at its
start; its view is the row it inserted. Every record is the row of one committed
scan and no two scans share an id (`RecordsOfScans`), which makes the table a
`Table`. `VerdictOfOneInstant` and `ReadsBackUnchanged` follow, the second with
`OneToOne` because bindings are only added (`Growing`). For walks, what a walker
has collected lies at or above its cursor (`Walking`); the next page lies below
it, so nothing comes twice, and `PagesExact` says that all it leaves behind is
below the new cursor.

### BatchLookup

`BatchLookupProofs` proves `IndInvariant`, `TypeInvariant`, `BatchInvariant`
(`BatchEqualsSingles`) and `ErrorsInvariant` (`UnnamedItemsAreLegal`) for every
limit and all lines and values. Assumption: the limit is a natural number and the
sentinel for a missing line is no line (`BatchAssumption`). `AcceptedBatch` (what
validation lets through) and `RestoredAreSingles` mention no variable, so the proofs
about the API use them as well.

**The argument.** A batch without errors has distinct lines (`UnnamedLegal`,
`NoErrors`), and every query key is asked for under the line of its first
occurrence (`FirstOccurrence`, again by a least element), so a line leads back to
one query key (`KeyOfLine`). Bindings are one to one in each column, so a query
key finds at most one row and `Restore` gives every item the binding a single
lookup finds (`RestoredAreSingles`). The invariant adds that the rows read are
those of one content the table had while the batch was being answered.

### Service

`ServiceProofs` proves, for any attempts, scans and pool:

| Theorem | Statement |
|---|---|
| `ServiceRefinesStore` | `ServiceSpec => Spec`: the creates of the service are a `BindingStore` |
| `ServiceRefinesInspections` | `ServiceSpec => ScansSpec`: its scans are an `Inspections` |
| `ServiceInvariant` | the inductive invariant of the composition |
| `AnsweredBindingsCount` | a binding that was answered to a station counts in every scan that arrives afterwards |
| `ServiceKeepsVerdicts` | with creates at work beside it, a scan's verdict is still one of one instant, and its record reads back unchanged (`VerdictsBesideCreates` and `ReadsBackUnchanged` of the instance) |
| `NobodyStuckInvariant` | no creates and scans wait on each other, over index entries and the pool |
| `EveryStepCountsHolds` | no step sends a create or a scan back, and each step of the service brings one of them nearer to its end |

So every theorem of the two sections above holds of the service. Assumptions: those
of `BindingStore`, `ServiceAssumption`, which are `InspectionBounds` and
`IDAssumption` for the instance, and `ScanSentinelAssumption`: the mark of a scan
that has no answer yet is no answer.

**The argument.** Toward `Inspections`, `Commit` of a create is `Book`, every other
step of a create a stutter. `Book` demands that the new binding shares nothing with
an old one; that is `OneToOne'`, the theorem `OneToOneInvariant` for the
state after the step. The pool adds guards only, and a scan that waits in the queue is
`idle` to `Inspections`. `AnsweredBindingsCount` needs `AnswersHonest` (what a
create answered stands in the table), that a scan's `told` is a part of the table
from its arrival on, and that `known`, taken at BEGIN, comes later.
`ServiceKeepsVerdicts` is an instance of `InspectionsProofs` (`ScanProofs`) under
the refinement: the theorems there are about any one-to-one bindings that only grow.

`NobodyStuck` extends the argument of `NoDeadlock`: a scan waits for nothing but a
connection, so in a set that waits on itself nobody waits for an index entry, all wait
for connections, and whoever holds one would have to be in the set. Together with
`EveryStepCounts` this is the safety half of the liveness properties: somebody can
always go on, and there is no circle to go on in, since `StepsLeft` and
`ScanStepsLeft` never grow and one of them shrinks. What fairness adds (that the one
who can go on does) is checked by TLC.

### Migrations and Server

`ServerProofs` proves `IndInvariant`, `RecordsMatchSchemaInvariant` and
`ServesOnFullSchemaInvariant` of `Migrations` for any number of replicas and files,
and of the process around it:

| Theorem | Statement |
|---|---|
| `ServerRefinesMigrations` | `ServerSpec => Spec`: to the schema, processes are the boots of `Migrations` |
| `MigrationsAreKept` | a recorded migration and its objects stay through every boot, race and kill |
| `ServerInvariant` | the inductive invariant |
| `ServerRecordsInvariant` | records and schema agree through starts, shutdowns and kills |
| `FullSchemaInvariant` | no handler runs on a schema that lacks a migration |
| `OrderlyStopInvariant` | between the end of `Shutdown` and the end of the process nothing is accepted, however late the listener's goroutine runs, and a process that stops in order has cut no request off |
| `RacesHaveAWinner`, `RacesLeaveOne` | replicas that race through the migrations do not all exit: unless one was stopped from outside, some replica is still migrating or serves; the first of `Migrations`, the second of the processes |

Assumption: the number of files is natural (`MigrationAssumption`).

**The argument.** The invariant of `Migrations` adds that every file a replica has
passed is recorded, which is what a later `Check` or the commit of another replica
cannot take back. `MigrationsStep` shows that a step of the server is one of
`Migrations` or leaves the schema alone, so that invariant carries over; the
server's own part ties `listener` and the requests held to `pc` and `main`: only a
process that has passed every file listens, and from the signal on no listener is
open. `Return` looks at nobody, so that an orderly stop cuts nothing rests on this:
`Drained` found no request held, and what could bring one in afterwards, a listener
that is opened late, is refused because `Shutdown` has begun (`Listen`).

That a race leaves one needs the replica that leads: one that is at a file beyond
which nothing is recorded (`Leads`). Such a replica cannot lose, because what it is
about to create or record is not there yet; it stops leading only when another one
commits the file it is at, and that one leads from then on (`LeaderStep`). This is the
safety half of `SomeReplicaListens`: the remaining step, that the leader also gets
there, is a matter of fairness.

### UniqueJSON

`UniqueJSONProofs` proves, for bodies of any length and depth over any member names:

| Theorem | Statement |
|---|---|
| `InvariantHolds` | `Spec => []IInv` |
| `FramesMirrorContainers` | the frames are the open containers of what was read, and the top frame knows whether a name is due (`FramesAreContainers`) |
| `AcceptanceIsExact` | a body read to its end is accepted exactly when it is one whole value and repeated no name; every refusal is for a fault the body has, a repetition at the token that repeats (`AcceptsExactlyUnique`) |

Assumptions: a member name is none of the other tokens (`StringsAssumption`), the
bound on the length is natural (`TokensAssumption`).

**The argument.** The automaton keeps a stack; `Depth`, `Container` and
`NamePosition` look at positions only. `FramesAreContainers` is not inductive: when a
container closes, the frame below must know its names and whether a name comes next,
which the property says of no frame but the top. `IInv` says it of every frame
(`FrameDescribes`): the one token that opened it, its kind, the parity of its
members, and, when it is checked, that its keys are the names read in it. `Inside` and
`Completed` are the two situations of the scan, before and after its value is complete;
`Repeated` is empty until a duplicate ends the scan, and each outcome keeps what the
frames said when it was decided. The three outcomes of an ended body exclude each other
by its depth and length, and `EndsWithDecoder` says that there is no other outcome of an
ended body: so what is one whole value is not refused. Everything rests on locality
(`Local`): a token appended to a body changes the depth, container and siblings of no
earlier position, so a lemma for each definition says what one token adds to it
(`DepthStep`, `EnclosingStep`, `MembersStep`, `NamesStep`, `RepeatedName`), and the
step lemmas put them together for the top frame, a new frame and the frames below.

### The API and its clients

`AcceptanceClientProofs` proves, for any suite of calls, any troubles and races the
client's specification allows:

| Theorem | Statement |
|---|---|
| `OneTextPerID` | a text is read as the id `n` exactly when it is the numeral of `n` |
| `OneTextPerLimit` | the same of limits, which are 1 to `MaxPage` |
| `OneNameInvariant` | every record has exactly one name in the API (`OneNamePerRecord`) |
| `TablesInvariant` | `Spec => []TablesInv`: what calls leave behind |
| `ReportsExact` | all pages and lists of peers are exact in those tables |
| `LookupsAnsweredInvariant` | a committed binding is answered with 200 under each of its identifiers |
| `InspectionsAnsweredInvariant` | a committed inspection is answered with 200, beside the bindings its scan hit |
| `BatchesAnsweredInvariant` | an accepted batch, of any length, is answered item by item with what the three single lookups are answered at that instant |
| `RetriesReplayInvariant` | a request sent again gets the binding it booked, and a request that uses its key for another device is refused for the key (`RetriesReplay`) |
| `AnswersStandHolds` | no call changes what a binding, an inspection or the summaries beside it are shown as (`AnswersStand`) |
| `NoBatchIsTorn` | no batch of the snapshot scenario finds a row in part, and the check that looks for one never fails, for any number of rows, writers and rounds |
| `HistoriesAnsweredInvariant` | a legal history request gets the exact page, each record once, newest first |
| `PeersAnsweredInvariant` | a legal request for peers gets the exact list, each peer once, in the order of the statement |

Assumptions: the greatest id is a positive number, the greatest page is one of
1 to that, and the default page is one of 1 to the greatest (`ParametersAssumption`);
NULL is no id (`NullAssumption`); the limit of a batch is a natural number
(`BatchSizeAssumption`); the client runs scenarios that exist (`SuitesAssumption`),
and the rows of its snapshot scenario fit into one batch, which main.go's do
(`SnapAssumption`).

**The argument.** `ValueOf` reads a text digit by digit, `Numeral` writes a number
digit by digit. Neither can be taken by the induction theorems of the library; what
they do is shown by least counterexamples instead, over the prefixes of one text
(`ValueOfPrefixes`) and over the numbers below one (`NumeralsExist`, `NumeralReads`).
`DigitsAreNumeral` is the heart: take a shortest text of digits without a leading
zero that is not the numeral of its value; without its last digit it is one, and
dividing by ten (`Tenth`) gives exactly that text's value and that digit back. Signs and leading zeros are what `Canonical` refuses,
and overflow is the intersection with the range.

`TablesInv` holds of the tables of the API what the databases of `BindingStore` and
`Inspections` guarantee: columns are one to one, ids lie below their sequences, and
an inspection's result follows from its two ids, which name bindings (`Decided`).
`Decided` makes `PagesExact` and `PeersExact` applicable. It is kept because a scan's
ids are those of bindings that are there, and a created binding's id is fresh.
`RankedInOrder` says of any strict total order on a finite set that ranking its
elements by their predecessors lists each of them once and in order; the two lists
of the API are instances of it.

`BatchesAnswered` comes from `TablesInv` alone: columns are one to one, an accepted
batch repeats no line, and `RestoredAreSingles`, taken through an instance of
`BatchLookupProofs`, turns the restored rows into single lookups. `TakenKeyDecides` is
the core of `RetriesReplay`: the code looks a key up before it looks at devices or at the
sequence, so once a key is booked nothing else can decide the answer. `AnswersStand`
holds because calls only add rows (`TablesGrow`), and an identifier that a record names
keeps naming one binding (`StoredNamesStand`).

`NoBatchIsTorn` is about the client's own run. A row is *whole* when it is bound with
its own three identifiers or not at all (`RowsWhole`); then the three lookups of its
items find the same (`RowFoundByAll`), and a batch, which is single lookups of one
instant, finds three or none (`WholeRowsAreNotTorn`). Rows stay whole because nobody
but the writers binds an identifier of a row: every step of every scenario is read for
the identifiers it sends (`TameBindings` to `TameAmbiguous`, one per group of
scenarios), the foreign station has names of its own, and lost calls either take
effect as a whole or not. `ClientInPlan` adds that the client is always at a step of
its plan, `WritersInRows` that writers write rows that exist.

### Only model-checked

* Liveness: `EveryRequestAnswered`, `EntriesReleased`, `EveryScanAnswered`,
  `ShutdownEnds`, `SomeReplicaListens`. Fairness and ENABLED are out of the
  prover's reach. What safety can say of them is proved: nobody is stuck and every
  step counts (`NobodyStuckInvariant`, `EveryStepCountsHolds`) for the first
  three, `RacesLeaveOne` for the last.
* `FailuresAreExplained` (acceptance): the suite is one concrete run of fourteen
  scenarios whose checks compare concrete answers; a proof would be that run,
  written down, and the wanted answers are put together with `@@`, which the provers
  treat as opaque. What does not depend on the concrete answers is proved:
  `NoBatchIsTorn` for the check of the one scenario with writers at work, and the
  theorems about answers for what the others compare.
* The violations are counterexamples of small instances; nothing is proved of them.

## 5. Not modelled

* Containers and the compose file: no code of the service. What they imply for
  restarts is stated in section 2 (Migrations).
* The syntax of identifiers (`identPattern`): one regular expression with unit
  tests. The models start from strings that it accepts or rejects.
* `DATABASE_URL` is empty or not; its parsing and `HTTP_ADDR` are the libraries'.
* The caps on body sizes, the messages of error envelopes, logging: wording and
  I/O without state. A body that is cut off is a syntax error of `UniqueJSON`.
* `created_at` of bindings: written once by a default, no property is about it.
* Serialization failures: READ COMMITTED has none, and REPEATABLE READ READ ONLY
  transactions cannot meet one.
* The inside of PostgreSQL, pgx, gin and `encoding/json`: modelled from how the
  code uses them, and marked external in the map.

## 6. Plan

1. *Done:* creation and its abstract specification; inspections, queries, batch
   lookup, decoding, migrations, each checked and proved.
2. *Done:* the composition of creates and scans on one pool, proved to refine
   both parts; the life of a server process with requests in flight; the routes as
   clients see them, and the acceptance client that drives them; proofs that pages
   and lists of peers are exact for every table.
3. *Done:* proofs that the stack of `UniqueJSON` holds the open containers and that
   acceptance is exact; that ids have one text; that the tables the API leaves behind
   are ones its reports are exact on, and that its answers show them in order.
4. *Done:* batches, retries and what was once shown, as theorems about the answers of
   the API; no torn batch in the client's run; the safety halves of the liveness
   properties of the service and of racing replicas.
5. Left: the creates of the API as steps of `BindingLedger` and its scans as those of
   `Inspections`, so that "decided at one instant" is one theorem about all routes;
   today the answers of `BindingAPI` are tied to them by definition (`CreateResult`,
   `Verdict`) and by `TablesInvariant`.
