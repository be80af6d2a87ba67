---------------------------- MODULE ServerProofs ----------------------------
(***************************************************************************)
(* What Migrate and the life of a server process around it guarantee, for  *)
(* any number of replicas, migrations and requests.                        *)
(***************************************************************************)
EXTENDS Server, TLAPS

-----------------------------------------------------------------------------
(* Migrate.                                                                 *)

\* An empty database satisfies the invariant.
LEMMA InitIndInv == Init => IndInv
  BY MigrationAssumption
  DEF Init, IndInv, Booting, RecordsMatchSchema, ServesOnFullSchema

\* Every step of every replica keeps the invariant.
LEMMA IndInvStep == IndInv /\ [Next]_vars => IndInv'
<1> SUFFICES ASSUME IndInv, [Next]_vars
             PROVE  IndInv'
  OBVIOUS
<1> USE MigrationAssumption
<1> DEFINE Rest(r) == /\ pc' \in [Replicas -> Booting \cup {"down", "serving", "exited"}]
                      /\ \A q \in Replicas \ {r} : pc'[q] = pc[q]
<1>1. ASSUME NEW r \in Replicas, NEW label \in Booting \cup {"down", "serving", "exited"},
             Goto(r, label)
      PROVE  Rest(r) /\ pc'[r] = label
  BY <1>1 DEF IndInv, Goto
<1>2. ASSUME NEW r \in Replicas, Boot(r)
      PROVE  IndInv'
  <2>1. Rest(r) /\ pc'[r] = "create"
    BY <1>1, <1>2 DEF Boot, Booting
  <2>2. at' \in [Replicas -> 1..LastMigration + 1] /\ at'[r] = 1
    BY <1>2 DEF Boot, IndInv
  <2>3. \A q \in Replicas \ {r} : at'[q] = at[q]
    BY <1>2 DEF Boot, IndInv
  <2> QED
    BY <1>2, <2>1, <2>2, <2>3 DEF Boot, IndInv, RecordsMatchSchema, ServesOnFullSchema
<1>3. ASSUME NEW r \in Replicas, FindTable(r) \/ CreateTable(r) \/ Record(r) \/ Stop(r)
      PROVE  IndInv'
  <2>1. /\ Rest(r)
        /\ pc'[r] \in {"check", "creating", "exited", "commit"}
        /\ pc'[r] = "commit" => pc[r] = "record"
    BY <1>1, <1>3 DEF FindTable, CreateTable, Record, Stop, Booting
  <2>2. UNCHANGED <<recorded, objects, at>>
    BY <1>3 DEF FindTable, CreateTable, Record, Stop
  <2> QED
    BY <2>1, <2>2 DEF IndInv, RecordsMatchSchema, ServesOnFullSchema
<1>4. ASSUME NEW r \in Replicas, Check(r)
      PROVE  IndInv'
  <2>1. pc[r] = "check" /\ UNCHANGED <<recorded, objects>>
    BY <1>4 DEF Check
  <2>2. CASE at[r] > LastMigration
    <3>1. Rest(r) /\ pc'[r] = "serving" /\ UNCHANGED at
      BY <1>1, <1>4, <2>2 DEF Check
    <3>2. recorded = 1..LastMigration
      <4>1. at[r] \in 1..LastMigration + 1
        BY DEF IndInv
      <4>2. at[r] - 1 = LastMigration
        BY <2>2, <4>1
      <4>3. 1..at[r] - 1 \subseteq recorded /\ recorded \subseteq 1..LastMigration
        BY DEF IndInv
      <4> QED
        BY <4>2, <4>3
    <3> QED
      BY <2>1, <3>1, <3>2 DEF IndInv, RecordsMatchSchema, ServesOnFullSchema
  <2>3. CASE at[r] <= LastMigration /\ at[r] \in recorded
    <3>1. at' = [at EXCEPT ![r] = @ + 1] /\ UNCHANGED pc
      BY <1>4, <2>3 DEF Check, IndInv
    <3>2. at' \in [Replicas -> 1..LastMigration + 1]
      BY <2>3, <3>1 DEF IndInv
    <3>3. \A q \in Replicas : 1..at'[q] - 1 \subseteq recorded
      BY <2>3, <3>1 DEF IndInv
    <3> QED
      BY <2>1, <3>1, <3>2, <3>3 DEF IndInv, RecordsMatchSchema, ServesOnFullSchema
  <2>4. CASE at[r] <= LastMigration /\ at[r] \notin recorded
    <3>1. Rest(r) /\ pc'[r] = "apply" /\ UNCHANGED at
      BY <1>1, <1>4, <2>4 DEF Check, IndInv, Booting
    <3> QED
      BY <2>1, <2>4, <3>1 DEF IndInv, RecordsMatchSchema, ServesOnFullSchema
  <2> QED
    BY <2>2, <2>3, <2>4 DEF IndInv
<1>5. ASSUME NEW r \in Replicas, Apply(r)
      PROVE  IndInv'
  <2>1. Rest(r) /\ pc'[r] \in {"record", "exited"} /\ pc[r] = "apply"
    BY <1>1, <1>5 DEF Apply, Booting
  <2>2. UNCHANGED <<recorded, objects, at>>
    BY <1>5 DEF Apply
  <2> QED
    BY <2>1, <2>2 DEF IndInv, RecordsMatchSchema, ServesOnFullSchema
<1>6. ASSUME NEW r \in Replicas, Commit(r)
      PROVE  IndInv'
  <2>1. Rest(r) /\ pc'[r] = "check" /\ at[r] \in 1..LastMigration
    BY <1>1, <1>6 DEF Commit, Booting, IndInv
  <2>2. recorded' = recorded \cup {at[r]} /\ objects' = recorded'
    BY <1>6 DEF Commit, IndInv, RecordsMatchSchema
  <2>3. /\ at' \in [Replicas -> 1..LastMigration + 1]
        /\ at'[r] = at[r] + 1
        /\ \A q \in Replicas \ {r} : at'[q] = at[q]
    BY <1>6, <2>1 DEF Commit, IndInv
  <2>4. \A k \in recorded' : 1..k \subseteq recorded'
    BY <2>1, <2>2 DEF IndInv, RecordsMatchSchema
  <2>5. \A q \in Replicas : 1..at'[q] - 1 \subseteq recorded'
    BY <2>1, <2>2, <2>3 DEF IndInv
  <2>6. ServesOnFullSchema'
    BY <2>1, <2>2 DEF IndInv, ServesOnFullSchema
  <2> QED
    BY <2>1, <2>2, <2>3, <2>4, <2>5, <2>6 DEF IndInv, RecordsMatchSchema
<1>7. CASE UNCHANGED vars
  BY <1>7 DEF vars, IndInv, RecordsMatchSchema, ServesOnFullSchema
<1> QED
  BY <1>2, <1>3, <1>4, <1>5, <1>6, <1>7 DEF Next, Step

\* The inductive invariant holds for any replicas that boot, race, exit and
\* boot again.
THEOREM IndInvariant == Spec => []IndInv
<1>1. Init => IndInv
  BY InitIndInv
<1>2. IndInv /\ [Next]_vars => IndInv'
  BY IndInvStep
<1> QED
  BY <1>1, <1>2, PTL DEF Spec

\* Records and schema agree, and have no gap (migrate.go:16-18).
THEOREM RecordsMatchSchemaInvariant == Spec => []RecordsMatchSchema
<1>1. IndInv => RecordsMatchSchema
  BY DEF IndInv
<1> QED
  BY <1>1, IndInvariant, PTL

\* No replica serves on a schema that lacks a migration (main.go:32-34).
THEOREM ServesOnFullSchemaInvariant == Spec => []ServesOnFullSchema
<1>1. IndInv => ServesOnFullSchema
  BY DEF IndInv
<1> QED
  BY <1>1, IndInvariant, PTL

-----------------------------------------------------------------------------
(* The server process.                                                      *)

allVars == <<vars, serverVars>>

\* To the schema a server process is the Migrate that it runs.
LEMMA MigrationsStep ==
  ASSUME [ServerNext]_allVars
  PROVE  [Next]_vars
<1>1. ASSUME NEW r \in Replicas, NEW databaseURL \in {"", "postgres"}, Start(r, databaseURL)
      PROVE  UNCHANGED vars
  BY <1>1 DEF Start
<1>2. ASSUME NEW r \in Replicas, MainStep(r)
      PROVE  [Next]_vars
  BY <1>2 DEF MainStep, Dial, MigrateStep, Listen, Next
<1>3. ASSUME NEW r \in Replicas, Shutdown(r) \/ MigrateFails(r) \/ ListenerFails(r) \/ Kill(r)
      PROVE  [Next]_vars
  BY <1>3 DEF Shutdown, Drained, TimesUp, Return, MigrateFails, ListenerFails, Kill, Next
<1>4. ASSUME NEW r \in Replicas, DialFails(r) \/ Signal(r)
      PROVE  UNCHANGED vars
  BY <1>4 DEF DialFails, Signal
<1>5. ASSUME NEW r \in Replicas, NEW q \in Requests, Accept(r, q) \/ Answer(r, q)
      PROVE  UNCHANGED vars
  BY <1>5 DEF Accept, Answer
<1> QED
  BY <1>1, <1>2, <1>3, <1>4, <1>5 DEF ServerNext, allVars

\* Whatever processes are started, stopped and killed, the schema sees the boots
\* of Migrations: every theorem about them holds of the server (main.go:19-34).
THEOREM ServerRefinesMigrations == ServerSpec => Spec
<1>1. ServerInit => Init
  BY DEF ServerInit
<1> QED
  BY <1>1, MigrationsStep, PTL DEF ServerSpec, Spec, allVars

\* A migration that is recorded stays recorded, and its objects stay, through
\* every boot, race, shutdown and kill (migrate.go:16-18).
THEOREM MigrationsAreKept ==
  ServerSpec => [][recorded \subseteq recorded' /\ objects \subseteq objects']_vars
<1>1. ASSUME [Next]_vars
      PROVE  [recorded \subseteq recorded' /\ objects \subseteq objects']_vars
  BY <1>1 DEF Next, Boot, Step, Stop, FindTable, CreateTable, Check, Apply, Record, Commit, vars
<1> QED
  BY <1>1, MigrationsStep, PTL DEF ServerSpec, allVars

\* Before any process is started.
LEMMA ServerInitInv == ServerInit => ServerIndInv
  BY InitIndInv DEF ServerInit, ServerIndInv, Running, OrderlyStopCutsNothing

\* The end of a process takes its requests along, and a process that ends in
\* good order has none left.
LEMMA EndInv ==
  ASSUME ServerIndInv, IndInv',
         NEW r \in Replicas, NEW how \in Ends, End(r, how),
         how = "stopped" => held[r] = {},
         \A q \in Replicas \ {r} : pc'[q] = pc[q]
  PROVE  ServerIndInv'
<1>1. /\ main' \in [Replicas -> Running \cup {"ended"}]
      /\ listener' \in [Replicas -> {"none", "starting", "open"}]
      /\ held' \in [Replicas -> SUBSET Requests]
  BY DEF ServerIndInv, End
<1>2. fate' \in [Requests -> {"new", "open", "answered"} \cup Ends]
  BY DEF ServerIndInv, End
<1>3. OrderlyStopCutsNothing'
  BY DEF ServerIndInv, End, OrderlyStopCutsNothing
<1>4. main'[r] = "ended" /\ listener'[r] = "none" /\ held'[r] = {}
  BY DEF ServerIndInv, End
<1>5. \A q \in Replicas \ {r} :
        main'[q] = main[q] /\ listener'[q] = listener[q] /\ held'[q] = held[q]
  BY DEF ServerIndInv, End
<1> QED
  BY <1>1, <1>2, <1>3, <1>4, <1>5 DEF ServerIndInv

\* Every step of every process keeps the invariant.
LEMMA ServerStep ==
  ASSUME ServerIndInv, [ServerNext]_allVars
  PROVE  ServerIndInv'
<1>0. IndInv'
  BY MigrationsStep, IndInvStep DEF ServerIndInv
<1>1. /\ pc \in [Replicas -> Booting \cup {"down", "serving", "exited"}]
      /\ pc' \in [Replicas -> Booting \cup {"down", "serving", "exited"}]
  BY <1>0 DEF ServerIndInv, IndInv
<1>2. ASSUME NEW r \in Replicas, NEW label, Goto(r, label)
      PROVE  pc'[r] = label /\ \A q \in Replicas \ {r} : pc'[q] = pc[q]
  BY <1>1, <1>2 DEF Goto
<1>3. ASSUME NEW r \in Replicas, Stop(r)
      PROVE  \A q \in Replicas \ {r} : pc'[q] = pc[q]
  BY <1>2, <1>3 DEF Stop
<1>4. ASSUME NEW r \in Replicas, NEW databaseURL \in {"", "postgres"}, Start(r, databaseURL)
      PROVE  ServerIndInv'
  BY <1>0, <1>4 DEF Start, vars, ServerIndInv, Running, OrderlyStopCutsNothing
<1>5. ASSUME NEW r \in Replicas, Dial(r)
      PROVE  ServerIndInv'
  <2>1. pc'[r] = "create" /\ \A q \in Replicas \ {r} : pc'[q] = pc[q]
    BY <1>2, <1>5 DEF Dial, Boot
  <2> QED
    BY <1>0, <1>5, <2>1 DEF Dial, ServerIndInv, Running, Booting, OrderlyStopCutsNothing
<1>6. ASSUME NEW r \in Replicas, MigrateStep(r)
      PROVE  ServerIndInv'
  <2>1. /\ main[r] = "migrating" /\ pc[r] \in Booting
        /\ \A q \in Replicas \ {r} : pc'[q] = pc[q]
    <3>1. \A q \in Replicas \ {r} : pc'[q] = pc[q]
      BY <1>1, <1>2, <1>6
      DEF MigrateStep, Step, FindTable, CreateTable, Check, Apply, Record, Commit
    <3> QED
      BY <1>6, <3>1 DEF MigrateStep, ServerIndInv
  <2>2. CASE pc'[r] = "serving"
    <3>1. /\ main'     = [main EXCEPT ![r] = "serving"]
          /\ listener' = [listener EXCEPT ![r] = "starting"]
          /\ UNCHANGED <<fate, held>>
      BY <1>6, <2>2 DEF MigrateStep
    <3> QED
      BY <1>0, <2>1, <2>2, <3>1 DEF ServerIndInv, Running, Booting, OrderlyStopCutsNothing
  <2>3. CASE pc'[r] = "exited"
    <3>1. End(r, "fatal")
      BY <1>6, <2>3 DEF MigrateStep
    <3> QED
      BY <1>0, <2>1, <3>1, EndInv DEF Ends
  <2>4. CASE pc'[r] \notin {"serving", "exited"}
    <3>1. UNCHANGED serverVars
      BY <1>6, <2>4 DEF MigrateStep
    <3>2. pc'[r] \in Booting
      <4>1. pc'[r] # "down"
        BY <1>2, <1>6, <2>1
        DEF MigrateStep, Step, FindTable, CreateTable, Check, Apply, Record, Commit, Booting
      <4> QED
        BY <1>1, <2>4, <4>1
    <3> QED
      BY <1>0, <2>1, <3>1, <3>2 DEF serverVars, ServerIndInv, OrderlyStopCutsNothing
  <2> QED
    BY <2>2, <2>3, <2>4
<1>7. ASSUME NEW r \in Replicas, Listen(r)
      PROVE  ServerIndInv'
  BY <1>0, <1>7 DEF Listen, vars, ServerIndInv, OrderlyStopCutsNothing
<1>8. ASSUME NEW r \in Replicas,
             \/ DialFails(r) \/ MigrateFails(r) \/ ListenerFails(r)
             \/ TimesUp(r) \/ Return(r) \/ Kill(r)
      PROVE  ServerIndInv'
  <2>1. \A q \in Replicas \ {r} : pc'[q] = pc[q]
    BY <1>3, <1>8
    DEF DialFails, MigrateFails, ListenerFails, TimesUp, Return, Kill, vars
  <2>2. PICK how \in Ends : End(r, how) /\ (how = "stopped" => held[r] = {})
    BY <1>8
    DEF DialFails, MigrateFails, ListenerFails, TimesUp, Return, Kill, Ends,
        ServerIndInv, OrderlyStopCutsNothing
  <2> QED
    BY <1>0, <2>1, <2>2, EndInv
<1>9. ASSUME NEW r \in Replicas, Signal(r) \/ Drained(r)
      PROVE  ServerIndInv'
  BY <1>0, <1>9 DEF Signal, Drained, vars, ServerIndInv, Running, OrderlyStopCutsNothing
<1>10. ASSUME NEW r \in Replicas, NEW q \in Requests, Accept(r, q) \/ Answer(r, q)
       PROVE  ServerIndInv'
  BY <1>0, <1>10 DEF Accept, Answer, vars, ServerIndInv, Running, OrderlyStopCutsNothing
<1>11. CASE UNCHANGED allVars
  BY <1>0, <1>11 DEF allVars, vars, serverVars, ServerIndInv, OrderlyStopCutsNothing
<1> QED
  BY <1>4, <1>5, <1>6, <1>7, <1>8, <1>9, <1>10, <1>11 DEF ServerNext, MainStep, Shutdown, allVars

\* The inductive invariant holds however processes are started and ended.
THEOREM ServerInvariant == ServerSpec => []ServerIndInv
<1>1. ServerIndInv /\ [ServerNext]_allVars => ServerIndInv'
  BY ServerStep
<1> QED
  BY <1>1, ServerInitInv, PTL DEF ServerSpec, allVars

\* Records and schema agree while processes come and go (migrate.go:16-18).
THEOREM ServerRecordsInvariant == ServerSpec => []RecordsMatchSchema
<1>1. ServerIndInv => RecordsMatchSchema
  BY DEF ServerIndInv, IndInv
<1> QED
  BY <1>1, ServerInvariant, PTL

\* No request is accepted, and no handler runs, on a schema that lacks a
\* migration (main.go:32-34).
THEOREM FullSchemaInvariant == ServerSpec => []RequestsOnFullSchema
<1>1. ServerIndInv => RequestsOnFullSchema
  BY DEF ServerIndInv, IndInv, RecordsMatchSchema, ServesOnFullSchema, RequestsOnFullSchema
<1> QED
  BY <1>1, ServerInvariant, PTL

\* From the signal on no request is accepted, however late the listener's goroutine
\* starts, so once Shutdown has seen the handlers gone none meets a closed pool and
\* "stopped" is logged by processes only that have answered what they accepted
\* (main.go:42-58).
THEOREM OrderlyStopInvariant == ServerSpec => []OrderlyStopCutsNothing
<1>1. ServerIndInv => OrderlyStopCutsNothing
  BY DEF ServerIndInv
<1> QED
  BY <1>1, ServerInvariant, PTL

-----------------------------------------------------------------------------
(* The safety half of SomeReplicaListens.                                   *)

\* Nobody is ahead of r, so no race can be lost by it: what it creates next is
\* not there yet.
Leads(r) == /\ pc[r] \in {"check", "apply", "record", "commit", "serving"}
            /\ recorded \subseteq 1..at[r] - 1

\* Once there is a table to record migrations in, somebody leads; before that
\* nobody has anything to lose.
SomebodyLeads ==
  \/ disturbed
  \/ table /\ \E r \in Replicas : Leads(r)
  \/ ~ table /\ recorded = {} /\ \A r \in Replicas : pc[r] \in {"down", "create", "creating"}

\* A race is lost to one who leads from then on.
LEMMA LeaderStep == IndInv /\ SomebodyLeads /\ [Next]_vars => SomebodyLeads'
<1> SUFFICES ASSUME IndInv, SomebodyLeads, [Next]_vars, ~ disturbed'
             PROVE  SomebodyLeads'
  BY DEF SomebodyLeads
<1>1. /\ ~ disturbed
      /\ pc \in [Replicas -> Booting \cup {"down", "serving", "exited"}]
      /\ at \in [Replicas -> 1..LastMigration + 1]
      /\ objects = recorded /\ recorded \subseteq 1..LastMigration
  <2>1. disturbed => disturbed'
    BY DEF Next, Boot, Step, Stop, FindTable, CreateTable, Check, Apply, Record, Commit, vars
  <2> QED
    BY <2>1 DEF IndInv, RecordsMatchSchema
<1>2. ASSUME NEW r \in Replicas, NEW label, Goto(r, label)
      PROVE  pc'[r] = label /\ \A q \in Replicas \ {r} : pc'[q] = pc[q]
  BY <1>1, <1>2 DEF Goto
<1>3. ASSUME NEW q \in Replicas, Leads(q), table',
             pc'[q] = pc[q], at'[q] = at[q], recorded' = recorded
      PROVE  SomebodyLeads'
  BY <1>3 DEF SomebodyLeads, Leads
<1>4. ASSUME NEW r \in Replicas, Boot(r)
      PROVE  SomebodyLeads'
  <2>1. /\ pc[r] \in {"down", "exited"} /\ pc'[r] = "create"
        /\ \A q \in Replicas \ {r} : pc'[q] = pc[q] /\ at'[q] = at[q]
        /\ table' = table /\ recorded' = recorded
    BY <1>1, <1>2, <1>4 DEF Boot
  <2>2. \A q \in Replicas : Leads(q) => q # r
    BY <2>1 DEF Leads
  <2>3. CASE table
    BY <1>1, <1>3, <2>1, <2>2, <2>3 DEF SomebodyLeads
  <2>4. CASE ~ table
    BY <1>1, <2>1, <2>4 DEF SomebodyLeads
  <2> QED
    BY <2>3, <2>4
<1>5. ASSUME NEW r \in Replicas, FindTable(r) \/ CreateTable(r)
      PROVE  SomebodyLeads'
  <2>1. /\ pc[r] \in {"create", "creating"} /\ table => table'
        /\ \A q \in Replicas \ {r} : pc'[q] = pc[q]
        /\ at' = at /\ recorded' = recorded
    BY <1>2, <1>5 DEF FindTable, CreateTable
  <2>2. CASE table
    <3>1. PICK q \in Replicas : Leads(q)
      BY <1>1, <2>2 DEF SomebodyLeads
    <3>2. q # r
      BY <1>5, <3>1 DEF Leads, FindTable, CreateTable
    <3>3. table'
      BY <1>5, <2>2 DEF FindTable, CreateTable
    <3> QED
      BY <1>3, <2>1, <3>1, <3>2, <3>3
  <2>3. CASE ~ table /\ FindTable(r)
    <3>1. pc'[r] = "creating" /\ ~ table'
      BY <1>2, <2>3 DEF FindTable
    <3> QED
      BY <1>1, <2>1, <2>3, <3>1 DEF SomebodyLeads
  <2>4. CASE ~ table /\ CreateTable(r)
    <3>1. pc'[r] = "check" /\ table' /\ recorded' = {}
      BY <1>1, <1>2, <2>1, <2>4 DEF CreateTable, SomebodyLeads
    <3>2. Leads(r)'
      BY <3>1 DEF Leads
    <3> QED
      BY <3>1, <3>2 DEF SomebodyLeads
  <2> QED
    BY <1>5, <2>2, <2>3, <2>4
<1>6. ASSUME NEW r \in Replicas, pc[r] \in {"check", "apply", "record", "commit"}
      PROVE  table /\ \E q \in Replicas : Leads(q)
  BY <1>1, <1>6 DEF SomebodyLeads
<1>7. ASSUME NEW r \in Replicas, Check(r)
      PROVE  SomebodyLeads'
  <2>1. pc[r] = "check" /\ table' = table /\ recorded' = recorded
    BY <1>7 DEF Check
  <2>2. PICK q \in Replicas : Leads(q)
    BY <1>6, <2>1
  <2>3. table'
    BY <1>6, <2>1
  <2>4. CASE q # r
    <3>1. pc'[q] = pc[q] /\ at'[q] = at[q]
      BY <1>1, <1>2, <1>7, <2>4 DEF Check
    <3> QED
      BY <1>3, <2>1, <2>2, <2>3, <3>1
  <2>5. CASE q = r
    <3>1. at[r] \in Nat /\ at[r] \notin recorded
      BY <1>1, <2>2, <2>5, MigrationAssumption DEF Leads
    <3>2. at' = at /\ pc'[r] \in {"serving", "apply"}
      BY <1>2, <1>7, <3>1 DEF Check
    <3>3. Leads(r)'
      BY <2>1, <2>2, <2>5, <3>2 DEF Leads
    <3> QED
      BY <2>3, <3>3 DEF SomebodyLeads
  <2> QED
    BY <2>4, <2>5
<1>8. ASSUME NEW r \in Replicas, Apply(r) \/ Record(r)
      PROVE  SomebodyLeads'
  <2>1. /\ pc[r] \in {"apply", "record"}
        /\ table' = table /\ recorded' = recorded /\ at' = at
        /\ \A q \in Replicas \ {r} : pc'[q] = pc[q]
    BY <1>2, <1>8 DEF Apply, Record
  <2>2. PICK q \in Replicas : Leads(q)
    BY <1>6, <2>1
  <2>3. table'
    BY <1>6, <2>1
  <2>4. CASE q # r
    BY <1>3, <2>1, <2>2, <2>3, <2>4
  <2>5. CASE q = r
    <3>1. at[r] \notin recorded
      BY <1>1, <2>2, <2>5, MigrationAssumption DEF Leads
    <3>2. pc'[r] \in {"record", "commit"}
      BY <1>1, <1>2, <1>8, <3>1 DEF Apply, Record
    <3>3. Leads(r)'
      BY <2>1, <2>2, <2>5, <3>2 DEF Leads
    <3> QED
      BY <2>3, <3>3 DEF SomebodyLeads
  <2> QED
    BY <2>4, <2>5
<1>9. ASSUME NEW r \in Replicas, Commit(r)
      PROVE  SomebodyLeads'
  <2>1. /\ pc[r] = "commit" /\ pc'[r] = "check" /\ table' = table
        /\ recorded' = recorded \cup {at[r]}
        /\ at'[r] = at[r] + 1 /\ at[r] \in Nat \ {0}
        /\ \A q \in Replicas \ {r} : pc'[q] = pc[q] /\ at'[q] = at[q]
    BY <1>1, <1>2, <1>9, MigrationAssumption DEF Commit
  <2>2. PICK q \in Replicas : Leads(q)
    BY <1>6, <2>1
  <2>3. table' /\ at[q] \in Nat
    BY <1>1, <1>6, <2>1, MigrationAssumption
  <2>4. CASE at[r] < at[q]
    <3>1. q # r /\ pc'[q] = pc[q] /\ at'[q] = at[q]
      BY <2>1, <2>3, <2>4
    <3>2. at[r] \in 1..at[q] - 1
      BY <2>1, <2>3, <2>4
    <3>3. recorded \subseteq 1..at[q] - 1
      BY <2>2 DEF Leads
    <3>4. recorded' \subseteq 1..at[q] - 1
      BY <2>1, <3>2, <3>3
    <3>5. Leads(q)'
      BY <2>2, <3>1, <3>4 DEF Leads
    <3> QED
      BY <2>3, <3>5 DEF SomebodyLeads
  <2>5. CASE at[q] <= at[r]
    <3>1. 1..at[q] - 1 \subseteq 1..at[r] /\ at[r] \in 1..at[r]
      BY <2>1, <2>3, <2>5
    <3>2. recorded' \subseteq 1..at[r]
      BY <2>1, <2>2, <3>1 DEF Leads
    <3>3. at'[r] - 1 = at[r]
      BY <2>1
    <3>4. recorded' \subseteq 1..at'[r] - 1
      BY <3>2, <3>3
    <3>5. Leads(r)'
      BY <2>1, <3>4 DEF Leads
    <3> QED
      BY <2>3, <3>5 DEF SomebodyLeads
  <2> QED
    BY <2>1, <2>3, <2>4, <2>5
<1>10. ASSUME NEW r \in Replicas, Stop(r)
       PROVE  FALSE
  BY <1>10 DEF Stop
<1>11. CASE UNCHANGED vars
  BY <1>11 DEF vars, SomebodyLeads, Leads
<1> QED
  BY <1>4, <1>5, <1>7, <1>8, <1>9, <1>10, <1>11 DEF Next, Step

\* Whoever races in Migrate, somebody leads (migrate.go:16-18).
THEOREM RacesHaveAWinner == Spec => []SomebodyLeads
<1>1. Init => SomebodyLeads
  BY DEF Init, SomebodyLeads
<1> QED
  BY <1>1, LeaderStep, IndInvariant, PTL DEF Spec

\* A replica that Migrate knows to be at work is a process that runs.
AtWork(r) == /\ pc[r] \in Booting => main[r] = "migrating"
             /\ pc[r] = "serving" => main[r] \in {"serving", "draining", "closing"}

LEMMA AtWorkStep ==
  ASSUME ServerIndInv, \A r \in Replicas : AtWork(r), [ServerNext]_allVars
  PROVE  \A r \in Replicas : AtWork(r)'
<1>1. /\ pc \in [Replicas -> Booting \cup {"down", "serving", "exited"}]
      /\ main \in [Replicas -> Running \cup {"ended"}]
  BY DEF ServerIndInv, IndInv
<1>2. ASSUME NEW r \in Replicas, NEW label, Goto(r, label)
      PROVE  pc'[r] = label /\ \A q \in Replicas \ {r} : pc'[q] = pc[q]
  BY <1>1, <1>2 DEF Goto
<1>3. ASSUME NEW r \in Replicas, AtWork(r)',
             \A q \in Replicas \ {r} : pc'[q] = pc[q] /\ main'[q] = main[q]
      PROVE  \A q \in Replicas : AtWork(q)'
  BY <1>3 DEF AtWork
<1>4. ASSUME NEW r \in Replicas, NEW databaseURL \in {"", "postgres"}, Start(r, databaseURL)
      PROVE  \A q \in Replicas : AtWork(q)'
  BY <1>1, <1>4 DEF Start, vars, AtWork
<1>5. ASSUME NEW r \in Replicas, Dial(r)
      PROVE  \A q \in Replicas : AtWork(q)'
  BY <1>1, <1>2, <1>3, <1>5 DEF Dial, Boot, AtWork
<1>6. ASSUME NEW r \in Replicas, MigrateStep(r)
      PROVE  \A q \in Replicas : AtWork(q)'
  <2>1. main[r] = "migrating" /\ \A q \in Replicas \ {r} : pc'[q] = pc[q]
    BY <1>1, <1>2, <1>6
    DEF MigrateStep, Step, FindTable, CreateTable, Check, Apply, Record, Commit
  <2>2. CASE pc'[r] = "serving"
    BY <1>1, <1>3, <1>6, <2>1, <2>2 DEF MigrateStep, AtWork, Booting
  <2>3. CASE pc'[r] = "exited"
    BY <1>1, <1>3, <1>6, <2>1, <2>3 DEF MigrateStep, End, AtWork, Booting
  <2>4. CASE pc'[r] \notin {"serving", "exited"}
    BY <1>3, <1>6, <2>1, <2>4 DEF MigrateStep, serverVars, AtWork
  <2> QED
    BY <2>2, <2>3, <2>4
<1>7. ASSUME NEW r \in Replicas, Stop(r), \A q \in Replicas \ {r} : main'[q] = main[q]
      PROVE  \A q \in Replicas : AtWork(q)'
  BY <1>2, <1>3, <1>7 DEF Stop, AtWork, Booting
<1>8. ASSUME NEW r \in Replicas, NEW how, End(r, how)
      PROVE  \A q \in Replicas \ {r} : main'[q] = main[q]
  BY <1>1, <1>8 DEF End
<1>9. ASSUME NEW r \in Replicas,
             \/ MigrateFails(r) \/ ListenerFails(r) \/ TimesUp(r) \/ Return(r)
             \/ Kill(r) /\ main[r] # "dialing"
      PROVE  \A q \in Replicas : AtWork(q)'
  BY <1>7, <1>8, <1>9 DEF MigrateFails, ListenerFails, TimesUp, Return, Kill
<1>10. ASSUME NEW r \in Replicas, DialFails(r) \/ (Kill(r) /\ main[r] = "dialing")
       PROVE  \A q \in Replicas : AtWork(q)'
  <2>1. main[r] = "dialing" /\ UNCHANGED vars /\ \A q \in Replicas \ {r} : main'[q] = main[q]
    BY <1>8, <1>10 DEF DialFails, Kill
  <2> QED
    BY <1>3, <2>1 DEF vars, AtWork
<1>11. ASSUME NEW r \in Replicas, Signal(r) \/ Drained(r)
       PROVE  \A q \in Replicas : AtWork(q)'
  BY <1>1, <1>11 DEF Signal, Drained, vars, AtWork
<1>12. ASSUME NEW r \in Replicas, NEW q \in Requests, Accept(r, q) \/ Answer(r, q)
       PROVE  \A p \in Replicas : AtWork(p)'
  BY <1>12 DEF Accept, Answer, vars, AtWork
<1>13. ASSUME NEW r \in Replicas, Listen(r)
       PROVE  \A p \in Replicas : AtWork(p)'
  BY <1>13 DEF Listen, vars, AtWork
<1>14. CASE UNCHANGED allVars
  BY <1>14 DEF allVars, vars, serverVars, AtWork
<1> QED
  BY <1>4, <1>5, <1>6, <1>9, <1>10, <1>11, <1>12, <1>13, <1>14 DEF ServerNext, MainStep, Shutdown, allVars

\* Replicas that race make each other exit, but never all of them: unless one was
\* stopped from outside, from the first Migrate on some process is in Migrate or
\* past it (migrate.go:16-18, main.go:42-47).  SomeReplicaListens adds that it
\* gets to listen.
THEOREM RacesLeaveOne ==
  ServerSpec => [](\/ disturbed
                   \/ \A r \in Replicas : pc[r] = "down"
                   \/ \E r \in Replicas : main[r] \in {"migrating", "serving", "draining", "closing"})
<1> DEFINE Working == \A r \in Replicas : AtWork(r)
<1>1. ServerInit => Working
  BY DEF ServerInit, Init, AtWork, Booting
<1>2. ServerIndInv /\ Working /\ [ServerNext]_allVars => Working'
  BY AtWorkStep
<1>3. ServerSpec => []Working
  <2> HIDE DEF Working
  <2> QED
    BY <1>1, <1>2, ServerInvariant, PTL DEF ServerSpec, allVars
<1>4. Working /\ SomebodyLeads =>
        \/ disturbed
        \/ \A r \in Replicas : pc[r] = "down"
        \/ \E r \in Replicas : main[r] \in {"migrating", "serving", "draining", "closing"}
  BY DEF SomebodyLeads, Leads, AtWork, Booting
<1> QED
  BY <1>3, <1>4, ServerRefinesMigrations, RacesHaveAWinner, PTL
=============================================================================
