----------------------------- MODULE Migrations -----------------------------
(***************************************************************************)
(* Every replica of the server runs Migrate when it boots, at the same     *)
(* time as others and without a lock of its own: it creates                *)
(* schema_migrations if there is none, then checks, applies and records    *)
(* one migration after the other, each in its own transaction, and serves  *)
(* when all are there.  Any error is fatal: the process exits.             *)
(***************************************************************************)
EXTENDS Naturals, FiniteSets

CONSTANTS Replicas,
          LastMigration   \* the embedded files are 1..LastMigration by name

ASSUME MigrationAssumption == LastMigration \in Nat

VARIABLES table,          \* schema_migrations has been created
          recorded,       \* its committed rows
          objects,        \* migrations whose tables, triggers and indexes exist
          pc,             \* where each replica is
          at,             \* the migration it is at
          disturbed       \* a replica was stopped or lost its connection

vars == <<table, recorded, objects, pc, at, disturbed>>

Booting == {"create", "creating", "check", "apply", "record", "commit"}

\* Transactions that have created the objects of migration k, uncommitted.
InFlight(r, k) == pc[r] \in {"record", "commit"} /\ at[r] = k

Goto(r, label) == pc' = [pc EXCEPT ![r] = label]

-----------------------------------------------------------------------------
Init == /\ table     = FALSE
        /\ recorded  = {}
        /\ objects   = {}
        /\ pc        = [r \in Replicas |-> "down"]
        /\ at        = [r \in Replicas |-> 1]
        /\ disturbed = FALSE

\* A process is started, also one that has exited before.
Boot(r) ==
  /\ pc[r] \in {"down", "exited"}
  /\ Goto(r, "create")
  /\ at' = [at EXCEPT ![r] = 1]
  /\ UNCHANGED <<table, recorded, objects, disturbed>>

\* CREATE TABLE IF NOT EXISTS looks for the table first,
FindTable(r) ==
  /\ pc[r] = "create"
  /\ Goto(r, IF table THEN "check" ELSE "creating")
  /\ UNCHANGED <<table, recorded, objects, at, disturbed>>

\* and fails when somebody else has created it since.
CreateTable(r) ==
  /\ pc[r] = "creating"
  /\ table' = TRUE
  /\ Goto(r, IF table THEN "exited" ELSE "check")
  /\ UNCHANGED <<recorded, objects, at, disturbed>>

\* Mutant: a migration that another replica is applying counts as applied.
CheckDirty(r) ==
  /\ pc[r] = "check"
  /\ IF at[r] > LastMigration
     THEN Goto(r, "serving") /\ UNCHANGED at
     ELSE IF at[r] \in recorded \/ \E q \in Replicas : InFlight(q, at[r])
     THEN at' = [at EXCEPT ![r] = @ + 1] /\ UNCHANGED pc
     ELSE Goto(r, "apply") /\ UNCHANGED at
  /\ UNCHANGED <<table, recorded, objects, disturbed>>

\* SELECT EXISTS outside any transaction; after the last file the replica serves.
Check(r) ==
  /\ pc[r] = "check"
  /\ IF at[r] > LastMigration
     THEN Goto(r, "serving") /\ UNCHANGED at
     ELSE IF at[r] \in recorded
     THEN at' = [at EXCEPT ![r] = @ + 1] /\ UNCHANGED pc
     ELSE Goto(r, "apply") /\ UNCHANGED at
  /\ UNCHANGED <<table, recorded, objects, disturbed>>

\* Mutant: the objects are created outside the transaction.
ApplyAutocommit(r) ==
  /\ pc[r] = "apply"
  /\ \A q \in Replicas : ~ InFlight(q, at[r])
  /\ objects' = objects \cup {at[r]}
  /\ Goto(r, "record")
  /\ UNCHANGED <<table, recorded, at, disturbed>>

\* Mutant: a shared lock that every replica at the migration wants to upgrade.
ApplyUpgrading(r) ==
  /\ pc[r] = "apply"
  /\ \A q \in Replicas \ {r} :
       at[q] = at[r] => pc[q] \notin {"apply", "record", "commit"}
  /\ \/ Goto(r, "record")
     \/ at[r] \in objects /\ Goto(r, "exited")
  /\ UNCHANGED <<table, recorded, objects, at, disturbed>>

\* The statements of the file wait for another transaction that is creating the
\* same objects.  Objects that are there by then are left alone or, when they
\* appeared while the statement ran, are an error.
Apply(r) ==
  /\ pc[r] = "apply"
  /\ \A q \in Replicas : ~ InFlight(q, at[r])
  /\ \/ Goto(r, "record")
     \/ at[r] \in objects /\ Goto(r, "exited")
  /\ UNCHANGED <<table, recorded, objects, at, disturbed>>

\* INSERT INTO schema_migrations: version is the primary key.
Record(r) ==
  /\ pc[r] = "record"
  /\ Goto(r, IF at[r] \in recorded THEN "exited" ELSE "commit")
  /\ UNCHANGED <<table, recorded, objects, at, disturbed>>

Commit(r) ==
  /\ pc[r] = "commit"
  /\ objects'  = objects \cup {at[r]}
  /\ recorded' = recorded \cup {at[r]}
  /\ at' = [at EXCEPT ![r] = @ + 1]
  /\ Goto(r, "check")
  /\ UNCHANGED <<table, disturbed>>

\* The process is killed or a call fails for a reason of its own; its
\* transaction is rolled back, unless COMMIT was first.
Stop(r) ==
  /\ pc[r] \in Booting \cup {"serving"}
  /\ Goto(r, "exited")
  /\ disturbed' = TRUE
  /\ UNCHANGED <<table, recorded, objects, at>>

Step(r) == \/ FindTable(r) \/ CreateTable(r) \/ Check(r)
           \/ Apply(r) \/ Record(r) \/ Commit(r)

Next == \E r \in Replicas : Boot(r) \/ Step(r) \/ Stop(r)

Spec == Init /\ [][Next]_vars

-----------------------------------------------------------------------------
(* Properties.                                                              *)

\* The version table tells the truth about the schema: a migration is recorded
\* exactly when its objects exist, and only after all those before it, whatever
\* replicas raced or died (migrate.go:16-18).
RecordsMatchSchema ==
  /\ recorded = objects
  /\ \A k \in recorded : 1..k \subseteq recorded

\* No replica answers requests on a schema that lacks a migration (main.go:32-34).
ServesOnFullSchema ==
  \A r \in Replicas : pc[r] = "serving" => recorded = 1..LastMigration

\* The inductive invariant: a replica that is past a migration has seen it
\* recorded, so whatever it adds next continues the records without a gap.
IndInv ==
  /\ recorded \subseteq 1..LastMigration
  /\ pc \in [Replicas -> Booting \cup {"down", "serving", "exited"}]
  /\ at \in [Replicas -> 1..LastMigration + 1]
  /\ \A r \in Replicas : 1..at[r] - 1 \subseteq recorded
  /\ \A r \in Replicas : pc[r] \in {"apply", "record", "commit"} => at[r] <= LastMigration
  /\ RecordsMatchSchema
  /\ ServesOnFullSchema
=============================================================================
