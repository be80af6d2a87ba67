SPECIFICATION ServerSpec
CONSTANTS
  Replicas = {r1, r2, r3}
  LastMigration = 4
  Requests = {q1}
INVARIANTS
  RecordsMatchSchema
  RequestsOnFullSchema
  OrderlyStopCutsNothing
PROPERTIES
  ShutdownEnds
  SomeReplicaListens
