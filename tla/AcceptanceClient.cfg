SPECIFICATION Spec
CONSTANTS
  MaxInt64 = 99
  UnknownID = 99
  MaxPage = 50
  DefaultPage = 50
  MaxBatchQueries = 6
  NoText = NoText
  NoID = NoID
  NoBinding = NoBinding
  Suites <- WholeSuite
  SnapRows = 2
  SnapWriters = 2
  SnapRounds = 2
  MaxPolls = 2
  MaxPages = 6
  MaxTrouble <- Trouble
INVARIANTS
  FailuresAreExplained
  OneNamePerRecord
  RetriesReplay
PROPERTIES
  AnswersStand
