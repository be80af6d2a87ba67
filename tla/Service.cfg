SPECIFICATION ServiceFairSpec
CONSTANTS
  Attempts = {a1, a2}
  a1 = a1 k1 = k1 c1 = c1 b1 = b1
  Scans    = {s1}
  Keys     = {k1, k2}
  Chips    = {c1, c2}
  Boards   = {b1, b2}
  PoolSize  = 1
  MaxBigint = 2
  MaxInspection = 1
  NoReq     = NoReq
  NoBinding = NoBinding
  NoScan    = NoScan
  NoID      = NoID
  NoAnswer  = NoAnswer
  ScanFailed = ScanFailed
INVARIANTS
  ScansSeeAnsweredBindings
  VerdictsBesideCreates
  NobodyStuck
PROPERTIES
  ScansSpec
  EveryStepCounts
  EveryRequestAnswered
  EntriesReleased
  EveryScanAnswered
ACTION_CONSTRAINT FirstNames
