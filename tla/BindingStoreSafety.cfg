SPECIFICATION Spec
CONSTANTS
  Attempts = {a1, a2, a3}
  Keys     = {k1, k2}
  Chips    = {c1, c2}
  Boards   = {b1, b2}
  NoReq     = NoReq
  NoBinding = NoBinding
  NoAnswer  = NoAnswer
  PoolSize  = 2
  MaxBigint = 2
INVARIANTS
  TypeOK
  LedgerAgreement
  OneToOne
  AnswersHonest
  RejectedLeaveNoTrace
  ReplayFindsOriginal
  LookupsAgree
  NoDeadlock
PROPERTIES
  RowsImmutable
  LedgerSpec
SYMMETRY Symmetry
