SPECIFICATION Spec
CONSTANTS
  Scans = {s1, s2}
  Walkers = {}
  Chips    = {c1, c2}
  Boards   = {b1, b2}
  BindingIDs = {1, 2}
  MaxInspection = 2
  MaxLimit = 1
  NoID     = NoID
  NoScan   = NoScan
  NoAnswer = NoAnswer
  InternalError = InternalError
INVARIANTS
  LastOccurrenceIsLastInspection
SYMMETRY Symmetry
