SPECIFICATION Spec
CONSTANTS
  Scans = {s1, s2, s3}
  Walkers = {w1}
  Chips = {c1}
  Boards = {b1}
  BindingIDs = {1}
  MaxInspection = 3
  MaxLimit = 1
  NoID     = NoID
  NoScan   = NoScan
  NoAnswer = NoAnswer
  InternalError = InternalError
PROPERTIES
  PageOfCursorNeverChanges
