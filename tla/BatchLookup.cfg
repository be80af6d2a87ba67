SPECIFICATION Spec
CONSTANTS
  Values = {v1, v2}
  Lines  = {l1, l2, l3}
  MaxBatchQueries = 2
  NoLine    = NoLine
  OtherType = OtherType
  BadValue  = BadValue
  Malformed = Malformed
  NoBinding = NoBinding
INVARIANTS
  TypeOK
  BatchEqualsSingles
  UnnamedItemsAreLegal
SYMMETRY Symmetry
