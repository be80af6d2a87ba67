SPECIFICATION Spec
CONSTANTS
  BindingIDs = {1, 2, 3}
  MaxRows  = 4
  MaxLimit = 2
  NoID     = NoID
INVARIANTS
  EveryPageIsExact
  SidesMatchVerdicts
  EveryPeerListIsExact
