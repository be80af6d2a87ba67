SPECIFICATION Spec
CONSTANTS
  Strings = {"chip_uid", "other"}
  Fold <- FoldCase
  MaxTokens = 8
INVARIANTS
  FramesAreContainers
  AcceptsExactlyUnique
