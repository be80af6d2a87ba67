SPECIFICATION Spec
CONSTANTS
  Strings = {"chip_uid", "CHIP_UID"}
  Fold <- FoldCase
  MaxTokens = 6
INVARIANTS
  NoFieldDecodedTwice
