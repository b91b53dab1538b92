SPECIFICATION IoSpec
CONSTANTS
  BlockSize = 2
  LastBlock = 6
  MaxBlocks = 2
  Retries = 3
  Word = 64
  Lbas = {0, 1, 2, 5}
  Sizes = {8}
  Ids = {1}
  Failures = TRUE
  MaxResets = 0
INVARIANT AllOrError
CHECK_DEADLOCK FALSE
