SPECIFICATION SdSpec
CHECK_DEADLOCK FALSE
CONSTANTS
  Hosts = {h1}
  Cards = {"sd", "mmc"}
  Faults = {"create", "uninstall", "install", "init", "text", "recover"}
  MaxAttempts = 1
  BlockSize = 2
  LastBlock = 6
  MaxBlocks = 2
  Retries = 3
  Word = 64
  Lbas = {0, 2, 5}
  Sizes = {0, 2, 3, 6, 10}
  Ids = {1, 2}
  Failures = TRUE
  MaxResets = 2
INVARIANTS FlagsTrackDatabase RightBlock
PROPERTIES AbsenceNoticed
