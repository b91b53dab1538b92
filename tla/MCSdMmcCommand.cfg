SPECIFICATION FairSpec
CONSTANTS
  Cards <- AllCards
  Threshold = 2
  Polls = 2
  MaxBusy = 1
  MaxFaults = 2
  MaxReqs = 3
  BlockLen = 2
  Word = 64
INVARIANTS Initialized TransferOver RpmbServed PartitionRestored NoFaultNoError
PROPERTIES RequestsEnd
CHECK_DEADLOCK FALSE
