SPECIFICATION MemSpec
CHECK_DEADLOCK FALSE
CONSTANTS
  Images = {i1, i2}
  PageSize = 4
  HeaderSize = 2
  ShmStart = 4
  ShmSize = 20
  Sizes = {1, 4}
  Alignments = {0, 3}
  Word = 11
  GcdFaults = {"Get", "Add", "AllocInit", "FreeInit", "Alloc", "Free"}
  MaxOverruns = 1
SYMMETRY ImageSymmetry
INVARIANTS NoOverlap HeadersMatchHeld FenceCoversFree
PROPERTIES Isolation ImplementsPool
