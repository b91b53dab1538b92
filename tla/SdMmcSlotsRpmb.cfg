SPECIFICATION Spec
CONSTANTS
  Hosts = {h1, h2}
  Cards = {"mmc"}
  Faults = {}
  MaxAttempts = 1
INVARIANT OneRpmb
CHECK_DEADLOCK FALSE
