\* An open whose scan of the flash meets a device error.
SPECIFICATION BmSpec
CONSTANTS
  BmBlock      = 3
  BmLast       = 3
  BmNames      = {"a", "b"}
  BmSizes      = {1}
  BmSeeks      = {0}
  BmMaxFiles   = 3
  BmMaxRegions = 1
  BmMaxOps     = 2
  BmMaxFaults  = 1
PROPERTIES
  BmErrorIsNotAbsence
