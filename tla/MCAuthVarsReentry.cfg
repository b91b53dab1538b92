SPECIFICATION Spec
CONSTANTS
  Payloads <- SmallPayloads
  Sizes = {0, 3}
  PcdSecureBootEnable = TRUE
  MaxData = 3
  MaxCalls = 2
  MaxUpsets = 1
INVARIANT SuccessIsTheVariable
