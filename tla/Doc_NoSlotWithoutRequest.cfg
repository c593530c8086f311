CONSTANTS
  Requests = {r1}
  Capacity = 1
  CloseMayFail = TRUE
SPECIFICATION Spec
INVARIANT NoSlotWithoutRequest
