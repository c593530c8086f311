CONSTANTS
  Requests = {r1}
  Capacity = 1
  CloseMayFail = FALSE
SPECIFICATION Spec
INVARIANT DroppedOnlyByClient
