CONSTANTS
  Requests = {r1}
  Capacity = 1
  CloseMayFail = FALSE
SPECIFICATION FairSpec
PROPERTY DeadlineEndsRequest
