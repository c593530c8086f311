CONSTANTS
  f = f
  search = search
  files = files
  None = None
  Functions = {f, search, files}
  BridgedTo <- MCBridgedTo
  Requests <- MCRequests
SPECIFICATION Spec
INVARIANTS
  TypeOK
  OnlyKnownLosses
  OrdinaryNeverRefused
  ChoiceMatchesTools
CHECK_DEADLOCK FALSE
