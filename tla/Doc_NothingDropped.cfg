CONSTANTS
  f = f
  search = search
  files = files
  None = None
  Functions = {f, search, files}
  BridgedTo <- MCBridgedTo
  Requests <- MCRequests
SPECIFICATION Spec
INVARIANT NothingDropped
CHECK_DEADLOCK FALSE
