CONSTANTS
  Calls = {c1, c2}
  Messages = {m1}
  Builtins = {b1}
  WebSearches = {b1}
  Others = {}
  MaxFrags = 2
  MaxContent = 1
  None = None
SYMMETRY CallSymmetry
SPECIFICATION Spec
INVARIANTS
  TypeOK
  ToolCallsReassemble
  IndexesDense
  FrameOrder
  StreamAgreesWithAnswer
  LegacyStepsShowAnswer
