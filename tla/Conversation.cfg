CONSTANTS
  c1 = c1
  c2 = c2
  web = web
  file = file
  None = None
  Calls = {c1, c2, web, file}
  HasQuery = {c1, web}
  ToolOf <- MCToolOf
  Answers <- MCAnswers
  Requests <- MCRequests
  MaxCalls = 2
  MaxMessages = 6
SPECIFICATION Spec
INVARIANTS
  TypeOK
  LosslessReplay
  CallsPaired
  ReasoningStaysWithResponses
  BridgedSearchesAsked
