\* Two requests that both hold a slot: every interleaving of two bodies.
CONSTANTS
  Requests = {r1, r2}
  Capacity = 2
  CloseMayFail = TRUE
SYMMETRY RequestSymmetry
SPECIFICATION Spec
INVARIANTS
  TypeOK
  SlotAccounting
  SlotOutlivesUpstream
  ErrorBodiesEndWithDone
  OutcomeNamesCause
  LossesHaveCauses
  DeadlineIsArmed
PROPERTIES
  ClosedOnce
  NoContentAfterEnd
  ImplementsCustody
