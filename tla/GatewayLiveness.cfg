\* Two requests for one slot: the second is refused while the first is inside,
\* and may be let in once that is out.  No client has to read what it is sent,
\* but for ImplementsFairAdmission.
CONSTANTS
  Requests = {r1, r2}
  Capacity = 1
  CloseMayFail = FALSE
SPECIFICATION FairSpec
PROPERTIES
  ImplementsAdmission
  DisconnectFreesSlot
  DeadlineStopsUpstream
  ImplementsFairAdmission
