CONSTANTS
  Handles = {h1, h2}
  Calls = {c1, c2}
  EventIds = {e1, e2}
  OwnedBodies = {"reserve"}
  OtherBodies = {"revise"}
  Accepts <- MCAccepts
  None = None
SPECIFICATION FairSpec
CHECK_DEADLOCK FALSE
INVARIANTS
  ReceiptsAreTrue
  CleanErrorsRecordNothing
PROPERTIES
  ImplementsRecordLog
  PoisonIsFinal
  CallsEnd
