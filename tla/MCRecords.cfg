CONSTANTS
  small = small
  large = large
  alien = alien
  p1 = p1
  p2 = p2
  Actions = {small, large, alien}
  Policies = {p1, p2}
  Policy = p1
  Denied <- DeniedIn
  AsksConsent <- AskingIn
  Deadline = 4
  Ttl = 2
  MaxGrants = 2
  Callers = {t1, t2}
  Controls = {k1, k2}
  RequestSizes = {1, 2}
  MaxCalls = 2
  MaxBytes = 3
  MaxTurns = 4
  Handles = {h1, h2}
  e1 = e1
  EventIds = {e1, e2, e3}
  Roes = {"http", "ssh"}
  MAX_REVISIONS = 2
  Workflows = {"plain", "discovery", "versioned", "owned_lab"}
SPECIFICATION Spec
CONSTRAINT Few
INVARIANTS
  FirstAttemptDecides
  AttemptsAreAccounted
  AnswersAreTrue
  InspectionRecovers
  PublishedReportReplays
CHECK_DEADLOCK FALSE
