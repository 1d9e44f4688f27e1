CONSTANTS
  a1 = a1
  a2 = a2
  strict = strict
  lax = lax
  Actions = {a1, a2}
  Policies = {strict, lax}
  Policy = lax
  Denied <- DeniedIn
  AsksConsent <- AskingIn
  Allowance <- AllowanceOf
  Profile <- ProfileOf
  Deadline = 2
  Ttl = 2
  MaxGrants = 2
  MaxSteps = 2
  MaxOutput = 3
  PermitSeconds = 1
  MaxExchanges = 4
  MaxAge = 1
  MaxLaunches = 2
  MaxReviews = 0
  MaxRequests = 1
  MaxEvents = 6
  Faults = {"audit", "approval", "launcher", "cancel", "close"}
SPECIFICATION Spec
INVARIANTS ReservationsCoverLaunches TrailTellsExecutions
CHECK_DEADLOCK FALSE
