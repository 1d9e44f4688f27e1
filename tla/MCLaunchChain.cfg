CONSTANTS
  a1 = a1
  a2 = a2
  strict = strict
  lax = lax
  Actions = {a1, a2}
  Policies = {strict, lax}
  Policy = strict
  Denied <- DeniedIn
  AsksConsent <- AskingIn
  Allowance <- AllowanceOf
  Profile <- ProfileOf
  Deadline = 2
  Ttl = 1
  MaxGrants = 1
  MaxSteps = 2
  MaxOutput = 3
  PermitSeconds = 1
  MaxExchanges = 4
  MaxAge = 1
  MaxLaunches = 2
  MaxReviews = 2
  MaxRequests = 4
  MaxEvents = 7
  Faults = {"audit", "approval", "launcher", "cancel", "close"}
SPECIFICATION Spec
INVARIANT LaunchesAreBacked
PROPERTIES StartsOnlyAwaited ImplementsLaunchGate
CHECK_DEADLOCK FALSE
CONSTRAINT SecondIsQuiet
