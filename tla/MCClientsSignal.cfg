CONSTANTS
  MaxOperations = 1
  TRIALS = 3
  STEPS = 2
SPECIFICATION Spec
INVARIANT SignalsReachAuthority
CHECK_DEADLOCK FALSE
