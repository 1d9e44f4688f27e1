CONSTANTS
  MaxOperations = 4
  TRIALS = 3
  STEPS = 2
SPECIFICATION Spec
INVARIANTS
  ShownIsReplayed
  CancellationIsKept
  BatchIsRecovered
  StopsReachAuthority
PROPERTY OperationsEnd
CHECK_DEADLOCK FALSE
