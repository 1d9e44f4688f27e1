CONSTANTS
  EventIds = {1, 2, 3, 4, 5, 6}
  SessionIds = {1, 2}
  DispatchIds = {1, 2}
  Owners = {"o1", "o2"}
  Approvals = {"a1", "a2"}
  Audits = {"w1", "w2"}
  Roes <- MCRoes
  Clocks <- MCClocks
  Deadlines = {6}
  Outcomes = {"reported_success", "unresolved"}
  Observations <- MCObservations
  None = None
  CLOCK_TOLERANCE = 1
  SESSION_NS = 6
  SLOT_RUNTIME = 5
  INTEGER_MAX = 20
  MAX_REVISIONS = 2
  MAX_SESSIONS = 2
  MAX_RESERVATIONS = 3
  MAX_COMPLETIONS = 3
  MAX_EVENTS = 11
ACTION_CONSTRAINT TakenInOrder
SPECIFICATION Spec
CHECK_DEADLOCK FALSE
INVARIANTS
  HeadersFollowEligibleIdentify
  EventsAccountForRows
PROPERTIES
  ImplementsAuthority
