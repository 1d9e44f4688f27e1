CONSTANTS
  SESSION_US = 2
  RATE_US = 1
  MAX_EVENTS <- MaxEventsOf
  RESERVE = 3
  MaxActions = 2
  Sizes = {1}
  STOP_REASONS = {"cancelled"}
  Selectors = {"http_headers", "ssh_keys"}
  RoleOf <- RolesOf
  Bounds <- BoundsOf
  Caps <- CapsOf
  Negative = {"ssh_keys"}
  Cases = {"O2", "N1", "N14"}
  Plan <- PlanOf
  NegativeSlot <- NegativeOf
  Probes = {"N1", "N14"}
  Ttl <- TtlOf
  Timeout <- TimeoutOf
  OPERATIONS = {"dns", "http"}
SPECIFICATION OwnersSpec
CONSTRAINT FewWasted
CHECK_DEADLOCK FALSE
INVARIANT SavedLedgersReplay
