CONSTANTS
  Account = acc
  Scopes = {e1, s1, x1}
  Attempts = {a1, a2}
  EventIds = {v1, v2}
  Digests = {d1}
  References = {f1, f2}
  Charges = {1, 3}
  Limits = {2, 3}
  Unlimited = unlimited
  None = none
  e1 = e1
  s1 = s1
  x1 = x1
  r1 = r1
  r2 = r2
  Quotes <- TwoQuotes
  MaxJournal = 11
  Unit = 3
  Rates = {0, 1, 2}
  Tokens = {0, 1, 2}
SPECIFICATION CostSpec
SYMMETRY Symmetry
CONSTRAINT ScopesAsNamed
INVARIANTS JournalExplainsTables CeilingCoversUsage
PROPERTY BreachedOnlyByEvidence
CHECK_DEADLOCK FALSE
