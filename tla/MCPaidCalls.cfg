CONSTANTS
  Account = acc
  Scopes = {e1, s1, x1}
  Attempts = {a1, a2}
  Pilots = {a2}
  EventIds = {v1, v2, v3}
  Digests = {d1}
  References = {f1, f2}
  Charges = {1, 3}
  Limits = {3, 4}
  Unlimited = unlimited
  None = none
  e1 = e1
  s1 = s1
  x1 = x1
  a1 = a1
  a2 = a2
  v1 = v1
  v2 = v2
  Quotes <- OneQuote
  UsageEvent <- UsageEvents
  MaxJournal = 12
SPECIFICATION PaidSpec
SYMMETRY Symmetry
CONSTRAINT ScopesFirst
INVARIANTS SentIsHeldOrPaid CleanEndingsResolve
PROPERTIES ImplementsMeteredSends
CHECK_DEADLOCK FALSE
