SPECIFICATION FairSpec
CONSTANTS
  Merchants = {m1}
  Payments = {p1}
  Owner <- OneOwner
  Calls = {c1, c2, c3}
  None = None
  Amounts <- ClientAmounts
  Authorized = 2
  Crashes = TRUE
INVARIANTS
  TypeOK
  LedgerMatchesRows
  PayoutsWithinCaptures
  EventsMatchRows
  DisputeWithinCaptured
PROPERTIES
  ImplementsStore
  CallsFinish
CHECK_DEADLOCK FALSE
