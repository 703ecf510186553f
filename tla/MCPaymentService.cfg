SPECIFICATION FairSpec
CONSTANTS
  Payments = {p1}
  Requests = {r1, r2, r3}
  None = None
  Amounts <- ClientAmounts
  MaxAmount = 6
  Unit = 3
  ProviderErrors = TRUE
  Crashes = TRUE
INVARIANTS
  TypeOK
  LedgerMatchesPayment
  LockedRowIsCurrent
  EventsExplainPayment
  LedgerBackedByProvider
  PayloadNeverAhead
PROPERTIES
  ClosedStaysClosed
  ImplementsMoney
  ImplementsStore
  CallsFinish
CHECK_DEADLOCK FALSE
