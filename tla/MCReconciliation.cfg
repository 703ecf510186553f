SPECIFICATION Spec
CONSTANTS
  Payments = {p1, p2}
  Stranger = Stranger
  Calls = {c1, c2}
  None = None
  Amounts = {0, 1, 2, 6}
  Authorized = 8
  Unit = 4
INVARIANTS
  StoredMoneyAgrees
  DriftExplained
  ReconcileFindsDrift
SYMMETRY Symmetry
CHECK_DEADLOCK FALSE
