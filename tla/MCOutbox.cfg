SPECIFICATION Spec
CONSTANTS
  Events = {e1, e2}
  Workers = {w1, w2}
  None = None
  BatchSize = 2
  Attempts = 3
  Webhook = TRUE
  Crashes = TRUE
INVARIANTS
  TypeOK
  MarkedOnlyAfterDelivery
  OneWorkerPerLease
SYMMETRY Symmetry
CHECK_DEADLOCK FALSE
