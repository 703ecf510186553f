SPECIFICATION Spec
CONSTANTS
  captured = captured
  refunded = refunded
  paid = paid
  failed = failed
  malformed = malformed
  unsupported = unsupported
  Events = {captured, refunded, paid, failed, malformed, unsupported}
  EventOf <- MCEventOf
  Deliveries = {d1, d2, d3, d4}
  None = None
  Authorized = 2
  Crashes = TRUE
INVARIANTS
  TypeOK
  AppliedAtMostOnce
  OneTerminalCallback
SYMMETRY Symmetry
CHECK_DEADLOCK FALSE
