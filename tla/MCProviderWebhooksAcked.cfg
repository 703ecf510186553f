SPECIFICATION Spec
CONSTANTS
  captured = captured
  refunded = refunded
  paid = paid
  failed = failed
  malformed = malformed
  unsupported = unsupported
  Events = {captured, refunded, paid, failed, malformed, unsupported}
  EventOf <- MCEventOf
  Deliveries = {d1, d2, d3}
  None = None
  Authorized = 2
  Crashes = FALSE
INVARIANT
  AcknowledgedIsApplied
CHECK_DEADLOCK FALSE
