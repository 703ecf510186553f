SPECIFICATION Spec
CONSTANTS
  Events = {e1, e2}
  Workers = {w1, w2}
  None = None
  BatchSize = 2
  Attempts = 3
  Webhook = TRUE
  Crashes = FALSE
INVARIANT
  DeadLettersRetained
CHECK_DEADLOCK FALSE
