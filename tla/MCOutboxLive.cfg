SPECIFICATION FairSpec
CONSTANTS
  Events = {e1, e2}
  Workers = {w1}
  None = None
  BatchSize = 2
  Attempts = 2
  Webhook = TRUE
  Crashes = TRUE
PROPERTY
  EveryEventPublished
CHECK_DEADLOCK FALSE
