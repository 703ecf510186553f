SPECIFICATION Spec
CONSTANTS
  Requests = {r1, r2, r3}
  Keys = {k1, k2}
  NoKey = NoKey
  None = None
  RequestAmounts <- MCAmounts
INVARIANT
  RetryIsReplayed
CHECK_DEADLOCK FALSE
