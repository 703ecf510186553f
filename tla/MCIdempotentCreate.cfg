SPECIFICATION FairSpec
CONSTANTS
  Requests = {r1, r2, r3}
  Keys = {k1, k2}
  NoKey = NoKey
  None = None
  RequestAmounts <- MCAmounts
INVARIANTS
  TypeOK
  OnePaymentPerKey
  AnswersAgree
PROPERTIES
  ImplementsStore
  CallsFinish
CHECK_DEADLOCK FALSE
