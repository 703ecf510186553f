SPECIFICATION Spec
CONSTANTS
  m1 = m1
  k1 = k1
  m2 = m2
  k2 = k2
  k3 = k3
  Merchants = {m1, m2}
  MerchantOf <- MCMerchantOf
  Handlers = {h1, h2}
  None = None
  Limit = 2
  Window = 3
INVARIANTS
  AdmissionsBounded
  OrphanOnlyByFault
PROPERTY
  WindowEnds
