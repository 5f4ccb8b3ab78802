CONSTANTS
  o1 = o1  o2 = o2  p1 = p1  p2 = p2
  k1 = k1  k2 = k2  h1 = h1  h2 = h2
  OrderIds <- MCOrderIds
  ProviderIds <- MCProviderIds
  Keys <- MCKeys
  Handlers <- MCHandlers
  NoId = NoId
  KeyModes = {TRUE, FALSE}
  UnlinkedPayments = FALSE
  MaxEvents = 4
  MaxRestarts = 1
SPECIFICATION Spec
SYMMETRY MCSymmetry
INVARIANTS
  TypeOK
  PaidMeansCaptured
  EvidenceComplete
  NoCaptureIsLost
  LocalKeysUnique
PROPERTIES
  LocalOrdersFollowSM
CHECK_DEADLOCK FALSE
