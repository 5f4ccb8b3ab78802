CONSTANTS
  o1 = o1  o2 = o2  p1 = p1  p2 = p2
  k1 = k1  k2 = k2  h1 = h1  h2 = h2
  OrderIds <- MCOneOrder
  ProviderIds <- MCProviderIds
  Keys <- MCKeys
  Handlers <- MCOneHandler
  NoId = NoId
  KeyModes = {TRUE}
  UnlinkedPayments = FALSE
  MaxEvents = 4
  MaxRestarts = 0
SPECIFICATION FairSpec
PROPERTIES
  CaptureIsRecorded
CHECK_DEADLOCK FALSE
