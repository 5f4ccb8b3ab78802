CONSTANTS
  PaymentIds = {p1, p2}
  PaymentTimeout = 1
  MaxTime = 4
SPECIFICATION Spec
PROPERTIES
  StuckIsFlagged
CHECK_DEADLOCK FALSE
