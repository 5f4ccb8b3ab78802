CONSTANTS
  ProductIds = {p1, p2}
  Listed <- MCListed
  Filters <- MCFilters
  PageLimits = {1, 2}
  MaxWrites = 1
  Unset = Unset
SPECIFICATION SearchSpec
PROPERTIES
  ReturnedRowsMatch
CHECK_DEADLOCK FALSE
