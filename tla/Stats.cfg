CONSTANTS
  Parsers = {p1, p2}
  Sizes = {1, 2}
  Regions = 2
  MaxRequests = 2
  p1 = p1
  p2 = p2
SPECIFICATION Spec
INVARIANTS ReportsRight
CHECK_DEADLOCK FALSE
