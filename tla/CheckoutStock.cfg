SPECIFICATION Spec
CONSTANTS
  p1 = p1
  p2 = p2
  o1 = o1
  o2 = o2
  x1 = x1
  x2 = x2
  Orders = {o1, o2}
  Cancels = {}
  Products = {p1, p2}
  ItemLists <- TwoLines
  Stock = {1}
  MaxConcurrent = 4
  Declines = TRUE
  Timeouts = TRUE
  DbFaults = TRUE
  StockFaults = TRUE
  MaxCrashes = 0
INVARIANTS StockFollowsOutcome StockIsAccountedFor
