SPECIFICATION Spec
CONSTANTS
  p1 = p1
  p2 = p2
  o1 = o1
  o2 = o2
  x1 = x1
  x2 = x2
  Orders = {o1}
  Cancels = {}
  Products = {p1}
  ItemLists <- OneLine
  Stock = {1}
  MaxConcurrent = 4
  Declines = TRUE
  Timeouts = FALSE
  DbFaults = FALSE
  StockFaults = FALSE
  MaxCrashes = 0
PROPERTY OnlyReservedIsReleased
