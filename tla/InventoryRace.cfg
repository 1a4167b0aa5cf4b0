SPECIFICATION FairSpec
CONSTANTS
  p1 = p1
  p2 = p2
  Products = {p1}
  Calls = {c1, c2, c3}
  ItemLists <- RaceLists
  Stock = {1, 2}
  Updates = {}
  MaxConcurrent = 3
  DbFaults = TRUE
  Deletes = TRUE
INVARIANT OvercommitBound
PROPERTY EveryCallReturns
