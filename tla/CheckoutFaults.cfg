SPECIFICATION FairSpec
CONSTANTS
  p1 = p1
  p2 = p2
  o1 = o1
  o2 = o2
  x1 = x1
  x2 = x2
  Orders = {o1}
  Cancels = {x1}
  Products = {p1}
  ItemLists <- OneLine
  Stock = {1, 2}
  MaxConcurrent = 4
  Declines = TRUE
  Timeouts = TRUE
  DbFaults = TRUE
  StockFaults = TRUE
  MaxCrashes = 1
INVARIANTS RedeliveryOnlyWithholds ConfirmedIsPaid NoOrderWithoutStock FailureIsNotConfirmed
PROPERTY EveryRequestAnswered
