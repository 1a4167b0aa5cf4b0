SPECIFICATION Spec
CONSTANTS
  p1 = p1
  p2 = p2
  Products = {p1, p2}
  Calls = {c1, c2, c3}
  ItemLists <- MCLists
  Stock = {2}
  Updates = {1}
  MaxConcurrent = 3
  DbFaults = TRUE
  Deletes = TRUE
INVARIANTS AllOrNothing SettledInFull Accounting
PROPERTY OversellOnlyWhenStale
SYMMETRY CallSymmetry
