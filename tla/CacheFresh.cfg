SPECIFICATION FairSpec
CONSTANTS
  p1 = p1
  c1 = c1
  c2 = c2
  all = all
  r1 = r1
  r2 = r2
  w1 = w1
  w2 = w2
  Absent = Absent
  Products = {p1}
  Categories = {c1, c2}
  Queries = {all}
  Readers = {r1, r2}
  Writers = {w1, w2}
  MaxJoined = 1
  Faults = TRUE
INVARIANT StaleOnlyIfLapsed
PROPERTY StalenessEnds
