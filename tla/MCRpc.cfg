SPECIFICATION FairSpec
CONSTANTS
  a = a
  a2 = a2
  order = order
  Calls = {a, a2}
  Clients = {order}
  Owner <- MCOwner
  Values = {"ok"}
  Errors = {"refused"}
  MaxFailures = 2
INVARIANTS NothingLeaks OwnAnswer
PROPERTIES ImplementsContract EveryCallSettles
