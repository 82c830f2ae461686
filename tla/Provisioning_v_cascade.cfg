SPECIFICATION Spec
CONSTANTS
  c1 = c1
  c2 = c2
  p1 = p1
  n1 = n1
  n2 = n2
  i1 = i1
  i2 = i2
  i3 = i3
  r1 = r1
  r2 = r2
  Customers = {c1}
  Plans = {p1}
  Nodes = {n1}
  Ids = {i1}
  Requests = {r1, r2}
  Ops <- Sellers
  Faults = {}
  StoreFaults = FALSE
  MaxRequests = 2
  MaxFaults = 0
  MaxCrashes = 0
\* The clients stop at their bound.
CHECK_DEADLOCK FALSE
PROPERTY LifeSpec
