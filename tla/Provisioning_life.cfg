SPECIFICATION ApartSpec
SYMMETRY Symmetry
CONSTANTS
  c1 = c1
  c2 = c2
  p1 = p1
  n1 = n1
  n2 = n2
  i1 = i1
  i2 = i2
  i3 = i3
  r1 = r1
  r2 = r2
  Customers = {c1, c2}
  Plans = {p1}
  Nodes = {n1, n2}
  Ids = {i1, i2, i3}
  Requests = {r1, r2}
  Ops <- Anything
  Faults = {"refused", "lost", "late"}
  StoreFaults = TRUE
  MaxRequests = 5
  MaxFaults = 1
  MaxCrashes = 1
\* The clients stop at their bound.
CHECK_DEADLOCK FALSE
INVARIANT Custody
PROPERTY LifeSpec
