SPECIFICATION ApartSpec
CONSTANTS
  id1 = id1
  id2 = id2
  r1 = r1
  r2 = r2
  A = A
  B = B
  host_info = host_info
  grpc_port = grpc_port
  old = old
  new = new
  Ids = {id1, id2}
  Requests = {r1, r2}
  Ops <- Anything
  Fields = {host_info, grpc_port}
  Ports = {grpc_port}
  Values = {old, new}
  Forms <- Uniform
  Configs = {A, B}
  StoreFaults = TRUE
  MaxRequests = 3
  MaxFaults = 1
  MaxCrashes = 1
\* The operators stop at their bound.
CHECK_DEADLOCK FALSE
SYMMETRY Symmetry
INVARIANTS
  StoredIsRunning
  RejectedLeavesNoRow
PROPERTY OmittedKept
