SPECIFICATION ApartSpec
SYMMETRY Symmetry
CONSTANTS
  s1 = s1
  s2 = s2
  r1 = r1
  r2 = r2
  Subs = {s1, s2}
  Requests = {r1, r2}
  Ops = {"topup", "renew", "suspend", "resume", "disable"}
  Amounts = {5}
  BaseQuota = 5
  Credit = 0
  Days = 1
  FallbackDays = 2
  Bursts = {4}
  Collecting = FALSE
  Faults = {"refused"}
  StoreFaults = FALSE
  MaxRequests = 3
  MaxUsed = 8
  MaxTime = 1
  MaxFaults = 2
  MaxCrashes = 0
\* The clients, the traffic and the clock stop at their bounds.
CHECK_DEADLOCK FALSE
INVARIANTS
  TypeOK
  QuotaDelivered
  ExpiryDelivered
  DisabledIsCutOff
