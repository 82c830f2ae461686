SPECIFICATION Spec
CONSTANTS
  s1 = s1
  s2 = s2
  r1 = r1
  r2 = r2
  Subs = {s1}
  Requests = {r1, r2}
  Ops = {"topup"}
  Amounts = {5}
  BaseQuota = 5
  Credit = 0
  Days = 1
  FallbackDays = 2
  Bursts = {}
  Collecting = FALSE
  Faults = {}
  StoreFaults = FALSE
  MaxRequests = 2
  MaxUsed = 0
  MaxTime = 0
  MaxFaults = 0
  MaxCrashes = 0
\* The clients, the traffic and the clock stop at their bounds.
CHECK_DEADLOCK FALSE
INVARIANT QuotaDelivered
