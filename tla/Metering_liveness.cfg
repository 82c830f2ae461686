SPECIFICATION FairSpec
CONSTANTS
  s1 = s1
  s2 = s2
  r1 = r1
  r2 = r2
  Subs = {s1}
  Requests = {r1}
  Ops = {"topup", "renew", "suspend", "resume", "disable", "enable"}
  Amounts = {5}
  BaseQuota = 5
  Credit = 0
  Days = 1
  FallbackDays = 2
  Bursts = {4}
  Collecting = TRUE
  Faults = {"refused"}
  StoreFaults = FALSE
  MaxRequests = 1
  MaxUsed = 8
  MaxTime = 1
  MaxFaults = 1
  MaxCrashes = 1
\* The clients, the traffic and the clock stop at their bounds.
CHECK_DEADLOCK FALSE
PROPERTIES
  EventuallyBilled
  EventuallyReflected
  LeaksAreKnown
