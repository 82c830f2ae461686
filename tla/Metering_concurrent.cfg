SPECIFICATION Spec
CONSTANTS
  s1 = s1
  s2 = s2
  r1 = r1
  r2 = r2
  Subs = {s1}
  Requests = {r1, r2}
  Ops = {"topup", "renew", "suspend", "resume", "disable", "enable"}
  Amounts = {5}
  BaseQuota = 5
  Credit = 0
  Days = 1
  FallbackDays = 2
  Bursts = {}
  Collecting = FALSE
  Faults = {"refused", "lost", "late"}
  StoreFaults = TRUE
  MaxRequests = 3
  MaxUsed = 0
  MaxTime = 0
  MaxFaults = 1
  MaxCrashes = 1
\* The clients, the traffic and the clock stop at their bounds.
CHECK_DEADLOCK FALSE
INVARIANTS
  QuotaConserved
  PeriodBacked
