SPECIFICATION AlertsFairSpec
CONSTANTS
  s1 = s1
  r1 = r1
  hook = hook
  Subs = {s1}
  Requests = {r1}
  Ops = {"renew", "suspend"}
  Amounts = {5}
  BaseQuota = 5
  Credit = 0
  Days = 1
  FallbackDays = 1
  Bursts = {5}
  Collecting = TRUE
  Faults = {}
  StoreFaults = FALSE
  MaxRequests = 1
  MaxUsed = 5
  MaxTime = 1
  MaxFaults = 0
  MaxCrashes = 1
  Endpoints = {hook}
  Subscription <- Everything
  QueueDepth = 1
  DispatchFaults = TRUE
  MaxEvents = 9
\* The clients, the traffic and the clock stop at their bounds.
CHECK_DEADLOCK FALSE
INVARIANTS
  ExpiryReported
  LevelReported
PROPERTIES
  NoticeOnce
  AuditMonotone
  ExpiryReaches
