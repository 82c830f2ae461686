SPECIFICATION FairSpec
CONSTANTS
  all = all
  picky = picky
  Endpoints = {all, picky}
  Types = {"usage", "status"}
  Subscription <- Wants
  Slow = {picky}
  QueueDepth = 1
  MaxAttempts = 3
  Timeout = 10
  RetryBackoff = 2
  DeliveryBudget = 60
  StoreFaults = TRUE
  MaxLate = 1
  MaxEvents = 2
  MaxCrashes = 1
\* No more events, none queued: the worker waits.
CHECK_DEADLOCK FALSE
INVARIANTS
  EachRecordedOnce
  LogIsTrue
  Ordered
PROPERTIES
  Relayed
  EventuallyHandled
