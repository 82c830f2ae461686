SPECIFICATION Spec
CONSTANTS
  MaxInt = 2047
  Day = 3
  Times = {1, 3, 4, 6, 7}
  Ends = {4, 7}
  Bytes <- MCBytes
  Quotas <- MCQuotas
  Subs = {s1, s2}
  Tags = {vless, trojan}
  Certs = {c1, c2}
\* A request is answered.
CHECK_DEADLOCK FALSE
INVARIANTS
  LevelsAgree
  PageNeverGoesBack
  UsageMatchesPages
  InboundsShared
  PinIsTheNodes
  DetailIsTrue
