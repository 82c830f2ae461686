SPECIFICATION FairSpec
CONSTANTS
  api_key = api_key
  sub_token = sub_token
  sub1 = sub1
  sub2 = sub2
  sub3 = sub3
  sample1 = sample1
  sample2 = sample2
  Columns = {api_key, sub_token}
  Subs = {sub1, sub2, sub3}
  Records = {sample1, sample2}
  MaxOpens = 4
  MaxFaults = 2
  MaxCrashes = 2
\* The starts are bounded.
CHECK_DEADLOCK FALSE
INVARIANTS
  UpToDate
  RecordsKept
PROPERTIES
  TokensStable
  AlwaysOpens
  OpenEnds
