SPECIFICATION FairSpec
CONSTANTS
  r1 = r1
  r2 = r2
  r3 = r3
  Req = {r1, r2, r3}
  Prompt <- MCPrompt
  Stored <- MCStored
  PageSize = 1
  DevicePages = 7
  HostPages = 9
  LoadBackThreshold = 1
  Threshold = 1
  MaxArrivals <- MCMaxArrivals
  MaxFaults = 1
  MaxNewTokens = 0
  Policies <- MCPolicies
INVARIANTS
  PagesOwned
  HiBookkeepingExact
  KVRight
  SchedulerSurvives
PROPERTIES
  ContiguousBackups
  PrefetchEnds
CHECK_DEADLOCK FALSE
