SPECIFICATION Spec
CONSTANTS
  Instances = {i1}
  Calls = {c1, c2}
  None = None
  Inputs <- TwoConfigs
  Deployments <- Complete
  Exclusions <- NoExclusion
  RouterStart <- StartsUp
  ConfigTTL = 2
  LoadTTL = 2
  FailTTL = 1
  ProbeTimeout = 1
  CredTimeout = 1
  AdminTimeout = 1
  StoreTime = 1
  CloudflareTime = 1
  BodyTime = 1
  LastCall = 3
  MaxTime = 10
  MaxCalls = 3
  MaxTurns = 2
VIEW Ages
SYMMETRY Symmetric
INVARIANTS TypeOK ConfigNotStale
PROPERTIES DeadRouterNotServed LiveRouterNotSkipped
CHECK_DEADLOCK FALSE
