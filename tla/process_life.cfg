SPECIFICATION LifeSpec
CONSTANTS
  worker = worker  election = election
  r1 = r1  r2 = r2
  Loops = {worker}
  Election = election
  Requests = {r1, r2}
  Rivals = {"ours", "theirs"}
  PoolSizes <- SmallPools
INVARIANTS
  LifeTypeOK
  GoroutinesKeepResources
  RequestsKeepPool
  WorksWithAcceptedSettings
PROPERTIES
  CallersAreServed
  RunEnds
