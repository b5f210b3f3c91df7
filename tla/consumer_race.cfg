SPECIFICATION LifeSpec
CONSTANTS
  worker = worker  election = election
  r1 = r1  r2 = r2
  Loops = {worker}
  Election = election
  Requests = {r1}
  Rivals = {"theirs"}
  PoolSizes = {2}
INVARIANT
  WorksWithOwnSettings
