SPECIFICATION ProgressSpec
CONSTANTS
  None = None
  Payments = {}
  i1 = i1  i2 = i2
  Instances = {i1, i2}
  Reporters <- NoReporters
  MaxVersion <- NoVersions
  MaxTime = 1
  Faults = TRUE
INVARIANT LockIsInUse
PROPERTY PollingResumes
