SPECIFICATION Spec
CONSTANTS
  None = None
  Payments = {}
  i1 = i1  i2 = i2
  Instances = {i1, i2}
  Reporters <- OneReporter
  MaxVersion <- TwoDefault
  MaxTime = 1
  Faults = TRUE
INVARIANT TypeOK
INVARIANT QuietCachesAgree
PROPERTY ImplementsLog
