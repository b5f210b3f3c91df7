SPECIFICATION Spec
CONSTANTS
  None = None
  Payments = {}
  i1 = i1  i2 = i2
  Instances = {i1}
  Reporters <- TwoReporters
  MaxVersion <- ThreeDefault
  MaxTime = 3
  Faults = FALSE
PROPERTY OlderPollNeverRestores
