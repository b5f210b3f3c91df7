SPECIFICATION LeaseSpec
CONSTANTS
  None = None
  w1 = w1  w2 = w2  w3 = w3
  Workers = {w1, w2, w3}
  Configurations <- SomeConfigurations
  ProcessingRetryDelay = 6
  Statement = 1
  MaxFaults = 3
SYMMETRY Symmetry
INVARIANTS
  LeaseTypeOK
  LeaseOutlivesAttempt
  OneDeliveryAtATime
  TakeoverInTime
