SPECIFICATION ProgressSpec
CONSTANTS
  None = None
  p1 = p1  p2 = p2  w1 = w1  w2 = w2  d1 = d1  d2 = d2
  Payments = {p1}
  Workers = {w1}
  Dispatchers = {d1, d2}
  Mortal = {d2}
  MaxCopies = 1
  MaxAckPending = 1
PROPERTIES
  AcceptedCompletes
  OutboxDrains
