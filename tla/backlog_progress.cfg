SPECIFICATION BacklogSpec
CONSTANTS
  None = None
  p1 = p1  p2 = p2  w1 = w1  w2 = w2  d1 = d1  d2 = d2
  Payments = {p1, p2}
  Workers = {w1, w2}
  Dispatchers = {d1}
  Mortal = {w2}
  MaxCopies = 2
  MaxAckPending = 1
INVARIANT
  IInv
PROPERTIES
  AcceptedCompletes
  StreamDrains
