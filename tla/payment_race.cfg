SPECIFICATION RaceSpec
CONSTANTS
  None = None
  p1 = p1  p2 = p2  w1 = w1  w2 = w2  d1 = d1  d2 = d2
  Payments = {p1}
  Workers = {w1, w2}
  Dispatchers = {d1, d2}
  Mortal = {w1, w2, d1, d2}
  MaxCopies = 2
  MaxAckPending = 1
SYMMETRY Symmetry
INVARIANTS
  TypeOK
  OneProcessor
  CompletedIsRecorded
  RemovedIsCompleted
  WorkersFollowAssignment
  NoLostWork
PROPERTIES
  OnlyHolderEndsLease
  ImplementsLifecycle
  OnlyHolderEndsOutboxClaim
  DecisionsAreFinal
