SPECIFICATION AuditSpec
CONSTANTS
  None = None
  p1 = p1  p2 = p2
  Payments = {p1, p2}
  Mantissa = 8
  IntBits = 10
  Offered <- OfferedAmounts
  MaxTime = 2
INVARIANTS
  AuditTypeOK
  SummaryMatchesProcessors
  AmountsAreExact
