SPECIFICATION Spec
CONSTANTS
  s1 = s1 c1 = c1 r1 = r1
  MaxNumber = 2
  Total = 2
  Sessions = {s1}
  Receipts = {c1}
  Requests = {r1}
  MaxStripe = 2
  MaxPending = 2
  MaxReversed = 1
  None = None
INVARIANTS TypeOK NeverOverpaid ReversalsLock
PROPERTIES RevisionForward
CHECK_DEADLOCK FALSE
