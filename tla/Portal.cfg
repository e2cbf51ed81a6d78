SPECIFICATION Spec
CONSTANTS
  p1 = p1  q1 = q1  k1 = k1
  Recipients = {p1}
  Requests = {q1}
  Keys = {k1}
  MaxVersion = 2
  None = None
CONSTRAINT FormIsCurrent
INVARIANTS TypeOK StoppedForGood AnsweredWasReleased OneMailPerKey
PROPERTIES ClosedStaysClosed
CHECK_DEADLOCK FALSE
