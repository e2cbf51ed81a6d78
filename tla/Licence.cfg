SPECIFICATION Spec
CONSTANTS
  t1 = t1  t2 = t2  h1 = h1
  Terms = {t1, t2}
  FirstTerms = t1
  MaxVersion = 2
  Handlers = {h1}
  MaxTokens = 2
  FormStatuses = {"PENDING"}
  MaxFaults = 1
  None = None
INVARIANTS TypeOK ActiveIsAgreed HandledIsDelivered MailsAccounted
CHECK_DEADLOCK FALSE
