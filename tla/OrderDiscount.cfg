SPECIFICATION Spec
CONSTANTS
  w1 = w1 w2 = w2 e1 = e1 e2 = e2 p1 = p1 p2 = p2 welcome = welcome
  Workers = {w1, w2}
  Events = {e1, e2}
  Payments = {p1, p2}
  PaymentOf <- TwoPayments
  Matching = {p1, p2}
  Physical = {}
  Digital = {p1}
  Savers = {}
  Slots = {welcome}
  SlotOf <- SharedSlot
  NoDiscount = NoDiscount
  Nobody = Nobody
  NoEvent = NoEvent
  StaleAfter = 1
  Lease = 1
  RedeliveryGap = 0
  Prompt = FALSE
  MaxCrashes = 1
  MaxErrors = 1
SYMMETRY Restarts
INVARIANTS TypeOK DiscountReleasesOneOrder MailOnce
PROPERTIES KeepsPromise
