SPECIFICATION FairSpec
CONSTANTS
  w1 = w1 w2 = w2 e1 = e1 e2 = e2 p1 = p1 p2 = p2 welcome = welcome
  Workers = {w1, w2}
  Events = {e1}
  Payments = {p1}
  PaymentOf <- OnePayment
  Matching = {p1}
  Physical = {p1}
  Digital = {}
  Savers = {p1}
  Slots = {welcome}
  SlotOf <- NoSlot
  NoDiscount = NoDiscount
  Nobody = Nobody
  NoEvent = NoEvent
  StaleAfter = 2
  Lease = 1
  RedeliveryGap = 2
  Prompt = TRUE
  MaxCrashes = 1
  MaxErrors = 1
PROPERTIES EveryPaymentFulfilled
