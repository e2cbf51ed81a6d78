----------------------------- MODULE PaidOrder ------------------------------
(***************************************************************************)
(* What the paid-order handler of the Stripe webhook promises, with no     *)
(* workers, events, leases or retries in it: a captured payment becomes    *)
(* one order; an order that carries a one-time discount is released (its   *)
(* confirmation mailed, its prints ordered) only when it owns the          *)
(* redemption of that discount; an order that lost the discount to another *)
(* one is held and stays unreleased; a customer is mailed once unless the  *)
(* outcome of the first mail is in doubt.  OrderFulfilment implements it.  *)
(***************************************************************************)
EXTENDS Naturals

CONSTANTS
  Payments,     \* captured PaymentIntents, each backed by one checkout attempt
  Matching,     \* those whose event agrees with its checkout attempt
  Slots,        \* (normalized e-mail, code) pairs of one-time discounts
  SlotOf,       \* the slot a payment's attempt used, or NoDiscount
  NoDiscount,
  Nobody

VARIABLES
  recorded,     \* payments that have an order
  redeemer,     \* the payment whose order redeemed each slot, or Nobody
  held,         \* payments whose order is on hold
  mails,        \* confirmation mails a payment's customer got; 2 is "several"
  doubtful,     \* payments whose mail may be out though not marked as sent
  printing      \* payments whose prints Prodigi has accepted

promised == <<recorded, redeemer, held, mails, doubtful, printing>>

Released(p) ==
  /\ p \in recorded
  /\ SlotOf[p] # NoDiscount => redeemer[SlotOf[p]] = p

Init ==
  /\ recorded = {}
  /\ redeemer = [s \in Slots |-> Nobody]
  /\ held = {}
  /\ mails = [p \in Payments |-> 0]
  /\ doubtful = {}
  /\ printing = {}

Record(p) ==
  /\ p \in Matching \ recorded
  /\ recorded' = recorded \union {p}
  /\ UNCHANGED <<redeemer, held, mails, doubtful, printing>>

Redeem(p) ==
  /\ p \in recorded
  /\ SlotOf[p] # NoDiscount
  /\ redeemer[SlotOf[p]] = Nobody
  /\ redeemer' = [redeemer EXCEPT ![SlotOf[p]] = p]
  /\ UNCHANGED <<recorded, held, mails, doubtful, printing>>

Hold(p) ==
  /\ p \in recorded
  /\ SlotOf[p] # NoDiscount
  /\ redeemer[SlotOf[p]] \notin {Nobody, p}
  /\ held' = held \union {p}
  /\ UNCHANGED <<recorded, redeemer, mails, doubtful, printing>>

\* A first mail, or another one when the outcome of an earlier one is in doubt.
Mail(p) ==
  /\ Released(p)
  /\ mails[p] = 0 \/ p \in doubtful
  /\ mails' = [mails EXCEPT ![p] = IF @ = 0 THEN 1 ELSE 2]
  /\ doubtful' \in {doubtful, doubtful \union {p}}
  /\ UNCHANGED <<recorded, redeemer, held, printing>>

Doubt(p) ==
  /\ mails[p] > 0
  /\ doubtful' = doubtful \union {p}
  /\ UNCHANGED <<recorded, redeemer, held, mails, printing>>

Produce(p) ==
  /\ Released(p)
  /\ printing' = printing \union {p}
  /\ UNCHANGED <<recorded, redeemer, held, mails, doubtful>>

Next ==
  \E p \in Payments :
    Record(p) \/ Redeem(p) \/ Hold(p) \/ Mail(p) \/ Doubt(p) \/ Produce(p)

Spec == Init /\ [][Next]_promised
=============================================================================
