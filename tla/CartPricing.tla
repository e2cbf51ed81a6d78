---------------------------- MODULE CartPricing ----------------------------
(***************************************************************************)
(* What a checkout costs: canonicalize_cart, _resolve_cart_pricing,        *)
(* calculate_physical_shipping_quote, evaluate_discount, and the check of  *)
(* the stored snapshot at payment time.  A cart lists one art print, twice *)
(* if it likes, and one download; amounts are cents.  Further products     *)
(* would only add lines of these two kinds.                                *)
(***************************************************************************)
EXTENDS Naturals

CONSTANTS
  None,
  MaxItemQuantity

ASSUME PricingAssumption == MaxItemQuantity \in Nat \ {0} /\ None \notin Nat

\* A requested cart: quantities of the lines, and whether a code is given.
Lines == {"print", "again", "photo"}
RawCart == [print : Nat \union {None}, again : Nat \union {None},
            photo : Nat \union {None}, code : BOOLEAN]

\* What a quote reads: prices (None: inactive, or without a file), the cost of
\* sending one print (None: no rule), the subtotal from which sending is free
\* (None: disabled, or not for this country) and the discount of the code
\* (None: disabled, another code, or used for this e-mail address).
Catalogue == [print : Nat \union {None}, photo : Nat \union {None},
              shipping : Nat \union {None}, freeFrom : Nat \union {None},
              percent : (0..100) \union {None}]

Listed(raw) == {l \in Lines : raw[l] # None}
Pieces(raw, l) == IF raw[l] = None THEN 0 ELSE raw[l]
Prints(raw) == Pieces(raw, "print") + Pieces(raw, "again")

WellFormed(raw) ==
  /\ Listed(raw) # {}
  /\ \A l \in Listed(raw) : raw[l] \in 1..MaxItemQuantity
  /\ Prints(raw) <= MaxItemQuantity

\* Lines of the same print are added up; a download is one piece.
Canonical(raw) ==
  [i \in (IF Prints(raw) > 0 THEN {"print"} ELSE {})
           \union (IF raw.photo # None THEN {"photo"} ELSE {})
     |-> IF i = "print" THEN Prints(raw) ELSE 1]

Snapshot(cart, c) ==
  [i \in DOMAIN cart |->
     [quantity |-> cart[i], unit |-> c[i], total |-> c[i] * cart[i]]]

Total(pricing, i) == IF i \in DOMAIN pricing THEN pricing[i].total ELSE 0
Subtotal(pricing) == Total(pricing, "print") + Total(pricing, "photo")

FreeShipping(prints, c) ==
  prints > 0 /\ c.freeFrom # None /\ prints >= c.freeFrom

Shipping(cart, prints, c) ==
  IF "print" \notin DOMAIN cart \/ FreeShipping(prints, c)
  THEN 0 ELSE c.shipping * cart["print"]

\* A percentage of the prints, to the cent, ROUND_HALF_UP.
Discount(prints, percent) == (2 * prints * percent + 100) \div 200

\* Every product is active and can be delivered.
Available(cart, c) == \A i \in DOMAIN cart : c[i] # None

Sendable(cart, prints, c) ==
  "print" \in DOMAIN cart => FreeShipping(prints, c) \/ c.shipping # None

\* A code that does not apply refuses the request.
CodeApplies(prints, c) == prints > 0 /\ c.percent # None

Quotable(raw, c) ==
  LET cart == Canonical(raw)
      prints == Total(Snapshot(cart, c), "print")
  IN  /\ WellFormed(raw) /\ Available(cart, c)
      /\ Sendable(cart, prints, c)
      /\ raw.code => CodeApplies(prints, c)

\* What the fingerprint covers and the attempt stores.
Quote(raw, c) ==
  LET cart == Canonical(raw)
      pricing == Snapshot(cart, c)
      prints == Total(pricing, "print")
      shipping == Shipping(cart, prints, c)
      discount == IF raw.code THEN Discount(prints, c.percent) ELSE 0
  IN  [cart |-> cart, pricing |-> pricing, shipping |-> shipping,
       code |-> raw.code, discount |-> discount,
       amount |-> Subtotal(pricing) + shipping - discount]

\* _validate_checkout_attempt_pricing on the snapshots of an attempt.
PricingHolds(q) ==
  /\ DOMAIN q.pricing = DOMAIN q.cart
  /\ \A i \in DOMAIN q.cart :
       LET line == q.pricing[i]
       IN  /\ line.quantity = q.cart[i] /\ line.quantity >= 1
           /\ line.unit >= 0 /\ line.total = line.unit * line.quantity
  /\ q.amount = Subtotal(q.pricing) + q.shipping - q.discount
  /\ q.amount >= 0
=============================================================================
