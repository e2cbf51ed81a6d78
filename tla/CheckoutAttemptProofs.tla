----------------------- MODULE CheckoutAttemptProofs -----------------------
(***************************************************************************)
(* Theorems of CheckoutAttempt and CartPricing, for any requests, keys,    *)
(* carts, prices, attempts and intents.                                    *)
(***************************************************************************)
EXTENDS CheckoutAttempt, TLAPS

USE PricingAssumption

\* The discount of a percentage is never more than what it is a percentage of.
LEMMA DiscountBounded ==
  ASSUME NEW prints \in Nat, NEW percent \in 0..100
  PROVE  Discount(prints, percent) \in 0..prints
<1> DEFINE part == prints * percent
<1>1. part \in Nat
  OBVIOUS
<1>2. prints * (100 - percent) \in Nat
  OBVIOUS
<1>3. part <= 100 * prints
  BY <1>2
<1>4. 2 * prints * percent = 2 * part
  OBVIOUS
<1> HIDE DEF part
<1>5. (2 * part + 100) \div 200 \in 0..prints
  BY <1>1, <1>3
<1> QED BY <1>4, <1>5 DEF Discount

\* What a client asked for, once it is accepted: at least one piece per item.
LEMMA CanonicalCart ==
  ASSUME NEW raw \in RawCart, WellFormed(raw)
  PROVE  /\ DOMAIN Canonical(raw) \subseteq {"print", "photo"}
         /\ \A i \in DOMAIN Canonical(raw) : Canonical(raw)[i] \in Nat \ {0}
<1>1. Prints(raw) \in Nat
  BY DEF RawCart, Prints, Pieces
<1> DEFINE items == (IF Prints(raw) > 0 THEN {"print"} ELSE {})
                      \union (IF raw.photo # None THEN {"photo"} ELSE {})
<1>2. items \subseteq {"print", "photo"} /\ ("print" \in items => Prints(raw) > 0)
  OBVIOUS
<1>3. Canonical(raw) = [i \in items |-> IF i = "print" THEN Prints(raw) ELSE 1]
  BY DEF Canonical
<1> HIDE DEF items
<1> QED BY <1>1, <1>2, <1>3

\* A quoted snapshot passes the check the webhook makes at payment time.
LEMMA QuoteHolds ==
  ASSUME NEW raw \in RawCart, NEW c \in Catalogue, Quotable(raw, c)
  PROVE  PricingHolds(Quote(raw, c)) /\ Quote(raw, c).amount \in Nat
<1> DEFINE cart == Canonical(raw)
           pricing == Snapshot(cart, c)
           prints == Total(pricing, "print")
           shipping == Shipping(cart, prints, c)
           discount == IF raw.code THEN Discount(prints, c.percent) ELSE 0
<1>1. /\ DOMAIN cart \subseteq {"print", "photo"}
      /\ \A i \in DOMAIN cart : cart[i] \in Nat \ {0}
  BY CanonicalCart DEF Quotable
<1>2. \A i \in DOMAIN cart : c[i] \in Nat
  BY <1>1 DEF Quotable, Available, Catalogue
<1>3. /\ DOMAIN pricing = DOMAIN cart
      /\ \A i \in DOMAIN cart :
           /\ pricing[i].quantity = cart[i] /\ pricing[i].unit = c[i]
           /\ pricing[i].total = c[i] * cart[i]
  BY DEF Snapshot
<1>4. /\ \A i \in DOMAIN cart : pricing[i].total \in Nat
      /\ prints \in Nat /\ Total(pricing, "photo") \in Nat
  BY <1>1, <1>2, <1>3 DEF Total
<1>5. shipping \in Nat
  BY <1>1, <1>4 DEF Shipping, Quotable, Sendable, Catalogue
<1>6. discount \in 0..prints
  <2>1. CASE raw.code
    <3>1. c.percent \in 0..100
      BY <2>1 DEF Quotable, CodeApplies, Catalogue
    <3> HIDE DEF prints
    <3>2. Discount(prints, c.percent) \in 0..prints
      BY <1>4, <3>1, DiscountBounded
    <3> QED BY <2>1, <3>2
  <2>2. CASE ~raw.code
    <3> HIDE DEF prints
    <3> QED BY <2>2, <1>4
  <2> QED BY <2>1, <2>2
<1>7. Subtotal(pricing) \in Nat /\ prints <= Subtotal(pricing)
  BY <1>4 DEF Subtotal
<1>8. Quote(raw, c) = [cart |-> cart, pricing |-> pricing, shipping |-> shipping,
                       code |-> raw.code, discount |-> discount,
                       amount |-> Subtotal(pricing) + shipping - discount]
  BY DEF Quote
<1> HIDE DEF cart, pricing, prints, shipping, discount
<1>9. prints \in Nat /\ Subtotal(pricing) + shipping - discount \in Nat
  BY <1>4, <1>5, <1>6, <1>7
<1> DEFINE q == Quote(raw, c)
<1>10. /\ q.cart = cart /\ q.pricing = pricing /\ q.shipping = shipping
       /\ q.discount = discount
       /\ q.amount = Subtotal(pricing) + shipping - discount
  BY <1>8
<1> HIDE DEF q
<1>11. PricingHolds(q) /\ q.amount \in Nat
  BY <1>1, <1>2, <1>3, <1>9, <1>10 DEF PricingHolds
<1> QED BY <1>11 DEF q

\* A checkout key has one attempt; a row that is gone was purged after it expired.
RowInv ==
  /\ \A a, b \in Row :
       Exists(a) /\ Exists(b) /\ attempts[a].key = attempts[b].key => a = b
  /\ \A a \in Row : Exists(a) => a \in used
  /\ \A a \in used : ~Exists(a) => a \in expired

\* An intent charges a row, and its price as long as the row exists.  The intent
\* of a key is of the attempt with that key; the intent of an attempt is its own.
IntentInv ==
  /\ \A i \in Intent : intents[i] # None =>
       LET a == intents[i].row
       IN  a \in used /\ (Exists(a) => attempts[a].quote.amount = intents[i].amount)
  /\ \A k \in Keys : LET i == remembered[k] IN i # None =>
       intents[i] # None /\ (Exists(intents[i].row) => attempts[intents[i].row].key = k)
  /\ \A a \in Row : Exists(a) /\ attempts[a].intent # None =>
       intents[attempts[a].intent] # None /\ intents[attempts[a].intent].row = a
  /\ \A i \in paid : intents[i] # None

\* What was given out: its charge, its attempt, and no other intent for it.
AnswerInv ==
  \A a \in answered :
    LET charge == intents[a[2]]
    IN  /\ charge # None /\ charge.amount = a[1].amount
        /\ Exists(charge.row) =>
             attempts[charge.row].quote = a[1] /\ attempts[charge.row].intent = a[2]
        /\ \A b \in answered : intents[b[2]].row = charge.row => b[2] = a[2]

\* A row can hold, and its clients can have, no other intent than i.
Settled(a, i) ==
  /\ Exists(a) => attempts[a].intent \in {None, i}
  /\ \A b \in answered : intents[b[2]].row = a => b[2] = i

\* The intent a request past its attempt will answer with.
Working(r) == pc[r] \in {"create", "store", "retrieve"}
Bound(r) == IF pc[r] = "create" THEN remembered[key[r]] ELSE intent[r]

\* A request that works on an attempt knows its key and quote, and the intent it
\* will answer with is the only one for the attempt, even if it is purged by now.
RequestOK(r) ==
  /\ pc[r] # "idle" => key[r] # None /\ quote[r] # None
  /\ Working(r) =>
       /\ row[r] \in used
       /\ Exists(row[r]) => attempts[row[r]].key = key[r] /\ attempts[row[r]].quote = quote[r]
       /\ Settled(row[r], Bound(r))
  /\ pc[r] \in {"store", "retrieve"} => intent[r] # None /\ intents[intent[r]] = ChargeOf(r)
  /\ pc[r] = "store" => remembered[key[r]] = intent[r]
  /\ pc[r] = "retrieve" /\ Exists(row[r]) => attempts[row[r]].intent = intent[r]

\* Requests on one attempt have its key; none is behind one that retrieves.
PairOK(r, s) ==
  Working(r) /\ Working(s) /\ row[r] = row[s] =>
    key[r] = key[s] /\ (pc[s] = "retrieve" => Bound(r) = intent[s])

RequestInv ==
  \A r \in Requests : RequestOK(r) /\ (\A s \in Requests : PairOK(r, s))

CheckoutInv == TypeOK /\ RowInv /\ IntentInv /\ AnswerInv /\ RequestInv

USE CheckoutAssumption

\* Every quote has an amount and passes the check made at payment time.
LEMMA QuotesHold == \A q \in Quotes : q.amount \in Nat /\ PricingHolds(q)
  BY QuoteHolds DEF Quotes

\* The invariant holds at first.
LEMMA InitHolds == Init => CheckoutInv
<1> SUFFICES ASSUME Init PROVE CheckoutInv
  OBVIOUS
<1> USE DEF Init, Exists
<1>1. TypeOK
  BY DEF TypeOK
<1>2. RowInv /\ IntentInv
  BY DEF RowInv, IntentInv
<1>3. AnswerInv /\ RequestInv
  BY DEF AnswerInv, RequestInv, RequestOK, PairOK, Working
<1> QED BY <1>1, <1>2, <1>3 DEF CheckoutInv

\* A step that leaves rows, intents and answers alone keeps what is said of them.
LEMMA FrameStep ==
  ASSUME CheckoutInv, UNCHANGED <<rowVars, stripeVars, answered>>
  PROVE  RowInv' /\ IntentInv' /\ AnswerInv'
<1>1. RowInv'
  BY DEF CheckoutInv, RowInv, Exists, rowVars
<1>2. IntentInv'
  BY DEF CheckoutInv, IntentInv, Exists, rowVars, stripeVars
<1>3. AnswerInv'
  BY DEF CheckoutInv, AnswerInv, Exists, rowVars, stripeVars
<1> QED BY <1>1, <1>2, <1>3

\* Where a request is, with all it holds.
Local(r) == <<pc[r], key[r], quote[r], row[r], intent[r]>>

\* Such a step of one request, or none, keeps what is said of the others.
LEMMA OthersStep ==
  ASSUME CheckoutInv, UNCHANGED <<rowVars, stripeVars, answered>>,
         NEW s \in Requests, Local(s)' = Local(s)
  PROVE  /\ RequestOK(s)'
         /\ \A t \in Requests : Local(t)' = Local(t) => PairOK(s, t)' /\ PairOK(t, s)'
<1> USE DEF Local, rowVars, stripeVars, Exists
<1>1. RequestOK(s)'
  BY DEF CheckoutInv, RequestInv, RequestOK, Working, Bound, Settled, ChargeOf
<1>2. ASSUME NEW t \in Requests, Local(t)' = Local(t)
      PROVE  PairOK(s, t)' /\ PairOK(t, s)'
  BY <1>2 DEF CheckoutInv, RequestInv, PairOK, Working, Bound
<1> QED BY <1>1, <1>2

\* A request that does not work on an attempt is in nobody's way.
LEMMA NotWorking ==
  ASSUME NEW r \in Requests, ~Working(r)'
  PROVE  \A s \in Requests : PairOK(r, s)' /\ PairOK(s, r)'
  BY DEF PairOK

LEMMA PriceStep ==
  ASSUME CheckoutInv, NEW r \in Requests, NEW k \in Keys,
         NEW raw \in Carts, NEW c \in Catalogues, Price(r, k, raw, c)
  PROVE  CheckoutInv'
<1>1. Quote(raw, c) \in Quotes
  <2> DEFINE x == <<raw, c>>
  <2>1. x \in {y \in Carts \X Catalogues : Quotable(y[1], y[2])}
    BY DEF Price
  <2>2. Quote(x[1], x[2]) = Quote(raw, c)
    OBVIOUS
  <2> QED BY <2>1, <2>2, Zenon DEF Quotes
<1>2. TypeOK'
  BY <1>1 DEF CheckoutInv, TypeOK, Price, Goto, rowVars, stripeVars
<1>3. RowInv' /\ IntentInv' /\ AnswerInv'
  BY FrameStep DEF Price
<1>4. \A s \in Requests \ {r} : Local(s)' = Local(s)
  BY DEF CheckoutInv, TypeOK, Price, Goto, Local
<1>5. pc'[r] = "attempt" /\ key'[r] # None /\ quote'[r] # None
  BY <1>1 DEF CheckoutInv, TypeOK, Price, Goto
<1>6. RequestOK(r)' /\ ~Working(r)'
  BY <1>5 DEF RequestOK, Working
<1>7. RequestInv'
  BY <1>4, <1>6, OthersStep, NotWorking DEF RequestInv, Price
<1> QED BY <1>2, <1>3, <1>7 DEF CheckoutInv

\* A request that gives up: whatever it did before, it works on nothing.
LEMMA LeaveStep ==
  ASSUME TypeOK, NEW r \in Requests, Leave(r)
  PROVE  /\ ~Working(r)' /\ RequestOK(r)'
         /\ \A s \in Requests \ {r} : Local(s)' = Local(s)
         /\ pc' \in [Requests -> {"idle", "attempt", "create", "store", "retrieve"}]
         /\ key' \in [Requests -> Keys \union {None}]
         /\ quote' \in [Requests -> Quotes \union {None}]
         /\ row' \in [Requests -> Row \union {None}]
         /\ intent' \in [Requests -> Intent \union {None}]
  BY DEF TypeOK, Leave, Goto, RequestOK, Working, Local

LEMMA GetAttemptStep ==
  ASSUME CheckoutInv, NEW r \in Requests, GetAttempt(r)
  PROVE  CheckoutInv'
<1>0. TypeOK /\ RowInv /\ IntentInv /\ AnswerInv /\ RequestInv
  BY DEF CheckoutInv
<1>1. RowInv' /\ IntentInv' /\ AnswerInv' /\ UNCHANGED <<rowVars, stripeVars, answered>>
  BY FrameStep DEF GetAttempt
<1>2. PICK a \in RowOf(key[r]) :
         IF SameRequest(r, a)
         THEN /\ row' = [row EXCEPT ![r] = a]
              /\ intent' = [intent EXCEPT ![r] = attempts[a].intent]
              /\ Goto(r, IF attempts[a].intent = None THEN "create" ELSE "retrieve")
              /\ UNCHANGED <<key, quote>>
         ELSE Leave(r)
  BY DEF GetAttempt
<1>3. CASE ~SameRequest(r, a)
  <2>1. Leave(r)
    BY <1>2, <1>3
  <2>2. TypeOK'
    BY <1>0, <1>1, <2>1, LeaveStep DEF TypeOK, rowVars, stripeVars
  <2>3. RequestInv'
    BY <1>0, <1>1, <2>1, LeaveStep, OthersStep, NotWorking DEF RequestInv
  <2> QED BY <1>1, <2>2, <2>3 DEF CheckoutInv
<1>4. CASE SameRequest(r, a)
  <2>1. /\ row' = [row EXCEPT ![r] = a]
        /\ intent' = [intent EXCEPT ![r] = attempts[a].intent]
        /\ Goto(r, IF attempts[a].intent = None THEN "create" ELSE "retrieve")
        /\ UNCHANGED <<key, quote>>
    BY <1>2, <1>4
  <2>2. /\ a \in Row /\ Exists(a) /\ attempts[a] \in Attempts /\ a \in used
        /\ attempts[a].key = key[r] /\ attempts[a].quote = quote[r]
        /\ key[r] # None /\ quote[r] # None
    BY <1>0, <1>4 DEF RowOf, TypeOK, Exists, SameRequest, RowInv, GetAttempt, RequestInv, RequestOK
  <2>3. TypeOK'
    BY <1>0, <1>1, <2>1, <2>2 DEF TypeOK, Goto, rowVars, stripeVars, Attempts
  <2>4. \A s \in Requests \ {r} : Local(s)' = Local(s)
    BY <1>0, <2>1 DEF TypeOK, Goto, Local
  <2>5. /\ key'[r] = key[r] /\ quote'[r] = quote[r] /\ row'[r] = a
        /\ intent'[r] = attempts[a].intent
        /\ pc'[r] = IF attempts[a].intent = None THEN "create" ELSE "retrieve"
    BY <1>0, <2>1 DEF TypeOK, Goto
  <2>6. /\ attempts'[a] = attempts[a] /\ Exists(a)' /\ used' = used
        /\ remembered' = remembered /\ intents' = intents /\ answered' = answered
    BY <1>1, <2>2 DEF Exists, rowVars, stripeVars
  <2>7. RequestOK(r)'
    <3>1. CASE attempts[a].intent = None
      <4>1. \A b \in answered : intents[b[2]].row # a
        BY <1>0, <2>2, <3>1 DEF AnswerInv, TypeOK
      <4> QED BY <1>0, <2>2, <2>5, <2>6, <3>1, <4>1 DEF RequestOK, Working, Settled, Exists
    <3>2. CASE attempts[a].intent # None
      <4>1. /\ intents[attempts[a].intent] \in Charges
            /\ intents[attempts[a].intent].row = a
            /\ intents[attempts[a].intent].amount = quote[r].amount
        BY <1>0, <2>2, <3>2 DEF IntentInv, TypeOK, Attempts
      <4>2. intents[attempts[a].intent] = [row |-> a, amount |-> quote[r].amount]
        BY <4>1 DEF Charges
      <4>3. \A b \in answered : intents[b[2]].row = a => b[2] = attempts[a].intent
        BY <1>0, <2>2 DEF AnswerInv, TypeOK
      <4> QED BY <1>0, <2>2, <2>5, <2>6, <3>2, <4>2, <4>3
              DEF RequestOK, Working, Settled, Exists, Bound, ChargeOf
    <3> QED BY <3>1, <3>2
  <2>8. ASSUME NEW s \in Requests \ {r}
        PROVE  PairOK(r, s)' /\ PairOK(s, r)'
    <3>1. Local(s)' = Local(s) /\ RequestOK(s)
      BY <1>0, <2>4 DEF RequestInv
    <3> QED BY <2>2, <2>5, <2>6, <3>1 DEF PairOK, RequestOK, Working, Local, Bound, Settled, Exists
  <2>9. RequestInv'
    <3>1. PairOK(r, r)'
      BY <2>5 DEF PairOK, Bound
    <3> QED BY <1>1, <2>4, <2>7, <2>8, <3>1, OthersStep DEF RequestInv
  <2> QED BY <1>1, <2>3, <2>9 DEF CheckoutInv
<1> QED BY <1>3, <1>4

LEMMA CreateAttemptStep ==
  ASSUME CheckoutInv, NEW r \in Requests, CreateAttempt(r)
  PROVE  CheckoutInv'
<1>0. TypeOK /\ RowInv /\ IntentInv /\ AnswerInv /\ RequestInv
  BY DEF CheckoutInv
<1> DEFINE new == [key |-> key[r], quote |-> quote[r], intent |-> None]
<1>1. PICK a \in Row \ used :
         /\ attempts' = [attempts EXCEPT ![a] = new]
         /\ used' = used \union {a}
         /\ row' = [row EXCEPT ![r] = a]
  BY DEF CreateAttempt
<1>2. /\ pc[r] = "attempt" /\ RowOf(key[r]) = {} /\ Goto(r, "create")
      /\ UNCHANGED <<expired, ordered, stripeVars, answered, key, quote, intent>>
  BY DEF CreateAttempt
<1>3. new \in Attempts /\ key[r] \in Keys
  BY <1>0, <1>2 DEF RequestInv, RequestOK, TypeOK, Attempts
<1>4. /\ ~Exists(a) /\ Exists(a)' /\ attempts'[a] = new
      /\ \A b \in Row \ {a} : attempts'[b] = attempts[b] /\ (Exists(b)' <=> Exists(b))
  BY <1>0, <1>1, <1>3 DEF RowInv, Exists, TypeOK
<1>5. TypeOK'
  BY <1>0, <1>1, <1>2, <1>3 DEF TypeOK, Goto, stripeVars
<1>6. RowInv'
  <2>1. \A b \in Row : Exists(b) => attempts[b].key # key[r]
    BY <1>2 DEF RowOf
  <2>2. \A b, c \in Row : Exists(b)' /\ Exists(c)' /\ attempts'[b].key = attempts'[c].key => b = c
    BY <1>0, <1>4, <2>1 DEF RowInv
  <2>3. \A b \in Row : Exists(b)' => b \in used'
    BY <1>0, <1>1, <1>4 DEF RowInv
  <2>4. \A b \in used' : ~Exists(b)' => b \in expired'
    BY <1>0, <1>1, <1>2, <1>4 DEF RowInv, TypeOK
  <2> QED BY <2>2, <2>3, <2>4 DEF RowInv, Exists
<1>7. IntentInv'
  <2>1. intents' = intents /\ remembered' = remembered /\ paid' = paid
    BY <1>2 DEF stripeVars
  <2>2. \A i \in Intent : intents[i] # None => intents[i].row \in Row /\ intents[i].row # a
    BY <1>0, <1>1 DEF IntentInv, TypeOK, Charges
  <2> QED BY <1>0, <1>1, <1>4, <2>1, <2>2 DEF IntentInv, TypeOK
<1>8. AnswerInv' /\ (\A b \in answered : intents[b[2]].row \in Row \ {a})
  <2>1. \A b \in answered : intents[b[2]].row \in Row \ {a}
    BY <1>0, <1>1 DEF AnswerInv, IntentInv, TypeOK, Charges
  <2> QED BY <1>0, <1>2, <1>4, <2>1 DEF AnswerInv, stripeVars
<1>9. ASSUME NEW s \in Requests \ {r}
      PROVE  /\ Local(s)' = Local(s) /\ (Working(s) => row[s] \in Row \ {a})
             /\ RequestOK(s)'
  <2>1. Local(s)' = Local(s)
    BY <1>0, <1>1, <1>2 DEF Local, TypeOK, Goto
  <2>2. RequestOK(s) /\ (Working(s) => row[s] \in Row \ {a})
    BY <1>0, <1>1 DEF RequestInv, RequestOK, TypeOK
  <2>3. RequestOK(s)'
    BY <1>1, <1>2, <1>4, <2>1, <2>2
       DEF RequestOK, Working, Settled, Bound, ChargeOf, stripeVars, Local
  <2> QED BY <2>1, <2>2, <2>3
<1>10. RequestOK(r)' /\ row'[r] = a /\ pc'[r] = "create"
  <2>1. row'[r] = a /\ pc'[r] = "create"
    BY <1>0, <1>1, <1>2 DEF Goto, TypeOK
  <2>2. key[r] # None /\ quote[r] # None
    BY <1>0, <1>2 DEF RequestInv, RequestOK
  <2> QED BY <1>1, <1>2, <1>4, <1>8, <2>1, <2>2 DEF RequestOK, Working, Settled, stripeVars
<1>11. RequestInv'
  <2>1. \A s, t \in Requests \ {r} : PairOK(s, t)'
    BY <1>0, <1>2, <1>9 DEF RequestInv, PairOK, Working, Bound, Local, stripeVars
  <2>2. \A s \in Requests \ {r} : PairOK(r, s)' /\ PairOK(s, r)'
    BY <1>9, <1>10 DEF PairOK, Working, Local
  <2>3. PairOK(r, r)'
    BY <1>10 DEF PairOK
  <2> QED BY <1>9, <1>10, <2>1, <2>2, <2>3 DEF RequestInv
<1> QED BY <1>5, <1>6, <1>7, <1>8, <1>11 DEF CheckoutInv

\* What Stripe does for a request that creates an intent, whether or not the
\* request learns of it: a remembered intent is returned, or a new one is made.
LEMMA ChargeStep ==
  ASSUME CheckoutInv, NEW r \in Requests, pc[r] = "create",
         NEW i \in IntentFor(key[r]), Charge(r, i),
         UNCHANGED <<rowVars, paid, answered>>
  PROVE  /\ intents' \in [Intent -> Charges \union {None}]
         /\ remembered' \in [Keys -> Intent \union {None}]
         /\ RowInv' /\ IntentInv' /\ AnswerInv'
         /\ i \in Intent /\ intents'[i] = ChargeOf(r) /\ remembered'[key[r]] = i
         /\ \A s \in Requests : Local(s)' = Local(s) =>
              /\ RequestOK(s)'
              /\ \A t \in Requests : Local(t)' = Local(t) => PairOK(s, t)'
<1>0. TypeOK /\ RowInv /\ IntentInv /\ AnswerInv /\ RequestInv
  BY DEF CheckoutInv
<1>1. /\ key[r] \in Keys /\ quote[r] \in Quotes /\ row[r] \in used /\ row[r] \in Row
      /\ RequestOK(r)
  BY <1>0 DEF RequestInv, RequestOK, Working, TypeOK
<1>2. i \in Intent /\ i # None
  BY <1>0, <1>1 DEF IntentFor, TypeOK
<1>3. ChargeOf(r) \in Charges
  BY <1>1, QuotesHold DEF ChargeOf, Charges
<1>4. /\ intents' = [intents EXCEPT ![i] = ChargeOf(r)]
      /\ remembered' = [remembered EXCEPT ![key[r]] = i]
  BY DEF Charge
<1>5. /\ intents' \in [Intent -> Charges \union {None}]
      /\ remembered' \in [Keys -> Intent \union {None}]
      /\ intents'[i] = ChargeOf(r) /\ remembered'[key[r]] = i
  BY <1>0, <1>1, <1>2, <1>3, <1>4 DEF TypeOK
<1>6. CASE remembered[key[r]] # None
  <2>1. remembered[key[r]] = i /\ intents[i] = ChargeOf(r)
    BY <1>0, <1>1, <1>6 DEF IntentFor, IntentInv, Charge
  <2>2. remembered' = remembered /\ intents' = intents
    BY <1>0, <1>1, <1>2, <1>4, <2>1 DEF TypeOK
  <2>3. UNCHANGED <<rowVars, stripeVars, answered>>
    BY <2>2 DEF stripeVars
  <2> QED BY <1>2, <1>5, <2>3, FrameStep, OthersStep
<1>7. CASE remembered[key[r]] = None
  <2>1. intents[i] = None
    BY <1>7 DEF IntentFor
  <2>2. /\ \A j \in Intent \ {i} : intents'[j] = intents[j]
        /\ \A k \in Keys \ {key[r]} : remembered'[k] = remembered[k]
    BY <1>0, <1>4 DEF TypeOK
  <2>3. RowInv' /\ (\A a : Exists(a)' <=> Exists(a)) /\ attempts' = attempts /\ used' = used
    BY <1>0 DEF RowInv, Exists, rowVars
  <2>4. ChargeOf(r).row = row[r] /\ ChargeOf(r).amount = quote[r].amount /\ ChargeOf(r) # None
    BY <1>3 DEF ChargeOf
  <2>5. IntentInv'
    <3>1. \A j \in Intent : intents'[j] # None =>
            LET a == intents'[j].row
            IN  a \in used /\ (Exists(a) => attempts[a].quote.amount = intents'[j].amount)
      BY <1>0, <1>1, <1>5, <2>2, <2>4 DEF IntentInv, RequestOK, Working
    <3>2. \A k \in Keys : LET j == remembered'[k] IN j # None =>
            intents'[j] # None /\ (Exists(intents'[j].row) => attempts[intents'[j].row].key = k)
      BY <1>0, <1>1, <1>2, <1>5, <2>1, <2>2, <2>4 DEF IntentInv, RequestOK, Working, TypeOK
    <3>3. \A a \in Row : Exists(a) /\ attempts[a].intent # None =>
            intents'[attempts[a].intent] # None /\ intents'[attempts[a].intent].row = a
      BY <1>0, <2>1, <2>2 DEF IntentInv, TypeOK, Attempts, Exists
    <3>4. \A j \in paid : intents'[j] # None
      BY <1>0, <1>5, <2>2, <2>4 DEF IntentInv, TypeOK
    <3> QED BY <2>3, <3>1, <3>2, <3>3, <3>4 DEF IntentInv
  <2>6. \A b \in answered : b[2] \in Intent \ {i} /\ intents'[b[2]] = intents[b[2]]
    BY <1>0, <2>1, <2>2 DEF AnswerInv, TypeOK
  <2>7. AnswerInv'
    BY <1>0, <2>3, <2>6 DEF AnswerInv
  <2>8. ASSUME NEW s \in Requests, Local(s)' = Local(s)
        PROVE  RequestOK(s)'
    <3>1. RequestOK(s) /\ key[s] \in Keys \union {None} /\ intent[s] \in Intent \union {None}
      BY <1>0 DEF RequestInv, TypeOK
    <3>2. pc[s] \in {"store", "retrieve"} => intent[s] \in Intent \ {i}
      <4>1. ASSUME pc[s] \in {"store", "retrieve"} PROVE ChargeOf(s) # None
        <5>1. row[s] \in Row /\ quote[s] \in Quotes
          BY <1>0, <4>1 DEF RequestInv, RequestOK, Working, TypeOK
        <5> QED BY <5>1, QuotesHold DEF ChargeOf, Charges
      <4> QED BY <2>1, <3>1, <4>1 DEF RequestOK
    <3>3. pc[s] = "store" => key[s] # key[r]
      BY <1>7, <3>1 DEF RequestOK
    <3>4. Working(s) => Settled(row[s], Bound(s))'
      <4>1. CASE pc[s] = "create" /\ key[s] = key[r]
        BY <1>5, <1>7, <2>3, <2>6, <3>1, <4>1, <2>8 DEF RequestOK, Working, Settled, Bound, Local
      <4>2. CASE pc[s] = "create" /\ key[s] # key[r]
        BY <2>2, <2>3, <2>6, <3>1, <4>2, <2>8 DEF RequestOK, Working, Settled, Bound, Local
      <4>3. CASE pc[s] \in {"store", "retrieve"}
        BY <2>3, <2>6, <3>1, <4>3, <2>8 DEF RequestOK, Working, Settled, Bound, Local
      <4> QED BY <4>1, <4>2, <4>3 DEF Working
    <3> QED BY <2>2, <2>3, <3>1, <3>2, <3>3, <3>4, <2>8 DEF RequestOK, Working, ChargeOf, Local
  <2>9. ASSUME NEW s \in Requests, Local(s)' = Local(s),
               NEW t \in Requests, Local(t)' = Local(t)
        PROVE  PairOK(s, t)'
    <3>1. PairOK(s, t) /\ RequestOK(t) /\ RequestOK(s) /\ key[s] \in Keys \union {None}
      BY <1>0 DEF RequestInv, TypeOK
    <3> QED BY <1>7, <2>2, <2>9, <3>1 DEF PairOK, RequestOK, Working, Bound, Local
  <2> QED BY <1>2, <1>5, <2>3, <2>5, <2>7, <2>8, <2>9
<1> QED BY <1>6, <1>7

\* A request that has an intent stores it, answers with it, or both; what it
\* answers with is then the intent its attempt holds.
LEMMA AnswerStep ==
  ASSUME CheckoutInv, NEW r \in Requests, pc[r] \in {"store", "retrieve"},
         \/ attempts' = attempts
         \/ /\ Exists(row[r]) /\ attempts[row[r]].intent = None
            /\ attempts' = [attempts EXCEPT ![row[r]].intent = intent[r]],
         \/ answered' = answered
         \/ /\ answered' = answered \union {<<quote[r], intent[r]>>}
            /\ Exists(row[r]) => attempts'[row[r]].intent = intent[r],
         UNCHANGED <<used, expired, ordered, stripeVars>>
  PROVE  /\ attempts' \in [Row -> Attempts \union {None}]
         /\ answered' \subseteq Quotes \X Intent
         /\ RowInv' /\ IntentInv' /\ AnswerInv'
         /\ \A s \in Requests : Local(s)' = Local(s) =>
              /\ RequestOK(s)'
              /\ \A t \in Requests : Local(t)' = Local(t) => PairOK(s, t)'
<1>0. /\ TypeOK /\ RowInv /\ IntentInv /\ AnswerInv /\ RequestInv /\ RequestOK(r) /\ Working(r)
      /\ UNCHANGED <<used, expired, intents, remembered, paid>>
  BY DEF CheckoutInv, RequestInv, Working, stripeVars
<1> DEFINE a == row[r]
           i == intent[r]
<1>1. /\ a \in Row /\ a \in used /\ i \in Intent /\ i # None /\ quote[r] \in Quotes
      /\ intents[i].row = a /\ intents[i].amount = quote[r].amount /\ intents[i] # None
      /\ Settled(a, i) /\ (Exists(a) => attempts[a].quote = quote[r])
  <2>1. a \in Row /\ i \in Intent /\ quote[r] \in Quotes /\ intents[i] = ChargeOf(r)
    BY <1>0 DEF RequestOK, TypeOK
  <2>2. ChargeOf(r) \in Charges
    BY <2>1, QuotesHold DEF ChargeOf, Charges
  <2> QED BY <1>0, <2>1, <2>2 DEF RequestOK, ChargeOf, Bound
<1>2. /\ attempts' \in [Row -> Attempts \union {None}]
      /\ \A b : b \in Row => (Exists(b)' <=> Exists(b))
      /\ \A b \in Row : Exists(b) =>
           /\ attempts'[b].key = attempts[b].key /\ attempts'[b].quote = attempts[b].quote
           /\ \/ attempts'[b].intent = attempts[b].intent
              \/ b = a /\ attempts[b].intent = None /\ attempts'[b].intent = i
  <2>1. CASE attempts' = attempts
    BY <1>0, <2>1 DEF TypeOK, Exists
  <2>2. CASE /\ Exists(a) /\ attempts[a].intent = None
             /\ attempts' = [attempts EXCEPT ![a].intent = i]
    <3>1. attempts[a] \in Attempts
      BY <1>0, <1>1, <2>2 DEF TypeOK, Exists
    <3>2. attempts' = [attempts EXCEPT ![a] = [attempts[a] EXCEPT !.intent = i]]
      BY <2>2
    <3>3. /\ [attempts[a] EXCEPT !.intent = i] \in Attempts
          /\ [attempts[a] EXCEPT !.intent = i].key = attempts[a].key
          /\ [attempts[a] EXCEPT !.intent = i].quote = attempts[a].quote
          /\ [attempts[a] EXCEPT !.intent = i].intent = i
      BY <1>1, <3>1 DEF Attempts
    <3> QED BY <1>0, <1>1, <2>2, <3>2, <3>3 DEF TypeOK, Exists
  <2> QED BY <2>1, <2>2
<1>3. answered' \subseteq Quotes \X Intent
  BY <1>0, <1>1 DEF TypeOK
<1>4. RowInv'
  BY <1>0, <1>2 DEF RowInv, TypeOK
<1>5. IntentInv'
  <2>1. \A j \in Intent : intents[j] # None => intents[j].row \in Row
    BY <1>0 DEF TypeOK, Charges
  <2>2. \A b \in Row : Exists(b) => attempts[b].intent \in Intent \union {None}
    BY <1>0 DEF TypeOK, Attempts, Exists
  <2> QED BY <1>0, <1>1, <1>2, <2>1, <2>2 DEF IntentInv, TypeOK
<1>6. \A b \in answered : /\ b[2] \in Intent /\ b[2] # None
                           /\ intents[b[2]] # None /\ intents[b[2]].row \in Row
  BY <1>0 DEF AnswerInv, TypeOK, Charges
<1>7. \A b \in answered' : b \in answered \/ b = <<quote[r], i>>
  OBVIOUS
<1>8. AnswerInv'
  <2>1. \A b \in answered :
          /\ intents[b[2]].amount = b[1].amount
          /\ Exists(intents[b[2]].row)' =>
               /\ attempts'[intents[b[2]].row].quote = b[1]
               /\ attempts'[intents[b[2]].row].intent = b[2]
          /\ \A c \in answered' : intents[c[2]].row = intents[b[2]].row => c[2] = b[2]
    BY <1>0, <1>1, <1>2, <1>6, <1>7 DEF AnswerInv, Settled
  <2>2. CASE answered' = answered
    BY <1>0, <1>6, <2>1, <2>2 DEF AnswerInv
  <2>3. CASE /\ answered' = answered \union {<<quote[r], i>>}
             /\ Exists(a) => attempts'[a].intent = i
    BY <1>0, <1>1, <1>2, <1>6, <2>1, <2>3 DEF AnswerInv, Settled
  <2> QED BY <2>2, <2>3
<1>9. ASSUME NEW s \in Requests, Working(s), row[s] = a
      PROVE  Bound(s) = i
  BY <1>0, <1>9 DEF RequestInv, RequestOK, PairOK, Working, Bound
<1>10. ASSUME NEW s \in Requests, Local(s)' = Local(s)
       PROVE  RequestOK(s)'
  <2>1. RequestOK(s) /\ (Working(s) => row[s] \in Row)
    BY <1>0 DEF RequestInv, RequestOK, TypeOK
  <2>2. Working(s) => Settled(row[s], Bound(s))'
    <3>1. Local(s) = Local(s)' /\ Bound(s)' = Bound(s) /\ row'[s] = row[s]
      BY <1>0, <1>10 DEF Local, Bound
    <3>2. ASSUME Working(s), attempts'[row[s]] # None
          PROVE  attempts'[row[s]].intent \in {None, Bound(s)}
      BY <1>2, <1>9, <2>1, <3>2 DEF RequestOK, Settled, Exists
    <3>3. ASSUME Working(s), NEW b \in answered', intents[b[2]].row = row[s]
          PROVE  b[2] = Bound(s)
      BY <1>1, <1>7, <1>9, <2>1, <3>3 DEF RequestOK, Settled
    <3> QED BY <1>0, <3>1, <3>2, <3>3 DEF Settled, Exists
  <2>3. ASSUME pc[s] = "retrieve", attempts'[row[s]] # None
        PROVE  attempts'[row[s]].intent = intent[s]
    <3>1. Working(s) /\ attempts[row[s]].intent = intent[s] /\ intent[s] # None
      BY <1>2, <2>1, <2>3 DEF RequestOK, Working, Exists
    <3> QED BY <1>2, <2>1, <2>3, <3>1 DEF Exists
  <2>4. /\ pc'[s] = pc[s] /\ key'[s] = key[s] /\ quote'[s] = quote[s]
        /\ row'[s] = row[s] /\ intent'[s] = intent[s]
    BY <1>10 DEF Local
  <2> QED BY <1>0, <1>2, <2>1, <2>2, <2>3, <2>4 DEF RequestOK, Working, ChargeOf, Exists
<1>11. ASSUME NEW s \in Requests, Local(s)' = Local(s),
              NEW t \in Requests, Local(t)' = Local(t)
       PROVE  PairOK(s, t)'
  <2>1. PairOK(s, t)
    BY <1>0 DEF RequestInv
  <2> QED BY <1>0, <1>11, <2>1 DEF PairOK, Working, Bound, Local
<1> QED BY <1>2, <1>3, <1>4, <1>5, <1>8, <1>10, <1>11

LEMMA CreateIntentStep ==
  ASSUME CheckoutInv, NEW r \in Requests, CreateIntent(r)
  PROVE  CheckoutInv'
<1>0. TypeOK /\ RequestInv /\ RequestOK(r) /\ pc[r] = "create" /\ Working(r)
  BY DEF CheckoutInv, RequestInv, CreateIntent, Working
<1>1. PICK i \in IntentFor(key[r]) : Charge(r, i) /\ intent' = [intent EXCEPT ![r] = i]
  BY DEF CreateIntent
<1>2. UNCHANGED <<rowVars, paid, answered, key, quote, row>> /\ Goto(r, "store")
  BY DEF CreateIntent
<1>3. /\ intents' \in [Intent -> Charges \union {None}]
      /\ remembered' \in [Keys -> Intent \union {None}]
      /\ RowInv' /\ IntentInv' /\ AnswerInv'
      /\ i \in Intent /\ i # None /\ intents'[i] = ChargeOf(r) /\ remembered'[key[r]] = i
  BY <1>0, <1>1, <1>2, ChargeStep
<1>4. \A s \in Requests : Local(s)' = Local(s) =>
        RequestOK(s)' /\ (\A t \in Requests : Local(t)' = Local(t) => PairOK(s, t)')
  BY <1>0, <1>1, <1>2, ChargeStep
<1>5. TypeOK'
  BY <1>0, <1>1, <1>2, <1>3 DEF TypeOK, Goto, rowVars
<1>6. \A s \in Requests \ {r} : Local(s)' = Local(s)
  BY <1>0, <1>1, <1>2 DEF TypeOK, Goto, Local
<1>7. /\ pc'[r] = "store" /\ intent'[r] = i /\ key'[r] = key[r]
      /\ quote'[r] = quote[r] /\ row'[r] = row[r] /\ Working(r)'
  BY <1>0, <1>1, <1>2 DEF TypeOK, Goto, Working
<1>8. remembered[key[r]] \in {None, i}
  BY <1>1 DEF IntentFor
<1>9. Settled(row[r], i)'
  <2>1. Settled(row[r], remembered[key[r]])
    BY <1>0 DEF RequestOK, Bound
  <2>2. \A b \in answered : intents[b[2]] # None /\ b[2] \in Intent /\ b[2] # None
    BY <1>0 DEF CheckoutInv, AnswerInv, TypeOK
  <2>3. \A b \in answered : intents'[b[2]] = intents[b[2]]
    BY <1>0, <1>1, <2>2 DEF Charge, TypeOK
  <2> QED BY <1>2, <1>7, <1>8, <2>1, <2>2, <2>3 DEF Settled, Exists, rowVars
<1>10. RequestOK(r)'
  BY <1>0, <1>2, <1>3, <1>7, <1>9 DEF RequestOK, Bound, ChargeOf, Exists, rowVars, Working
<1>11. ASSUME NEW s \in Requests \ {r}
       PROVE  PairOK(r, s)' /\ PairOK(s, r)'
  <2>1. PairOK(r, s) /\ PairOK(s, r) /\ RequestOK(s) /\ Local(s)' = Local(s)
    BY <1>0, <1>6 DEF RequestInv
  <2>2. pc[s] \in {"store", "retrieve"} => intent[s] # None
    BY <2>1 DEF RequestOK
  <2> QED BY <1>0, <1>7, <1>8, <2>1, <2>2 DEF PairOK, Working, Bound, Local
<1>12. PairOK(r, r)'
  BY <1>7 DEF PairOK, Bound
<1>13. RequestInv'
  BY <1>4, <1>6, <1>10, <1>11, <1>12 DEF RequestInv
<1> QED BY <1>3, <1>5, <1>13 DEF CheckoutInv

LEMMA StoreIntentStep ==
  ASSUME CheckoutInv, NEW r \in Requests, StoreIntent(r)
  PROVE  CheckoutInv'
<1>0. TypeOK /\ RequestOK(r) /\ Working(r) /\ pc[r] = "store"
  BY DEF CheckoutInv, RequestInv, StoreIntent, Working
<1>1. /\ Leave(r) /\ UNCHANGED <<used, expired, ordered, stripeVars>>
      /\ answered' = answered \union {<<quote[r], intent[r]>>}
      /\ \/ attempts' = attempts
         \/ /\ Exists(row[r]) /\ attempts[row[r]].intent = None
            /\ attempts' = [attempts EXCEPT ![row[r]].intent = intent[r]]
  BY DEF StoreIntent, Answer
<1>2. Exists(row[r]) => attempts'[row[r]].intent = intent[r]
  <2>1. CASE Exists(row[r]) /\ attempts[row[r]].intent = None
    <3>1. row[r] \in Row /\ attempts[row[r]] \in Attempts
      BY <1>0, <2>1 DEF RequestOK, TypeOK, Exists
    <3> QED BY <1>0, <2>1, <3>1 DEF StoreIntent, TypeOK, Attempts
  <2>2. CASE Exists(row[r]) /\ attempts[row[r]].intent # None
    BY <1>0, <2>2 DEF StoreIntent, RequestOK, Settled, Bound
  <2> QED BY <2>1, <2>2
<1>3. /\ attempts' \in [Row -> Attempts \union {None}] /\ answered' \subseteq Quotes \X Intent
      /\ RowInv' /\ IntentInv' /\ AnswerInv'
  BY <1>0, <1>1, <1>2, AnswerStep
<1>4. \A s \in Requests : Local(s)' = Local(s) =>
        RequestOK(s)' /\ (\A t \in Requests : Local(t)' = Local(t) => PairOK(s, t)')
  BY <1>0, <1>1, <1>2, AnswerStep
<1>5. TypeOK' /\ RequestInv'
  BY <1>0, <1>1, <1>3, <1>4, LeaveStep, NotWorking DEF TypeOK, RequestInv, stripeVars
<1> QED BY <1>3, <1>5 DEF CheckoutInv

LEMMA RetrieveIntentStep ==
  ASSUME CheckoutInv, NEW r \in Requests, RetrieveIntent(r)
  PROVE  CheckoutInv'
<1>0. TypeOK /\ RequestOK(r) /\ pc[r] = "retrieve"
  BY DEF CheckoutInv, RequestInv, RetrieveIntent
<1>1. /\ Leave(r) /\ UNCHANGED <<rowVars, stripeVars>>
      /\ answered' = answered \union {<<quote[r], intent[r]>>}
  BY DEF RetrieveIntent, Answer
<1>2. attempts' = attempts /\ (Exists(row[r]) => attempts'[row[r]].intent = intent[r])
  BY <1>0, <1>1 DEF RequestOK, rowVars
<1>3. /\ attempts' \in [Row -> Attempts \union {None}] /\ answered' \subseteq Quotes \X Intent
      /\ RowInv' /\ IntentInv' /\ AnswerInv'
  BY <1>0, <1>1, <1>2, AnswerStep DEF rowVars
<1>4. \A s \in Requests : Local(s)' = Local(s) =>
        RequestOK(s)' /\ (\A t \in Requests : Local(t)' = Local(t) => PairOK(s, t)')
  BY <1>0, <1>1, <1>2, AnswerStep DEF rowVars
<1>5. TypeOK' /\ RequestInv'
  BY <1>0, <1>1, <1>3, <1>4, LeaveStep, NotWorking DEF TypeOK, RequestInv, stripeVars, rowVars
<1> QED BY <1>3, <1>5 DEF CheckoutInv

\* A request may fail before or after Stripe and the database did its work.
LEMMA FailStep ==
  ASSUME CheckoutInv, NEW r \in Requests, Fail(r)
  PROVE  CheckoutInv'
<1>0. TypeOK /\ Leave(r) /\ UNCHANGED <<used, expired, ordered, paid, answered>>
  BY DEF CheckoutInv, Fail
<1>1. CASE UNCHANGED <<attempts, intents, remembered>>
  <2>1. UNCHANGED <<rowVars, stripeVars, answered>>
    BY <1>0, <1>1 DEF rowVars, stripeVars
  <2>2. RowInv' /\ IntentInv' /\ AnswerInv'
    BY <2>1, FrameStep
  <2>3. TypeOK' /\ RequestInv'
    BY <1>0, <2>1, LeaveStep, OthersStep, NotWorking DEF TypeOK, RequestInv, stripeVars, rowVars
  <2> QED BY <2>2, <2>3 DEF CheckoutInv
<1>2. CASE pc[r] = "create" /\ (\E i \in IntentFor(key[r]) : Charge(r, i)) /\ UNCHANGED attempts
  <2>1. PICK i \in IntentFor(key[r]) : Charge(r, i)
    BY <1>2
  <2>2. UNCHANGED <<rowVars, paid, answered>>
    BY <1>0, <1>2 DEF rowVars
  <2>3. /\ intents' \in [Intent -> Charges \union {None}]
        /\ remembered' \in [Keys -> Intent \union {None}]
        /\ RowInv' /\ IntentInv' /\ AnswerInv'
    BY <1>2, <2>1, <2>2, ChargeStep
  <2>4. \A s \in Requests : Local(s)' = Local(s) =>
          RequestOK(s)' /\ (\A t \in Requests : Local(t)' = Local(t) => PairOK(s, t)')
    BY <1>2, <2>1, <2>2, ChargeStep
  <2>5. TypeOK' /\ RequestInv'
    BY <1>0, <2>2, <2>3, <2>4, LeaveStep, NotWorking DEF TypeOK, RequestInv, rowVars
  <2> QED BY <2>3, <2>5 DEF CheckoutInv
<1>3. CASE /\ pc[r] = "store" /\ Exists(row[r]) /\ attempts[row[r]].intent = None
           /\ attempts' = [attempts EXCEPT ![row[r]].intent = intent[r]]
           /\ UNCHANGED <<intents, remembered>>
  <2>1. UNCHANGED <<used, expired, ordered, stripeVars>> /\ answered' = answered
    BY <1>0, <1>3 DEF stripeVars
  <2>2. /\ attempts' \in [Row -> Attempts \union {None}] /\ answered' \subseteq Quotes \X Intent
        /\ RowInv' /\ IntentInv' /\ AnswerInv'
    BY <1>3, <2>1, AnswerStep
  <2>3. \A s \in Requests : Local(s)' = Local(s) =>
          RequestOK(s)' /\ (\A t \in Requests : Local(t)' = Local(t) => PairOK(s, t)')
    BY <1>3, <2>1, AnswerStep
  <2>4. TypeOK' /\ RequestInv'
    BY <1>0, <2>1, <2>2, <2>3, LeaveStep, NotWorking DEF TypeOK, RequestInv, stripeVars
  <2> QED BY <2>2, <2>4 DEF CheckoutInv
<1> QED BY <1>1, <1>2, <1>3 DEF Fail

\* Payments, orders, forgotten keys and expiries take nothing from attempts,
\* requests and answers; a key is forgotten while no request runs.
LEMMA EnvironmentStep ==
  ASSUME CheckoutInv, UNCHANGED <<attempts, used, intents, answered, requestVars>>,
         \/ remembered' = remembered
         \/ \E k \in Keys : remembered' = [remembered EXCEPT ![k] = None] /\ Quiet,
         expired \subseteq expired', expired' \subseteq Row, ordered' \subseteq Row,
         \A i \in paid' : i \in paid \/ (\E b \in answered : b[2] = i)
  PROVE  CheckoutInv'
<1>0. TypeOK /\ RowInv /\ IntentInv /\ AnswerInv /\ RequestInv
  BY DEF CheckoutInv
<1>1. /\ remembered' \in [Keys -> Intent \union {None}]
      /\ \A k \in Keys : remembered'[k] \in {None, remembered[k]}
  BY <1>0 DEF TypeOK
<1>2. TypeOK'
  <2>1. paid' \subseteq Intent
    BY <1>0 DEF TypeOK
  <2> QED BY <1>0, <1>1, <2>1 DEF TypeOK, requestVars
<1>3. RowInv' /\ AnswerInv'
  BY <1>0 DEF RowInv, AnswerInv, Exists
<1>4. IntentInv'
  BY <1>0, <1>1 DEF IntentInv, AnswerInv, Exists
<1>5. RequestInv'
  <2>1. CASE remembered' = remembered
    BY <1>0, <2>1 DEF RequestInv, RequestOK, PairOK, Working, Bound, Settled, ChargeOf, Exists,
                      requestVars
  <2>2. CASE Quiet
    BY <1>0, <2>2 DEF Quiet, RequestInv, RequestOK, PairOK, Working, requestVars
  <2> QED BY <2>1, <2>2
<1> QED BY <1>2, <1>3, <1>4, <1>5 DEF CheckoutInv

\* The purge removes expired rows under running requests.
LEMMA PurgeStep ==
  ASSUME CheckoutInv, Purge
  PROVE  CheckoutInv'
<1>0. /\ TypeOK /\ RowInv /\ IntentInv /\ AnswerInv /\ RequestInv
      /\ UNCHANGED <<used, expired, ordered, stripeVars, answered, requestVars>>
      /\ attempts' = [a \in Row |-> IF a \in expired \ ordered THEN None ELSE attempts[a]]
  BY DEF CheckoutInv, Purge
<1>1. /\ attempts' \in [Row -> Attempts \union {None}]
      /\ \A a \in Row : /\ Exists(a)' => Exists(a) /\ attempts'[a] = attempts[a]
                       /\ ~Exists(a)' => ~Exists(a) \/ a \in expired
  BY <1>0 DEF TypeOK, Exists
<1>2. TypeOK'
  BY <1>0, <1>1 DEF TypeOK, stripeVars, requestVars
<1>3. RowInv'
  BY <1>0, <1>1 DEF RowInv, TypeOK, Exists
<1>4. \A i \in Intent : intents[i] # None => intents[i].row \in Row
  BY <1>0 DEF TypeOK, Charges
<1>5. IntentInv'
  BY <1>0, <1>1, <1>4 DEF IntentInv, TypeOK, Exists, stripeVars
<1>6. AnswerInv'
  BY <1>0, <1>1, <1>4 DEF AnswerInv, TypeOK, Exists, stripeVars
<1>7. ASSUME NEW r \in Requests
      PROVE  RequestOK(r)' /\ (\A s \in Requests : PairOK(r, s)')
  <2>1. RequestOK(r) /\ (Working(r) => row[r] \in Row)
    BY <1>0 DEF RequestInv, RequestOK, TypeOK
  <2>2. RequestOK(r)'
    BY <1>0, <1>1, <2>1
       DEF RequestOK, Working, Bound, Settled, ChargeOf, Exists, stripeVars, requestVars
  <2>3. \A s \in Requests : PairOK(r, s)'
    BY <1>0 DEF RequestInv, PairOK, Working, Bound, stripeVars, requestVars
  <2> QED BY <2>2, <2>3
<1> QED BY <1>2, <1>3, <1>5, <1>6, <1>7 DEF CheckoutInv, RequestInv

\* What the three theorems below rest on: no request, failure, expiry or purge
\* breaks the bond between an attempt, its intent and those who work on them.
THEOREM CheckoutSafe == Spec => []CheckoutInv
<1>1. CheckoutInv /\ [Next]_vars => CheckoutInv'
  <2> SUFFICES ASSUME CheckoutInv, [Next]_vars PROVE CheckoutInv'
    OBVIOUS
  <2>0. TypeOK
    BY DEF CheckoutInv
  <2>1. ASSUME NEW r \in Requests, NEW k \in Keys, NEW raw \in Carts, NEW c \in Catalogues,
               Price(r, k, raw, c)
        PROVE  CheckoutInv'
    BY <2>1, PriceStep
  <2>2. ASSUME NEW r \in Requests, GetAttempt(r) \/ CreateAttempt(r) \/ CreateIntent(r)
        PROVE  CheckoutInv'
    BY <2>2, GetAttemptStep, CreateAttemptStep, CreateIntentStep
  <2>3. ASSUME NEW r \in Requests, StoreIntent(r) \/ RetrieveIntent(r) \/ Fail(r)
        PROVE  CheckoutInv'
    BY <2>3, StoreIntentStep, RetrieveIntentStep, FailStep
  <2>4. ASSUME NEW i \in Intent, Pay(i) \/ RecordOrder(i)
        PROVE  CheckoutInv'
    <3>1. CASE Pay(i)
      BY <2>0, <3>1, EnvironmentStep DEF Pay, TypeOK, rowVars
    <3>2. CASE RecordOrder(i)
      <4>1. intents[i].row \in Row
        BY <2>0, <3>2 DEF RecordOrder, Verified, CheckoutInv, IntentInv, Exists, TypeOK, Charges
      <4> QED BY <2>0, <3>2, <4>1, EnvironmentStep DEF RecordOrder, TypeOK, stripeVars
    <3> QED BY <2>4, <3>1, <3>2
  <2>5. ASSUME NEW k \in Keys, ForgetKey(k)
        PROVE  CheckoutInv'
    BY <2>0, <2>5, EnvironmentStep DEF ForgetKey, TypeOK, rowVars
  <2>6. ASSUME NEW a \in Row, Expire(a)
        PROVE  CheckoutInv'
    BY <2>0, <2>6, EnvironmentStep DEF Expire, TypeOK, stripeVars
  <2>7. CASE UNCHANGED vars
    BY <2>0, <2>7, EnvironmentStep DEF vars, rowVars, stripeVars, TypeOK
  <2> QED BY <2>1, <2>2, <2>3, <2>4, <2>5, <2>6, <2>7, PurgeStep DEF Next
<1> QED BY InitHolds, <1>1, PTL DEF Spec

\* Every reachable state is well typed: rows, intents and requests hold what the
\* columns and the code can give.
THEOREM CheckoutTyped == Spec => []TypeOK
<1>1. CheckoutInv => TypeOK
  BY DEF CheckoutInv
<1> QED BY CheckoutSafe, <1>1, PTL

\* A client secret charges the amount its request was quoted, and what the
\* webhook will fulfil is the cart of that quote, for any carts and prices.
THEOREM QuotedIsCharged == Spec => []AnsweredAsQuoted
<1>1. CheckoutInv => AnsweredAsQuoted
  BY DEF CheckoutInv, AnswerInv, AnsweredAsQuoted
<1> QED BY CheckoutSafe, <1>1, PTL

\* All client secrets of an attempt are of one PaymentIntent, for any number of
\* overlapping requests, failures and purges.
THEOREM OneIntent == Spec => []OneIntentPerAttempt
<1>1. CheckoutInv => OneIntentPerAttempt
  BY DEF CheckoutInv, AnswerInv, OneIntentPerAttempt
<1> QED BY CheckoutSafe, <1>1, PTL

\* The webhook accepts the payment of any secret that was given out, its stored
\* prices included, unless the attempt expired and was purged.
THEOREM AnsweredVerifies == Spec => []AnsweredIsVerified
<1>1. CheckoutInv => AnsweredIsVerified
  <2> SUFFICES ASSUME CheckoutInv, NEW a \in answered
               PROVE  \/ Verified(a[2])
                      \/ ~Exists(intents[a[2]].row) /\ intents[a[2]].row \in expired
    BY DEF AnsweredIsVerified
  <2> DEFINE w == intents[a[2]].row
  <2>1. a[2] \in Intent /\ intents[a[2]] # None /\ w \in Row /\ w \in used
    BY DEF CheckoutInv, AnswerInv, IntentInv, TypeOK, Charges
  <2>2. CASE ~Exists(w)
    BY <2>1, <2>2 DEF CheckoutInv, RowInv
  <2>3. CASE Exists(w)
    <3>1. attempts[w].quote \in Quotes
      BY <2>1, <2>3 DEF CheckoutInv, TypeOK, Attempts, Exists
    <3>2. attempts[w].intent = a[2] /\ attempts[w].quote.amount = intents[a[2]].amount
      BY <2>1, <2>3 DEF CheckoutInv, AnswerInv, IntentInv
    <3> QED BY <2>3, <3>1, <3>2, QuotesHold DEF Verified
  <2> QED BY <2>2, <2>3
<1> QED BY CheckoutSafe, <1>1, PTL
=============================================================================
