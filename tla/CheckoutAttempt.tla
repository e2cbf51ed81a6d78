-------------------------- MODULE CheckoutAttempt ---------------------------
(***************************************************************************)
(* CreatePaymentIntentView.post: the quote of a cart, the checkout attempt *)
(* of a client-chosen checkout key, and its Stripe PaymentIntent.          *)
(* Browsers repeat and overlap requests for a key, with the same or with   *)
(* other carts, while prices change; requests fail between any two steps;  *)
(* abandoned attempts are purged.  Stripe (idempotency keys, payment) is   *)
(* external.                                                               *)
(***************************************************************************)
EXTENDS CartPricing

CONSTANTS
  Requests,       \* requests in progress
  Keys,           \* checkout keys
  Carts,          \* carts that clients ask for
  Catalogues,     \* prices, shipping rules and discounts over time
  Row,            \* possible primary keys of attempts
  Intent          \* possible Stripe PaymentIntents

\* Every quote a client can be given; an attempt and its intent hold one.
Quotes == {Quote(x[1], x[2]) :
             x \in {x \in Carts \X Catalogues : Quotable(x[1], x[2])}}
Attempts == [key : Keys, quote : Quotes, intent : Intent \union {None}]
Charges == [row : Row, amount : Nat]

ASSUME CheckoutAssumption ==
  /\ Carts \subseteq RawCart /\ Catalogues \subseteq Catalogue
  /\ None \notin Keys \union Row \union Intent
  /\ None \notin Quotes /\ None \notin Attempts /\ None \notin Charges

VARIABLES
  attempts,       \* CheckoutAttempt rows: key, quote and payment_intent_id
  used,           \* primary keys used so far; rows may be deleted
  expired,        \* rows older than the retention period
  ordered,        \* rows an Order points to
  intents,        \* external: the attempt and the amount of an intent
  remembered,     \* external: the intent Stripe keeps for an idempotency key
  paid,           \* external: intents that were paid
  answered,       \* client secrets given out, with the quote they were given for
  pc, key, quote, \* a request's step, its checkout key and its fingerprint
  row, intent     \* the attempt it read and the intent it got

rowVars == <<attempts, used, expired, ordered>>
stripeVars == <<intents, remembered, paid>>
requestVars == <<pc, key, quote, row, intent>>
vars == <<rowVars, stripeVars, answered, requestVars>>

Exists(a) == attempts[a] # None
RowOf(k) == {a \in Row : Exists(a) /\ attempts[a].key = k}

\* Rows, intents and requests have values the columns and the code can give.
TypeOK ==
  /\ attempts \in [Row -> Attempts \union {None}]
  /\ used \subseteq Row /\ expired \subseteq Row /\ ordered \subseteq Row
  /\ intents \in [Intent -> Charges \union {None}]
  /\ remembered \in [Keys -> Intent \union {None}]
  /\ paid \subseteq Intent /\ answered \subseteq Quotes \X Intent
  /\ pc \in [Requests -> {"idle", "attempt", "create", "store", "retrieve"}]
  /\ key \in [Requests -> Keys \union {None}]
  /\ quote \in [Requests -> Quotes \union {None}]
  /\ row \in [Requests -> Row \union {None}]
  /\ intent \in [Requests -> Intent \union {None}]

Init ==
  /\ attempts = [a \in Row |-> None] /\ used = {} /\ expired = {} /\ ordered = {}
  /\ intents = [i \in Intent |-> None] /\ remembered = [k \in Keys |-> None]
  /\ paid = {} /\ answered = {}
  /\ pc = [r \in Requests |-> "idle"]
  /\ key = [r \in Requests |-> None] /\ quote = [r \in Requests |-> None]
  /\ row = [r \in Requests |-> None] /\ intent = [r \in Requests |-> None]

Goto(r, label) == pc' = [pc EXCEPT ![r] = label]

Leave(r) ==
  /\ Goto(r, "idle")
  /\ key' = [key EXCEPT ![r] = None] /\ quote' = [quote EXCEPT ![r] = None]
  /\ row' = [row EXCEPT ![r] = None] /\ intent' = [intent EXCEPT ![r] = None]

-----------------------------------------------------------------------------
\* Accepted terms, an e-mail address, and a cart at the prices of the moment.
Price(r, k, raw, c) ==
  /\ pc[r] = "idle" /\ Quotable(raw, c)
  /\ Goto(r, "attempt")
  /\ key' = [key EXCEPT ![r] = k]
  /\ quote' = [quote EXCEPT ![r] = Quote(raw, c)]
  /\ UNCHANGED <<rowVars, stripeVars, answered, row, intent>>

\* Faulty: the fingerprint of an existing attempt is not compared.
SameRequestAlways(r, a) == TRUE

SameRequest(r, a) == attempts[a].quote = quote[r]

\* get_or_create on the unique key, then the fingerprint (409 on a mismatch).
GetAttempt(r) ==
  /\ pc[r] = "attempt"
  /\ \E a \in RowOf(key[r]) :
       IF SameRequest(r, a)
       THEN /\ row' = [row EXCEPT ![r] = a]
            /\ intent' = [intent EXCEPT ![r] = attempts[a].intent]
            /\ Goto(r, IF attempts[a].intent = None THEN "create" ELSE "retrieve")
            /\ UNCHANGED <<key, quote>>
       ELSE Leave(r)
  /\ UNCHANGED <<rowVars, stripeVars, answered>>

\* Faulty: the attempt is stored without its fingerprint.
CreateBlank(r) ==
  /\ pc[r] = "attempt" /\ RowOf(key[r]) = {}
  /\ \E a \in Row \ used :
       /\ attempts' = [attempts EXCEPT ![a] =
                         [key |-> key[r], quote |-> None, intent |-> None]]
       /\ used' = used \union {a}
       /\ row' = [row EXCEPT ![r] = a]
  /\ Goto(r, "create")
  /\ UNCHANGED <<expired, ordered, stripeVars, answered, key, quote, intent>>

CreateAttempt(r) ==
  /\ pc[r] = "attempt" /\ RowOf(key[r]) = {}
  /\ \E a \in Row \ used :
       /\ attempts' = [attempts EXCEPT ![a] =
                         [key |-> key[r], quote |-> quote[r], intent |-> None]]
       /\ used' = used \union {a}
       /\ row' = [row EXCEPT ![r] = a]
  /\ Goto(r, "create")
  /\ UNCHANGED <<expired, ordered, stripeVars, answered, key, quote, intent>>

\* Faulty: no idempotency key.
NewIntentAlways(k) == {i \in Intent : intents[i] = None}

\* stripe.PaymentIntent.create with the idempotency key of the checkout key.
IntentFor(k) == IF remembered[k] # None THEN {remembered[k]}
                ELSE {i \in Intent : intents[i] = None}

ChargeOf(r) == [row |-> row[r], amount |-> quote[r].amount]

\* A remembered key is refused with other parameters.
Charge(r, i) ==
  /\ intents[i] \in {None, ChargeOf(r)}
  /\ intents' = [intents EXCEPT ![i] = ChargeOf(r)]
  /\ remembered' = [remembered EXCEPT ![key[r]] = i]

CreateIntent(r) ==
  /\ pc[r] = "create"
  /\ \E i \in IntentFor(key[r]) : Charge(r, i) /\ intent' = [intent EXCEPT ![r] = i]
  /\ Goto(r, "store")
  /\ UNCHANGED <<rowVars, paid, answered, key, quote, row>>

Answer(r) == answered' = answered \union {<<quote[r], intent[r]>>}

\* Faulty: the intent is given out but not stored.
AnswerUnstored(r) ==
  /\ pc[r] = "store"
  /\ Answer(r)
  /\ Leave(r)
  /\ UNCHANGED <<rowVars, stripeVars>>

\* Stored unless the attempt has an intent by now or is gone; answered anyway.
StoreIntent(r) ==
  /\ pc[r] = "store"
  /\ attempts' = IF Exists(row[r]) /\ attempts[row[r]].intent = None
                 THEN [attempts EXCEPT ![row[r]].intent = intent[r]]
                 ELSE attempts
  /\ Answer(r)
  /\ Leave(r)
  /\ UNCHANGED <<used, expired, ordered, stripeVars>>

\* An attempt that has an intent answers with its client secret again.
RetrieveIntent(r) ==
  /\ pc[r] = "retrieve"
  /\ Answer(r)
  /\ Leave(r)
  /\ UNCHANGED <<rowVars, stripeVars>>

\* A 500 or a lost answer, whatever was done before: Stripe may have the
\* intent, and it may be stored.
Fail(r) ==
  /\ pc[r] # "idle"
  /\ \/ UNCHANGED <<attempts, intents, remembered>>
     \/ /\ pc[r] = "create"
        /\ \E i \in IntentFor(key[r]) : Charge(r, i)
        /\ UNCHANGED attempts
     \/ /\ pc[r] = "store" /\ Exists(row[r]) /\ attempts[row[r]].intent = None
        /\ attempts' = [attempts EXCEPT ![row[r]].intent = intent[r]]
        /\ UNCHANGED <<intents, remembered>>
  /\ Leave(r)
  /\ UNCHANGED <<used, expired, ordered, paid, answered>>

-----------------------------------------------------------------------------
(* The customer pays, the webhook records the order, and time passes: hours
   for Stripe to forget an idempotency key, weeks for an attempt to expire.
   No request lasts that long. *)

Pay(i) ==
  /\ \E q \in Quotes : <<q, i>> \in answered
  /\ i \notin paid
  /\ paid' = paid \union {i}
  /\ UNCHANGED <<rowVars, intents, remembered, answered, requestVars>>

\* The attempt named by the intent's metadata must hold that very intent and
\* expect the amount paid, and its snapshots must add up to it.
Verified(i) ==
  LET a == intents[i].row
  IN  /\ Exists(a) /\ attempts[a].intent = i
      /\ attempts[a].quote.amount = intents[i].amount
      /\ PricingHolds(attempts[a].quote)

RecordOrder(i) ==
  /\ i \in paid /\ Verified(i)
  /\ intents[i].row \notin ordered
  /\ ordered' = ordered \union {intents[i].row}
  /\ UNCHANGED <<attempts, used, expired, stripeVars, answered, requestVars>>

Quiet == \A r \in Requests : pc[r] = "idle"

ForgetKey(k) ==
  /\ Quiet /\ remembered[k] # None
  /\ remembered' = [remembered EXCEPT ![k] = None]
  /\ UNCHANGED <<rowVars, intents, paid, answered, requestVars>>

Expire(a) ==
  /\ Quiet /\ Exists(a) /\ a \notin expired
  /\ remembered[attempts[a].key] = None
  /\ expired' = expired \union {a}
  /\ UNCHANGED <<attempts, used, ordered, stripeVars, answered, requestVars>>

\* purge_checkout_attempts, while requests may be running.
Purge ==
  /\ \E a \in expired : Exists(a) /\ a \notin ordered
  /\ attempts' = [a \in Row |-> IF a \in expired \ ordered THEN None ELSE attempts[a]]
  /\ UNCHANGED <<used, expired, ordered, stripeVars, answered, requestVars>>

Next ==
  \/ \E r \in Requests :
       \/ \E k \in Keys, raw \in Carts, c \in Catalogues : Price(r, k, raw, c)
       \/ GetAttempt(r) \/ CreateAttempt(r) \/ CreateIntent(r) \/ StoreIntent(r)
       \/ RetrieveIntent(r) \/ Fail(r)
  \/ \E i \in Intent : Pay(i) \/ RecordOrder(i)
  \/ \E k \in Keys : ForgetKey(k)
  \/ \E a \in Row : Expire(a)
  \/ Purge

Spec == Init /\ [][Next]_vars

-----------------------------------------------------------------------------
\* Whatever the order of the requests for a key and the price changes between
\* them, a client secret that is given out charges the amount its request was
\* quoted, and what the webhook will fulfil is the cart of that very quote.
AnsweredAsQuoted ==
  \A a \in answered :
    LET charge == intents[a[2]]
    IN  /\ charge.amount = a[1].amount
        /\ Exists(charge.row) => attempts[charge.row].quote = a[1]

\* One checkout attempt cannot be paid twice: however often it is asked for, all
\* its client secrets are of one PaymentIntent.
OneIntentPerAttempt ==
  \A a, b \in answered : intents[a[2]].row = intents[b[2]].row => a[2] = b[2]

\* A payment can be turned into an order: an intent that was given out is the one
\* its attempt holds, for the amount its snapshots add up to, unless the attempt
\* has expired and was purged.
AnsweredIsVerified ==
  \A a \in answered :
    \/ Verified(a[2])
    \/ ~Exists(intents[a[2]].row) /\ intents[a[2]].row \in expired
=============================================================================
