-------------------------- MODULE DepositCheckout ---------------------------
(***************************************************************************)
(* The booking deposit of one real-estate enquiry: staff prepare a Stripe  *)
(* Checkout Session and mail its link, replace it near its expiry, void    *)
(* the deposit invoice; the webhook and the next preparation record the    *)
(* payment.  Each request works on the enquiry it read and talks to Stripe *)
(* between its transactions.  A Session is named after its creation key,   *)
(* which is Stripe's idempotency key and carries its expiry.  Stripe is    *)
(* external.  Payments by other means and the balance are left out.        *)
(***************************************************************************)
EXTENDS Naturals, FiniteSets

CONSTANTS
  Requests,
  Invoices,       \* possible deposit invoices of the enquiry
  Sessions,       \* possible creation keys, Sessions and recovered Sessions
  None,
  MaxRetries,     \* retries of a preparation that saw the Session change
  MaxRecoveries   \* bound on Sessions recovered by the client after expiry

ASSUME DepositAssumption ==
  /\ None \notin Invoices \union Sessions
  /\ MaxRetries \in Nat /\ MaxRecoveries \in Nat

VARIABLES
  stored,         \* stripe_deposit_session_id, and the link with it
  creationKey,    \* stripe_deposit_creation_key
  status,         \* of an invoice; "none" before it is issued
  payments,       \* RealEstatePayment rows: an invoice and a Session
  used,           \* names given to keys and Sessions
  age,            \* "fresh", "near" (30 minutes left) or "over" its expiry
  made,           \* external: the invoice a Session charges for, if it exists
  origin,         \* external: the Session a recovered one comes from
  closed, paid,   \* external: Sessions expired by the code, and paid ones
  offered,        \* Sessions whose link left the system
  pc, saw, inv, key, tries  \* a request's step, copies and retries

rowVars == <<stored, creationKey, status, payments>>
stripeVars == <<used, age, made, origin, closed, paid>>
requestVars == <<pc, saw, inv, key, tries>>
vars == <<rowVars, stripeVars, offered, requestVars>>

\* Rows, Sessions and requests have values the columns and the code can give.
TypeOK ==
  /\ stored \in Sessions \union {None} /\ creationKey \in Sessions \union {None}
  /\ status \in [Invoices -> {"none", "issued", "paid", "void"}]
  /\ payments \subseteq Invoices \X Sessions
  /\ used \subseteq Sessions /\ age \in [Sessions -> {"fresh", "near", "over"}]
  /\ made \in [Sessions -> Invoices \union {None}]
  /\ origin \in [Sessions -> Sessions \union {None}]
  /\ closed \subseteq used /\ paid \subseteq used /\ offered \subseteq used
  /\ pc \in [Requests -> {"idle", "ensure", "retrieve", "expire", "reconcile",
                          "key", "create", "store", "void"}]
  /\ saw \in [Requests -> Sessions \union {None}]
  /\ inv \in [Requests -> Invoices \union {None}]
  /\ key \in [Requests -> Sessions \union {None}]
  /\ tries \in [Requests -> 0..MaxRetries]

Init ==
  /\ stored = None /\ creationKey = None
  /\ status = [i \in Invoices |-> "none"] /\ payments = {}
  /\ used = {} /\ age = [s \in Sessions |-> "fresh"]
  /\ made = [s \in Sessions |-> None] /\ origin = [s \in Sessions |-> None]
  /\ closed = {} /\ paid = {} /\ offered = {}
  /\ pc = [r \in Requests |-> "idle"] /\ saw = [r \in Requests |-> None]
  /\ inv = [r \in Requests |-> None] /\ key = [r \in Requests |-> None]
  /\ tries = [r \in Requests |-> 0]

Goto(r, label) == pc' = [pc EXCEPT ![r] = label]

Leave(r) ==
  /\ Goto(r, "idle")
  /\ saw' = [saw EXCEPT ![r] = None] /\ inv' = [inv EXCEPT ![r] = None]
  /\ key' = [key EXCEPT ![r] = None] /\ tries' = [tries EXCEPT ![r] = 0]

\* DepositSessionStateChanged: the enquiry is read again, a few times.
Retry(r) ==
  IF tries[r] < MaxRetries
  THEN /\ Goto(r, "ensure")
       /\ saw' = [saw EXCEPT ![r] = stored]
       /\ tries' = [tries EXCEPT ![r] = @ + 1]
       /\ inv' = [inv EXCEPT ![r] = None] /\ key' = [key EXCEPT ![r] = None]
  ELSE Leave(r)

Active == {i \in Invoices : status[i] \in {"issued", "paid"}}
Expired(s) == s \in closed \/ age[s] = "over"
Open(s) == made[s] # None /\ s \notin paid /\ ~Expired(s)
RecordedSession(s) == \E i \in Invoices : <<i, s>> \in payments

-----------------------------------------------------------------------------
(* prepare_realestate_deposit_checkout_session *)

ReadEnquiry(r) ==
  /\ pc[r] = "idle"
  /\ Goto(r, "ensure")
  /\ saw' = [saw EXCEPT ![r] = stored]
  /\ UNCHANGED <<rowVars, stripeVars, offered, inv, key, tries>>

\* The active deposit invoice, or a new one; nothing to do when it is paid.
EnsureInvoice(r) ==
  /\ pc[r] = "ensure"
  /\ \E i \in IF Active # {} THEN Active
              ELSE {j \in Invoices : status[j] = "none"} :
       /\ status' = [status EXCEPT ![i] = IF @ = "none" THEN "issued" ELSE @]
       /\ IF status[i] = "paid"
          THEN Leave(r)
          ELSE /\ inv' = [inv EXCEPT ![r] = i]
               /\ Goto(r, IF saw[r] = None THEN "key" ELSE "retrieve")
               /\ UNCHANGED <<saw, key, tries>>
  /\ UNCHANGED <<stored, creationKey, payments, stripeVars, offered>>

Matches(r) == made[saw[r]] = inv[r]

\* Faulty: a Session that is not reusable is replaced without being expired.
ReplaceOpen(r) ==
  /\ pc[r] = "retrieve"
  /\ Open(saw[r]) /\ ~(Matches(r) /\ age[saw[r]] = "fresh")
  /\ Goto(r, "key")
  /\ UNCHANGED <<rowVars, stripeVars, offered, saw, inv, key, tries>>

RetrieveUnusable(r) ==
  /\ pc[r] = "retrieve"
  /\ Open(saw[r]) /\ ~(Matches(r) /\ age[saw[r]] = "fresh")
  /\ Goto(r, "expire")
  /\ UNCHANGED <<rowVars, stripeVars, offered, saw, inv, key, tries>>

Reuse(r) ==
  /\ pc[r] = "retrieve"
  /\ Open(saw[r]) /\ Matches(r) /\ age[saw[r]] = "fresh"
  /\ offered' = offered \union {saw[r]}
  /\ Leave(r)
  /\ UNCHANGED <<rowVars, stripeVars>>

RetrieveExpired(r) ==
  /\ pc[r] = "retrieve"
  /\ saw[r] \notin paid /\ Expired(saw[r])
  /\ Goto(r, "key")
  /\ UNCHANGED <<rowVars, stripeVars, offered, saw, inv, key, tries>>

\* A paid Session of another invoice needs manual review.
RetrievePaid(r) ==
  /\ pc[r] = "retrieve"
  /\ saw[r] \in paid
  /\ IF Matches(r)
     THEN Goto(r, "reconcile") /\ UNCHANGED <<saw, inv, key, tries>>
     ELSE Leave(r)
  /\ UNCHANGED <<rowVars, stripeVars, offered>>

\* Stripe expires open Sessions only.
ExpireSession(r) ==
  /\ pc[r] = "expire"
  /\ IF Open(saw[r])
     THEN /\ closed' = closed \union {saw[r]}
          /\ Goto(r, "key")
          /\ UNCHANGED <<saw, inv, key, tries>>
     ELSE Leave(r) /\ UNCHANGED closed
  /\ UNCHANGED <<rowVars, used, age, made, origin, paid, offered>>

\* Faulty: a settled invoice takes a status of its payment.
RecordSucceeded(i, s) ==
  /\ payments' = payments \union {<<i, s>>}
  /\ status' = [status EXCEPT ![i] = "succeeded"]

\* record_realestate_payment of the full deposit, once, on an unpaid invoice.
RecordPayment(i, s) ==
  /\ payments' = payments \union {<<i, s>>}
  /\ status' = [status EXCEPT ![i] = "paid"]

Reconcile(r) ==
  /\ pc[r] = "reconcile"
  /\ IF ~RecordedSession(saw[r]) /\ status[inv[r]] = "issued"
     THEN /\ RecordPayment(inv[r], saw[r])
          /\ stored' = IF stored = None THEN saw[r] ELSE stored
     ELSE UNCHANGED <<payments, status, stored>>
  /\ Leave(r)
  /\ UNCHANGED <<creationKey, stripeVars, offered>>

\* Faulty: the stored Session is not compared with the one that was read.
TakeKeyUnchecked(r) ==
  /\ pc[r] = "key"
  /\ IF creationKey # None /\ age[creationKey] = "fresh"
     THEN /\ key' = [key EXCEPT ![r] = creationKey]
          /\ Goto(r, "create")
          /\ UNCHANGED <<creationKey, used, saw, inv, tries>>
     ELSE IF creationKey # None /\ age[creationKey] = "near"
     THEN Leave(r) /\ UNCHANGED <<creationKey, used>>
     ELSE \E k \in Sessions \ used :
            /\ creationKey' = k /\ used' = used \union {k}
            /\ key' = [key EXCEPT ![r] = k]
            /\ Goto(r, "create")
            /\ UNCHANGED <<saw, inv, tries>>
  /\ UNCHANGED <<stored, status, payments, age, made, origin, closed, paid,
                 offered>>

\* An unexpired key is used again, so that Stripe makes one Session of it; near
\* its expiry it cannot be.
TakeKey(r) ==
  /\ pc[r] = "key"
  /\ IF stored # saw[r]
     THEN Retry(r) /\ UNCHANGED <<creationKey, used>>
     ELSE IF creationKey # None /\ age[creationKey] = "fresh"
     THEN /\ key' = [key EXCEPT ![r] = creationKey]
          /\ Goto(r, "create")
          /\ UNCHANGED <<creationKey, used, saw, inv, tries>>
     ELSE IF creationKey # None /\ age[creationKey] = "near"
     THEN Leave(r) /\ UNCHANGED <<creationKey, used>>
     ELSE \E k \in Sessions \ used :
            /\ creationKey' = k /\ used' = used \union {k}
            /\ key' = [key EXCEPT ![r] = k]
            /\ Goto(r, "create")
            /\ UNCHANGED <<saw, inv, tries>>
  /\ UNCHANGED <<stored, status, payments, age, made, origin, closed, paid,
                 offered>>

ClearKey(k) == creationKey' = IF creationKey = k THEN None ELSE creationKey

\* Stripe makes a Session 30 minutes or more before its expiry, and answers a
\* repeated key with its Session.
CreateSession(r) ==
  /\ pc[r] = "create"
  /\ \/ made[key[r]] = inv[r] /\ UNCHANGED made
     \/ /\ made[key[r]] = None /\ age[key[r]] = "fresh"
        /\ made' = [made EXCEPT ![key[r]] = inv[r]]
  /\ Goto(r, "store")
  /\ UNCHANGED <<rowVars, used, age, origin, closed, paid, offered, saw, inv,
                 key, tries>>

\* Rejected for good (a request that cannot succeed, an expiry too close).
CreateRejected(r) ==
  /\ pc[r] = "create" /\ made[key[r]] = None
  /\ ClearKey(key[r])
  /\ Leave(r)
  /\ UNCHANGED <<stored, status, payments, stripeVars, offered>>

\* The key keeps its Session of another invoice, or the answer is lost: the
\* creation key stays, for a retry.
CreateFails(r) ==
  /\ pc[r] = "create"
  /\ \/ UNCHANGED made
     \/ /\ made[key[r]] = None /\ age[key[r]] = "fresh"
        /\ made' = [made EXCEPT ![key[r]] = inv[r]]
  /\ Leave(r)
  /\ UNCHANGED <<rowVars, used, age, origin, closed, paid, offered>>

\* Stored while the enquiry still has the creation key; then the link is mailed.
StoreSession(r) ==
  /\ pc[r] = "store"
  /\ IF creationKey # key[r] /\ stored # key[r]
     THEN Retry(r) /\ UNCHANGED <<stored, creationKey, offered>>
     ELSE /\ stored' = key[r]
          /\ creationKey' = IF creationKey = key[r] THEN None ELSE creationKey
          /\ offered' = offered \union {key[r]}
          /\ Leave(r)
  /\ UNCHANGED <<status, payments, stripeVars>>

-----------------------------------------------------------------------------
(* void_local_realestate_invoice, the webhook, clients and time. *)

\* A stored Session must have expired unpaid, and not been recovered.
VerifyVoid(r, i) ==
  /\ pc[r] = "idle" /\ status[i] = "issued"
  /\ stored # None =>
       /\ stored \notin paid /\ Expired(stored)
       /\ made[stored] = i /\ origin[stored] = None
       /\ \A s \in Sessions : origin[s] # stored
  /\ saw' = [saw EXCEPT ![r] = stored] /\ inv' = [inv EXCEPT ![r] = i]
  /\ Goto(r, "void")
  /\ UNCHANGED <<rowVars, stripeVars, offered, key, tries>>

\* Without a stored Session the creation key is left alone.
VoidInvoice(r) ==
  /\ pc[r] = "void"
  /\ IF stored = saw[r] /\ status[inv[r]] = "issued"
     THEN /\ status' = [status EXCEPT ![inv[r]] = "void"]
          /\ stored' = None
          /\ creationKey' = IF stored = None THEN creationKey ELSE None
     ELSE UNCHANGED <<status, stored, creationKey>>
  /\ Leave(r)
  /\ UNCHANGED <<payments, stripeVars, offered>>

\* The invoice of the Session's metadata is the active one and is unpaid; the
\* Session is the stored one or was recovered from it.
Acceptable(s) ==
  /\ made[s] \in Active /\ status[made[s]] = "issued"
  /\ stored \in {None, s, origin[s]}

\* Redelivered until it is accepted; a refused event changes nothing.
WebhookPaid(s) ==
  /\ s \in paid /\ ~RecordedSession(s) /\ Acceptable(s)
  /\ RecordPayment(made[s], s)
  /\ stored' = s
  /\ UNCHANGED <<creationKey, stripeVars, offered, requestVars>>

Pay(s) ==
  /\ Open(s) /\ s \in offered
  /\ paid' = paid \union {s}
  /\ UNCHANGED <<rowVars, used, age, made, origin, closed, offered, requestVars>>

\* The client follows the recovery link of an expired Session.
Recover(s, t) ==
  /\ Cardinality({u \in Sessions : origin[u] # None}) < MaxRecoveries
  /\ s \in offered /\ s \notin paid /\ Expired(s)
  /\ t \notin used
  /\ used' = used \union {t} /\ offered' = offered \union {t}
  /\ made' = [made EXCEPT ![t] = made[s]]
  /\ origin' = [origin EXCEPT ![t] = s]
  /\ UNCHANGED <<rowVars, age, closed, paid, requestVars>>

TimePasses(s) ==
  /\ s \in used /\ age[s] # "over"
  /\ age' = [age EXCEPT ![s] = IF @ = "fresh" THEN "near" ELSE "over"]
  /\ UNCHANGED <<rowVars, used, made, origin, closed, paid, offered,
                 requestVars>>

\* An error or a crash between two steps of a request.
Fail(r) ==
  /\ pc[r] # "idle"
  /\ Leave(r)
  /\ UNCHANGED <<rowVars, stripeVars, offered>>

Next ==
  \/ \E r \in Requests :
       \/ ReadEnquiry(r) \/ EnsureInvoice(r)
       \/ Reuse(r) \/ RetrieveUnusable(r) \/ RetrieveExpired(r)
       \/ RetrievePaid(r) \/ ExpireSession(r) \/ Reconcile(r)
       \/ TakeKey(r) \/ CreateSession(r) \/ CreateRejected(r)
       \/ CreateFails(r) \/ StoreSession(r)
       \/ \E i \in Invoices : VerifyVoid(r, i)
       \/ VoidInvoice(r) \/ Fail(r)
  \/ \E s \in Sessions : WebhookPaid(s) \/ Pay(s) \/ TimePasses(s)
  \/ \E s, t \in Sessions : Recover(s, t)

Spec == Init /\ [][Next]_vars

-----------------------------------------------------------------------------
\* The client never holds two payable links that staff mailed: one that can
\* still be paid is the one the enquiry has stored, whatever two overlapping
\* preparations and a void do between Stripe and the rows.
OfferedIsStored ==
  \A s \in offered : Open(s) /\ origin[s] = None => stored = s

\* Money the client paid for an invoice that is not void is recorded, or the
\* webhook will record it.
PaidIsRecordable ==
  \A s \in paid : status[made[s]] # "void" => RecordedSession(s) \/ Acceptable(s)

\* The same while the client has not followed a recovery link.
DirectIsRecordable ==
  (\A s \in Sessions : origin[s] = None) => PaidIsRecordable
=============================================================================
