--------------------------- MODULE InvoiceLedger ----------------------------
(***************************************************************************)
(* The final invoice (balance or full payment) of one real-estate enquiry: *)
(* it is issued, charged through a Stripe Checkout Session, a Stripe       *)
(* invoice or by hand, revised and voided at Stripe, refunded, disputed,   *)
(* and decides whether the media are released.  Invoices are numbered in   *)
(* the order they are issued; the invoices Stripe keeps for one number are *)
(* its revisions 1, 2, ..., of which only the last can be open.  Stripe's  *)
(* events arrive in any order.  Amounts are small numbers of a currency    *)
(* unit; what payments come to together is the number of their units.      *)
(* Stripe is external.  The deposit invoice is in DepositCheckout.         *)
(***************************************************************************)
EXTENDS Naturals, FiniteSets

CONSTANTS
  MaxNumber,      \* bound on the invoices issued
  Total,          \* what the enquiry's final invoice asks for
  Sessions,       \* possible balance Checkout Sessions
  Receipts,       \* possible cash or bank payments
  Requests,       \* staff requests that create a Session
  MaxStripe,      \* bound on the Stripe invoices made, revisions included
  MaxPending,     \* bound on the events Stripe has not delivered yet
  MaxReversed,    \* bound on the charges that are refunded or disputed
  None

Number == 1..MaxNumber
\* Where money comes from; a Stripe invoice's payment is named by its number.
Source == Sessions \union Receipts \union Number

VARIABLES
  invoices,       \* RealEstateInvoice rows
  payments,       \* RealEstatePayment rows
  warned,         \* payments with a reversal that matched no row
  creating,       \* the Session a staff request got from Stripe, not yet stored
  charged,        \* external: the invoice and amount a Session charges for
  stripe,         \* external: number of revisions and the status of the last
  captured,       \* external: money taken, its refunded part, its dispute
  sessionEvents, invoiceEvents, chargeEvents  \* external: not handled yet

rowVars == <<invoices, payments, warned>>
eventVars == <<sessionEvents, invoiceEvents, chargeEvents>>
stripeVars == <<charged, stripe, captured>>
vars == <<rowVars, creating, stripeVars, eventVars>>

Statuses == {"issued", "partially_paid", "paid", "overdue", "void"}
StripeStatuses == {"open", "paid", "void", "uncollectible"}
\* The stored copy of Stripe's status is left out: it is read only where it was
\* fetched just before.
Invoice == [status : Statuses, manual : BOOLEAN, session : Sessions \union {None},
            revision : 0..MaxStripe, outOfBand : BOOLEAN]
Payment == [invoice : Number, amount : 1..Total, reversed : 0..Total,
            reversal : {"none", "partial", "refunded", "disputed", "chargeback"}]
Money == [amount : 1..Total, refunded : 0..Total,
          dispute : {"none", "open", "won", "lost"}]
Due == [invoice : Number, amount : 1..Total]
Revisions == [revisions : 1..MaxStripe, status : StripeStatuses]
InvoiceEvent == [type : StripeStatuses, number : Number,
                 revision : 1..MaxStripe, superseded : BOOLEAN]
ChargeEvent == [type : {"refunded", "disputed", "won", "lost"},
                source : Sessions \union Number, refunded : 0..Total]

ASSUME LedgerAssumption ==
  /\ MaxNumber \in Nat \ {0} /\ Total \in Nat \ {0} /\ MaxStripe \in Nat \ {0}
  /\ MaxPending \in Nat /\ MaxReversed \in Nat
  /\ None \notin Source /\ Sessions \intersect Receipts = {}
  /\ (Sessions \union Receipts) \intersect Nat = {}
  /\ IsFiniteSet(Source)
  /\ None \notin Invoice \union Payment \union Money \union Due \union Revisions

\* Rows, Stripe's objects and the events have values that can occur.
TypeOK ==
  /\ invoices \in [Number -> Invoice \union {None}]
  /\ payments \in [Source -> Payment \union {None}]
  /\ warned \subseteq Source
  /\ creating \in [Requests -> Sessions \union {None}]
  /\ charged \in [Sessions -> Due \union {None}]
  /\ stripe \in [Number -> Revisions \union {None}]
  /\ captured \in [Source -> Money \union {None}]
  /\ sessionEvents \subseteq Sessions
  /\ invoiceEvents \subseteq InvoiceEvent /\ chargeEvents \subseteq ChargeEvent

Init ==
  /\ invoices = [n \in Number |-> None] /\ payments = [p \in Source |-> None]
  /\ warned = {} /\ creating = [r \in Requests |-> None]
  /\ charged = [s \in Sessions |-> None] /\ stripe = [n \in Number |-> None]
  /\ captured = [p \in Source |-> None]
  /\ sessionEvents = {} /\ invoiceEvents = {} /\ chargeEvents = {}

-----------------------------------------------------------------------------
(* Sums over an invoice's successful payments *)

Issued == {n \in Number : invoices[n] # None}
Active == {n \in Issued : invoices[n].status # "void"}
PaymentsOf(n) == {p \in Source : payments[p] # None /\ payments[p].invoice = n}

\* Unit k of payment p
Unit == Source \X (1..Total)

\* _successful_total: reversals do not lower it.
RecordedUnits(n) == {u \in Unit : u[1] \in PaymentsOf(n) /\ u[2] <= payments[u[1]].amount}
Recorded(n) == Cardinality(RecordedUnits(n))

Settled(p) == IF payments[p].reversal \in {"refunded", "disputed", "chargeback"}
              THEN 0 ELSE payments[p].amount - payments[p].reversed

\* amount_paid and amount_outstanding: what is left after reversals.
SettledUnits(n) == {u \in Unit : u[1] \in PaymentsOf(n) /\ u[2] <= Settled(u[1])}
AmountPaid(n) == Cardinality(SettledUnits(n))
Outstanding(n) == LET paid == AmountPaid(n) IN IF paid < Total THEN Total - paid ELSE 0

\* can_release_realestate_delivery without an override of staff
Released == Active # {} /\ \A n \in Active : Outstanding(n) = 0

\* Faulty: what was refunded or disputed may be paid again.
FitsOutstanding(n, amount) == amount <= Outstanding(n)

Fits(n, amount) == Recorded(n) + amount <= Total

\* record_realestate_payment with the statuses it refreshes; rows are those of
\* the handler so far.
Book(rows, n, p, amount) ==
  /\ rows[n].status # "void"
  /\ IF payments[p] # None
     THEN payments' = payments /\ invoices' = rows
     ELSE /\ Fits(n, amount)
          /\ payments' = [payments EXCEPT ![p] =
               [invoice |-> n, amount |-> amount, reversed |-> 0, reversal |-> "none"]]
          /\ invoices' = [rows EXCEPT ![n].status =
               IF Recorded(n) + amount >= Total THEN "paid" ELSE "partially_paid"]

-----------------------------------------------------------------------------
(* Staff *)

\* ensure_realestate_invoice under the enquiry's lock: the active invoice, or a
\* new one with the next document number.
Ensured == IF Active # {} THEN Active
           ELSE {n \in Number : n \notin Issued /\ \A m \in 1..(n - 1) : m \in Issued}

EnsuredRows(n) ==
  IF n \in Issued THEN invoices
  ELSE [invoices EXCEPT ![n] =
          [status |-> "issued", manual |-> FALSE, session |-> None,
           revision |-> 0, outOfBand |-> FALSE]]

IssueInvoice ==
  /\ Active = {}
  /\ \E n \in Ensured : invoices' = EnsuredRows(n)
  /\ UNCHANGED <<payments, warned, creating, stripeVars, eventVars>>

\* Cash, bank transfer or another payment that staff enter.
RecordManualPayment(n, p, amount) ==
  /\ n \in Issued /\ captured[p] = None
  /\ Book(invoices, n, p, amount)
  /\ captured' = [captured EXCEPT ![p] =
                    [amount |-> amount, refunded |-> 0, dispute |-> "none"]]
  /\ UNCHANGED <<warned, creating, charged, stripe, eventVars>>

\* create_realestate_balance_checkout_session up to Stripe's answer, which is
\* the same for the same number and amount.
CreateSession(r) ==
  /\ creating[r] = None
  /\ \E n \in Ensured :
       LET rows == EnsuredRows(n)
           due == [invoice |-> n, amount |-> Outstanding(n)]
           known == {s \in Sessions : charged[s] = due}
       IN /\ due.amount > 0
          /\ \E s \in IF known # {} THEN known ELSE {s \in Sessions : charged[s] = None} :
               /\ charged' = [charged EXCEPT ![s] = due]
               /\ creating' = [creating EXCEPT ![r] = s]
          /\ invoices' = rows
  /\ UNCHANGED <<payments, warned, stripe, captured, eventVars>>

StoreSession(r) ==
  /\ creating[r] # None
  /\ invoices' = [invoices EXCEPT ![charged[creating[r]].invoice].session = creating[r]]
  /\ creating' = [creating EXCEPT ![r] = None]
  /\ UNCHANGED <<payments, warned, stripeVars, eventVars>>

AbandonSession(r) ==
  /\ creating[r] # None
  /\ creating' = [creating EXCEPT ![r] = None]
  /\ UNCHANGED <<rowVars, stripeVars, eventVars>>

StripeInvoices ==
  Cardinality({u \in Number \X (1..MaxStripe) :
                 stripe[u[1]] # None /\ u[2] <= stripe[u[1]].revisions})

Event(type, n, revision, superseded) ==
  [type |-> type, number |-> n, revision |-> revision, superseded |-> superseded]

\* create_stripe_invoice: all Stripe calls happen under the invoice's row lock,
\* with idempotency keys made of its number, so that a second try meets the
\* Stripe invoice of the first.
MakeStripeInvoice(n) ==
  /\ n \in Issued /\ invoices[n].status \in {"issued", "partially_paid"}
  /\ invoices[n].revision = 0
  /\ IF stripe[n] = None
     THEN /\ StripeInvoices < MaxStripe
          /\ stripe' = [stripe EXCEPT ![n] = [revisions |-> 1, status |-> "open"]]
          /\ invoiceEvents' = invoiceEvents \union {Event("open", n, 1, FALSE)}
     ELSE UNCHANGED <<stripe, invoiceEvents>>
  /\ UNCHANGED <<payments, warned, creating, charged, captured,
                 sessionEvents, chargeEvents>>

CreateStripeInvoice(n) ==
  /\ MakeStripeInvoice(n)
  /\ invoices' = [invoices EXCEPT ![n].revision = 1]

\* The answer, or the transaction, is lost after Stripe finalized the invoice.
CreateStripeInvoiceFails(n) == MakeStripeInvoice(n) /\ UNCHANGED invoices

\* void_local_realestate_invoice of an invoice that is not a deposit.
VoidLocal(n) ==
  /\ n \in Issued /\ invoices[n].status \in {"issued", "overdue"}
  /\ PaymentsOf(n) = {}
  /\ invoices[n].revision = 0 /\ invoices[n].session = None
  /\ invoices' = [invoices EXCEPT ![n].status = "void", ![n].manual = TRUE]
  /\ UNCHANGED <<payments, warned, creating, stripeVars, eventVars>>

-----------------------------------------------------------------------------
(* Stripe invoice revisions *)

Tip(n) == [revision |-> stripe[n].revisions, status |-> stripe[n].status]

\* Faulty: the invoice of the event is taken as the current one.
CurrentIsEvent(e) == [revision |-> e.revision, status |-> e.type]

\* follow_latest_revisions from the event's payload: it knows of later revisions
\* only if they existed when the event was made, and then ends at the last.
Current(e) == IF e.superseded THEN Tip(e.number)
              ELSE [revision |-> e.revision, status |-> e.type]

\* resolve_invoice_event raises without an anchor, and for an ancestor whose
\* payload does not lead to the stored invoice.
Resolvable(e) ==
  /\ invoices[e.number] # None /\ invoices[e.number].revision # 0
  /\ e.revision >= invoices[e.number].revision \/ e.superseded

Restorable(n) ==
  invoices[n].status = "void" /\ PaymentsOf(n) = {} /\ ~invoices[n].manual

\* apply_revision_snapshot; the unique constraint on active invoices refuses to
\* restore one that was replaced.
Restored(n, current) == current.status = "open" /\ Restorable(n)
Applies(n, current) == Restored(n, current) => Active = {}
Snapshot(n, current) ==
  [invoices EXCEPT
     ![n].revision = current.revision,
     ![n].status = IF Restored(n, current) THEN "issued" ELSE @]

\* send_stripe_invoice of an invoice that Stripe has: a reminder.
SendReminder(n) ==
  /\ n \in Issued /\ invoices[n].revision # 0
  /\ stripe[n].status = "open" /\ Applies(n, Tip(n))
  /\ invoices' = Snapshot(n, Tip(n))
  /\ UNCHANGED <<payments, warned, creating, stripeVars, eventVars>>

\* mark_stripe_invoice_paid_out_of_band: only what is settled here is closed there.
MarkPaidOutOfBand(n) ==
  /\ n \in Issued /\ invoices[n].revision # 0 /\ ~invoices[n].outOfBand
  /\ Applies(n, Tip(n)) /\ Outstanding(n) = 0
  /\ stripe[n].status \in {"open", "uncollectible"}
  /\ stripe' = [stripe EXCEPT ![n].status = "paid"]
  /\ invoiceEvents' = invoiceEvents \union
                        {Event("paid", n, stripe[n].revisions, FALSE)}
  /\ invoices' = [Snapshot(n, Tip(n)) EXCEPT ![n].outOfBand = TRUE]
  /\ UNCHANGED <<payments, warned, creating, charged, captured,
                 sessionEvents, chargeEvents>>

\* reconcile_realestate_stripe_invoice_revisions --apply
Reconcile(n) ==
  /\ n \in Issued /\ invoices[n].revision # 0
  /\ stripe[n].status = "paid" => Recorded(n) = Total
  /\ invoices[n].status = "paid" => stripe[n].status = "paid"
  /\ ~(invoices[n].status = "void" /\ invoices[n].manual)
  /\ stripe[n].status = "open" => Recorded(n) = 0
  /\ Applies(n, Tip(n))
  /\ invoices' = Snapshot(n, Tip(n))
  /\ UNCHANGED <<payments, warned, creating, stripeVars, eventVars>>

-----------------------------------------------------------------------------
(* Webhook: each event is handled in one transaction.  A handler that raises
   changes nothing, and Stripe delivers the event again. *)

Reopenable(n) == ~invoices[n].manual /\ PaymentsOf(n) = {}

ApplyPaid(n, rows) ==
  LET open == IF rows[n].status = "void"
              THEN [rows EXCEPT ![n].status = "issued"] ELSE rows
  IN /\ rows[n].status = "void" => Reopenable(n) /\ Active = {}
     /\ Outstanding(n) \in {0, Total}
     /\ IF Outstanding(n) = 0
        THEN invoices' = open /\ UNCHANGED payments
        ELSE Book(open, n, n, Total)

\* Only an event of the current revision has an effect beyond the snapshot.
HandleInvoiceEvent(e) ==
  LET n == e.number
      current == Current(e)
      rows == Snapshot(n, current)
  IN /\ e \in invoiceEvents /\ Resolvable(e) /\ Applies(n, current)
     /\ CASE current.revision # e.revision -> invoices' = rows /\ UNCHANGED payments
          [] OTHER ->
               CASE e.type = "paid" -> ApplyPaid(n, rows)
                 [] e.type = "void" /\ AmountPaid(n) = 0 ->
                      invoices' = [rows EXCEPT ![n].status = "void"] /\ UNCHANGED payments
                 [] e.type = "uncollectible" ->
                      invoices' = [rows EXCEPT ![n].status = "overdue"] /\ UNCHANGED payments
                 [] OTHER -> invoices' = rows /\ UNCHANGED payments
     /\ invoiceEvents' = invoiceEvents \ {e}
     /\ UNCHANGED <<warned, creating, stripeVars, sessionEvents, chargeEvents>>

\* _handle_realestate_deposit_payment of a balance Session: it charges for the
\* active invoice, is the stored one, and what is outstanding is what it took.
AcceptsSession(s, n) ==
  /\ charged[s].invoice = n
  /\ invoices[n].session \in {None, s}
  /\ payments[s] = None => charged[s].amount = Outstanding(n)

HandleSessionEvent(s) ==
  /\ s \in sessionEvents
  /\ \E n \in Ensured :
       AcceptsSession(s, n) /\ Book(EnsuredRows(n), n, s, charged[s].amount)
  /\ sessionEvents' = sessionEvents \ {s}
  /\ UNCHANGED <<warned, creating, stripeVars, invoiceEvents, chargeEvents>>

ByRefund(p, reversed) == IF reversed = 0 THEN "none"
                         ELSE IF reversed < payments[p].amount THEN "partial" ELSE "refunded"

\* Faulty: a refund event's cumulative amount is added to the row.
ReversedAdding(p, e) ==
  CASE e.type = "refunded" ->
         [payments[p] EXCEPT !.reversed = @ + e.refunded,
                             !.reversal = "partial"]
    [] e.type = "won" -> [payments[p] EXCEPT !.reversal = ByRefund(p, payments[p].reversed)]
    [] e.type = "lost" -> [payments[p] EXCEPT !.reversal = "chargeback"]
    [] OTHER -> [payments[p] EXCEPT !.reversal = "disputed"]

\* Faulty: a dispute that was won clears the payment's reversal.
ReversedClearing(p, e) ==
  CASE e.type = "refunded" ->
         [payments[p] EXCEPT !.reversed = e.refunded, !.reversal = ByRefund(p, e.refunded)]
    [] e.type = "won" -> [payments[p] EXCEPT !.reversed = 0, !.reversal = "none"]
    [] e.type = "lost" -> [payments[p] EXCEPT !.reversal = "chargeback"]
    [] OTHER -> [payments[p] EXCEPT !.reversal = "disputed"]

\* What a reversal event writes over the row, whatever was there.
Reversed(p, e) ==
  CASE e.type = "refunded" ->
         [payments[p] EXCEPT !.reversed = e.refunded, !.reversal = ByRefund(p, e.refunded)]
    [] e.type = "won" -> [payments[p] EXCEPT !.reversal = ByRefund(p, payments[p].reversed)]
    [] e.type = "lost" -> [payments[p] EXCEPT !.reversal = "chargeback"]
    [] OTHER -> [payments[p] EXCEPT !.reversal = "disputed"]

\* _handle_realestate_reversal_event: without a row, only a warning is left.
HandleChargeEvent(e) ==
  /\ e \in chargeEvents
  /\ IF payments[e.source] = None
     THEN warned' = warned \union {e.source} /\ UNCHANGED payments
     ELSE payments' = [payments EXCEPT ![e.source] = Reversed(e.source, e)]
            /\ UNCHANGED warned
  /\ chargeEvents' = chargeEvents \ {e}
  /\ UNCHANGED <<invoices, creating, stripeVars, sessionEvents, invoiceEvents>>

-----------------------------------------------------------------------------
(* Stripe and the client *)

\* Room for k more events.
Room(k) == Cardinality(sessionEvents) + Cardinality(invoiceEvents)
             + Cardinality(chargeEvents) + k <= MaxPending

Capture(p, amount) ==
  captured' = [captured EXCEPT ![p] =
                 [amount |-> amount, refunded |-> 0, dispute |-> "none"]]

PaySession(s) ==
  /\ charged[s] # None /\ captured[s] = None /\ Room(1)
  /\ Capture(s, charged[s].amount)
  /\ sessionEvents' = sessionEvents \union {s}
  /\ UNCHANGED <<rowVars, creating, charged, stripe, invoiceEvents, chargeEvents>>

\* Paid, voided or given up; the events of one invoice may pile up.
CloseStripeInvoice(n, outcome) ==
  /\ stripe[n] # None /\ Room(1)
  /\ stripe[n].status \in IF outcome = "uncollectible" THEN {"open"}
                          ELSE {"open", "uncollectible"}
  /\ stripe' = [stripe EXCEPT ![n].status = outcome]
  /\ invoiceEvents' = invoiceEvents \union
                        {Event(outcome, n, stripe[n].revisions, FALSE)}
  /\ IF outcome = "paid" THEN Capture(n, Total) ELSE UNCHANGED captured
  /\ UNCHANGED <<rowVars, creating, charged, sessionEvents, chargeEvents>>

\* A new revision replaces the open invoice, which becomes void.
Revise(n) ==
  /\ stripe[n] # None /\ stripe[n].status = "open"
  /\ StripeInvoices < MaxStripe /\ Room(2)
  /\ stripe' = [stripe EXCEPT ![n].revisions = @ + 1]
  /\ invoiceEvents' = invoiceEvents \union
       {Event("void", n, stripe[n].revisions, TRUE),
        Event("open", n, stripe[n].revisions + 1, FALSE)}
  /\ UNCHANGED <<rowVars, creating, charged, captured, sessionEvents, chargeEvents>>

Charges == {p \in Sessions \union Number : captured[p] # None}
Reversing == {p \in Charges : captured[p].refunded > 0 \/ captured[p].dispute # "none"}

Emit(p, type, money) ==
  /\ Room(1) /\ Cardinality(Reversing \union {p}) <= MaxReversed
  /\ captured' = [captured EXCEPT ![p] = money]
  /\ chargeEvents' = chargeEvents \union
                       {[type |-> type, source |-> p, refunded |-> money.refunded]}
  /\ UNCHANGED <<rowVars, creating, charged, stripe, sessionEvents, invoiceEvents>>

Refund(p) ==
  /\ p \in Charges /\ captured[p].dispute \notin {"open", "lost"}
  /\ \E r \in (captured[p].refunded + 1)..captured[p].amount :
       Emit(p, "refunded", [captured[p] EXCEPT !.refunded = r])

Dispute(p) ==
  /\ p \in Charges /\ captured[p].dispute = "none"
  /\ Emit(p, "disputed", [captured[p] EXCEPT !.dispute = "open"])

CloseDispute(p, outcome) ==
  /\ p \in Charges /\ captured[p].dispute = "open"
  /\ Emit(p, outcome, [captured[p] EXCEPT !.dispute = outcome])

\* What staff can do from an enquiry's operations page.
OperationsAction ==
  \/ IssueInvoice
  \/ \E n \in Number :
       \/ \E p \in Receipts, amount \in 1..Total : RecordManualPayment(n, p, amount)
       \/ CreateStripeInvoice(n) \/ CreateStripeInvoiceFails(n)
       \/ SendReminder(n) \/ MarkPaidOutOfBand(n)

Next ==
  \/ OperationsAction
  \/ \E r \in Requests : CreateSession(r) \/ StoreSession(r) \/ AbandonSession(r)
  \/ \E n \in Number :
       \/ VoidLocal(n) \/ Reconcile(n)
       \/ \E outcome \in {"paid", "void", "uncollectible"} : CloseStripeInvoice(n, outcome)
       \/ Revise(n)
  \/ \E s \in Sessions : PaySession(s) \/ HandleSessionEvent(s)
  \/ \E e \in invoiceEvents : HandleInvoiceEvent(e)
  \/ \E e \in chargeEvents : HandleChargeEvent(e)
  \/ \E p \in Sessions \union Number :
       Refund(p) \/ Dispute(p) \/ \E outcome \in {"won", "lost"} : CloseDispute(p, outcome)

Spec == Init /\ [][Next]_vars

-----------------------------------------------------------------------------
\* Whatever the client pays twice, and however refunds and disputes end, an
\* invoice is never settled for more than it asks, and a payment booked as Stripe's
\* is money that Stripe took for that invoice.
BookedIsTaken(p) ==
  /\ captured[p] # None /\ captured[p].amount = payments[p].amount
  /\ payments[p].invoice = IF p \in Sessions THEN charged[p].invoice ELSE p
NeverOverpaid ==
  /\ \A n \in Issued : AmountPaid(n) <= Total
  /\ \A p \in Sessions \union Number : payments[p] # None => BookedIsTaken(p)

\* Refunds, open disputes and lost disputes lock the media again: once the events
\* of a charge are handled, in whatever order, nothing is released on money that
\* is not held, unless staff were warned of a reversal that matched no payment.
Held(p) == IF captured[p].dispute \in {"open", "lost"} THEN 0
           ELSE captured[p].amount - captured[p].refunded
HeldUnits(n) == {u \in Unit : u[1] \in PaymentsOf(n) /\ u[2] <= Held(u[1])}
ReversalsLock ==
  chargeEvents = {} /\ Released =>
    \/ warned # {}
    \/ \A n \in Active : Cardinality(HeldUnits(n)) >= Total

\* The stored Stripe invoice is never rolled back to an earlier revision.
RevisionForward ==
  [][\A n \in Issued : invoices'[n].revision >= invoices[n].revision]_vars
=============================================================================
