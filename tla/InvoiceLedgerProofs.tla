------------------------ MODULE InvoiceLedgerProofs -------------------------
(***************************************************************************)
(* Theorems of InvoiceLedger for any number of invoices, Sessions,         *)
(* receipts, requests, revisions and events and any total.                 *)
(***************************************************************************)
EXTENDS InvoiceLedger, FiniteSetTheorems, TLAPS

\* A row's revision exists at Stripe.
RowsOK(rows, kept) ==
  /\ rows \in [Number -> Invoice \union {None}]
  /\ \A n \in Number : rows[n] # None /\ rows[n].revision # 0
                         => kept[n] # None /\ rows[n].revision <= kept[n].revisions

\* No row disappears and no revision goes back.
Above(rows, before) ==
  \A n \in Number : before[n] # None
                      => rows[n] # None /\ rows[n].revision >= before[n].revision

\* A Session charges for an invoice that was issued, and a request knows the
\* Session it made.
LinksOK ==
  /\ \A s \in Sessions : charged[s] # None => invoices[charged[s].invoice] # None
  /\ \A r \in Requests : creating[r] # None => charged[creating[r]] # None

\* Money that was taken is what its Session or its Stripe invoice asked for.
MoneyOK(p) ==
  captured[p] # None =>
    /\ captured[p].refunded <= captured[p].amount
    /\ p \in Sessions => charged[p] # None /\ captured[p].amount = charged[p].amount
    /\ p \in Number => stripe[p] # None /\ stripe[p].status = "paid" /\ captured[p].amount = Total
    /\ p \in Receipts => captured[p].refunded = 0 /\ captured[p].dispute = "none"

\* A row stands for money that was taken for that invoice.
BookOK(p) ==
  payments[p] # None =>
    /\ captured[p] # None /\ captured[p].amount = payments[p].amount
    /\ payments[p].reversed <= payments[p].amount
    /\ p \in Sessions => payments[p].invoice = charged[p].invoice
    /\ p \in Number => payments[p].invoice = p

\* An invoice Stripe says is paid was paid there, or settled here before.
InvoiceEventOK(e) ==
  /\ stripe[e.number] # None /\ e.revision <= stripe[e.number].revisions
  /\ e.type = "paid" => captured[e.number] # None \/ PaymentsOf(e.number) # {}

ChargeEventOK(e) ==
  /\ captured[e.source] # None /\ e.refunded <= captured[e.source].amount
  /\ e.type = "refunded" => e.refunded > 0
  /\ e.type = "won" => captured[e.source].dispute = "won"

EventsOK ==
  /\ \A e \in invoiceEvents : InvoiceEventOK(e)
  /\ \A e \in chargeEvents : ChargeEventOK(e)
  /\ \A s \in sessionEvents : captured[s] # None

Pending(p, types) == \E e \in chargeEvents : e.source = p /\ e.type \in types

\* A refund, or a dispute that is not won, is still to be handled, or it is on the
\* row, or staff were warned that there was no row for it.  A later event never
\* takes it off the row again.
LockOK(p) ==
  captured[p] # None /\ p \notin warned =>
    /\ captured[p].refunded > 0 =>
         \/ Pending(p, {"refunded"})
         \/ payments[p] # None /\ payments[p].reversed > 0
    /\ captured[p].dispute \in {"open", "lost"} =>
         \/ Pending(p, {"disputed", "lost"})
         \/ /\ payments[p] # None
            /\ payments[p].reversed > 0 \/ payments[p].reversal \in {"disputed", "chargeback"}

LedgerInv ==
  /\ TypeOK
  /\ RowsOK(invoices, stripe)
  /\ LinksOK
  /\ \A p \in Source : MoneyOK(p) /\ BookOK(p) /\ LockOK(p)
  /\ EventsOK
  /\ \A n \in Number : Recorded(n) <= Total

-----------------------------------------------------------------------------
(* Money as sets of units *)

LEMMA Bounds ==
  /\ Total \in Nat \ {0} /\ MaxStripe \in Nat \ {0} /\ MaxNumber \in Nat \ {0}
  /\ Number \subseteq Nat \ {0} /\ Number \subseteq Source /\ Sessions \subseteq Source
  /\ Receipts \subseteq Source
  /\ Sessions \intersect Receipts = {} /\ Sessions \intersect Number = {}
  /\ Receipts \intersect Number = {}
  /\ None \notin Source /\ IsFiniteSet(Source)
<1>1. Number \subseteq Nat \ {0}  BY LedgerAssumption DEF Number
<1> QED  BY <1>1, LedgerAssumption DEF Source

LEMMA UnitsFinite ==
  /\ IsFiniteSet(Unit)
  /\ \A S \in SUBSET Unit : IsFiniteSet(S) /\ Cardinality(S) \in Nat
<1>1. IsFiniteSet(1..Total) /\ IsFiniteSet(Source)  BY Bounds, FS_Interval
<1>2. IsFiniteSet(Source \X (1..Total))  BY <1>1, FS_Product
<1>3. IsFiniteSet(Unit)  BY <1>2 DEF Unit
<1>4. ASSUME NEW S \in SUBSET Unit  PROVE IsFiniteSet(S) /\ Cardinality(S) \in Nat
  <2>1. IsFiniteSet(S)  BY <1>3, FS_Subset
  <2> QED  BY <2>1, FS_CardinalityType
<1> QED  BY <1>3, <1>4

LEMMA SumsAreNat ==
  ASSUME NEW n \in Number
  PROVE  /\ Recorded(n) \in Nat /\ AmountPaid(n) \in Nat
         /\ RecordedUnits(n) \in SUBSET Unit /\ SettledUnits(n) \in SUBSET Unit
<1>1. RecordedUnits(n) \in SUBSET Unit /\ SettledUnits(n) \in SUBSET Unit
  BY DEF RecordedUnits, SettledUnits
<1> QED  BY <1>1, UnitsFinite DEF Recorded, AmountPaid

\* Reversals only lower what an invoice has.
LEMMA SettledIsRecorded ==
  ASSUME TypeOK, \A p \in Source : BookOK(p), NEW n \in Number
  PROVE  /\ SettledUnits(n) \subseteq RecordedUnits(n)
         /\ AmountPaid(n) <= Recorded(n)
         /\ AmountPaid(n) = Recorded(n) => SettledUnits(n) = RecordedUnits(n)
<1>1. ASSUME NEW p \in PaymentsOf(n), NEW k \in 1..Total, k <= Settled(p)
      PROVE  k <= payments[p].amount
  <2>1. p \in Source /\ payments[p] # None  BY DEF PaymentsOf
  <2>2. payments[p] \in Payment  BY <2>1 DEF TypeOK
  <2>3. /\ payments[p].amount \in Nat /\ payments[p].reversed \in Nat
        /\ payments[p].reversed <= payments[p].amount
    BY <2>1, <2>2, Bounds DEF BookOK, Payment
  <2> QED  BY <1>1, <2>3, Bounds DEF Settled
<1>2. SettledUnits(n) \subseteq RecordedUnits(n)
  <2>1. ASSUME NEW u \in SettledUnits(n)  PROVE u \in RecordedUnits(n)
    <3>1. u \in Unit /\ u[1] \in PaymentsOf(n) /\ u[2] \in 1..Total /\ u[2] <= Settled(u[1])
      BY DEF SettledUnits, Unit
    <3> QED  BY <1>1, <3>1 DEF RecordedUnits
  <2> QED  BY <2>1
<1>3. IsFiniteSet(RecordedUnits(n))  BY SumsAreNat, UnitsFinite
<1> QED  BY <1>2, <1>3, FS_Subset DEF AmountPaid, Recorded

\* What is outstanding is a number up to the total.
LEMMA OutstandingTyped ==
  ASSUME NEW n \in Number
  PROVE  /\ Outstanding(n) \in 0..Total
         /\ Outstanding(n) = 0 <=> AmountPaid(n) >= Total
BY SumsAreNat, Bounds DEF Outstanding

\* An invoice that is settled has a payment, and one without has nothing.
LEMMA PaidHasPayment ==
  ASSUME NEW n \in Number, TypeOK
  PROVE  /\ Outstanding(n) = 0 => PaymentsOf(n) # {}
         /\ Recorded(n) = 0 => PaymentsOf(n) = {}
<1>1. ASSUME PaymentsOf(n) = {}  PROVE Outstanding(n) # 0
  <2>1. SettledUnits(n) = {}  BY <1>1 DEF SettledUnits
  <2>2. AmountPaid(n) = 0  BY <2>1, FS_EmptySet DEF AmountPaid
  <2> QED  BY <2>2, OutstandingTyped, Bounds
<1>2. ASSUME NEW p \in PaymentsOf(n)  PROVE Recorded(n) # 0
  <2>1. p \in Source /\ payments[p] # None  BY DEF PaymentsOf
  <2>2. payments[p] \in Payment  BY <2>1 DEF TypeOK
  <2>3. 1 \in 1..Total /\ 1 <= payments[p].amount  BY <2>2, Bounds DEF Payment
  <2>4. <<p, 1>> \in RecordedUnits(n)  BY <2>1, <2>3 DEF RecordedUnits, Unit
  <2>5. IsFiniteSet(RecordedUnits(n))  BY SumsAreNat, UnitsFinite
  <2> QED  BY <2>4, <2>5, FS_EmptySet DEF Recorded
<1> QED  BY <1>1, <1>2

\* A step that changes no amount and no invoice of a payment changes no sum.
LEMMA RecordedStays ==
  ASSUME TypeOK,
         \A p \in Source :
           /\ payments'[p] # None <=> payments[p] # None
           /\ payments[p] # None => /\ payments'[p].invoice = payments[p].invoice
                                    /\ payments'[p].amount = payments[p].amount,
         NEW n \in Number
  PROVE  PaymentsOf(n)' = PaymentsOf(n) /\ Recorded(n)' = Recorded(n)
<1>1. PaymentsOf(n)' = PaymentsOf(n)  BY DEF PaymentsOf
<1>2. \A p \in PaymentsOf(n) : payments'[p].amount = payments[p].amount
  BY DEF PaymentsOf
<1>3. RecordedUnits(n)' = RecordedUnits(n)  BY <1>1, <1>2 DEF RecordedUnits, Unit
<1> QED  BY <1>1, <1>3 DEF Recorded

\* A new payment adds its units.
LEMMA RecordedBook ==
  ASSUME TypeOK, \A m \in Number : Recorded(m) <= Total,
         NEW n \in Number, NEW p \in Source, NEW amount \in 1..Total,
         NEW row \in Payment, row.invoice = n, row.amount = amount,
         payments[p] = None, payments' = [payments EXCEPT ![p] = row], Fits(n, amount),
         NEW m \in Number
  PROVE  Recorded(m)' <= Total
<1>1. /\ payments'[p] = row /\ row # None
      /\ \A q \in Source : q # p => payments'[q] = payments[q]
  BY LedgerAssumption DEF TypeOK
<1>2. CASE m # n
  <2>1. PaymentsOf(m)' = PaymentsOf(m) /\ p \notin PaymentsOf(m)
    BY <1>1, <1>2 DEF PaymentsOf
  <2>2. RecordedUnits(m)' = RecordedUnits(m)
    BY <1>1, <2>1 DEF RecordedUnits, Unit
  <2> QED  BY <2>2 DEF Recorded
<1>3. CASE m = n
  <2> DEFINE New == {p} \X (1..amount)
  <2>1. PaymentsOf(n)' = PaymentsOf(n) \union {p} /\ p \notin PaymentsOf(n)
    BY <1>1 DEF PaymentsOf
  <2>2. RecordedUnits(n)' = RecordedUnits(n) \union New
    <3>1. ASSUME NEW u \in RecordedUnits(n)'  PROVE u \in RecordedUnits(n) \union New
      <4>1. /\ u \in Source \X (1..Total) /\ u[1] \in PaymentsOf(n)'
            /\ u[2] <= payments'[u[1]].amount
        BY DEF RecordedUnits, Unit
      <4>2. CASE u[1] = p
        <5>1. u[2] \in 1..amount  BY <1>1, <4>1, <4>2, Bounds
        <5> QED  BY <4>1, <4>2, <5>1
      <4>3. CASE u[1] # p
        BY <1>1, <2>1, <4>1, <4>3 DEF RecordedUnits, Unit
      <4> QED  BY <4>2, <4>3
    <3>2. ASSUME NEW u \in RecordedUnits(n)  PROVE u \in RecordedUnits(n)'
      BY <1>1, <2>1 DEF RecordedUnits, Unit
    <3>3. ASSUME NEW u \in New  PROVE u \in RecordedUnits(n)'
      <4>1. u \in Source \X (1..Total) /\ u[1] = p /\ u[2] <= amount  BY Bounds
      <4> QED  BY <1>1, <2>1, <4>1 DEF RecordedUnits, Unit
    <3> QED  BY <3>1, <3>2, <3>3
  <2>3. /\ IsFiniteSet(New) /\ Cardinality(New) = amount
    <3>1. IsFiniteSet({p}) /\ Cardinality({p}) = 1  BY FS_Singleton
    <3>2. IsFiniteSet(1..amount) /\ Cardinality(1..amount) = amount
      BY FS_Interval, Bounds
    <3>3. IsFiniteSet(New) /\ Cardinality(New) = 1 * amount
      BY <3>1, <3>2, FS_Product
    <3> QED  BY <3>3, Bounds
  <2>4. IsFiniteSet(RecordedUnits(n)) /\ Recorded(n) \in Nat  BY SumsAreNat, UnitsFinite
  <2>5. IsFiniteSet(RecordedUnits(n) \cap New) /\ Cardinality(RecordedUnits(n) \cap New) \in Nat
    BY <2>4, FS_Intersection, FS_CardinalityType
  <2> HIDE DEF New
  <2>6. Cardinality(RecordedUnits(n) \union New)
          = Cardinality(RecordedUnits(n)) + Cardinality(New)
              - Cardinality(RecordedUnits(n) \cap New)
    BY <2>3, <2>4, FS_Union
  <2>7. Recorded(n)' = Recorded(n) + amount - Cardinality(RecordedUnits(n) \cap New)
    BY <2>2, <2>3, <2>6 DEF Recorded
  <2>8. Recorded(n)' <= Recorded(n) + amount  BY <2>4, <2>5, <2>7, Bounds
  <2>9. Recorded(n)' \in Nat  BY <2>2, <2>3, <2>4, FS_Union, FS_CardinalityType DEF Recorded
  <2> QED  BY <1>3, <2>4, <2>8, <2>9, Bounds DEF Fits
<1> QED  BY <1>2, <1>3

-----------------------------------------------------------------------------
(* Rows *)

LEMMA AboveSelf ==
  ASSUME NEW rows, NEW kept, RowsOK(rows, kept)
  PROVE  Above(rows, rows)
<1>1. ASSUME NEW n \in Number, rows[n] # None
      PROVE  rows[n].revision >= rows[n].revision
  <2>1. rows[n] \in Invoice  BY <1>1 DEF RowsOK
  <2>2. rows[n].revision \in 0..MaxStripe  BY <2>1 DEF Invoice
  <2> QED  BY <2>2, Bounds
<1> QED  BY <1>1 DEF Above

\* A row that is written over keeps the revision, or gets a later one.
LEMMA RowPut ==
  ASSUME NEW rows, NEW kept, RowsOK(rows, kept), NEW n \in Number, rows[n] # None,
         NEW row \in Invoice, row.revision >= rows[n].revision,
         row.revision # 0 => kept[n] # None /\ row.revision <= kept[n].revisions
  PROVE  /\ RowsOK([rows EXCEPT ![n] = row], kept)
         /\ Above([rows EXCEPT ![n] = row], rows)
<1> DEFINE put == [rows EXCEPT ![n] = row]
<1>1. rows \in [Number -> Invoice \union {None}]  BY DEF RowsOK
<1>2. put[n] = row /\ row # None  BY <1>1, LedgerAssumption
<1>3. \A m \in Number : m # n => put[m] = rows[m]  BY <1>1
<1>4. put \in [Number -> Invoice \union {None}]  BY <1>1
<1>5. Above(rows, rows)  BY AboveSelf
<1> HIDE DEF put
<1>6. RowsOK(put, kept)  BY <1>2, <1>3, <1>4 DEF RowsOK
<1>7. Above(put, rows)  BY <1>2, <1>3, <1>5 DEF Above
<1> QED  BY <1>6, <1>7 DEF put

LEMMA StatusPut ==
  ASSUME NEW rows, NEW kept, RowsOK(rows, kept), NEW n \in Number, rows[n] # None,
         NEW status \in Statuses
  PROVE  /\ RowsOK([rows EXCEPT ![n].status = status], kept)
         /\ Above([rows EXCEPT ![n].status = status], rows)
<1> DEFINE row == [rows[n] EXCEPT !.status = status]
<1>1. rows \in [Number -> Invoice \union {None}] /\ rows[n] \in Invoice  BY DEF RowsOK
<1>2. row \in Invoice /\ row.revision = rows[n].revision  BY <1>1 DEF Invoice
<1>3. [rows EXCEPT ![n].status = status] = [rows EXCEPT ![n] = row]  BY <1>1
<1>4. rows[n].revision >= rows[n].revision  BY AboveSelf DEF Above
<1>5. row.revision # 0 => kept[n] # None /\ row.revision <= kept[n].revisions
  BY <1>2 DEF RowsOK
<1> HIDE DEF row
<1> QED  BY <1>2, <1>3, <1>4, <1>5, RowPut

\* A revision that Stripe adds takes none away.
LEMMA KeptGrows ==
  ASSUME NEW rows, NEW kept, NEW grown, RowsOK(rows, kept),
         \A n \in Number : kept[n] # None =>
           /\ kept[n].revisions \in Nat /\ grown[n].revisions \in Nat
           /\ grown[n] # None /\ grown[n].revisions >= kept[n].revisions
  PROVE  RowsOK(rows, grown)
<1>1. ASSUME NEW n \in Number, rows[n] # None
      PROVE  rows[n].revision \in Nat
  <2>1. rows[n] \in Invoice  BY <1>1 DEF RowsOK
  <2>2. rows[n].revision \in 0..MaxStripe  BY <2>1 DEF Invoice
  <2> QED  BY <2>2, Bounds
<1>2. ASSUME NEW n \in Number, rows[n] # None, rows[n].revision # 0
      PROVE  grown[n] # None /\ rows[n].revision <= grown[n].revisions
  <2>1. kept[n] # None /\ rows[n].revision <= kept[n].revisions  BY <1>2 DEF RowsOK
  <2> QED  BY <1>1, <1>2, <2>1
<1> QED  BY <1>2 DEF RowsOK

LEMMA AboveTrans ==
  ASSUME NEW a, NEW b, NEW c, NEW kept,
         RowsOK(a, kept), RowsOK(b, kept), RowsOK(c, kept), Above(b, a), Above(c, b)
  PROVE  Above(c, a)
<1>1. ASSUME NEW rows, RowsOK(rows, kept), NEW n \in Number, rows[n] # None
      PROVE  rows[n].revision \in Nat
  BY <1>1, Bounds DEF RowsOK, Invoice
<1>2. ASSUME NEW n \in Number, a[n] # None
      PROVE  c[n] # None /\ c[n].revision >= a[n].revision
  <2>1. b[n] # None /\ b[n].revision >= a[n].revision  BY <1>2 DEF Above
  <2>2. c[n] # None /\ c[n].revision >= b[n].revision  BY <2>1 DEF Above
  <2>3. a[n].revision \in Nat /\ b[n].revision \in Nat /\ c[n].revision \in Nat
    BY <1>1, <1>2, <2>1, <2>2
  <2> QED  BY <2>1, <2>2, <2>3
<1> QED  BY <1>2 DEF Above

\* Issuing an invoice, or finding the active one
LEMMA Ensures ==
  ASSUME LedgerInv, NEW n \in Ensured
  PROVE  /\ n \in Number
         /\ RowsOK(EnsuredRows(n), stripe) /\ Above(EnsuredRows(n), invoices)
         /\ EnsuredRows(n)[n] # None
<1>1. n \in Number  BY DEF Ensured, Active, Issued
<1>2. RowsOK(invoices, stripe) /\ Above(invoices, invoices)  BY AboveSelf DEF LedgerInv
<1>3. CASE n \in Issued  BY <1>1, <1>2, <1>3 DEF EnsuredRows, Issued
<1>4. CASE n \notin Issued
  <2> DEFINE row == [status |-> "issued", manual |-> FALSE, session |-> None,
                     revision |-> 0, outOfBand |-> FALSE]
  <2>1. invoices[n] = None /\ EnsuredRows(n) = [invoices EXCEPT ![n] = row]
    BY <1>1, <1>4 DEF Issued, EnsuredRows
  <2>2. row \in Invoice /\ row.revision = 0  BY Bounds DEF Invoice, Statuses
  <2>3. row # None  BY <2>2, LedgerAssumption
  <2> HIDE DEF row
  <2>4. /\ EnsuredRows(n)[n] = row /\ EnsuredRows(n) \in [Number -> Invoice \union {None}]
        /\ \A m \in Number : m # n => EnsuredRows(n)[m] = invoices[m]
    BY <1>1, <1>2, <2>1, <2>2 DEF RowsOK
  <2>5. RowsOK(EnsuredRows(n), stripe)  BY <1>2, <2>2, <2>4 DEF RowsOK
  <2>6. Above(EnsuredRows(n), invoices)  BY <1>2, <2>1, <2>4 DEF Above
  <2> QED  BY <1>1, <2>3, <2>4, <2>5, <2>6
<1> QED  BY <1>3, <1>4

\* apply_revision_snapshot only goes forward to a revision that exists.
LEMMA Snapshots ==
  ASSUME LedgerInv, NEW n \in Number, invoices[n] # None, stripe[n] # None,
         NEW current, current.revision \in 1..MaxStripe,
         invoices[n].revision <= current.revision,
         current.revision <= stripe[n].revisions
  PROVE  /\ RowsOK(Snapshot(n, current), stripe) /\ Above(Snapshot(n, current), invoices)
         /\ Snapshot(n, current)[n] # None
         /\ Restored(n, current) <=> Snapshot(n, current)[n].status # invoices[n].status
<1>1. invoices \in [Number -> Invoice \union {None}] /\ invoices[n] \in Invoice
  BY DEF LedgerInv, RowsOK
<1>2. RowsOK(invoices, stripe) /\ Above(invoices, invoices)  BY AboveSelf DEF LedgerInv
<1> DEFINE row == [invoices[n] EXCEPT !.revision = current.revision,
                     !.status = IF Restored(n, current) THEN "issued" ELSE @]
<1>3. row \in Invoice /\ row.revision = current.revision
  <2>1. "issued" \in Statuses /\ current.revision \in 0..MaxStripe  BY Bounds DEF Statuses
  <2> QED  BY <1>1, <2>1 DEF Invoice
<1>4. Snapshot(n, current) = [invoices EXCEPT ![n] = row]  BY <1>1 DEF Snapshot
<1>5. row # None  BY <1>3, LedgerAssumption
<1>6. row.status = IF Restored(n, current) THEN "issued" ELSE invoices[n].status
  BY <1>1 DEF Invoice
<1> HIDE DEF row
<1>7. /\ Snapshot(n, current)[n] = row
      /\ Snapshot(n, current) \in [Number -> Invoice \union {None}]
      /\ \A m \in Number : m # n => Snapshot(n, current)[m] = invoices[m]
  BY <1>1, <1>3, <1>4
<1>8. RowsOK(Snapshot(n, current), stripe)  BY <1>2, <1>3, <1>7 DEF RowsOK
<1>9. Above(Snapshot(n, current), invoices)  BY <1>2, <1>3, <1>5, <1>7 DEF Above
<1>10. Restored(n, current) => invoices[n].status = "void"  BY DEF Restored, Restorable
<1> QED  BY <1>5, <1>6, <1>7, <1>8, <1>9, <1>10

-----------------------------------------------------------------------------
(* What no step takes back *)

Monotone ==
  /\ Above(invoices', invoices)
  /\ \A s \in Sessions : charged[s] # None => charged'[s] = charged[s]
  /\ \A n \in Number : stripe[n] # None =>
       /\ stripe'[n] # None /\ stripe'[n].revisions >= stripe[n].revisions
       /\ stripe[n].status = "paid" => stripe'[n].status = "paid"
  /\ \A p \in Source : captured[p] # None =>
       /\ captured'[p] # None /\ captured'[p].amount = captured[p].amount
       /\ captured[p].dispute = "won" => captured'[p].dispute = "won"
  /\ \A p \in Source : payments[p] # None =>
       /\ payments'[p] # None
       /\ payments'[p].invoice = payments[p].invoice /\ payments'[p].amount = payments[p].amount

\* Nothing about p's reversals changes, or what changes is on its side.
Quiet(p) ==
  /\ captured'[p] = captured[p]
  /\ p \in warned => p \in warned'
  /\ payments[p] # None => payments'[p] = payments[p]
  /\ \A e \in chargeEvents : e.source = p => e \in chargeEvents'

LEMMA EventStays ==
  ASSUME TypeOK, TypeOK', Monotone, NEW e \in InvoiceEvent, InvoiceEventOK(e)
  PROVE  InvoiceEventOK(e)'
<1>1. e.number \in Number /\ e.revision \in Nat /\ e.number \in Source
  <2>1. e.number \in Number /\ e.revision \in 1..MaxStripe  BY DEF InvoiceEvent
  <2>2. MaxStripe \in Nat /\ Number \subseteq Source  BY Bounds
  <2> QED  BY <2>1, <2>2
<1>2. /\ stripe[e.number] # None /\ e.revision <= stripe[e.number].revisions
      /\ stripe'[e.number] # None /\ stripe'[e.number].revisions >= stripe[e.number].revisions
  BY <1>1 DEF InvoiceEventOK, Monotone
<1>3. stripe[e.number] \in Revisions /\ stripe'[e.number] \in Revisions
  BY <1>1, <1>2 DEF TypeOK
<1>4. e.revision <= stripe'[e.number].revisions
  BY <1>1, <1>2, <1>3, Bounds DEF Revisions
<1>5. PaymentsOf(e.number) # {} => PaymentsOf(e.number)' # {}
  BY DEF PaymentsOf, Monotone
<1>6. captured[e.number] # None => captured'[e.number] # None  BY <1>1 DEF Monotone
<1> QED  BY <1>2, <1>4, <1>5, <1>6 DEF InvoiceEventOK

LEMMA ChargeEventStays ==
  ASSUME TypeOK, Monotone, NEW e \in ChargeEvent, ChargeEventOK(e)
  PROVE  ChargeEventOK(e)'
<1>1. e.source \in Source  BY Bounds DEF ChargeEvent
<1> QED  BY <1>1 DEF ChargeEventOK, Monotone

LEMMA MoneyStays ==
  ASSUME Monotone, NEW p \in Source, MoneyOK(p), captured'[p] = captured[p]
  PROVE  MoneyOK(p)'
<1>1. CASE captured[p] = None  BY <1>1 DEF MoneyOK
<1>2. CASE captured[p] # None
  <2>1. p \in Sessions => charged'[p] = charged[p]  BY <1>2 DEF MoneyOK, Monotone
  <2>2. p \in Number => stripe'[p] # None /\ stripe'[p].status = "paid"
    BY <1>2 DEF MoneyOK, Monotone
  <2> QED  BY <1>2, <2>1, <2>2 DEF MoneyOK
<1> QED  BY <1>1, <1>2

LEMMA BookStays ==
  ASSUME Monotone, NEW p \in Source, MoneyOK(p), BookOK(p), payments'[p] = payments[p]
  PROVE  BookOK(p)'
<1>1. CASE payments[p] = None  BY <1>1 DEF BookOK
<1>2. CASE payments[p] # None
  <2>1. captured'[p] # None /\ captured'[p].amount = captured[p].amount
    BY <1>2 DEF BookOK, Monotone
  <2>2. p \in Sessions => charged'[p] = charged[p]
    BY <1>2 DEF BookOK, MoneyOK, Monotone
  <2> QED  BY <1>2, <2>1, <2>2 DEF BookOK
<1> QED  BY <1>1, <1>2

LEMMA LockStays ==
  ASSUME NEW p \in Source, LockOK(p), Quiet(p)
  PROVE  LockOK(p)'
<1>1. \A types : Pending(p, types) => \E e \in chargeEvents' : e.source = p /\ e.type \in types
  BY DEF Pending, Quiet
<1> QED  BY <1>1 DEF LockOK, Quiet, Pending

\* What is new in a step has to be looked at; the rest stays.
LEMMA Assemble ==
  ASSUME LedgerInv, Monotone, TypeOK', RowsOK(invoices', stripe'), LinksOK',
         \A e \in invoiceEvents' : e \in invoiceEvents \/ InvoiceEventOK(e)',
         \A e \in chargeEvents' : e \in chargeEvents \/ ChargeEventOK(e)',
         \A s \in sessionEvents' : s \in sessionEvents \/ captured'[s] # None,
         \A p \in Source : captured'[p] = captured[p] \/ MoneyOK(p)',
         \A p \in Source : payments'[p] = payments[p] \/ BookOK(p)',
         \A p \in Source : Quiet(p) \/ LockOK(p)',
         \A n \in Number : Recorded(n)' <= Total
  PROVE  LedgerInv'
<1>1. TypeOK  BY DEF LedgerInv
<1>2. \A p \in Source : MoneyOK(p)'  BY MoneyStays DEF LedgerInv
<1>3. \A p \in Source : BookOK(p)'  BY BookStays DEF LedgerInv
<1>4. \A p \in Source : LockOK(p)'  BY LockStays DEF LedgerInv
<1>5. \A e \in invoiceEvents' : InvoiceEventOK(e)'
  <2>1. \A e \in invoiceEvents : InvoiceEventOK(e) /\ e \in InvoiceEvent
    BY <1>1 DEF LedgerInv, EventsOK, TypeOK
  <2> QED  BY <1>1, <2>1, EventStays
<1>6. \A e \in chargeEvents' : ChargeEventOK(e)'
  <2>1. \A e \in chargeEvents : ChargeEventOK(e) /\ e \in ChargeEvent
    BY <1>1 DEF LedgerInv, EventsOK, TypeOK
  <2> QED  BY <1>1, <2>1, ChargeEventStays
<1>7. \A s \in sessionEvents' : captured'[s] # None
  <2>1. \A s \in sessionEvents : s \in Source /\ captured[s] # None
    BY <1>1, Bounds DEF LedgerInv, EventsOK, TypeOK
  <2> QED  BY <2>1 DEF Monotone
<1>8. EventsOK'  BY <1>5, <1>6, <1>7 DEF EventsOK
<1> QED  BY <1>2, <1>3, <1>4, <1>8 DEF LedgerInv

\* Steps that leave the payments and the money alone
LEMMA Steady ==
  ASSUME LedgerInv, TypeOK', RowsOK(invoices', stripe'), LinksOK', Above(invoices', invoices),
         UNCHANGED <<payments, warned, captured, chargeEvents, sessionEvents>>,
         \A s \in Sessions : charged[s] # None => charged'[s] = charged[s],
         \A n \in Number : stripe[n] # None =>
           /\ stripe'[n] # None /\ stripe'[n].revisions >= stripe[n].revisions
           /\ stripe[n].status = "paid" => stripe'[n].status = "paid",
         \A e \in invoiceEvents' : e \in invoiceEvents \/ InvoiceEventOK(e)'
  PROVE  LedgerInv'
<1>1. Monotone  BY DEF Monotone
<1>2. \A p \in Source : Quiet(p)  BY DEF Quiet
<1>3. \A n \in Number : Recorded(n)' <= Total
  BY RecordedStays DEF LedgerInv
<1> QED  BY <1>1, <1>2, <1>3, Assemble

\* Steps that only touch rows, and the Session a request holds
LEMMA RowsStep ==
  ASSUME LedgerInv, RowsOK(invoices', stripe), Above(invoices', invoices),
         UNCHANGED <<payments, warned, stripeVars, sessionEvents, chargeEvents>>,
         invoiceEvents' \subseteq invoiceEvents,
         creating' \in [Requests -> Sessions \union {None}],
         \A r \in Requests : creating'[r] \in {creating[r], None}
  PROVE  LedgerInv'
<1>1. TypeOK'  BY DEF LedgerInv, TypeOK, RowsOK, stripeVars
<1>2. LinksOK'
  <2>1. \A s \in Sessions : charged[s] # None => charged[s].invoice \in Number
    BY DEF LedgerInv, TypeOK, Due
  <2> QED  BY <2>1 DEF LedgerInv, LinksOK, Above, stripeVars
<1>3. UNCHANGED <<captured, chargeEvents, sessionEvents, charged, stripe>>
  BY DEF stripeVars
<1>4. \A n \in Number : stripe[n] # None => stripe'[n].revisions >= stripe[n].revisions
  <2>1. \A n \in Number : stripe[n] # None => stripe[n].revisions \in Nat
    BY Bounds DEF LedgerInv, TypeOK, Revisions
  <2> QED  BY <1>3, <2>1
<1> QED  BY <1>1, <1>2, <1>3, <1>4, Steady

-----------------------------------------------------------------------------
(* Staff *)

LEMMA IssueStep ==
  ASSUME LedgerInv, IssueInvoice
  PROVE  LedgerInv' /\ Above(invoices', invoices)
<1>1. PICK n \in Ensured : invoices' = EnsuredRows(n)  BY DEF IssueInvoice
<1>2. UNCHANGED <<payments, warned, creating, stripeVars, eventVars>>  BY DEF IssueInvoice
<1>3. creating \in [Requests -> Sessions \union {None}]  BY DEF LedgerInv, TypeOK
<1> QED  BY <1>1, <1>2, <1>3, Ensures, RowsStep DEF eventVars

LEMMA CreateSessionStep ==
  ASSUME LedgerInv, NEW r \in Requests, CreateSession(r)
  PROVE  LedgerInv' /\ Above(invoices', invoices)
<1>1. TypeOK  BY DEF LedgerInv
<1>2. PICK n \in Ensured :
        LET due == [invoice |-> n, amount |-> Outstanding(n)]
            known == {s \in Sessions : charged[s] = due}
        IN /\ due.amount > 0
           /\ \E s \in IF known # {} THEN known ELSE {s \in Sessions : charged[s] = None} :
                /\ charged' = [charged EXCEPT ![s] = due]
                /\ creating' = [creating EXCEPT ![r] = s]
           /\ invoices' = EnsuredRows(n)
  BY DEF CreateSession
<1> DEFINE due == [invoice |-> n, amount |-> Outstanding(n)]
<1>3. PICK s \in Sessions :
        /\ charged[s] \in {due, None}
        /\ charged' = [charged EXCEPT ![s] = due] /\ creating' = [creating EXCEPT ![r] = s]
  BY <1>2
<1>4. UNCHANGED <<payments, warned, stripe, captured, eventVars>>  BY DEF CreateSession
<1>5. /\ n \in Number /\ RowsOK(invoices', stripe) /\ Above(invoices', invoices)
      /\ invoices'[n] # None
  BY <1>2, Ensures
<1>6. due \in Due /\ due.invoice = n
  <2>1. Outstanding(n) \in 0..Total /\ Outstanding(n) > 0  BY <1>2, <1>5, OutstandingTyped
  <2>2. Outstanding(n) \in 1..Total  BY <2>1, Bounds
  <2> QED  BY <1>5, <2>2 DEF Due
<1>7. due # None  BY <1>6, LedgerAssumption
<1> HIDE DEF due
<1>8. /\ charged'[s] = due /\ creating'[r] = s
      /\ \A t \in Sessions : t # s => charged'[t] = charged[t]
      /\ \A q \in Requests : q # r => creating'[q] = creating[q]
      /\ charged' \in [Sessions -> Due \union {None}]
      /\ creating' \in [Requests -> Sessions \union {None}]
  BY <1>1, <1>3, <1>6 DEF TypeOK
<1>9. TypeOK'  BY <1>1, <1>4, <1>5, <1>8 DEF TypeOK, RowsOK, eventVars
<1>10. \A t \in Sessions : charged[t] # None => charged'[t] = charged[t]  BY <1>3, <1>8
<1>11. LinksOK'
  <2>1. ASSUME NEW t \in Sessions, charged'[t] # None
        PROVE  invoices'[charged'[t].invoice] # None
    <3>1. CASE t = s  BY <1>5, <1>6, <1>8, <3>1
    <3>2. CASE t # s
      <4>1. charged'[t] = charged[t] /\ charged[t] \in Due  BY <1>1, <1>8, <2>1, <3>2 DEF TypeOK
      <4>2. charged[t].invoice \in Number /\ invoices[charged[t].invoice] # None
        BY <2>1, <4>1 DEF LedgerInv, LinksOK, Due
      <4> QED  BY <1>5, <4>1, <4>2 DEF Above
    <3> QED  BY <3>1, <3>2
  <2>2. ASSUME NEW q \in Requests, creating'[q] # None
        PROVE  charged'[creating'[q]] # None
    <3>1. CASE q = r  BY <1>7, <1>8, <3>1
    <3>2. CASE q # r
      <4>1. creating'[q] = creating[q] /\ creating[q] \in Sessions
        BY <1>1, <1>8, <2>2, <3>2 DEF TypeOK
      <4>2. charged[creating[q]] # None  BY <2>2, <4>1 DEF LedgerInv, LinksOK
      <4> QED  BY <1>10, <4>1, <4>2
    <3> QED  BY <3>1, <3>2
  <2> QED  BY <2>1, <2>2 DEF LinksOK
<1>12. \A m \in Number : stripe[m] # None => stripe'[m].revisions >= stripe[m].revisions
  <2>1. \A m \in Number : stripe[m] # None => stripe[m].revisions \in Nat
    BY <1>1, Bounds DEF TypeOK, Revisions
  <2> QED  BY <1>4, <2>1
<1> QED  BY <1>4, <1>5, <1>9, <1>10, <1>11, <1>12, Steady DEF eventVars

LEMMA StoreSessionStep ==
  ASSUME LedgerInv, NEW r \in Requests, StoreSession(r) \/ AbandonSession(r)
  PROVE  LedgerInv' /\ Above(invoices', invoices)
<1>1. TypeOK /\ RowsOK(invoices, stripe) /\ LinksOK  BY DEF LedgerInv
<1>2. /\ creating[r] # None /\ creating' = [creating EXCEPT ![r] = None]
      /\ UNCHANGED <<payments, warned, stripeVars, eventVars>>
  BY DEF StoreSession, AbandonSession, rowVars
<1>3. /\ creating' \in [Requests -> Sessions \union {None}]
      /\ \A q \in Requests : creating'[q] \in {creating[q], None}
  BY <1>1, <1>2 DEF TypeOK
<1>4. RowsOK(invoices', stripe) /\ Above(invoices', invoices)
  <2>1. CASE invoices' = invoices  BY <1>1, <2>1, AboveSelf
  <2>2. CASE StoreSession(r)
    <3> DEFINE s == creating[r]
               n == charged[s].invoice
               row == [invoices[n] EXCEPT !.session = s]
    <3>1. s \in Sessions /\ charged[s] # None  BY <1>1, <1>2 DEF TypeOK, LinksOK
    <3>2. charged[s] \in Due  BY <1>1, <3>1 DEF TypeOK
    <3>3. n \in Number /\ invoices[n] # None  BY <1>1, <3>1, <3>2 DEF LinksOK, Due
    <3>4. invoices[n] \in Invoice  BY <1>1, <3>3 DEF TypeOK
    <3>5. row \in Invoice /\ row.revision = invoices[n].revision  BY <3>1, <3>4 DEF Invoice
    <3>6. invoices' = [invoices EXCEPT ![n] = row]  BY <1>1, <2>2 DEF StoreSession, TypeOK
    <3>7. invoices[n].revision >= invoices[n].revision  BY <1>1, <3>3, AboveSelf DEF Above
    <3>8. row.revision # 0 => stripe[n] # None /\ row.revision <= stripe[n].revisions
      BY <1>1, <3>3, <3>5 DEF RowsOK
    <3> HIDE DEF s, n, row
    <3> QED  BY <1>1, <3>3, <3>5, <3>6, <3>7, <3>8, RowPut
  <2> QED  BY <2>1, <2>2 DEF AbandonSession, rowVars
<1> QED  BY <1>2, <1>3, <1>4, RowsStep DEF eventVars

LEMMA VoidLocalStep ==
  ASSUME LedgerInv, NEW n \in Number, VoidLocal(n)
  PROVE  LedgerInv' /\ Above(invoices', invoices)
<1>1. TypeOK /\ RowsOK(invoices, stripe)  BY DEF LedgerInv
<1>2. /\ n \in Issued /\ invoices[n].revision = 0
      /\ invoices' = [invoices EXCEPT ![n].status = "void", ![n].manual = TRUE]
      /\ UNCHANGED <<payments, warned, creating, stripeVars, eventVars>>
  BY DEF VoidLocal
<1> DEFINE row == [invoices[n] EXCEPT !.status = "void", !.manual = TRUE]
<1>3. invoices[n] # None /\ invoices[n] \in Invoice  BY <1>1, <1>2 DEF Issued, TypeOK
<1>4. row \in Invoice /\ row.revision = 0  BY <1>2, <1>3 DEF Invoice, Statuses
<1>5. invoices' = [invoices EXCEPT ![n] = row]  BY <1>1, <1>2 DEF TypeOK
<1> HIDE DEF row
<1>6. RowsOK(invoices', stripe) /\ Above(invoices', invoices)
  <2>1. row.revision >= invoices[n].revision  BY <1>2, <1>4
  <2> QED  BY <1>1, <1>3, <1>4, <1>5, <2>1, RowPut
<1> QED  BY <1>1, <1>2, <1>6, RowsStep DEF TypeOK, eventVars

\* A row on the current revision
LEMMA AtTip ==
  ASSUME LedgerInv, NEW n \in Number, n \in Issued, invoices[n].revision # 0
  PROVE  /\ invoices[n] # None /\ stripe[n] # None /\ stripe[n] \in Revisions
         /\ RowsOK(Snapshot(n, Tip(n)), stripe) /\ Above(Snapshot(n, Tip(n)), invoices)
         /\ Snapshot(n, Tip(n))[n] # None
<1>1. TypeOK /\ RowsOK(invoices, stripe)  BY DEF LedgerInv
<1>2. /\ invoices[n] # None /\ stripe[n] # None
      /\ invoices[n].revision <= stripe[n].revisions
  BY <1>1 DEF Issued, RowsOK
<1>3. stripe[n] \in Revisions  BY <1>1, <1>2 DEF TypeOK
<1>4. stripe[n].revisions \in 1..MaxStripe  BY <1>3 DEF Revisions
<1>5. Tip(n).revision = stripe[n].revisions  BY DEF Tip
<1>6. stripe[n].revisions <= stripe[n].revisions  BY <1>4, Bounds
<1> QED  BY <1>2, <1>3, <1>4, <1>5, <1>6, Snapshots

LEMMA SnapshotStep ==
  ASSUME LedgerInv, NEW n \in Number, SendReminder(n) \/ Reconcile(n)
  PROVE  LedgerInv' /\ Above(invoices', invoices)
<1>1. /\ n \in Issued /\ invoices[n].revision # 0 /\ invoices' = Snapshot(n, Tip(n))
      /\ UNCHANGED <<payments, warned, creating, stripeVars, eventVars>>
  BY DEF SendReminder, Reconcile
<1>2. creating \in [Requests -> Sessions \union {None}]  BY DEF LedgerInv, TypeOK
<1> QED  BY <1>1, <1>2, AtTip, RowsStep DEF eventVars

-----------------------------------------------------------------------------
(* Stripe's invoices *)

\* Stripe makes, revises or closes the invoice of one number.
LEMMA StripeStep ==
  ASSUME LedgerInv, NEW n \in Number, NEW kept \in Revisions,
         stripe' = [stripe EXCEPT ![n] = kept],
         stripe[n] # None => /\ kept.revisions >= stripe[n].revisions
                             /\ stripe[n].status = "paid" => kept.status = "paid",
         \A e \in invoiceEvents' : e \in invoiceEvents \/
           /\ e \in InvoiceEvent /\ e.number = n /\ e.revision <= kept.revisions
           /\ e.type = "paid" => captured[n] # None \/ PaymentsOf(n) # {},
         \/ invoices' = invoices
         \/ RowsOK(invoices', stripe') /\ Above(invoices', invoices),
         UNCHANGED <<payments, warned, creating, charged, captured,
                     sessionEvents, chargeEvents>>
  PROVE  LedgerInv' /\ Above(invoices', invoices)
<1>1. TypeOK /\ RowsOK(invoices, stripe) /\ LinksOK  BY DEF LedgerInv
<1>2. /\ stripe'[n] = kept /\ kept # None /\ kept.revisions \in Nat
      /\ \A m \in Number : m # n => stripe'[m] = stripe[m]
      /\ stripe' \in [Number -> Revisions \union {None}]
  BY <1>1, Bounds, LedgerAssumption DEF TypeOK, Revisions
<1>3. \A m \in Number : stripe[m] # None => stripe[m].revisions \in Nat
  BY <1>1, Bounds DEF TypeOK, Revisions
<1>4. \A m \in Number : stripe[m] # None =>
        /\ stripe[m].revisions \in Nat /\ stripe'[m].revisions \in Nat
        /\ stripe'[m] # None /\ stripe'[m].revisions >= stripe[m].revisions
        /\ stripe[m].status = "paid" => stripe'[m].status = "paid"
  BY <1>2, <1>3
<1>5. RowsOK(invoices', stripe') /\ Above(invoices', invoices)
  <2>1. CASE invoices' = invoices  BY <1>1, <1>4, <2>1, AboveSelf, KeptGrows
  <2> QED  BY <2>1
<1>6. TypeOK'  BY <1>1, <1>2, <1>5 DEF TypeOK, RowsOK
<1>7. LinksOK'
  <2>1. \A s \in Sessions : charged[s] # None => charged[s].invoice \in Number
    BY <1>1 DEF TypeOK, Due
  <2> QED  BY <1>1, <1>5, <2>1 DEF LinksOK, Above
<1>8. \A e \in invoiceEvents' : e \in invoiceEvents \/ InvoiceEventOK(e)'
  <2>1. PaymentsOf(n)' = PaymentsOf(n)  BY DEF PaymentsOf
  <2> QED  BY <1>2, <2>1 DEF InvoiceEventOK
<1> QED  BY <1>4, <1>5, <1>6, <1>7, <1>8, Steady

LEMMA MakeStripeStep ==
  ASSUME LedgerInv, NEW n \in Number, CreateStripeInvoice(n) \/ CreateStripeInvoiceFails(n)
  PROVE  LedgerInv' /\ Above(invoices', invoices)
<1>1. TypeOK /\ RowsOK(invoices, stripe)  BY DEF LedgerInv
<1>2. /\ n \in Issued /\ invoices[n].revision = 0
      /\ UNCHANGED <<payments, warned, creating, charged, captured,
                     sessionEvents, chargeEvents>>
  BY DEF CreateStripeInvoice, CreateStripeInvoiceFails, MakeStripeInvoice
<1>3. invoices[n] # None /\ invoices[n] \in Invoice  BY <1>1, <1>2 DEF Issued, TypeOK
<1>4. \/ invoices' = invoices
      \/ invoices' = [invoices EXCEPT ![n] = [invoices[n] EXCEPT !.revision = 1]]
  BY <1>1, <1>2 DEF CreateStripeInvoice, CreateStripeInvoiceFails, TypeOK
<1>5. 1 \in 1..MaxStripe /\ 1 \in 0..MaxStripe  BY Bounds
<1>6. ASSUME NEW kept, RowsOK(invoices, kept), kept[n] # None, 1 <= kept[n].revisions
      PROVE  \/ invoices' = invoices
             \/ RowsOK(invoices', kept) /\ Above(invoices', invoices)
  <2> DEFINE row == [invoices[n] EXCEPT !.revision = 1]
  <2>1. row \in Invoice /\ row.revision = 1  BY <1>3, <1>5 DEF Invoice
  <2>2. row.revision >= invoices[n].revision  BY <1>2, <2>1
  <2>3. invoices' = invoices \/ invoices' = [invoices EXCEPT ![n] = row]  BY <1>4
  <2> HIDE DEF row
  <2> QED  BY <1>3, <1>6, <2>1, <2>2, <2>3, RowPut
<1>7. CASE stripe[n] = None
  <2> DEFINE kept == [revisions |-> 1, status |-> "open"]
             e == Event("open", n, 1, FALSE)
  <2>1. stripe' = [stripe EXCEPT ![n] = kept] /\ invoiceEvents' = invoiceEvents \union {e}
    BY <1>7 DEF CreateStripeInvoice, CreateStripeInvoiceFails, MakeStripeInvoice
  <2>2. kept \in Revisions /\ kept.revisions = 1  BY <1>5 DEF Revisions, StripeStatuses
  <2>3. e \in InvoiceEvent /\ e.type = "open" /\ e.number = n /\ e.revision = 1
    BY <1>5 DEF Event, InvoiceEvent, StripeStatuses
  <2> HIDE DEF kept, e
  <2>4. /\ stripe'[n] = kept /\ kept # None
        /\ \A m \in Number : m # n => stripe'[m] = stripe[m]
    BY <1>1, <2>1, <2>2, LedgerAssumption DEF TypeOK
  <2>5. RowsOK(invoices, stripe')
    BY <1>1, <1>2, <2>4 DEF RowsOK
  <2>6. \/ invoices' = invoices
        \/ RowsOK(invoices', stripe') /\ Above(invoices', invoices)
    BY <1>6, <2>2, <2>4, <2>5
  <2>7. \A x \in invoiceEvents' : x \in invoiceEvents \/
          /\ x \in InvoiceEvent /\ x.number = n /\ x.revision <= kept.revisions
          /\ x.type # "paid"
    BY <2>1, <2>2, <2>3
  <2> QED  BY <1>2, <1>7, <2>1, <2>2, <2>6, <2>7, StripeStep
<1>8. CASE stripe[n] # None
  <2>1. UNCHANGED <<stripe, invoiceEvents>>
    BY <1>8 DEF CreateStripeInvoice, CreateStripeInvoiceFails, MakeStripeInvoice
  <2>2. 1 <= stripe[n].revisions
    <3>1. stripe[n] \in Revisions  BY <1>1, <1>8 DEF TypeOK
    <3>2. stripe[n].revisions \in 1..MaxStripe  BY <3>1 DEF Revisions
    <3> QED  BY <3>2, Bounds
  <2>3. RowsOK(invoices', stripe) /\ Above(invoices', invoices)
    <3>1. CASE invoices' = invoices  BY <1>1, <3>1, AboveSelf
    <3> QED  BY <1>1, <1>6, <1>8, <2>2, <3>1
  <2> QED  BY <1>1, <1>2, <2>1, <2>3, RowsStep DEF TypeOK, stripeVars
<1> QED  BY <1>7, <1>8

LEMMA OutOfBandStep ==
  ASSUME LedgerInv, NEW n \in Number, MarkPaidOutOfBand(n)
  PROVE  LedgerInv' /\ Above(invoices', invoices)
<1>1. TypeOK /\ RowsOK(invoices, stripe)  BY DEF LedgerInv
<1> DEFINE kept == [stripe[n] EXCEPT !.status = "paid"]
           e == Event("paid", n, stripe[n].revisions, FALSE)
           rows == Snapshot(n, Tip(n))
           row == [rows[n] EXCEPT !.outOfBand = TRUE]
<1>2. /\ n \in Issued /\ invoices[n].revision # 0 /\ Outstanding(n) = 0
      /\ stripe' = [stripe EXCEPT ![n].status = "paid"]
      /\ invoiceEvents' = invoiceEvents \union {e}
      /\ invoices' = [rows EXCEPT ![n].outOfBand = TRUE]
      /\ UNCHANGED <<payments, warned, creating, charged, captured,
                     sessionEvents, chargeEvents>>
  BY DEF MarkPaidOutOfBand
<1>3. /\ invoices[n] # None /\ stripe[n] # None /\ stripe[n] \in Revisions
      /\ RowsOK(rows, stripe) /\ Above(rows, invoices) /\ rows[n] # None
  BY <1>2, AtTip
<1>4. stripe[n].revisions \in 1..MaxStripe  BY <1>3 DEF Revisions
<1>5. /\ kept \in Revisions /\ kept.revisions = stripe[n].revisions /\ kept.status = "paid"
      /\ stripe' = [stripe EXCEPT ![n] = kept]
  BY <1>1, <1>2, <1>3 DEF Revisions, StripeStatuses, TypeOK
<1>6. e \in InvoiceEvent /\ e.number = n /\ e.revision = stripe[n].revisions
  BY <1>4 DEF Event, InvoiceEvent, StripeStatuses
<1>7. rows[n] \in Invoice /\ rows \in [Number -> Invoice \union {None}]  BY <1>3 DEF RowsOK
<1> HIDE DEF kept, e, rows
<1>8. row \in Invoice /\ row.revision = rows[n].revision  BY <1>7 DEF Invoice
<1>9. invoices' = [rows EXCEPT ![n] = row]  BY <1>2, <1>7
<1> HIDE DEF row
<1>10. RowsOK(invoices', stripe) /\ Above(invoices', rows)
  <2>1. row.revision >= rows[n].revision  BY <1>3, <1>8, AboveSelf DEF Above
  <2>2. row.revision # 0 => stripe[n] # None /\ row.revision <= stripe[n].revisions
    BY <1>3, <1>8 DEF RowsOK
  <2> QED  BY <1>3, <1>8, <1>9, <2>1, <2>2, RowPut
<1>11. Above(invoices', invoices)  BY <1>1, <1>3, <1>10, AboveTrans
<1>12. kept.revisions >= stripe[n].revisions /\ kept.revisions <= kept.revisions
       /\ kept.revisions \in Nat
  BY <1>4, <1>5, Bounds
<1>13. RowsOK(invoices', stripe')
  <2>1. \A m \in Number : stripe[m] # None => stripe[m].revisions \in Nat
    BY <1>1, Bounds DEF TypeOK, Revisions
  <2>2. stripe'[n] = kept /\ kept # None /\ \A m \in Number : m # n => stripe'[m] = stripe[m]
    BY <1>1, <1>5, LedgerAssumption DEF TypeOK
  <2>3. \A m \in Number : stripe[m] # None =>
          /\ stripe[m].revisions \in Nat /\ stripe'[m].revisions \in Nat
          /\ stripe'[m] # None /\ stripe'[m].revisions >= stripe[m].revisions
    BY <1>12, <2>1, <2>2
  <2> QED  BY <1>10, <2>3, KeptGrows
<1>14. PaymentsOf(n) # {}  BY <1>1, <1>2, PaidHasPayment
<1>15. \A x \in invoiceEvents' : x \in invoiceEvents \/
         /\ x \in InvoiceEvent /\ x.number = n /\ x.revision <= kept.revisions
  BY <1>2, <1>5, <1>6, <1>12
<1> QED  BY <1>2, <1>5, <1>11, <1>12, <1>13, <1>14, <1>15, StripeStep

\* A bound on the Stripe invoices leaves room for one more revision of each.
LEMMA RoomForRevision ==
  ASSUME TypeOK, NEW n \in Number, stripe[n] # None, StripeInvoices < MaxStripe
  PROVE  stripe[n].revisions + 1 \in 1..MaxStripe
<1>1. stripe[n].revisions \in 1..MaxStripe  BY DEF TypeOK, Revisions
<1>2. PICK k \in Nat : k = stripe[n].revisions /\ 1 <= k /\ k <= MaxStripe
  BY <1>1, Bounds
<1> DEFINE S == Number \X (1..MaxStripe)
           T == {u \in S : stripe[u[1]] # None /\ u[2] <= stripe[u[1]].revisions}
           R == {n} \X (1..k)
<1>3. IsFiniteSet(S) /\ IsFiniteSet(T)
  <2>1. IsFiniteSet(Number) /\ IsFiniteSet(1..MaxStripe)
    BY Bounds, FS_Interval DEF Number
  <2>2. IsFiniteSet(S)  BY <2>1, FS_Product
  <2>3. T \in SUBSET S  OBVIOUS
  <2> QED  BY <2>2, <2>3, FS_Subset
<1>4. R \in SUBSET T
  <2>1. ASSUME NEW u \in R  PROVE u \in T
    <3>1. u[1] = n /\ u[2] \in 1..k /\ u = <<n, u[2]>>  OBVIOUS
    <3>2. u[2] \in 1..MaxStripe /\ u[2] <= stripe[n].revisions  BY <1>2, <3>1, Bounds
    <3> QED  BY <3>1, <3>2
  <2> QED  BY <2>1
<1>5. Cardinality(R) = k
  <2>1. IsFiniteSet({n}) /\ Cardinality({n}) = 1  BY FS_Singleton
  <2>2. IsFiniteSet(1..k) /\ Cardinality(1..k) = k
    <3>1. 1 \in Int /\ k \in Int /\ ~(1 > k) /\ k - 1 + 1 = k  BY <1>2
    <3>2. IsFiniteSet(1..k) /\ Cardinality(1..k) = IF 1 > k THEN 0 ELSE k - 1 + 1
      BY <3>1, FS_Interval
    <3> QED  BY <3>1, <3>2
  <2>3. Cardinality(R) = 1 * k  BY <2>1, <2>2, FS_Product
  <2> QED  BY <2>3
<1>6. StripeInvoices = Cardinality(T)  BY DEF StripeInvoices
<1> HIDE DEF S, T, R
<1>7. Cardinality(R) <= Cardinality(T) /\ Cardinality(T) \in Nat
  BY <1>3, <1>4, FS_Subset, FS_CardinalityType
<1> QED  BY <1>2, <1>5, <1>6, <1>7, Bounds

LEMMA ReviseStep ==
  ASSUME LedgerInv, NEW n \in Number, Revise(n)
  PROVE  LedgerInv' /\ Above(invoices', invoices)
<1>1. TypeOK  BY DEF LedgerInv
<1> DEFINE kept == [stripe[n] EXCEPT !.revisions = stripe[n].revisions + 1]
           e == Event("void", n, stripe[n].revisions, TRUE)
           f == Event("open", n, stripe[n].revisions + 1, FALSE)
<1>2. /\ stripe[n] # None /\ stripe[n].status = "open" /\ StripeInvoices < MaxStripe
      /\ stripe' = [stripe EXCEPT ![n].revisions = @ + 1]
      /\ invoiceEvents' = invoiceEvents \union {e, f}
      /\ UNCHANGED <<rowVars, creating, charged, captured, sessionEvents, chargeEvents>>
  BY DEF Revise
<1>3. stripe[n] \in Revisions  BY <1>1, <1>2 DEF TypeOK
<1>4. stripe[n].revisions \in 1..MaxStripe /\ stripe[n].revisions + 1 \in 1..MaxStripe
  BY <1>1, <1>2, <1>3, RoomForRevision DEF Revisions
<1>5. /\ kept \in Revisions /\ kept.revisions = stripe[n].revisions + 1
      /\ stripe' = [stripe EXCEPT ![n] = kept]
  BY <1>1, <1>2, <1>3, <1>4 DEF Revisions, TypeOK
<1>6. /\ e \in InvoiceEvent /\ e.type = "void" /\ e.number = n /\ e.revision = stripe[n].revisions
      /\ f \in InvoiceEvent /\ f.type = "open" /\ f.number = n
      /\ f.revision = stripe[n].revisions + 1
  BY <1>4 DEF Event, InvoiceEvent, StripeStatuses
<1> HIDE DEF kept, e, f
<1>7. /\ kept.revisions >= stripe[n].revisions
      /\ e.revision <= kept.revisions /\ f.revision <= kept.revisions
  BY <1>4, <1>5, <1>6, Bounds
<1>8. \A x \in invoiceEvents' : x \in invoiceEvents \/
        /\ x \in InvoiceEvent /\ x.number = n /\ x.revision <= kept.revisions
        /\ x.type # "paid"
  BY <1>2, <1>6, <1>7
<1>9. UNCHANGED <<invoices, payments, warned>>  BY <1>2 DEF rowVars
<1> QED  BY <1>2, <1>5, <1>7, <1>8, <1>9, StripeStep

-----------------------------------------------------------------------------
(* Payments are booked *)

LEMMA Books ==
  ASSUME LedgerInv, NEW rows, RowsOK(rows, stripe), Above(rows, invoices),
         NEW n \in Number, rows[n] # None, NEW p \in Source, NEW amount \in 1..Total,
         Book(rows, n, p, amount)
  PROVE  /\ RowsOK(invoices', stripe) /\ Above(invoices', invoices)
         /\ payments' \in [Source -> Payment \union {None}]
         /\ \A q \in Source : q # p \/ payments[q] # None => payments'[q] = payments[q]
         /\ payments[p] = None =>
              /\ payments'[p].invoice = n /\ payments'[p].amount = amount
              /\ payments'[p].reversed = 0
         /\ \A m \in Number : Recorded(m)' <= Total
<1>1. TypeOK /\ RowsOK(invoices, stripe) /\ (\A m \in Number : Recorded(m) <= Total)
  BY DEF LedgerInv
<1>2. RowsOK(invoices', stripe) /\ Above(invoices', invoices)
  <2>1. CASE invoices' = rows  BY <2>1
  <2>2. ASSUME NEW status \in Statuses, invoices' = [rows EXCEPT ![n].status = status]
        PROVE  RowsOK(invoices', stripe) /\ Above(invoices', invoices)
    <3>1. RowsOK(invoices', stripe) /\ Above(invoices', rows)  BY <2>2, StatusPut
    <3> QED  BY <1>1, <3>1, AboveTrans
  <2>3. "paid" \in Statuses /\ "partially_paid" \in Statuses  BY DEF Statuses
  <2>4. invoices' = rows \/ \E status \in Statuses : invoices' = [rows EXCEPT ![n].status = status]
    BY <2>3 DEF Book
  <2> QED  BY <2>1, <2>2, <2>4
<1>3. CASE payments[p] # None
  <2>1. payments' = payments  BY <1>3 DEF Book
  <2>2. \A m \in Number : Recorded(m)' <= Total  BY <1>1, <2>1, RecordedStays
  <2> QED  BY <1>1, <1>2, <1>3, <2>1, <2>2 DEF TypeOK
<1>4. CASE payments[p] = None
  <2> DEFINE row == [invoice |-> n, amount |-> amount, reversed |-> 0, reversal |-> "none"]
  <2>1. Fits(n, amount) /\ payments' = [payments EXCEPT ![p] = row]  BY <1>4 DEF Book
  <2>2. row \in Payment /\ row.invoice = n /\ row.amount = amount /\ row.reversed = 0
    BY Bounds DEF Payment
  <2> HIDE DEF row
  <2>3. \A m \in Number : Recorded(m)' <= Total
    BY <1>1, <1>4, <2>1, <2>2, RecordedBook
  <2>4. /\ payments'[p] = row /\ (\A q \in Source : q # p => payments'[q] = payments[q])
        /\ payments' \in [Source -> Payment \union {None}]
    BY <1>1, <2>1, <2>2 DEF TypeOK
  <2> QED  BY <1>2, <1>4, <2>2, <2>3, <2>4
<1> QED  BY <1>3, <1>4

\* What is booked was taken, and for this invoice.
LEMMA BookStep ==
  ASSUME LedgerInv, NEW rows, RowsOK(rows, stripe), Above(rows, invoices),
         NEW n \in Number, rows[n] # None, NEW p \in Source, NEW amount \in 1..Total,
         Book(rows, n, p, amount),
         UNCHANGED <<warned, creating, charged, stripe, chargeEvents>>,
         sessionEvents' \subseteq sessionEvents, invoiceEvents' \subseteq invoiceEvents,
         captured' \in [Source -> Money \union {None}],
         \A q \in Source : q # p \/ captured[q] # None => captured'[q] = captured[q],
         captured[p] = None => MoneyOK(p)' /\ captured'[p].refunded = 0
                                 /\ captured'[p].dispute = "none",
         payments[p] = None =>
           /\ captured'[p] # None /\ captured'[p].amount = amount
           /\ p \in Sessions => charged[p].invoice = n
           /\ p \in Number => p = n
  PROVE  LedgerInv' /\ Above(invoices', invoices)
<1>1. TypeOK /\ (\A q \in Source : BookOK(q) /\ MoneyOK(q))  BY DEF LedgerInv
<1>2. /\ RowsOK(invoices', stripe) /\ Above(invoices', invoices)
      /\ payments' \in [Source -> Payment \union {None}]
      /\ \A q \in Source : q # p \/ payments[q] # None => payments'[q] = payments[q]
      /\ payments[p] = None =>
           /\ payments'[p].invoice = n /\ payments'[p].amount = amount
           /\ payments'[p].reversed = 0
      /\ \A m \in Number : Recorded(m)' <= Total
  BY Books
<1>3. TypeOK'  BY <1>1, <1>2 DEF TypeOK, RowsOK
<1>4. LinksOK'
  <2>1. \A s \in Sessions : charged[s] # None => charged[s].invoice \in Number
    BY <1>1 DEF TypeOK, Due
  <2> QED  BY <1>2, <2>1 DEF LedgerInv, LinksOK, Above
<1>5. \A m \in Number : stripe[m] # None => stripe'[m].revisions >= stripe[m].revisions
  <2>1. \A m \in Number : stripe[m] # None => stripe[m].revisions \in Nat
    BY <1>1, Bounds DEF TypeOK, Revisions
  <2> QED  BY <2>1
<1>6. Monotone  BY <1>2, <1>5 DEF Monotone
<1>7. BookOK(p)'
  <2>1. CASE payments[p] # None
    <3>1. payments'[p] = payments[p]  BY <1>2, <2>1
    <3> QED  BY <1>1, <1>6, <3>1, BookStays
  <2>2. CASE payments[p] = None
    <3>1. 0 <= amount  BY Bounds
    <3> QED  BY <1>2, <2>2, <3>1 DEF BookOK
  <2> QED  BY <2>1, <2>2
<1>8. \A q \in Source : payments'[q] = payments[q] \/ BookOK(q)'  BY <1>2, <1>7
<1>9. \A q \in Source : captured'[q] = captured[q] \/ MoneyOK(q)'  OBVIOUS
<1>10. \A q \in Source : Quiet(q) \/ LockOK(q)'
  <2>1. ASSUME NEW q \in Source, captured'[q] = captured[q]  PROVE Quiet(q)
    BY <1>2, <2>1 DEF Quiet
  <2>2. CASE captured[p] = None
    <3>1. LockOK(p)'  BY <2>2 DEF LockOK
    <3> QED  BY <2>1, <3>1
  <2> QED  BY <2>1, <2>2
<1> QED  BY <1>2, <1>3, <1>4, <1>6, <1>8, <1>9, <1>10, Assemble

LEMMA ManualStep ==
  ASSUME LedgerInv, NEW n \in Number, NEW p \in Receipts, NEW amount \in 1..Total,
         RecordManualPayment(n, p, amount)
  PROVE  LedgerInv' /\ Above(invoices', invoices)
<1>1. TypeOK /\ RowsOK(invoices, stripe)  BY DEF LedgerInv
<1> DEFINE money == [amount |-> amount, refunded |-> 0, dispute |-> "none"]
<1>2. /\ invoices[n] # None /\ captured[p] = None /\ Book(invoices, n, p, amount)
      /\ captured' = [captured EXCEPT ![p] = money]
      /\ UNCHANGED <<warned, creating, charged, stripe, eventVars>>
  BY DEF RecordManualPayment, Issued
<1>3. p \in Source /\ p \notin Sessions /\ p \notin Number  BY Bounds
<1>4. /\ money \in Money /\ money.amount = amount /\ money.refunded = 0
      /\ money.dispute = "none"
  BY Bounds DEF Money
<1>5. money # None  BY <1>4, LedgerAssumption
<1> HIDE DEF money
<1>6. /\ captured'[p] = money /\ captured' \in [Source -> Money \union {None}]
      /\ \A q \in Source : q # p => captured'[q] = captured[q]
  BY <1>1, <1>2, <1>3, <1>4 DEF TypeOK
<1>7. 0 <= amount  BY Bounds
<1>8. MoneyOK(p)'  BY <1>3, <1>4, <1>6, <1>7 DEF MoneyOK
<1>9. Above(invoices, invoices)  BY <1>1, AboveSelf
<1> QED  BY <1>1, <1>2, <1>3, <1>4, <1>5, <1>6, <1>8, <1>9, BookStep DEF eventVars

LEMMA SessionEventStep ==
  ASSUME LedgerInv, NEW s \in Sessions, HandleSessionEvent(s)
  PROVE  LedgerInv' /\ Above(invoices', invoices)
<1>1. TypeOK /\ EventsOK /\ s \in Source  BY Bounds DEF LedgerInv
<1>2. PICK n \in Ensured :
        AcceptsSession(s, n) /\ Book(EnsuredRows(n), n, s, charged[s].amount)
  BY DEF HandleSessionEvent
<1>3. /\ s \in sessionEvents /\ sessionEvents' = sessionEvents \ {s}
      /\ UNCHANGED <<warned, creating, stripeVars, invoiceEvents, chargeEvents>>
  BY DEF HandleSessionEvent
<1>4. /\ n \in Number /\ RowsOK(EnsuredRows(n), stripe) /\ Above(EnsuredRows(n), invoices)
      /\ EnsuredRows(n)[n] # None
  BY Ensures
<1>5. /\ captured[s] # None /\ charged[s] # None /\ captured[s].amount = charged[s].amount
  BY <1>1, <1>3 DEF LedgerInv, EventsOK, MoneyOK
<1>6. charged[s].amount \in 1..Total  BY <1>1, <1>5 DEF TypeOK, Due
<1>7. captured' = captured /\ captured \in [Source -> Money \union {None}]
  BY <1>1, <1>3 DEF TypeOK, stripeVars
<1>8. s \notin Number /\ charged[s].invoice = n  BY <1>2, Bounds DEF AcceptsSession
<1>9. UNCHANGED <<warned, creating, charged, stripe, chargeEvents>>  BY <1>3 DEF stripeVars
<1>10. sessionEvents' \subseteq sessionEvents /\ invoiceEvents' \subseteq invoiceEvents  BY <1>3
<1> QED  BY <1>1, <1>2, <1>4, <1>5, <1>6, <1>7, <1>8, <1>9, <1>10, BookStep

\* follow_latest_revisions ends at a revision that exists, not before the stored one.
LEMMA Follows ==
  ASSUME LedgerInv, NEW e \in invoiceEvents, Resolvable(e)
  PROVE  /\ e \in InvoiceEvent /\ e.number \in Number
         /\ RowsOK(Snapshot(e.number, Current(e)), stripe)
         /\ Above(Snapshot(e.number, Current(e)), invoices)
         /\ Snapshot(e.number, Current(e))[e.number] # None
<1>1. TypeOK /\ RowsOK(invoices, stripe) /\ InvoiceEventOK(e) /\ e \in InvoiceEvent
  BY DEF LedgerInv, EventsOK, TypeOK
<1>2. e.number \in Number /\ e.revision \in 1..MaxStripe /\ e.superseded \in BOOLEAN
  BY <1>1 DEF InvoiceEvent
<1>3. /\ invoices[e.number] # None /\ stripe[e.number] # None
      /\ invoices[e.number].revision <= stripe[e.number].revisions
      /\ e.revision >= invoices[e.number].revision \/ e.superseded
      /\ e.revision <= stripe[e.number].revisions
  BY <1>1, <1>2 DEF Resolvable, RowsOK, InvoiceEventOK
<1>4. /\ stripe[e.number].revisions \in 1..MaxStripe
      /\ invoices[e.number].revision \in 0..MaxStripe
  BY <1>1, <1>2, <1>3 DEF TypeOK, Revisions, Invoice
<1>5. Current(e).revision = IF e.superseded THEN stripe[e.number].revisions ELSE e.revision
  BY DEF Current, Tip
<1> DEFINE k == Current(e).revision
<1>6. k \in {stripe[e.number].revisions, e.revision} /\ (~e.superseded => k = e.revision)
      /\ (e.superseded => k = stripe[e.number].revisions)
  BY <1>5
<1> HIDE DEF k
<1>7. /\ k \in 1..MaxStripe /\ invoices[e.number].revision <= k
      /\ k <= stripe[e.number].revisions
  <2>1. MaxStripe \in Nat  BY Bounds
  <2>2. CASE e.superseded  BY <1>3, <1>4, <1>6, <2>1, <2>2
  <2>3. CASE ~e.superseded  BY <1>2, <1>3, <1>4, <1>6, <2>1, <2>3
  <2> QED  BY <2>2, <2>3
<1> QED  BY <1>1, <1>2, <1>3, <1>7, Snapshots DEF k

LEMMA InvoiceEventStep ==
  ASSUME LedgerInv, NEW e \in invoiceEvents, HandleInvoiceEvent(e)
  PROVE  LedgerInv' /\ Above(invoices', invoices)
<1> DEFINE n == e.number
           rows == Snapshot(n, Current(e))
<1>1. TypeOK /\ RowsOK(invoices, stripe) /\ InvoiceEventOK(e) /\ Resolvable(e)
  BY DEF LedgerInv, EventsOK, HandleInvoiceEvent
<1>2. /\ e \in InvoiceEvent /\ n \in Number /\ n \in Source
      /\ RowsOK(rows, stripe) /\ Above(rows, invoices) /\ rows[n] # None
  BY <1>1, Follows, Bounds
<1>3. /\ invoiceEvents' \subseteq invoiceEvents
      /\ UNCHANGED <<warned, creating, stripeVars, sessionEvents, chargeEvents>>
  BY DEF HandleInvoiceEvent
<1>4. \/ payments' = payments /\ invoices' = rows
      \/ /\ payments' = payments
         /\ \E status \in Statuses : invoices' = [rows EXCEPT ![n].status = status]
      \/ e.type = "paid" /\ ApplyPaid(n, rows)
  <2>1. "void" \in Statuses /\ "overdue" \in Statuses  BY DEF Statuses
  <2>2. CASE Current(e).revision # e.revision  BY <2>2 DEF HandleInvoiceEvent
  <2>3. CASE Current(e).revision = e.revision
    <3>1. CASE e.type = "paid"  BY <2>3, <3>1 DEF HandleInvoiceEvent
    <3>2. CASE e.type = "void" /\ AmountPaid(n) = 0
      BY <2>1, <2>3, <3>2 DEF HandleInvoiceEvent
    <3>3. CASE e.type = "uncollectible"
      BY <2>1, <2>3, <3>3 DEF HandleInvoiceEvent
    <3>4. CASE e.type \notin {"paid", "uncollectible"} /\ ~(e.type = "void" /\ AmountPaid(n) = 0)
      BY <2>3, <3>4 DEF HandleInvoiceEvent
    <3> QED  BY <3>1, <3>2, <3>3, <3>4
  <2> QED  BY <2>2, <2>3
<1> HIDE DEF n, rows
<1>5. ASSUME NEW status \in Statuses
      PROVE  LET put == [rows EXCEPT ![n].status = status]
             IN  RowsOK(put, stripe) /\ Above(put, invoices) /\ put[n] # None
  <2> DEFINE put == [rows EXCEPT ![n].status = status]
  <2>1. RowsOK(put, stripe) /\ Above(put, rows)  BY <1>2, StatusPut
  <2> HIDE DEF put
  <2>2. Above(put, invoices)  BY <1>1, <1>2, <2>1, AboveTrans
  <2>3. put[n] # None  BY <1>2, <2>1 DEF Above
  <2> QED  BY <2>1, <2>2, <2>3 DEF put
<1>6. ASSUME payments' = payments, RowsOK(invoices', stripe), Above(invoices', invoices)
      PROVE  LedgerInv'
  BY <1>1, <1>3, <1>6, RowsStep DEF TypeOK
<1>7. CASE payments' = payments /\ invoices' = rows  BY <1>2, <1>6, <1>7
<1>8. CASE payments' = payments /\ \E status \in Statuses : invoices' = [rows EXCEPT ![n].status = status]
  BY <1>5, <1>6, <1>8
<1>9. CASE e.type = "paid" /\ ApplyPaid(n, rows)
  <2>1. PICK open : /\ RowsOK(open, stripe) /\ Above(open, invoices) /\ open[n] # None
                    /\ Outstanding(n) \in {0, Total}
                    /\ IF Outstanding(n) = 0
                       THEN invoices' = open /\ UNCHANGED payments
                       ELSE Book(open, n, n, Total)
    <3>1. "issued" \in Statuses  BY DEF Statuses
    <3> QED  BY <1>2, <1>5, <1>9, <3>1 DEF ApplyPaid
  <2>2. CASE invoices' = open /\ UNCHANGED payments  BY <1>6, <2>1, <2>2
  <2>3. CASE Book(open, n, n, Total)
    <3>1. Total \in 1..Total  BY Bounds
    <3>2. payments[n] = None => captured[n] # None /\ captured[n].amount = Total
      <4>1. SUFFICES ASSUME payments[n] = None
                     PROVE  captured[n] # None /\ captured[n].amount = Total
        OBVIOUS
      <4>2. Recorded(n) + Total <= Total /\ Recorded(n) \in Nat
        BY <1>2, <2>3, <4>1, SumsAreNat DEF Book, Fits
      <4>3. Recorded(n) = 0  BY <4>2, Bounds
      <4>4. PaymentsOf(n) = {}  BY <1>1, <1>2, <4>3, PaidHasPayment
      <4>5. captured[n] # None  BY <1>1, <1>9, <4>4 DEF InvoiceEventOK, n
      <4> QED  BY <1>2, <4>5 DEF LedgerInv, MoneyOK
    <3>3. captured' = captured /\ captured \in [Source -> Money \union {None}]
      BY <1>1, <1>3 DEF TypeOK, stripeVars
    <3>4. captured[n] = None =>
            MoneyOK(n)' /\ captured'[n].refunded = 0 /\ captured'[n].dispute = "none"
      <4>1. captured[n] # None
        <5>1. CASE payments[n] = None  BY <3>2, <5>1
        <5>2. CASE payments[n] # None  BY <1>2, <5>2 DEF LedgerInv, BookOK
        <5> QED  BY <5>1, <5>2
      <4> QED  BY <4>1
    <3>5. n \notin Sessions  BY <1>2, Bounds
    <3>6. UNCHANGED <<warned, creating, charged, stripe, chargeEvents>> /\ sessionEvents' = sessionEvents
      BY <1>3 DEF stripeVars
    <3> QED
      BY <1>2, <1>3, <2>1, <2>3, <3>1, <3>2, <3>3, <3>4, <3>5, <3>6, BookStep
  <2> QED  BY <2>1, <2>2, <2>3
<1> QED  BY <1>2, <1>4, <1>5, <1>7, <1>8, <1>9

-----------------------------------------------------------------------------
(* Money is taken and given back *)

\* The first money of a source: of a Session, or of a Stripe invoice as it closes.
LEMMA CaptureStep ==
  ASSUME LedgerInv, NEW p \in Source, captured[p] = None, NEW amount \in 1..Total,
         Capture(p, amount),
         p \notin Receipts,
         p \in Sessions => charged[p] # None /\ amount = charged[p].amount,
         p \in Number => stripe'[p] # None /\ stripe'[p].status = "paid" /\ amount = Total,
         UNCHANGED <<rowVars, creating, charged, chargeEvents>>,
         stripe' \in [Number -> Revisions \union {None}],
         \A n \in Number : stripe[n] # None =>
           /\ stripe'[n] # None /\ stripe'[n].revisions = stripe[n].revisions
           /\ stripe[n].status = "paid" => stripe'[n].status = "paid",
         sessionEvents' \subseteq Sessions,
         \A s \in sessionEvents' : s \in sessionEvents \/ s = p,
         invoiceEvents' \subseteq InvoiceEvent,
         \A e \in invoiceEvents' : e \in invoiceEvents \/
           /\ e.number = p /\ p \in Number
           /\ stripe[p] # None /\ e.revision <= stripe[p].revisions
  PROVE  LedgerInv' /\ Above(invoices', invoices)
<1>1. TypeOK /\ RowsOK(invoices, stripe) /\ LinksOK  BY DEF LedgerInv
<1> DEFINE money == [amount |-> amount, refunded |-> 0, dispute |-> "none"]
<1>2. captured' = [captured EXCEPT ![p] = money]  BY DEF Capture
<1>3. /\ money \in Money /\ money.amount = amount /\ money.refunded = 0
      /\ money.dispute = "none" /\ 0 <= amount
  BY Bounds DEF Money
<1>4. money # None  BY <1>3, LedgerAssumption
<1> HIDE DEF money
<1>5. /\ captured'[p] = money /\ captured' \in [Source -> Money \union {None}]
      /\ \A q \in Source : q # p => captured'[q] = captured[q]
  BY <1>1, <1>2, <1>3 DEF TypeOK
<1>6. UNCHANGED <<invoices, payments, warned>>  BY DEF rowVars
<1>7. TypeOK'  BY <1>1, <1>5, <1>6 DEF TypeOK
<1>8. \A n \in Number : stripe[n] # None => stripe[n].revisions \in Nat
  BY <1>1, Bounds DEF TypeOK, Revisions
<1>9. \A n \in Number : stripe[n] # None =>
        /\ stripe[n].revisions \in Nat /\ stripe'[n].revisions \in Nat
        /\ stripe'[n] # None /\ stripe'[n].revisions >= stripe[n].revisions
        /\ stripe[n].status = "paid" => stripe'[n].status = "paid"
  BY <1>8
<1>10. RowsOK(invoices, stripe')  BY <1>1, <1>9, KeptGrows
<1>11. Above(invoices', invoices)  BY <1>1, <1>6, AboveSelf
<1>12. Monotone  BY <1>5, <1>6, <1>9, <1>11 DEF Monotone
<1>13. LinksOK'  BY <1>1, <1>6 DEF LinksOK
<1>14. MoneyOK(p)'  BY <1>3, <1>5 DEF MoneyOK
<1>15. LockOK(p)'  BY <1>3, <1>5 DEF LockOK
<1>16. \A q \in Source : captured'[q] = captured[q] \/ MoneyOK(q)'  BY <1>5, <1>14
<1>17. \A q \in Source : Quiet(q) \/ LockOK(q)'  BY <1>5, <1>6, <1>15 DEF Quiet
<1>18. \A e \in invoiceEvents' : e \in invoiceEvents \/ InvoiceEventOK(e)'
  <2>1. ASSUME NEW e \in invoiceEvents', e \notin invoiceEvents  PROVE InvoiceEventOK(e)'
    <3>1. e.number = p /\ stripe[p] # None /\ e.revision <= stripe[p].revisions /\ p \in Number
      BY <2>1
    <3>2. stripe'[p] # None /\ stripe'[p].revisions = stripe[p].revisions /\ captured'[p] # None
      BY <1>4, <1>5, <3>1
    <3> QED  BY <3>1, <3>2 DEF InvoiceEventOK
  <2> QED  BY <2>1
<1>19. \A s \in sessionEvents' : s \in sessionEvents \/ captured'[s] # None  BY <1>4, <1>5
<1>20. \A n \in Number : Recorded(n)' <= Total
  BY <1>1, <1>6, RecordedStays DEF LedgerInv
<1> QED
  BY <1>6, <1>7, <1>10, <1>11, <1>12, <1>13, <1>16, <1>17, <1>18, <1>19, <1>20, Assemble

LEMMA PayStep ==
  ASSUME LedgerInv, NEW s \in Sessions, PaySession(s)
  PROVE  LedgerInv' /\ Above(invoices', invoices)
<1>1. TypeOK /\ s \in Source /\ s \notin Receipts /\ s \notin Number
  BY Bounds DEF LedgerInv
<1>2. /\ charged[s] # None /\ captured[s] = None /\ Capture(s, charged[s].amount)
      /\ sessionEvents' = sessionEvents \union {s}
      /\ UNCHANGED <<rowVars, creating, charged, stripe, invoiceEvents, chargeEvents>>
  BY DEF PaySession
<1>3. charged[s].amount \in 1..Total  BY <1>1, <1>2 DEF TypeOK, Due
<1>4. /\ stripe' \in [Number -> Revisions \union {None}] /\ sessionEvents' \subseteq Sessions
      /\ invoiceEvents' \subseteq InvoiceEvent
  BY <1>1, <1>2 DEF TypeOK
<1>5. \A e \in invoiceEvents' : e \in invoiceEvents  BY <1>2
<1>6. \A t \in sessionEvents' : t \in sessionEvents \/ t = s  BY <1>2
<1> QED  BY <1>1, <1>2, <1>3, <1>4, <1>5, <1>6, CaptureStep

LEMMA CloseStep ==
  ASSUME LedgerInv, NEW n \in Number, NEW outcome \in {"paid", "void", "uncollectible"},
         CloseStripeInvoice(n, outcome)
  PROVE  LedgerInv' /\ Above(invoices', invoices)
<1>1. TypeOK /\ n \in Source /\ MoneyOK(n)  BY Bounds DEF LedgerInv
<1> DEFINE kept == [stripe[n] EXCEPT !.status = outcome]
           e == Event(outcome, n, stripe[n].revisions, FALSE)
<1>2. /\ stripe[n] # None /\ stripe[n].status \in {"open", "uncollectible"}
      /\ stripe' = [stripe EXCEPT ![n].status = outcome]
      /\ invoiceEvents' = invoiceEvents \union {e}
      /\ IF outcome = "paid" THEN Capture(n, Total) ELSE UNCHANGED captured
      /\ UNCHANGED <<rowVars, creating, charged, sessionEvents, chargeEvents>>
  BY DEF CloseStripeInvoice
<1>3. stripe[n] \in Revisions /\ stripe[n].revisions \in 1..MaxStripe
  BY <1>1, <1>2 DEF TypeOK, Revisions
<1>4. /\ kept \in Revisions /\ kept.revisions = stripe[n].revisions /\ kept.status = outcome
      /\ stripe' = [stripe EXCEPT ![n] = kept]
  BY <1>1, <1>2, <1>3 DEF Revisions, StripeStatuses, TypeOK
<1>5. e \in InvoiceEvent /\ e.number = n /\ e.revision = stripe[n].revisions /\ e.type = outcome
  BY <1>3 DEF Event, InvoiceEvent, StripeStatuses
<1> HIDE DEF kept, e
<1>6. kept.revisions >= stripe[n].revisions /\ e.revision <= stripe[n].revisions
      /\ e.revision <= kept.revisions
  BY <1>3, <1>4, <1>5, Bounds
<1>7. UNCHANGED <<invoices, payments, warned>>  BY <1>2 DEF rowVars
<1>8. CASE outcome # "paid"
  <2>1. \A x \in invoiceEvents' : x \in invoiceEvents \/
          /\ x \in InvoiceEvent /\ x.number = n /\ x.revision <= kept.revisions
          /\ x.type # "paid"
    BY <1>2, <1>5, <1>6, <1>8
  <2>2. UNCHANGED <<payments, warned, creating, charged, captured,
                    sessionEvents, chargeEvents>>
    BY <1>2, <1>7, <1>8
  <2>3. stripe[n] # None => /\ kept.revisions >= stripe[n].revisions
                            /\ stripe[n].status = "paid" => kept.status = "paid"
    BY <1>2, <1>6
  <2>4. \A x \in invoiceEvents' : x \in invoiceEvents \/
          /\ x \in InvoiceEvent /\ x.number = n /\ x.revision <= kept.revisions
          /\ x.type = "paid" => captured[n] # None \/ PaymentsOf(n) # {}
    BY <2>1
  <2>5. invoices' = invoices  BY <1>7
  <2> QED  BY <1>4, <2>2, <2>3, <2>4, <2>5, StripeStep
<1>9. CASE outcome = "paid"
  <2>1. captured[n] = None  BY <1>1, <1>2 DEF MoneyOK
  <2>2. /\ stripe'[n] = kept /\ kept # None /\ stripe' \in [Number -> Revisions \union {None}]
        /\ \A m \in Number : m # n => stripe'[m] = stripe[m]
    BY <1>1, <1>4, LedgerAssumption DEF TypeOK
  <2>3. \A m \in Number : stripe[m] # None =>
          /\ stripe'[m] # None /\ stripe'[m].revisions = stripe[m].revisions
          /\ stripe[m].status = "paid" => stripe'[m].status = "paid"
    BY <1>4, <1>9, <2>2
  <2>4. Total \in 1..Total /\ n \notin Sessions /\ n \notin Receipts  BY Bounds
  <2>5. invoiceEvents' \subseteq InvoiceEvent /\ sessionEvents' \subseteq Sessions
    BY <1>1, <1>2, <1>5 DEF TypeOK
  <2>6. \A x \in invoiceEvents' : x \in invoiceEvents \/
          /\ x.number = n /\ n \in Number
          /\ stripe[n] # None /\ x.revision <= stripe[n].revisions
    BY <1>2, <1>5, <1>6
  <2>7. stripe'[n] # None /\ stripe'[n].status = "paid"  BY <1>4, <1>9, <2>2
  <2>8. sessionEvents' = sessionEvents /\ Capture(n, Total)  BY <1>2, <1>9
  <2> QED
    BY <1>1, <1>2, <2>1, <2>2, <2>3, <2>4, <2>5, <2>6, <2>7, <2>8, CaptureStep
<1> QED  BY <1>8, <1>9

\* A refund or a dispute, with the event that tells of it
LEMMA EmitStep ==
  ASSUME LedgerInv, NEW p \in Charges, NEW type \in {"refunded", "disputed", "won", "lost"},
         NEW money \in Money, Emit(p, type, money), money.amount = captured[p].amount,
         money.refunded <= money.amount,
         captured[p].dispute = "won" => money.dispute = "won",
         type = "refunded" => money.refunded > 0,
         type = "won" => money.dispute = "won",
         type = "refunded" \/ money.refunded = captured[p].refunded,
         money.dispute \in {"open", "lost"}
           => type \in {"disputed", "lost"} \/ money.dispute = captured[p].dispute
  PROVE  LedgerInv' /\ Above(invoices', invoices)
<1>1. TypeOK /\ RowsOK(invoices, stripe) /\ LinksOK /\ MoneyOK(p) /\ LockOK(p)
  BY Bounds DEF LedgerInv, Charges
<1> DEFINE e == [type |-> type, source |-> p, refunded |-> money.refunded]
<1>2. /\ captured' = [captured EXCEPT ![p] = money]
      /\ chargeEvents' = chargeEvents \union {e}
      /\ UNCHANGED <<rowVars, creating, charged, stripe, sessionEvents, invoiceEvents>>
  BY DEF Emit
<1>3. /\ p \in Source /\ p \in Sessions \union Number /\ p \notin Receipts
      /\ captured[p] # None
  BY Bounds DEF Charges
<1>4. /\ e \in ChargeEvent /\ e.type = type /\ e.source = p /\ e.refunded = money.refunded
  BY <1>3 DEF ChargeEvent, Money
<1> HIDE DEF e
<1>5. /\ captured'[p] = money /\ money # None /\ captured' \in [Source -> Money \union {None}]
      /\ \A q \in Source : q # p => captured'[q] = captured[q]
  BY <1>1, <1>2, <1>3, LedgerAssumption DEF TypeOK
<1>6. UNCHANGED <<invoices, payments, warned>>  BY <1>2 DEF rowVars
<1>7. TypeOK'  BY <1>1, <1>2, <1>4, <1>5, <1>6 DEF TypeOK
<1>8. Above(invoices', invoices)  BY <1>1, <1>6, AboveSelf
<1>9. \A n \in Number : stripe[n] # None => stripe'[n].revisions >= stripe[n].revisions
  <2>1. \A n \in Number : stripe[n] # None => stripe[n].revisions \in Nat
    BY <1>1, Bounds DEF TypeOK, Revisions
  <2> QED  BY <1>2, <2>1
<1>10. Monotone  BY <1>2, <1>5, <1>6, <1>8, <1>9 DEF Monotone
<1>11. LinksOK' /\ RowsOK(invoices', stripe')  BY <1>1, <1>2, <1>6 DEF LinksOK
<1>12. MoneyOK(p)'  BY <1>1, <1>2, <1>3, <1>5 DEF MoneyOK
<1>13. ChargeEventOK(e)'  BY <1>4, <1>5 DEF ChargeEventOK
<1>14. LockOK(p)'
  <2>1. SUFFICES ASSUME p \notin warned
                 PROVE  LockOK(p)'
    BY <1>6 DEF LockOK
  <2>2. \A types : (\E x \in chargeEvents : x.source = p /\ x.type \in types) \/ type \in types
                     => \E x \in chargeEvents' : x.source = p /\ x.type \in types
    BY <1>2, <1>4
  <2>3. money.refunded > 0 =>
          \/ Pending(p, {"refunded"})'
          \/ payments[p] # None /\ payments[p].reversed > 0
    BY <1>1, <1>3, <2>1, <2>2 DEF LockOK, Pending
  <2>4. money.dispute \in {"open", "lost"} =>
          \/ Pending(p, {"disputed", "lost"})'
          \/ /\ payments[p] # None
             /\ payments[p].reversed > 0 \/ payments[p].reversal \in {"disputed", "chargeback"}
    BY <1>1, <1>3, <2>1, <2>2 DEF LockOK, Pending
  <2> QED  BY <1>5, <1>6, <2>3, <2>4 DEF LockOK
<1>15. \A q \in Source : captured'[q] = captured[q] \/ MoneyOK(q)'  BY <1>5, <1>12
<1>16. \A q \in Source : Quiet(q) \/ LockOK(q)'  BY <1>2, <1>5, <1>6, <1>14 DEF Quiet
<1>17. \A x \in chargeEvents' : x \in chargeEvents \/ ChargeEventOK(x)'  BY <1>2, <1>13
<1>18. \A n \in Number : Recorded(n)' <= Total
  BY <1>1, <1>6, RecordedStays DEF LedgerInv
<1> QED
  BY <1>2, <1>6, <1>7, <1>8, <1>10, <1>11, <1>15, <1>16, <1>17, <1>18, Assemble

LEMMA ReverseStep ==
  ASSUME LedgerInv, NEW p \in Sessions \union Number,
         Refund(p) \/ Dispute(p) \/ \E outcome \in {"won", "lost"} : CloseDispute(p, outcome)
  PROVE  LedgerInv' /\ Above(invoices', invoices)
<1>1. TypeOK /\ p \in Charges /\ p \in Source
  BY Bounds DEF LedgerInv, Refund, Dispute, CloseDispute
<1>2. captured[p] # None /\ captured[p] \in Money /\ MoneyOK(p)
  BY <1>1 DEF LedgerInv, TypeOK, Charges
<1>3. /\ captured[p].amount \in 1..Total /\ captured[p].refunded \in 0..Total
      /\ captured[p].refunded <= captured[p].amount
  BY <1>2 DEF Money, MoneyOK
<1>4. CASE Refund(p)
  <2>1. PICK r \in (captured[p].refunded + 1)..captured[p].amount :
          Emit(p, "refunded", [captured[p] EXCEPT !.refunded = r])
    BY <1>4 DEF Refund
  <2>2. captured[p].dispute \notin {"open", "lost"}  BY <1>4 DEF Refund
  <2> DEFINE money == [captured[p] EXCEPT !.refunded = r]
  <2>3. r \in 0..Total /\ r > 0 /\ r <= captured[p].amount  BY <1>3, <2>1, Bounds
  <2>4. /\ money \in Money /\ money.amount = captured[p].amount /\ money.refunded = r
        /\ money.dispute = captured[p].dispute
    BY <1>2, <2>3 DEF Money
  <2>5. Emit(p, "refunded", money)  BY <2>1
  <2> HIDE DEF money
  <2> QED  BY <1>1, <2>2, <2>3, <2>4, <2>5, EmitStep
<1>5. ASSUME NEW type \in {"disputed", "won", "lost"}, NEW dispute \in {"open", "won", "lost"},
             Emit(p, type, [captured[p] EXCEPT !.dispute = dispute]),
             captured[p].dispute # "won", type = "won" <=> dispute = "won"
      PROVE  LedgerInv' /\ Above(invoices', invoices)
  <2> DEFINE money == [captured[p] EXCEPT !.dispute = dispute]
  <2>1. /\ money \in Money /\ money.amount = captured[p].amount
        /\ money.refunded = captured[p].refunded /\ money.dispute = dispute
    BY <1>2 DEF Money
  <2>2. Emit(p, type, money)  BY <1>5
  <2> HIDE DEF money
  <2> QED  BY <1>1, <1>3, <1>5, <2>1, <2>2, EmitStep
<1>6. CASE Dispute(p)  BY <1>5, <1>6 DEF Dispute
<1>7. CASE \E outcome \in {"won", "lost"} : CloseDispute(p, outcome)
  BY <1>5, <1>7 DEF CloseDispute
<1> QED  BY <1>4, <1>6, <1>7

\* Handling a refund or a dispute
LEMMA ChargeStep ==
  ASSUME LedgerInv, NEW e \in chargeEvents, HandleChargeEvent(e)
  PROVE  LedgerInv' /\ Above(invoices', invoices)
<1> DEFINE p == e.source
           row == Reversed(p, e)
<1>1. /\ TypeOK /\ RowsOK(invoices, stripe) /\ LinksOK /\ ChargeEventOK(e)
      /\ p \in Sessions \union Number /\ p \in Source /\ e \in ChargeEvent
      /\ BookOK(p) /\ LockOK(p) /\ captured[p] # None
  <2>1. TypeOK /\ e \in ChargeEvent /\ ChargeEventOK(e)  BY DEF LedgerInv, TypeOK, EventsOK
  <2>2. p \in Sessions \union Number  BY <2>1 DEF ChargeEvent
  <2>3. p \in Source  BY <2>2, Bounds
  <2> QED  BY <2>1, <2>2, <2>3 DEF LedgerInv, ChargeEventOK
<1>2. /\ chargeEvents' = chargeEvents \ {e}
      /\ UNCHANGED <<invoices, creating, charged, stripe, captured, sessionEvents, invoiceEvents>>
      /\ IF payments[p] = None
         THEN warned' = warned \union {p} /\ UNCHANGED payments
         ELSE payments' = [payments EXCEPT ![p] = row] /\ UNCHANGED warned
  BY DEF HandleChargeEvent, stripeVars
<1>3. e.type \in {"refunded", "disputed", "won", "lost"} /\ e.refunded \in 0..Total
  BY <1>1 DEF ChargeEvent
<1>4. CASE payments[p] # None
  <2>1. payments[p] \in Payment  BY <1>1, <1>4 DEF TypeOK
  <2>2. /\ row \in Payment
        /\ row.invoice = payments[p].invoice /\ row.amount = payments[p].amount
        /\ row.reversed = IF e.type = "refunded" THEN e.refunded ELSE payments[p].reversed
        /\ e.type = "lost" => row.reversal = "chargeback"
        /\ e.type = "disputed" => row.reversal = "disputed"
    <3>1. \A reversed : ByRefund(p, reversed) \in {"none", "partial", "refunded"}
      BY DEF ByRefund
    <3>2. CASE e.type = "refunded"
      <4>1. row = [payments[p] EXCEPT !.reversed = e.refunded,
                                      !.reversal = ByRefund(p, e.refunded)]
        BY <3>2 DEF Reversed
      <4> HIDE DEF row
      <4> QED  BY <1>3, <2>1, <3>1, <3>2, <4>1 DEF Payment
    <3>3. CASE e.type = "won"
      <4>1. row = [payments[p] EXCEPT !.reversal = ByRefund(p, payments[p].reversed)]
        BY <3>3 DEF Reversed
      <4> HIDE DEF row
      <4> QED  BY <2>1, <3>1, <3>3, <4>1 DEF Payment
    <3>4. CASE e.type = "lost"
      <4>1. row = [payments[p] EXCEPT !.reversal = "chargeback"]  BY <3>4 DEF Reversed
      <4> HIDE DEF row
      <4> QED  BY <2>1, <3>4, <4>1 DEF Payment
    <3>5. CASE e.type = "disputed"
      <4>1. row = [payments[p] EXCEPT !.reversal = "disputed"]  BY <3>5 DEF Reversed
      <4> HIDE DEF row
      <4> QED  BY <2>1, <3>5, <4>1 DEF Payment
    <3> QED  BY <1>3, <3>2, <3>3, <3>4, <3>5
  <2> HIDE DEF row
  <2>3. /\ payments'[p] = row /\ row # None /\ UNCHANGED warned
        /\ payments' \in [Source -> Payment \union {None}]
        /\ \A q \in Source : q # p => payments'[q] = payments[q]
    BY <1>1, <1>2, <1>4, <2>2, LedgerAssumption DEF TypeOK
  <2>4. BookOK(p)'
    <3>1. row.reversed <= row.amount
      BY <1>1, <1>4, <2>2 DEF BookOK, ChargeEventOK
    <3> HIDE DEF p
    <3> QED  BY <1>1, <1>2, <1>4, <2>2, <2>3, <3>1 DEF BookOK
  <2>5. LockOK(p)'
    <3>1. SUFFICES ASSUME p \notin warned
                   PROVE  LockOK(p)'
      BY <2>3 DEF LockOK
    <3>2. captured[p].refunded > 0 =>
            \/ \E x \in chargeEvents' : x.source = p /\ x.type = "refunded"
            \/ row.reversed > 0
      <4>1. CASE e.type = "refunded"  BY <1>1, <2>2, <4>1 DEF ChargeEventOK
      <4>2. CASE e.type # "refunded"
        <5>1. \A x \in chargeEvents : x.type = "refunded" => x \in chargeEvents'
          BY <1>2, <4>2
        <5> QED  BY <1>1, <2>2, <3>1, <4>2, <5>1 DEF LockOK, Pending
      <4> QED  BY <4>1, <4>2
    <3>3. captured[p].dispute \in {"open", "lost"} =>
            \/ \E x \in chargeEvents' : x.source = p /\ x.type \in {"disputed", "lost"}
            \/ row.reversed > 0 \/ row.reversal \in {"disputed", "chargeback"}
      <4>1. CASE e.type = "refunded"  BY <1>1, <2>2, <4>1 DEF ChargeEventOK
      <4>2. CASE e.type = "won"  BY <1>1, <4>2 DEF ChargeEventOK
      <4>3. CASE e.type \in {"lost", "disputed"}  BY <2>2, <4>3
      <4> QED  BY <1>3, <4>1, <4>2, <4>3
    <3> QED  BY <1>2, <2>3, <3>2, <3>3 DEF LockOK, Pending
  <2>6. \A q \in Source : q # p => Quiet(q)  BY <1>2, <2>3 DEF Quiet
  <2>7. \A q \in Source :
          /\ payments'[q] # None <=> payments[q] # None
          /\ payments[q] # None => /\ payments'[q].invoice = payments[q].invoice
                                   /\ payments'[q].amount = payments[q].amount
    BY <1>4, <2>2, <2>3
  <2>8. TypeOK'  BY <1>1, <1>2, <2>3 DEF TypeOK
  <2>9. Above(invoices', invoices)  BY <1>1, <1>2, AboveSelf
  <2>10. \A n \in Number : stripe[n] # None => stripe'[n].revisions >= stripe[n].revisions
    <3>1. \A n \in Number : stripe[n] # None => stripe[n].revisions \in Nat
      BY <1>1, Bounds DEF TypeOK, Revisions
    <3> QED  BY <1>2, <3>1
  <2>11. Monotone  BY <1>2, <2>7, <2>9, <2>10 DEF Monotone
  <2>12. \A n \in Number : Recorded(n)' <= Total
    BY <1>1, <2>7, RecordedStays DEF LedgerInv
  <2>13. LinksOK' /\ RowsOK(invoices', stripe')  BY <1>1, <1>2 DEF LinksOK
  <2>14. \A q \in Source : payments'[q] = payments[q] \/ BookOK(q)'  BY <2>3, <2>4
  <2>15. \A q \in Source : Quiet(q) \/ LockOK(q)'  BY <2>5, <2>6
  <2> QED
    BY <1>2, <2>8, <2>9, <2>11, <2>12, <2>13, <2>14, <2>15, Assemble
<1>5. CASE payments[p] = None
  <2>1. warned' = warned \union {p} /\ payments' = payments  BY <1>2, <1>5
  <2>2. TypeOK'  BY <1>1, <1>2, <2>1 DEF TypeOK
  <2>3. Above(invoices', invoices)  BY <1>1, <1>2, AboveSelf
  <2>4. \A n \in Number : stripe[n] # None => stripe'[n].revisions >= stripe[n].revisions
    <3>1. \A n \in Number : stripe[n] # None => stripe[n].revisions \in Nat
      BY <1>1, Bounds DEF TypeOK, Revisions
    <3> QED  BY <1>2, <3>1
  <2>5. Monotone  BY <1>2, <2>1, <2>3, <2>4 DEF Monotone
  <2>6. \A n \in Number : Recorded(n)' <= Total
    BY <1>1, <2>1, RecordedStays DEF LedgerInv
  <2>7. LinksOK' /\ RowsOK(invoices', stripe')  BY <1>1, <1>2 DEF LinksOK
  <2>8. LockOK(p)'  BY <2>1 DEF LockOK
  <2>9. \A q \in Source : q # p => Quiet(q)  BY <1>2, <2>1 DEF Quiet
  <2>10. \A q \in Source : Quiet(q) \/ LockOK(q)'  BY <2>8, <2>9
  <2> QED  BY <1>2, <2>1, <2>2, <2>3, <2>5, <2>6, <2>7, <2>10, Assemble
<1> QED  BY <1>4, <1>5

-----------------------------------------------------------------------------
(* Theorems *)

LEMMA InitHolds == Init => LedgerInv
<1> SUFFICES ASSUME Init PROVE LedgerInv  OBVIOUS
<1>1. TypeOK  BY DEF Init, TypeOK
<1>2. RowsOK(invoices, stripe) /\ LinksOK  BY <1>1 DEF Init, TypeOK, RowsOK, LinksOK
<1>3. \A p \in Source : MoneyOK(p) /\ BookOK(p) /\ LockOK(p)
  BY DEF Init, MoneyOK, BookOK, LockOK
<1>4. EventsOK  BY DEF Init, EventsOK
<1>5. ASSUME NEW n \in Number  PROVE Recorded(n) <= Total
  <2>1. PaymentsOf(n) = {}  BY DEF Init, PaymentsOf
  <2>2. RecordedUnits(n) = {}  BY <2>1 DEF RecordedUnits
  <2>3. Recorded(n) = 0  BY <2>2, FS_EmptySet DEF Recorded
  <2> QED  BY <2>3, Bounds
<1> QED  BY <1>1, <1>2, <1>3, <1>4, <1>5 DEF LedgerInv

LEMMA StepHolds ==
  ASSUME LedgerInv, [Next]_vars
  PROVE  LedgerInv' /\ Above(invoices', invoices)
<1>1. CASE OperationsAction
  BY <1>1, IssueStep, ManualStep, MakeStripeStep, SnapshotStep, OutOfBandStep
     DEF OperationsAction
<1>2. ASSUME NEW r \in Requests, CreateSession(r) \/ StoreSession(r) \/ AbandonSession(r)
      PROVE  LedgerInv' /\ Above(invoices', invoices)
  BY <1>2, CreateSessionStep, StoreSessionStep
<1>3. ASSUME NEW n \in Number,
             \/ VoidLocal(n) \/ Reconcile(n)
             \/ \E outcome \in {"paid", "void", "uncollectible"} : CloseStripeInvoice(n, outcome)
             \/ Revise(n)
      PROVE  LedgerInv' /\ Above(invoices', invoices)
  BY <1>3, VoidLocalStep, SnapshotStep, CloseStep, ReviseStep
<1>4. ASSUME NEW s \in Sessions, PaySession(s) \/ HandleSessionEvent(s)
      PROVE  LedgerInv' /\ Above(invoices', invoices)
  BY <1>4, PayStep, SessionEventStep
<1>5. ASSUME NEW e \in invoiceEvents, HandleInvoiceEvent(e)
      PROVE  LedgerInv' /\ Above(invoices', invoices)
  BY <1>5, InvoiceEventStep
<1>6. ASSUME NEW e \in chargeEvents, HandleChargeEvent(e)
      PROVE  LedgerInv' /\ Above(invoices', invoices)
  BY <1>6, ChargeStep
<1>7. ASSUME NEW p \in Sessions \union Number,
             Refund(p) \/ Dispute(p) \/ \E outcome \in {"won", "lost"} : CloseDispute(p, outcome)
      PROVE  LedgerInv' /\ Above(invoices', invoices)
  BY <1>7, ReverseStep
<1>8. CASE UNCHANGED vars
  <2>1. UNCHANGED <<rowVars, creating, stripeVars, eventVars>>  BY <1>8 DEF vars
  <2>2. UNCHANGED <<invoices, payments, warned, creating, stripeVars, sessionEvents,
                    invoiceEvents, chargeEvents>>
    BY <2>1 DEF rowVars, eventVars
  <2>3. RowsOK(invoices, stripe) /\ creating \in [Requests -> Sessions \union {None}]
    BY DEF LedgerInv, TypeOK
  <2>4. Above(invoices', invoices)  BY <2>2, <2>3, AboveSelf
  <2> QED  BY <2>2, <2>3, <2>4, RowsStep
<1> QED  BY <1>1, <1>2, <1>3, <1>4, <1>5, <1>6, <1>7, <1>8 DEF Next

\* The inductive invariant: rows, Stripe's objects, the money it took and the
\* events on their way tell one story.
THEOREM LedgerSafe == Spec => []LedgerInv
<1>1. Init => LedgerInv  BY InitHolds
<1>2. LedgerInv /\ [Next]_vars => LedgerInv'  BY StepHolds
<1> QED  BY <1>1, <1>2, PTL DEF Spec

\* Rows, events and Stripe's objects have values that can occur.
THEOREM LedgerTyped == Spec => []TypeOK
<1>1. LedgerInv => TypeOK  BY DEF LedgerInv
<1> QED  BY <1>1, LedgerSafe, PTL

\* An invoice is never settled for more than it asks, however often it is paid at
\* Stripe and by hand, and what is booked as Stripe's is money that Stripe took
\* for that invoice.
THEOREM NoInvoiceIsOverpaid == Spec => []NeverOverpaid
<1>1. LedgerInv => NeverOverpaid
  <2> SUFFICES ASSUME LedgerInv PROVE NeverOverpaid  OBVIOUS
  <2>1. TypeOK /\ \A p \in Source : BookOK(p)  BY DEF LedgerInv
  <2>2. ASSUME NEW n \in Issued  PROVE AmountPaid(n) <= Total
    <3>1. n \in Number  BY DEF Issued
    <3>2. AmountPaid(n) <= Recorded(n)  BY <2>1, <3>1, SettledIsRecorded
    <3>3. Recorded(n) <= Total  BY <3>1 DEF LedgerInv
    <3> QED  BY <3>1, <3>2, <3>3, SumsAreNat, Bounds
  <2>3. ASSUME NEW p \in Sessions \union Number, payments[p] # None  PROVE BookedIsTaken(p)
    <3>1. p \in Source  BY Bounds
    <3> QED  BY <2>1, <2>3, <3>1, Bounds DEF BookOK, BookedIsTaken
  <2> QED  BY <2>2, <2>3 DEF NeverOverpaid
<1> QED  BY <1>1, LedgerSafe, PTL

\* Once the reversals of charges are handled, in whatever order they arrived, the
\* media are released only on money that is held, or staff were warned.
THEOREM ReversalsLockDelivery == Spec => []ReversalsLock
<1>1. LedgerInv => ReversalsLock
  <2> SUFFICES ASSUME LedgerInv, chargeEvents = {}, Released, warned = {}, NEW n \in Active
               PROVE  Cardinality(HeldUnits(n)) >= Total
    BY DEF ReversalsLock
  <2>1. TypeOK /\ \A p \in Source : MoneyOK(p) /\ BookOK(p) /\ LockOK(p)  BY DEF LedgerInv
  <2>2. n \in Number  BY DEF Active, Issued
  <2>3. AmountPaid(n) >= Total  BY <2>2, OutstandingTyped DEF Released
  <2>4. SettledUnits(n) = RecordedUnits(n) /\ Recorded(n) >= Total
    <3>1. AmountPaid(n) <= Recorded(n) /\ Recorded(n) <= Total
      BY <2>1, <2>2, SettledIsRecorded DEF LedgerInv
    <3>2. AmountPaid(n) \in Nat /\ Recorded(n) \in Nat  BY <2>2, SumsAreNat
    <3>3. AmountPaid(n) = Recorded(n) /\ Recorded(n) >= Total
      BY <2>3, <3>1, <3>2, Bounds
    <3> QED  BY <2>1, <2>2, <3>3, SettledIsRecorded
  <2>5. ASSUME NEW p \in PaymentsOf(n)  PROVE Held(p) = payments[p].amount
    <3>1. p \in Source /\ payments[p] # None /\ payments[p].invoice = n  BY DEF PaymentsOf
    <3>2. payments[p] \in Payment  BY <2>1, <3>1 DEF TypeOK
    <3>3. /\ payments[p].amount \in 1..Total /\ payments[p].amount \in Nat
          /\ payments[p].amount > 0 /\ payments[p].reversed \in Nat
      BY <3>2, Bounds DEF Payment
    <3>4. payments[p].amount <= Settled(p)
      <4>1. <<p, payments[p].amount>> \in RecordedUnits(n)
        BY <3>1, <3>3 DEF RecordedUnits, Unit
      <4> QED  BY <2>4, <4>1 DEF SettledUnits
    <3>5. /\ payments[p].reversal \notin {"refunded", "disputed", "chargeback"}
          /\ payments[p].reversed = 0
      BY <3>3, <3>4 DEF Settled
    <3>6. captured[p] # None /\ captured[p].amount = payments[p].amount
      BY <2>1, <3>1 DEF BookOK
    <3>7. /\ ~(captured[p].refunded > 0)
          /\ captured[p].dispute \notin {"open", "lost"}
      BY <2>1, <3>1, <3>5, <3>6 DEF LockOK, Pending
    <3>8. captured[p] \in Money  BY <2>1, <3>1, <3>6 DEF TypeOK
    <3>9. captured[p].refunded = 0  BY <3>7, <3>8, Bounds DEF Money
    <3> QED  BY <3>3, <3>6, <3>7, <3>9 DEF Held
  <2>6. RecordedUnits(n) \subseteq HeldUnits(n)
    BY <2>5 DEF RecordedUnits, HeldUnits
  <2>7. HeldUnits(n) \in SUBSET Unit  BY DEF HeldUnits
  <2>8. IsFiniteSet(HeldUnits(n)) /\ Cardinality(HeldUnits(n)) \in Nat
    BY <2>7, UnitsFinite
  <2>9. Recorded(n) <= Cardinality(HeldUnits(n))
    BY <2>6, <2>8, FS_Subset DEF Recorded
  <2> QED  BY <2>2, <2>4, <2>8, <2>9, SumsAreNat, Bounds
<1> QED  BY <1>1, LedgerSafe, PTL

\* An enquiry's stored Stripe invoice never goes back to an earlier revision.
THEOREM RevisionsGoForward == Spec => RevisionForward
<1>1. LedgerInv /\ [Next]_vars
        => [\A n \in Issued : invoices'[n].revision >= invoices[n].revision]_vars
  BY StepHolds DEF Above, Issued
<1> QED  BY <1>1, LedgerSafe, PTL DEF Spec, RevisionForward
=============================================================================
