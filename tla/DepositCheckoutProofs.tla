----------------------- MODULE DepositCheckoutProofs ------------------------
(***************************************************************************)
(* Theorems of DepositCheckout for any number of staff requests, invoices, *)
(* Sessions, retries and recoveries.                                       *)
(***************************************************************************)
EXTENDS DepositCheckout, TLAPS

\* A Session that nobody can pay any more, and nobody paid
Dead(s) == s \notin paid /\ Expired(s)

\* What a request holds when it is at a step.  A Session that is to be replaced,
\* or voided with its invoice, is dead by then.
StageOK(r) ==
  /\ saw[r] \in offered \union {None} /\ key[r] \in used \union {None}
  /\ pc[r] \notin {"idle", "ensure"} => inv[r] # None /\ status[inv[r]] # "none"
  /\ pc[r] \in {"retrieve", "expire", "reconcile"} => saw[r] # None
  /\ pc[r] = "reconcile" => saw[r] \in paid /\ made[saw[r]] = inv[r]
  /\ pc[r] \in {"key", "void"} => saw[r] = None \/ Dead(saw[r])
  /\ pc[r] \in {"create", "store"} => key[r] # None
  /\ pc[r] = "store" => made[key[r]] # None

SessionsOK ==
  /\ stored \in offered \union {None} /\ creationKey \in used \union {None}
  /\ paid \subseteq offered
  /\ \A s \in offered : made[s] # None
  /\ \A s \in Sessions : made[s] # None => s \in used /\ status[made[s]] # "none"
  /\ \A s \in Sessions : origin[s] # None => Dead(origin[s])

\* A key is taken for a new Session only when the stored one is not payable.
KeyOK == creationKey # None => stored = None \/ ~Open(stored)

PaymentsOK ==
  /\ \A x \in payments : x[2] \in paid /\ made[x[2]] = x[1]
  /\ \A i \in Invoices : status[i] = "paid" => \E s \in Sessions : <<i, s>> \in payments

\* Without recovered Sessions there is one that is paid, and it stays the stored
\* one: no key is taken any more.
DirectOK ==
  (\A s \in Sessions : origin[s] = None) =>
    \A s \in paid : stored = s /\ creationKey = None

DepositInv ==
  /\ TypeOK
  /\ SessionsOK
  /\ KeyOK
  /\ PaymentsOK
  /\ DirectOK
  /\ OfferedIsStored
  /\ \A r \in Requests : StageOK(r)

RequestTypes ==
  /\ pc \in [Requests -> {"idle", "ensure", "retrieve", "expire", "reconcile",
                          "key", "create", "store", "void"}]
  /\ saw \in [Requests -> Sessions \union {None}]
  /\ inv \in [Requests -> Invoices \union {None}]
  /\ key \in [Requests -> Sessions \union {None}]
  /\ tries \in [Requests -> 0..MaxRetries]

RowTypes ==
  /\ stored \in Sessions \union {None} /\ creationKey \in Sessions \union {None}
  /\ status \in [Invoices -> {"none", "issued", "paid", "void"}]
  /\ payments \subseteq Invoices \X Sessions
  /\ used \subseteq Sessions /\ age \in [Sessions -> {"fresh", "near", "over"}]
  /\ made \in [Sessions -> Invoices \union {None}]
  /\ origin \in [Sessions -> Sessions \union {None}]
  /\ closed \subseteq used /\ paid \subseteq used /\ offered \subseteq used

LEMMA TypeParts == TypeOK <=> RowTypes /\ RequestTypes
BY DEF TypeOK, RowTypes, RequestTypes

Waits(q) == /\ pc'[q] = pc[q] /\ saw'[q] = saw[q] /\ inv'[q] = inv[q] /\ key'[q] = key[q]

OthersWait(r) == RequestTypes' /\ \A q \in Requests \ {r} : Waits(q)

\* What no step takes back
Forward ==
  /\ offered \subseteq offered' /\ used \subseteq used' /\ paid \subseteq paid'
  /\ \A s \in Sessions : made[s] # None => made'[s] = made[s]
  /\ \A s \in Sessions : Dead(s) => Dead(s)'
  /\ \A i \in Invoices : status[i] # "none" => status'[i] # "none"

LEMMA Names == None \notin Sessions /\ None \notin Invoices
BY DepositAssumption

LEMMA StageStays ==
  ASSUME TypeOK, SessionsOK, Forward, NEW r \in Requests, StageOK(r), Waits(r)
  PROVE  StageOK(r)'
<1>1. /\ saw[r] \in Sessions \union {None} /\ inv[r] \in Invoices \union {None}
      /\ key[r] \in Sessions \union {None}
  BY DEF TypeOK
<1>2. /\ saw'[r] \in offered' \union {None} /\ key'[r] \in used' \union {None}
      /\ pc'[r] \notin {"idle", "ensure"} => inv'[r] # None /\ status'[inv'[r]] # "none"
      /\ pc'[r] \in {"retrieve", "expire", "reconcile"} => saw'[r] # None
  BY <1>1 DEF StageOK, Waits, Forward
<1>3. pc'[r] = "reconcile" => saw'[r] \in paid' /\ made'[saw'[r]] = inv'[r]
  BY <1>1 DEF StageOK, Waits, Forward
<1>4. (pc[r] \in {"key", "void"} => saw[r] = None \/ Dead(saw[r]))'
  BY <1>1 DEF StageOK, Waits, Forward
<1>5. /\ pc'[r] \in {"create", "store"} => key'[r] # None
      /\ pc'[r] = "store" => made'[key'[r]] # None
  BY <1>1 DEF StageOK, Waits, Forward
<1> QED  BY <1>2, <1>3, <1>4, <1>5 DEF StageOK, Dead, Expired

LEMMA Assemble ==
  ASSUME DepositInv, Forward, RowTypes', RequestTypes',
         SessionsOK', KeyOK', PaymentsOK', DirectOK', OfferedIsStored',
         \A r \in Requests : Waits(r) \/ StageOK(r)'
  PROVE  DepositInv'
<1>1. \A r \in Requests : StageOK(r)'  BY StageStays DEF DepositInv
<1>2. TypeOK'  BY DEF TypeOK, RowTypes, RequestTypes
<1> QED  BY <1>1, <1>2 DEF DepositInv

-----------------------------------------------------------------------------
(* Steps of one request *)

LEMMA Goes ==
  ASSUME TypeOK, NEW r \in Requests,
         NEW label \in {"idle", "ensure", "retrieve", "expire", "reconcile",
                        "key", "create", "store", "void"},
         Goto(r, label)
  PROVE  /\ pc' \in [Requests -> {"idle", "ensure", "retrieve", "expire", "reconcile",
                                  "key", "create", "store", "void"}]
         /\ pc'[r] = label /\ \A q \in Requests \ {r} : pc'[q] = pc[q]
BY DEF TypeOK, Goto

LEMMA Leaves ==
  ASSUME TypeOK, NEW r \in Requests, Leave(r)
  PROVE  /\ OthersWait(r) /\ StageOK(r)'
<1>1. Goto(r, "idle")  BY DEF Leave
<1>2. /\ saw' = [saw EXCEPT ![r] = None] /\ inv' = [inv EXCEPT ![r] = None]
      /\ key' = [key EXCEPT ![r] = None] /\ tries' = [tries EXCEPT ![r] = 0]
  BY DEF Leave
<1>3. 0 \in 0..MaxRetries  BY DepositAssumption
<1>4. RequestTypes'  BY <1>1, <1>2, <1>3, Goes DEF TypeOK, RequestTypes
<1>5. saw'[r] = None /\ key'[r] = None /\ pc'[r] = "idle"
  BY <1>1, <1>2, Goes DEF TypeOK
<1>6. \A q \in Requests \ {r} : Waits(q)  BY <1>1, <1>2, Goes DEF TypeOK, Waits
<1> QED  BY <1>4, <1>5, <1>6 DEF OthersWait, StageOK

LEMMA Stays ==
  ASSUME TypeOK, NEW r \in Requests,
         NEW label \in {"idle", "ensure", "retrieve", "expire", "reconcile",
                        "key", "create", "store", "void"},
         Goto(r, label), UNCHANGED <<saw, inv, key, tries>>
  PROVE  OthersWait(r) /\ pc'[r] = label
<1>1. RequestTypes'  BY Goes DEF TypeOK, RequestTypes
<1>2. \A q \in Requests \ {r} : Waits(q)  BY Goes DEF TypeOK, Waits
<1> QED  BY <1>1, <1>2, Goes DEF OthersWait

LEMMA Retries ==
  ASSUME TypeOK, SessionsOK, NEW r \in Requests, Retry(r), offered' = offered
  PROVE  /\ OthersWait(r) /\ StageOK(r)'
<1>1. CASE tries[r] < MaxRetries
  <2>1. /\ Goto(r, "ensure") /\ saw' = [saw EXCEPT ![r] = stored]
        /\ tries' = [tries EXCEPT ![r] = @ + 1]
        /\ inv' = [inv EXCEPT ![r] = None] /\ key' = [key EXCEPT ![r] = None]
    BY <1>1 DEF Retry
  <2>2. tries' \in [Requests -> 0..MaxRetries]
    <3>1. tries[r] \in 0..MaxRetries  BY DEF TypeOK
    <3>2. tries[r] + 1 \in 0..MaxRetries  BY <1>1, <3>1, DepositAssumption
    <3> QED  BY <2>1, <3>2 DEF TypeOK
  <2>3. RequestTypes'  BY <2>1, <2>2, Goes DEF TypeOK, RequestTypes
  <2>4. saw'[r] = stored /\ key'[r] = None /\ pc'[r] = "ensure"
    BY <2>1, Goes DEF TypeOK
  <2>5. \A q \in Requests \ {r} : Waits(q)  BY <2>1, Goes DEF TypeOK, Waits
  <2> QED  BY <2>3, <2>4, <2>5 DEF OthersWait, StageOK, SessionsOK
<1>2. CASE ~(tries[r] < MaxRetries)
  BY <1>2, Leaves DEF Retry
<1> QED  BY <1>1, <1>2

\* The rows, Stripe and the mailed links stay as they are.
LEMMA RequestStep ==
  ASSUME DepositInv, NEW r \in Requests, UNCHANGED <<rowVars, stripeVars, offered>>,
         OthersWait(r), StageOK(r)'
  PROVE  DepositInv'
<1>1. /\ UNCHANGED <<stored, creationKey, status, payments>>
      /\ UNCHANGED <<used, age, made, origin, closed, paid, offered>>
  BY DEF rowVars, stripeVars
<1>2. TypeOK /\ SessionsOK /\ KeyOK /\ PaymentsOK /\ DirectOK /\ OfferedIsStored
  BY DEF DepositInv
<1>3. RowTypes'  BY <1>1, <1>2 DEF TypeOK, RowTypes
<1>4. Forward  BY <1>1 DEF Forward, Dead, Expired
<1>5. SessionsOK'  BY <1>1, <1>2 DEF SessionsOK, Dead, Expired
<1>6. KeyOK' /\ PaymentsOK' /\ DirectOK' /\ OfferedIsStored'
  BY <1>1, <1>2 DEF KeyOK, PaymentsOK, DirectOK, OfferedIsStored, Open, Expired
<1> QED  BY <1>3, <1>4, <1>5, <1>6, Assemble DEF OthersWait

LEMMA ReadStep ==
  ASSUME DepositInv, NEW r \in Requests, ReadEnquiry(r)
  PROVE  DepositInv'
<1>1. TypeOK /\ SessionsOK /\ StageOK(r)  BY DEF DepositInv
<1>2. /\ pc[r] = "idle" /\ Goto(r, "ensure") /\ saw' = [saw EXCEPT ![r] = stored]
      /\ UNCHANGED <<rowVars, stripeVars, offered, inv, key, tries>>
  BY DEF ReadEnquiry
<1>3. pc'[r] = "ensure" /\ saw'[r] = stored /\ key'[r] = key[r]
  BY <1>1, <1>2, Goes DEF TypeOK
<1>4. OthersWait(r)
  BY <1>1, <1>2, Goes DEF OthersWait, Waits, TypeOK, RequestTypes
<1>5. StageOK(r)'
  BY <1>1, <1>2, <1>3 DEF StageOK, SessionsOK, stripeVars
<1> QED  BY <1>2, <1>4, <1>5, RequestStep

LEMMA RetrieveStep ==
  ASSUME DepositInv, NEW r \in Requests,
         Reuse(r) \/ RetrieveUnusable(r) \/ RetrieveExpired(r) \/ RetrievePaid(r)
  PROVE  DepositInv'
<1>1. TypeOK /\ SessionsOK /\ StageOK(r)  BY DEF DepositInv
<1>2. pc[r] = "retrieve" /\ saw[r] # None /\ saw[r] \in offered
  BY <1>1 DEF StageOK, Reuse, RetrieveUnusable, RetrieveExpired, RetrievePaid
<1>3. UNCHANGED <<rowVars, stripeVars, offered>>
  BY <1>2 DEF Reuse, RetrieveUnusable, RetrieveExpired, RetrievePaid
<1>4. CASE Leave(r)  BY <1>1, <1>3, <1>4, Leaves, RequestStep
<1>5. ASSUME NEW label \in {"key", "expire", "reconcile"},
             Goto(r, label), UNCHANGED <<saw, inv, key, tries>>,
             label = "key" => Dead(saw[r]),
             label = "reconcile" => saw[r] \in paid /\ Matches(r)
      PROVE  DepositInv'
  <2>1. OthersWait(r) /\ pc'[r] = label  BY <1>1, <1>5, Stays
  <2>2. UNCHANGED <<status, used, age, made, closed, paid, offered>>
    BY <1>3 DEF rowVars, stripeVars
  <2>3. StageOK(r)'
    BY <1>1, <1>2, <1>5, <2>1, <2>2 DEF StageOK, Dead, Expired, Matches
  <2> QED  BY <1>3, <2>1, <2>3, RequestStep
<1>6. CASE Reuse(r)  BY <1>4, <1>6 DEF Reuse
<1>7. CASE RetrieveUnusable(r)  BY <1>5, <1>7 DEF RetrieveUnusable
<1>8. CASE RetrieveExpired(r)  BY <1>5, <1>8 DEF RetrieveExpired, Dead
<1>9. CASE RetrievePaid(r)  BY <1>4, <1>5, <1>9 DEF RetrievePaid
<1> QED  BY <1>6, <1>7, <1>8, <1>9

LEMMA VerifyStep ==
  ASSUME DepositInv, NEW r \in Requests, NEW i \in Invoices, VerifyVoid(r, i)
  PROVE  DepositInv'
<1>1. TypeOK /\ SessionsOK /\ StageOK(r)  BY DEF DepositInv
<1>2. /\ status[i] = "issued"
      /\ stored # None => stored \notin paid /\ Expired(stored)
      /\ saw' = [saw EXCEPT ![r] = stored] /\ inv' = [inv EXCEPT ![r] = i]
      /\ Goto(r, "void")
      /\ UNCHANGED <<rowVars, stripeVars, offered, key, tries>>
  BY DEF VerifyVoid
<1>3. pc'[r] = "void" /\ saw'[r] = stored /\ inv'[r] = i /\ key'[r] = key[r]
  BY <1>1, <1>2, Goes DEF TypeOK
<1>4. OthersWait(r)
  BY <1>1, <1>2, Goes DEF OthersWait, Waits, TypeOK, RequestTypes
<1>5. UNCHANGED <<status, used, age, made, closed, paid, offered>>
  BY <1>2 DEF rowVars, stripeVars
<1>6. StageOK(r)'
  BY <1>1, <1>2, <1>3, <1>5, Names DEF StageOK, SessionsOK, Dead, Expired
<1> QED  BY <1>2, <1>4, <1>6, RequestStep

LEMMA FailStep ==
  ASSUME DepositInv, NEW r \in Requests, Fail(r)
  PROVE  DepositInv'
<1>1. TypeOK  BY DEF DepositInv
<1> QED  BY <1>1, Leaves, RequestStep DEF Fail

-----------------------------------------------------------------------------
(* Steps that change rows *)

LEMMA EnsureStep ==
  ASSUME DepositInv, NEW r \in Requests, EnsureInvoice(r)
  PROVE  DepositInv'
<1>1. TypeOK /\ SessionsOK /\ PaymentsOK /\ StageOK(r)  BY DEF DepositInv
<1>2. PICK i \in Invoices :
        /\ status' = [status EXCEPT ![i] = IF @ = "none" THEN "issued" ELSE @]
        /\ IF status[i] = "paid"
           THEN Leave(r)
           ELSE /\ inv' = [inv EXCEPT ![r] = i]
                /\ Goto(r, IF saw[r] = None THEN "key" ELSE "retrieve")
                /\ UNCHANGED <<saw, key, tries>>
  <2>1. Active \subseteq Invoices  BY DEF Active
  <2> QED  BY <2>1 DEF EnsureInvoice
<1>3. UNCHANGED <<stored, creationKey, payments, used, age, made, origin, closed, paid, offered>>
  BY DEF EnsureInvoice, stripeVars
<1>4. /\ status' \in [Invoices -> {"none", "issued", "paid", "void"}]
      /\ status'[i] # "none"
      /\ \A j \in Invoices : status[j] # "none" => status'[j] = status[j]
      /\ \A j \in Invoices : status'[j] = "paid" => status[j] = "paid"
  BY <1>1, <1>2 DEF TypeOK
<1>5. RowTypes'  BY <1>1, <1>3, <1>4 DEF TypeOK, RowTypes
<1>6. Forward  BY <1>3, <1>4 DEF Forward, Dead, Expired
<1>7. SessionsOK'
  BY <1>1, <1>3, <1>4 DEF SessionsOK, Dead, Expired, TypeOK
<1>8. PaymentsOK'  BY <1>1, <1>3, <1>4 DEF PaymentsOK
<1>9. KeyOK' /\ DirectOK' /\ OfferedIsStored'
  BY <1>3 DEF DepositInv, KeyOK, DirectOK, OfferedIsStored, Open, Expired
<1>10. OthersWait(r) /\ StageOK(r)'
  <2>1. CASE status[i] = "paid"  BY <1>1, <1>2, <2>1, Leaves
  <2>2. CASE status[i] # "paid"
    <3> DEFINE label == IF saw[r] = None THEN "key" ELSE "retrieve"
    <3>1. /\ inv' = [inv EXCEPT ![r] = i] /\ Goto(r, label)
          /\ UNCHANGED <<saw, key, tries>>
      BY <1>2, <2>2
    <3>2. pc'[r] = label /\ inv'[r] = i /\ label \in {"key", "retrieve"}
      BY <1>1, <3>1, Goes DEF TypeOK
    <3>3. OthersWait(r)
      BY <1>1, <3>1, Goes DEF OthersWait, Waits, TypeOK, RequestTypes
    <3>4. StageOK(r)'
      BY <1>1, <1>3, <1>4, <3>1, <3>2, Names DEF StageOK
    <3> QED  BY <3>3, <3>4
  <2> QED  BY <2>1, <2>2
<1> QED  BY <1>5, <1>6, <1>7, <1>8, <1>9, <1>10, Assemble DEF OthersWait

LEMMA ExpireStep ==
  ASSUME DepositInv, NEW r \in Requests, ExpireSession(r)
  PROVE  DepositInv'
<1>1. TypeOK /\ SessionsOK /\ StageOK(r)  BY DEF DepositInv
<1>2. /\ pc[r] = "expire" /\ saw[r] # None /\ saw[r] \in offered /\ saw[r] \in used
      /\ UNCHANGED <<rowVars, used, age, made, origin, paid, offered>>
  BY <1>1 DEF ExpireSession, StageOK, TypeOK
<1>3. CASE ~Open(saw[r])
  BY <1>1, <1>2, <1>3, Leaves, RequestStep DEF ExpireSession, stripeVars
<1>4. CASE Open(saw[r])
  <2>1. /\ closed' = closed \union {saw[r]} /\ Goto(r, "key")
        /\ UNCHANGED <<saw, inv, key, tries>>
    BY <1>4 DEF ExpireSession
  <2>2. UNCHANGED <<stored, creationKey, status, payments>>  BY <1>2 DEF rowVars
  <2>3. RowTypes'  BY <1>1, <1>2, <2>1, <2>2 DEF TypeOK, RowTypes
  <2>4. Forward  BY <1>2, <2>1, <2>2 DEF Forward, Dead, Expired
  <2>5. SessionsOK'  BY <1>1, <1>2, <2>1, <2>2 DEF SessionsOK, Dead, Expired
  <2>6. \A s : Open(s)' => Open(s)  BY <1>2, <2>1 DEF Open, Expired
  <2>7. KeyOK' /\ OfferedIsStored'
    BY <1>2, <2>2, <2>6 DEF DepositInv, KeyOK, OfferedIsStored
  <2>8. PaymentsOK' /\ DirectOK'
    BY <1>2, <2>2 DEF DepositInv, PaymentsOK, DirectOK
  <2>9. OthersWait(r) /\ pc'[r] = "key"  BY <1>1, <2>1, Stays
  <2>10. StageOK(r)'
    BY <1>1, <1>2, <1>4, <2>1, <2>2, <2>9 DEF StageOK, Dead, Expired, Open
  <2> QED  BY <2>3, <2>4, <2>5, <2>7, <2>8, <2>9, <2>10, Assemble DEF OthersWait
<1> QED  BY <1>3, <1>4

\* A payment is recorded, and its Session stored if it was not.
LEMMA RecordStep ==
  ASSUME DepositInv, NEW i \in Invoices, NEW s \in Sessions, s \in paid, made[s] = i,
         RecordPayment(i, s),
         \/ stored' = stored
         \/ stored' = s /\ stored \in {None, s, origin[s]},
         UNCHANGED <<creationKey, stripeVars, offered>>, RequestTypes',
         \A r \in Requests : Waits(r) \/ StageOK(r)'
  PROVE  DepositInv'
<1>1. TypeOK /\ SessionsOK /\ KeyOK /\ PaymentsOK /\ DirectOK /\ OfferedIsStored
  BY DEF DepositInv
<1>2. UNCHANGED <<creationKey, used, age, made, origin, closed, paid, offered>>
  BY DEF stripeVars
<1>3. /\ payments' = payments \union {<<i, s>>} /\ status' = [status EXCEPT ![i] = "paid"]
  BY DEF RecordPayment
<1>4. /\ status' \in [Invoices -> {"none", "issued", "paid", "void"}]
      /\ status'[i] = "paid" /\ \A j \in Invoices : j # i => status'[j] = status[j]
  BY <1>1, <1>3 DEF TypeOK
<1>5. RowTypes'  BY <1>1, <1>2, <1>3, <1>4 DEF TypeOK, RowTypes
<1>6. Forward  BY <1>2, <1>4 DEF Forward, Dead, Expired
<1>7. s \in offered /\ s # None  BY <1>1, Names DEF SessionsOK
<1>8. SessionsOK'
  BY <1>1, <1>2, <1>4, <1>7 DEF SessionsOK, Dead, Expired, TypeOK
<1>9. PaymentsOK'
  <2>1. \A x \in payments' : x[2] \in paid' /\ made'[x[2]] = x[1]
    BY <1>1, <1>2, <1>3 DEF PaymentsOK
  <2>2. ASSUME NEW j \in Invoices, status'[j] = "paid"
        PROVE  \E t \in Sessions : <<j, t>> \in payments'
    BY <1>1, <1>3, <1>4, <2>2 DEF PaymentsOK
  <2> QED  BY <2>1, <2>2 DEF PaymentsOK
<1>10. KeyOK'  BY <1>1, <1>2 DEF KeyOK, Open, Expired
<1>11. DirectOK'
  <2>1. SUFFICES ASSUME \A t \in Sessions : origin[t] = None, NEW t \in paid
                 PROVE  stored' = t /\ creationKey = None
    BY <1>2 DEF DirectOK
  <2> QED  BY <1>1, <2>1, <1>2 DEF DirectOK
<1>12. OfferedIsStored'
  <2>1. SUFFICES ASSUME NEW t \in offered, Open(t), origin[t] = None
                 PROVE  stored' = t
    BY <1>2 DEF OfferedIsStored, Open, Expired
  <2>2. stored = t  BY <1>1, <2>1 DEF OfferedIsStored
  <2>3. t # s /\ ~Dead(t) /\ t # None
    BY <1>1, <2>1, Names DEF Open, Dead, TypeOK
  <2>4. origin[s] # t  BY <1>1, <2>3 DEF SessionsOK
  <2> QED  BY <2>2, <2>3, <2>4
<1> QED  BY <1>5, <1>6, <1>8, <1>9, <1>10, <1>11, <1>12, Assemble

LEMMA ReconcileStep ==
  ASSUME DepositInv, NEW r \in Requests, Reconcile(r)
  PROVE  DepositInv'
<1>1. TypeOK /\ StageOK(r)  BY DEF DepositInv
<1>2. OthersWait(r) /\ StageOK(r)'  BY <1>1, Leaves DEF Reconcile
<1>3. CASE ~RecordedSession(saw[r]) /\ status[inv[r]] = "issued"
  <2>1. /\ RecordPayment(inv[r], saw[r])
        /\ stored' = IF stored = None THEN saw[r] ELSE stored
        /\ UNCHANGED <<creationKey, stripeVars, offered>>
    BY <1>3 DEF Reconcile
  <2>2. /\ saw[r] \in Sessions /\ saw[r] \in paid /\ made[saw[r]] = inv[r]
        /\ inv[r] \in Invoices
    BY <1>1 DEF StageOK, Reconcile, TypeOK
  <2> HIDE DEF RecordedSession, RecordPayment
  <2>3. \/ stored' = stored
        \/ stored' = saw[r] /\ stored \in {None, saw[r], origin[saw[r]]}
    BY <2>1
  <2> QED  BY <1>2, <2>1, <2>2, <2>3, RecordStep DEF OthersWait
<1>4. CASE ~(~RecordedSession(saw[r]) /\ status[inv[r]] = "issued")
  BY <1>2, <1>4, RequestStep DEF Reconcile, rowVars
<1> QED  BY <1>3, <1>4

LEMMA WebhookStep ==
  ASSUME DepositInv, NEW s \in Sessions, WebhookPaid(s)
  PROVE  DepositInv'
<1>1. TypeOK  BY DEF DepositInv
<1>2. /\ s \in paid /\ RecordPayment(made[s], s) /\ stored' = s
      /\ made[s] \in Invoices /\ stored \in {None, s, origin[s]}
      /\ UNCHANGED <<creationKey, stripeVars, offered, requestVars>>
  BY DEF WebhookPaid, Acceptable, Active
<1>3. RequestTypes' /\ \A r \in Requests : Waits(r)
  BY <1>1, <1>2 DEF TypeOK, RequestTypes, requestVars, Waits
<1> QED  BY <1>2, <1>3, RecordStep

-----------------------------------------------------------------------------
(* Steps with a creation key *)

LEMMA TakeKeyStep ==
  ASSUME DepositInv, NEW r \in Requests, TakeKey(r)
  PROVE  DepositInv'
<1>1. TypeOK /\ SessionsOK /\ StageOK(r)  BY DEF DepositInv
<1>2. /\ pc[r] = "key"
      /\ saw[r] = None \/ Dead(saw[r])
      /\ UNCHANGED <<stored, status, payments, age, made, origin, closed, paid, offered>>
  BY <1>1 DEF TakeKey, StageOK
<1>3. CASE /\ UNCHANGED <<creationKey, used>>
           /\ Leave(r) \/ Retry(r)
  <2>1. OthersWait(r) /\ StageOK(r)'  BY <1>1, <1>2, <1>3, Leaves, Retries
  <2> QED  BY <1>2, <1>3, <2>1, RequestStep DEF rowVars, stripeVars
<1>4. ASSUME NEW k \in Sessions, k = creationKey \/ k \notin used, stored = saw[r],
             creationKey' = k, used' = used \union {k}, key' = [key EXCEPT ![r] = k],
             Goto(r, "create"), UNCHANGED <<saw, inv, tries>>
      PROVE  DepositInv'
  <2>1. pc'[r] = "create" /\ key'[r] = k  BY <1>1, <1>4, Goes DEF TypeOK
  <2>2. OthersWait(r)
    BY <1>1, <1>4, Goes DEF OthersWait, Waits, TypeOK, RequestTypes
  <2>3. RowTypes'  BY <1>1, <1>2, <1>4 DEF TypeOK, RowTypes
  <2>4. Forward  BY <1>2, <1>4 DEF Forward, Dead, Expired
  <2>5. SessionsOK'  BY <1>1, <1>2, <1>4 DEF SessionsOK, Dead, Expired
  <2>6. stored = None \/ Dead(stored)  BY <1>2, <1>4
  <2>7. KeyOK'  BY <1>2, <2>6 DEF KeyOK, Dead, Open, Expired
  <2>8. PaymentsOK' /\ OfferedIsStored'
    BY <1>2 DEF DepositInv, PaymentsOK, OfferedIsStored, Open, Expired
  <2>9. DirectOK'
    <3>1. SUFFICES ASSUME \A t \in Sessions : origin[t] = None, NEW t \in paid
                   PROVE  FALSE
      BY <1>2 DEF DirectOK
    <3>2. stored = t  BY <3>1 DEF DepositInv, DirectOK
    <3>3. t \in Sessions  BY <1>1, <3>1 DEF TypeOK
    <3> QED  BY <2>6, <3>1, <3>2, <3>3, Names DEF Dead
  <2>10. StageOK(r)'
    BY <1>1, <1>2, <1>4, <2>1, Names DEF StageOK
  <2> QED
    BY <2>2, <2>3, <2>4, <2>5, <2>7, <2>8, <2>9, <2>10, Assemble DEF OthersWait
<1>5. CASE stored # saw[r]  BY <1>3, <1>5 DEF TakeKey
<1>6. CASE stored = saw[r] /\ creationKey # None /\ age[creationKey] = "near"
  BY <1>3, <1>6 DEF TakeKey
<1>7. CASE stored = saw[r] /\ creationKey # None /\ age[creationKey] = "fresh"
  <2>1. creationKey \in used /\ creationKey \in Sessions
    BY <1>1, <1>7 DEF SessionsOK, TypeOK
  <2>2. /\ key' = [key EXCEPT ![r] = creationKey] /\ Goto(r, "create")
        /\ UNCHANGED <<creationKey, used, saw, inv, tries>>
    BY <1>7 DEF TakeKey
  <2>3. used' = used \union {creationKey}  BY <2>1, <2>2
  <2> QED  BY <1>4, <1>7, <2>1, <2>2, <2>3
<1>8. CASE stored = saw[r] /\ (creationKey # None => age[creationKey] \notin {"fresh", "near"})
  <2>1. PICK k \in Sessions \ used :
          /\ creationKey' = k /\ used' = used \union {k}
          /\ key' = [key EXCEPT ![r] = k]
          /\ Goto(r, "create")
          /\ UNCHANGED <<saw, inv, tries>>
    BY <1>8 DEF TakeKey
  <2> QED  BY <1>4, <1>8, <2>1
<1> QED  BY <1>5, <1>6, <1>7, <1>8

\* Stripe makes a Session, whoever gets the answer.
LEMMA CreateStep ==
  ASSUME DepositInv, NEW r \in Requests, CreateSession(r) \/ CreateFails(r)
  PROVE  DepositInv'
<1>1. TypeOK /\ SessionsOK /\ KeyOK /\ PaymentsOK /\ OfferedIsStored /\ StageOK(r)
  BY DEF DepositInv
<1>2. /\ pc[r] = "create"
      /\ UNCHANGED <<rowVars, used, age, origin, closed, paid, offered>>
  BY DEF CreateSession, CreateFails
<1>3. /\ key[r] \in Sessions /\ key[r] \in used /\ inv[r] \in Invoices /\ inv[r] # None
      /\ status[inv[r]] # "none"
  BY <1>1, <1>2 DEF StageOK, TypeOK
<1>4. /\ OthersWait(r)
      /\ \/ Leave(r)
         \/ pc'[r] = "store" /\ UNCHANGED <<saw, inv, key>> /\ made'[key[r]] = inv[r]
  <2>1. CASE Leave(r)  BY <1>1, <2>1, Leaves
  <2>2. CASE CreateSession(r)
    <3>1. Goto(r, "store") /\ UNCHANGED <<saw, inv, key, tries>>
      BY <2>2 DEF CreateSession
    <3>2. made'[key[r]] = inv[r]  BY <1>1, <1>3, <2>2 DEF CreateSession, TypeOK
    <3> QED  BY <1>1, <3>1, <3>2, Stays
  <2> QED  BY <2>1, <2>2 DEF CreateFails
<1>5. /\ made' \in [Sessions -> Invoices \union {None}]
      /\ \A s \in Sessions : made[s] # None => made'[s] = made[s]
      /\ \A s \in Sessions : made'[s] # made[s] => s = key[r] /\ made'[s] = inv[r]
  BY <1>1, <1>3 DEF CreateSession, CreateFails, TypeOK
<1>6. UNCHANGED <<stored, creationKey, status, payments>>  BY <1>2 DEF rowVars
<1>7. RowTypes'  BY <1>1, <1>2, <1>5, <1>6 DEF TypeOK, RowTypes
<1>8. Forward  BY <1>2, <1>5, <1>6 DEF Forward, Dead, Expired
<1>9. \A s \in offered : s \in Sessions /\ made'[s] = made[s]
  BY <1>1, <1>5 DEF SessionsOK, TypeOK
<1>10. SessionsOK'
  <2>1. \A s \in Sessions : made'[s] # None => s \in used /\ status[made'[s]] # "none"
    BY <1>1, <1>3, <1>5 DEF SessionsOK
  <2> QED  BY <1>1, <1>2, <1>6, <1>9, <2>1 DEF SessionsOK, Dead, Expired
<1>11. KeyOK'
  BY <1>1, <1>2, <1>6, <1>9 DEF KeyOK, SessionsOK, Open, Expired
<1>12. PaymentsOK'
  <2>1. \A x \in payments : x[2] \in paid /\ made'[x[2]] = x[1]
    BY <1>1, <1>9 DEF PaymentsOK, SessionsOK
  <2> QED  BY <1>1, <1>2, <1>6, <2>1 DEF PaymentsOK
<1>13. OfferedIsStored'
  BY <1>1, <1>2, <1>6, <1>9 DEF OfferedIsStored, Open, Expired
<1>14. DirectOK'  BY <1>2, <1>6 DEF DepositInv, DirectOK
<1>15. StageOK(r)'
  <2>1. CASE Leave(r)  BY <1>1, <2>1, Leaves
  <2>2. CASE pc'[r] = "store" /\ UNCHANGED <<saw, inv, key>> /\ made'[key[r]] = inv[r]
    BY <1>1, <1>2, <1>3, <1>6, <2>2, Names DEF StageOK
  <2> QED  BY <1>4, <2>1, <2>2
<1> QED
  BY <1>4, <1>7, <1>8, <1>10, <1>11, <1>12, <1>13, <1>14, <1>15, Assemble DEF OthersWait

\* A creation key that is given up leaves nothing payable behind.
LEMMA DropKey ==
  ASSUME DepositInv, creationKey' \in {creationKey, None},
         UNCHANGED <<stored, status, payments, stripeVars, offered>>, RequestTypes',
         \A r \in Requests : Waits(r) \/ StageOK(r)'
  PROVE  DepositInv'
<1>1. TypeOK /\ SessionsOK /\ KeyOK /\ PaymentsOK /\ DirectOK /\ OfferedIsStored
  BY DEF DepositInv
<1>2. UNCHANGED <<stored, status, payments, used, age, made, origin, closed, paid, offered>>
  BY DEF stripeVars
<1>3. RowTypes'  BY <1>1, <1>2 DEF TypeOK, RowTypes
<1>4. Forward  BY <1>2 DEF Forward, Dead, Expired
<1>5. SessionsOK'  BY <1>1, <1>2 DEF SessionsOK, Dead, Expired
<1>6. KeyOK'  BY <1>1, <1>2 DEF KeyOK, Open, Expired
<1>7. PaymentsOK' /\ DirectOK' /\ OfferedIsStored'
  BY <1>1, <1>2 DEF PaymentsOK, DirectOK, OfferedIsStored, Open, Expired
<1> QED  BY <1>3, <1>4, <1>5, <1>6, <1>7, Assemble

LEMMA RejectedStep ==
  ASSUME DepositInv, NEW r \in Requests, CreateRejected(r)
  PROVE  DepositInv'
<1>1. OthersWait(r) /\ StageOK(r)'  BY Leaves DEF CreateRejected, DepositInv
<1>2. /\ creationKey' \in {creationKey, None}
      /\ UNCHANGED <<stored, status, payments, stripeVars, offered>>
  BY DEF CreateRejected, ClearKey
<1> QED  BY <1>1, <1>2, DropKey DEF OthersWait

LEMMA StoreStep ==
  ASSUME DepositInv, NEW r \in Requests, StoreSession(r)
  PROVE  DepositInv'
<1>1. /\ TypeOK /\ SessionsOK /\ KeyOK /\ PaymentsOK /\ DirectOK /\ OfferedIsStored
      /\ StageOK(r)
  BY DEF DepositInv
<1>2. /\ pc[r] = "store" /\ UNCHANGED <<status, payments, stripeVars>>
      /\ UNCHANGED <<used, age, made, origin, closed, paid>>
  BY DEF StoreSession, stripeVars
<1>3. key[r] \in Sessions /\ key[r] \in used /\ key[r] # None /\ made[key[r]] # None
  BY <1>1, <1>2 DEF StageOK, TypeOK
<1>4. CASE creationKey # key[r] /\ stored # key[r]
  <2>1. Retry(r) /\ UNCHANGED <<stored, creationKey, offered>>  BY <1>4 DEF StoreSession
  <2>2. OthersWait(r) /\ StageOK(r)'  BY <1>1, <2>1, Retries
  <2> QED  BY <1>2, <2>1, <2>2, RequestStep DEF rowVars
<1>5. CASE creationKey = key[r] \/ stored = key[r]
  <2>1. /\ stored' = key[r] /\ offered' = offered \union {key[r]} /\ Leave(r)
        /\ creationKey' = IF creationKey = key[r] THEN None ELSE creationKey
    BY <1>5 DEF StoreSession
  <2>2. OthersWait(r) /\ StageOK(r)'  BY <1>1, <2>1, Leaves
  <2>3. RowTypes'  BY <1>1, <1>2, <1>3, <2>1 DEF TypeOK, RowTypes
  <2>4. Forward  BY <1>2, <2>1 DEF Forward, Dead, Expired
  <2>5. SessionsOK'  BY <1>1, <1>2, <1>3, <2>1 DEF SessionsOK, Dead, Expired
  <2>6. KeyOK'  BY <1>1, <1>2, <1>3, <1>5, <2>1 DEF KeyOK, Open, Expired
  <2>7. PaymentsOK'  BY <1>1, <1>2 DEF PaymentsOK
  <2>8. DirectOK'
    <3>1. SUFFICES ASSUME \A t \in Sessions : origin[t] = None, NEW t \in paid
                   PROVE  stored' = t /\ creationKey' = None
      BY <1>2 DEF DirectOK
    <3>2. stored = t /\ creationKey = None  BY <1>1, <3>1 DEF DirectOK
    <3> QED  BY <1>3, <1>5, <2>1, <3>2
  <2>9. OfferedIsStored'
    <3>1. SUFFICES ASSUME NEW t \in offered, Open(t), origin[t] = None
                   PROVE  key[r] = t
      BY <1>2, <2>1 DEF OfferedIsStored, Open, Expired
    <3>2. stored = t /\ t # None  BY <1>1, <3>1, Names DEF OfferedIsStored, TypeOK
    <3>3. creationKey = None  BY <1>1, <3>1, <3>2 DEF KeyOK
    <3> QED  BY <1>3, <1>5, <3>2, <3>3
  <2> QED  BY <2>2, <2>3, <2>4, <2>5, <2>6, <2>7, <2>8, <2>9, Assemble DEF OthersWait
<1> QED  BY <1>4, <1>5

LEMMA VoidStep ==
  ASSUME DepositInv, NEW r \in Requests, VoidInvoice(r)
  PROVE  DepositInv'
<1>1. /\ TypeOK /\ SessionsOK /\ KeyOK /\ PaymentsOK /\ DirectOK /\ OfferedIsStored
      /\ StageOK(r)
  BY DEF DepositInv
<1>2. /\ UNCHANGED <<payments, stripeVars, offered>>
      /\ UNCHANGED <<used, age, made, origin, closed, paid>>
      /\ saw[r] = None \/ Dead(saw[r])
  BY <1>1 DEF VoidInvoice, stripeVars, StageOK
<1>3. OthersWait(r) /\ StageOK(r)'  BY <1>1, Leaves DEF VoidInvoice
<1>4. CASE stored = saw[r] /\ status[inv[r]] = "issued"
  <2>1. /\ status' = [status EXCEPT ![inv[r]] = "void"] /\ stored' = None
        /\ creationKey' \in {creationKey, None}
    BY <1>4 DEF VoidInvoice
  <2>2. inv[r] \in Invoices  BY <1>1 DEF StageOK, VoidInvoice, TypeOK
  <2>3. /\ status' \in [Invoices -> {"none", "issued", "paid", "void"}]
        /\ \A i \in Invoices : status'[i] = status[i]
                                 \/ status'[i] = "void"
    BY <1>1, <2>1, <2>2 DEF TypeOK
  <2>4. RowTypes'  BY <1>1, <1>2, <2>1, <2>3 DEF TypeOK, RowTypes
  <2>5. Forward  BY <1>2, <2>3 DEF Forward, Dead, Expired
  <2>6. SessionsOK'
    <3>1. \A s \in Sessions : made[s] # None => made[s] \in Invoices  BY <1>1 DEF TypeOK
    <3> QED  BY <1>1, <1>2, <2>1, <2>3, <3>1 DEF SessionsOK, Dead, Expired
  <2>7. KeyOK'  BY <2>1 DEF KeyOK
  <2>8. PaymentsOK'  BY <1>1, <1>2, <2>3 DEF PaymentsOK
  <2>9. stored = None \/ Dead(stored)  BY <1>2, <1>4
  <2>10. DirectOK'
    <3>1. SUFFICES ASSUME \A t \in Sessions : origin[t] = None, NEW t \in paid
                   PROVE  FALSE
      BY <1>2 DEF DirectOK
    <3>2. stored = t /\ t # None  BY <1>1, <3>1, Names DEF DirectOK, TypeOK
    <3> QED  BY <2>9, <3>1, <3>2 DEF Dead
  <2>11. OfferedIsStored'
    <3>1. SUFFICES ASSUME NEW t \in offered, Open(t), origin[t] = None
                   PROVE  FALSE
      BY <1>2 DEF OfferedIsStored, Open, Expired
    <3>2. stored = t /\ t # None  BY <1>1, <3>1, Names DEF OfferedIsStored, TypeOK
    <3> QED  BY <2>9, <3>1, <3>2 DEF Dead, Open
  <2> QED
    BY <1>3, <2>4, <2>5, <2>6, <2>7, <2>8, <2>10, <2>11, Assemble DEF OthersWait
<1>5. CASE ~(stored = saw[r] /\ status[inv[r]] = "issued")
  BY <1>2, <1>3, <1>5, RequestStep DEF VoidInvoice, rowVars
<1> QED  BY <1>4, <1>5

-----------------------------------------------------------------------------
(* The client and time *)

LEMMA PayStep ==
  ASSUME DepositInv, NEW s \in Sessions, Pay(s)
  PROVE  DepositInv'
<1>1. /\ TypeOK /\ SessionsOK /\ KeyOK /\ PaymentsOK /\ DirectOK /\ OfferedIsStored
      /\ s # None
  BY Names DEF DepositInv
<1>2. /\ Open(s) /\ s \in offered /\ paid' = paid \union {s}
      /\ UNCHANGED <<rowVars, used, age, made, origin, closed, offered, requestVars>>
  BY DEF Pay
<1>3. UNCHANGED <<stored, creationKey, status, payments, pc, saw, inv, key, tries>>
  BY <1>2 DEF rowVars, requestVars
<1>4. RowTypes' /\ RequestTypes'
  BY <1>1, <1>2, <1>3 DEF TypeOK, RowTypes, RequestTypes
<1>5. Forward  BY <1>2, <1>3 DEF Forward, Dead, Expired, Open
<1>6. \A t : Dead(t) => Dead(t)'  BY <1>2, <1>3 DEF Dead, Expired, Open
<1>7. SessionsOK'  BY <1>1, <1>2, <1>3, <1>6 DEF SessionsOK
<1>8. KeyOK' /\ OfferedIsStored'
  BY <1>1, <1>2, <1>3 DEF KeyOK, OfferedIsStored, Open, Expired
<1>9. PaymentsOK'  BY <1>1, <1>2, <1>3 DEF PaymentsOK
<1>10. DirectOK'
  <2>1. SUFFICES ASSUME \A t \in Sessions : origin[t] = None, NEW t \in paid'
                 PROVE  stored = t /\ creationKey = None
    BY <1>2, <1>3 DEF DirectOK
  <2>2. stored = s /\ creationKey = None
    BY <1>1, <1>2, <2>1 DEF OfferedIsStored, KeyOK
  <2> QED  BY <1>1, <1>2, <2>1, <2>2 DEF DirectOK
<1>11. \A r \in Requests : Waits(r)  BY <1>3 DEF Waits
<1> QED  BY <1>4, <1>5, <1>7, <1>8, <1>9, <1>10, <1>11, Assemble

LEMMA RecoverStep ==
  ASSUME DepositInv, NEW s \in Sessions, NEW t \in Sessions, Recover(s, t)
  PROVE  DepositInv'
<1>1. /\ TypeOK /\ SessionsOK /\ KeyOK /\ PaymentsOK /\ DirectOK /\ OfferedIsStored
      /\ s # None /\ t # None
  BY Names DEF DepositInv
<1>2. /\ s \in offered /\ Dead(s) /\ t \notin used
      /\ used' = used \union {t} /\ offered' = offered \union {t}
      /\ made' = [made EXCEPT ![t] = made[s]]
      /\ origin' = [origin EXCEPT ![t] = s]
      /\ UNCHANGED <<rowVars, age, closed, paid, requestVars>>
  BY DEF Recover, Dead
<1>3. UNCHANGED <<stored, creationKey, status, payments, pc, saw, inv, key, tries>>
  BY <1>2 DEF rowVars, requestVars
<1>4. RowTypes' /\ RequestTypes'
  BY <1>1, <1>2, <1>3 DEF TypeOK, RowTypes, RequestTypes
<1>5. /\ made[t] = None /\ made[s] # None /\ made'[t] = made[s] /\ origin'[t] = s
      /\ \A u \in Sessions : u # t => made'[u] = made[u] /\ origin'[u] = origin[u]
      /\ \A u \in offered : u \in Sessions /\ u # t
  BY <1>1, <1>2 DEF SessionsOK, TypeOK
<1>6. Forward  BY <1>2, <1>3, <1>5 DEF Forward, Dead, Expired
<1>7. SessionsOK'
  <2>1. \A u \in Sessions : made'[u] # None => u \in used' /\ status[made'[u]] # "none"
    BY <1>1, <1>2, <1>5 DEF SessionsOK
  <2>2. \A u \in Sessions : origin'[u] # None => Dead(origin'[u])
    BY <1>1, <1>2, <1>5 DEF SessionsOK
  <2> QED  BY <1>1, <1>2, <1>3, <1>5, <2>1, <2>2 DEF SessionsOK, Dead, Expired
<1>8. KeyOK'  BY <1>1, <1>2, <1>3, <1>5 DEF KeyOK, SessionsOK, Open, Expired
<1>9. OfferedIsStored'
  BY <1>1, <1>2, <1>3, <1>5 DEF OfferedIsStored, Open, Expired
<1>10. PaymentsOK'
  BY <1>1, <1>2, <1>3, <1>5 DEF PaymentsOK, SessionsOK
<1>11. DirectOK'  BY <1>1, <1>5 DEF DirectOK
<1>12. \A r \in Requests : Waits(r)  BY <1>3 DEF Waits
<1> QED  BY <1>4, <1>6, <1>7, <1>8, <1>9, <1>10, <1>11, <1>12, Assemble

LEMMA TimeStep ==
  ASSUME DepositInv, NEW s \in Sessions, TimePasses(s)
  PROVE  DepositInv'
<1>1. TypeOK /\ SessionsOK /\ KeyOK /\ PaymentsOK /\ DirectOK /\ OfferedIsStored
  BY DEF DepositInv
<1>2. /\ age[s] # "over" /\ age' = [age EXCEPT ![s] = IF @ = "fresh" THEN "near" ELSE "over"]
      /\ UNCHANGED <<rowVars, used, made, origin, closed, paid, offered, requestVars>>
  BY DEF TimePasses
<1>3. UNCHANGED <<stored, creationKey, status, payments, pc, saw, inv, key, tries>>
  BY <1>2 DEF rowVars, requestVars
<1>4. /\ age' \in [Sessions -> {"fresh", "near", "over"}]
      /\ \A t \in Sessions : age[t] = "over" => age'[t] = "over"
  BY <1>1, <1>2 DEF TypeOK
<1>5. RowTypes' /\ RequestTypes'
  BY <1>1, <1>2, <1>3, <1>4 DEF TypeOK, RowTypes, RequestTypes
<1>6. \A t \in Sessions : Dead(t) => Dead(t)'  BY <1>2, <1>4 DEF Dead, Expired
<1>7. \A t \in Sessions : Open(t)' => Open(t)  BY <1>2, <1>4 DEF Open, Expired
<1>8. Forward  BY <1>2, <1>3, <1>6 DEF Forward
<1>9. SessionsOK'
  <2>1. \A t \in Sessions : origin[t] # None => origin[t] \in Sessions  BY <1>1 DEF TypeOK
  <2> QED  BY <1>1, <1>2, <1>3, <1>6, <2>1 DEF SessionsOK
<1>10. KeyOK' /\ OfferedIsStored'
  <2>1. offered \subseteq Sessions /\ stored \in Sessions \union {None}  BY <1>1 DEF TypeOK
  <2> QED  BY <1>1, <1>2, <1>3, <1>7, <2>1 DEF KeyOK, OfferedIsStored
<1>11. PaymentsOK' /\ DirectOK'  BY <1>1, <1>2, <1>3 DEF PaymentsOK, DirectOK
<1>12. \A r \in Requests : Waits(r)  BY <1>3 DEF Waits
<1> QED  BY <1>5, <1>8, <1>9, <1>10, <1>11, <1>12, Assemble

-----------------------------------------------------------------------------
(* Theorems *)

LEMMA InitHolds == Init => DepositInv
<1> SUFFICES ASSUME Init PROVE DepositInv  OBVIOUS
<1>1. 0 \in 0..MaxRetries  BY DepositAssumption
<1>2. TypeOK  BY <1>1 DEF Init, TypeOK
<1>3. SessionsOK /\ KeyOK /\ DirectOK /\ OfferedIsStored
  BY DEF Init, SessionsOK, KeyOK, DirectOK, OfferedIsStored
<1>4. PaymentsOK  BY DEF Init, PaymentsOK
<1>5. \A r \in Requests : StageOK(r)  BY DEF Init, StageOK
<1> QED  BY <1>2, <1>3, <1>4, <1>5 DEF DepositInv

LEMMA StepHolds ==
  ASSUME DepositInv, [Next]_vars
  PROVE  DepositInv'
<1>1. ASSUME NEW r \in Requests, ReadEnquiry(r) \/ EnsureInvoice(r)  PROVE DepositInv'
  BY <1>1, ReadStep, EnsureStep
<1>2. ASSUME NEW r \in Requests,
             Reuse(r) \/ RetrieveUnusable(r) \/ RetrieveExpired(r) \/ RetrievePaid(r)
      PROVE  DepositInv'
  BY <1>2, RetrieveStep
<1>3. ASSUME NEW r \in Requests, ExpireSession(r) \/ Reconcile(r)  PROVE DepositInv'
  BY <1>3, ExpireStep, ReconcileStep
<1>4. ASSUME NEW r \in Requests,
             \/ TakeKey(r) \/ CreateSession(r) \/ CreateRejected(r)
             \/ CreateFails(r) \/ StoreSession(r)
      PROVE  DepositInv'
  BY <1>4, TakeKeyStep, CreateStep, RejectedStep, StoreStep
<1>5. ASSUME NEW r \in Requests,
             (\E i \in Invoices : VerifyVoid(r, i)) \/ VoidInvoice(r) \/ Fail(r)
      PROVE  DepositInv'
  BY <1>5, VerifyStep, VoidStep, FailStep
<1>6. ASSUME NEW s \in Sessions, WebhookPaid(s) \/ Pay(s) \/ TimePasses(s)
      PROVE  DepositInv'
  BY <1>6, WebhookStep, PayStep, TimeStep
<1>7. ASSUME NEW s \in Sessions, NEW t \in Sessions, Recover(s, t)  PROVE DepositInv'
  BY <1>7, RecoverStep
<1>8. CASE UNCHANGED vars
  <2>1. UNCHANGED <<stored, creationKey, status, payments, stripeVars, offered, requestVars>>
    BY <1>8 DEF vars, rowVars
  <2>2. RequestTypes' /\ \A r \in Requests : Waits(r)
    BY <2>1 DEF DepositInv, TypeOK, RequestTypes, requestVars, Waits
  <2> QED  BY <2>1, <2>2, DropKey
<1> QED  BY <1>1, <1>2, <1>3, <1>4, <1>5, <1>6, <1>7, <1>8 DEF Next

\* The inductive invariant: a Session that is replaced or voided is dead, and a
\* key is taken only while the stored Session is not payable.
THEOREM DepositSafe == Spec => []DepositInv
<1>1. Init => DepositInv  BY InitHolds
<1>2. DepositInv /\ [Next]_vars => DepositInv'  BY StepHolds
<1> QED  BY <1>1, <1>2, PTL DEF Spec

\* Rows, Sessions and requests have values the columns and the code can give.
THEOREM DepositTyped == Spec => []TypeOK
<1>1. DepositInv => TypeOK  BY DEF DepositInv
<1> QED  BY <1>1, DepositSafe, PTL

\* The client never holds two payable links that staff mailed, however many
\* preparations and voids overlap.
THEOREM OneLinkIsPayable == Spec => []OfferedIsStored
<1>1. DepositInv => OfferedIsStored  BY DEF DepositInv
<1> QED  BY <1>1, DepositSafe, PTL

\* Until the client follows a recovery link, a deposit that was paid is recorded,
\* or the webhook accepts it.
THEOREM DepositIsRecordable == Spec => []DirectIsRecordable
<1>1. DepositInv => DirectIsRecordable
  <2> SUFFICES ASSUME DepositInv, \A t \in Sessions : origin[t] = None,
                      NEW s \in paid, status[made[s]] # "void", ~RecordedSession(s)
               PROVE  Acceptable(s)
    BY DEF DirectIsRecordable, PaidIsRecordable
  <2>1. TypeOK /\ SessionsOK /\ PaymentsOK /\ DirectOK  BY DEF DepositInv
  <2>2. s \in Sessions /\ s \in offered /\ stored = s  BY <2>1 DEF TypeOK, SessionsOK, DirectOK
  <2>3. made[s] \in Invoices /\ status[made[s]] \in {"issued", "paid"}
    BY <2>1, <2>2 DEF TypeOK, SessionsOK
  <2>4. status[made[s]] # "paid"
    <3>1. SUFFICES ASSUME status[made[s]] = "paid" PROVE FALSE  OBVIOUS
    <3>2. PICK t \in Sessions : <<made[s], t>> \in payments
      BY <2>1, <2>3, <3>1 DEF PaymentsOK
    <3>3. t \in paid  BY <2>1, <3>2 DEF PaymentsOK
    <3>4. t = s  BY <2>1, <2>2, <3>3 DEF DirectOK
    <3> QED  BY <2>3, <3>2, <3>4 DEF RecordedSession
  <2> QED  BY <2>2, <2>3, <2>4 DEF Acceptable, Active
<1> QED  BY <1>1, DepositSafe, PTL

\* Until the client follows a recovery link, the deposit is paid at most once.
THEOREM DepositIsPaidOnce ==
  Spec => []((\A s \in Sessions : origin[s] = None) => \A s, t \in paid : s = t)
<1>1. DepositInv => ((\A s \in Sessions : origin[s] = None) => \A s, t \in paid : s = t)
  BY DEF DepositInv, DirectOK
<1> QED  BY <1>1, DepositSafe, PTL
=============================================================================
