----------------------- MODULE OrderFulfilmentProofs ------------------------
(***************************************************************************)
(* Theorems of OrderFulfilment for any number of workers, events and       *)
(* payments: its types, the safety properties its runs check, that it      *)
(* implements PaidOrder, and when the submission lease excludes a second   *)
(* submitter; and of ProdigiTracking, which takes over the order's row     *)
(* once it is submitted.                                                   *)
(***************************************************************************)
EXTENDS OrderFulfilment, ProdigiTracking, TLAPS

-----------------------------------------------------------------------------
(* Types *)

LEMMA Bounds ==
  /\ StaleAfter \in Nat /\ Lease \in Nat /\ RedeliveryGap \in Nat
  /\ MaxCrashes \in Nat /\ MaxErrors \in Nat
BY OrderAssumption DEF OrderAssumption

LEMMA BusyHasPayment ==
  ASSUME WorkerOK, NEW w \in Workers, pc[w] # "idle"
  PROVE  job[w] \in Events /\ P(w) \in Payments
BY OrderAssumption DEF OrderAssumption, WorkerOK, P

\* A part of the state no step of an action touches keeps its type.
LEMMA Frame ==
  /\ LedgerOK /\ UNCHANGED ledgerVars => LedgerOK'
  /\ OrderOK /\ UNCHANGED orderVars => OrderOK'
  /\ MailOK /\ UNCHANGED mailVars => MailOK'
  /\ PrintOK /\ UNCHANGED prodigiVars => PrintOK'
  /\ WorkerOK /\ UNCHANGED workerVars /\ UNCHANGED faults => WorkerOK'
<1>1. LedgerOK /\ UNCHANGED ledgerVars => LedgerOK'
  BY DEF LedgerOK, ledgerVars
<1>2. OrderOK /\ UNCHANGED orderVars => OrderOK'
  BY DEF OrderOK, orderVars
<1>3. MailOK /\ UNCHANGED mailVars => MailOK'
  BY DEF MailOK, mailVars
<1>4. PrintOK /\ UNCHANGED prodigiVars => PrintOK'
  BY DEF PrintOK, prodigiVars
<1>5. WorkerOK /\ UNCHANGED workerVars /\ UNCHANGED faults => WorkerOK'
  BY DEF WorkerOK, workerVars, faults
<1> QED BY <1>1, <1>2, <1>3, <1>4, <1>5

\* A busy worker moves to another step of the handler.
LEMMA Moved ==
  ASSUME WorkerOK, NEW w \in Workers, NEW l \in Labels \ {"idle"},
         Goto(w, l), pc[w] # "idle", job' = job,
         mem' = mem \/ \E m \in Copies : mem' = [mem EXCEPT ![w] = m],
         result' = result \/ \E v \in Verdicts :
                               result' = [result EXCEPT ![w] = v],
         crashes' \in 0..MaxCrashes, errors' \in 0..MaxErrors
  PROVE  WorkerOK'
<1>1. pc' \in [Workers -> Labels]
  BY DEF WorkerOK, Goto
<1>2. mem' \in [Workers -> Copies]
  BY DEF WorkerOK
<1>3. result' \in [Workers -> Verdicts]
  BY DEF WorkerOK
<1>4. \A v \in Workers : pc'[v] # "idle" => job'[v] \in Events
  BY DEF WorkerOK, Goto
<1>5. \A v \in Workers : pc'[v] = "idle" => mem'[v] = BlankMem
  BY DEF WorkerOK, Goto
<1> QED BY <1>1, <1>2, <1>3, <1>4, <1>5 DEF WorkerOK

\* A worker leaves the handler, at its end or because it died.
LEMMA Left ==
  ASSUME WorkerOK, NEW w \in Workers, Leave(w),
         crashes' \in 0..MaxCrashes, errors' \in 0..MaxErrors
  PROVE  WorkerOK'
<1>1. BlankMem \in Copies
  BY DEF BlankMem, Copies, PrintStatuses
<1>2. /\ pc' \in [Workers -> Labels]
      /\ job' \in [Workers -> Events \union {NoEvent}]
      /\ mem' \in [Workers -> Copies]
      /\ result' \in [Workers -> Verdicts]
  BY <1>1 DEF WorkerOK, Leave, Labels, Verdicts
<1>3. \A v \in Workers : pc'[v] # "idle" => job'[v] \in Events
  BY DEF WorkerOK, Leave
<1>4. \A v \in Workers : pc'[v] = "idle" => mem'[v] = BlankMem
  BY DEF WorkerOK, Leave
<1> QED BY <1>2, <1>3, <1>4 DEF WorkerOK

LEMMA Accepted ==
  ASSUME TypeOK, NEW w \in Workers, NEW e \in Events, Accept(w, e),
         LedgerOK', pc[w] = "idle"
  PROVE  TypeOK'
<1>1. /\ pc' \in [Workers -> Labels]
      /\ job' \in [Workers -> Events \union {NoEvent}]
  BY DEF Accept, Goto, TypeOK, WorkerOK, Labels, EarlyLabels
<1>2. \A v \in Workers : pc'[v] # "idle" => job'[v] \in Events
  BY DEF Accept, Goto, TypeOK, WorkerOK
<1>3. \A v \in Workers : pc'[v] = "idle" => mem'[v] = BlankMem
  BY DEF Accept, Goto, TypeOK, WorkerOK
<1>4. WorkerOK'
  BY <1>1, <1>2, <1>3 DEF Accept, TypeOK, WorkerOK, faults
<1> QED BY <1>4, Frame DEF Accept, TypeOK

-----------------------------------------------------------------------------
LEMMA TypedInit == Init => TypeOK
<1> SUFFICES ASSUME Init PROVE TypeOK
  OBVIOUS
<1>1. LedgerOK
  <2>1. /\ ledger = [e \in Events |-> "absent"]
        /\ eventAge = [e \in Events |-> 0]
        /\ sinceDelivery = [e \in Events |-> 0]
        /\ acked = {}
    BY DEF Init
  <2> QED BY <2>1, Bounds DEF LedgerOK
<1>2. OrderOK
  BY DEF Init, OrderOK
<1>3. MailOK
  <2>1. /\ mailStatus = [p \in Payments |-> "PENDING"]
        /\ mails = [p \in Payments |-> 0]
        /\ unmarked = {}
    BY DEF Init
  <2> QED BY <2>1 DEF MailOK
<1>4. PrintOK
  <2>1. /\ prodigi = [p \in Payments |-> "none"]
        /\ prodigiId = {}
        /\ prodigiStatus = [p \in Payments |-> ""]
        /\ leaseAge = [p \in Payments |-> NoLease]
    BY DEF Init
  <2>2. NoLease \in 0..NoLease
    BY Bounds DEF NoLease
  <2> QED BY <2>1, <2>2 DEF PrintOK, PrintStatuses
<1>5. WorkerOK
  <2>1. /\ pc = [w \in Workers |-> "idle"]
        /\ job = [w \in Workers |-> NoEvent]
        /\ mem = [w \in Workers |-> BlankMem]
        /\ result = [w \in Workers |-> "ok"]
        /\ crashes = 0 /\ errors = 0
    BY DEF Init
  <2>2. BlankMem \in Copies
    BY DEF BlankMem, Copies, PrintStatuses
  <2> QED BY <2>1, <2>2, Bounds DEF WorkerOK, Labels, Verdicts
<1> QED BY <1>1, <1>2, <1>3, <1>4, <1>5 DEF TypeOK

LEMMA TypedReceive ==
  ASSUME TypeOK, NEW w \in Workers, NEW e \in Events, Receive(w, e)
  PROVE  TypeOK'
<1>1. sinceDelivery' \in [Events -> 0..RedeliveryGap] /\ pc[w] = "idle"
  BY Bounds DEF Receive, ReceiveNew, RetryFailed, TakeOverStale, SkipDelivered,
                Delivered, TypeOK, LedgerOK, At
<1>2. CASE ReceiveNew(w, e)
  <2>1. LedgerOK'
    <3>1. /\ ledger' = [ledger EXCEPT ![e] = "PROCESSING"]
          /\ eventAge' = [eventAge EXCEPT ![e] = 0]
          /\ acked' = acked
      BY <1>2 DEF ReceiveNew, Accept
    <3> QED BY <1>1, <3>1, Bounds DEF TypeOK, LedgerOK
  <2> QED BY <1>1, <1>2, <2>1, Accepted DEF ReceiveNew
<1>3. CASE RetryFailed(w, e)
  <2>1. LedgerOK'
    BY <1>1, <1>3 DEF RetryFailed, Accept, TypeOK, LedgerOK
  <2> QED BY <1>1, <1>3, <2>1, Accepted DEF RetryFailed
<1>4. CASE TakeOverStale(w, e)
  <2>1. LedgerOK'
    BY <1>1, <1>4 DEF TakeOverStale, Accept, TypeOK, LedgerOK
  <2> QED BY <1>1, <1>4, <2>1, Accepted DEF TakeOverStale
<1>5. CASE SkipDelivered(w, e)
  <2>1. LedgerOK'
    BY <1>1, <1>5 DEF SkipDelivered, TypeOK, LedgerOK
  <2> QED BY <1>5, <2>1, Frame DEF SkipDelivered, TypeOK
<1> QED BY <1>2, <1>3, <1>4, <1>5 DEF Receive

\* The moves of a busy worker keep its record well typed.
LEMMA TypedWorker ==
  ASSUME TypeOK, NEW w \in Workers, Proceed(w)
  PROVE  WorkerOK' /\ pc[w] # "idle" /\ P(w) \in Payments
<1>0. pc[w] # "idle" /\ P(w) \in Payments
  <2>1. pc[w] # "idle"
    BY DEF Proceed, VerifyPayment, LookupOrder, ValidateOrder, CreateOrder,
           RedeemDiscount, HoldOrder, ClaimMail, SendMail, MarkMail,
           RefreshOrder, ClaimSubmission, SubmitAccepted, SubmitRaises,
           RecordProdigiId, SyncShipping, ReloadOrder, SettleSubmission,
           FailSubmission, FinishEvent, At
  <2> QED BY <2>1, BusyHasPayment DEF TypeOK
<1>1. Stored(P(w)) \in Copies
  BY <1>0 DEF TypeOK, PrintOK, Stored, Copies
<1>2. /\ crashes \in 0..MaxCrashes /\ errors \in 0..MaxErrors
      /\ mem[w] \in Copies /\ WorkerOK
  BY DEF TypeOK, WorkerOK
<1> USE DEF Give
<1>3. CASE VerifyPayment(w) \/ LookupOrder(w) \/ ValidateOrder(w)
  BY <1>0, <1>1, <1>2, <1>3, Moved
     DEF VerifyPayment, LookupOrder, ValidateOrder, Labels, EarlyLabels,
         Verdicts, faults
<1>4. CASE CreateOrder(w) \/ RedeemDiscount(w) \/ HoldOrder(w)
  BY <1>0, <1>1, <1>2, <1>4, Moved
     DEF CreateOrder, RedeemDiscount, HoldOrder, Labels, EarlyLabels, Verdicts,
         faults
<1>5. CASE ClaimMail(w) \/ SendMail(w) \/ MarkMail(w)
  <2>1. AfterMail(w) \in Labels \ {"idle"}
    BY DEF AfterMail, Labels, PrintLabels
  <2>2. CASE ClaimMail(w) \/ MarkMail(w)
    BY <1>0, <1>2, <2>1, <2>2, Moved DEF ClaimMail, MarkMail, Labels,
       MailLabels, faults
  <2>3. CASE SendMail(w)
    <3>1. crashes' \in 0..MaxCrashes /\ errors' \in 0..MaxErrors
      BY <1>2, <2>3, Bounds DEF SendMail, faults
    <3> QED BY <1>0, <1>2, <2>3, <3>1, Moved DEF SendMail, Labels, MailLabels
  <2> QED BY <1>5, <2>2, <2>3
<1>6. CASE RefreshOrder(w) \/ SubmitRaises(w) \/ RecordProdigiId(w)
           \/ ReloadOrder(w) \/ SettleSubmission(w) \/ FailSubmission(w)
  BY <1>0, <1>1, <1>2, <1>6, Moved
     DEF RefreshOrder, SubmitRaises, RecordProdigiId, ReloadOrder,
         SettleSubmission, FailSubmission, Labels, PrintLabels, Verdicts, faults
<1>7. CASE ClaimSubmission(w) \/ SubmitAccepted(w) \/ SyncShipping(w)
  <2>1. \A s \in PrintStatuses : [mem[w] EXCEPT !.status = s] \in Copies
    BY <1>2 DEF Copies
  <2>2. [mem[w] EXCEPT !.id = TRUE] \in Copies
    BY <1>2 DEF Copies
  <2>3. Seen(P(w)) \subseteq PrintStatuses
    BY <1>0 DEF Seen, PrintStatuses, Stages, TypeOK, PrintOK
  <2>4. mem' = mem \/ \E m \in Copies : mem' = [mem EXCEPT ![w] = m]
    BY <1>7, <2>1, <2>2, <2>3
       DEF ClaimSubmission, SubmitAccepted, SyncShipping, PrintStatuses
  <2> QED BY <1>0, <1>2, <1>7, <2>4, Moved
         DEF ClaimSubmission, SubmitAccepted, SyncShipping, Labels, PrintLabels,
             faults
<1>8. CASE FinishEvent(w)
  BY <1>0, <1>2, <1>8, Left DEF FinishEvent, faults
<1> QED BY <1>0, <1>3, <1>4, <1>5, <1>6, <1>7, <1>8 DEF Proceed

\* The steps of a busy worker keep the tables well typed.
LEMMA TypedProceed ==
  ASSUME TypeOK, NEW w \in Workers, Proceed(w)
  PROVE  TypeOK'
<1>0. P(w) \in Payments /\ job[w] \in Events /\ WorkerOK'
  BY TypedWorker, BusyHasPayment DEF TypeOK
<1>1. LedgerOK'
  <2>1. CASE FinishEvent(w)
    BY <1>0, <2>1 DEF FinishEvent, TypeOK, LedgerOK
  <2> QED BY <2>1, Frame DEF Proceed, VerifyPayment, LookupOrder, ValidateOrder,
        CreateOrder, RedeemDiscount, HoldOrder, ClaimMail, SendMail, MarkMail,
        RefreshOrder, ClaimSubmission, SubmitAccepted, SubmitRaises,
        RecordProdigiId, SyncShipping, ReloadOrder, SettleSubmission,
        FailSubmission, TypeOK
<1>2. OrderOK'
  <2>1. CASE VerifyPayment(w) \/ CreateOrder(w) \/ HoldOrder(w)
    BY <1>0, <2>1 DEF VerifyPayment, CreateOrder, HoldOrder, TypeOK, OrderOK
  <2>2. CASE RedeemDiscount(w)
    BY <1>0, <2>2 DEF RedeemDiscount, TypeOK, OrderOK
  <2> QED BY <2>1, <2>2, Frame DEF Proceed, LookupOrder, ValidateOrder,
        ClaimMail, SendMail, MarkMail, RefreshOrder, ClaimSubmission,
        SubmitAccepted, SubmitRaises, RecordProdigiId, SyncShipping,
        ReloadOrder, SettleSubmission, FailSubmission, FinishEvent, TypeOK
<1>3. MailOK'
  <2>1. CASE ClaimMail(w) \/ MarkMail(w)
    BY <1>0, <2>1 DEF ClaimMail, MarkMail, TypeOK, MailOK
  <2>2. CASE SendMail(w)
    <3>1. mails' \in [Payments -> 0..2]
      BY <1>0, <2>2 DEF SendMail, TypeOK, MailOK
    <3> QED BY <1>0, <2>2, <3>1 DEF SendMail, TypeOK, MailOK
  <2> QED BY <2>1, <2>2, Frame DEF Proceed, VerifyPayment, LookupOrder,
        ValidateOrder, CreateOrder, RedeemDiscount, HoldOrder, RefreshOrder,
        ClaimSubmission, SubmitAccepted, SubmitRaises, RecordProdigiId,
        SyncShipping, ReloadOrder, SettleSubmission, FailSubmission,
        FinishEvent, TypeOK
<1>4. PrintOK'
  <2>0. /\ NoLease \in 0..NoLease /\ 0 \in 0..NoLease
        /\ mem[w].status \in PrintStatuses /\ Seen(P(w)) \subseteq PrintStatuses
        /\ PrintOK
    <3>1. NoLease \in 0..NoLease /\ 0 \in 0..NoLease
      BY Bounds DEF NoLease
    <3>2. mem[w].status \in PrintStatuses /\ PrintOK
      BY DEF TypeOK, WorkerOK, Copies
    <3>3. Seen(P(w)) \subseteq PrintStatuses
      BY <1>0, <3>2 DEF PrintOK, Seen, PrintStatuses, Stages
    <3> QED BY <3>1, <3>2, <3>3
  <2>1. CASE RefreshOrder(w) \/ RecordProdigiId(w)
    BY <1>0, <2>0, <2>1 DEF RefreshOrder, RecordProdigiId, PrintOK
  <2>2. CASE ClaimSubmission(w) \/ SyncShipping(w)
    BY <1>0, <2>0, <2>2 DEF ClaimSubmission, SyncShipping, PrintOK, PrintStatuses
  <2>3. CASE SubmitAccepted(w) \/ SubmitRaises(w)
    BY <1>0, <2>0, <2>3 DEF SubmitAccepted, SubmitRaises, ProdigiAccepts, PrintOK,
       Stages
  <2>4. CASE SettleSubmission(w) \/ FailSubmission(w)
    BY <1>0, <2>0, <2>4 DEF SettleSubmission, FailSubmission, PrintOK,
       PrintStatuses
  <2> QED BY <2>0, <2>1, <2>2, <2>3, <2>4, Frame DEF Proceed, VerifyPayment,
        LookupOrder, ValidateOrder, CreateOrder, RedeemDiscount, HoldOrder,
        ClaimMail, SendMail, MarkMail, ReloadOrder, FinishEvent
<1> QED BY <1>0, <1>1, <1>2, <1>3, <1>4 DEF TypeOK

LEMMA TypedNext == TypeOK /\ [Next]_vars => TypeOK'
<1> SUFFICES ASSUME TypeOK, [Next]_vars PROVE TypeOK'
  OBVIOUS
<1>1. CASE \E w \in Workers, e \in Events : Receive(w, e)
  BY <1>1, TypedReceive
<1>2. CASE \E w \in Workers : Proceed(w)
  BY <1>2, TypedProceed
<1>3. ASSUME NEW w \in Workers, Crash(w) PROVE TypeOK'
  <2>1. crashes' \in 0..MaxCrashes /\ errors' \in 0..MaxErrors
    BY <1>3, Bounds DEF Crash, TypeOK, WorkerOK
  <2>2. WorkerOK'
    BY <1>3, <2>1, Left DEF Crash, TypeOK
  <2> QED BY <1>3, <2>2, Frame DEF Crash, TypeOK
<1>4. ASSUME NEW w \in Workers, DatabaseError(w) PROVE TypeOK'
  <2>1. crashes' \in 0..MaxCrashes /\ errors' \in 0..MaxErrors
    BY <1>4, Bounds DEF DatabaseError, TypeOK, WorkerOK
  <2>2. pc[w] # "idle" /\ P(w) \in Payments
    <3>1. pc[w] # "idle"
      BY <1>4 DEF DatabaseError, EarlyLabels, PrintLabels, At
    <3> QED BY <3>1, BusyHasPayment DEF TypeOK
  <2>3. WorkerOK'
    BY <1>4, <2>1, <2>2, Moved
       DEF DatabaseError, Give, TypeOK, Labels, MailLabels, Verdicts
  <2>4. MailOK'
    BY <1>4, <2>2 DEF DatabaseError, TypeOK, MailOK
  <2> QED BY <1>4, <2>3, <2>4, Frame DEF DatabaseError, TypeOK
<1>5. ASSUME NEW p \in Payments, ProdigiCompletes(p) PROVE TypeOK'
  <2>1. PrintOK'
    BY <1>5 DEF ProdigiCompletes, TypeOK, PrintOK, Stages
  <2> QED BY <1>5, <2>1, Frame DEF ProdigiCompletes, TypeOK
<1>6. ASSUME NEW p \in Payments, ProdigiCallback(p) PROVE TypeOK'
  <2>1. Seen(p) \subseteq PrintStatuses
    BY DEF Seen, PrintStatuses, Stages, TypeOK, PrintOK
  <2>2. PrintOK'
    BY <1>6, <2>1 DEF ProdigiCallback, TypeOK, PrintOK
  <2> QED BY <1>6, <2>2, Frame DEF ProdigiCallback, TypeOK
<1>7. ASSUME Tick PROVE TypeOK'
  <2>1. LedgerOK'
    <3>1. eventAge' \in [Events -> 0..StaleAfter]
      BY <1>7, Bounds DEF Tick, Older, TypeOK, LedgerOK
    <3>2. sinceDelivery' \in [Events -> 0..RedeliveryGap]
      BY <1>7, Bounds DEF Tick, Older, TypeOK, LedgerOK
    <3> QED BY <1>7, <3>1, <3>2 DEF Tick, TypeOK, LedgerOK
  <2>2. leaseAge' \in [Payments -> 0..NoLease]
    BY <1>7, Bounds DEF Tick, Older, TypeOK, PrintOK, NoLease
  <2>3. PrintOK'
    BY <1>7, <2>2 DEF Tick, TypeOK, PrintOK, NoLease
  <2> QED BY <1>7, <2>1, <2>3, Frame DEF Tick, TypeOK
<1>8. CASE UNCHANGED vars
  BY <1>8, Frame DEF vars, TypeOK
<1> QED BY <1>1, <1>2, <1>3, <1>4, <1>5, <1>6, <1>7, <1>8 DEF Next

\* Every variable stays within its type, whatever the workers, events and
\* payments (StripeWebhookView.post, payment_intent.succeeded).
THEOREM TypeCorrect == Spec => []TypeOK
BY TypedInit, TypedNext, PTL DEF Spec

-----------------------------------------------------------------------------
(***************************************************************************)
(* The safety properties of OrderFulfilment that the runs check, proved    *)
(* for any number of workers, events and payments, any time limits and any *)
(* number of crashes and errors.  The inductive invariant is built in      *)
(* layers, each proved from the ones before it: RecordedInv (a worker past *)
(* the creation has an order), ReleasedInv (past the redemption it owns    *)
(* the discount), MailInv (the SENDING claim) and AcceptedInv (what a      *)
(* worker remembers of Prodigi's answer is true).                          *)
(***************************************************************************)

\* The worker has the payment's order in its hands.
HasOrder == {"redeem", "hold", "claimMail", "failed"} \union MailLabels
              \union PrintLabels

\* It checked the payment against its attempt, and left an order behind.
RecordedInv ==
  \A w \in Workers :
    /\ pc[w] \in HasOrder => P(w) \in ordered
    /\ pc[w] \in HasOrder \union {"lookup", "validate", "create"}
         => P(w) \in Matching

Cleared(p) == SlotOf[p] # NoDiscount => redeemer[SlotOf[p]] = p
Lost(p) == SlotOf[p] # NoDiscount /\ redeemer[SlotOf[p]] \notin {Nobody, p}

\* Behind the redemption every order owns its discount; an order on hold lost it.
ReleasedInv ==
  /\ \A w \in Workers : pc[w] \in HasOrder \ {"redeem", "hold"} => Cleared(P(w))
  /\ \A w \in Workers : pc[w] = "hold" => Lost(P(w))
  /\ \A p \in Payments : Out(p) => p \in ordered /\ Cleared(p)
  /\ \A p \in held : Lost(p)

Mailing(w) == pc[w] \in MailLabels

\* The SENDING status is the claim of at most one worker, and a mail that went
\* out is SENT, still claimed, or in doubt.
MailInv ==
  /\ \A w \in Workers : Mailing(w) => mailStatus[P(w)] = "SENDING"
  /\ \A v, w \in Workers : Mailing(v) /\ Mailing(w) /\ P(v) = P(w) => v = w
  /\ \A w \in Workers :
       pc[w] \in {"sendMail", "markFailed"}
         => mails[P(w)] = 0 \/ P(w) \in unmarked
  /\ \A w \in Workers : pc[w] = "markSent" => mails[P(w)] > 0
  /\ \A p \in Payments :
       mailStatus[p] \in {"PENDING", "FAILED"} => mails[p] = 0 \/ p \in unmarked
  /\ MailOnce

Known == {"SUBMITTED"} \union Stages

\* What a worker remembers of an order, and where it is, tells of an acceptance.
AcceptedInv ==
  /\ SubmittedWasAccepted
  /\ \A w \in Workers :
       /\ pc[w] # "idle" /\ (mem[w].id \/ mem[w].status \in Known)
            => prodigi[P(w)] # "none"
       /\ pc[w] \in {"recordId", "sync", "reload", "settle"}
            => prodigi[P(w)] # "none"

Acts(w) == \/ \E e \in Events : Receive(w, e)
           \/ Proceed(w) \/ Crash(w) \/ DatabaseError(w)

-----------------------------------------------------------------------------
\* A step of one worker leaves the others where they are.
LEMMA OthersStay ==
  ASSUME TypeOK, NEW w \in Workers, Acts(w), NEW v \in Workers, v # w
  PROVE  pc'[v] = pc[v] /\ job'[v] = job[v] /\ mem'[v] = mem[v] /\ P(v)' = P(v)
<1>1. CASE \E e \in Events : Receive(w, e)
  BY <1>1 DEF Receive, ReceiveNew, RetryFailed, TakeOverStale, SkipDelivered,
     Accept, Goto, workerVars, P, TypeOK, WorkerOK
<1>2. CASE Proceed(w)
  <2>1. CASE FinishEvent(w)
    BY <2>1 DEF FinishEvent, Leave, P, TypeOK, WorkerOK
  <2> QED BY <1>2, <2>1 DEF Proceed, VerifyPayment, LookupOrder, ValidateOrder,
        CreateOrder, RedeemDiscount, HoldOrder, ClaimMail, SendMail, MarkMail,
        RefreshOrder, ClaimSubmission, SubmitAccepted, SubmitRaises,
        RecordProdigiId, SyncShipping, ReloadOrder, SettleSubmission,
        FailSubmission, Goto, Give, P, TypeOK, WorkerOK
<1>3. CASE Crash(w)
  BY <1>3 DEF Crash, Leave, P, TypeOK, WorkerOK
<1>4. CASE DatabaseError(w)
  BY <1>4 DEF DatabaseError, Goto, Give, P, TypeOK, WorkerOK
<1> QED BY <1>1, <1>2, <1>3, <1>4 DEF Acts

\* A worker keeps its event until it is idle again.
LEMMA SameJob ==
  ASSUME TypeOK, NEW w \in Workers, Proceed(w) \/ DatabaseError(w)
  PROVE  pc'[w] = "idle" \/ (job' = job /\ P(w)' = P(w))
<1>1. CASE FinishEvent(w)
  BY <1>1 DEF FinishEvent, Leave, TypeOK, WorkerOK
<1> QED BY <1>1 DEF Proceed, VerifyPayment, LookupOrder, ValidateOrder,
        CreateOrder, RedeemDiscount, HoldOrder, ClaimMail, SendMail, MarkMail,
        RefreshOrder, ClaimSubmission, SubmitAccepted, SubmitRaises,
        RecordProdigiId, SyncShipping, ReloadOrder, SettleSubmission,
        FailSubmission, DatabaseError, Give, P

\* A worker that receives an event verifies it next; one that dies is idle.
LEMMA NewPlace ==
  ASSUME TypeOK, NEW w \in Workers,
         (\E e \in Events : Receive(w, e)) \/ Crash(w) \/ FinishEvent(w)
  PROVE  pc'[w] \in {"idle", "verify"} /\ mem'[w] = BlankMem
<1>1. CASE \E e \in Events : Receive(w, e)
  BY <1>1 DEF Receive, ReceiveNew, RetryFailed, TakeOverStale, SkipDelivered,
     Delivered, Accept, Goto, At, workerVars, TypeOK, WorkerOK
<1>2. CASE Crash(w) \/ FinishEvent(w)
  BY <1>2 DEF Crash, FinishEvent, Leave, TypeOK, WorkerOK
<1> QED BY <1>1, <1>2

\* Orders are never deleted.
LEMMA OrdersGrow == [Next]_vars => ordered \subseteq ordered'
<1> SUFFICES ASSUME [Next]_vars PROVE ordered \subseteq ordered'
  OBVIOUS
<1>1. ASSUME NEW w \in Workers, Proceed(w) PROVE ordered \subseteq ordered'
  BY <1>1 DEF Proceed, VerifyPayment, LookupOrder, ValidateOrder,
        CreateOrder, RedeemDiscount, HoldOrder, ClaimMail, SendMail, MarkMail,
        RefreshOrder, ClaimSubmission, SubmitAccepted, SubmitRaises,
        RecordProdigiId, SyncShipping, ReloadOrder, SettleSubmission,
        FailSubmission, FinishEvent, orderVars
<1>2. ASSUME NEW w \in Workers, NEW e \in Events, Receive(w, e)
      PROVE  ordered \subseteq ordered'
  BY <1>2 DEF Receive, ReceiveNew, RetryFailed, TakeOverStale, SkipDelivered,
     Accept, orderVars
<1> QED BY <1>1, <1>2 DEF Next, Crash, DatabaseError, ProdigiCompletes,
       ProdigiCallback, Tick, vars, orderVars

\* A step that is no worker's leaves every worker where it is.
LEMMA WorkersStay ==
  ASSUME [Next]_vars, \A w \in Workers : ~Acts(w)
  PROVE  UNCHANGED workerVars
BY DEF Acts, Next, ProdigiCompletes, ProdigiCallback, Tick, vars

-----------------------------------------------------------------------------
LEMMA RecordedInit == Init => RecordedInv
BY DEF Init, RecordedInv, HasOrder, MailLabels, PrintLabels

LEMMA RecordedNext ==
  ASSUME TypeOK, RecordedInv, [Next]_vars
  PROVE  RecordedInv'
<1>1. ASSUME NEW w \in Workers, Acts(w) PROVE RecordedInv'
  <2>1. ASSUME NEW v \in Workers, v # w
        PROVE /\ pc'[v] \in HasOrder => P(v)' \in ordered'
              /\ pc'[v] \in HasOrder \union {"lookup", "validate", "create"}
                   => P(v)' \in Matching
    BY <1>1, <2>1, OthersStay, OrdersGrow DEF RecordedInv
  <2>2. /\ pc'[w] \in HasOrder => P(w)' \in ordered'
        /\ pc'[w] \in HasOrder \union {"lookup", "validate", "create"}
             => P(w)' \in Matching
    <3>1. CASE (\E e \in Events : Receive(w, e)) \/ Crash(w) \/ FinishEvent(w)
      BY <3>1, NewPlace DEF HasOrder, MailLabels, PrintLabels
    <3>2. CASE VerifyPayment(w) \/ LookupOrder(w) \/ ValidateOrder(w)
               \/ CreateOrder(w)
      <4>1. pc'[w] = "idle" \/ P(w)' = P(w)
        BY <3>2, SameJob DEF Proceed
      <4>2. CASE VerifyPayment(w)
        BY <4>1, <4>2 DEF VerifyPayment, Goto, Give, TypeOK, WorkerOK,
           HasOrder, MailLabels, PrintLabels
      <4>3. CASE LookupOrder(w)
        BY <4>1, <4>3 DEF LookupOrder, Goto, At, orderVars, RecordedInv, TypeOK,
           WorkerOK, HasOrder, MailLabels, PrintLabels
      <4>4. CASE ValidateOrder(w)
        BY <4>1, <4>4 DEF ValidateOrder, Goto, Give, At, RecordedInv, TypeOK,
           WorkerOK, HasOrder, MailLabels, PrintLabels
      <4>5. CASE CreateOrder(w)
        BY <4>1, <4>5 DEF CreateOrder, Goto, At, RecordedInv, TypeOK, WorkerOK
      <4> QED BY <3>2, <4>2, <4>3, <4>4, <4>5
    <3>3. CASE Proceed(w) \/ DatabaseError(w)
      <4>1. pc'[w] = "idle" \/ P(w)' = P(w)
        BY <3>3, SameJob
      <4>2. \/ VerifyPayment(w) \/ LookupOrder(w) \/ ValidateOrder(w)
            \/ CreateOrder(w)
            \/ pc'[w] \in HasOrder => pc[w] \in HasOrder
        BY <3>3 DEF Proceed, RedeemDiscount, HoldOrder, ClaimMail, SendMail,
           MarkMail, RefreshOrder, ClaimSubmission, SubmitAccepted, AfterMail,
           SubmitRaises, RecordProdigiId, SyncShipping, ReloadOrder, FinishEvent,
           SettleSubmission, FailSubmission, DatabaseError, Goto, Give, Leave, At,
           TypeOK, WorkerOK, HasOrder, MailLabels, PrintLabels
      <4>3. \/ VerifyPayment(w) \/ LookupOrder(w) \/ ValidateOrder(w)
            \/ CreateOrder(w)
            \/ pc'[w] \notin {"lookup", "validate", "create"}
        BY <3>3 DEF Proceed, RedeemDiscount, HoldOrder, ClaimMail, SendMail,
           MarkMail, RefreshOrder, ClaimSubmission, SubmitAccepted, AfterMail,
           SubmitRaises, RecordProdigiId, SyncShipping, ReloadOrder, FinishEvent,
           SettleSubmission, FailSubmission, DatabaseError, Goto, Give, Leave,
           TypeOK, WorkerOK
      <4> QED BY <3>2, <4>1, <4>2, <4>3, OrdersGrow
              DEF RecordedInv, HasOrder, MailLabels, PrintLabels
    <3> QED BY <1>1, <3>1, <3>3 DEF Acts
  <2> QED BY <2>1, <2>2 DEF RecordedInv
<1>2. CASE \A w \in Workers : ~Acts(w)
  BY <1>2, WorkersStay, OrdersGrow DEF workerVars, RecordedInv, P
<1> QED BY <1>1, <1>2

-----------------------------------------------------------------------------
Past == HasOrder \ {"redeem", "hold"}

\* The unique (e-mail, code) row of a redemption is never rewritten.
LEMMA RedemptionKept ==
  ASSUME TypeOK, [Next]_vars, NEW p \in Payments
  PROVE  (Cleared(p) => Cleared(p)') /\ (Lost(p) => Lost(p)')
<1>1. \A s \in Slots : redeemer[s] # Nobody => redeemer'[s] = redeemer[s]
  <2>1. ASSUME NEW w \in Workers, RedeemDiscount(w)
        PROVE  \A s \in Slots : redeemer[s] # Nobody => redeemer'[s] = redeemer[s]
    BY <2>1 DEF RedeemDiscount, TypeOK, OrderOK
  <2>2. CASE \A w \in Workers : ~RedeemDiscount(w)
    <3>1. redeemer' = redeemer
      BY <2>2 DEF Next, Receive, ReceiveNew, RetryFailed, TakeOverStale,
         SkipDelivered, Accept, Proceed, VerifyPayment, LookupOrder,
         ValidateOrder, CreateOrder, HoldOrder, ClaimMail, SendMail, MarkMail,
         RefreshOrder, ClaimSubmission, SubmitAccepted, SubmitRaises,
         RecordProdigiId, SyncShipping, ReloadOrder, SettleSubmission,
         FailSubmission, FinishEvent, Crash, DatabaseError, ProdigiCompletes,
         ProdigiCallback, Tick, orderVars, vars
    <3> QED BY <3>1
  <2> QED BY <2>1, <2>2
<1>2. SlotOf[p] # NoDiscount => SlotOf[p] \in Slots
  BY OrderAssumption DEF OrderAssumption
<1>3. p # Nobody
  BY OrderAssumption DEF OrderAssumption
<1> QED BY <1>1, <1>2, <1>3 DEF Cleared, Lost

\* An order leaves the shop only in the hands of a worker past the redemption.
LEMMA OutOnlyPast ==
  ASSUME TypeOK, [Next]_vars, NEW p \in Payments, Out(p)'
  PROVE  Out(p) \/ \E w \in Workers : pc[w] \in Past /\ P(w) = p
<1>1. ASSUME NEW w \in Workers, Proceed(w), pc[w] \in Past
      PROVE  P(w) # p => Out(p)
  <2>1. WorkerOK /\ MailOK /\ PrintOK
    BY DEF TypeOK
  <2>2. CASE ClaimMail(w) \/ SendMail(w) \/ MarkMail(w)
    BY <2>1, <2>2 DEF ClaimMail, SendMail, MarkMail, Out, MailOK, prodigiVars
  <2>3. CASE RefreshOrder(w) \/ ClaimSubmission(w) \/ SubmitAccepted(w)
             \/ SubmitRaises(w) \/ RecordProdigiId(w)
    BY <2>1, <2>3 DEF RefreshOrder, ClaimSubmission, SubmitAccepted,
       SubmitRaises, RecordProdigiId, ProdigiAccepts, Out, PrintOK, mailVars
  <2>4. CASE SyncShipping(w) \/ ReloadOrder(w) \/ SettleSubmission(w)
             \/ FailSubmission(w)
    BY <2>1, <2>4 DEF SyncShipping, ReloadOrder, SettleSubmission,
       FailSubmission, Out, PrintOK, mailVars, prodigiVars
  <2>5. CASE UNCHANGED <<mailVars, prodigiVars>>
    BY <2>5 DEF mailVars, prodigiVars, Out
  <2> QED BY <1>1, <2>2, <2>3, <2>4, <2>5 DEF Proceed, VerifyPayment,
        LookupOrder, ValidateOrder, CreateOrder, RedeemDiscount, HoldOrder,
        FinishEvent
<1>2. ASSUME NEW w \in Workers, Proceed(w), pc[w] \notin Past PROVE Out(p)
  <2>1. UNCHANGED <<mailVars, prodigiVars>>
    BY <1>2 DEF Past, HasOrder, MailLabels, PrintLabels, At, Proceed,
       VerifyPayment, LookupOrder, ValidateOrder, CreateOrder, RedeemDiscount,
       HoldOrder, ClaimMail, SendMail, MarkMail, RefreshOrder, ClaimSubmission,
       SubmitAccepted, SubmitRaises, RecordProdigiId, SyncShipping,
       ReloadOrder, SettleSubmission, FailSubmission, FinishEvent
  <2> QED BY <2>1 DEF mailVars, prodigiVars, Out
<1>3. ASSUME NEW w \in Workers, NEW e \in Events, Receive(w, e) PROVE Out(p)
  BY <1>3 DEF Receive, ReceiveNew, RetryFailed, TakeOverStale, SkipDelivered,
     Accept, mailVars, prodigiVars, Out
<1>4. ASSUME NEW w \in Workers, Crash(w) \/ DatabaseError(w) PROVE Out(p)
  BY <1>4 DEF Crash, DatabaseError, mailVars, prodigiVars, Out
<1>5. ASSUME NEW q \in Payments, ProdigiCompletes(q) \/ ProdigiCallback(q)
      PROVE  Out(p)
  BY <1>5 DEF ProdigiCompletes, ProdigiCallback, Seen, mailVars, Out, TypeOK,
     PrintOK
<1>6. CASE Tick \/ UNCHANGED vars
  BY <1>6 DEF Tick, vars, mailVars, prodigiVars, Out
<1> QED BY <1>1, <1>2, <1>3, <1>4, <1>5, <1>6 DEF Next

LEMMA ReleasedInit == Init => ReleasedInv
<1> SUFFICES ASSUME Init PROVE ReleasedInv
  OBVIOUS
<1>1. \A w \in Workers : pc[w] = "idle"
  BY DEF Init
<1>2. held = {} /\ \A p \in Payments : ~Out(p)
  <2>1. /\ mailStatus = [p \in Payments |-> "PENDING"]
        /\ mails = [p \in Payments |-> 0]
        /\ prodigi = [p \in Payments |-> "none"]
        /\ prodigiStatus = [p \in Payments |-> ""]
        /\ held = {}
    BY DEF Init
  <2>2. ASSUME NEW p \in Payments PROVE ~Out(p)
    <3>1. mails[p] = 0
      BY <2>1
    <3>2. /\ mailStatus[p] = "PENDING"
          /\ prodigi[p] = "none" /\ prodigiStatus[p] = ""
      BY <2>1
    <3>3. ~(mails[p] > 0)
      BY <3>1
    <3> QED BY <3>2, <3>3 DEF Out
  <2> QED BY <2>1, <2>2
<1>3. \A w \in Workers : pc[w] \notin HasOrder
  BY <1>1 DEF HasOrder, MailLabels, PrintLabels
<1>4. \A w \in Workers : pc[w] # "hold"
  BY <1>1
<1> QED BY <1>2, <1>3, <1>4 DEF ReleasedInv

LEMMA ReleasedNext ==
  ASSUME TypeOK, RecordedInv, ReleasedInv, [Next]_vars
  PROVE  ReleasedInv'
<1>1. \A p \in Payments : Out(p)' => p \in ordered' /\ Cleared(p)'
  <2> SUFFICES ASSUME NEW p \in Payments, Out(p)'
               PROVE  p \in ordered' /\ Cleared(p)'
    OBVIOUS
  <2>1. p \in ordered /\ Cleared(p)
    BY OutOnlyPast DEF ReleasedInv, RecordedInv, Past
  <2> QED BY <2>1, OrdersGrow, RedemptionKept
<1>2. ASSUME NEW w \in Workers, Acts(w)
      PROVE  /\ \A v \in Workers : pc'[v] \in Past => Cleared(P(v))'
             /\ \A v \in Workers : pc'[v] = "hold" => Lost(P(v))'
  <2>1. ASSUME NEW v \in Workers, v # w
        PROVE  /\ pc'[v] \in Past => Cleared(P(v))'
               /\ pc'[v] = "hold" => Lost(P(v))'
    <3>1. pc'[v] = pc[v] /\ P(v)' = P(v)
      BY <1>2, <2>1, OthersStay
    <3>2. pc[v] # "idle" => P(v) \in Payments
      BY BusyHasPayment DEF TypeOK
    <3>3. pc[v] \in Past => Cleared(P(v))
      BY DEF ReleasedInv, Past
    <3>4. pc[v] = "hold" => Lost(P(v))
      BY DEF ReleasedInv
    <3>5. pc[v] \in Past \union {"hold"} => pc[v] # "idle"
      BY DEF Past, HasOrder, MailLabels, PrintLabels
    <3> QED BY <3>1, <3>2, <3>3, <3>4, <3>5, RedemptionKept DEF Cleared, Lost
  <2>2. (pc'[w] \in Past => Cleared(P(w))') /\ (pc'[w] = "hold" => Lost(P(w))')
    <3>1. CASE (\E e \in Events : Receive(w, e)) \/ Crash(w) \/ FinishEvent(w)
      BY <3>1, NewPlace DEF Past, HasOrder, MailLabels, PrintLabels
    <3>2. CASE RedeemDiscount(w)
      <4> DEFINE s == SlotOf[P(w)]
      <4>1. P(w) \in Payments /\ P(w)' = P(w)
        BY <3>2, BusyHasPayment DEF RedeemDiscount, At, TypeOK, P
      <4>2. s \in Slots \union {NoDiscount}
        BY <4>1, OrderAssumption DEF OrderAssumption
      <4>3. CASE s = NoDiscount
        BY <3>2, <4>1, <4>3 DEF RedeemDiscount, Goto, Cleared, TypeOK, WorkerOK
      <4>4. CASE s # NoDiscount /\ redeemer[s] \in {Nobody, P(w)}
        <5>1. redeemer' = [redeemer EXCEPT ![s] = P(w)] /\ Goto(w, "claimMail")
          BY <3>2, <4>4 DEF RedeemDiscount
        <5>2. redeemer'[s] = P(w) /\ pc'[w] = "claimMail"
          BY <4>2, <4>4, <5>1 DEF Goto, TypeOK, OrderOK, WorkerOK
        <5> QED BY <4>1, <5>2 DEF Cleared
      <4>5. CASE s # NoDiscount /\ redeemer[s] \notin {Nobody, P(w)}
        <5>1. redeemer' = redeemer /\ Goto(w, "hold")
          BY <3>2, <4>5 DEF RedeemDiscount
        <5>2. pc'[w] = "hold"
          BY <5>1 DEF Goto, TypeOK, WorkerOK
        <5> QED BY <4>1, <4>5, <5>1, <5>2
            DEF Lost, Past, HasOrder, MailLabels, PrintLabels
      <4> QED BY <4>3, <4>4, <4>5
    <3>3. CASE (Proceed(w) \/ DatabaseError(w)) /\ ~RedeemDiscount(w)
      <4>1. pc'[w] = "idle" \/ P(w)' = P(w)
        BY <3>3, SameJob
      <4>2. /\ pc'[w] \in Past => pc[w] \in Past
            /\ pc'[w] # "hold"
        BY <3>3 DEF Proceed, VerifyPayment, LookupOrder, ValidateOrder,
           CreateOrder, HoldOrder, ClaimMail, SendMail, MarkMail, RefreshOrder,
           ClaimSubmission, SubmitAccepted, AfterMail, SubmitRaises,
           RecordProdigiId, SyncShipping, ReloadOrder, FinishEvent,
           SettleSubmission, FailSubmission, DatabaseError, Goto, Give, Leave,
           At, TypeOK, WorkerOK, Past, HasOrder, MailLabels, PrintLabels
      <4>3. pc[w] \in Past => Cleared(P(w)) /\ P(w) \in Payments
        BY BusyHasPayment DEF ReleasedInv, Past, HasOrder, MailLabels,
           PrintLabels, TypeOK
      <4>4. pc'[w] \in Past => pc'[w] # "idle"
        BY DEF Past, HasOrder, MailLabels, PrintLabels
      <4> QED BY <4>1, <4>2, <4>3, <4>4, RedemptionKept DEF Cleared
    <3> QED BY <1>2, <3>1, <3>2, <3>3 DEF Acts
  <2> QED BY <2>1, <2>2
<1>3. \A p \in held' : Lost(p)'
  <2>1. ASSUME NEW w \in Workers, HoldOrder(w)
        PROVE  \A p \in held' : p \in Payments /\ Lost(p)
    BY <2>1, BusyHasPayment DEF HoldOrder, At, ReleasedInv, TypeOK, OrderOK
  <2>2. CASE \A w \in Workers : ~HoldOrder(w)
    <3>1. held' = held
      BY <2>2 DEF Next, Receive, ReceiveNew, RetryFailed, TakeOverStale,
         SkipDelivered, Accept, Proceed, VerifyPayment, LookupOrder,
         ValidateOrder, CreateOrder, RedeemDiscount, ClaimMail, SendMail,
         MarkMail, RefreshOrder, ClaimSubmission, SubmitAccepted, SubmitRaises,
         RecordProdigiId, SyncShipping, ReloadOrder, SettleSubmission,
         FailSubmission, FinishEvent, Crash, DatabaseError, ProdigiCompletes,
         ProdigiCallback, Tick, orderVars, vars
    <3> QED BY <3>1, RedemptionKept DEF ReleasedInv, TypeOK, OrderOK
  <2> QED BY <2>1, <2>2, RedemptionKept
<1>4. CASE \A w \in Workers : ~Acts(w)
  <2>1. \A v \in Workers : pc'[v] = pc[v] /\ P(v)' = P(v)
    BY <1>4, WorkersStay DEF workerVars, P
  <2>2. \A v \in Workers : pc[v] \in Past \union {"hold"} => P(v) \in Payments
    BY BusyHasPayment DEF Past, HasOrder, MailLabels, PrintLabels, TypeOK
  <2> SUFFICES ASSUME NEW v \in Workers
               PROVE  /\ pc'[v] \in Past => Cleared(P(v))'
                      /\ pc'[v] = "hold" => Lost(P(v))'
    BY <1>1, <1>3 DEF ReleasedInv, Past
  <2>3. pc[v] \in Past => Cleared(P(v))
    BY DEF ReleasedInv, Past
  <2>4. pc[v] = "hold" => Lost(P(v))
    BY DEF ReleasedInv
  <2> QED BY <2>1, <2>2, <2>3, <2>4, RedemptionKept DEF Cleared, Lost
<1> QED BY <1>1, <1>2, <1>3, <1>4 DEF ReleasedInv, Past

-----------------------------------------------------------------------------
LEMMA MailInit == Init => MailInv
<1> SUFFICES ASSUME Init PROVE MailInv
  OBVIOUS
<1>1. /\ pc = [w \in Workers |-> "idle"]
      /\ mails = [p \in Payments |-> 0]
  BY DEF Init
<1>2. \A p \in Payments : mails[p] = 0 /\ mails[p] <= 1
  BY <1>1
<1>3. \A w \in Workers : ~Mailing(w) /\ pc[w] # "markSent"
                         /\ pc[w] \notin {"sendMail", "markFailed"}
  BY <1>1 DEF Mailing, MailLabels
<1> QED BY <1>2, <1>3 DEF MailInv, MailOnce

\* Only the mail steps of a worker touch the mail of an order.
LEMMA MailFrame ==
  ASSUME TypeOK, MailInv, NEW w \in Workers, Acts(w), UNCHANGED mailVars,
         pc'[w] \notin MailLabels
  PROVE  MailInv'
<1>1. \A v \in Workers : pc'[v] \in MailLabels =>
        v # w /\ pc'[v] = pc[v] /\ P(v)' = P(v)
  BY OthersStay
<1>2. {"sendMail", "markSent", "markFailed"} = MailLabels
  BY DEF MailLabels
<1> QED BY <1>1, <1>2 DEF MailInv, MailOnce, Mailing, mailVars

LEMMA MailNext ==
  ASSUME TypeOK, MailInv, [Next]_vars
  PROVE  MailInv'
<1>1. ASSUME NEW w \in Workers, Acts(w) PROVE MailInv'
  <2>0. WorkerOK /\ MailOK
    BY DEF TypeOK
  <2>1. CASE (\E e \in Events : Receive(w, e)) \/ Crash(w) \/ FinishEvent(w)
    <3>1. pc'[w] \notin MailLabels
      BY <2>1, NewPlace DEF MailLabels
    <3>2. UNCHANGED mailVars
      BY <2>1 DEF Receive, ReceiveNew, RetryFailed, TakeOverStale,
         SkipDelivered, Accept, Crash, FinishEvent
    <3> QED BY <1>1, <3>1, <3>2, MailFrame
  <2>2. CASE VerifyPayment(w) \/ LookupOrder(w) \/ ValidateOrder(w)
             \/ CreateOrder(w) \/ RedeemDiscount(w) \/ HoldOrder(w)
             \/ RefreshOrder(w) \/ ClaimSubmission(w) \/ SubmitAccepted(w)
             \/ SubmitRaises(w) \/ RecordProdigiId(w) \/ SyncShipping(w)
             \/ ReloadOrder(w) \/ SettleSubmission(w) \/ FailSubmission(w)
    <3>1. pc'[w] \notin MailLabels /\ UNCHANGED mailVars
      BY <2>0, <2>2 DEF VerifyPayment, LookupOrder, ValidateOrder, CreateOrder,
         RedeemDiscount, HoldOrder, RefreshOrder, ClaimSubmission,
         SubmitAccepted, SubmitRaises, RecordProdigiId, SyncShipping,
         ReloadOrder, SettleSubmission, FailSubmission, Goto, Give, WorkerOK,
         MailLabels
    <3> QED BY <1>1, <3>1, MailFrame
  <2>3. CASE Proceed(w) \/ DatabaseError(w)
    <3>1. \A v \in Workers : v # w => pc'[v] = pc[v] /\ P(v)' = P(v)
      BY <1>1, OthersStay
    <3>2. \A v \in Workers : pc[v] \in MailLabels => P(v) \in Payments
      BY <2>0, BusyHasPayment DEF MailLabels
    <3>3. CASE ClaimMail(w)
      <4>1. P(w) \in Payments /\ P(w)' = P(w)
        BY <2>0, <3>3, BusyHasPayment DEF ClaimMail, At, P
      <4>2. CASE mailStatus[P(w)] \in {"SENDING", "SENT"}
        <5>1. pc'[w] \notin MailLabels /\ UNCHANGED mailVars
          BY <2>0, <3>3, <4>2 DEF ClaimMail, AfterMail, Goto, MailLabels,
             mailVars, WorkerOK
        <5> QED BY <1>1, <5>1, MailFrame
      <4>3. CASE mailStatus[P(w)] \notin {"SENDING", "SENT"}
        <5>1. /\ mailStatus' = [mailStatus EXCEPT ![P(w)] = "SENDING"]
              /\ pc'[w] = "sendMail" /\ mails' = mails /\ unmarked' = unmarked
          BY <2>0, <3>3, <4>3 DEF ClaimMail, Goto, WorkerOK
        <5>2. /\ \A v \in Workers : Mailing(v) => P(v) # P(w)
              /\ mails[P(w)] = 0 \/ P(w) \in unmarked
          BY <2>0, <4>1, <4>3 DEF MailInv, MailOK
        <5> QED BY <2>0, <3>1, <3>2, <4>1, <5>1, <5>2
            DEF MailInv, MailOnce, Mailing, MailLabels, MailOK
      <4> QED BY <4>2, <4>3
    <3>4. CASE SendMail(w)
      <4>1. P(w) \in Payments /\ P(w)' = P(w) /\ pc[w] = "sendMail"
        BY <2>0, <3>4, BusyHasPayment DEF SendMail, At, P
      <4>2. /\ \A v \in Workers : v # w /\ Mailing(v) => P(v) # P(w)
            /\ mailStatus[P(w)] = "SENDING"
            /\ mails[P(w)] = 0 \/ P(w) \in unmarked
        BY <4>1 DEF MailInv, Mailing, MailLabels
      <4>3. /\ mailStatus' = mailStatus
            /\ \/ /\ mails' = [mails EXCEPT ![P(w)] = IF @ = 0 THEN 1 ELSE 2]
                  /\ \/ pc'[w] = "markSent" /\ unmarked' = unmarked
                     \/ /\ unmarked' = unmarked \union {P(w)}
                        /\ pc'[w] = "markFailed"
               \/ /\ pc'[w] = "markFailed"
                  /\ mails' = mails /\ unmarked' = unmarked
        BY <2>0, <3>4 DEF SendMail, Goto, WorkerOK
      <4>4. \A p \in Payments : p # P(w) =>
              mails'[p] = mails[p] /\ (p \in unmarked' <=> p \in unmarked)
        BY <2>0, <4>3 DEF MailOK
      <4>5. P(w) \notin unmarked' => mails'[P(w)] <= 1
        BY <2>0, <4>1, <4>2, <4>3 DEF MailOK
      <4>6. /\ pc'[w] = "markFailed" => mails'[P(w)] = 0 \/ P(w) \in unmarked'
            /\ pc'[w] = "markSent" => mails'[P(w)] > 0
            /\ pc'[w] \in {"markSent", "markFailed"}
        BY <2>0, <4>1, <4>2, <4>3 DEF MailOK
      <4>7. MailOnce'
        BY <4>4, <4>5 DEF MailInv, MailOnce
      <4>8. \A v \in Workers : v # w /\ Mailing(v)' =>
              /\ Mailing(v) /\ P(v)' # P(w) /\ P(v)' = P(v) /\ P(v) \in Payments
              /\ pc'[v] = pc[v]
        BY <3>1, <3>2, <4>2 DEF Mailing
      <4> QED BY <4>1, <4>2, <4>3, <4>4, <4>6, <4>7, <4>8
          DEF MailInv, Mailing, MailLabels
    <3>5. CASE MarkMail(w)
      <4>1. /\ P(w) \in Payments /\ P(w)' = P(w)
            /\ pc[w] \in {"markSent", "markFailed"}
        BY <2>0, <3>5, BusyHasPayment DEF MarkMail, P
      <4>2. /\ \A v \in Workers : v # w /\ Mailing(v) => P(v) # P(w)
            /\ pc[w] = "markFailed" => mails[P(w)] = 0 \/ P(w) \in unmarked
        BY <4>1 DEF MailInv, Mailing, MailLabels
      <4>3. /\ mailStatus' = [mailStatus EXCEPT ![P(w)] =
                               IF pc[w] = "markSent" THEN "SENT" ELSE "FAILED"]
            /\ pc'[w] \notin MailLabels /\ mails' = mails /\ unmarked' = unmarked
        BY <2>0, <3>5 DEF MarkMail, Goto, AfterMail, At, WorkerOK, MailLabels
      <4>4. \A v \in Workers : Mailing(v)' =>
              /\ Mailing(v) /\ P(v)' # P(w) /\ P(v)' = P(v) /\ P(v) \in Payments
              /\ pc'[v] = pc[v]
        BY <3>1, <3>2, <4>2, <4>3 DEF Mailing
      <4> QED BY <2>0, <4>1, <4>2, <4>3, <4>4
          DEF MailInv, MailOnce, MailOK, Mailing, MailLabels
    <3>6. CASE DatabaseError(w)
      <4>1. CASE ~At(w, "markSent")
        <5>1. pc'[w] \notin MailLabels /\ UNCHANGED mailVars
          BY <2>0, <3>6, <4>1 DEF DatabaseError, Goto, Give, At, WorkerOK,
             MailLabels, PrintLabels, mailVars
        <5> QED BY <1>1, <5>1, MailFrame
      <4>2. CASE At(w, "markSent")
        <5>1. P(w) \in Payments /\ P(w)' = P(w)
          BY <2>0, <3>6, <4>2, BusyHasPayment, SameJob
             DEF DatabaseError, At, Give, EarlyLabels, PrintLabels, P
        <5>2. /\ mailStatus' = mailStatus /\ mails' = mails
              /\ unmarked' = unmarked \union {P(w)} /\ pc'[w] = "markFailed"
          BY <2>0, <3>6, <4>2 DEF DatabaseError, Goto, At, EarlyLabels,
             PrintLabels, WorkerOK
        <5>3. Mailing(w)
          BY <4>2 DEF Mailing, MailLabels, At
        <5> QED BY <3>1, <5>1, <5>2, <5>3
            DEF MailInv, MailOnce, Mailing, MailLabels
      <4> QED BY <4>1, <4>2
    <3> QED BY <2>1, <2>2, <2>3, <3>3, <3>4, <3>5, <3>6 DEF Proceed
  <2> QED BY <1>1, <2>1, <2>3 DEF Acts
<1>2. CASE \A w \in Workers : ~Acts(w)
  <2>1. UNCHANGED mailVars
    BY <1>2 DEF Acts, Next, ProdigiCompletes, ProdigiCallback, Tick, vars
  <2>2. \A v \in Workers : pc'[v] = pc[v] /\ P(v)' = P(v)
    BY <1>2, WorkersStay DEF workerVars, P
  <2> QED BY <2>1, <2>2 DEF MailInv, MailOnce, Mailing, mailVars
<1> QED BY <1>1, <1>2

-----------------------------------------------------------------------------
LEMMA AcceptedInit == Init => AcceptedInv
<1> SUFFICES ASSUME Init PROVE AcceptedInv
  OBVIOUS
<1>1. /\ pc = [w \in Workers |-> "idle"]
      /\ prodigiId = {}
      /\ prodigiStatus = [p \in Payments |-> ""]
  BY DEF Init
<1>2. SubmittedWasAccepted
  BY <1>1 DEF SubmittedWasAccepted, Stages
<1> QED BY <1>1, <1>2 DEF AcceptedInv

\* Prodigi never forgets an order.
LEMMA AcceptanceKept ==
  ASSUME TypeOK, [Next]_vars, NEW p \in Payments, prodigi[p] # "none"
  PROVE  prodigi'[p] # "none"
<1>1. ASSUME NEW w \in Workers, Proceed(w) PROVE prodigi'[p] # "none"
  <2>1. CASE SubmitAccepted(w) \/ SubmitRaises(w)
    BY <2>1 DEF SubmitAccepted, SubmitRaises, ProdigiAccepts, TypeOK, PrintOK
  <2> QED BY <1>1, <2>1 DEF Proceed, VerifyPayment, LookupOrder,
        ValidateOrder, CreateOrder, RedeemDiscount, HoldOrder, ClaimMail,
        SendMail, MarkMail, RefreshOrder, ClaimSubmission, RecordProdigiId,
        SyncShipping, ReloadOrder, SettleSubmission, FailSubmission,
        FinishEvent, prodigiVars
<1>2. ASSUME NEW q \in Payments, ProdigiCompletes(q) PROVE prodigi'[p] # "none"
  BY <1>2 DEF ProdigiCompletes, TypeOK, PrintOK
<1>3. ASSUME NEW w \in Workers, NEW e \in Events, Receive(w, e)
      PROVE  prodigi'[p] # "none"
  BY <1>3 DEF Receive, ReceiveNew, RetryFailed, TakeOverStale, SkipDelivered,
     Accept, prodigiVars
<1> QED BY <1>1, <1>2, <1>3 DEF Next, Crash, DatabaseError, ProdigiCallback,
       Tick, vars, prodigiVars

\* What a worker may claim to know of Prodigi's answer.
Told(w) == \/ mem[w].id \/ mem[w].status \in Known
           \/ pc[w] \in {"recordId", "sync", "reload", "settle"}

LEMMA StoredIsTrue ==
  ASSUME TypeOK, SubmittedWasAccepted, NEW p \in Payments,
         Stored(p).id \/ Stored(p).status \in Known
  PROVE  prodigi[p] # "none"
BY DEF Stored, Known, SubmittedWasAccepted

LEMMA AcceptedNext ==
  ASSUME TypeOK, AcceptedInv, [Next]_vars
  PROVE  AcceptedInv'
<1>0. WorkerOK /\ PrintOK
  BY DEF TypeOK
<1>1. ASSUME NEW w \in Workers, Proceed(w)
      PROVE  /\ SubmittedWasAccepted'
             /\ pc'[w] # "idle" /\ Told(w)' => prodigi'[P(w)] # "none"
  <2>0. /\ P(w) \in Payments /\ pc[w] # "idle"
        /\ prodigi[P(w)] # "none" => prodigi'[P(w)] # "none"
        /\ mem[w] \in Copies
    BY <1>0, <1>1, TypedWorker, AcceptanceKept DEF WorkerOK
  <2>1. Told(w) => prodigi[P(w)] # "none"
    BY <2>0 DEF AcceptedInv, Told
  <2>2. SubmittedWasAccepted
    BY DEF AcceptedInv
  <2>3. CASE VerifyPayment(w) \/ ValidateOrder(w) \/ RedeemDiscount(w)
             \/ HoldOrder(w) \/ ClaimMail(w) \/ SendMail(w) \/ MarkMail(w)
    <3>1. /\ UNCHANGED <<prodigi, prodigiId, prodigiStatus>> /\ mem' = mem
          /\ pc'[w] \notin {"recordId", "sync", "reload", "settle"}
      BY <1>0, <2>3 DEF VerifyPayment, ValidateOrder, RedeemDiscount, HoldOrder,
         ClaimMail, SendMail, MarkMail, AfterMail, Goto, Give, WorkerOK,
         prodigiVars
    <3> QED BY <2>1, <2>2, <3>1 DEF Told, SubmittedWasAccepted
  <2>4. CASE LookupOrder(w) \/ CreateOrder(w) \/ RefreshOrder(w)
    <3>1. /\ UNCHANGED <<prodigi, prodigiId, prodigiStatus>>
          /\ mem'[w] = mem[w] \/ mem'[w] = Stored(P(w))
          /\ pc'[w] \notin {"recordId", "sync", "reload", "settle"}
      BY <1>0, <2>4 DEF LookupOrder, CreateOrder, RefreshOrder, Goto, WorkerOK,
         prodigiVars
    <3> QED BY <2>0, <2>1, <2>2, <3>1, StoredIsTrue
        DEF Told, SubmittedWasAccepted
  <2>5. CASE ClaimSubmission(w)
    <3>1. /\ UNCHANGED <<prodigi, prodigiId>>
          /\ \/ prodigiStatus' = [prodigiStatus EXCEPT ![P(w)] = "SUBMITTING"]
                /\ mem' = [mem EXCEPT ![w].status = "SUBMITTING"]
             \/ prodigiStatus' = prodigiStatus /\ mem' = mem
          /\ pc'[w] \notin {"recordId", "sync", "reload", "settle"}
      BY <1>0, <2>5 DEF ClaimSubmission, Goto, WorkerOK
    <3>2. SubmittedWasAccepted'
      BY <1>0, <2>0, <2>2, <3>1 DEF SubmittedWasAccepted, Stages, PrintOK
    <3>3. mem'[w].id = mem[w].id /\ mem'[w].status \in {"SUBMITTING", mem[w].status}
      BY <1>0, <2>0, <3>1 DEF WorkerOK, Copies
    <3> QED BY <2>1, <3>1, <3>2, <3>3 DEF Told, Known, Stages
  <2>6. CASE SubmitAccepted(w) \/ SubmitRaises(w)
    <3>1. UNCHANGED <<prodigiId, prodigiStatus>>
      BY <2>6 DEF SubmitAccepted, SubmitRaises
    <3>2. \A p \in Payments : prodigi[p] # "none" => prodigi'[p] # "none"
      BY <1>1, AcceptanceKept DEF Next
    <3>3. CASE SubmitAccepted(w)
      BY <1>0, <2>0, <2>2, <3>1, <3>2, <3>3
         DEF SubmitAccepted, ProdigiAccepts, SubmittedWasAccepted, PrintOK
    <3>4. CASE SubmitRaises(w)
      BY <1>0, <2>0, <2>1, <2>2, <3>1, <3>2, <3>4
         DEF SubmitRaises, SubmittedWasAccepted, Told, Goto, WorkerOK
    <3> QED BY <2>6, <3>3, <3>4
  <2>7. CASE RecordProdigiId(w)
    <3>1. prodigi[P(w)] # "none"
      BY <2>1, <2>7 DEF RecordProdigiId, At, Told
    <3> QED BY <2>0, <2>2, <2>7, <3>1 DEF RecordProdigiId, SubmittedWasAccepted
  <2>8. CASE SyncShipping(w)
    <3>1. prodigi[P(w)] # "none" /\ UNCHANGED <<prodigi, prodigiId>>
      BY <2>1, <2>8 DEF SyncShipping, At, Told
    <3>2. \A p \in Payments : p # P(w) => prodigiStatus'[p] = prodigiStatus[p]
      BY <1>0, <2>8 DEF SyncShipping, PrintOK
    <3> QED BY <2>0, <2>2, <3>1, <3>2 DEF SubmittedWasAccepted
  <2>9. CASE ReloadOrder(w)
    <3>1. prodigi[P(w)] # "none"
      BY <2>1, <2>9 DEF ReloadOrder, At, Told
    <3> QED BY <2>0, <2>2, <2>9, <3>1
        DEF ReloadOrder, SubmittedWasAccepted, prodigiVars
  <2>10. CASE SettleSubmission(w)
    <3>1. prodigi[P(w)] # "none" /\ UNCHANGED <<prodigi, prodigiId>>
      BY <2>1, <2>10 DEF SettleSubmission, At, Told
    <3>2. \A p \in Payments : p # P(w) => prodigiStatus'[p] = prodigiStatus[p]
      BY <1>0, <2>10 DEF SettleSubmission, PrintOK
    <3> QED BY <2>0, <2>2, <3>1, <3>2 DEF SubmittedWasAccepted
  <2>11. CASE FailSubmission(w)
    <3>1. prodigi' = prodigi /\ mem' = mem /\ pc'[w] = "finish"
      BY <1>0, <2>11 DEF FailSubmission, Give, Goto, WorkerOK
    <3>2. \A p \in Payments : p # P(w) =>
            /\ prodigiStatus'[p] = prodigiStatus[p]
            /\ p \in prodigiId' <=> p \in prodigiId
      BY <1>0, <2>11 DEF FailSubmission, PrintOK
    <3>3. CASE mem[w].id
      BY <2>0, <2>1, <2>2, <3>1, <3>2, <3>3 DEF SubmittedWasAccepted, Told
    <3>4. CASE ~mem[w].id
      <4>1. prodigiStatus'[P(w)] = "FULFILMENT_FAILED" /\ prodigiId' = prodigiId
        BY <1>0, <2>0, <2>11, <3>4 DEF FailSubmission, PrintOK
      <4> QED BY <2>1, <2>2, <3>1, <3>2, <4>1
          DEF SubmittedWasAccepted, Told, Stages
    <3> QED BY <3>3, <3>4
  <2>12. CASE FinishEvent(w)
    BY <1>0, <2>2, <2>12
       DEF FinishEvent, Leave, prodigiVars, SubmittedWasAccepted, WorkerOK
  <2> QED BY <1>1, <2>3, <2>4, <2>5, <2>6, <2>7, <2>8, <2>9, <2>10, <2>11,
             <2>12 DEF Proceed
<1>2. ASSUME NEW w \in Workers, Acts(w), ~Proceed(w)
      PROVE  /\ SubmittedWasAccepted'
             /\ pc'[w] # "idle" /\ Told(w)' => prodigi'[P(w)'] # "none"
  <2>1. UNCHANGED prodigiVars
    BY <1>2 DEF Acts, Receive, ReceiveNew, RetryFailed, TakeOverStale,
       SkipDelivered, Accept, Crash, DatabaseError
  <2>2. SubmittedWasAccepted'
    BY <2>1 DEF AcceptedInv, SubmittedWasAccepted, prodigiVars
  <2>3. CASE DatabaseError(w)
    <3>1. pc[w] # "idle" /\ P(w)' = P(w)
      BY <2>3 DEF DatabaseError, EarlyLabels, PrintLabels, At, Give, P
    <3>2. mem' = mem /\ pc'[w] \notin {"recordId", "sync", "reload", "settle"}
      BY <1>0, <2>3 DEF DatabaseError, Give, Goto, WorkerOK
    <3>3. Told(w)' => Told(w)
      BY <3>2 DEF Told
    <3> QED BY <2>1, <2>2, <3>1, <3>3 DEF AcceptedInv, Told, prodigiVars
  <2>4. CASE (\E e \in Events : Receive(w, e)) \/ Crash(w)
    <3>1. pc'[w] \in {"idle", "verify"} /\ mem'[w] = BlankMem
      BY <2>4, NewPlace
    <3>2. ~BlankMem.id /\ BlankMem.status = ""
      BY DEF BlankMem
    <3>3. ~Told(w)'
      <4>1. mem'[w].status \notin Known'
        BY <3>1, <3>2 DEF Known, Stages
      <4>2. ~mem'[w].id
        BY <3>1, <3>2
      <4> QED BY <3>1, <4>1, <4>2 DEF Told
    <3> QED BY <2>2, <3>3
  <2> QED BY <1>2, <2>3, <2>4 DEF Acts
<1>3. ASSUME NEW w \in Workers, Acts(w) PROVE AcceptedInv'
  <2>1. ASSUME NEW v \in Workers, v # w, pc'[v] # "idle", Told(v)'
        PROVE  prodigi'[P(v)'] # "none"
    <3>1. pc'[v] = pc[v] /\ mem'[v] = mem[v] /\ P(v)' = P(v)
      BY <1>3, <2>1, OthersStay
    <3>2. P(v) \in Payments /\ prodigi[P(v)] # "none"
      BY <1>0, <2>1, <3>1, BusyHasPayment DEF AcceptedInv, Told
    <3> QED BY <3>1, <3>2, AcceptanceKept
  <2>2. /\ SubmittedWasAccepted'
        /\ pc'[w] # "idle" /\ Told(w)' => prodigi'[P(w)'] # "none"
    BY <1>1, <1>2, <1>3, SameJob
  <2>3. \A v \in Workers : pc'[v] # "idle" /\ Told(v)' => prodigi'[P(v)'] # "none"
    BY <2>1, <2>2
  <2> QED BY <2>2, <2>3 DEF AcceptedInv, Told, Known
<1>4. CASE \A w \in Workers : ~Acts(w)
  <2>1. UNCHANGED workerVars
    BY <1>4, WorkersStay
  <2>2. \A p \in Payments : prodigi[p] # "none" => prodigi'[p] # "none"
    BY AcceptanceKept
  <2>3. SubmittedWasAccepted'
    <3>1. ASSUME NEW p \in Payments, ProdigiCallback(p) PROVE SubmittedWasAccepted'
      <4>1. prodigi[p] # "none" /\ prodigi' = prodigi
        BY <3>1 DEF ProdigiCallback, Seen
      <4>2. \A q \in Payments : q # p =>
              /\ prodigiStatus'[q] = prodigiStatus[q]
              /\ q \in prodigiId' <=> q \in prodigiId
        BY <1>0, <3>1 DEF ProdigiCallback, PrintOK
      <4> QED BY <4>1, <4>2 DEF AcceptedInv, SubmittedWasAccepted
    <3>2. CASE UNCHANGED <<prodigiId, prodigiStatus>>
      BY <2>2, <3>2 DEF AcceptedInv, SubmittedWasAccepted
    <3> QED BY <1>4, <3>1, <3>2 DEF Acts, Next, ProdigiCompletes, Tick, vars,
           prodigiVars
  <2>4. ASSUME NEW v \in Workers, pc'[v] # "idle", Told(v)'
        PROVE  prodigi'[P(v)'] # "none"
    <3>1. pc[v] # "idle" /\ Told(v) /\ P(v)' = P(v)
      BY <2>1, <2>4 DEF workerVars, Told, P
    <3>2. P(v) \in Payments /\ prodigi[P(v)] # "none"
      BY <1>0, <3>1, BusyHasPayment DEF AcceptedInv, Told
    <3> QED BY <2>2, <3>1, <3>2
  <2> QED BY <2>3, <2>4 DEF AcceptedInv, Told, Known, Stages
<1> QED BY <1>3, <1>4

-----------------------------------------------------------------------------
(* The invariant, and the properties it implies. *)

Safe == TypeOK /\ RecordedInv /\ ReleasedInv /\ MailInv /\ AcceptedInv

\* The whole inductive invariant holds in every state.
THEOREM SafeAlways == Spec => []Safe
<1>1. Init => Safe
  BY TypedInit, RecordedInit, ReleasedInit, MailInit, AcceptedInit DEF Safe
<1>2. Safe /\ [Next]_vars => Safe'
  BY TypedNext, RecordedNext, ReleasedNext, MailNext, AcceptedNext DEF Safe
<1> QED BY <1>1, <1>2, PTL DEF Spec

\* Of the paid orders that used one one-time discount, at most one is ever
\* confirmed or printed, and none that is on hold (record_discount_redemption
\* and the hold on its conflict).
THEOREM DiscountSafe == Spec => []DiscountReleasesOneOrder
<1>1. Safe => DiscountReleasesOneOrder
  <2> SUFFICES ASSUME Safe PROVE DiscountReleasesOneOrder
    OBVIOUS
  <2>1. \A p \in Payments : Out(p) => Cleared(p)
    BY DEF Safe, ReleasedInv
  <2>2. \A p \in held : p \in Payments /\ Lost(p)
    BY DEF Safe, ReleasedInv, TypeOK, OrderOK
  <2> QED BY <2>1, <2>2 DEF DiscountReleasesOneOrder, Cleared, Lost
<1> QED BY <1>1, SafeAlways, PTL

\* One confirmation mail per order unless a sent one could not be marked
\* (the SENDING claim of confirmation_email_status).
THEOREM MailsOnce == Spec => []MailOnce
<1>1. Safe => MailOnce
  BY DEF Safe, MailInv
<1> QED BY <1>1, SafeAlways, PTL

\* An order shown as submitted, or with a Prodigi id, was accepted by Prodigi
\* (the submission block and its exception handler).
THEOREM SubmittedAccepted == Spec => []SubmittedWasAccepted
<1>1. Safe => SubmittedWasAccepted
  BY DEF Safe, AcceptedInv
<1> QED BY <1>1, SafeAlways, PTL

\* No step erases a Prodigi id: the exception handler writes it only when the
\* worker has one.
THEOREM IdKept == Spec => ProdigiIdKept
<1>1. [Next]_vars => [prodigiId \subseteq prodigiId']_vars
  <2> SUFFICES ASSUME [Next]_vars PROVE prodigiId \subseteq prodigiId'
    OBVIOUS
  <2>1. ASSUME NEW w \in Workers, Proceed(w) PROVE prodigiId \subseteq prodigiId'
    BY <2>1 DEF Proceed, VerifyPayment, LookupOrder, ValidateOrder, CreateOrder,
       RedeemDiscount, HoldOrder, ClaimMail, SendMail, MarkMail, RefreshOrder,
       ClaimSubmission, SubmitAccepted, SubmitRaises, RecordProdigiId,
       SyncShipping, ReloadOrder, SettleSubmission, FailSubmission,
       FinishEvent, prodigiVars
  <2>2. ASSUME NEW w \in Workers, NEW e \in Events, Receive(w, e)
        PROVE  prodigiId \subseteq prodigiId'
    BY <2>2 DEF Receive, ReceiveNew, RetryFailed, TakeOverStale, SkipDelivered,
       Accept, prodigiVars
  <2> QED BY <2>1, <2>2 DEF Next, Crash, DatabaseError, ProdigiCompletes,
         ProdigiCallback, Tick, vars, prodigiVars
<1> QED BY <1>1, PTL DEF Spec, ProdigiIdKept

-----------------------------------------------------------------------------
(***************************************************************************)
(* OrderFulfilment implements PaidOrder: every step of the handler is a    *)
(* step of the promise or leaves everything promised as it is.             *)
(***************************************************************************)

Printing == {p \in Payments : prodigi[p] # "none"}
Promised == <<ordered, redeemer, held, mails, unmarked, Printing>>

LEMMA PromiseInit == Init => Promise!Init
<1> SUFFICES ASSUME Init PROVE Promise!Init
  OBVIOUS
<1>1. /\ ordered = {} /\ held = {} /\ unmarked = {}
      /\ redeemer = [s \in Slots |-> Nobody]
      /\ mails = [p \in Payments |-> 0]
      /\ prodigi = [p \in Payments |-> "none"]
  BY DEF Init
<1>2. Printing = {}
  BY <1>1 DEF Printing
<1> QED BY <1>1, <1>2 DEF Promise!Init, Printing

\* A worker past the redemption has an order that may be released.
LEMMA PastIsReleased ==
  ASSUME Safe, NEW w \in Workers, pc[w] \in Past
  PROVE  P(w) \in Payments /\ Promise!Released(P(w))
<1>1. pc[w] # "idle" /\ pc[w] \in HasOrder
  BY DEF Past, HasOrder, MailLabels, PrintLabels
<1>2. P(w) \in Payments
  BY <1>1, BusyHasPayment DEF Safe, TypeOK
<1>3. P(w) \in ordered /\ Cleared(P(w))
  BY <1>1 DEF Safe, RecordedInv, ReleasedInv, Past
<1> QED BY <1>2, <1>3 DEF Promise!Released, Cleared

LEMMA PromiseProceed ==
  ASSUME Safe, NEW w \in Workers, Proceed(w)
  PROVE  Promise!Next \/ UNCHANGED Promised
<1>0. P(w) \in Payments /\ TypeOK
  BY TypedWorker DEF Safe
<1>1. CASE CreateOrder(w)
  <2>1. P(w) \in Matching
    BY <1>1 DEF CreateOrder, At, Safe, RecordedInv
  <2>2. CASE P(w) \in ordered
    <3>1. ordered' = ordered
      BY <1>1, <2>2 DEF CreateOrder
    <3> QED BY <1>1, <3>1 DEF CreateOrder, mailVars, prodigiVars, Promised,
           Printing
  <2>3. CASE P(w) \notin ordered
    <3>1. Promise!Record(P(w))
      BY <1>1, <2>1, <2>3 DEF Promise!Record, CreateOrder, mailVars, prodigiVars
    <3> QED BY <1>0, <3>1 DEF Promise!Next
  <2> QED BY <2>2, <2>3
<1>2. CASE RedeemDiscount(w)
  <2>1. P(w) \in ordered
    BY <1>2 DEF RedeemDiscount, At, Safe, RecordedInv, HasOrder
  <2> DEFINE s == SlotOf[P(w)]
  <2>2. CASE s # NoDiscount /\ redeemer[s] = Nobody
    <3>1. Promise!Redeem(P(w))
      BY <1>2, <2>1, <2>2 DEF Promise!Redeem, RedeemDiscount, mailVars,
         prodigiVars
    <3> QED BY <1>0, <3>1 DEF Promise!Next
  <2>3. CASE s = NoDiscount \/ redeemer[s] # Nobody
    <3>1. s = NoDiscount \/ s \in Slots
      BY <1>0, OrderAssumption DEF OrderAssumption
    <3>2. redeemer' = redeemer
      BY <1>0, <1>2, <2>3, <3>1 DEF RedeemDiscount, TypeOK, OrderOK
    <3> QED BY <1>2, <3>2 DEF RedeemDiscount, mailVars, prodigiVars, Promised,
           Printing
  <2> QED BY <2>2, <2>3
<1>3. CASE HoldOrder(w)
  <2>1. P(w) \in ordered /\ Lost(P(w))
    BY <1>3 DEF HoldOrder, At, Safe, RecordedInv, ReleasedInv, HasOrder
  <2>2. Promise!Hold(P(w))
    BY <1>3, <2>1 DEF Promise!Hold, HoldOrder, Lost, mailVars, prodigiVars
  <2> QED BY <1>0, <2>2 DEF Promise!Next
<1>4. CASE SendMail(w)
  <2>1. pc[w] \in Past /\ pc[w] = "sendMail"
    BY <1>4 DEF SendMail, At, Past, HasOrder, MailLabels
  <2>2. mails[P(w)] = 0 \/ P(w) \in unmarked
    BY <2>1 DEF Safe, MailInv
  <2>3. CASE mails' = [mails EXCEPT ![P(w)] = IF @ = 0 THEN 1 ELSE 2]
    <3>1. unmarked' \in {unmarked, unmarked \union {P(w)}}
      BY <1>4 DEF SendMail
    <3>2. Promise!Mail(P(w))
      BY <1>4, <2>1, <2>2, <2>3, <3>1, PastIsReleased
         DEF Promise!Mail, SendMail, orderVars, prodigiVars
    <3> QED BY <1>0, <3>2 DEF Promise!Next
  <2>4. CASE mails' = mails /\ unmarked' = unmarked
    BY <1>4, <2>4 DEF SendMail, orderVars, prodigiVars, Promised, Printing
  <2> QED BY <1>4, <2>3, <2>4 DEF SendMail
<1>5. CASE SubmitAccepted(w) \/ SubmitRaises(w)
  <2>1. pc[w] \in Past
    BY <1>5 DEF SubmitAccepted, SubmitRaises, At, Past, HasOrder, PrintLabels
  <2>2. CASE ProdigiAccepts(P(w))
    <3>1. Printing' = Printing \union {P(w)}
      <4>1. prodigi'[P(w)] # "none"
        BY <1>0, <2>2 DEF ProdigiAccepts, TypeOK, PrintOK
      <4>2. \A p \in Payments : p # P(w) => prodigi'[p] = prodigi[p]
        BY <1>0, <2>2 DEF ProdigiAccepts, TypeOK, PrintOK
      <4> QED BY <1>0, <4>1, <4>2 DEF Printing
    <3>2. PICK p \in Payments : p = P(w)
      BY <1>0
    <3>3. Promise!Produce(p)
      BY <1>5, <2>1, <3>1, <3>2, PastIsReleased
         DEF Promise!Produce, SubmitAccepted, SubmitRaises, orderVars, mailVars,
         Printing
    <3> QED BY <3>3 DEF Promise!Next
  <2>3. CASE UNCHANGED prodigi
    BY <1>5, <2>3 DEF SubmitAccepted, SubmitRaises, orderVars, mailVars,
       Promised, Printing
  <2> QED BY <1>5, <2>2, <2>3 DEF SubmitAccepted, SubmitRaises
<1>6. CASE VerifyPayment(w) \/ LookupOrder(w) \/ ValidateOrder(w)
           \/ ClaimMail(w) \/ MarkMail(w) \/ RefreshOrder(w)
           \/ ClaimSubmission(w) \/ RecordProdigiId(w) \/ SyncShipping(w)
           \/ ReloadOrder(w) \/ SettleSubmission(w) \/ FailSubmission(w)
           \/ FinishEvent(w)
  BY <1>6 DEF VerifyPayment, LookupOrder, ValidateOrder, ClaimMail, MarkMail,
     RefreshOrder, ClaimSubmission, RecordProdigiId, SyncShipping,
     ReloadOrder, SettleSubmission, FailSubmission, FinishEvent, orderVars,
     mailVars, prodigiVars, Promised, Printing
<1> QED BY <1>1, <1>2, <1>3, <1>4, <1>5, <1>6 DEF Proceed

\* Every step of the handler is a step of the promise, or changes nothing of it.
LEMMA PromiseStep ==
  ASSUME Safe, [Next]_vars
  PROVE  Promise!Next \/ UNCHANGED Promised
<1>1. ASSUME NEW w \in Workers, Proceed(w) PROVE Promise!Next \/ UNCHANGED Promised
  BY <1>1, PromiseProceed
<1>2. ASSUME NEW w \in Workers, DatabaseError(w)
      PROVE  Promise!Next \/ UNCHANGED Promised
  <2>1. CASE unmarked' = unmarked
    BY <1>2, <2>1 DEF DatabaseError, orderVars, prodigiVars, Promised, Printing
  <2>2. CASE unmarked' # unmarked
    <3>1. pc[w] = "markSent" /\ unmarked' = unmarked \union {P(w)}
      BY <1>2, <2>2 DEF DatabaseError, At
    <3>2. mails[P(w)] > 0 /\ P(w) \in Payments
      BY <3>1, BusyHasPayment DEF Safe, MailInv, TypeOK
    <3>3. Promise!Doubt(P(w))
      BY <1>2, <3>1, <3>2 DEF DatabaseError, Promise!Doubt, orderVars,
         prodigiVars
    <3> QED BY <3>2, <3>3 DEF Promise!Next
  <2> QED BY <2>1, <2>2
<1>3. ASSUME NEW w \in Workers, NEW e \in Events, Receive(w, e)
      PROVE  UNCHANGED Promised
  BY <1>3 DEF Receive, ReceiveNew, RetryFailed, TakeOverStale, SkipDelivered,
     Accept, orderVars, mailVars, prodigiVars, Promised, Printing
<1>4. ASSUME NEW p \in Payments, ProdigiCompletes(p) PROVE UNCHANGED Promised
  <2>1. Printing' = Printing
    BY <1>4 DEF ProdigiCompletes, Printing, Safe, TypeOK, PrintOK
  <2> QED BY <1>4, <2>1 DEF ProdigiCompletes, orderVars, mailVars, Promised
<1>5. ASSUME NEW p \in Payments, ProdigiCallback(p) PROVE UNCHANGED Promised
  BY <1>5 DEF ProdigiCallback, orderVars, mailVars, Promised, Printing
<1>6. ASSUME NEW w \in Workers, Crash(w) PROVE UNCHANGED Promised
  BY <1>6 DEF Crash, orderVars, mailVars, prodigiVars, Promised, Printing
<1>7. CASE Tick \/ UNCHANGED vars
  BY <1>7 DEF Tick, vars, orderVars, mailVars, prodigiVars, Promised, Printing
<1> QED BY <1>1, <1>2, <1>3, <1>4, <1>5, <1>6, <1>7 DEF Next

\* The webhook handler implements the promise: captured payments become orders
\* that are released only with their discount, mailed once unless in doubt.
THEOREM Implements == Spec => KeepsPromise
<1>1. Safe /\ [Next]_vars => [Promise!Next]_(Promise!promised)
  BY PromiseStep DEF Promised, Printing, Promise!promised
<1> QED BY <1>1, PromiseInit, SafeAlways, PTL DEF Spec, KeepsPromise, Promise!Spec

-----------------------------------------------------------------------------
(***************************************************************************)
(* The submission lease excludes a second submitter when no request lives  *)
(* for a tick (Prompt), the lease lasts for at least one, and the database *)
(* never raises.  Crashes are allowed, any number of them.                 *)
(***************************************************************************)

\* The steps between a claimed submission and the release of its lease.
HoldingLabels == {"submit", "recordId", "sync", "reload", "settle", "failed"}
Holding(w) == pc[w] \in HoldingLabels

LeaseRuns(p) ==
  \/ p \in prodigiId
  \/ prodigiStatus[p] = "SUBMITTING" /\ leaseAge[p] < Lease

LeaseInv ==
  /\ \A v, w \in Workers : Holding(v) /\ Holding(w) /\ P(v) = P(w) => v = w
  /\ \A w \in Workers : Holding(w) => LeaseRuns(P(w))
  /\ \A w \in Workers : pc[w] = "sync" => P(w) \in prodigiId

LEMMA HoldingHasPayment ==
  ASSUME TypeOK, NEW w \in Workers, Holding(w)
  PROVE  pc[w] # "idle" /\ P(w) \in Payments
<1>1. pc[w] # "idle"
  BY DEF Holding, HoldingLabels
<1> QED BY <1>1, BusyHasPayment DEF TypeOK

\* A step after which the worker holds no lease, and that spoils no lease of
\* another one.
LEMMA Released ==
  ASSUME TypeOK, LeaseInv, NEW w \in Workers, Acts(w),
         pc'[w] \notin HoldingLabels, prodigiId \subseteq prodigiId',
         \A p \in Payments :
           \/ prodigiStatus'[p] = prodigiStatus[p] /\ leaseAge'[p] = leaseAge[p]
           \/ p \in prodigiId
           \/ Holding(w) /\ p = P(w)
  PROVE  LeaseInv'
<1>1. ASSUME NEW v \in Workers, Holding(v)'
      PROVE  /\ v # w /\ Holding(v) /\ pc'[v] = pc[v] /\ P(v)' = P(v)
             /\ P(v) \in Payments /\ LeaseRuns(P(v))'
  <2>1. v # w
    BY <1>1 DEF Holding, HoldingLabels
  <2>2. Holding(v) /\ pc'[v] = pc[v] /\ P(v)' = P(v)
    BY <1>1, <2>1, OthersStay DEF Holding, HoldingLabels
  <2>3. P(v) \in Payments /\ LeaseRuns(P(v))
    BY <2>2, HoldingHasPayment DEF LeaseInv
  <2>4. ~(Holding(w) /\ P(v) = P(w))
    BY <2>1, <2>2 DEF LeaseInv
  <2>5. LeaseRuns(P(v))'
    <3>1. PICK p \in Payments : p = P(v)
      BY <2>3
    <3>2. \/ prodigiStatus'[p] = prodigiStatus[p] /\ leaseAge'[p] = leaseAge[p]
          \/ p \in prodigiId
      BY <2>4, <3>1
    <3>3. LeaseRuns(p)
      BY <2>3, <3>1
    <3>4. p \in prodigiId => p \in prodigiId'
      OBVIOUS
    <3>5. LeaseRuns(p)'
      BY <3>2, <3>3, <3>4 DEF LeaseRuns
    <3> QED BY <2>2, <3>1, <3>5 DEF LeaseRuns
  <2> QED BY <2>1, <2>2, <2>3, <2>5
<1>2. \A v \in Workers : pc'[v] = "sync" => Holding(v)'
  BY DEF Holding, HoldingLabels
<1> QED BY <1>1, <1>2 DEF LeaseInv

\* A step of a worker that keeps its lease.
LEMMA Kept ==
  ASSUME TypeOK, LeaseInv, NEW w \in Workers, Acts(w), Holding(w),
         P(w)' = P(w), prodigiId \subseteq prodigiId', leaseAge' = leaseAge,
         pc'[w] = "sync" => P(w) \in prodigiId',
         \/ prodigiStatus' = prodigiStatus
         \/ /\ P(w) \in prodigiId
            /\ \E s : prodigiStatus' = [prodigiStatus EXCEPT ![P(w)] = s]
  PROVE  LeaseInv'
<1>1. ASSUME NEW v \in Workers, v # w, Holding(v)'
      PROVE  /\ Holding(v) /\ pc'[v] = pc[v] /\ P(v)' = P(v)
             /\ P(v) # P(w) /\ LeaseRuns(P(v))'
  <2>1. Holding(v) /\ pc'[v] = pc[v] /\ P(v)' = P(v)
    BY <1>1, OthersStay DEF Holding, HoldingLabels
  <2>2. P(v) \in Payments /\ LeaseRuns(P(v)) /\ P(v) # P(w)
    BY <1>1, <2>1, HoldingHasPayment DEF LeaseInv
  <2>3. prodigiStatus'[P(v)] = prodigiStatus[P(v)]
    BY <2>2 DEF TypeOK, PrintOK
  <2> QED BY <2>1, <2>2, <2>3 DEF LeaseRuns
<1>2. LeaseRuns(P(w))'
  BY DEF LeaseInv, LeaseRuns
<1>3. \A v \in Workers : pc'[v] = "sync" => Holding(v)'
  BY DEF Holding, HoldingLabels
<1> QED BY <1>1, <1>2, <1>3 DEF LeaseInv

LEMMA LeaseInit == Init => LeaseInv
<1> SUFFICES ASSUME Init PROVE LeaseInv
  OBVIOUS
<1>1. pc = [w \in Workers |-> "idle"]
  BY DEF Init
<1>2. \A w \in Workers : ~Holding(w) /\ pc[w] # "sync"
  BY <1>1 DEF Holding, HoldingLabels
<1> QED BY <1>2 DEF LeaseInv

LEMMA LeaseNext ==
  ASSUME Prompt, MaxErrors = 0, Lease > 0, TypeOK, LeaseInv, [Next]_vars
  PROVE  LeaseInv'
<1>0. WorkerOK /\ PrintOK /\ errors = 0
  BY DEF TypeOK, WorkerOK
<1>1. ASSUME NEW w \in Workers, Acts(w) PROVE LeaseInv'
  <2>0. Proceed(w) => P(w) \in Payments
    BY TypedWorker
  <2>1. CASE (\E e \in Events : Receive(w, e)) \/ Crash(w) \/ FinishEvent(w)
    <3>1. pc'[w] \notin HoldingLabels
      BY <2>1, NewPlace DEF HoldingLabels
    <3>2. UNCHANGED prodigiVars
      BY <2>1 DEF Receive, ReceiveNew, RetryFailed, TakeOverStale,
         SkipDelivered, Accept, Crash, FinishEvent
    <3> QED BY <1>1, <3>1, <3>2, Released DEF prodigiVars
  <2>2. CASE VerifyPayment(w) \/ LookupOrder(w) \/ ValidateOrder(w)
             \/ CreateOrder(w) \/ RedeemDiscount(w) \/ HoldOrder(w)
             \/ ClaimMail(w) \/ SendMail(w) \/ MarkMail(w)
    <3>1. pc'[w] \notin HoldingLabels /\ UNCHANGED prodigiVars
      BY <1>0, <2>2 DEF VerifyPayment, LookupOrder, ValidateOrder, CreateOrder,
         RedeemDiscount, HoldOrder, ClaimMail, SendMail, MarkMail, AfterMail,
         Goto, Give, WorkerOK, HoldingLabels
    <3> QED BY <1>1, <3>1, Released DEF prodigiVars
  <2>3. CASE RefreshOrder(w)
    <3>1. pc'[w] \notin HoldingLabels /\ UNCHANGED <<prodigiId, prodigiStatus>>
      BY <1>0, <2>3 DEF RefreshOrder, Goto, WorkerOK, HoldingLabels
    <3>2. \A p \in Payments : leaseAge'[p] = leaseAge[p] \/ p \in prodigiId
      BY <1>0, <2>3 DEF RefreshOrder, PrintOK
    <3> QED BY <1>1, <3>1, <3>2, Released
  <2>4. CASE ClaimSubmission(w) /\ ~Claimable(P(w))
    <3>1. /\ pc'[w] \notin HoldingLabels
          /\ UNCHANGED <<prodigiId, prodigiStatus, leaseAge>>
      BY <1>0, <2>4 DEF ClaimSubmission, Goto, WorkerOK, HoldingLabels
    <3> QED BY <1>1, <3>1, Released
  <2>5. CASE ClaimSubmission(w) /\ Claimable(P(w))
    <3>0. P(w) \in Payments /\ P(w)' = P(w)
      BY <2>0, <2>5 DEF ClaimSubmission, Proceed, P
    <3>1. /\ pc'[w] = "submit" /\ prodigiId' = prodigiId
          /\ prodigiStatus' = [prodigiStatus EXCEPT ![P(w)] = "SUBMITTING"]
          /\ leaseAge' = [leaseAge EXCEPT ![P(w)] = 0]
      BY <1>0, <2>5 DEF ClaimSubmission, Goto, WorkerOK
    <3>2. ~LeaseRuns(P(w))
      <4>1. leaseAge[P(w)] \in Nat /\ Lease \in Nat
        BY <1>0, <3>0, Bounds DEF PrintOK, NoLease
      <4> QED BY <2>5, <4>1 DEF Claimable, LeaseRuns
    <3>3. ASSUME NEW v \in Workers, v # w, Holding(v)'
          PROVE  /\ Holding(v) /\ pc'[v] = pc[v] /\ P(v)' = P(v)
                 /\ P(v) # P(w) /\ LeaseRuns(P(v))'
      <4>1. Holding(v) /\ pc'[v] = pc[v] /\ P(v)' = P(v)
        BY <1>1, <3>3, OthersStay DEF Holding, HoldingLabels
      <4>2. P(v) \in Payments /\ LeaseRuns(P(v)) /\ P(v) # P(w)
        BY <3>2, <4>1, HoldingHasPayment DEF LeaseInv
      <4> QED BY <1>0, <3>1, <4>1, <4>2 DEF LeaseRuns, PrintOK
    <3>4. LeaseRuns(P(w))'
      <4>1. prodigiStatus'[P(w)] = "SUBMITTING" /\ leaseAge'[P(w)] = 0
        BY <1>0, <3>0, <3>1 DEF PrintOK
      <4> QED BY <3>0, <4>1 DEF LeaseRuns
    <3>5. \A v \in Workers : pc'[v] = "sync" => v # w /\ Holding(v)'
      BY <3>1 DEF Holding, HoldingLabels
    <3> QED BY <3>0, <3>1, <3>3, <3>4, <3>5 DEF LeaseInv
  <2>6. CASE SubmitAccepted(w) \/ SubmitRaises(w) \/ RecordProdigiId(w)
             \/ ReloadOrder(w)
    <3>1. Holding(w) /\ P(w)' = P(w)
      BY <2>6 DEF SubmitAccepted, SubmitRaises, RecordProdigiId, ReloadOrder,
         At, Holding, HoldingLabels, P
    <3>2. /\ prodigiStatus' = prodigiStatus /\ leaseAge' = leaseAge
          /\ prodigiId \subseteq prodigiId'
          /\ pc'[w] = "sync" => P(w) \in prodigiId'
      BY <1>0, <2>6 DEF SubmitAccepted, SubmitRaises, RecordProdigiId,
         ReloadOrder, Goto, WorkerOK, prodigiVars
    <3> QED BY <1>1, <3>1, <3>2, Kept
  <2>7. CASE SyncShipping(w)
    <3>1. Holding(w) /\ P(w)' = P(w) /\ P(w) \in prodigiId
      BY <2>7 DEF SyncShipping, At, Holding, HoldingLabels, P, LeaseInv
    <3>2. /\ leaseAge' = leaseAge /\ prodigiId' = prodigiId
          /\ \/ prodigiStatus' = prodigiStatus
             \/ \E s : prodigiStatus' = [prodigiStatus EXCEPT ![P(w)] = s]
      BY <2>7 DEF SyncShipping
    <3> QED BY <1>1, <3>1, <3>2, Kept
  <2>8. CASE SettleSubmission(w) \/ FailSubmission(w)
    <3>1. Holding(w) /\ pc'[w] \notin HoldingLabels
      BY <1>0, <2>8 DEF SettleSubmission, FailSubmission, Give, Goto, At,
         Holding, HoldingLabels, WorkerOK
    <3>2. prodigiId \subseteq prodigiId'
      BY <2>8 DEF SettleSubmission, FailSubmission
    <3>3. \A p \in Payments : p # P(w) =>
            prodigiStatus'[p] = prodigiStatus[p] /\ leaseAge'[p] = leaseAge[p]
      BY <1>0, <2>8 DEF SettleSubmission, FailSubmission, PrintOK
    <3> QED BY <1>1, <3>1, <3>2, <3>3, Released
  <2>9. ~DatabaseError(w)
    BY <1>0 DEF DatabaseError
  <2> QED BY <1>1, <2>1, <2>2, <2>3, <2>4, <2>5, <2>6, <2>7, <2>8, <2>9
      DEF Acts, Proceed
<1>2. CASE \A w \in Workers : ~Acts(w)
  <2>1. \A v \in Workers : pc'[v] = pc[v] /\ P(v)' = P(v)
    BY <1>2, WorkersStay DEF workerVars, P
  <2>2. \A v \in Workers : Holding(v) => P(v) \in Payments
    BY HoldingHasPayment
  <2>3. CASE Tick
    <3>1. \A v \in Workers : ~Holding(v) /\ pc[v] # "sync"
      BY <2>3 DEF Tick, At, Holding, HoldingLabels
    <3> QED BY <2>1, <3>1 DEF LeaseInv, Holding, HoldingLabels
  <2>4. ASSUME NEW p \in Payments, ProdigiCallback(p) PROVE LeaseInv'
    <3>1. \A q \in Payments : LeaseRuns(q) => LeaseRuns(q)'
      BY <1>0, <2>4 DEF ProdigiCallback, LeaseRuns, PrintOK
    <3>2. prodigiId \subseteq prodigiId'
      BY <2>4 DEF ProdigiCallback
    <3> QED BY <2>1, <2>2, <3>1, <3>2
        DEF LeaseInv, Holding, HoldingLabels, LeaseRuns
  <2>5. CASE UNCHANGED <<prodigiId, prodigiStatus, leaseAge>>
    BY <2>1, <2>5 DEF LeaseInv, Holding, HoldingLabels, LeaseRuns
  <2> QED BY <1>2, <2>3, <2>4, <2>5
      DEF Acts, Next, ProdigiCompletes, vars, prodigiVars
<1> QED BY <1>1, <1>2

\* No two requests are inside the submission of one order, whatever crashes
\* (the SUBMITTING claim with prodigi_submission_started_at).
THEOREM OneSubmitterAlways ==
  ASSUME Prompt, MaxErrors = 0, Lease > 0
  PROVE  Spec => []OneSubmitter
<1>1. TypeOK /\ LeaseInv /\ [Next]_vars => (TypeOK /\ LeaseInv)'
  BY TypedNext, LeaseNext
<1>2. TypeOK /\ LeaseInv => OneSubmitter
  BY DEF LeaseInv, OneSubmitter, Submitting, Holding, HoldingLabels, PrintLabels
<1> QED BY <1>1, <1>2, TypedInit, LeaseInit, PTL DEF Spec
-----------------------------------------------------------------------------
(* Shipping updates of an order, for any requests, signatures and failures *)

\* Request r holds a state that Prodigi was in.
Fetched(r) == step[r] \notin {"idle", "loaded"}

\* What it holds is not from the future, a mail it is about to send is news to its
\* copy of the order, and one it is about to store went out.
RequestOK(r) ==
  /\ Fetched(r) => snap[r] <= at
  /\ step[r] \in {"send", "store"} => Signature[snap[r]] \notin {Silent, copy[r]}
  /\ step[r] = "store" => updates[Signature[snap[r]]] > 0

\* No request still holds an older state than j.
Behind(j) == j <= at /\ \A r \in Requests : Fetched(r) => j <= snap[r]

\* Prodigi has left signature s, and whatever is mailed next is newer.
Replaced(s) ==
  \E i, j \in States :
    i <= j /\ Behind(j) /\ Signature[i] = s /\ Signature[j] # s

Storing(s) == \E r \in Requests : step[r] = "store" /\ Signature[snap[r]] = s

\* Without overlaps one request runs at a time and its copy is current, what is
\* stored is not from the future of any request, and what was mailed is stored, or
\* about to be, or left behind.
InTurn ==
  /\ \A q, r \in Requests : step[q] # "idle" /\ step[r] # "idle" => q = r
  /\ \A r \in Requests :
       step[r] \in {"loaded", "answered", "stage", "send", "store"} => copy[r] = mailedSig
  /\ mailedSig # Silent => \E i \in States : Behind(i) /\ Signature[i] = mailedSig
  /\ \A s \in Signatures \ doubted :
       /\ updates[s] <= 1
       /\ updates[s] > 0 => s = mailedSig \/ Replaced(s) \/ Storing(s)

TrackingInv ==
  /\ TrackingTypeOK
  /\ \A r \in Requests : RequestOK(r)
  /\ StoredWasMailed
  /\ ~overlapped => InTurn

USE TrackingAssumption DEF States

LEMMA StatesLinear ==
  /\ States \subseteq Nat
  /\ \A i \in States : Signature[i] \in Signatures \union {Silent}
  /\ Silent \notin Signatures
BY DEF TrackingAssumption

\* Requests keep what they fetched, or fetch the present state.
Calm ==
  /\ at <= at'
  /\ \A r \in Requests : Fetched(r)' =>
       \/ Fetched(r) /\ snap'[r] = snap[r]
       \/ snap'[r] = at

LEMMA StepCalm ==
  ASSUME TrackingTypeOK, TrackingNext  PROVE Calm
<1> USE DEF TrackingTypeOK, Calm, Fetched
<1>0. at \in Nat /\ at <= at  BY StatesLinear
<1>1. CASE ProdigiAdvances
  BY <1>0, <1>1 DEF ProdigiAdvances, requestVars
<1>2. ASSUME NEW r \in Requests, Callback(r) \/ Poll(r) \/ AdminRefresh(r)
      PROVE Calm
  <2>1. \E l \in Steps : Fetch(r, l)
    BY <1>2 DEF Callback, Poll, AdminRefresh, Steps
  <2> QED  BY <1>0, <2>1 DEF Fetch, Begin, MoveTo
<1>3. ASSUME NEW r \in Requests, PollFails(r)  PROVE Calm
  BY <1>0, <1>3 DEF PollFails, requestVars
<1>4. ASSUME NEW r \in Requests, LoadOrder(r)  PROVE Calm
  BY <1>0, <1>4 DEF LoadOrder, Begin, MoveTo
<1>5. ASSUME NEW r \in Requests, SyncSilently(r) \/ SyncAndMail(r) \/ SyncMailFails(r)
                                 \/ SkipSubmission(r) \/ RequestFails(r) \/ StoreSignature(r)
      PROVE Calm
  BY <1>0, <1>5 DEF SyncSilently, SyncAndMail, SyncMailFails, SkipSubmission,
                    RequestFails, StoreSignature, MoveTo
<1>6. ASSUME NEW r \in Requests, Submit(r)  PROVE Calm
  BY <1>0, <1>6 DEF Submit, MoveTo
<1>7. ASSUME NEW r \in Requests, SaveId(r) \/ SaveStage(r) \/ SendTrackingEmail(r)
      PROVE Calm
  BY <1>0, <1>7 DEF SaveId, SaveStage, SendTrackingEmail, MoveTo
<1> HIDE DEF TrackingTypeOK, Calm, Fetched
<1> QED  BY <1>1, <1>2, <1>3, <1>4, <1>5, <1>6, <1>7 DEF TrackingNext, GoOn

LEMMA BehindStays ==
  ASSUME TrackingTypeOK, TrackingTypeOK', Calm, NEW j \in States, Behind(j)
  PROVE  Behind(j)'
<1> HIDE DEF States
<1>1. j \in Nat /\ at \in Nat /\ at' \in Nat  BY StatesLinear DEF TrackingTypeOK
<1>2. j <= at'  BY <1>1 DEF Calm, Behind
<1>3. ASSUME NEW r \in Requests, Fetched(r)'  PROVE j <= snap'[r]
  BY <1>2, <1>3 DEF Calm, Behind
<1> QED  BY <1>2, <1>3 DEF Behind

LEMMA ReplacedStays ==
  ASSUME TrackingTypeOK, TrackingTypeOK', Calm, NEW s, Replaced(s)
  PROVE  Replaced(s)'
<1>1. PICK i, j \in States : i <= j /\ Behind(j) /\ Signature[i] = s /\ Signature[j] # s
  BY DEF Replaced
<1>2. Behind(j)'  BY <1>1, BehindStays
<1> QED  BY <1>1, <1>2 DEF Replaced

-----------------------------------------------------------------------------
(* Types, and what a request holds *)

RowTypes ==
  /\ created \in BOOLEAN /\ hasId \in BOOLEAN /\ polled \in BOOLEAN
  /\ at \in States /\ shown \in States \union {Nothing}
  /\ mailedSig \in Signatures \union {Silent}

MailTypes ==
  /\ updates \in [Signatures -> 0..2] /\ doubted \subseteq Signatures
  /\ failures \in 0..MaxFailures

RequestTypes ==
  /\ step \in [Requests -> Steps] /\ snap \in [Requests -> States]
  /\ copy \in [Requests -> Signatures \union {Silent}]
  /\ overlapped \in BOOLEAN

LEMMA TypeParts ==
  /\ TrackingTypeOK <=> RowTypes /\ MailTypes /\ RequestTypes
  /\ TrackingTypeOK' <=> RowTypes' /\ MailTypes' /\ RequestTypes'
BY DEF TrackingTypeOK, RowTypes, MailTypes, RequestTypes

LEMMA RestKeepsTypes ==
  /\ RowTypes /\ UNCHANGED <<created, at, rowVars>> => RowTypes'
  /\ MailTypes /\ UNCHANGED <<updateVars, failures>> => MailTypes'
  /\ RequestTypes /\ UNCHANGED requestVars => RequestTypes'
BY DEF RowTypes, MailTypes, RequestTypes, rowVars, updateVars, requestVars

\* A signature to be mailed is one; its mail is counted, and no other.
LEMMA MailCounts ==
  ASSUME MailTypes, NEW s \in Signatures, MailOut(s)
  PROVE  /\ updates' \in [Signatures -> 0..2]
         /\ updates'[s] > 0 /\ (updates[s] = 0 => updates'[s] = 1)
         /\ \A t \in Signatures : t # s => updates'[t] = updates[t]
BY DEF MailTypes, MailOut

LEMMA FailCounts ==
  ASSUME failures \in 0..MaxFailures, Fails
  PROVE  failures' \in 0..MaxFailures
BY StatesLinear, TrackingAssumption DEF Fails, TrackingAssumption

LEMMA TypeStep ==
  ASSUME TrackingTypeOK, \A r \in Requests : RequestOK(r),
         [TrackingNext]_trackingVars
  PROVE  TrackingTypeOK'
<1> HIDE DEF States
<1>a. RowTypes /\ MailTypes /\ RequestTypes  BY TypeParts
<1>s. ASSUME NEW r \in Requests
      PROVE  /\ snap[r] \in States
             /\ Signature[snap[r]] \in Signatures \union {Silent}
             /\ \A known : IsNew(r, known) => Signature[snap[r]] \in Signatures
  <2>1. snap[r] \in States  BY <1>a DEF RequestTypes
  <2> QED  BY <2>1, StatesLinear DEF IsNew
<1>g. ASSUME NEW r \in Requests, NEW l \in Steps, MoveTo(r, l), UNCHANGED <<snap, copy, overlapped>>
      PROVE  RequestTypes'
  BY <1>a, <1>g DEF RequestTypes, MoveTo
<1>1. CASE ProdigiAdvances
  <2>1. at' \in States  BY <1>1, <1>a, TrackingAssumption
          DEF ProdigiAdvances, RowTypes, States, TrackingAssumption
  <2>2. RowTypes'  BY <1>1, <1>a, <2>1 DEF ProdigiAdvances, RowTypes, rowVars
  <2> QED  BY <1>1, <1>a, <2>2, RestKeepsTypes, TypeParts DEF ProdigiAdvances
<1>2. ASSUME NEW r \in Requests, Callback(r) \/ Poll(r) \/ AdminRefresh(r)
      PROVE TrackingTypeOK'
  <2>1. PICK l \in Steps : Fetch(r, l)
    BY <1>2 DEF Callback, Poll, AdminRefresh, Steps
  <2>2. overlapped' \in BOOLEAN  BY <2>1 DEF Fetch, Begin
  <2>3. RequestTypes'  BY <1>a, <2>1, <2>2
        DEF Fetch, Begin, MoveTo, RequestTypes, RowTypes
  <2> QED  BY <1>a, <2>1, <2>3, RestKeepsTypes, TypeParts DEF Fetch
<1>3. ASSUME NEW r \in Requests, PollFails(r)  PROVE TrackingTypeOK'
  <2>1. MailTypes'  BY <1>3, <1>a, FailCounts DEF PollFails, updateVars, MailTypes
  <2>2. RowTypes'  BY <1>3, <1>a DEF PollFails, RowTypes
  <2> QED  BY <1>3, <1>a, <2>1, <2>2, RestKeepsTypes, TypeParts DEF PollFails
<1>4. ASSUME NEW r \in Requests, LoadOrder(r)  PROVE TrackingTypeOK'
  <2>1. overlapped' \in BOOLEAN  BY <1>4 DEF LoadOrder, Begin
  <2>2. RequestTypes'
    BY <1>4, <1>a, <2>1 DEF LoadOrder, Begin, MoveTo, Steps, RequestTypes, RowTypes
  <2> QED  BY <1>4, <1>a, <2>2, RestKeepsTypes, TypeParts DEF LoadOrder
<1>5. ASSUME NEW r \in Requests, SkipSubmission(r)  PROVE TrackingTypeOK'
  BY <1>5, <1>a, <1>g, RestKeepsTypes, TypeParts DEF SkipSubmission, Steps
<1>6. ASSUME NEW r \in Requests, Submit(r)  PROVE TrackingTypeOK'
  <2>1. RowTypes'  BY <1>6, <1>a DEF Submit, RowTypes, rowVars
  <2>2. RequestTypes'  BY <1>6, <1>a DEF Submit, MoveTo, Steps, RequestTypes, RowTypes
  <2> QED  BY <1>6, <1>a, <2>1, <2>2, RestKeepsTypes, TypeParts DEF Submit
<1>7. ASSUME NEW r \in Requests, SaveId(r)  PROVE TrackingTypeOK'
  <2>1. RowTypes'  BY <1>7, <1>a DEF SaveId, RowTypes
  <2> QED  BY <1>7, <1>a, <1>g, <2>1, RestKeepsTypes, TypeParts DEF SaveId, Steps
<1>8. ASSUME NEW r \in Requests, SaveStage(r)  PROVE TrackingTypeOK'
  <2>1. RowTypes'  BY <1>8, <1>a, <1>s DEF SaveStage, RowTypes
  <2>2. RequestTypes'  BY <1>8, <1>a DEF SaveStage, MoveTo, RequestTypes, Steps
  <2> QED  BY <1>8, <1>a, <2>1, <2>2, RestKeepsTypes, TypeParts DEF SaveStage
<1>9. ASSUME NEW r \in Requests, SyncSilently(r)  PROVE TrackingTypeOK'
  <2>1. polled' \in BOOLEAN  BY <1>9, <1>a DEF SyncSilently, RowTypes
  <2>2. RowTypes'  BY <1>9, <1>a, <1>s, <2>1 DEF SyncSilently, Store, RowTypes
  <2> QED  BY <1>9, <1>a, <1>g, <2>2, RestKeepsTypes, TypeParts DEF SyncSilently, Steps
<1>10. ASSUME NEW r \in Requests, SyncAndMail(r)  PROVE TrackingTypeOK'
  <2>1. polled' \in BOOLEAN  BY <1>10, <1>a DEF SyncAndMail, RowTypes
  <2>2. RowTypes'  BY <1>10, <1>a, <1>s, <2>1 DEF SyncAndMail, Store, RowTypes
  <2>3. MailTypes'  BY <1>10, <1>a, <1>s, MailCounts DEF SyncAndMail, MailTypes
  <2> QED  BY <1>10, <1>a, <1>g, <2>2, <2>3, TypeParts DEF SyncAndMail, Steps
<1>11. ASSUME NEW r \in Requests, SyncMailFails(r)  PROVE TrackingTypeOK'
  <2>1. RowTypes'  BY <1>11, <1>a, <1>s DEF SyncMailFails, Store, RowTypes
  <2>2. MailTypes'
    BY <1>11, <1>a, <1>s, MailCounts, FailCounts DEF SyncMailFails, MailTypes, updateVars
  <2> QED  BY <1>11, <1>a, <1>g, <2>1, <2>2, TypeParts DEF SyncMailFails, Steps
<1>12. ASSUME NEW r \in Requests, SendTrackingEmail(r)  PROVE TrackingTypeOK'
  <2>1. Signature[snap[r]] \in Signatures
    BY <1>12, <1>s DEF SendTrackingEmail, RequestOK
  <2>2. MailTypes'  BY <1>12, <1>a, <2>1, MailCounts DEF SendTrackingEmail, MailTypes
  <2> QED  BY <1>12, <1>a, <1>g, <2>2, RestKeepsTypes, TypeParts
        DEF SendTrackingEmail, Steps
<1>13. ASSUME NEW r \in Requests, StoreSignature(r)  PROVE TrackingTypeOK'
  <2>1. RowTypes'  BY <1>13, <1>a, <1>s DEF StoreSignature, RowTypes
  <2> QED  BY <1>13, <1>a, <1>g, <2>1, RestKeepsTypes, TypeParts
        DEF StoreSignature, Steps
<1>14. ASSUME NEW r \in Requests, RequestFails(r)  PROVE TrackingTypeOK'
  <2>1. step[r] = "send" \/ IsNew(r, mailedSig) => Signature[snap[r]] \in Signatures
    BY <1>s DEF RequestOK
  <2>2. step[r] = "store" => Signature[snap[r]] \in Signatures
    BY <1>s DEF RequestOK
  <2>3. updates' \in [Signatures -> 0..2] /\ doubted' \subseteq Signatures
    BY <1>14, <1>a, <2>1, <2>2, MailCounts DEF RequestFails, MailTypes, updateVars
  <2>4. MailTypes'  BY <1>14, <1>a, <2>3, FailCounts DEF RequestFails, MailTypes
  <2>5. RowTypes'  BY <1>14, <1>a DEF RequestFails, RowTypes, rowVars
  <2> QED  BY <1>14, <1>a, <1>g, <2>4, <2>5, TypeParts DEF RequestFails, Steps
<1>15. CASE UNCHANGED trackingVars
  BY <1>15, <1>a, RestKeepsTypes, TypeParts DEF trackingVars
<1> QED  BY <1>1, <1>2, <1>3, <1>4, <1>5, <1>6, <1>7, <1>8, <1>9, <1>10,
          <1>11, <1>12, <1>13, <1>14, <1>15 DEF TrackingNext, GoOn

-----------------------------------------------------------------------------
(* What a request holds, and the stored signature *)

MailsKept == \A s \in Signatures : updates[s] > 0 => updates'[s] > 0

\* A step leaves what the other requests hold as it is.
LEMMA OthersOK ==
  ASSUME TrackingTypeOK, TrackingTypeOK', Calm, MailsKept,
         NEW q \in Requests, RequestOK(q),
         step'[q] = step[q], snap'[q] = snap[q], copy'[q] = copy[q]
  PROVE  RequestOK(q)'
<1>1. snap[q] \in States /\ at \in States /\ at' \in States  BY DEF TrackingTypeOK
<1>2. Fetched(q)' => snap'[q] <= at'
  BY <1>1, StatesLinear DEF RequestOK, Fetched, Calm
<1>3. step[q] = "store" => Signature[snap[q]] \in Signatures
  BY <1>1, StatesLinear DEF RequestOK
<1> QED  BY <1>2, <1>3 DEF RequestOK, MailsKept

LEMMA RestingOK ==
  ASSUME NEW q \in Requests, step'[q] \in {"idle", "loaded"}  PROVE RequestOK(q)'
BY DEF RequestOK, Fetched

\* Every step of request r but for what r holds afterwards.
LEMMA OnlyOne ==
  ASSUME TrackingTypeOK, TrackingTypeOK', Calm, MailsKept,
         NEW r \in Requests, RequestOK(r)',
         \A q \in Requests : RequestOK(q),
         \A q \in Requests \ {r} : step'[q] = step[q] /\ snap'[q] = snap[q] /\ copy'[q] = copy[q]
  PROVE  \A q \in Requests : RequestOK(q)'
BY OthersOK

LEMMA RequestStep ==
  ASSUME TrackingTypeOK, TrackingTypeOK', \A r \in Requests : RequestOK(r),
         StoredWasMailed, TrackingNext
  PROVE  (\A r \in Requests : RequestOK(r))' /\ StoredWasMailed'
<1> USE DEF StoredWasMailed
<1> HIDE DEF States
<1>c. Calm  BY StepCalm
<1>t. MailTypes /\ RequestTypes  BY TypeParts
<1>s. ASSUME NEW r \in Requests
      PROVE  /\ snap[r] \in States /\ at \in States
             /\ Signature[snap[r]] \in Signatures \union {Silent}
  <2>1. snap[r] \in States  BY DEF TrackingTypeOK
  <2> QED  BY <2>1, StatesLinear DEF TrackingTypeOK
<1>l. at <= at  BY StatesLinear DEF TrackingTypeOK
<1>m. UNCHANGED updateVars => MailsKept  BY DEF MailsKept, updateVars
<1>n. UNCHANGED updates => MailsKept  BY DEF MailsKept
<1>o. ASSUME NEW s \in Signatures, MailOut(s)  PROVE MailsKept /\ updates'[s] > 0
  BY <1>o, <1>t, MailCounts DEF MailsKept
<1>w. mailedSig \in Signatures \union {Silent}  BY DEF TrackingTypeOK
<1>k. MailsKept /\ UNCHANGED mailedSig => StoredWasMailed'  BY <1>w DEF MailsKept
<1>g. ASSUME NEW r \in Requests, NEW l, MoveTo(r, l), UNCHANGED <<snap, copy>>
      PROVE  /\ step'[r] = l /\ snap'[r] = snap[r] /\ copy'[r] = copy[r]
             /\ \A q \in Requests \ {r} :
                  step'[q] = step[q] /\ snap'[q] = snap[q] /\ copy'[q] = copy[q]
  BY <1>g, <1>t DEF RequestTypes, MoveTo
<1>i. ASSUME NEW r \in Requests, MoveTo(r, "idle"), UNCHANGED <<snap, copy>>, MailsKept
      PROVE  \A q \in Requests : RequestOK(q)'
  BY <1>i, <1>g, <1>c, OnlyOne, RestingOK
<1>1. CASE ProdigiAdvances
  <2>1. MailsKept /\ UNCHANGED <<mailedSig, step, snap, copy>>
    BY <1>1, <1>m DEF ProdigiAdvances, rowVars, requestVars
  <2> QED  BY <2>1, <1>k, <1>c, OthersOK
<1>2. ASSUME NEW r \in Requests, Callback(r) \/ Poll(r) \/ AdminRefresh(r)
      PROVE (\A q \in Requests : RequestOK(q))' /\ StoredWasMailed'
  <2>1. PICK l \in {"callback", "poll"} : Fetch(r, l)
    BY <1>2 DEF Callback, Poll, AdminRefresh
  <2>2. MailsKept /\ UNCHANGED <<mailedSig, at>>  BY <2>1, <1>m DEF Fetch, rowVars
  <2>3. /\ step'[r] = l /\ snap'[r] = at
        /\ \A q \in Requests \ {r} :
             step'[q] = step[q] /\ snap'[q] = snap[q] /\ copy'[q] = copy[q]
    BY <2>1, <1>t DEF Fetch, Begin, MoveTo, RequestTypes
  <2>4. RequestOK(r)'  BY <2>2, <2>3, <1>l DEF RequestOK
  <2> QED  BY <2>2, <2>3, <2>4, <1>c, <1>k, OnlyOne
<1>3. ASSUME NEW r \in Requests, PollFails(r)
      PROVE (\A q \in Requests : RequestOK(q))' /\ StoredWasMailed'
  <2>1. MailsKept /\ UNCHANGED <<mailedSig, step, snap, copy>>
    BY <1>3, <1>m DEF PollFails, requestVars
  <2> QED  BY <2>1, <1>k, <1>c, OthersOK
<1>4. ASSUME NEW r \in Requests, LoadOrder(r)
      PROVE (\A q \in Requests : RequestOK(q))' /\ StoredWasMailed'
  <2>1. MailsKept /\ UNCHANGED mailedSig  BY <1>4, <1>m DEF LoadOrder, rowVars
  <2>2. /\ step'[r] = "loaded"
        /\ \A q \in Requests \ {r} :
             step'[q] = step[q] /\ snap'[q] = snap[q] /\ copy'[q] = copy[q]
    BY <1>4, <1>t DEF LoadOrder, Begin, MoveTo, RequestTypes
  <2> QED  BY <2>1, <2>2, <1>c, <1>k, OnlyOne, RestingOK
<1>5. ASSUME NEW r \in Requests, Submit(r)
      PROVE (\A q \in Requests : RequestOK(q))' /\ StoredWasMailed'
  <2>1. MailsKept /\ UNCHANGED <<mailedSig, at>>  BY <1>5, <1>m DEF Submit, rowVars
  <2>2. /\ step'[r] = "answered" /\ snap'[r] = at
        /\ \A q \in Requests \ {r} :
             step'[q] = step[q] /\ snap'[q] = snap[q] /\ copy'[q] = copy[q]
    BY <1>5, <1>t DEF Submit, MoveTo, RequestTypes
  <2>3. RequestOK(r)'  BY <2>1, <2>2, <1>l DEF RequestOK
  <2> QED  BY <2>1, <2>2, <2>3, <1>c, <1>k, OnlyOne
<1>6. ASSUME NEW r \in Requests, SaveId(r)
      PROVE (\A q \in Requests : RequestOK(q))' /\ StoredWasMailed'
  <2>1. MailsKept /\ UNCHANGED <<mailedSig, at>>  BY <1>6, <1>m DEF SaveId
  <2>2. step[r] = "answered" /\ MoveTo(r, "stage") /\ UNCHANGED <<snap, copy>>
    BY <1>6 DEF SaveId
  <2>3. RequestOK(r)'  BY <2>1, <2>2, <1>g DEF RequestOK, Fetched
  <2> QED  BY <2>1, <2>2, <2>3, <1>c, <1>g, <1>k, OnlyOne
<1>7. ASSUME NEW r \in Requests, SaveStage(r)
      PROVE (\A q \in Requests : RequestOK(q))' /\ StoredWasMailed'
  <2>1. MailsKept /\ UNCHANGED <<mailedSig, at>>  BY <1>7, <1>m DEF SaveStage
  <2>2. PICK l \in {"send", "idle"} : MoveTo(r, l) /\ (l = "send" => IsNew(r, copy[r]))
    BY <1>7 DEF SaveStage
  <2>3. step[r] = "stage" /\ UNCHANGED <<snap, copy>>  BY <1>7 DEF SaveStage
  <2>4. RequestOK(r)'  BY <2>1, <2>2, <2>3, <1>g DEF RequestOK, Fetched, IsNew
  <2> QED  BY <2>1, <2>2, <2>3, <2>4, <1>c, <1>g, <1>k, OnlyOne
<1>8. ASSUME NEW r \in Requests, SendTrackingEmail(r)
      PROVE (\A q \in Requests : RequestOK(q))' /\ StoredWasMailed'
  <2>1. step[r] = "send" /\ MoveTo(r, "store") /\ UNCHANGED <<snap, copy, mailedSig, at>>
    BY <1>8 DEF SendTrackingEmail, rowVars
  <2>2. Signature[snap[r]] \in Signatures  BY <2>1, <1>s DEF RequestOK
  <2>3. MailsKept /\ updates'[Signature[snap[r]]] > 0  BY <1>8, <2>2, <1>o
        DEF SendTrackingEmail
  <2>4. RequestOK(r)'  BY <2>1, <2>3, <1>g DEF RequestOK, Fetched
  <2> QED  BY <2>1, <2>3, <2>4, <1>c, <1>g, <1>k, OnlyOne
<1>9. ASSUME NEW r \in Requests, StoreSignature(r)
      PROVE (\A q \in Requests : RequestOK(q))' /\ StoredWasMailed'
  <2>1. MailsKept  BY <1>9, <1>m DEF StoreSignature
  <2>2. mailedSig' = Signature[snap[r]] /\ updates'[mailedSig'] > 0
    BY <1>9 DEF StoreSignature, RequestOK, updateVars
  <2> QED  BY <1>9, <2>1, <2>2, <1>i DEF StoreSignature
<1>10. ASSUME NEW r \in Requests, SyncAndMail(r)
       PROVE (\A q \in Requests : RequestOK(q))' /\ StoredWasMailed'
  <2>1. Signature[snap[r]] \in Signatures  BY <1>10, <1>s DEF SyncAndMail, IsNew
  <2>2. MailsKept /\ updates'[mailedSig'] > 0  BY <1>10, <2>1, <1>o DEF SyncAndMail
  <2> QED  BY <1>10, <2>2, <1>i DEF SyncAndMail
<1>11. ASSUME NEW r \in Requests,
              SyncSilently(r) \/ SyncMailFails(r) \/ SkipSubmission(r) \/ RequestFails(r)
       PROVE (\A q \in Requests : RequestOK(q))' /\ StoredWasMailed'
  <2>1. MoveTo(r, "idle") /\ UNCHANGED <<snap, copy, mailedSig>>
    BY <1>11
          DEF SyncSilently, SyncMailFails, SkipSubmission, RequestFails, rowVars
  <2>2. IsNew(r, mailedSig) \/ step[r] = "send" => Signature[snap[r]] \in Signatures
    BY <1>s DEF IsNew, RequestOK
  <2>3. MailsKept
    BY <1>11, <2>2, <1>m, <1>n, <1>o
          DEF SyncSilently, SyncMailFails, SkipSubmission, RequestFails
  <2> QED  BY <2>1, <2>3, <1>i, <1>k
<1> QED  BY <1>1, <1>2, <1>3, <1>4, <1>5, <1>6, <1>7, <1>8, <1>9, <1>10, <1>11
      DEF TrackingNext, GoOn

-----------------------------------------------------------------------------
(* Requests that do not overlap *)

InUse(label) == label \in {"loaded", "answered", "stage", "send", "store"}

Alone == \A q, r \in Requests : step[q] # "idle" /\ step[r] # "idle" => q = r
Fresh == \A r \in Requests : InUse(step[r]) => copy[r] = mailedSig

LEMMA TurnParts ==
  /\ InTurn <=> /\ Alone /\ Fresh
                /\ mailedSig # Silent => \E i \in States : Behind(i) /\ Signature[i] = mailedSig
                /\ \A s \in Signatures \ doubted :
                     /\ updates[s] <= 1
                     /\ updates[s] > 0 => s = mailedSig \/ Replaced(s) \/ Storing(s)
BY DEF InTurn, Alone, Fresh, InUse

\* Steps that store no signature, and mail at most one that is then in doubt
LEMMA QuietStep ==
  ASSUME TrackingTypeOK, TrackingTypeOK', Calm, InTurn, Alone', Fresh',
         UNCHANGED mailedSig,
         doubted \subseteq doubted',
         \A s \in Signatures \ doubted' :
           updates'[s] = updates[s] /\ (Storing(s) => Storing(s)')
  PROVE  InTurn'
<1> HIDE DEF States
<1>1. mailedSig' # Silent => \E i \in States : Behind(i)' /\ Signature[i] = mailedSig'
  BY BehindStays DEF InTurn
<1>2. ASSUME NEW s \in Signatures \ doubted'
      PROVE  /\ updates'[s] <= 1
             /\ updates'[s] > 0 => s = mailedSig' \/ Replaced(s)' \/ Storing(s)'
  BY <1>2, ReplacedStays DEF InTurn
<1> QED  BY <1>1, <1>2 DEF InTurn, Alone, Fresh, InUse

\* The signature that request r is about to mail never was, or its mail is in
\* doubt: otherwise it was replaced by another one, and Prodigi does not return.
LEMMA Unsent ==
  ASSUME TrackingTypeOK, InTurn, NEW r \in Requests, Fetched(r),
         step[r] # "store",
         Signature[snap[r]] \notin {Silent, mailedSig}, Signature[snap[r]] \notin doubted
  PROVE  updates[Signature[snap[r]]] = 0
<1> DEFINE s == Signature[snap[r]]
<1>1. snap[r] \in States  BY DEF TrackingTypeOK
<1>2. s \in Signatures \ doubted  BY <1>1, StatesLinear
<1>3. ~Replaced(s)
  <2> SUFFICES ASSUME NEW i \in States, NEW j \in States, i <= j, Behind(j),
                      Signature[i] = s, Signature[j] # s
               PROVE  FALSE
    BY DEF Replaced
  <2>1. j <= snap[r]  BY DEF Behind
  <2> QED  BY <1>1, <2>1, TrackingAssumption DEF TrackingAssumption
<1>4. ~Storing(s)
  BY DEF Storing, InTurn, Fetched
<1>5. updates[s] \in 0..2  BY <1>2 DEF TrackingTypeOK
<1>6. ~(updates[s] > 0)  BY <1>2, <1>3, <1>4 DEF InTurn
<1> QED  BY <1>5, <1>6

\* What request r fetched is not older than anything mailed before.
LEMMA Latest ==
  ASSUME TrackingTypeOK, InTurn, NEW r \in Requests, Fetched(r),
         RequestOK(r),
         UNCHANGED <<at, snap>>, MoveTo(r, "idle")
  PROVE  Behind(snap[r])'
<1>1. \A q \in Requests : ~Fetched(q)'
  BY DEF InTurn, Fetched, MoveTo, TrackingTypeOK
<1> QED  BY <1>1 DEF Behind, RequestOK

LEMMA TurnStep ==
  ASSUME TrackingTypeOK, TrackingTypeOK', \A r \in Requests : RequestOK(r),
         ~overlapped => InTurn,
         TrackingNext, ~overlapped'
  PROVE  InTurn'
<1> HIDE DEF States
<1>c. Calm  BY StepCalm
<1>t. MailTypes /\ RequestTypes  BY TypeParts
<1>s. ASSUME NEW r \in Requests
      PROVE  snap[r] \in States /\ Signature[snap[r]] \in Signatures \union {Silent}
  <2>1. snap[r] \in States  BY DEF TrackingTypeOK
  <2> QED  BY <2>1, StatesLinear
\* A request that only goes on, or ends
<1>g. ASSUME NEW r \in Requests, NEW l, step[r] # "idle", MoveTo(r, l), UNCHANGED overlapped
      PROVE  /\ step'[r] = l /\ \A q \in Requests \ {r} : step[q] = "idle" /\ step'[q] = "idle"
             /\ InTurn /\ Alone'
  <2>1. InTurn  BY <1>g
  <2>2. \A q \in Requests \ {r} : step[q] = "idle"  BY <1>g, <2>1 DEF InTurn
  <2>3. step'[r] = l /\ \A q \in Requests \ {r} : step'[q] = step[q]
    BY <1>g, <1>t DEF MoveTo, RequestTypes
  <2> QED  BY <2>1, <2>2, <2>3 DEF Alone
\* A request that begins
<1>b. ASSUME NEW r \in Requests, NEW l, Begin(r, l)
      PROVE  /\ InTurn /\ Alone' /\ step'[r] = l
             /\ \A q \in Requests : step[q] = "idle" /\ (q # r => step'[q] = "idle")
  <2>1. ~overlapped /\ \A q \in Requests : step[q] = "idle"  BY <1>b DEF Begin
  <2>2. step'[r] = l /\ \A q \in Requests \ {r} : step'[q] = step[q]
    BY <1>b, <1>t DEF Begin, MoveTo, RequestTypes
  <2> QED  BY <2>1, <2>2 DEF Alone
<1>n. ASSUME NEW s, \A q \in Requests : step[q] # "store"  PROVE ~Storing(s)
  BY <1>n DEF Storing
<1>1. CASE ProdigiAdvances
  <2>1. UNCHANGED <<step, snap, copy, overlapped, mailedSig, updates, doubted>>
    BY <1>1 DEF ProdigiAdvances, rowVars, updateVars, requestVars
  <2>2. InTurn /\ Alone' /\ Fresh'  BY <2>1, TurnParts DEF Alone, Fresh
  <2>3. \A s : Storing(s) => Storing(s)'  BY <2>1 DEF Storing
  <2> QED  BY <2>1, <2>2, <2>3, <1>c, QuietStep
<1>2. ASSUME NEW r \in Requests, Callback(r) \/ Poll(r) \/ AdminRefresh(r)  PROVE InTurn'
  <2>1. PICK l \in {"callback", "poll"} : Fetch(r, l)
    BY <1>2 DEF Callback, Poll, AdminRefresh
  <2>2. Begin(r, l) /\ UNCHANGED <<mailedSig, updates, doubted>>
    BY <2>1 DEF Fetch, rowVars, updateVars
  <2>3. Fresh'  BY <2>2, <1>b DEF Fresh, InUse
  <2>4. \A s : ~Storing(s)  BY <2>2, <1>b DEF Storing
  <2> QED  BY <2>2, <2>3, <2>4, <1>b, <1>c, QuietStep
<1>3. ASSUME NEW r \in Requests, PollFails(r)  PROVE InTurn'
  <2>1. UNCHANGED <<step, snap, copy, overlapped, mailedSig, updates, doubted>>
    BY <1>3 DEF PollFails, updateVars, requestVars
  <2>2. InTurn /\ Alone' /\ Fresh'  BY <2>1, TurnParts DEF Alone, Fresh
  <2>3. \A s : Storing(s) => Storing(s)'  BY <2>1 DEF Storing
  <2> QED  BY <2>1, <2>2, <2>3, <1>c, QuietStep
<1>4. ASSUME NEW r \in Requests, LoadOrder(r)  PROVE InTurn'
  <2>1. Begin(r, "loaded") /\ UNCHANGED <<mailedSig, updates, doubted>>
    BY <1>4 DEF LoadOrder, rowVars, updateVars
  <2>2. copy'[r] = mailedSig  BY <1>4, <1>t DEF LoadOrder, RequestTypes
  <2>3. Fresh'  BY <2>1, <2>2, <1>b DEF Fresh, InUse
  <2>4. \A s : ~Storing(s)  BY <2>1, <1>b DEF Storing
  <2> QED  BY <2>1, <2>3, <2>4, <1>b, <1>c, QuietStep
\* The steps of a request that neither mail nor store
<1>5. ASSUME NEW r \in Requests,
             \/ SkipSubmission(r) \/ Submit(r) \/ SaveId(r) \/ SaveStage(r)
             \/ SyncSilently(r)
      PROVE InTurn'
  <2>1. /\ UNCHANGED <<mailedSig, updates, doubted, copy, overlapped>>
        /\ step[r] \notin {"idle", "store"}
        /\ \E l \in Steps : MoveTo(r, l) /\ (InUse(l) => InUse(step[r]))
    BY <1>5
          DEF SkipSubmission, Submit, SaveId, SaveStage, SyncSilently, rowVars, updateVars,
                InUse, Steps
  <2>2. PICK l \in Steps : MoveTo(r, l) /\ (InUse(l) => InUse(step[r]))  BY <2>1
  <2>3. /\ step'[r] = l /\ \A q \in Requests \ {r} : step[q] = "idle" /\ step'[q] = "idle"
        /\ InTurn /\ Alone'
    BY <2>1, <2>2, <1>g
  <2>4. Fresh'  BY <2>1, <2>2, <2>3, TurnParts DEF Fresh, InUse
  <2>5. \A s : ~Storing(s)  BY <2>1, <2>3 DEF Storing
  <2> QED  BY <2>1, <2>3, <2>4, <2>5, <1>c, QuietStep
\* Those that mail in doubt, or leave a mail in doubt
<1>6. ASSUME NEW r \in Requests, SyncMailFails(r) \/ RequestFails(r)  PROVE InTurn'
  <2>1. step[r] # "idle" /\ MoveTo(r, "idle") /\ UNCHANGED <<mailedSig, overlapped>>
    BY <1>6 DEF SyncMailFails, RequestFails, rowVars
  <2>2. /\ step'[r] = "idle" /\ \A q \in Requests \ {r} : step[q] = "idle" /\ step'[q] = "idle"
        /\ InTurn /\ Alone'
    BY <2>1, <1>g
  <2>3. Fresh'  BY <2>2 DEF Fresh, InUse
  <2>4. \/ UNCHANGED updateVars /\ step[r] # "store"
        \/ MailOut(Signature[snap[r]]) /\ doubted' = doubted \union {Signature[snap[r]]}
             /\ step[r] # "store" /\ Signature[snap[r]] \in Signatures
        \/ UNCHANGED updates /\ doubted' = doubted \union {Signature[snap[r]]}
    BY <1>6, <1>s DEF SyncMailFails, RequestFails, RequestOK, IsNew, updateVars
  <2>5. doubted \subseteq doubted'  BY <2>4 DEF updateVars
  <2>6. \A s \in Signatures \ doubted' : updates'[s] = updates[s]
    BY <2>4, <1>t, MailCounts DEF updateVars
  <2>7. \A s \in Signatures \ doubted' : ~Storing(s)
    BY <2>2, <2>4 DEF Storing
  <2> QED  BY <2>1, <2>2, <2>3, <2>5, <2>6, <2>7, <1>c, QuietStep
<1>7. ASSUME NEW r \in Requests, SendTrackingEmail(r)  PROVE InTurn'
  <2> DEFINE s == Signature[snap[r]]
  <2>1. /\ step[r] = "send" /\ MoveTo(r, "store") /\ MailOut(s)
        /\ UNCHANGED <<mailedSig, doubted, snap, copy, overlapped>>
    BY <1>7 DEF SendTrackingEmail, rowVars
  <2>2. /\ step'[r] = "store" /\ \A q \in Requests \ {r} : step[q] = "idle" /\ step'[q] = "idle"
        /\ InTurn /\ Alone'
    BY <2>1, <1>g
  <2>3. copy[r] = mailedSig  BY <2>1, <2>2 DEF InTurn
  <2>4. Fresh'  BY <2>1, <2>2, <2>3 DEF Fresh, InUse
  <2>5. s \in Signatures /\ s # mailedSig  BY <2>1, <2>3, <1>s DEF RequestOK
  <2>6. s \notin doubted => updates[s] = 0
    BY <2>1, <2>2, <2>5, <1>s, Unsent DEF Fetched, RequestOK
  <2>7. /\ s \notin doubted => updates'[s] = 1
        /\ \A t \in Signatures : t # s => updates'[t] = updates[t]
    BY <2>1, <2>5, <2>6, <1>t, MailCounts
  <2>8. Storing(s)'  BY <2>1, <2>2 DEF Storing
  <2>9. \A t : ~Storing(t)  BY <2>1, <2>2 DEF Storing
  <2>10. mailedSig' # Silent => \E i \in States : Behind(i)' /\ Signature[i] = mailedSig'
    BY <2>1, <2>2, <1>c, BehindStays DEF InTurn
  <2>11. ASSUME NEW t \in Signatures \ doubted'
         PROVE  /\ updates'[t] <= 1
                /\ updates'[t] > 0 => t = mailedSig' \/ Replaced(t)' \/ Storing(t)'
    <3>1. CASE t = s  BY <3>1, <2>1, <2>7, <2>8, <2>11
    <3>2. CASE t # s  BY <3>2, <2>1, <2>2, <2>7, <2>9, <2>11, <1>c, ReplacedStays DEF InTurn
    <3> QED  BY <3>1, <3>2
  <2> QED  BY <2>2, <2>4, <2>10, <2>11, TurnParts DEF InTurn, Alone, Fresh, InUse
\* Signature s, which is not the stored one, is stored and r is done.
<1>8. ASSUME NEW r \in Requests, NEW s \in Signatures, s = Signature[snap[r]], s # mailedSig,
             step[r] # "idle", Fetched(r), MoveTo(r, "idle"), mailedSig' = s,
             UNCHANGED <<at, snap, copy, overlapped, doubted>>,
             \A t \in Signatures \ {s} : updates'[t] = updates[t] /\ ~Storing(t),
             s \notin doubted => updates'[s] <= 1
      PROVE InTurn'
  <2>1. /\ step'[r] = "idle" /\ \A q \in Requests \ {r} : step[q] = "idle" /\ step'[q] = "idle"
        /\ InTurn /\ Alone'
    BY <1>8, <1>g
  <2>2. Fresh'  BY <2>1 DEF Fresh, InUse
  <2>3. Behind(snap[r])' /\ snap'[r] = snap[r]  BY <1>8, <2>1, Latest
  <2>4. \E i \in States : Behind(i)' /\ Signature[i] = mailedSig'
    BY <1>8, <1>s, <2>3
  <2>5. ASSUME NEW m \in Signatures, m = mailedSig  PROVE Replaced(m)'
    <3>1. PICK i \in States : Behind(i) /\ Signature[i] = m
      BY <2>1, <2>5, StatesLinear DEF InTurn
    <3>2. i <= snap[r]  BY <1>8, <3>1 DEF Behind
    <3> QED  BY <1>8, <1>s, <2>3, <2>5, <3>1, <3>2 DEF Replaced
  <2>6. ASSUME NEW t \in Signatures \ doubted'
        PROVE  /\ updates'[t] <= 1
               /\ updates'[t] > 0 => t = mailedSig' \/ Replaced(t)' \/ Storing(t)'
    <3>1. CASE t = s  BY <3>1, <1>8, <2>6
    <3>2. CASE t # s
      <4>1. updates'[t] = updates[t] /\ ~Storing(t) /\ t \notin doubted
        BY <3>2, <1>8, <2>6
      <4>2. updates[t] <= 1 /\ (updates[t] > 0 => t = mailedSig \/ Replaced(t))
        BY <4>1, <2>1, <2>6 DEF InTurn
      <4> QED  BY <4>1, <4>2, <2>5, <2>6, <1>c, ReplacedStays
    <3> QED  BY <3>1, <3>2
  <2> QED  BY <2>1, <2>2, <2>4, <2>6, TurnParts DEF InTurn, Alone, Fresh, InUse
<1>9. ASSUME NEW r \in Requests, StoreSignature(r)  PROVE InTurn'
  <2> DEFINE s == Signature[snap[r]]
  <2>1. /\ step[r] = "store" /\ MoveTo(r, "idle") /\ mailedSig' = s
        /\ UNCHANGED <<at, snap, copy, overlapped, updates, doubted>>
    BY <1>9 DEF StoreSignature, updateVars
  <2>2. InTurn /\ \A q \in Requests \ {r} : step[q] = "idle"  BY <2>1, <1>g
  <2>3. copy[r] = mailedSig  BY <2>1, <2>2 DEF InTurn
  <2>4. s \in Signatures /\ s # mailedSig  BY <2>1, <2>3, <1>s DEF RequestOK
  <2>5. \A t \in Signatures \ {s} : ~Storing(t)  BY <2>1, <2>2 DEF Storing
  <2>6. s \notin doubted => updates'[s] <= 1  BY <2>1, <2>2, <2>4 DEF InTurn
  <2> QED  BY <2>1, <2>4, <2>5, <2>6, <1>8 DEF Fetched
<1>10. ASSUME NEW r \in Requests, SyncAndMail(r)  PROVE InTurn'
  <2> DEFINE s == Signature[snap[r]]
  <2>1. /\ step[r] \in {"callback", "poll"} /\ MoveTo(r, "idle") /\ mailedSig' = s /\ MailOut(s)
        /\ UNCHANGED <<at, snap, copy, overlapped, doubted>>
    BY <1>10 DEF SyncAndMail
  <2>2. InTurn /\ \A q \in Requests \ {r} : step[q] = "idle"  BY <2>1, <1>g
  <2>3. s \in Signatures /\ s \notin {Silent, mailedSig}  BY <1>10, <1>s
        DEF SyncAndMail, IsNew
  <2>4. \A t \in Signatures \ {s} : ~Storing(t)  BY <2>1, <2>2 DEF Storing
  <2>5. s \notin doubted => updates[s] = 0  BY <2>1, <2>2, <2>3, Unsent DEF Fetched
  <2>6. /\ s \notin doubted => updates'[s] <= 1
        /\ \A t \in Signatures \ {s} : updates'[t] = updates[t]
    BY <2>1, <2>3, <2>5, <1>t, MailCounts
  <2> QED  BY <2>1, <2>3, <2>4, <2>6, <1>8 DEF Fetched
<1> QED  BY <1>1, <1>2, <1>3, <1>4, <1>5, <1>6, <1>7, <1>9, <1>10 DEF TrackingNext, GoOn

-----------------------------------------------------------------------------
(* The theorems *)

LEMMA TrackingStarts == TrackingInit => TrackingInv
<1> SUFFICES ASSUME TrackingInit PROVE TrackingInv  OBVIOUS
<1>1. TrackingTypeOK
  <2>1. 0 \in States /\ 0 \in 0..MaxFailures
    BY TrackingAssumption DEF TrackingAssumption, States
  <2> HIDE DEF States
  <2>2. RowTypes  BY <2>1 DEF TrackingInit, RowTypes
  <2>3. MailTypes  BY <2>1 DEF TrackingInit, MailTypes
  <2>4. RequestTypes  BY <2>1 DEF TrackingInit, RequestTypes, Steps
  <2> QED  BY <2>2, <2>3, <2>4, TypeParts
<1>2. \A r \in Requests : RequestOK(r)  BY DEF TrackingInit, RequestOK, Fetched
<1>3. InTurn  BY DEF TrackingInit, InTurn
<1> QED  BY <1>1, <1>2, <1>3 DEF TrackingInit, TrackingInv, StoredWasMailed

LEMMA TrackingSteps == TrackingInv /\ [TrackingNext]_trackingVars => TrackingInv'
<1> SUFFICES ASSUME TrackingInv, [TrackingNext]_trackingVars PROVE TrackingInv'  OBVIOUS
<1>1. TrackingTypeOK'  BY TypeStep DEF TrackingInv
<1>2. CASE TrackingNext
  <2>1. (\A r \in Requests : RequestOK(r))' /\ StoredWasMailed'
    BY <1>1, <1>2, RequestStep DEF TrackingInv
  <2>2. ~overlapped' => InTurn'  BY <1>1, <1>2, TurnStep DEF TrackingInv
  <2> QED  BY <1>1, <2>1, <2>2 DEF TrackingInv
<1>3. CASE UNCHANGED trackingVars
  BY <1>3
        DEF trackingVars, rowVars, updateVars, requestVars, TrackingInv, TrackingTypeOK, RequestOK,
       StoredWasMailed, InTurn, Fetched, Behind, Replaced, Storing
<1> QED  BY <1>2, <1>3

\* The inductive invariant. That Prodigi does not come back to a signature
\* (TrackingAssumption) is what makes the comparison with the last one enough.
THEOREM TrackingSafe == TrackingSpec => []TrackingInv
BY TrackingStarts, TrackingSteps, PTL DEF TrackingSpec

\* Order row, mails and requests of the tracking keep their types.
THEOREM TrackingTyped == TrackingSpec => []TrackingTypeOK
<1>1. TrackingInv => TrackingTypeOK  BY DEF TrackingInv
<1> QED  BY <1>1, TrackingSafe, PTL

\* A stored signature stands for a mail that went out, although requests overlap,
\* fail at any step and work on old copies.
THEOREM StoredAreMailed == TrackingSpec => []StoredWasMailed
<1>1. TrackingInv => StoredWasMailed  BY DEF TrackingInv
<1> QED  BY <1>1, TrackingSafe, PTL

\* While requests do not overlap, an update is mailed once, whatever fails, unless
\* a mail went out and could not be stored.
THEOREM MailedOncePerUpdate == TrackingSpec => []OnceWhenSequential
<1>1. TrackingInv => OnceWhenSequential  BY DEF TrackingInv, InTurn, OnceWhenSequential
<1> QED  BY <1>1, TrackingSafe, PTL
=============================================================================
