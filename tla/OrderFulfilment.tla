-------------------------- MODULE OrderFulfilment ---------------------------
(***************************************************************************)
(* StripeWebhookView.post for payment_intent.succeeded, statement by       *)
(* statement where other requests can come in between: the event ledger,   *)
(* the order, the discount redemption, the confirmation mail and the       *)
(* submission of prints to Prodigi.  Workers are web requests; they share  *)
(* nothing but the database and may stop at any step.  Stripe (delivery,   *)
(* acknowledgement) and Prodigi (acceptance, idempotency key, production   *)
(* stage) are external and modelled from what the code expects of them.    *)
(***************************************************************************)
EXTENDS Naturals, FiniteSets

CONSTANTS
  Workers,
  Events,         \* Stripe event ids
  Payments,       \* captured PaymentIntents, one checkout attempt each
  PaymentOf,      \* the PaymentIntent an event is about
  Matching,       \* payments that agree with their attempt (id, amount, prices)
  Physical,       \* payments whose cart has prints
  Digital,        \* payments whose cart has downloads
  Savers,         \* payments whose attempt asked to save the address
  Slots,          \* (normalized e-mail, code) pairs of one-time discounts
  SlotOf,
  NoDiscount,
  Nobody,
  NoEvent,
  StaleAfter,     \* STRIPE_WEBHOOK_STALE_PROCESSING_SECONDS, in ticks
  Lease,          \* PRODIGI_SUBMISSION_LEASE_SECONDS, in ticks
  RedeliveryGap,  \* the least time between two deliveries of an event
  Prompt,         \* TRUE: a request ends (or dies) within one tick
  MaxCrashes,     \* bound on requests that die
  MaxErrors       \* bound on database errors and unclear SMTP answers

ASSUME OrderAssumption ==
  /\ PaymentOf \in [Events -> Payments]
  /\ Matching \subseteq Payments /\ Physical \subseteq Payments
  /\ Digital \subseteq Payments /\ Savers \subseteq Payments
  /\ SlotOf \in [Payments -> Slots \union {NoDiscount}]
  /\ NoDiscount \notin Slots /\ Nobody \notin Payments /\ NoEvent \notin Events
  /\ StaleAfter \in Nat /\ Lease \in Nat /\ RedeliveryGap \in Nat
  /\ MaxCrashes \in Nat /\ MaxErrors \in Nat /\ Prompt \in BOOLEAN

VARIABLES
  ledger,         \* StripeWebhookEvent.status; "absent" before the row exists
  eventAge,       \* now - received_at, saturating at StaleAfter
  sinceDelivery,  \* time since Stripe last delivered, saturating at RedeliveryGap
  acked,          \* events Stripe has a 2xx answer for
  ordered,        \* payments with an Order row
  held,           \* those with a fulfilment_hold_reason
  redeemer,       \* whose order the DiscountRedemption row of a slot names
  address,        \* the payment whose address is the buyer's default address
  mailStatus,     \* Order.confirmation_email_status
  mails,          \* mails a customer got; 2 is "several"
  unmarked,       \* payments whose mail went out but could not be marked SENT
  prodigi,        \* external: production stage of the Prodigi order, if any
  prodigiId,      \* payments whose order has a prodigi_order_id
  prodigiStatus,  \* Order.prodigi_status, "" for NULL
  leaseAge,       \* now - prodigi_submission_started_at, saturating at Lease
  pc, job,        \* where a worker is, and the event it processes
  mem,            \* the worker's copy of the order's Prodigi fields
  result,         \* processing_error: "ok", "final" or "retry" (500 to Stripe)
  crashes, errors

ledgerVars  == <<ledger, eventAge, sinceDelivery, acked>>
orderVars   == <<ordered, held, redeemer, address>>
mailVars    == <<mailStatus, mails, unmarked>>
prodigiVars == <<prodigi, prodigiId, prodigiStatus, leaseAge>>
workerVars  == <<pc, job, mem, result>>
faults      == <<crashes, errors>>
vars == <<ledgerVars, orderVars, mailVars, prodigiVars, workerVars, faults>>

NoLease == Lease + 1      \* prodigi_submission_started_at is NULL
Stages  == {"InProgress", "Complete"}
EarlyLabels == {"verify", "lookup", "validate", "create", "redeem", "hold",
                "claimMail"}
MailLabels == {"sendMail", "markSent", "markFailed"}
PrintLabels == {"refresh", "claim", "submit", "recordId", "sync", "reload",
                "settle"}
Labels == {"idle", "failed", "finish"} \union EarlyLabels \union MailLabels
            \union PrintLabels
BlankMem == [status |-> "", id |-> FALSE]

PrintStatuses == {"", "SUBMITTING", "SUBMITTED", "FULFILMENT_FAILED"}
                   \union Stages
Copies == [status : PrintStatuses, id : BOOLEAN]
Verdicts == {"ok", "final", "retry"}

LedgerOK ==
  /\ ledger \in [Events -> {"absent", "PROCESSING", "FAILED", "SUCCESS"}]
  /\ eventAge \in [Events -> 0..StaleAfter]
  /\ sinceDelivery \in [Events -> 0..RedeliveryGap]
  /\ acked \subseteq Events

OrderOK ==
  /\ ordered \subseteq Payments
  /\ held \subseteq Payments
  /\ redeemer \in [Slots -> Payments \union {Nobody}]
  /\ address \in Payments \union {Nobody}

MailOK ==
  /\ mailStatus \in [Payments -> {"PENDING", "SENDING", "SENT", "FAILED"}]
  /\ mails \in [Payments -> 0..2]
  /\ unmarked \subseteq Payments

PrintOK ==
  /\ prodigi \in [Payments -> {"none"} \union Stages]
  /\ prodigiId \subseteq Payments
  /\ prodigiStatus \in [Payments -> PrintStatuses]
  /\ leaseAge \in [Payments -> 0..NoLease]

\* A busy worker has an event; an idle one has no copy of an order.
WorkerOK ==
  /\ pc \in [Workers -> Labels]
  /\ job \in [Workers -> Events \union {NoEvent}]
  /\ mem \in [Workers -> Copies]
  /\ result \in [Workers -> Verdicts]
  /\ \A w \in Workers : pc[w] # "idle" => job[w] \in Events
  /\ \A w \in Workers : pc[w] = "idle" => mem[w] = BlankMem
  /\ crashes \in 0..MaxCrashes /\ errors \in 0..MaxErrors

\* Every variable has a value the database column or the handler can hold.
TypeOK == LedgerOK /\ OrderOK /\ MailOK /\ PrintOK /\ WorkerOK

Init ==
  /\ ledger = [e \in Events |-> "absent"]
  /\ eventAge = [e \in Events |-> 0]
  /\ sinceDelivery = [e \in Events |-> 0]
  /\ acked = {}
  /\ ordered = {} /\ held = {}
  /\ redeemer = [s \in Slots |-> Nobody]
  /\ address = Nobody
  /\ mailStatus = [p \in Payments |-> "PENDING"]
  /\ mails = [p \in Payments |-> 0]
  /\ unmarked = {}
  /\ prodigi = [p \in Payments |-> "none"]
  /\ prodigiId = {}
  /\ prodigiStatus = [p \in Payments |-> ""]
  /\ leaseAge = [p \in Payments |-> NoLease]
  /\ pc = [w \in Workers |-> "idle"]
  /\ job = [w \in Workers |-> NoEvent]
  /\ mem = [w \in Workers |-> BlankMem]
  /\ result = [w \in Workers |-> "ok"]
  /\ crashes = 0 /\ errors = 0

P(w) == PaymentOf[job[w]]
Goto(w, label) == pc' = [pc EXCEPT ![w] = label]
At(w, label) == pc[w] = label
Stored(p) == [status |-> prodigiStatus[p], id |-> p \in prodigiId]

-----------------------------------------------------------------------------
(* The event ledger, decided in one locked transaction. *)

\* Stripe delivers an event to an idle worker, again and again until it has a
\* 2xx answer, and operators may resend any event from the dashboard.
Delivered(w, e) ==
  /\ At(w, "idle")
  /\ ledger[e] = "absent" \/ sinceDelivery[e] >= RedeliveryGap
  /\ sinceDelivery' = [sinceDelivery EXCEPT ![e] = 0]

Accept(w, e) ==
  /\ Goto(w, "verify")
  /\ job' = [job EXCEPT ![w] = e]
  /\ UNCHANGED <<acked, orderVars, mailVars, prodigiVars, mem, result, faults>>

ReceiveNew(w, e) ==
  /\ ledger[e] = "absent"
  /\ Delivered(w, e)
  /\ ledger' = [ledger EXCEPT ![e] = "PROCESSING"]
  /\ eventAge' = [eventAge EXCEPT ![e] = 0]
  /\ Accept(w, e)

\* The row keeps its first received_at.
RetryFailed(w, e) ==
  /\ ledger[e] = "FAILED"
  /\ Delivered(w, e)
  /\ ledger' = [ledger EXCEPT ![e] = "PROCESSING"]
  /\ UNCHANGED eventAge
  /\ Accept(w, e)

IsStale(e) == ledger[e] = "PROCESSING" /\ eventAge[e] >= StaleAfter

TakeOverStale(w, e) ==
  /\ IsStale(e)
  /\ Delivered(w, e)
  /\ UNCHANGED <<ledger, eventAge>>
  /\ Accept(w, e)

\* Done, or being processed by someone else: answered 200 without processing.
SkipDelivered(w, e) ==
  /\ ledger[e] \in {"SUCCESS", "PROCESSING"} /\ ~IsStale(e)
  /\ Delivered(w, e)
  /\ acked' = acked \union {e}
  /\ UNCHANGED <<ledger, eventAge, orderVars, mailVars, prodigiVars,
                 workerVars, faults>>

Receive(w, e) ==
  \/ ReceiveNew(w, e)
  \/ RetryFailed(w, e)
  \/ TakeOverStale(w, e)
  \/ SkipDelivered(w, e)

-----------------------------------------------------------------------------
(* From the verified payment to one order. *)

Give(w, verdict) ==
  /\ result' = [result EXCEPT ![w] = verdict]
  /\ Goto(w, "finish")
  /\ UNCHANGED <<job, mem>>

\* Attempt, amount, currency and price snapshot; then the profile's address.
VerifyPayment(w) ==
  /\ At(w, "verify")
  /\ IF P(w) \in Matching
     THEN /\ address' = IF P(w) \in Savers THEN P(w) ELSE address
          /\ Goto(w, "lookup")
          /\ UNCHANGED <<job, mem, result>>
     ELSE Give(w, "retry") /\ UNCHANGED address
  /\ UNCHANGED <<ledgerVars, ordered, held, redeemer, mailVars, prodigiVars,
                 faults>>

LookupOrder(w) ==
  /\ At(w, "lookup")
  /\ IF P(w) \in ordered
     THEN /\ mem' = [mem EXCEPT ![w] = Stored(P(w))]
          /\ Goto(w, "redeem")
     ELSE Goto(w, "validate") /\ UNCHANGED mem
  /\ UNCHANGED <<ledgerVars, orderVars, mailVars, prodigiVars, job, result,
                 faults>>

\* serializer.is_valid(): the uniqueness validators see an order saved since
\* the lookup, and a download's file may be missing or its storage down.
ValidateOrder(w) ==
  /\ At(w, "validate")
  /\ \/ /\ P(w) \notin ordered
        /\ Goto(w, "create")
        /\ UNCHANGED <<job, mem, result>>
     \/ /\ P(w) \in ordered \union Digital
        /\ Give(w, "final")
  /\ UNCHANGED <<ledgerVars, orderVars, mailVars, prodigiVars, faults>>

\* serializer.save(); on an IntegrityError the winner's order is used instead.
CreateOrder(w) ==
  /\ At(w, "create")
  /\ ordered' = ordered \union {P(w)}
  /\ mem' = [mem EXCEPT ![w] = Stored(P(w))]
  /\ Goto(w, "redeem")
  /\ UNCHANGED <<ledgerVars, held, redeemer, address, mailVars, prodigiVars,
                 job, result, faults>>

\* Faulty: the conflict of record_discount_redemption is not raised.
RedeemWithoutConflict(w) ==
  /\ At(w, "redeem")
  /\ Goto(w, "claimMail")
  /\ redeemer' = LET s == SlotOf[P(w)] IN
       IF s # NoDiscount /\ redeemer[s] = Nobody
       THEN [redeemer EXCEPT ![s] = P(w)] ELSE redeemer
  /\ UNCHANGED <<ledgerVars, ordered, held, address, mailVars, prodigiVars,
                 job, mem, result, faults>>

\* Faulty: the redemption is looked up but never stored.
RedeemWithoutRow(w) ==
  /\ At(w, "redeem")
  /\ Goto(w, "claimMail")
  /\ UNCHANGED <<ledgerVars, orderVars, mailVars, prodigiVars, job, mem, result,
                 faults>>

RedeemDiscount(w) ==
  /\ At(w, "redeem")
  /\ LET s == SlotOf[P(w)] IN
     IF s = NoDiscount
     THEN Goto(w, "claimMail") /\ UNCHANGED redeemer
     ELSE IF redeemer[s] \in {Nobody, P(w)}
     THEN /\ redeemer' = [redeemer EXCEPT ![s] = P(w)]
          /\ Goto(w, "claimMail")
     ELSE Goto(w, "hold") /\ UNCHANGED redeemer
  /\ UNCHANGED <<ledgerVars, ordered, held, address, mailVars, prodigiVars,
                 job, mem, result, faults>>

HoldOrder(w) ==
  /\ At(w, "hold")
  /\ held' = held \union {P(w)}
  /\ Give(w, "final")
  /\ UNCHANGED <<ledgerVars, ordered, redeemer, address, mailVars,
                 prodigiVars, faults>>

-----------------------------------------------------------------------------
(* The confirmation mail. *)

AfterMail(w) == IF P(w) \in Physical THEN "refresh" ELSE "finish"

\* Faulty: only SENT mails are excluded from the claim.
ClaimUnsentMail(w) ==
  /\ At(w, "claimMail")
  /\ IF mailStatus[P(w)] = "SENT"
     THEN Goto(w, AfterMail(w)) /\ UNCHANGED mailStatus
     ELSE /\ mailStatus' = [mailStatus EXCEPT ![P(w)] = "SENDING"]
          /\ Goto(w, "sendMail")
  /\ UNCHANGED <<ledgerVars, orderVars, mails, unmarked, prodigiVars, job, mem,
                 result, faults>>

ClaimMail(w) ==
  /\ At(w, "claimMail")
  /\ IF mailStatus[P(w)] \in {"SENDING", "SENT"}
     THEN Goto(w, AfterMail(w)) /\ UNCHANGED mailStatus
     ELSE /\ mailStatus' = [mailStatus EXCEPT ![P(w)] = "SENDING"]
          /\ Goto(w, "sendMail")
  /\ UNCHANGED <<ledgerVars, orderVars, mails, unmarked, prodigiVars, job, mem,
                 result, faults>>

\* The mail goes out, fails, or fails after the server took it.
SendMail(w) ==
  /\ At(w, "sendMail")
  /\ \/ /\ mails' = [mails EXCEPT ![P(w)] = IF @ = 0 THEN 1 ELSE 2]
        /\ \/ Goto(w, "markSent") /\ UNCHANGED <<unmarked, faults>>
           \/ /\ errors < MaxErrors
              /\ errors' = errors + 1 /\ UNCHANGED crashes
              /\ unmarked' = unmarked \union {P(w)}
              /\ Goto(w, "markFailed")
     \/ Goto(w, "markFailed") /\ UNCHANGED <<mails, unmarked, faults>>
  /\ UNCHANGED <<ledgerVars, orderVars, mailStatus, prodigiVars, job, mem,
                 result>>

\* Faulty: a failed mail gets a status that is none of the model's choices.
MarkMailUnknown(w) ==
  /\ pc[w] \in {"markSent", "markFailed"}
  /\ mailStatus' = [mailStatus EXCEPT ![P(w)] =
                      IF At(w, "markSent") THEN "SENT" ELSE "ERROR"]
  /\ Goto(w, AfterMail(w))
  /\ UNCHANGED <<ledgerVars, orderVars, mails, unmarked, prodigiVars, job, mem,
                 result, faults>>

MarkMail(w) ==
  /\ pc[w] \in {"markSent", "markFailed"}
  /\ mailStatus' = [mailStatus EXCEPT ![P(w)] =
                      IF At(w, "markSent") THEN "SENT" ELSE "FAILED"]
  /\ Goto(w, AfterMail(w))
  /\ UNCHANGED <<ledgerVars, orderVars, mails, unmarked, prodigiVars, job, mem,
                 result, faults>>

-----------------------------------------------------------------------------
(* The submission of prints. *)

\* An order that already has a Prodigi id only loses its lease.
RefreshOrder(w) ==
  /\ At(w, "refresh")
  /\ mem' = [mem EXCEPT ![w] = Stored(P(w))]
  /\ IF P(w) \in prodigiId
     THEN Goto(w, "finish") /\ leaseAge' = [leaseAge EXCEPT ![P(w)] = NoLease]
     ELSE Goto(w, "claim") /\ UNCHANGED leaseAge
  /\ UNCHANGED <<ledgerVars, orderVars, mailVars, prodigi, prodigiId,
                 prodigiStatus, job, result, faults>>

\* Faulty: a submission in progress can be claimed whatever its lease.
ClaimableEarly(p) == p \notin prodigiId /\ prodigiStatus[p] # "SUBMITTED"

Claimable(p) ==
  /\ p \notin prodigiId
  /\ \/ prodigiStatus[p] \notin {"SUBMITTING", "SUBMITTED"}
     \/ prodigiStatus[p] = "SUBMITTING" /\ leaseAge[p] >= Lease

\* A worker that does not get the lease is done: its event ends in SUCCESS.
ClaimSubmission(w) ==
  /\ At(w, "claim")
  /\ IF Claimable(P(w))
     THEN /\ prodigiStatus' = [prodigiStatus EXCEPT ![P(w)] = "SUBMITTING"]
          /\ leaseAge' = [leaseAge EXCEPT ![P(w)] = 0]
          /\ mem' = [mem EXCEPT ![w].status = "SUBMITTING"]
          /\ Goto(w, "submit")
     ELSE Goto(w, "finish") /\ UNCHANGED <<prodigiStatus, leaseAge, mem>>
  /\ UNCHANGED <<ledgerVars, orderVars, mailVars, prodigi, prodigiId, job,
                 result, faults>>

\* Prodigi keeps one order per idempotency key, which is the order number.
ProdigiAccepts(p) ==
  prodigi' = [prodigi EXCEPT ![p] = IF @ = "none" THEN "InProgress" ELSE @]

\* The answer carries the Prodigi order, or (reload) no order at all.
SubmitAccepted(w) ==
  /\ At(w, "submit")
  /\ ProdigiAccepts(P(w))
  /\ \/ /\ mem' = [mem EXCEPT ![w].id = TRUE]
        /\ Goto(w, "recordId")
     \/ UNCHANGED mem /\ Goto(w, "reload")
  /\ UNCHANGED <<ledgerVars, orderVars, mailVars, prodigiId, prodigiStatus,
                 leaseAge, job, result, faults>>

\* Rejected, unpreparable or unreachable; or accepted with the answer lost.
SubmitRaises(w) ==
  /\ At(w, "submit")
  /\ ProdigiAccepts(P(w)) \/ UNCHANGED prodigi
  /\ Goto(w, "failed")
  /\ UNCHANGED <<ledgerVars, orderVars, mailVars, prodigiId, prodigiStatus,
                 leaseAge, job, mem, result, faults>>

RecordProdigiId(w) ==
  /\ At(w, "recordId")
  /\ prodigiId' = prodigiId \union {P(w)}
  /\ Goto(w, "sync")
  /\ UNCHANGED <<ledgerVars, orderVars, mailVars, prodigi, prodigiStatus,
                 leaseAge, job, mem, result, faults>>

\* A stage of the Prodigi order that some answer of Prodigi may still show.
Seen(p) == IF prodigi[p] = "none" THEN {} ELSE {"InProgress", prodigi[p]}

\* Stores the stage of the answer.  Storing it or the shipping mail may raise.
SyncShipping(w) ==
  /\ At(w, "sync")
  /\ \E s \in Seen(P(w)) :
       /\ mem' = [mem EXCEPT ![w].status = s]
       /\ \/ /\ prodigiStatus' = [prodigiStatus EXCEPT ![P(w)] = s]
             /\ Goto(w, "reload") \/ Goto(w, "failed")
          \/ UNCHANGED prodigiStatus /\ Goto(w, "failed")
  /\ UNCHANGED <<ledgerVars, orderVars, mailVars, prodigi, prodigiId, leaseAge,
                 job, result, faults>>

ReloadOrder(w) ==
  /\ At(w, "reload")
  /\ mem' = [mem EXCEPT ![w] = Stored(P(w))]
  /\ Goto(w, "settle")
  /\ UNCHANGED <<ledgerVars, orderVars, mailVars, prodigiVars, job, result,
                 faults>>

\* Written from the worker's copy, whoever holds the lease by now.
SettleSubmission(w) ==
  /\ At(w, "settle")
  /\ prodigiStatus' = [prodigiStatus EXCEPT ![P(w)] =
       IF ~mem[w].id /\ mem[w].status = "SUBMITTING" THEN "SUBMITTED"
       ELSE mem[w].status]
  /\ leaseAge' = [leaseAge EXCEPT ![P(w)] = NoLease]
  /\ Goto(w, "finish")
  /\ UNCHANGED <<ledgerVars, orderVars, mailVars, prodigi, prodigiId, job, mem,
                 result, faults>>

\* Faulty variants of the exception handler below: an order without a Prodigi
\* id is shown as submitted; the id is always written back; Stripe gets a 200.
FailAsSubmitted(w) ==
  /\ At(w, "failed")
  /\ prodigiStatus' = [prodigiStatus EXCEPT ![P(w)] = "SUBMITTED"]
  /\ prodigiId' = IF mem[w].id THEN prodigiId \union {P(w)} ELSE prodigiId
  /\ leaseAge' = [leaseAge EXCEPT ![P(w)] = NoLease]
  /\ Give(w, "retry")
  /\ UNCHANGED <<ledgerVars, orderVars, mailVars, prodigi, faults>>

FailErasingId(w) ==
  /\ At(w, "failed")
  /\ prodigiStatus' = [prodigiStatus EXCEPT ![P(w)] = "FULFILMENT_FAILED"]
  /\ prodigiId' = (prodigiId \ {P(w)}) \union (IF mem[w].id THEN {P(w)} ELSE {})
  /\ leaseAge' = [leaseAge EXCEPT ![P(w)] = NoLease]
  /\ Give(w, "retry")
  /\ UNCHANGED <<ledgerVars, orderVars, mailVars, prodigi, faults>>

FailAcknowledged(w) ==
  /\ At(w, "failed")
  /\ prodigiStatus' = [prodigiStatus EXCEPT ![P(w)] = "FULFILMENT_FAILED"]
  /\ leaseAge' = [leaseAge EXCEPT ![P(w)] = NoLease]
  /\ Give(w, "final")
  /\ UNCHANGED <<ledgerVars, orderVars, mailVars, prodigi, prodigiId, faults>>

\* The exception handler: the order row, then an alert, then a 500.
FailSubmission(w) ==
  /\ At(w, "failed")
  /\ prodigiStatus' = [prodigiStatus EXCEPT ![P(w)] =
       IF ~mem[w].id THEN "FULFILMENT_FAILED"
       ELSE IF mem[w].status \in Stages \union {"SUBMITTED"} THEN mem[w].status
       ELSE "SUBMITTED"]
  /\ prodigiId' = IF mem[w].id THEN prodigiId \union {P(w)} ELSE prodigiId
  /\ leaseAge' = [leaseAge EXCEPT ![P(w)] = NoLease]
  /\ Give(w, "retry")
  /\ UNCHANGED <<ledgerVars, orderVars, mailVars, prodigi, faults>>

-----------------------------------------------------------------------------
(* The end of a request. *)

Leave(w) ==
  /\ pc' = [pc EXCEPT ![w] = "idle"]
  /\ job' = [job EXCEPT ![w] = NoEvent]
  /\ mem' = [mem EXCEPT ![w] = BlankMem]
  /\ result' = [result EXCEPT ![w] = "ok"]

\* The finally block and the answer, which Stripe may no longer wait for.
FinishEvent(w) ==
  /\ At(w, "finish")
  /\ ledger' = [ledger EXCEPT ![job[w]] =
                  IF result[w] = "ok" THEN "SUCCESS" ELSE "FAILED"]
  /\ acked' \in {acked} \union
                (IF result[w] = "retry" THEN {} ELSE {acked \union {job[w]}})
  /\ Leave(w)
  /\ UNCHANGED <<eventAge, sinceDelivery, orderVars, mailVars, prodigiVars,
                 faults>>

\* The process dies, or the finally block's own update fails: nothing is
\* written and Stripe gets no 2xx.
Crash(w) ==
  /\ ~At(w, "idle")
  /\ crashes < MaxCrashes
  /\ crashes' = crashes + 1
  /\ Leave(w)
  /\ UNCHANGED <<ledgerVars, orderVars, mailVars, prodigiVars, errors>>

\* A database statement raises: outside the mail and print blocks, and while a
\* failed mail is marked, the event fails and Stripe is asked to retry; a mail
\* that cannot be marked SENT is marked FAILED; the print block's handler runs,
\* and its own failure to save is only logged.
DatabaseError(w) ==
  /\ errors < MaxErrors
  /\ errors' = errors + 1
  /\ \/ /\ pc[w] \in EarlyLabels \union {"markFailed", "failed"}
        /\ Give(w, "retry")
        /\ UNCHANGED unmarked
     \/ /\ At(w, "markSent")
        /\ unmarked' = unmarked \union {P(w)}
        /\ Goto(w, "markFailed")
        /\ UNCHANGED <<job, mem, result>>
     \/ /\ pc[w] \in PrintLabels \ {"submit", "sync"}
        /\ Goto(w, "failed")
        /\ UNCHANGED <<job, mem, result, unmarked>>
  /\ UNCHANGED <<ledgerVars, orderVars, mailStatus, mails, prodigiVars,
                 crashes>>

-----------------------------------------------------------------------------
(* Prodigi and time. *)

ProdigiCompletes(p) ==
  /\ prodigi[p] = "InProgress"
  /\ prodigi' = [prodigi EXCEPT ![p] = "Complete"]
  /\ UNCHANGED <<ledgerVars, orderVars, mailVars, prodigiId, prodigiStatus,
                 leaseAge, workerVars, faults>>

\* ProdigiCallbackView: the order is found by Prodigi id or by its own number,
\* and takes the id and a stage fetched before the row was locked.
ProdigiCallback(p) ==
  /\ p \in ordered
  /\ \E s \in Seen(p) : prodigiStatus' = [prodigiStatus EXCEPT ![p] = s]
  /\ prodigiId' = prodigiId \union {p}
  /\ UNCHANGED <<ledgerVars, orderVars, mailVars, prodigi, leaseAge,
                 workerVars, faults>>

Older(age, limit) == IF age < limit THEN age + 1 ELSE age

Tick ==
  /\ Prompt => \A w \in Workers : At(w, "idle")
  /\ eventAge' = [e \in Events |-> IF ledger[e] = "absent" THEN 0
                                   ELSE Older(eventAge[e], StaleAfter)]
  /\ sinceDelivery' = [e \in Events |-> IF ledger[e] = "absent" THEN 0
                                 ELSE Older(sinceDelivery[e], RedeliveryGap)]
  /\ leaseAge' = [p \in Payments |-> Older(leaseAge[p], Lease)]
  /\ UNCHANGED <<ledger, acked, orderVars, mailVars, prodigi, prodigiId,
                 prodigiStatus, workerVars, faults>>

Proceed(w) ==
  \/ VerifyPayment(w) \/ LookupOrder(w) \/ ValidateOrder(w) \/ CreateOrder(w)
  \/ RedeemDiscount(w) \/ HoldOrder(w)
  \/ ClaimMail(w) \/ SendMail(w) \/ MarkMail(w)
  \/ RefreshOrder(w) \/ ClaimSubmission(w) \/ SubmitAccepted(w)
  \/ SubmitRaises(w) \/ RecordProdigiId(w) \/ SyncShipping(w)
  \/ ReloadOrder(w) \/ SettleSubmission(w) \/ FailSubmission(w)
  \/ FinishEvent(w)

Next ==
  \/ \E w \in Workers, e \in Events : Receive(w, e)
  \/ \E w \in Workers : Proceed(w) \/ Crash(w) \/ DatabaseError(w)
  \/ \E p \in Payments : ProdigiCompletes(p) \/ ProdigiCallback(p)
  \/ Tick

Spec == Init /\ [][Next]_vars

-----------------------------------------------------------------------------
(* What the handler must never do. *)

\* A payment's order has left the shop: a mail was claimed or sent, or prints
\* were claimed or accepted.
Out(p) ==
  \/ mailStatus[p] # "PENDING" \/ mails[p] > 0
  \/ prodigiStatus[p] # "" \/ prodigi[p] # "none"

\* Of the paid orders that used the same one-time discount of the same customer,
\* at most one is ever confirmed or printed, however their webhooks interleave,
\* fail and are retried; an order put on hold is neither.
DiscountReleasesOneOrder ==
  /\ \A p, q \in Payments :
       SlotOf[p] = SlotOf[q] /\ SlotOf[p] # NoDiscount /\ Out(p) /\ Out(q)
         => p = q
  /\ \A p \in held : ~Out(p)

\* The SENDING claim lets one confirmation mail out per order; a second one is
\* possible only after a mail went out that could not be marked as sent.
MailOnce == \A p \in Payments : p \notin unmarked => mails[p] <= 1

\* An order shown as submitted, in production or complete, or that carries a
\* Prodigi id, is an order Prodigi accepted.
SubmittedWasAccepted ==
  \A p \in Payments :
    p \in prodigiId \/ prodigiStatus[p] \in {"SUBMITTED"} \union Stages
      => prodigi[p] # "none"

Submitting(w) == pc[w] \in PrintLabels \ {"refresh", "claim"}

\* The submission lease: no two live requests are inside the submission of the
\* same order.
OneSubmitter ==
  \A v, w \in Workers :
    Submitting(v) /\ Submitting(w) /\ P(v) = P(w) => v = w

\* A Prodigi id, once known, is never erased by a worker that read the order
\* before a callback or another worker stored it.
ProdigiIdKept == [][prodigiId \subseteq prodigiId']_vars

\* An event Stripe was told not to send again, and that nobody is processing,
\* has left an order behind.
AcknowledgedIsRecorded ==
  \A e \in acked :
    \/ \E w \in Workers : job[w] = e
    \/ PaymentOf[e] \in ordered

\* The handler implements the promise in PaidOrder.
Promise == INSTANCE PaidOrder WITH
  recorded <- ordered, doubtful <- unmarked,
  printing <- {p \in Payments : prodigi[p] # "none"}

KeepsPromise == Promise!Spec

-----------------------------------------------------------------------------
(* Recovery.  Requests that run go on (or crash); Stripe sends an event again
   until it has a 2xx answer; time passes; Prodigi does not refuse an order
   for ever. *)

Redeliver(e) == e \notin acked /\ \E w \in Workers : Receive(w, e)

Fairness ==
  /\ \A w \in Workers : WF_vars(Proceed(w)) /\ SF_vars(SubmitAccepted(w))
  /\ \A e \in Events : WF_vars(Redeliver(e))
  /\ WF_vars(Tick)

FairSpec == Spec /\ Fairness

\* Every captured payment ends as a recorded order, its prints accepted, its
\* event acknowledged and in SUCCESS.
EveryPaymentFulfilled ==
  \A e \in Events : <>[] LET p == PaymentOf[e] IN
    /\ ledger[e] = "SUCCESS" /\ e \in acked
    /\ p \in ordered
    /\ p \in Physical => prodigi[p] # "none"
=============================================================================
