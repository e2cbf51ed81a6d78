-------------------------- MODULE LicenceDelivery ---------------------------
(***************************************************************************)
(* One rights-managed licence request: staff negotiate its scope and       *)
(* price, freeze what the client confirmed, issue offers with a Stripe     *)
(* Payment Link each and mail the text that an AI worker drafted; Stripe   *)
(* reports a paid link and the webhook delivers, each statement in a       *)
(* transaction of its own; the client downloads through a one-time token.  *)
(* Every staff action reads its row once and writes it later.  A link that *)
(* was mailed stays payable whatever becomes of its offer.                 *)
(***************************************************************************)
EXTENDS Naturals, FiniteSets

CONSTANTS
  Terms,          \* scopes, each with its price
  FirstTerms,     \* what the client asked for
  MaxVersion,     \* bound on the offers of the request
  Handlers,       \* webhook requests that run at the same time
  MaxTokens,      \* bound on the LicenceDeliveryToken rows
  FormStatuses,   \* what staff set the status to in the change form
  MaxFaults,      \* bound on webhook requests that fail or die
  None

Version == 1..MaxVersion
Tokens == 1..MaxTokens

VARIABLES
  request,        \* LicenseRequest row
  offers,         \* LicenceOffer rows, by version
  staff,          \* the staff action in progress, with the row it read
  drafting,       \* version of the offer the AI worker is writing about
  linksSent,      \* offers whose link a payment mail contained
  captured,       \* external: offers whose link was paid
  done,           \* those whose event is recorded as SUCCESS
  handlers,       \* runs of _handle_license_payment
  documents,      \* types of the LicenceDocument rows
  tokens,         \* LicenceDeliveryToken rows
  mails,          \* delivery mails that left
  rival,          \* a later request of this client for the asset
  faults

deliveryVars == <<documents, tokens, mails>>
eventVars == <<captured, done, handlers, faults>>
vars == <<request, offers, staff, drafting, linksSent, eventVars, deliveryVars, rival>>

\* APPROVED also stands for SUBMITTED and NEEDS_INFO, REVOKED for EXPIRED; in
\* AWAITING the negotiation mail was sent.  An offer is LAPSED when its row is ACTIVE and it has expired.
Inactive == {"REJECTED", "REVOKED"}
Status == {"APPROVED", "AWAITING", "PENDING", "PAID", "DELIVERED"} \union Inactive
DocTypes == {"SCHEDULE", "CERTIFICATE"}
Row == [status : Status, terms : Terms, snapshot : Terms \union {None},
        confirmed : BOOLEAN, payDraft : Version \union {None}, delivered : BOOLEAN]
Offer == [status : {"ACTIVE", "LAPSED", "SUPERSEDED", "PAID"}, terms : Terms]
QuickActs == {"confirm", "reset", "payment draft", "APPROVED", "REJECTED",
              "form"}
SlowActs == {"negotiate", "generate", "regenerate", "send payment"}
Run == [offer : Version, status : Status, fresh : BOOLEAN,
        step : {"offer", "paid", "issue", "mail", "deliver"}]

ASSUME LicenceAssumption ==
  /\ MaxVersion \in Nat \ {0} /\ MaxTokens \in Nat /\ MaxFaults \in Nat
  /\ FirstTerms \in Terms /\ FormStatuses \subseteq Status
  /\ None \notin Terms \union Nat \union [act : SlowActs, row : Row] \union Offer \union Run

\* Every row, run and action has values that can occur.
TypeOK ==
  /\ request \in Row /\ offers \in [Version -> Offer \union {None}]
  /\ staff \in [act : SlowActs, row : Row] \union {None}
  /\ drafting \in Version \union {None}
  /\ linksSent \subseteq Version /\ captured \subseteq linksSent /\ done \subseteq captured
  /\ handlers \in [Handlers -> Run \union {None}]
  /\ documents \subseteq DocTypes
  /\ tokens \in [Tokens -> {"none", "live", "spent"}]
  /\ mails \in Nat /\ rival \in BOOLEAN /\ faults \in 0..MaxFaults

Init ==
  /\ request =
       [status |-> "APPROVED", terms |-> FirstTerms, snapshot |-> None,
        confirmed |-> FALSE, payDraft |-> None, delivered |-> FALSE]
  /\ offers = [v \in Version |-> None] /\ staff = None /\ drafting = None
  /\ linksSent = {} /\ captured = {} /\ done = {} /\ documents = {}
  /\ handlers = [h \in Handlers |-> None]
  /\ tokens = [t \in Tokens |-> "none"] /\ mails = 0
  /\ rival = FALSE /\ faults = 0

-----------------------------------------------------------------------------
(* Offers *)

Issued == {v \in Version : offers[v] # None}
Active == {v \in Issued : offers[v].status \in {"ACTIVE", "LAPSED"}}

\* get_current_offer: the ACTIVE offer with the highest version, unless expired
Current == {v \in Active : (\A u \in Active : u <= v) /\ offers[v].status = "ACTIVE"}

\* Faulty: only offers that have not expired are superseded.
SupersedingCurrent(rows) ==
  [v \in Version |-> IF v \in Current THEN [rows[v] EXCEPT !.status = "SUPERSEDED"]
                                      ELSE rows[v]]

\* _supersede_active_offers
Superseding(rows) ==
  [v \in Version |-> IF v \in Active THEN [rows[v] EXCEPT !.status = "SUPERSEDED"]
                                     ELSE rows[v]]

Expire(v) ==
  /\ v \in Issued /\ offers[v].status = "ACTIVE"
  /\ offers' = [offers EXCEPT ![v].status = "LAPSED"]
  /\ UNCHANGED <<request, staff, drafting, linksSent, eventVars, deliveryVars, rival>>

-----------------------------------------------------------------------------
(* Staff *)

Locked(row) == row.status \in {"PAID", "DELIVERED", "REVOKED"}

\* No other active request of the client stands in the way of this status.
Storable(status) ==
  status \in Inactive \/ request.status \notin Inactive \/ ~rival

Negotiable(row) ==
  ~Locked(row) /\ row.status # "PENDING" /\ ~row.confirmed /\ Active = {}

Payable(row) ==
  ~Locked(row) /\ (row.confirmed \/ row.status = "PENDING") /\ Current # {}

Sendable(row) == Payable(row) /\ row.payDraft # None

\* Where each admin action does not skip the request.
May(act, row) ==
  CASE act = "negotiate"     -> Negotiable(row)
    [] act = "confirm"       -> row.status = "AWAITING" /\ ~row.confirmed
    [] act = "reset"         -> ~Locked(row) /\ (row.confirmed \/ row.snapshot # None)
    [] act = "generate"      -> ~Locked(row) /\ row.confirmed /\ Issued = {}
    [] act = "regenerate"    -> ~Locked(row) /\ row.confirmed /\ Issued # {}
    [] act = "payment draft" -> Payable(row)
    [] act = "send payment"  -> Sendable(row)
    [] act = "form"          -> TRUE
    [] OTHER                 -> row.status # act

\* LicenseRequestAdminForm.clean: what staff may post for the row they read.
Posted(row) ==
  LET terms == IF Locked(row) \/ row.confirmed THEN {row.terms} ELSE Terms
  IN UNION {{[row EXCEPT !.status = s, !.terms = t] :
               s \in FormStatuses \union {row.status}} : t \in terms}

Agreed(row) == IF row.snapshot = None THEN row.terms ELSE row.snapshot

\* Fields that an action writes; only the change form writes the whole row.
Written(act, row) ==
  CASE act = "negotiate" ->
         [request EXCEPT !.confirmed = FALSE, !.snapshot = None, !.payDraft = None]
    [] act = "confirm" ->
         [request EXCEPT !.confirmed = TRUE,
                         !.snapshot = Agreed(row)]
    [] act = "reset" ->
         [request EXCEPT !.confirmed = FALSE, !.snapshot = None, !.payDraft = None]
    [] act \in {"generate", "regenerate"} ->
         [request EXCEPT !.snapshot = Agreed(row), !.payDraft = None]
    [] act = "payment draft" -> [request EXCEPT !.payDraft = None]
    [] act = "form" -> row
    [] OTHER -> request

\* transition_to: nothing is written when the row that was read has the status.
Moved(act, row) ==
  LET target == CASE act = "negotiate" -> "AWAITING"
                  [] act = "reset" -> "APPROVED"
                  [] act = "send payment" -> "PENDING"
                  [] act \in {"APPROVED", "REJECTED"} -> act
                  [] OTHER -> row.status
  IN IF target = row.status THEN Written(act, row)
                            ELSE [Written(act, row) EXCEPT !.status = target]

\* _issue_new_offer: a new version supersedes the ACTIVE offers.
Issue(row) ==
  LET next == Cardinality(Issued) + 1
  IN /\ next \in Version
     /\ offers' = [Superseding(offers) EXCEPT ![next] =
                     [status |-> "ACTIVE", terms |-> Agreed(row)]]

\* A status that another request forbids fails in the database; the statements
\* before it are committed, those of a change form are not.
Effect(act, row) ==
  LET moved == Moved(act, row)
  IN /\ request' = IF Storable(moved.status) THEN moved
                   ELSE IF act = "form" THEN request ELSE Written(act, row)
     /\ CASE act \in {"generate", "regenerate"} -> Issue(row)
          [] act = "reset" -> offers' = Superseding(offers)
          [] OTHER -> UNCHANGED offers
     /\ linksSent' = IF act = "send payment" THEN linksSent \union {row.payDraft}
                                             ELSE linksSent

\* An action that asks nothing of the outside
DoAction(act) ==
  /\ staff = None /\ May(act, request)
  /\ \E row \in IF act = "form" THEN Posted(request) ELSE {request} : Effect(act, row)
  /\ UNCHANGED <<staff, drafting, eventVars, deliveryVars, rival>>

\* The row is read before Stripe or the mail server answers.
BeginAction(act) ==
  /\ staff = None /\ May(act, request)
  /\ staff' = [act |-> act, row |-> request]
  /\ UNCHANGED <<request, offers, drafting, linksSent, eventVars, deliveryVars, rival>>

FinishAction ==
  /\ staff # None /\ staff' = None /\ Effect(staff.act, staff.row)
  /\ UNCHANGED <<drafting, eventVars, deliveryVars, rival>>

\* The mail server or Stripe refuses before anything was written.
AbandonAction ==
  /\ staff # None /\ staff' = None
  /\ UNCHANGED <<request, offers, drafting, linksSent, eventVars, deliveryVars, rival>>

-----------------------------------------------------------------------------
(* The AI worker and the client *)

\* What the queue and the update both ask of a payment draft
WantsDraft ==
  /\ request.status \in {"AWAITING", "PENDING"} /\ request.payDraft = None
  /\ request.confirmed \/ request.status = "PENDING"
  /\ Current # {}

FetchPaymentDraft ==
  /\ drafting = None /\ WantsDraft
  /\ drafting' \in Current
  /\ UNCHANGED <<request, offers, staff, linksSent, eventVars, deliveryVars, rival>>

\* The update does not say which offer the text is about.
SavePaymentDraft ==
  /\ drafting # None /\ drafting' = None
  /\ request' = IF WantsDraft THEN [request EXCEPT !.payDraft = drafting] ELSE request
  /\ UNCHANGED <<offers, staff, linksSent, eventVars, deliveryVars, rival>>

Pay(v) ==
  /\ v \in linksSent \ captured
  /\ captured' = captured \union {v}
  /\ UNCHANGED <<request, offers, staff, drafting, linksSent, done, handlers, faults,
                 deliveryVars, rival>>

\* LicenseRequestCreateView: the client asks again for the asset of a closed
\* request, and the new request stays active.
Resubmit ==
  /\ ~rival /\ request.status \in Inactive /\ rival' = TRUE
  /\ UNCHANGED <<request, offers, staff, drafting, linksSent, eventVars, deliveryVars>>

\* LicenceAssetDownloadView, under the lock of the token's row
Download(t) ==
  /\ mails > 0 /\ tokens[t] = "live"
  /\ tokens' = [tokens EXCEPT ![t] = "spent"]
  /\ UNCHANGED <<request, offers, staff, drafting, linksSent, eventVars, documents,
                 mails, rival>>

ExpireToken(t) ==
  /\ tokens[t] = "live"
  /\ tokens' = [tokens EXCEPT ![t] = "spent"]
  /\ UNCHANGED <<request, offers, staff, drafting, linksSent, eventVars, documents,
                 mails, rival>>

-----------------------------------------------------------------------------
(* The webhook *)

\* Faulty: an event that was handled is handled again.
Unanswered(v) == v \in captured

Unhandled(v) == v \in captured \ done

Skips(status) == status = "DELIVERED"

\* The event is claimed; the offer and its request are read in one query.
BeginRun(h, v) ==
  /\ handlers[h] = None /\ Unhandled(v)
  /\ \A g \in Handlers : handlers[g] # None => handlers[g].offer # v
  /\ IF Skips(request.status)
     THEN done' = done \union {v} /\ UNCHANGED handlers
     ELSE /\ handlers' = [handlers EXCEPT ![h] =
                            [offer |-> v, status |-> request.status,
                             fresh |-> offers[v].status # "PAID",
                             step |-> "offer"]]
          /\ UNCHANGED done
  /\ UNCHANGED <<request, offers, staff, drafting, linksSent, captured, faults,
                 deliveryVars, rival>>

\* Faulty: the request is delivered before the mail is sent.
DeliveredFirst == [offer |-> "paid", paid |-> "issue", issue |-> "deliver", deliver |-> "mail"]

After == [offer |-> "paid", paid |-> "issue", issue |-> "mail", mail |-> "deliver"]

At(h, step) == handlers[h] # None /\ handlers[h].step = step

To(h) == [handlers[h] EXCEPT !.step = After[@]]

MarkOffer(h) ==
  /\ At(h, "offer")
  /\ offers' = IF handlers[h].fresh
               THEN [offers EXCEPT ![handlers[h].offer].status = "PAID"] ELSE offers
  /\ handlers' = [handlers EXCEPT ![h] = To(h)]
  /\ UNCHANGED <<request, staff, drafting, linksSent, captured, done, faults,
                 deliveryVars, rival>>

\* paid_at and the transition to PAID, which another active request refuses
MarkPaid(h) ==
  /\ At(h, "paid")
  /\ LET moves == handlers[h].status # "PAID"
     IN IF moves /\ ~Storable("PAID")
        THEN handlers' = [handlers EXCEPT ![h] = None] /\ UNCHANGED request
        ELSE /\ request' = [request EXCEPT !.status = IF moves THEN "PAID" ELSE @]
             /\ handlers' = [handlers EXCEPT ![h] = To(h)]
  /\ UNCHANGED <<offers, staff, drafting, linksSent, captured, done, faults,
                 deliveryVars, rival>>

\* ensure_delivery_token: the live token, or a new one
Ensured ==
  LET live == {t \in Tokens : tokens[t] = "live"}
      new == {t \in Tokens : tokens[t] = "none"}
  IN IF live # {} THEN {t \in live : \A u \in live : u <= t}
                  ELSE {t \in new : \A u \in new : t <= u}

IssueDocuments(h) ==
  /\ At(h, "issue")
  /\ documents' = DocTypes
  /\ \E t \in Ensured : tokens' = [tokens EXCEPT ![t] = "live"]
  /\ handlers' = [handlers EXCEPT ![h] = To(h)]
  /\ UNCHANGED <<request, offers, staff, drafting, linksSent, captured, done, faults,
                 mails, rival>>

SendDelivery(h) ==
  /\ At(h, "mail")
  /\ mails' = mails + 1
  /\ handlers' = [handlers EXCEPT ![h] = To(h)]
  /\ UNCHANGED <<request, offers, staff, drafting, linksSent, captured, done, faults,
                 documents, tokens, rival>>

\* delivered_at, the transition to DELIVERED and SUCCESS on the event
Deliver(h) ==
  /\ At(h, "deliver")
  /\ IF Storable("DELIVERED")
     THEN /\ request' = [request EXCEPT !.delivered = TRUE, !.status = "DELIVERED"]
          /\ done' = done \union {handlers[h].offer}
     ELSE request' = [request EXCEPT !.delivered = TRUE] /\ UNCHANGED done
  /\ handlers' = [handlers EXCEPT ![h] = None]
  /\ UNCHANGED <<offers, staff, drafting, linksSent, captured, faults, deliveryVars, rival>>

\* The asset is missing, a statement or the mail fails, or the process dies: the
\* event stays FAILED or PROCESSING and Stripe sends it again.
Fail(h) ==
  /\ handlers[h] # None /\ faults < MaxFaults
  /\ faults' = faults + 1
  /\ handlers' = [handlers EXCEPT ![h] = None]
  /\ \/ At(h, "issue") /\ documents' = documents \union {"SCHEDULE"}
        /\ UNCHANGED mails
     \/ At(h, "mail") /\ mails' = mails + 1 /\ UNCHANGED documents
     \/ UNCHANGED <<documents, mails>>
  /\ UNCHANGED <<request, offers, staff, drafting, linksSent, captured, done, tokens, rival>>

Step(h) ==
  MarkOffer(h) \/ MarkPaid(h) \/ IssueDocuments(h) \/ SendDelivery(h) \/ Deliver(h)

Next ==
  \/ \E act \in QuickActs : DoAction(act)
  \/ \E act \in SlowActs : BeginAction(act)
  \/ FinishAction \/ AbandonAction
  \/ FetchPaymentDraft \/ SavePaymentDraft
  \/ \E v \in Version : Expire(v) \/ Pay(v) \/ \E h \in Handlers : BeginRun(h, v)
  \/ \E h \in Handlers : Step(h) \/ Fail(h)
  \/ \E t \in Tokens : Download(t) \/ ExpireToken(t)
  \/ Resubmit

Spec == Init /\ [][Next]_vars

-----------------------------------------------------------------------------
(* Properties *)

\* An offer is ACTIVE only while its terms are what the client confirmed and
\* what the request says: no reset, negotiation, new version or edit leaves the
\* link of other terms current (one staff member acts at a time).
ActiveIsAgreed ==
  \A v \in Active :
    /\ request.confirmed
    /\ offers[v].terms = request.snapshot /\ offers[v].terms = request.terms

\* An event is recorded as handled, and the request has a delivery time, only
\* when a link was paid, both documents and a token are stored and the mail with
\* the link left, however far which run got and whatever staff did meanwhile.
HandledIsDelivered ==
  request.delivered \/ done # {} =>
    /\ captured # {} /\ documents = DocTypes /\ mails > 0
    /\ \E t \in Tokens : tokens[t] # "none"

\* Each paid link leads to one delivery mail and each failed run to one more at
\* most, also when staff move a delivered request back (the event is not handled
\* twice) and when another active request of the client fails a run at its end
\* (no later run of the event gets as far as the mail).
MailsAccounted == mails <= Cardinality(captured) + faults
=============================================================================
