# OpenÉire API in TLA+

TLA+ models, TLC runs and TLAPS proofs for the Django API behind OpenÉire: art
prints and downloads sold through Stripe and printed by Prodigi, and real-estate
media bookings with deposits, invoices and a delivery portal. Paths are relative
to the repository.

The program is a set of stateless web workers over one PostgreSQL database, with
Stripe, Prodigi, an SMTP server and an object store outside. What is hard in it
is what happens *between* its database transactions: webhooks that arrive twice
or at the same time, requests that die while they talk to Stripe or Prodigi,
answers that come late. The models keep exactly these steps: one action per
statement or transaction that another request can see, and one per external call.

## Inventory

| Component | State it keeps | Operations | Talks to | Hard behaviour |
|---|---|---|---|---|
| **Order webhook** (`checkout/views.py` 1210–1737, `serializers.py`, `discounts.py`, `emails.py`) | `StripeWebhookEvent`, `Order`, `DiscountRedemption`, default address | `payment_intent.succeeded`: ledger, verification, order, redemption or hold, mail, submission | Stripe, SMTP, Prodigi | duplicate and overlapping deliveries, stale take-over, submission lease, crashes between any two steps |
| **Prodigi submission** (`checkout/prodigi.py`) | `prodigi_order_id`, `prodigi_status`, `prodigi_submission_started_at` | create, fetch | Prodigi | answer lost after acceptance, worker that lost its lease |
| **Tracking** (`checkout/tracking.py`, callback view, `sync_prodigi_shipments`) | stage, shipments, `tracking_email_signature`, `prodigi_last_polled_at` | callback, poll, admin refresh, sync of the submitter | Prodigi, SMTP | snapshots fetched before the lock, lost callbacks, failed mails |
| **Checkout attempts** (`checkout/views.py` 282–598, `attempts.py`, purge command) | `CheckoutAttempt` | create or reuse, store the intent, verify, purge | Stripe | overlapping requests, changed carts, failed store, purge of a live attempt |
| **Deposit checkout** (`realestate/payments.py`, `finance.py`, webhook) | enquiry's Session id, link and creation key; deposit invoice; payments | prepare, reuse, replace, reconcile, void, record | Stripe, SMTP | two staff requests, payment between retrieve and expire, recovered Sessions |
| **Invoice ledger** (`realestate/finance.py`, `stripe_invoices.py`, `stripe_invoice_revisions.py`) | invoices, payments, reversals, document numbers | issue, charge, book, refund, dispute, revise, void, reconcile, release decision | Stripe | reversals out of order, Stripe invoice revisions, overwritten balance Sessions |
| **Delivery portal** (`realestate/delivery.py`, `delivery_views.py`, `delivery_emails.py`, admin) | delivery, recipients and link versions, sessions, mail attempts | activate, exchange, page, download, rotate, revoke, archive, mail | SMTP, ledger | access decided on rows that change meanwhile, forms that save stale rows, mails sent twice |
| **Delivery files** (`delivery_views.py`, `delivery_storage.py`, uploader script, `maintain_realestate_deliveries`) | upload sessions, deliverables, objects | start, complete, abort, cancel, hide, clean up | object store | requests in two transactions around a storage call, late requests of a cancelled upload, clean-up beside uploads |
| **Licences** (`products/licensing.py`, views, admin, webhook) | `LicenseRequest` states, offers, documents, delivery tokens | request, negotiate, offer, pay, deliver, download | Stripe, SMTP, store, AI worker | a webhook that commits statement by statement, links of superseded offers, staff actions on rows read before |
| **Video uploads** (`products/upload_views.py`) | `VideoUploadSession`, the video's keys | initiate, part, complete, abort | object store | complete against abort, death while COMPLETING, stale change forms |
| **Personal downloads** (`products/personal_downloads.py`), **order claiming** (`checkout/order_claiming.py`) | `PersonalDownloadToken`, the order's account | make, redeem, expire, claim | SMTP, store | two first tokens at once |
| **Alerts**, **shipping**, **accounts**, **enquiries and admin forms**, **catalogue and PDFs**, **blog and newsletter**, **settings** | see `PROJECT.json` | single-request handlers | | little or none; reasons are given there |

How they interact: a `CheckoutAttempt` prices a cart and owns one PaymentIntent;
its payment arrives at the order webhook, which records the order, redeems the
discount, mails, and hands printed orders to Prodigi; Prodigi's callback and the
poll keep the order's shipping state. The same webhook view records real-estate
and licence payments. All of them share rows, never memory.

What makes each correct:
- *webhook*: a captured payment becomes one order whatever is retried; a one-time
  discount releases one order; a customer is mailed once; prints are never
  reported as submitted unless Prodigi has them; nothing stays unfinished;
- *tracking*: a failed mail is retried, a shipped order is mailed at last, an
  update is mailed once;
- *attempts*: what is charged is what was asked for; one attempt, one intent; the
  webhook can tie a payment to its attempt;
- *deposit*: the client holds one payable link; what the client pays can be
  recorded;
- *ledger*: an invoice is never overpaid in the books, what is booked was taken,
  refunds and disputes lock the media, stored revisions never go back;
- *portal*: no answer for a link that was taken out of use before the request
  began, nothing served that was not released, one mail per form;
- *delivery files*: the limit holds, no file loses its object, a cancelled upload
  stays out, no object stays behind unseen;
- *licences*: an ACTIVE offer says what the client confirmed, a handled payment
  was delivered, each mail has a reason;
- *video library*: the video's keys name objects, a buyer's link works once.

## Modules

| Module | Models | Kind |
|---|---|---|
| `PaidOrder` | what the order webhook promises | abstract specification |
| `OrderFulfilment` | order webhook and submission; implements `PaidOrder` | component |
| `ProdigiTracking` | callback, poll, refresh, submitter's sync | component |
| `CartPricing` | carts, prices, shipping rule, discount, snapshot check | pure operators |
| `CheckoutAttempt` | `CreatePaymentIntentView`, verification, purge; uses `CartPricing` | component |
| `DepositCheckout` | deposit Sessions, void, deposit webhook | component |
| `InvoiceLedger` | final invoices, Stripe's events about them, release | component |
| `DeliveryPortal` | recipients' links and sessions, access decision, mails | component |
| `DeliveryFiles` | multipart uploader, upload views, bucket, clean-up command | component |
| `LicenceDelivery` | staff actions, offers, payment webhook, delivery token | component |
| `VideoLibrary` | video uploads, change form, download tokens, claiming | component |
| `MC…` | instances for TLC | |
| `OrderFulfilmentProofs` | types, discount, mail, acceptance, Prodigi id, lease; `PaidOrder` is implemented; shipping mails of `ProdigiTracking` | proofs |
| `CheckoutAttemptProofs` | what a snapshot and a quote say; charges, intents, verification | proofs |
| `DepositCheckoutProofs` | one payable link, recordable payments, one deposit | proofs |
| `InvoiceLedgerProofs` | no overpaid invoice, reversals lock, revisions go forward | proofs |
| `DeliveryPortalProofs` | stopped links, release, mails, closed deliveries | proofs |
| `DeliveryFilesProofs` | limit and versions, kept files, cancelled uploads, orphans | proofs |
| `LicenceDeliveryProofs` | agreed offers, counted mails, earned deliveries | proofs |
| `VideoLibraryProofs` | the keys name objects, a link works once | proofs |

Operators marked *Faulty* are variants of the definition that follows them, a
plausible bug each; no specification uses them. For each checked property one of
them, put in place of the definition, makes TLC find a violation: that is how we
know that the property depends on the code it is about.

### OrderFulfilment

A worker `w` is a request; `pc[w]` is the statement it is at, `job[w]` its event,
`mem[w]` the Prodigi fields of *its copy* of the order, `result[w]` what the
variables `processing_error` and `retryable_processing_error` say. The rows are
`ledger`/`eventAge` (`StripeWebhookEvent.status`, `received_at`), `ordered`,
`held`, `redeemer`, `mailStatus`, `prodigiId`, `prodigiStatus`, `leaseAge`
(`prodigi_submission_started_at`). `acked`, `mails`, `prodigi` are the outside:
what Stripe, the customer and Prodigi know.

| Code (`checkout/views.py`) | Action |
|---|---|
| 1228–1279 event row under lock | `ReceiveNew`, `RetryFailed`, `TakeOverStale`, `SkipDelivered` |
| 1285–1438 attempt, amount, snapshot, address | `VerifyPayment` |
| 1440–1479 existing order, `is_valid`, `save` | `LookupOrder`, `ValidateOrder`, `CreateOrder` |
| 1481–1496 redemption or hold | `RedeemDiscount`, `HoldOrder` |
| 1515–1537 mail | `ClaimMail`, `SendMail`, `MarkMail` |
| 1538–1643 submission | `RefreshOrder`, `ClaimSubmission`, `SubmitAccepted`, `SubmitRaises`, `RecordProdigiId`, `SyncShipping`, `ReloadOrder`, `SettleSubmission` |
| 1644–1686 exception | `FailSubmission` |
| 1713–1737 errors, `finally`, answer | `DatabaseError`, `FinishEvent` |
| process death | `Crash` |
| 1841–1892 callback | `ProdigiCallback` |

Not in it: the empty-cart branch, orders of the legacy metadata format, the
repair of an existing order's discount fields (1499–1513), the second best-effort
redemption (1687–1695), the silent skip of an item whose product is gone, the
alert mail, and the admin's manual retry of confirmation mails
(`checkout/admin.py` 68–125, which takes no SENDING claim).

### ProdigiTracking

One order. Prodigi goes through `0..Last`; `Signature` of a state stands for its
tracking numbers, and does not come back once it has changed
(`TrackingAssumption`: carriers add parcels and numbers, they do not take them
back). `snap[r]` is the state a request fetched *before* it took the row lock.
The callback catches a failing mail inside its transaction, so that the order's
fields are committed without the signature; the poll rolls everything back.
The submitting request works without a lock on its own copy. Where
`OrderFulfilment` has the same name, the one here begins with `Tracking`, so that
one module can extend both. Left out: the 90-day look-back of the candidates.

### CheckoutAttempt

A request asks for a cart under the catalogue of its moment: prices, availability,
shipping cost, free-shipping threshold and discount, which change between
requests. `Quote` is what the request computes from the two, line by line and to
the cent (`CartPricing`); it stands for the request fingerprint and for the
snapshot stored with the attempt, which `PricingHolds` checks again at payment
time. A cart lists one print, twice if it likes, and one download: more products
add lines of these two kinds. Two requests for one key overlap, fail anywhere, also
after Stripe made the intent.
`Quiet` says that no request lasts as long as Stripe keeps an idempotency key
(24 h) or as an attempt lives (30 days). The purge runs at any time.

### DepositCheckout

A Session carries the name of its creation key, because the key is Stripe's
idempotency key and contains the expiry. `saw[r]` is the Session id the request
read first; `TakeKey` and `StoreSession` compare under the row lock and start
again up to `MaxRetries` times. `age` has three values, for the code tells
apart: enough time, less than the 30 minutes it wants, and expired. Left out: the
balance invoice, manual payments, a changed price of the enquiry, a Session that
vanished at Stripe, payment methods that settle later.

### InvoiceLedger

Invoices are numbered in the order they are issued (`invoices[n]`), Stripe's
invoices of one number are its revisions `1, 2, …` (`stripe[n]`). A payment row is
named by where the money comes from: a Session, a receipt, or the number of a
Stripe invoice. `captured` is what Stripe and staff really hold, so that the
properties can compare the books with it. A sum of money is the number of the
units it consists of (`RecordedUnits`, `SettledUnits`, `HeldUnits`), which is the
sum of the amounts and can be reasoned about without induction over the rows. Each webhook handler is one action: it
runs in one transaction under the invoice's lock, and a handler that raises
changes nothing and leaves its event to come again. Creating a balance Session is
two actions, because the Stripe call is made outside the lock; a Stripe invoice is
made inside it, and `CreateStripeInvoiceFails` is the rollback after Stripe
finalized. Events are sets: they arrive in any order.

| Code | Action |
|---|---|
| `finance.ensure_realestate_invoice` | `IssueInvoice`, `EnsuredRows` |
| `finance.record_realestate_payment` | `Book`, `RecordManualPayment` |
| `finance.create_realestate_balance_checkout_session` | `CreateSession`, `StoreSession`, `AbandonSession` |
| `stripe_invoices` create, remind, paid out of band | `CreateStripeInvoice`, `SendReminder`, `MarkPaidOutOfBand` |
| `stripe_invoice_revisions` | `Current`, `Resolvable`, `Snapshot`, `Reconcile` |
| `void_local_realestate_invoice` | `VoidLocal` |
| `views._handle_realestate_invoice_event`, `…_deposit_payment`, `…_reversal_event` | `HandleInvoiceEvent`, `HandleSessionEvent`, `HandleChargeEvent` |

`ReversalsLock` exempts behaviours in which a reversal matched no payment row
(`warned`): the code then only logs and acknowledges, and a payment booked later
counts in full. Left out: the deposit invoice (`DepositCheckout`), overrides of the
release (`DeliveryPortal`), asynchronous payment methods, document numbers across
enquiries.

### DeliveryPortal

A request is three steps: it *reads* recipient and delivery (`Load`), *decides* on
them and on the payment and files of that moment (`Decide`), and *writes* the
access times and answers (`SaveAccess`, `Answer`; `SendMail` for a mail). Between
them staff activate, revoke, archive, rotate, change the enquiry, and save change
forms that were opened earlier. `stopped` remembers the links taken out of use,
`releasedSince[q]` whether the media were released at any time since `q` began,
`restored` whether a stale form has overwritten a row that had changed.

Whether the invoices are settled is `enquiry.paid`, which changes freely: it is
`Released` of `InvoiceLedger`. Left out: the global feature flag, an
`available_from` in the future, staff preview, deletion of recipients, writing of
access events; `portal_enabled` follows the status and is folded into it.

### DeliveryFiles

An upload, its session row, its object and its deliverable share a name.
`client[u]` is the page's promise (`delivery_multipart_uploader.mjs`), `sent[u]` the
requests on their way, `work[u]` the storage step of the one request past its claim
from INITIATED; `job` is `maintain_realestate_deliveries --execute`, one storage call
and one row at a time. Storage calls are refused, take effect without an answer, or
their worker dies. Left out: re-activation by the change form, an extension of
`expires_at` while the command runs, the delivery's status, presigned part URLs,
requests repeated by hand.

### LicenceDelivery

Staff actions that ask Stripe or the mail server (`SlowActs`) read the row in
`BeginAction` and write in `FinishAction`; the others are one step. `Effect` is what
an action writes: only the change form writes all columns. `Storable` is the
unique constraint on active requests of a client for an asset, which makes a
transition fail after the statements before it were committed. The webhook
(`BeginRun` … `Deliver`) runs in *no* transaction: each of its statements is a step,
and `Fail` may come between any two; the event is then delivered again.

| Code | Action |
|---|---|
| `admin.py` actions on requests | `May`, `Written`, `Moved`, `DoAction`, `BeginAction`, `FinishAction` |
| `admin._issue_new_offer`, `_supersede_active_offers` | `Issue`, `Superseding` |
| AI worker queue and update (`products/views.py`) | `FetchPaymentDraft`, `SavePaymentDraft` |
| `views._handle_license_payment` | `BeginRun`, `MarkOffer`, `MarkPaid`, `IssueDocuments`, `SendDelivery`, `Deliver`, `Fail` |
| `LicenceAssetDownloadView` | `Download`, `ExpireToken` |
| `LicenseRequestCreateView` | `Resubmit` |

Left out: the text of negotiation drafts and the `negotiated` flag (folded into
AWAITING), `paid_at`, the fallback to links without an offer, the audit log, form
posts of REVOKED, EXPIRED and DELIVERED, the limit on rejected requests, Sessions
that are completed unpaid, the acknowledgement of an event that is PROCESSING,
two staff members at once.

### VideoLibrary

Two halves that meet in the video's master file. Uploads: `status`/`targeted` are
the session row, `work[u]` the request past its claim, `key` the video's object keys,
`form` the keys in an open change form, all of whose fields are saved. Downloads:
`FindNoToken` and `MakeToken` are the two statements of
`ensure_personal_download_token`, `Redeem` is one transaction under the row lock.
Left out: the mail's status (see `OrderFulfilment`), the licence PDF, staff
streaming, deletion of videos and accounts, keys typed by staff that name no
object.

## Runs

| Run | Instance | Shows |
|---|---|---|
| `checkout` | 2 requests, 1 key, 4 carts, 3 catalogues, 2 rows, 3 intents | `AnsweredAsQuoted`, `OneIntentPerAttempt`, `AnsweredIsVerified` |
| `order_discount` | 2 workers, 2 events and payments on one discount, 1 crash, 1 error, no time limits kept | `DiscountReleasesOneOrder`, `MailOnce`, `KeepsPromise` (refinement) |
| `order_prints` | 2 workers, 1 printed order, 2 crashes, ticks of 300 s | `OneSubmitter`, `SubmittedWasAccepted`, `ProdigiIdKept` |
| `order_recovery` | the same with fairness, 1 crash, 1 error | `EveryPaymentFulfilled` |
| `order_acknowledged` | 1 download, no fault but storage | violated: `AcknowledgedIsRecorded` |
| `tracking` | 2 requests, 4 Prodigi states, 2 failures, fairness | `StoredWasMailed`, `OnceWhenSequential`, `ShippedIsMailed` |
| `deposit` | 2 requests, 2 invoices, 3 Sessions, 1 retry, 1 recovery | `OfferedIsStored`, `DirectIsRecordable` |
| `ledger` | 2 invoices of 2 units, 1 Session, 1 receipt, 2 Stripe invoices, 2 events under way, 1 charge reversed | `NeverOverpaid`, `ReversalsLock`, `RevisionForward` |
| `portal` | 1 recipient, 2 link versions, 1 request or mail at a time, 1 key, 1 form | `StoppedForGood`, `AnsweredWasReleased`, `OneMailPerKey`, `ClosedStaysClosed` |
| `licence` | 2 terms, 2 offers, 1 webhook run at a time, 2 tokens, 1 fault | `ActiveIsAgreed`, `HandledIsDelivered`, `MailsAccounted` |
| `files` | 2 uploads, 1 existing file, room for 1 more, 1 fault | `OfferIsSound`, `FilesKept`, `CancelledStaysOut`, `OrphansAreFound` |
| `library` | 2 masters, 1 preview, 2 requests, 2 tokens, 1 fault | `KeyNamesObject`, `OneUse` |

Each component's passing run checks `TypeOK` too (`order_discount` for
`OrderFulfilment`, `TrackingTypeOK` in `tracking`).

Bounds, and why they are enough. Every conflict in these handlers is between two
requests over one row, so two workers reach it, and a crashed or finished worker
takes the next delivery: a third request is a later one of the same two. Two
payments on one discount are the least that conflict; more are covered by the
proofs. Ticks are 300 s, the lease of a submission (`Lease = 1`), and an event is
stale after two (`StaleAfter = 2`), the defaults of the settings; `order_discount`
gives up the ratio and the promptness of requests altogether (`Prompt = FALSE`),
its properties do not need them. `MaxCrashes` and `MaxErrors` bound the faults of
a behaviour; one fault and its retry, and two crashes in a row, occur. Four
tracking states hold a final stage that is not the last, and a change that keeps
the signature. Three Sessions are an old one, its replacement and a recovered
one; two invoices are the first and the one after a void. `MaxRetries` is 1, in
the code 2: a retry starts from the beginning with a new copy, and gives up as
the code does after the last one. `mails` counts 0, 1, several.

The ledger's two units make a partial and a full payment or refund differ; its
second invoice is the one after a void. `MaxPending` bounds the events Stripe has
not delivered: two are enough for any pair to change places. `ledger` also holds
with three events under way, and with two charges reversed; the run is the
smaller, quicker instance. In `portal` requests
compete with staff and forms, not with one another: the only rows a request
writes are access times and its own attempt. The constraint `FormIsCurrent`
stops where the row of an open form changes: saved, the form puts an older row
back, after which both properties about closed deliveries promise nothing; not
saved, it is as if it had never been opened. In `files` the second upload fills
the last place the first also counted on, or replaces the same file. `licence` has
an old and a new link, which may both be paid; two webhook runs at the same time
are excluded by the bound, so overlapping payments of two links are not covered.
`library` has two masters, so that a form can put the older one back.

Deadlock is not checked where a bounded history comes to its end: every upload
ended, every invoice paid, every key used.

Symmetry is used for interchangeable workers, requests, rows and Sessions, in
runs of safety properties only.

### Fairness

- A request that runs goes on (`WF` of `Proceed`): gunicorn's workers run or are
  killed, which is `Crash`.
- Prodigi does not refuse a valid order for ever (`SF` of `SubmitAccepted`).
- Stripe delivers an event again until it has a 2xx answer (`WF` of `Redeliver`),
  and time passes. `RedeliveryGap = StaleAfter` in `order_recovery` is an
  assumption on Stripe's schedule, not on the code: a redelivery *before* an
  abandoned event is stale is answered 200 by `SkipDelivered`, Stripe stops, and
  nothing in the code resumes it.
- The scheduled command comes again (`WF` of a `Poll`); callbacks have no
  fairness, they may all be lost.

`Prompt` (a request ends within one lease) is justified by the request limit of
gunicorn, 30 s by default, and the timeouts of `prodigi.py` 96–100.

### Where the code does less than it says

The run `order_acknowledged` is *violated*, and `PROJECT.json` quotes the comment it
refutes: a serializer that is not valid sets no retry flag, so a captured payment
may end with a 200 and no order, e.g. while file storage is down.

Other behaviours of this kind are in the models and bound what the checked
properties state; no run is spent on them:

- *The lease is released by the wrong worker.* The exception handler clears a lease
  without checking whose it is, hence the assumption on database errors in
  `OneSubmitterAlways`. Prodigi's idempotency key still keeps the order single.
- *A tracking update is mailed twice* when an older snapshot is stored after a newer
  one, hence `OnceWhenSequential`; README.md:223 of the repository says once.
- *The mail of a second parcel is missed*: partial stages are final to the fallback,
  and `ShippedIsMailed` speaks of the first mail.
- *A payment through an old recovery link is refused* once the Session it comes from
  was replaced, hence `DirectIsRecordable` beside `PaidIsRecordable`.
- *The purge deletes an attempt* whose intent is payable or paid
  (`AnsweredIsVerified` exempts it).
- *A void without a stored Session* leaves a creation key, whose Session may then be
  stored for the void invoice.
- *A balance Session for another amount* overwrites the stored id; a client who pays
  the first is charged, and the webhook refuses the payment on every delivery. The
  same happens to a Session that is paid after its invoice was voided at Stripe.
- *A late `charge.dispute.created`* after a won dispute locks the media until staff
  step in.
- *A stale change form* of a delivery or a recipient reopens what was revoked while
  it was open (`restored`).
- *A superseded licence offer* stays payable at Stripe, and its documents state the
  request's current terms; an AI draft may be about an older offer.
- *Two first download tokens* are made when two requests overlap (`overlapped`).
- *A worker that dies in a video upload* leaves its session COMPLETING or ABORTING
  for ever; nothing cleans these up. A delivery upload left ABORTING stays so too.

## Proofs

Of `OrderFulfilment`, for *every* set of workers, events, payments and discounts,
every time limit, and any number of crashes and errors, from `OrderAssumption`
alone unless said otherwise:

- `TypeCorrect`: `Spec => []TypeOK`. `TypeOK` is inductive because it relates `pc`
  to `job` (a busy worker has an event) and to `mem`.
- `SafeAlways`: the inductive invariant `Safe`, in layers that each use the ones
  before. `RecordedInv`: a worker past the creation has an order of a matching
  payment. `ReleasedInv`: past the redemption, and for everything that left the
  shop, the order owns its discount; a held order lost it. Ownership never
  changes, which is the whole argument. `MailInv`: SENDING is the claim of at most
  one worker, and a mail that went out is SENT, claimed, or in doubt.
  `AcceptedInv`: what a worker remembers of Prodigi's answer, and where it is,
  imply that Prodigi has the order. None of the run's properties is inductive
  without them: they speak of rows, and the next step depends on the copies.
- `DiscountSafe`, `MailsOnce`, `SubmittedAccepted`, `IdKept` follow.
- `Implements`: `Spec => KeepsPromise`. Under the refinement mapping the initial
  states agree, and from `Safe` every step is one of `PaidOrder` or a stutter:
  `CreateOrder` is `Record`, the claim of the redemption `Redeem`, `HoldOrder` is
  `Hold`, `SendMail` is `Mail`, `SubmitAccepted` is `Produce`.
- `OneSubmitterAlways`: if requests are prompt, the lease positive and no database
  statement fails, then at most one request submits an order. `LeaseInv` says that
  a submitter's lease has not run out, or that the id is stored. The assumption on
  database errors is necessary: an error of a worker that lost the lease clears
  the holder's.

Of `VideoLibrary`, for every set of uploads, requests and tokens and any number of
faults, from `LibraryAssumption`:

- `TypeCorrect` and `KeysNameObjects`, from `UploadInv`: a request that is about to
  finish has its object in the bucket, and so have the keys that an open form would
  put back. `KeyNamesObject` alone is not inductive, since `Finish` and `SaveForm`
  write keys remembered from earlier.
- `LinkWorksOnce`, from `TokenInv`: unless two requests overlapped, one request at
  most is making a token, and only while there is none, so that the item never has
  two.

The two invariants of `VideoLibrary` share no variable, which keeps each step's proof to the half it
touches.

Of `DeliveryPortal`, for every set of recipients, requests and keys and any number
of link versions, from `PortalAssumption` and `NoneAssumption` (`None` is no row):

- `TypeCorrect`, from `TypeInv`: an open form holds a row of the kind it will save.
- `MailsOncePerKey`, from `MailInv`: a key belongs to the one request that recorded
  its attempt, and nothing has left under it before that request sends. The type
  of `mails` (at most two) is preserved only because of it.
- `ReleasedWhenAnswered`, from `ReleaseInv`: while a request lasts, media that are
  released now are remembered as released, so the decision is enough.
- `StoppedStaysStopped`, from `StopInv`: the rows refuse every stopped link, because
  a recipient's version and revocation only move forward and closing is for good;
  a request that came with a stopped link therefore read that it is not valid, and
  gets no further. A form that restores an older row is the one exception, and
  `FormKeeps` says that a form whose row has not changed does no harm.
- `ClosedForGood`: no step but a stale form reopens a closed delivery.

The run has one request at a time; the theorems hold for any number of them.

Of `ProdigiTracking`, for any requests, states, signatures and failures, from
`TrackingAssumption` (at the end of `OrderFulfilmentProofs`):

- `TrackingTyped`, `StoredAreMailed`, `MailedOncePerUpdate`, from `TrackingInv`. A
  request that is about to store a signature has mailed it, whatever it does on its
  own copy, and this alone gives `StoredWasMailed`. Once per update needs history:
  every mailed signature that is not the stored one was *left* by Prodigi before the
  state that any running request holds (`Behind`, `Replaced`), and Prodigi does not
  come back to it. That holds only while one request runs at a time.

Of `CheckoutAttempt`, for any carts, catalogues, keys, requests and purges, from
`PricingAssumption` and `CheckoutAssumption` (`None` is no row, quote or intent):

- `DiscountBounded`, `CanonicalCart`, `QuoteHolds`: a discount is at most what it is
  taken from, an accepted cart has at least one piece of each item, and a quote has
  a natural amount and passes the check of its own snapshot.
- `QuotedIsCharged`, `OneIntent`, `AnsweredVerifies`, from `CheckoutInv`. `IntentInv`
  ties an intent to the row and the amount it was made for, also after a purge;
  `RequestInv` says which intent a request will answer with (`Bound`) and that the
  row can get, and its clients can have, no other (`Settled`), and of each *pair* of
  requests on one row that they have its key and end with the same intent. The
  properties speak of answers only; the pairs are why two overlapping requests
  cannot answer differently.

Of `DepositCheckout`, for any requests, invoices, Sessions, retries and recoveries,
from `DepositAssumption`:

- `OneLinkIsPayable`, `DepositIsRecordable`, `DepositIsPaidOnce` (which no run
  states: until a recovery link is followed, at most one Session is ever paid), from
  `DepositInv`. Its heart is `StageOK`: between Stripe's answer and the row lock, a
  Session that a request goes on to replace or void is `Dead`, expired and unpaid
  for good, although other requests have run since it was read; `KeyOK`: a creation
  key is taken only while the stored Session is not payable; `DirectOK`: once a
  Session is paid it stays the stored one.

Of `InvoiceLedger`, for any total, numbers of invoices, Sessions, receipts, requests,
Stripe revisions and events under way, from `LedgerAssumption`:

- `NoInvoiceIsOverpaid`, `ReversalsLockDelivery`, `RevisionsGoForward`, from
  `LedgerInv`. `MoneyOK` and `BookOK` relate each payment row to the money it stands
  for; `EventsOK` says what an event that is still under way can claim, in whatever
  order it arrives; `LockOK` says where a refund or dispute is to be found: still
  under way, on the row, or in a warning. Besides the settled amounts, *all* recorded
  ones stay within the total, since a dispute that is won later counts again.
  `ReversalsLock` alone is not inductive: it speaks of states in which no event is
  under way.
- The lemmas on units (`Bounds`, `SettledIsRecorded` and others) replace an induction
  over payment rows.

Of `DeliveryFiles`, for any uploads, any limit and number of faults, from
`FilesAssumption`:

- `RetainedAreKept`, `CancelledAreNoFiles`, `OrphansAreReached`, from `FilesInv`.
  `UploadOK` is what page, request, session row, bucket and deliverable agree on;
  `JobOK` what the command may rely on while it works on a list it made earlier: an
  orphan stays `Dead`, since no request takes up its session again.
- `OfferStaysSound`, from `OfferInv` on top: the files on offer are finitely many and
  within the limit, and of a file and its replacement one is active.

Of `LicenceDelivery`, for any terms, offers, runs at the same time, tokens and
faults, from `LicenceAssumption`:

- `ActiveOffersAgreed`, from `ScopeInv`: what a staff member at work saw of the scope
  is still so, because the scope is frozen while it is confirmed and every action
  that unfreezes it supersedes the offer.
- `MailsBounded`, from `MailInv`, which counts only the paid links whose mail can no
  longer leave without a fault (`Pending` are the others), and differently once
  another request has replaced this one.
- `DeliveryTimeIsEarned`: the delivery time is stored only after documents, token and
  mail, whatever staff do.
- `HandledAreDelivered`: `HandledIsDelivered`, provided staff do not write the status
  DELIVERED by hand (`"DELIVERED" \notin FormStatuses`). The provision is needed: the
  webhook answers an event of a DELIVERED request as handled without looking at what
  was delivered, and the change form offers that status. It is what the run assumes
  too; `DeliveryTimeIsEarned` needs no such provision.

Only model-checked: the liveness properties (`EveryPaymentFulfilled`,
`ShippedIsMailed`), which the proof system does not reach. Every invariant and
action property that a run checks is also proved; the violated
`AcknowledgedIsRecorded` is not a theorem. What the models compute from a whole
cart or list by recursion does not occur: sums are over two kinds of lines or are
numbers of units.

## Plan

Done: all components of the module table, and theorems for every safety property.
What would come next, in this order:

1. `DeliveryPortal` composed with `InvoiceLedger`: `enquiry.paid` replaced by
   `Released`, with the release decision proved through the refinement.
2. An abstract ledger (money taken, money given back, media released) that
   `InvoiceLedger` implements, and an abstract deposit that `DepositCheckout`
   implements.
3. Two staff members at once in `LicenceDelivery`, whose theorems already cover
   overlapping webhook runs; two requests in the run of `DeliveryPortal`.
4. The admin's mail retry in `OrderFulfilment`, a purge with a payment under way in
   `CheckoutAttempt`, a void with a key in flight in `DepositCheckout`.

## Not modelled

VAT and travel fees, the rates behind a shipping rule, form validation, document and mail layout, the
catalogue, the blog, accounts built on library tokens: they keep no state over
several steps, and unit tests reach them. Fulfilment alerts: a cache lock that
limits mails and has no effect on orders. The admin's pages for enquiries, quotes
and agreements are guards of single actions; what they do to invoices, deliveries
and licences is in the modules above.
