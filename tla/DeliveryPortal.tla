--------------------------- MODULE DeliveryPortal ----------------------------
(***************************************************************************)
(* The private delivery portal of one real-estate enquiry: staff activate, *)
(* extend, archive or revoke the delivery, rotate or revoke a recipient's  *)
(* link and mail it; the client exchanges the link for a session, opens    *)
(* the page and asks for download URLs.  A request reads its recipient and *)
(* delivery once and decides, writes and answers later; the payment and    *)
(* the files are read when it decides.  Whether the invoices are settled   *)
(* is InvoiceLedger's Released; the files are DeliveryFiles'.              *)
(***************************************************************************)
EXTENDS Naturals

CONSTANTS
  Recipients, Requests,
  Keys,           \* idempotency keys of mails, one for each form staff open
  MaxVersion,     \* bound on the rotations of a link
  None

Version == 1..MaxVersion
Link == Recipients \X Version

ASSUME PortalAssumption ==
  /\ MaxVersion \in Nat \ {0}
  /\ None \notin Recipients /\ None \notin Keys

VARIABLES
  delivery,       \* RealEstateDelivery row; portal_enabled follows the status
  recipients,     \* RealEstateDeliveryRecipient rows
  enquiry,        \* shoot completed, invoices settled, override active
  hasFile,        \* some deliverable is active, available and not deleted
  sessions,       \* session cookies that have not expired, by their link
  attempts,       \* RealEstateDeliveryEmailAttempt rows
  mails,          \* external: mails that left, by key
  requests,       \* requests in progress, with the rows they read
  edit,           \* the row that an admin form read and will save
  restored,       \* history: a form put back a row that had changed since it was read
  stopped,        \* history: links that staff took out of use
  releasedSince   \* history: the media were released since the request began

portalVars == <<delivery, recipients, hasFile>>
mailVars == <<attempts, mails>>
formVars == <<edit, restored>>
vars == <<portalVars, enquiry, sessions, mailVars, requests, formVars, stopped, releasedSince>>

DeliveryRow == [status : {"draft", "active", "expired", "revoked", "archived"},
                expiry : {"unset", "future", "past"}]
RecipientRow == [version : Version, revoked : BOOLEAN]
Kinds == {"exchange", "page", "download", "link mail", "notice mail"}
MailKinds == {"link mail", "notice mail"}
\* "valid" is what the rows that the request read say of its access, and "late"
\* that it began after its link was taken out of use.
Request == [kind : Kinds, link : Link, valid : BOOLEAN, key : Keys \union {None},
            late : BOOLEAN, step : {"loaded", "allowed", "saved", "answered"}]
Edit == [recipient : Recipients \union {None}, row : RecipientRow \union DeliveryRow]

\* None is no row.
ASSUME NoneAssumption ==
  /\ None \notin RecipientRow /\ None \notin DeliveryRow /\ None \notin Request
  /\ None \notin Edit /\ None \notin {"pending", "sent", "failed"}

\* Rows, requests and histories have values that can occur.
TypeOK ==
  /\ delivery \in DeliveryRow
  /\ recipients \in [Recipients -> RecipientRow \union {None}]
  /\ enquiry \in [completed : BOOLEAN, paid : BOOLEAN, override : BOOLEAN]
  /\ hasFile \in BOOLEAN /\ sessions \subseteq Link /\ stopped \subseteq Link
  /\ attempts \in [Keys -> {None, "pending", "sent", "failed"}]
  /\ mails \in [Keys -> 0..2]
  /\ requests \in [Requests -> Request \union {None}]
  /\ edit \in Edit \union {None} /\ restored \in BOOLEAN
  /\ releasedSince \in [Requests -> BOOLEAN]

Init ==
  /\ delivery = [status |-> "draft", expiry |-> "unset"]
  /\ recipients = [r \in Recipients |-> None]
  /\ enquiry = [completed |-> FALSE, paid |-> FALSE, override |-> FALSE]
  /\ hasFile = FALSE /\ sessions = {}
  /\ attempts = [k \in Keys |-> None] /\ mails = [k \in Keys |-> 0]
  /\ requests = [q \in Requests |-> None] /\ edit = None /\ restored = FALSE
  /\ stopped = {} /\ releasedSince = [q \in Requests |-> FALSE]

-----------------------------------------------------------------------------
(* The access decision *)

\* Faulty: a delivery that was activated counts as released.
ActivatedIsReleased == delivery.status = "active" \/ enquiry.paid

\* can_release_realestate_delivery
CanRelease == enquiry.override \/ enquiry.paid

\* evaluate_delivery_access: the recipient, delivery and enquiry rows are those
\* that the request read; the payment and the files are read now.
Valid(r) ==
  /\ ~recipients[r].revoked
  /\ delivery.status = "active" /\ delivery.expiry = "future" /\ enquiry.completed

Allowed(request) ==
  request.valid /\ CanRelease /\ (request.kind # "notice mail" => hasFile)

-----------------------------------------------------------------------------
(* Staff and the enquiry *)

AddRecipient(r) ==
  /\ recipients[r] = None
  /\ recipients' = [recipients EXCEPT ![r] =
                      [version |-> 1, revoked |-> FALSE]]
  /\ UNCHANGED <<delivery, hasFile, enquiry, sessions, mailVars, requests, formVars,
                 stopped, releasedSince>>

\* Faulty: only a revoked delivery stays out of use.
ActivatableUnlessRevoked(status) == status \notin {"active", "revoked"}

Activatable(status) == status \notin {"active", "revoked", "archived"}

\* activate_delivery, under the lock of the delivery's row
Activate ==
  /\ Activatable(delivery.status)
  /\ \E r \in Recipients : recipients[r] # None /\ ~recipients[r].revoked
  /\ enquiry.completed /\ CanRelease /\ hasFile /\ delivery.expiry # "past"
  /\ delivery' = [status |-> "active", expiry |-> "future"]
  /\ UNCHANGED <<recipients, hasFile, enquiry, sessions, mailVars, requests, formVars,
                 stopped, releasedSince>>

\* revoke_view and archive_view: both write the status whatever it has become.
CloseDelivery(status) ==
  /\ delivery.status # status
  /\ delivery' = [delivery EXCEPT !.status = status]
  /\ stopped' = Link
  /\ UNCHANGED <<recipients, hasFile, enquiry, sessions, mailVars, requests, formVars,
                 releasedSince>>

RevokeRecipient(r) ==
  /\ recipients[r] # None /\ ~recipients[r].revoked
  /\ recipients' = [recipients EXCEPT ![r].revoked = TRUE]
  /\ stopped' = stopped \union {link \in Link : link[1] = r}
  /\ UNCHANGED <<delivery, hasFile, enquiry, sessions, mailVars, requests, formVars,
                 releasedSince>>

\* rotate_recipient_secret
RotateLink(r) ==
  /\ recipients[r] # None /\ recipients[r].version < MaxVersion
  /\ recipients' = [recipients EXCEPT ![r].version = @ + 1]
  /\ stopped' = stopped \union {<<r, recipients[r].version>>}
  /\ UNCHANGED <<delivery, hasFile, enquiry, sessions, mailVars, requests, formVars,
                 releasedSince>>

\* An admin form reads the row and saves all of its columns, the read-only ones
\* as they were read.
OpenForm(r) ==
  /\ edit = None
  /\ r # None => recipients[r] # None
  /\ edit' = [recipient |-> r, row |-> IF r = None THEN delivery ELSE recipients[r]]
  /\ UNCHANGED <<portalVars, enquiry, sessions, mailVars, requests, restored, stopped,
                 releasedSince>>

\* restored: the row changed while the form was open, and the change is lost
SaveForm(expiry) ==
  /\ edit # None /\ edit' = None
  /\ restored' = (restored \/ edit.row #
                    IF edit.recipient = None THEN delivery ELSE recipients[edit.recipient])
  /\ IF edit.recipient = None
     THEN /\ edit.row.status = "active" => expiry # "unset"
          /\ delivery' = [edit.row EXCEPT !.expiry = expiry]
          /\ UNCHANGED recipients
     ELSE /\ recipients' = [recipients EXCEPT ![edit.recipient] = edit.row]
          /\ UNCHANGED delivery
  /\ UNCHANGED <<hasFile, enquiry, sessions, mailVars, requests, stopped, releasedSince>>

\* The shoot is completed or reopened, the invoices are settled or a reversal
\* opens them again, an override is granted or revoked.
EnquiryChanges(field) ==
  /\ enquiry' = [enquiry EXCEPT ![field] = ~@]
  /\ releasedSince' = [q \in Requests |-> requests[q] # None /\
       (releasedSince[q] \/ enquiry'.paid \/ enquiry'.override)]
  /\ UNCHANGED <<portalVars, sessions, mailVars, requests, formVars, stopped>>

\* Files are uploaded, replaced, deactivated or cleaned up.
FilesChange ==
  /\ hasFile' = ~hasFile
  /\ UNCHANGED <<delivery, recipients, enquiry, sessions, mailVars, requests, formVars,
                 stopped, releasedSince>>

\* The expiry passes, for the rows in memory too.
TimePasses ==
  /\ delivery.expiry = "future"
  /\ delivery' = [delivery EXCEPT !.expiry = "past"]
  /\ requests' = [q \in Requests |->
       IF requests[q] = None THEN None ELSE [requests[q] EXCEPT !.valid = FALSE]]
  /\ UNCHANGED <<recipients, hasFile, enquiry, sessions, mailVars, formVars, stopped,
                 releasedSince>>

\* maintain_realestate_deliveries --execute, its first statement
MarkExpired ==
  /\ delivery.status = "active" /\ delivery.expiry = "past"
  /\ delivery' = [delivery EXCEPT !.status = "expired"]
  /\ UNCHANGED <<recipients, hasFile, enquiry, sessions, mailVars, requests, formVars,
                 stopped, releasedSince>>

SessionExpires(link) ==
  /\ link \in sessions
  /\ sessions' = sessions \ {link}
  /\ UNCHANGED <<portalVars, enquiry, mailVars, requests, formVars, stopped, releasedSince>>

-----------------------------------------------------------------------------
(* Requests of recipients, and mails that staff send *)

Load(q, kind, r, v, key) ==
  /\ requests[q] = None /\ recipients[r] # None
  /\ requests' = [requests EXCEPT ![q] =
       [kind |-> kind, link |-> <<r, v>>, valid |-> Valid(r), key |-> key,
        late |-> <<r, v>> \in stopped, step |-> "loaded"]]
  /\ releasedSince' = [releasedSince EXCEPT ![q] = enquiry.paid \/ enquiry.override]

\* recipient_secret_matches, and load_delivery_session for a session
Presents(kind, r, v) ==
  /\ recipients[r].version = v
  /\ kind # "exchange" => <<r, v>> \in sessions

LoadRecipient(q, kind, r, v) ==
  /\ recipients[r] # None /\ Presents(kind, r, v)
  /\ Load(q, kind, r, v, None)
  /\ UNCHANGED <<portalVars, enquiry, sessions, mailVars, formVars, stopped>>

\* Faulty: an attempt that failed is tried again.
RetriesFailed(k) == attempts[k] \in {None, "failed"}

\* get_or_create decides who sends under a key.
Fresh(k) == attempts[k] = None

LoadMail(q, kind, r, k) ==
  /\ Fresh(k) /\ recipients[r] # None
  /\ Load(q, kind, r, recipients[r].version, k)
  /\ attempts' = [attempts EXCEPT ![k] = "pending"]
  /\ UNCHANGED <<portalVars, enquiry, sessions, mails, formVars, stopped>>

Step(q, from, to) ==
  /\ requests[q] # None /\ requests[q].step = from
  /\ requests' = [requests EXCEPT ![q].step = to]

End(q) ==
  /\ requests' = [requests EXCEPT ![q] = None]
  /\ releasedSince' = [releasedSince EXCEPT ![q] = FALSE]

Decide(q) ==
  /\ requests[q] # None /\ requests[q].step = "loaded"
  /\ IF Allowed(requests[q])
     THEN Step(q, "loaded", "allowed") /\ UNCHANGED <<attempts, releasedSince>>
     ELSE /\ End(q)
          /\ attempts' = IF requests[q].kind \in MailKinds
                         THEN [attempts EXCEPT ![requests[q].key] = "failed"] ELSE attempts
  /\ UNCHANGED <<portalVars, enquiry, sessions, mails, formVars, stopped>>

\* Faulty: the row that the request read is saved with all its columns.
WholeRow(q) == [version |-> requests[q].link[2], revoked |-> FALSE]

\* save(update_fields=...) writes the access times, which are not kept here, and
\* leaves the other columns as they have become.
AccessRow(q) == recipients[requests[q].link[1]]

\* The access times are saved; a download looks for its file again first.
SaveAccess(q) ==
  /\ Step(q, "allowed", "saved") /\ requests[q].kind \notin MailKinds
  /\ requests[q].kind = "download" => hasFile
  /\ recipients' = [recipients EXCEPT ![requests[q].link[1]] = AccessRow(q)]
  /\ UNCHANGED <<delivery, hasFile, enquiry, sessions, mailVars, formVars, stopped,
                 releasedSince>>

\* The event is recorded and the session, page or URL is returned.
Answer(q) ==
  /\ Step(q, "saved", "answered")
  /\ sessions' = IF requests[q].kind = "exchange"
                 THEN sessions \union {requests[q].link} ELSE sessions
  /\ UNCHANGED <<portalVars, enquiry, mailVars, formVars, stopped, releasedSince>>

\* The transport accepts the mail with the link of the row that was read.
SendMail(q) ==
  /\ Step(q, "allowed", "answered") /\ requests[q].kind \in MailKinds
  /\ mails' = [mails EXCEPT ![requests[q].key] = @ + 1]
  /\ UNCHANGED <<portalVars, enquiry, sessions, attempts, formVars, stopped, releasedSince>>

\* The transport raises, perhaps after the mail left.
SendMailFails(q, left) ==
  /\ requests[q] # None /\ requests[q].kind \in MailKinds /\ requests[q].step = "allowed"
  /\ End(q)
  /\ mails' = [mails EXCEPT ![requests[q].key] = @ + left]
  /\ attempts' = [attempts EXCEPT ![requests[q].key] = "failed"]
  /\ UNCHANGED <<portalVars, enquiry, sessions, formVars, stopped>>

Finish(q) ==
  /\ requests[q] # None /\ requests[q].step = "answered" /\ End(q)
  /\ attempts' = IF requests[q].kind \in MailKinds
                 THEN [attempts EXCEPT ![requests[q].key] = "sent"] ELSE attempts
  /\ UNCHANGED <<portalVars, enquiry, sessions, mails, formVars, stopped>>

\* The file is gone, the database fails or the worker dies.
Fail(q) ==
  /\ requests[q] # None /\ End(q)
  /\ UNCHANGED <<portalVars, enquiry, sessions, mailVars, formVars, stopped>>

Staff ==
  \/ \E r \in Recipients : AddRecipient(r) \/ RevokeRecipient(r) \/ RotateLink(r)
  \/ Activate \/ \E status \in {"revoked", "archived"} : CloseDelivery(status)
  \/ \E r \in Recipients \union {None} : OpenForm(r)
  \/ \E field \in {"completed", "paid", "override"} : EnquiryChanges(field)
  \/ FilesChange

Handling(q) ==
  \/ \E kind \in Kinds \ MailKinds, r \in Recipients, v \in Version :
       LoadRecipient(q, kind, r, v)
  \/ \E kind \in MailKinds, r \in Recipients, k \in Keys : LoadMail(q, kind, r, k)
  \/ Decide(q) \/ SaveAccess(q) \/ Answer(q) \/ SendMail(q)
  \/ \E left \in 0..1 : SendMailFails(q, left)
  \/ Finish(q) \/ Fail(q)

Next ==
  \/ \E expiry \in {"unset", "future", "past"} : SaveForm(expiry)
  \/ Staff \/ TimePasses \/ MarkExpired
  \/ \E link \in Link : SessionExpires(link)
  \/ \E q \in Requests : Handling(q)

Spec == Init /\ [][Next]_vars

-----------------------------------------------------------------------------
\* Once staff revoke or archive the delivery, or revoke or rotate a link, no
\* request that begins afterwards is answered with a session, a page, a URL or a
\* mail for that link, whatever older requests still write;
\* unless a change form that was open meanwhile put the old row back.
StoppedForGood ==
  ~restored => \A q \in Requests : requests[q] # None =>
    ~(requests[q].step = "answered" /\ requests[q].late)

\* A refund, a dispute or a revoked override locks the media for every request
\* that begins afterwards: what is answered was released during the request.
AnsweredWasReleased ==
  \A q \in Requests : requests[q] # None =>
    (requests[q].step = "answered" => releasedSince[q])

\* One mail leaves under a key, although forms are submitted twice, the transport
\* fails after accepting and workers die before the attempt is marked.
OneMailPerKey == \A k \in Keys : mails[k] <= 1

\* A revoked or archived delivery is never in use again, unless a change
\* form that was open meanwhile puts the old row back.
ClosedStaysClosed ==
  [][~restored' /\ delivery.status \in {"revoked", "archived"} =>
       delivery'.status \in {"revoked", "archived"}]_vars
=============================================================================
