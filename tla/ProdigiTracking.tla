-------------------------- MODULE ProdigiTracking ---------------------------
(***************************************************************************)
(* Shipping updates of one printed order: the Prodigi callback, the        *)
(* scheduled fallback command, the admin refresh and the webhook request   *)
(* that submits the order all fetch Prodigi's state first and store it     *)
(* later, mailing the customer when its tracking signature is new.  The    *)
(* first three hold the row lock from the store to the signature; the      *)
(* submitting request works on its own copy, without a lock.  Prodigi is   *)
(* external: it goes through the states 0..Last and may call back at any   *)
(* time or never.  Names that OrderFulfilment has too begin with Tracking, *)
(* so that one module can extend both.                                     *)
(***************************************************************************)
EXTENDS Naturals, FiniteSets

CONSTANTS
  Requests,
  Last,           \* Prodigi's states of the order are 0..Last
  Signatures,     \* tracking signatures
  Signature,      \* of a state; Silent when there is nothing to tell
  Silent,
  Final,          \* states whose stage is in FINAL_PRODIGI_SYNC_STATES
  MaxFailures     \* bound on failed fetches, mails, commits and requests

States == 0..Last

\* Prodigi does not return to an earlier shipment state.
ASSUME TrackingAssumption ==
  /\ Last \in Nat /\ MaxFailures \in Nat
  /\ Silent \notin Signatures
  /\ Signature \in [States -> Signatures \union {Silent}]
  /\ Final \subseteq States
  /\ \A i, j, k \in States :
       i <= j /\ j <= k /\ Signature[i] = Signature[k]
         => Signature[j] = Signature[i]

VARIABLES
  created,        \* external: Prodigi has the order
  at,             \* external: its present state
  hasId,          \* Order.prodigi_order_id is set
  shown,          \* state behind prodigi_status and shipments; Last+1 if none
  mailedSig,      \* tracking_email_signature; tracking_email_sent_at with it
  polled,         \* prodigi_last_polled_at is set
  updates,        \* mails the customer got per signature; 2 is "several"
  doubted,        \* signatures whose mail went out but was not stored
  step,           \* step of a request
  snap,           \* the state a request fetched
  copy,           \* the signature in the submitter's copy of the order
  overlapped,     \* some request began while another one was running
  failures

rowVars == <<hasId, shown, mailedSig, polled>>
updateVars == <<updates, doubted>>
requestVars == <<step, snap, copy, overlapped>>
trackingVars == <<created, at, rowVars, updateVars, requestVars, failures>>

Nothing == Last + 1
Steps == {"idle", "callback", "poll", "loaded", "answered", "stage", "send",
           "store"}

\* The order row, the mails and the requests have values the code can give.
TrackingTypeOK ==
  /\ created \in BOOLEAN /\ hasId \in BOOLEAN /\ polled \in BOOLEAN
  /\ overlapped \in BOOLEAN
  /\ at \in States /\ shown \in States \union {Nothing}
  /\ mailedSig \in Signatures \union {Silent}
  /\ updates \in [Signatures -> 0..2] /\ doubted \subseteq Signatures
  /\ step \in [Requests -> Steps] /\ snap \in [Requests -> States]
  /\ copy \in [Requests -> Signatures \union {Silent}]
  /\ failures \in 0..MaxFailures

TrackingInit ==
  /\ created = FALSE /\ at = 0
  /\ hasId = FALSE /\ shown = Nothing /\ mailedSig = Silent /\ polled = FALSE
  /\ updates = [s \in Signatures |-> 0] /\ doubted = {}
  /\ step = [r \in Requests |-> "idle"] /\ snap = [r \in Requests |-> 0]
  /\ copy = [r \in Requests |-> Silent]
  /\ overlapped = FALSE /\ failures = 0

MoveTo(r, label) == step' = [step EXCEPT ![r] = label]
Fails == failures < MaxFailures /\ failures' = failures + 1

Begin(r, label) ==
  /\ step[r] = "idle"
  /\ MoveTo(r, label)
  /\ overlapped' = (overlapped \/ \E q \in Requests : step[q] # "idle")

MailOut(s) == updates' = [updates EXCEPT ![s] = IF @ = 0 THEN 1 ELSE 2]

-----------------------------------------------------------------------------
(* Prodigi, and the requests that fetch its state before they take the row
   lock. *)

ProdigiAdvances ==
  /\ created /\ at < Last
  /\ at' = at + 1
  /\ UNCHANGED <<created, rowVars, updateVars, requestVars, failures>>

Fetch(r, label) ==
  /\ Begin(r, label)
  /\ snap' = [snap EXCEPT ![r] = at]
  /\ UNCHANGED <<created, at, rowVars, updateVars, copy, failures>>

\* ProdigiCallbackView: answered 502 when Prodigi cannot confirm the order.
Callback(r) == created /\ Fetch(r, "callback")

\* Faulty: only the stored stage decides whether an order is polled.
CandidateByStatus == hasId /\ shown \notin Final

Candidate == hasId /\ (shown \notin Final \/ mailedSig = Silent \/ ~polled)

Poll(r) == Candidate /\ Fetch(r, "poll")

\* The admin action does not look at the stored stage.
AdminRefresh(r) == hasId /\ Fetch(r, "poll")

\* A failed fetch of the command or the action still counts as a poll.
PollFails(r) ==
  /\ hasId /\ step[r] = "idle"
  /\ Fails
  /\ polled' = TRUE
  /\ UNCHANGED <<created, at, hasId, shown, mailedSig, updateVars, requestVars>>

-----------------------------------------------------------------------------
(* sync_order_shipping_from_prodigi under the row lock. *)

\* Faulty: the stored signature is not consulted.
IsNewAlways(r, known) == Signature[snap[r]] # Silent

IsNew(r, known) == Signature[snap[r]] \notin {Silent, known}

\* Faulty: the signature of the answer is stored in place of its stage.
StoreSignatureAsStage(r) == hasId' = TRUE /\ shown' = Signature[snap[r]]

Store(r) == hasId' = TRUE /\ shown' = snap[r]

\* Nothing to tell: the fields are stored.
SyncSilently(r) ==
  /\ step[r] \in {"callback", "poll"}
  /\ ~IsNew(r, mailedSig)
  /\ Store(r)
  /\ polled' = (polled \/ step[r] = "poll")
  /\ MoveTo(r, "idle")
  /\ UNCHANGED <<created, at, mailedSig, updateVars, snap, copy, overlapped,
                 failures>>

\* Faulty: the new signature is stored before the mail, which may fail.
SyncStoresFirst(r) ==
  /\ step[r] \in {"callback", "poll"}
  /\ IsNew(r, mailedSig)
  /\ MailOut(Signature[snap[r]]) \/ UNCHANGED updates
  /\ mailedSig' = Signature[snap[r]]
  /\ Store(r)
  /\ polled' = (polled \/ step[r] = "poll")
  /\ MoveTo(r, "idle")
  /\ UNCHANGED <<created, at, doubted, snap, copy, overlapped, failures>>

SyncAndMail(r) ==
  /\ step[r] \in {"callback", "poll"}
  /\ IsNew(r, mailedSig)
  /\ MailOut(Signature[snap[r]])
  /\ mailedSig' = Signature[snap[r]]
  /\ Store(r)
  /\ polled' = (polled \/ step[r] = "poll")
  /\ MoveTo(r, "idle")
  /\ UNCHANGED <<created, at, doubted, snap, copy, overlapped, failures>>

\* The mail raises: the callback catches it inside its transaction and commits
\* the fields, the refresh rolls everything back.  The mail may be out.
SyncMailFails(r) ==
  /\ step[r] \in {"callback", "poll"}
  /\ IsNew(r, mailedSig)
  /\ Fails
  /\ IF step[r] = "callback" THEN Store(r) ELSE UNCHANGED <<hasId, shown>>
  /\ \/ MailOut(Signature[snap[r]]) /\ doubted' = doubted \union {Signature[snap[r]]}
     \/ UNCHANGED updateVars
  /\ MoveTo(r, "idle")
  /\ UNCHANGED <<created, at, mailedSig, polled, snap, copy, overlapped>>

-----------------------------------------------------------------------------
(* The webhook request that submits the order, on its own copy of it. *)

LoadOrder(r) ==
  /\ ~hasId
  /\ Begin(r, "loaded")
  /\ copy' = [copy EXCEPT ![r] = mailedSig]
  /\ UNCHANGED <<created, at, rowVars, updateVars, snap, failures>>

InSubmission(r) == step[r] \in {"answered", "stage", "send", "store"}

\* An order that got its id meanwhile, or is being submitted, is left alone.
SkipSubmission(r) ==
  /\ step[r] = "loaded"
  /\ hasId \/ \E q \in Requests : InSubmission(q)
  /\ MoveTo(r, "idle")
  /\ UNCHANGED <<created, at, rowVars, updateVars, snap, copy, overlapped,
                 failures>>

\* Prodigi's answer shows the order it has for this number.
Submit(r) ==
  /\ step[r] = "loaded"
  /\ ~hasId /\ \A q \in Requests : ~InSubmission(q)
  /\ created' = TRUE
  /\ snap' = [snap EXCEPT ![r] = at]
  /\ MoveTo(r, "answered")
  /\ UNCHANGED <<at, rowVars, updateVars, copy, overlapped, failures>>

SaveId(r) ==
  /\ step[r] = "answered"
  /\ hasId' = TRUE
  /\ MoveTo(r, "stage")
  /\ UNCHANGED <<created, at, shown, mailedSig, polled, updateVars, snap, copy,
                 overlapped, failures>>

SaveStage(r) ==
  /\ step[r] = "stage"
  /\ shown' = snap[r]
  /\ MoveTo(r, IF IsNew(r, copy[r]) THEN "send" ELSE "idle")
  /\ UNCHANGED <<created, at, hasId, mailedSig, polled, updateVars, snap, copy,
                 overlapped, failures>>

SendTrackingEmail(r) ==
  /\ step[r] = "send"
  /\ MailOut(Signature[snap[r]])
  /\ MoveTo(r, "store")
  /\ UNCHANGED <<created, at, rowVars, doubted, snap, copy, overlapped, failures>>

StoreSignature(r) ==
  /\ step[r] = "store"
  /\ mailedSig' = Signature[snap[r]]
  /\ MoveTo(r, "idle")
  /\ UNCHANGED <<created, at, hasId, shown, polled, updateVars, snap, copy,
                 overlapped, failures>>

\* A request dies, loses its transaction or meets an error: what it has not
\* stored is lost, and a mail it was sending may be out.
RequestFails(r) ==
  /\ step[r] # "idle"
  /\ Fails
  /\ LET s == Signature[snap[r]]
         mailing == \/ step[r] = "send"
                    \/ step[r] \in {"callback", "poll"} /\ IsNew(r, mailedSig)
     IN \/ mailing /\ MailOut(s) /\ doubted' = doubted \union {s}
        \/ step[r] = "store" /\ doubted' = doubted \union {s} /\ UNCHANGED updates
        \/ step[r] # "store" /\ UNCHANGED updateVars
  /\ \/ UNCHANGED created
     \/ step[r] = "loaded" /\ ~hasId /\ created' = TRUE
  /\ MoveTo(r, "idle")
  /\ UNCHANGED <<at, rowVars, snap, copy, overlapped>>

GoOn(r) ==
  \/ SyncSilently(r) \/ SyncAndMail(r) \/ SyncMailFails(r)
  \/ SkipSubmission(r) \/ Submit(r) \/ SaveId(r) \/ SaveStage(r)
  \/ SendTrackingEmail(r) \/ StoreSignature(r) \/ RequestFails(r)

TrackingNext ==
  \/ ProdigiAdvances
  \/ \E r \in Requests :
       \/ Callback(r) \/ Poll(r) \/ AdminRefresh(r) \/ PollFails(r)
       \/ LoadOrder(r) \/ GoOn(r)

TrackingSpec == TrackingInit /\ [][TrackingNext]_trackingVars

\* A request that runs ends; the scheduled command comes again.
FairTracking ==
  /\ TrackingSpec
  /\ \A r \in Requests : WF_trackingVars(GoOn(r))
  /\ WF_trackingVars(\E r \in Requests : Poll(r))

-----------------------------------------------------------------------------
\* A stored signature stands for a mail that went out: a failed mail is never
\* taken for a sent one, so that it is retried.
StoredWasMailed == mailedSig # Silent => updates[mailedSig] > 0

\* As long as requests for the order do not overlap, the customer gets one mail
\* per signature, unless one went out without being stored.
OnceWhenSequential ==
  ~overlapped => \A s \in Signatures \ doubted : updates[s] <= 1

\* Callbacks may all be lost and mails fail: once the order has shipped and its
\* id is known, the fallback gets a shipping mail out.
ShippedIsMailed ==
  hasId /\ Signature[at] # Silent ~> \E s \in Signatures : updates[s] > 0
=============================================================================
