---------------------------- MODULE VideoLibrary ----------------------------
(***************************************************************************)
(* One video of the shop, from the staff's uploads to a buyer's download:  *)
(* the multipart upload views (upload_views.py) that set the video's       *)
(* object keys, the change form of the video, the personal download tokens *)
(* of one sold item, and the claiming of its order by the buyer's account. *)
(*                                                                         *)
(* Completing and aborting an upload are two transactions around a storage *)
(* call; the first claims the session from INITIATED and is refused        *)
(* otherwise, so that work[u] is the only request past its claim.  A token *)
(* is looked for, and made when the item has none, in two statements that  *)
(* nothing holds together: by the order's confirmation mail, its retry,    *)
(* the order history and the protected download.                           *)
(***************************************************************************)
EXTENDS Naturals

CONSTANTS
  Masters,     \* uploads of the video's private master file
  Previews,    \* uploads of its public preview clip
  Before,      \* the object both keys name at first
  NoForm,      \* the change form is not open
  Mails,       \* confirmation mails of the order, and their retries
  Pages,       \* order history and protected download requests of the buyer
  Tokens,      \* bound: PersonalDownloadToken rows
  MaxFaults    \* bound: refused storage calls and dying workers

Uploads == Masters \cup Previews
Objects == Uploads \cup {Before}
Fields  == {"video_file_key", "preview_video_key"}
Requests == Mails \cup Pages

ASSUME LibraryAssumption ==
  /\ Masters \cap Previews = {} /\ Before \notin Uploads
  /\ NoForm \notin [Fields -> Objects]
  /\ MaxFaults \in Nat

VARIABLES
  status,      \* VideoUploadSession.status, NONE before the row
  targeted,    \* the session has the video as its target
  work,        \* where the server's request on the session is
  store,       \* the bucket: none, open (multipart), done (object), gone
  key,         \* the video's object keys
  form,        \* the keys in an open change form
  claimed,     \* the order belongs to the buyer's account
  tokens,      \* PersonalDownloadToken: none, valid, used, expired
  making,      \* requests that found no token and are about to make one
  overlapped,  \* two requests were about to make one at once
  faults

uploadVars == <<status, targeted, work, store>>
saleVars   == <<claimed, tokens, making, overlapped>>
vars == <<uploadVars, key, form, saleVars, faults>>

Status == {"NONE", "INITIATED", "COMPLETING", "COMPLETED", "ABORTING", "ABORTED", "FAILED"}
Work   == {"idle", "created", "complete", "finished", "refused", "abort", "aborted", "kept"}

TypeOK ==
  /\ status \in [Uploads -> Status]
  /\ targeted \in [Uploads -> BOOLEAN]
  /\ work \in [Uploads -> Work]
  /\ store \in [Objects -> {"none", "open", "done", "gone"}]
  /\ key \in [Fields -> Objects]
  /\ form \in [Fields -> Objects] \cup {NoForm}
  /\ claimed \in BOOLEAN
  /\ tokens \in [Tokens -> {"none", "valid", "used", "expired"}]
  /\ making \in SUBSET Requests
  /\ overlapped \in BOOLEAN
  /\ faults \in Nat
  \* a COMPLETED session has its object
  /\ \A u \in Uploads : status[u] = "COMPLETED" => store[u] = "done"

Init ==
  /\ status = [u \in Uploads |-> "NONE"]
  /\ targeted = [u \in Uploads |-> FALSE]
  /\ work = [u \in Uploads |-> "idle"]
  /\ store = [o \in Objects |-> IF o = Before THEN "done" ELSE "none"]
  /\ key = [f \in Fields |-> Before]
  /\ form = NoForm
  /\ claimed \in BOOLEAN
  /\ tokens = [t \in Tokens |-> "none"]
  /\ making = {} /\ overlapped = FALSE
  /\ faults = 0

----------------------------------------------------------------------------
Save(u, s)   == status' = [status EXCEPT ![u] = s]
At(u, where) == work' = [work EXCEPT ![u] = where]
Put(u, s)    == store' = [store EXCEPT ![u] = s]
Fault        == faults < MaxFaults /\ faults' = faults + 1

\* a storage call that fails, before or after its effect on the open upload
Maybe(u, s) == \/ store[u] = "open" /\ Put(u, s)
               \/ UNCHANGED store

\* the upload's field of the video
FieldOf(u) == IF u \in Masters THEN "video_file_key" ELSE "preview_video_key"

\* the storage call, before there is a row
Start(u) ==
  /\ store[u] = "none"
  /\ Put(u, "open") /\ At(u, "created")
  /\ \E video \in BOOLEAN : targeted' = [targeted EXCEPT ![u] = video]
  /\ UNCHANGED <<status, key, form, saleVars, faults>>

\* the row; when it cannot be inserted the view tries to abort the upload
InsertSession(u) ==
  /\ work[u] = "created" /\ At(u, "idle")
  /\ \/ Save(u, "INITIATED") /\ UNCHANGED <<store, faults>>
     \/ Fault /\ Maybe(u, "gone") /\ UNCHANGED status
  /\ UNCHANGED <<targeted, key, form, saleVars>>

\* the first transaction, under the row lock
Claim(u, s, where) ==
  /\ status[u] = "INITIATED"
  /\ Save(u, s) /\ At(u, where)
  /\ UNCHANGED <<targeted, store, key, form, saleVars, faults>>

ClaimComplete(u) == Claim(u, "COMPLETING", "complete")
ClaimAbort(u)    == Claim(u, "ABORTING", "abort")

\* Faulty: a failed storage call counts as a finished one.
CompleteIgnored(u) ==
  /\ work[u] = "complete" /\ At(u, "finished")
  /\ \/ store[u] = "open" /\ Put(u, "done") /\ UNCHANGED faults
     \/ Fault /\ Maybe(u, "done")
  /\ UNCHANGED <<status, targeted, key, form, saleVars>>

\* the bucket makes the object; it makes it and the answer is lost; it refuses
CompleteStorage(u) ==
  /\ work[u] = "complete"
  /\ \/ store[u] = "open" /\ Put(u, "done") /\ At(u, "finished") /\ UNCHANGED faults
     \/ Fault /\ Maybe(u, "done") /\ At(u, "refused")
     \/ UNCHANGED <<store, faults>> /\ At(u, "refused")
  /\ UNCHANGED <<status, targeted, key, form, saleVars>>

CompleteFails(u) ==
  /\ work[u] = "refused" /\ At(u, "idle")
  /\ Save(u, IF status[u] = "COMPLETING" THEN "FAILED" ELSE status[u])
  /\ UNCHANGED <<targeted, store, key, form, saleVars, faults>>

\* Faulty: a refused upload is COMPLETED too.
FinishAnyway(u) ==
  /\ work[u] \in {"finished", "refused"} /\ At(u, "idle")
  /\ Save(u, "COMPLETED")
  /\ UNCHANGED <<targeted, store, key, form, saleVars, faults>>

\* the second transaction: the session and the one field of the video
Finish(u) ==
  /\ work[u] = "finished" /\ At(u, "idle")
  /\ IF status[u] = "COMPLETING"
       THEN /\ Save(u, "COMPLETED")
            /\ key' = IF targeted[u] THEN [key EXCEPT ![FieldOf(u)] = u] ELSE key
       ELSE UNCHANGED <<status, key>>
  /\ UNCHANGED <<targeted, store, form, saleVars, faults>>

AbortStorage(u) ==
  /\ work[u] = "abort"
  /\ \/ store[u] = "open" /\ Put(u, "gone") /\ At(u, "aborted") /\ UNCHANGED faults
     \/ Fault /\ Maybe(u, "gone") /\ At(u, "kept")
  /\ UNCHANGED <<status, targeted, key, form, saleVars>>

FinishAbort(u) ==
  /\ work[u] \in {"aborted", "kept"} /\ At(u, "idle")
  /\ Save(u, IF status[u] # "ABORTING" THEN status[u]
             ELSE IF work[u] = "aborted" THEN "ABORTED" ELSE "FAILED")
  /\ UNCHANGED <<targeted, store, key, form, saleVars, faults>>

\* the session stays COMPLETING or ABORTING: nothing takes it up again
WorkerDies(u) ==
  /\ work[u] # "idle" /\ Fault /\ At(u, "idle")
  /\ UNCHANGED <<status, targeted, store, key, form, saleVars>>

----------------------------------------------------------------------------
\* VideoAdmin: both keys are fields of the form, and all of its fields are saved;
\* staff may type the key of an object they see in the bucket.
OpenForm ==
  /\ form = NoForm /\ form' = key
  /\ UNCHANGED <<uploadVars, key, saleVars, faults>>

SaveForm ==
  /\ form # NoForm /\ form' = NoForm
  /\ \/ key' = form
     \/ \E u \in Uploads : store[u] = "done" /\ key' = [form EXCEPT ![FieldOf(u)] = u]
  /\ UNCHANGED <<uploadVars, saleVars, faults>>

----------------------------------------------------------------------------
\* claim_guest_orders_for_user: after a sign-in, and before each order history
ClaimOrder ==
  /\ ~claimed /\ claimed' = TRUE
  /\ UNCHANGED <<uploadVars, key, form, tokens, making, overlapped, faults>>

Made(t) == tokens[t] # "none"

\* Faulty: used and expired tokens do not refuse a new one.
BlockedByValid == \E t \in Tokens : tokens[t] = "valid"

\* ensure_personal_download_token with no row for the item; a valid row is
\* answered again, and a used or expired one refuses, which changes nothing
Blocked == \E t \in Tokens : Made(t)

\* the account's pages answer for its own orders only
Entitled(r) == r \in Pages => claimed

FindNoToken(r) ==
  /\ Entitled(r) /\ r \notin making /\ ~Blocked
  /\ making' = making \cup {r}
  /\ overlapped' = (overlapped \/ making # {})
  /\ UNCHANGED <<uploadVars, key, form, claimed, tokens, faults>>

MakeToken(r) ==
  /\ r \in making /\ making' = making \ {r}
  /\ \E t \in Tokens : ~Made(t) /\ tokens' = [tokens EXCEPT ![t] = "valid"]
  /\ UNCHANGED <<uploadVars, key, form, claimed, overlapped, faults>>

\* PersonalAssetDownloadView, one transaction under the token's row lock; a file
\* that is not there is answered 404 and leaves the token
Downloadable == store[key["video_file_key"]] = "done"

Redeem(t) ==
  /\ tokens[t] = "valid" /\ Downloadable
  /\ tokens' = [tokens EXCEPT ![t] = "used"]
  /\ UNCHANGED <<uploadVars, key, form, claimed, making, overlapped, faults>>

Expire(t) ==
  /\ tokens[t] = "valid" /\ tokens' = [tokens EXCEPT ![t] = "expired"]
  /\ UNCHANGED <<uploadVars, key, form, claimed, making, overlapped, faults>>

----------------------------------------------------------------------------
Upload(u) == \/ Start(u) \/ InsertSession(u) \/ ClaimComplete(u) \/ ClaimAbort(u)
             \/ CompleteStorage(u) \/ CompleteFails(u) \/ Finish(u)
             \/ AbortStorage(u) \/ FinishAbort(u) \/ WorkerDies(u)

Next ==
  \/ \E u \in Uploads : Upload(u)
  \/ OpenForm \/ SaveForm \/ ClaimOrder
  \/ \E r \in Requests : FindNoToken(r) \/ MakeToken(r)
  \/ \E t \in Tokens : Redeem(t) \/ Expire(t)

Spec == Init /\ [][Next]_vars

----------------------------------------------------------------------------
\* The video never names an object that is not in the bucket, so that what is
\* sold can be downloaded: not while an upload fails or is aborted, not when its
\* answer is lost, and not when a change form puts older keys back.
KeyNamesObject == \A f \in Fields : store[key[f]] = "done"

\* A buyer's link works once, over all links ever made for the item, unless two
\* requests looked for its first token at the same time.
OneUse ==
  ~overlapped => \A s, t \in Tokens : tokens[s] = "used" /\ tokens[t] = "used" => s = t
=============================================================================
