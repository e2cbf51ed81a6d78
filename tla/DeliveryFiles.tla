--------------------------- MODULE DeliveryFiles ---------------------------
(***************************************************************************)
(* The files of one real-estate delivery: the staff page's multipart       *)
(* uploader (delivery_multipart_uploader.mjs), the upload views            *)
(* (delivery_views.py), the private bucket behind them and the scheduled   *)
(* maintain_realestate_deliveries command.                                 *)
(*                                                                         *)
(* An upload is one browser upload with its session row, its object key    *)
(* and, once it is complete, its deliverable row; they share a name.       *)
(* Completing and aborting are two transactions around a storage call.     *)
(* The first claims the session from INITIATED, so that at most one of     *)
(* them works on a session: work[u] is where the server is.  A request     *)
(* that finds the session taken answers 400 and changes nothing, as does   *)
(* one that is repeated after COMPLETED or ABORTED.  The page itself sends *)
(* no replaces_id; a replacing upload is one of another API client.        *)
(***************************************************************************)
EXTENDS Naturals, FiniteSets

CONSTANTS
  Uploads,      \* uploads the staff start
  Existing,     \* uploads that were completed before
  MaxFiles,     \* get_max_files()
  NoFile,       \* an upload that replaces nothing, a job that is at nothing
  MaxFaults     \* bound: refused storage calls and dying workers or jobs

ASSUME FilesAssumption ==
  /\ MaxFiles \in Nat \ {0}
  /\ Existing \cap Uploads = {}
  /\ IsFiniteSet(Existing) /\ Cardinality(Existing) <= MaxFiles
  /\ NoFile \notin Existing \cup Uploads
  /\ MaxFaults \in Nat

All == Existing \cup Uploads

VARIABLES
  client,    \* the page's upload: phase, cancelled
  sent,      \* requests of the page that no worker has taken up (yet, or ever)
  session,   \* RealEstateDeliveryUploadSession.status, NONE before the row
  replaces,  \* RealEstateDeliveryUploadSession.replaces
  aged,      \* the session was last saved stale_upload_hours ago
  work,      \* where the server's request on the session is
  store,     \* the bucket: none, open (multipart), done (object), gone
  file,      \* RealEstateDeliverable: none, active, inactive, deleted
  over,      \* the delivery's expires_at is REAL_ESTATE_DELIVERY_GRACE_DAYS ago
  job,       \* the maintenance command
  faults

vars == <<client, sent, session, replaces, aged, work, store, file, over, job, faults>>

Status  == {"NONE", "INITIATED", "COMPLETING", "COMPLETED", "ABORTING", "ABORTED", "FAILED"}
Phase   == {"new", "starting", "sending", "completing", "ended"}
Work    == {"idle", "checked", "created", "complete", "finished", "refused",
            "abort", "aborted", "abortFailed"}
JobStep == {"off", "stale", "orphans", "eligible"}

TypeOK ==
  /\ client \in [Uploads -> [phase : Phase, cancelled : BOOLEAN]]
  /\ sent \in [Uploads -> SUBSET {"complete", "abort"}]
  /\ session \in [All -> Status]
  /\ replaces \in [All -> All \cup {NoFile}]
  /\ aged \in [All -> BOOLEAN]
  /\ work \in [Uploads -> Work]
  /\ store \in [All -> {"none", "open", "done", "gone"}]
  /\ file \in [All -> {"none", "active", "inactive", "deleted"}]
  /\ over \in BOOLEAN
  /\ job \in [phase : JobStep, todo : SUBSET All, orphans : SUBSET All,
              at : All \cup {NoFile}, ok : BOOLEAN]
  /\ faults \in 0..MaxFaults
  \* a session is COMPLETED only together with its deliverable
  /\ \A u \in All : session[u] = "COMPLETED" => file[u] # "none"

Resting == [phase |-> "off", todo |-> {}, orphans |-> {}, at |-> NoFile, ok |-> TRUE]

Init ==
  /\ client = [u \in Uploads |-> [phase |-> "new", cancelled |-> FALSE]]
  /\ sent = [u \in Uploads |-> {}]
  /\ session = [u \in All |-> IF u \in Existing THEN "COMPLETED" ELSE "NONE"]
  /\ replaces = [u \in All |-> NoFile]
  /\ aged = [u \in All |-> FALSE]
  /\ work = [u \in Uploads |-> "idle"]
  /\ store = [u \in All |-> IF u \in Existing THEN "done" ELSE "none"]
  /\ file = [u \in All |-> IF u \in Existing THEN "active" ELSE "none"]
  /\ over = FALSE
  /\ job = Resting
  /\ faults = 0

----------------------------------------------------------------------------
Active == {u \in All : file[u] = "active"}

\* uploads that count against the limit before they are files
Reserved == {u \in Uploads : session[u] \in {"INITIATED", "COMPLETING"} /\ replaces[u] = NoFile}

\* status and updated_at are saved together, whatever the row says by then
Save(u, status) ==
  /\ session' = [session EXCEPT ![u] = status]
  /\ aged' = [aged EXCEPT ![u] = FALSE]

At(u, where) == work' = [work EXCEPT ![u] = where]

Fault == faults < MaxFaults /\ faults' = faults + 1

\* an abort of the multipart upload that fails, before or after its effect
MaybeAborted(u) == store' \in {store, [store EXCEPT ![u] = IF @ = "open" THEN "gone" ELSE @]}

----------------------------------------------------------------------------
(***************************************************************************)
(* The page.  Between two awaits it runs undisturbed, so the test of the   *)
(* cancelled flag and the sending of the complete request are one step.    *)
(***************************************************************************)
Goes(u, phase) == client' = [client EXCEPT ![u].phase = phase]

\* abortServerOnce, whose answer is swallowed, and the end of the promise; an
\* abort that would find the session taken is not kept
GiveUp(u) ==
  /\ Goes(u, "ended")
  /\ sent' = [sent EXCEPT ![u] = IF session[u] = "INITIATED" THEN @ \cup {"abort"} ELSE @]

\* the start request; DeliveryUploadStartSerializer.validate reads without a lock
Start(u) ==
  /\ client[u].phase = "new"
  /\ Goes(u, "starting")
  /\ \/ /\ Cardinality(Active) + Cardinality(Reserved) < MaxFiles
        /\ UNCHANGED replaces
     \/ \E f \in Active : replaces' = [replaces EXCEPT ![u] = f]
  /\ At(u, "checked")
  /\ UNCHANGED <<sent, session, aged, store, file, over, job, faults>>

\* the answer arrives, or the request fails while the server goes on
StartAnswered(u) ==
  /\ client[u].phase = "starting"
  /\ \/ /\ session[u] # "NONE" /\ work[u] = "idle" /\ client[u].cancelled
        /\ GiveUp(u)
     \/ /\ session[u] # "NONE" /\ work[u] = "idle" /\ ~client[u].cancelled
        /\ Goes(u, "sending") /\ UNCHANGED sent
     \/ Goes(u, "ended") /\ UNCHANGED sent
  /\ UNCHANGED <<session, replaces, aged, work, store, file, over, job, faults>>

\* every part has its ETag
PartsSent(u) ==
  /\ client[u].phase = "sending" /\ ~client[u].cancelled /\ store[u] = "open"
  /\ Goes(u, "completing")
  /\ sent' = [sent EXCEPT ![u] = @ \cup {"complete"}]
  /\ UNCHANGED <<session, replaces, aged, work, store, file, over, job, faults>>

\* a part fails retryLimit times, or the cancelled flag is seen
PartsFail(u) ==
  /\ client[u].phase = "sending"
  /\ GiveUp(u)
  /\ UNCHANGED <<session, replaces, aged, work, store, file, over, job, faults>>

\* Faulty: an upload can be cancelled while its complete request is out.
CancellableLate == {"starting", "sending", "completing"}
Cancellable == {"starting", "sending"}

Cancel(u) ==
  /\ client[u].phase \in Cancellable /\ ~client[u].cancelled
  /\ client' = [client EXCEPT ![u].cancelled = TRUE]
  /\ UNCHANGED <<sent, session, replaces, aged, work, store, file, over, job, faults>>

\* an answer of 200, another answer, or a connection that breaks before it
CompleteAnswered(u) ==
  /\ client[u].phase = "completing"
  /\ \/ session[u] = "COMPLETED" /\ work[u] = "idle" /\ Goes(u, "ended") /\ UNCHANGED sent
     \/ GiveUp(u)
  /\ UNCHANGED <<session, replaces, aged, work, store, file, over, job, faults>>

----------------------------------------------------------------------------
(***************************************************************************)
(* The upload views.                                                       *)
(***************************************************************************)
CreateMultipart(u) ==
  /\ work[u] = "checked"
  /\ \/ store' = [store EXCEPT ![u] = "open"] /\ At(u, "created") /\ UNCHANGED faults
     \/ Fault /\ At(u, "idle") /\ UNCHANGED store
  /\ UNCHANGED <<client, sent, session, replaces, aged, file, over, job>>

\* the row; when it cannot be inserted the view tries to abort the upload
InsertSession(u) ==
  /\ work[u] = "created" /\ At(u, "idle")
  /\ \/ Save(u, "INITIATED") /\ UNCHANGED <<store, faults>>
     \/ Fault /\ MaybeAborted(u) /\ UNCHANGED <<session, aged>>
  /\ UNCHANGED <<client, sent, replaces, file, over, job>>

Claim(u, request, status, where) ==
  /\ request \in sent[u] /\ session[u] = "INITIATED"
  /\ sent' = [sent EXCEPT ![u] = {}]     \* the other one is answered 400
  /\ Save(u, status) /\ At(u, where)
  /\ UNCHANGED <<client, replaces, store, file, over, job, faults>>

ClaimComplete(u) == Claim(u, "complete", "COMPLETING", "complete")
ClaimAbort(u)    == Claim(u, "abort", "ABORTING", "abort")

\* complete_upload: parts and object are right; the object is made and is
\* wrong or its answer is lost; nothing is made
CompleteStorage(u) ==
  /\ work[u] = "complete"
  /\ \/ /\ store[u] = "open" /\ store' = [store EXCEPT ![u] = "done"]
        /\ \E where \in {"finished", "refused"} : At(u, where)
        /\ UNCHANGED faults
     \/ store[u] # "open" /\ At(u, "refused") /\ UNCHANGED <<store, faults>>
     \/ Fault /\ At(u, "refused") /\ UNCHANGED store
  /\ UNCHANGED <<client, sent, session, replaces, aged, file, over, job>>

\* a conditional UPDATE, which leaves updated_at alone
VerificationFailed(u) ==
  /\ work[u] = "refused" /\ At(u, "idle")
  /\ session' = [session EXCEPT ![u] = IF @ = "COMPLETING" THEN "FAILED" ELSE @]
  /\ UNCHANGED <<client, sent, replaces, aged, store, file, over, job, faults>>

\* under the locks on delivery and replacement
Room == Cardinality(Active) < MaxFiles
\* Faulty: a file that was replaced meanwhile is replaced again.
ReplaceableRow(f) == file[f] # "none"

Replaceable(f) == file[f] = "active"
Accepted(u) == IF replaces[u] = NoFile THEN Room ELSE Replaceable(replaces[u])

\* Faulty: the session is COMPLETED before the limit is looked at.
DeliverMarked(u) ==
  /\ work[u] = "finished" /\ At(u, "idle") /\ Save(u, "COMPLETED")
  /\ file' = IF Accepted(u) THEN [file EXCEPT ![u] = "active"] ELSE file
  /\ UNCHANGED <<client, sent, replaces, store, over, job, faults>>

Deliver(u) ==
  /\ work[u] = "finished" /\ At(u, "idle")
  /\ \/ /\ Accepted(u)
        /\ Save(u, "COMPLETED")
        /\ file' = [f \in All |-> IF f = u THEN "active"
                                  ELSE IF f = replaces[u] THEN "inactive" ELSE file[f]]
     \/ /\ ~Accepted(u)
        /\ Save(u, "FAILED") /\ UNCHANGED file
  /\ UNCHANGED <<client, sent, replaces, store, over, job, faults>>

AbortStorage(u) ==
  /\ work[u] = "abort"
  /\ \/ store[u] = "open" /\ store' = [store EXCEPT ![u] = "gone"] /\ At(u, "aborted")
        /\ UNCHANGED faults
     \/ store[u] # "open" /\ At(u, "abortFailed") /\ UNCHANGED <<store, faults>>
     \/ Fault /\ At(u, "abortFailed") /\ MaybeAborted(u)
  /\ UNCHANGED <<client, sent, session, replaces, aged, file, over, job>>

\* saved outside a transaction, on the row as it was claimed
SaveAborted(u) ==
  /\ work[u] \in {"aborted", "abortFailed"} /\ At(u, "idle")
  /\ Save(u, IF work[u] = "aborted" THEN "ABORTED" ELSE "FAILED")
  /\ UNCHANGED <<client, sent, replaces, store, file, over, job, faults>>

\* the worker dies with its request
WorkerDies(u) ==
  /\ work[u] # "idle" /\ Fault /\ At(u, "idle")
  /\ UNCHANGED <<client, sent, session, replaces, aged, store, file, over, job>>

\* the deliverable's change form
Hide(u) ==
  /\ file[u] = "active" /\ file' = [file EXCEPT ![u] = "inactive"]
  /\ UNCHANGED <<client, sent, session, replaces, aged, work, store, over, job, faults>>

----------------------------------------------------------------------------
(***************************************************************************)
(* Time and maintain_realestate_deliveries --execute.  No request lasts    *)
(* stale_upload_hours.  The age of a session that is aborted or has its    *)
(* file is never looked at.  The orphans are listed before anything is     *)
(* done, the other two lists when their loop begins.                       *)
(***************************************************************************)
Age(u) ==
  /\ session[u] \in {"INITIATED", "COMPLETING", "FAILED"} /\ ~aged[u] /\ work[u] = "idle"
  /\ aged' = [aged EXCEPT ![u] = TRUE]
  /\ UNCHANGED <<client, sent, session, replaces, work, store, file, over, job, faults>>

RetentionEnds ==
  /\ ~over /\ over' = TRUE
  /\ UNCHANGED <<client, sent, session, replaces, aged, work, store, file, job, faults>>

Stale    == {u \in All : session[u] = "INITIATED" /\ aged[u]}
\* Faulty: sessions left COMPLETING are not searched.
SearchedEnded == {u \in All : session[u] \in {"COMPLETED", "FAILED"}}
Searched == {u \in All : session[u] \in {"COMPLETING", "COMPLETED", "FAILED"}}
\* Faulty: the age of a session is not looked at.
OrphansOfAnyAge == {u \in Searched : file[u] = "none"}
Orphans  == {u \in Searched : aged[u] /\ file[u] = "none"}
Eligible == {u \in All : over /\ file[u] \in {"active", "inactive"}}

Replaced(u) == \E v \in All : replaces[v] = u /\ file[v] \in {"active", "inactive"}

JobBegins ==
  /\ job.phase = "off"
  /\ Orphans \cup Stale \cup Eligible # {}
  /\ job' = [Resting EXCEPT !.phase = "stale", !.todo = Stale, !.orphans = Orphans]
  /\ UNCHANGED <<client, sent, session, replaces, aged, work, store, file, over, faults>>

JobMoves ==
  /\ job.at = NoFile /\ job.todo = {}
  /\ \/ job.phase = "stale" /\ job' = [job EXCEPT !.phase = "orphans", !.todo = job.orphans,
                                                  !.orphans = {}]
     \/ job.phase = "orphans" /\ job' = [job EXCEPT !.phase = "eligible", !.todo = Eligible]
     \/ job.phase = "eligible" /\ job' = Resting
  /\ UNCHANGED <<client, sent, session, replaces, aged, work, store, file, over, faults>>

JobTakes(u, ok) == job' = [job EXCEPT !.todo = @ \ {u}, !.at = u, !.ok = ok]

JobAborts(u) ==
  /\ job.phase = "stale" /\ job.at = NoFile /\ u \in job.todo
  /\ \/ /\ store[u] = "open" /\ store' = [store EXCEPT ![u] = "gone"]
        /\ JobTakes(u, TRUE) /\ UNCHANGED faults
     \/ store[u] # "open" /\ JobTakes(u, FALSE) /\ UNCHANGED <<store, faults>>
     \/ Fault /\ JobTakes(u, FALSE) /\ MaybeAborted(u)
  /\ UNCHANGED <<client, sent, session, replaces, aged, work, file, over>>

Delete(u) == store' = [store EXCEPT ![u] = IF @ = "none" THEN @ ELSE "gone"]

JobDeletes(u) ==
  /\ job.phase \in {"orphans", "eligible"} /\ job.at = NoFile /\ u \in job.todo
  /\ \/ /\ job.phase = "eligible" /\ Replaced(u)
        /\ job' = [job EXCEPT !.todo = @ \ {u}] /\ UNCHANGED <<store, faults>>
     \/ /\ job.phase = "orphans" \/ ~Replaced(u)
        /\ \/ Delete(u) /\ JobTakes(u, TRUE) /\ UNCHANGED faults
           \/ Fault /\ JobTakes(u, FALSE) /\ (UNCHANGED store \/ Delete(u))
  /\ UNCHANGED <<client, sent, session, replaces, aged, work, file, over>>

\* the row of the last storage call; any failure ends the command
JobSaves(u) ==
  /\ job.at = u
  /\ job' = IF job.ok THEN [job EXCEPT !.at = NoFile] ELSE Resting
  /\ CASE job.phase = "stale"   -> /\ Save(u, IF job.ok THEN "ABORTED" ELSE "FAILED")
                                   /\ UNCHANGED file
       [] job.phase = "orphans" -> /\ IF job.ok THEN Save(u, "FAILED")
                                                ELSE UNCHANGED <<session, aged>>
                                   /\ UNCHANGED file
       [] OTHER                 -> /\ file' = IF job.ok THEN [file EXCEPT ![u] = "deleted"] ELSE file
                                   /\ UNCHANGED <<session, aged>>
  /\ UNCHANGED <<client, sent, replaces, work, store, over, faults>>

JobDies ==
  /\ job.phase # "off" /\ Fault /\ job' = Resting
  /\ UNCHANGED <<client, sent, session, replaces, aged, work, store, file, over>>

----------------------------------------------------------------------------
Page(u)   == \/ Start(u) \/ StartAnswered(u) \/ PartsSent(u) \/ PartsFail(u)
             \/ Cancel(u) \/ CompleteAnswered(u)
Server(u) == \/ CreateMultipart(u) \/ InsertSession(u) \/ ClaimComplete(u) \/ ClaimAbort(u)
             \/ CompleteStorage(u) \/ VerificationFailed(u) \/ Deliver(u)
             \/ AbortStorage(u) \/ SaveAborted(u)
Job       == JobBegins \/ JobMoves \/ \E u \in All : JobAborts(u) \/ JobDeletes(u) \/ JobSaves(u)

Next ==
  \/ \E u \in Uploads : Page(u) \/ Server(u) \/ WorkerDies(u) \/ Age(u)
  \/ \E u \in All : Hide(u)
  \/ Job \/ JobDies \/ RetentionEnds

Spec == Init /\ [][Next]_vars

----------------------------------------------------------------------------
\* What recipients are offered: uploads that finish at the same time, each
\* admitted by an unlocked count, never put more files into the delivery than its
\* limit; and of a file and the uploads that replace it, directly or through
\* another replacement, one is active, also when two uploads replace the same file.
Older(u) == {v \in All : \/ v = replaces[u]
                         \/ replaces[u] # NoFile /\ v = replaces[replaces[u]]}
OfferIsSound ==
  /\ Cardinality(Active) <= MaxFiles
  /\ \A u, v \in Active : u # v => v \notin Older(u) /\ Older(u) \cap Older(v) = {}

\* As long as the delivery is retained, a row that is not deleted has its object:
\* neither the clean-up of stale and orphaned uploads nor an abort that overlaps
\* a completion takes a file away.
FilesKept ==
  ~over => \A u \in All : file[u] \in {"active", "inactive"} => store[u] = "done"

\* When the page has said "Upload cancelled. No deliverable was activated.", no
\* file appears, however late its requests are taken up and whatever they answer.
CancelledStaysOut ==
  \A u \in Uploads : client[u].cancelled => file[u] = "none"

\* An object that no deliverable refers to, and no request works on, belongs to
\* a session the maintenance searches for orphans: whatever died or failed on the
\* way, the bucket keeps no finished upload for ever.
OrphansAreFound ==
  \A u \in Uploads : store[u] = "done" /\ file[u] = "none" /\ work[u] = "idle"
                     => u \in Searched
=============================================================================
