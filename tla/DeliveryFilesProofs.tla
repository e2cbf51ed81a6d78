------------------------ MODULE DeliveryFilesProofs -------------------------
(***************************************************************************)
(* Theorems of DeliveryFiles for any uploads, limit and number of faults.  *)
(***************************************************************************)
EXTENDS DeliveryFiles, FiniteSetTheorems, TLAPS

Filed(u) == file[u] # "none"

\* The page asked for the completion, or the server works on it, or did it.
Completing(u) ==
  "complete" \in sent[u] \/ work[u] \in {"complete", "finished", "refused"} \/ Filed(u)

SearchedStatus == {"COMPLETING", "COMPLETED", "FAILED"}

\* What page, request, session row, bucket and deliverable of one upload agree on
UploadOK(u) ==
  /\ client[u].phase = "new"
       => session[u] = "NONE" /\ work[u] = "idle" /\ sent[u] = {} /\ store[u] = "none"
  /\ session[u] = "NONE" => work[u] \in {"idle", "checked", "created"}
  /\ session[u] = "INITIATED" => work[u] = "idle"
  /\ Filed(u) => work[u] = "idle" /\ session[u] \notin {"NONE", "INITIATED"}
  /\ aged[u] => work[u] = "idle" /\ session[u] # "NONE"
  /\ Completing(u) => client[u].phase \in {"completing", "ended"} /\ ~client[u].cancelled
  /\ work[u] \in {"checked", "created"} => session[u] = "NONE"
  /\ work[u] = "checked" => store[u] = "none"
  /\ store[u] = "done" => session[u] \in SearchedStatus
  /\ work[u] = "complete" /\ store[u] = "open" => session[u] \in SearchedStatus
  /\ work[u] = "finished" => store[u] = "done"
  /\ work[u] = "aborted" => store[u] = "gone"

\* No request will ever take up this session, and it has no file.
Dead(u) ==
  u \in Uploads /\ session[u] \notin {"NONE", "INITIATED"} /\ work[u] = "idle" /\ ~Filed(u)

\* The command works on sessions that were stored, on orphans that stay so and,
\* only after the retention, on files.
JobOK ==
  /\ job.phase = "off" => job.at = NoFile /\ job.todo = {}
  /\ \A u \in All : u \in job.todo \/ u = job.at =>
       /\ job.phase = "stale" => u \in Uploads /\ session[u] # "NONE"
       /\ job.phase = "orphans" => Dead(u)
       /\ job.phase = "eligible" => over /\ Filed(u)
  /\ \A u \in job.orphans : Dead(u)
  /\ \A u \in All : u = job.at /\ job.phase = "stale" /\ job.ok => store[u] = "gone"

\* Only files are replaced, and only sessions that somebody started grow old.
RowsOK ==
  /\ \A u \in All : replaces[u] # NoFile => Filed(replaces[u])
  /\ \A u \in All : aged[u] => u \in Uploads

FilesInv ==
  /\ TypeOK
  /\ \A u \in Uploads : UploadOK(u)
  /\ JobOK
  /\ RowsOK
  /\ FilesKept

\* Of a file and what replaces it one is active, and the limit holds.
OfferInv == IsFiniteSet(Active) /\ OfferIsSound

-----------------------------------------------------------------------------
(* What every step leaves alone *)

\* Nothing but upload u changed.
OnlyAt(u) ==
  /\ \A v \in All \ {u} :
       /\ session'[v] = session[v] /\ aged'[v] = aged[v] /\ store'[v] = store[v]
       /\ Filed(v)' = Filed(v)
  /\ \A v \in Uploads \ {u} :
       client'[v] = client[v] /\ sent'[v] = sent[v] /\ work'[v] = work[v]

\* A session that was stored, a file, a freed object and a dead session stay so.
ForwardAt(u) ==
  /\ session[u] # "NONE" => session'[u] # "NONE"
  /\ Filed(u) => Filed(u)'
  /\ store[u] = "gone" => store'[u] = "gone"
  /\ Dead(u) => Dead(u)'

LEMMA OthersOK ==
  ASSUME NEW u \in All, OnlyAt(u), NEW v \in Uploads, v # u, UploadOK(v)
  PROVE  UploadOK(v)'
<1>1. v \in All \ {u} /\ v \in Uploads \ {u}  BY DEF All
<1> QED  BY <1>1 DEF OnlyAt, UploadOK, Completing, Filed

LEMMA OthersForward ==
  ASSUME NEW u \in All, OnlyAt(u), ForwardAt(u), NEW v \in All
  PROVE  ForwardAt(v)
<1>1. CASE v = u  BY <1>1
<1>2. CASE v # u
  <2>1. v \in All \ {u} /\ (v \in Uploads => v \in Uploads \ {u})  BY <1>2
  <2> QED  BY <2>1 DEF OnlyAt, ForwardAt, Dead
<1> QED  BY <1>1, <1>2

LEMMA LocalRows ==
  ASSUME FilesInv, NEW u \in All, OnlyAt(u), ForwardAt(u),
         \A v \in All : replaces'[v] \in {replaces[v], NoFile} \cup Active,
         u \in Uploads => UploadOK(u)',
         aged'[u] => aged[u] \/ u \in Uploads
  PROVE  /\ \A v \in Uploads : UploadOK(v)'
         /\ \A v \in All : ForwardAt(v)
         /\ RowsOK'
<1>1. \A v \in Uploads : UploadOK(v)'  BY OthersOK DEF FilesInv
<1>2. \A v \in All : ForwardAt(v)  BY OthersForward
<1>3. \A v \in All : replaces[v] # NoFile => replaces[v] \in All
  BY DEF FilesInv, TypeOK
<1>4. ASSUME NEW v \in All, replaces'[v] # NoFile
      PROVE  file'[replaces'[v]] # "none"
  <2>1. replaces'[v] \in All /\ Filed(replaces'[v])
    BY <1>3, <1>4 DEF FilesInv, RowsOK, Active, Filed
  <2> QED  BY <1>2, <2>1 DEF ForwardAt, Filed
<1>5. \A v \in All : aged'[v] => v \in Uploads  BY DEF FilesInv, RowsOK, OnlyAt
<1>6. RowsOK'  BY <1>4, <1>5 DEF RowsOK, Filed
<1> QED  BY <1>1, <1>2, <1>6

\* The command goes on with what is left of its list.
LEMMA JobGoes ==
  ASSUME TypeOK, JobOK, \A v \in All : ForwardAt(v), over => over',
         job'.phase = job.phase, job'.todo \subseteq job.todo, job'.orphans = job.orphans,
         job'.at \in {job.at, NoFile} \cup job.todo,
         \A v \in All : v = job'.at /\ job.phase = "stale" /\ job'.ok
                          => (v = job.at /\ job.ok) \/ store'[v] = "gone"
  PROVE  JobOK'
<1>1. job.orphans \subseteq All /\ NoFile \notin All  BY FilesAssumption DEF TypeOK, All
<1>2. \A v \in All : v \in job'.todo \/ v = job'.at =>
        /\ job'.phase = "stale" => v \in Uploads /\ session'[v] # "NONE"
        /\ job'.phase = "orphans" => Dead(v)'
        /\ job'.phase = "eligible" => over' /\ Filed(v)'
  BY <1>1 DEF JobOK, ForwardAt
<1>3. \A v \in job'.orphans : Dead(v)'  BY <1>1 DEF JobOK, ForwardAt
<1>4. \A v \in All : v = job'.at /\ job'.phase = "stale" /\ job'.ok => store'[v] = "gone"
  BY DEF JobOK, ForwardAt
<1>5. job'.phase = "off" => job'.at = NoFile /\ job'.todo = {}  BY DEF JobOK
<1> QED  BY <1>2, <1>3, <1>4, <1>5 DEF JobOK

LEMMA LocalStep ==
  ASSUME FilesInv, NEW u \in All, OnlyAt(u), ForwardAt(u),
         job' = job, over => over',
         \A v \in All : replaces'[v] \in {replaces[v], NoFile} \cup Active,
         u \in Uploads => UploadOK(u)',
         aged'[u] => aged[u] \/ u \in Uploads
  PROVE  (\A v \in Uploads : UploadOK(v)') /\ JobOK' /\ RowsOK'
<1>1. (\A v \in Uploads : UploadOK(v)') /\ (\A v \in All : ForwardAt(v)) /\ RowsOK'
  BY LocalRows
<1>2. JobOK'  BY <1>1, JobGoes DEF FilesInv
<1> QED  BY <1>1, <1>2

\* Files that stay, whose objects stay
LEMMA KeptFrame ==
  ASSUME FilesKept, over => over',
         \A u \in All : file'[u] \in {"active", "inactive"}
           => file[u] \in {"active", "inactive"} /\ (store[u] = "done" => store'[u] = "done")
  PROVE  FilesKept'
BY DEF FilesKept

LEMMA InitHolds == Init => FilesInv
<1> SUFFICES ASSUME Init PROVE FilesInv
  OBVIOUS
<1>0. MaxFaults \in Nat /\ Existing \cap Uploads = {} /\ NoFile \notin All
  BY FilesAssumption DEF All
<1>1. /\ client \in [Uploads -> [phase : Phase, cancelled : BOOLEAN]]
      /\ sent \in [Uploads -> SUBSET {"complete", "abort"}]
  BY DEF Init, Phase
<1>2. session \in [All -> Status] /\ replaces \in [All -> All \cup {NoFile}]
  BY DEF Init, Status
<1>3. aged \in [All -> BOOLEAN] /\ work \in [Uploads -> Work]  BY DEF Init, Work
<1>4. /\ store \in [All -> {"none", "open", "done", "gone"}]
      /\ file \in [All -> {"none", "active", "inactive", "deleted"}]
  BY DEF Init
<1>5. /\ job \in [phase : JobStep, todo : SUBSET All, orphans : SUBSET All,
                  at : All \cup {NoFile}, ok : BOOLEAN]
  BY DEF Init, Resting, JobStep
<1>6. over \in BOOLEAN /\ faults = 0  BY DEF Init
<1>7. faults \in 0..MaxFaults  BY <1>0, <1>6
<1>8. \A u \in All : session[u] = "COMPLETED" => file[u] # "none"  BY DEF Init
<1>9. TypeOK  BY <1>1, <1>2, <1>3, <1>4, <1>5, <1>6, <1>7, <1>8 DEF TypeOK
<1>10. ASSUME NEW u \in Uploads PROVE UploadOK(u)
  <2>1. u \in All /\ u \notin Existing  BY <1>0 DEF All
  <2>2. /\ client[u].phase = "new" /\ session[u] = "NONE" /\ work[u] = "idle" /\ sent[u] = {}
        /\ store[u] = "none" /\ file[u] = "none" /\ aged[u] = FALSE
    BY <2>1 DEF Init
  <2> QED  BY <2>2 DEF UploadOK, Completing, Filed
<1>11. JobOK  BY <1>0 DEF Init, Resting, JobOK
<1>12. RowsOK  BY DEF Init, RowsOK
<1>13. FilesKept  BY DEF Init, FilesKept
<1> QED  BY <1>9, <1>10, <1>11, <1>12, <1>13 DEF FilesInv

-----------------------------------------------------------------------------
(* The page *)

LEMMA PageFrame ==
  ASSUME FilesInv, NEW u \in Uploads, client[u].phase # "new",
         UNCHANGED <<session, replaces, aged, work, store, file, over, job, faults>>,
         NEW c \in [phase : Phase, cancelled : BOOLEAN], c.phase # "new",
         client' = [client EXCEPT ![u] = c],
         NEW s \in SUBSET {"complete", "abort"}, sent' = [sent EXCEPT ![u] = s],
         "complete" \in s \/ Completing(u) => c.phase \in {"completing", "ended"} /\ ~c.cancelled
  PROVE  FilesInv'
<1>1. TypeOK  BY DEF FilesInv
<1>2. client'[u] = c /\ sent'[u] = s /\ u \in All  BY <1>1 DEF TypeOK, All
<1>3. /\ client' \in [Uploads -> [phase : Phase, cancelled : BOOLEAN]]
      /\ sent' \in [Uploads -> SUBSET {"complete", "abort"}]
  BY <1>1 DEF TypeOK
<1>4. TypeOK'  BY <1>1, <1>3 DEF TypeOK
<1>5. OnlyAt(u)  BY <1>1 DEF TypeOK, OnlyAt, Filed
<1>6. ForwardAt(u)  BY DEF ForwardAt, Dead, Filed
<1>7. UploadOK(u)  BY DEF FilesInv
<1>8. Completing(u)' => "complete" \in s \/ Completing(u)  BY <1>2 DEF Completing, Filed
<1>9. Completing(u)' => c.phase \in {"completing", "ended"} /\ ~c.cancelled  BY <1>8
<1>10. UploadOK(u)'  BY <1>2, <1>7, <1>9 DEF UploadOK, Filed
<1>11. (\A v \in Uploads : UploadOK(v)') /\ JobOK' /\ RowsOK'
  BY <1>2, <1>5, <1>6, <1>10, LocalStep
<1>12. FilesKept'  BY DEF FilesInv, FilesKept
<1> QED  BY <1>4, <1>11, <1>12 DEF FilesInv

LEMMA GoesTyped ==
  ASSUME TypeOK, NEW u \in Uploads, NEW phase \in Phase
  PROVE  LET c == [client[u] EXCEPT !.phase = phase]
         IN  /\ c \in [phase : Phase, cancelled : BOOLEAN]
             /\ c.phase = phase /\ c.cancelled = client[u].cancelled
             /\ Goes(u, phase) => client' = [client EXCEPT ![u] = c]
<1>1. client[u] \in [phase : Phase, cancelled : BOOLEAN]  BY DEF TypeOK
<1> QED  BY <1>1 DEF Goes

LEMMA PageStep ==
  ASSUME FilesInv, NEW u \in Uploads,
         StartAnswered(u) \/ PartsSent(u) \/ PartsFail(u) \/ Cancel(u) \/ CompleteAnswered(u)
  PROVE  FilesInv'
<1>0. TypeOK /\ UploadOK(u)  BY DEF FilesInv
<1>1. /\ UNCHANGED <<session, replaces, aged, work, store, file, over, job, faults>>
      /\ client[u].phase # "new"
  BY DEF StartAnswered, PartsSent, PartsFail, Cancel, CompleteAnswered, Cancellable
<1>2. Completing(u) => client[u].phase \in {"completing", "ended"} /\ ~client[u].cancelled
  BY <1>0 DEF UploadOK
<1>3. "complete" \in sent[u] => Completing(u)  BY DEF Completing
<1>4. sent[u] \in SUBSET {"complete", "abort"}  BY <1>0 DEF TypeOK
<1>5. sent = [sent EXCEPT ![u] = sent[u]]  BY <1>0 DEF TypeOK
<1>6. ASSUME NEW phase \in Phase, phase # "new", Goes(u, phase),
             NEW s \in SUBSET {"complete", "abort"}, sent' = [sent EXCEPT ![u] = s],
             "complete" \in s \/ Completing(u)
               => phase \in {"completing", "ended"} /\ ~client[u].cancelled
      PROVE  FilesInv'
  <2> DEFINE c == [client[u] EXCEPT !.phase = phase]
  <2>1. /\ c \in [phase : Phase, cancelled : BOOLEAN]
        /\ c.phase = phase /\ c.cancelled = client[u].cancelled
        /\ client' = [client EXCEPT ![u] = c]
    BY <1>0, <1>6, GoesTyped
  <2> HIDE DEF c
  <2> QED  BY <1>1, <1>6, <2>1, PageFrame
<1>7. ASSUME GiveUp(u), client[u].phase \in {"starting", "sending", "completing"}
      PROVE  FilesInv'
  <2> DEFINE s == IF session[u] = "INITIATED" THEN sent[u] \cup {"abort"} ELSE sent[u]
  <2>1. Goes(u, "ended") /\ sent' = [sent EXCEPT ![u] = s]  BY <1>7 DEF GiveUp
  <2>2. s \in SUBSET {"complete", "abort"} /\ ("complete" \in s => "complete" \in sent[u])
    BY <1>4
  <2>3. "ended" \in Phase  BY DEF Phase
  <2> HIDE DEF s
  <2> QED  BY <1>2, <1>3, <1>6, <2>1, <2>2, <2>3
<1>8. ASSUME NEW phase \in {"sending", "ended"}, Goes(u, phase), sent' = sent,
             phase = "sending" => client[u].phase = "starting"
      PROVE  FilesInv'
  <2>1. phase \in Phase /\ phase # "new"  BY DEF Phase
  <2>2. Completing(u) => phase \in {"completing", "ended"} /\ ~client[u].cancelled
    BY <1>2, <1>8
  <2>3. sent' = [sent EXCEPT ![u] = sent[u]]  BY <1>5, <1>8
  <2> QED  BY <1>3, <1>4, <1>6, <1>8, <2>1, <2>2, <2>3
<1>9. CASE StartAnswered(u)  BY <1>7, <1>8, <1>9 DEF StartAnswered
<1>10. CASE PartsFail(u)  BY <1>7, <1>10 DEF PartsFail
<1>11. CASE CompleteAnswered(u)  BY <1>7, <1>8, <1>11 DEF CompleteAnswered
<1>12. CASE PartsSent(u)
  <2>1. /\ client[u].phase = "sending" /\ ~client[u].cancelled /\ Goes(u, "completing")
        /\ sent' = [sent EXCEPT ![u] = sent[u] \cup {"complete"}]
    BY <1>12 DEF PartsSent
  <2>2. sent[u] \cup {"complete"} \in SUBSET {"complete", "abort"}  BY <1>4
  <2>3. "completing" \in Phase  BY DEF Phase
  <2> QED  BY <1>6, <2>1, <2>2, <2>3
<1>13. CASE Cancel(u)
  <2> DEFINE c == [client[u] EXCEPT !.cancelled = TRUE]
  <2>1. client[u] \in [phase : Phase, cancelled : BOOLEAN]  BY <1>0 DEF TypeOK
  <2>2. /\ client[u].phase \in {"starting", "sending"} /\ sent' = sent
        /\ client' = [client EXCEPT ![u] = c]
    BY <1>13 DEF Cancel, Cancellable
  <2>3. c \in [phase : Phase, cancelled : BOOLEAN] /\ c.phase = client[u].phase  BY <2>1
  <2>4. ~Completing(u) /\ "complete" \notin sent[u]  BY <1>2, <1>3, <2>2
  <2>5. sent' = [sent EXCEPT ![u] = sent[u]]  BY <1>5, <2>2
  <2> HIDE DEF c
  <2> QED  BY <1>1, <1>4, <2>2, <2>3, <2>4, <2>5, PageFrame
<1> QED  BY <1>9, <1>10, <1>11, <1>12, <1>13

-----------------------------------------------------------------------------
(* The upload views *)

\* A step of the server on one session that neither makes a file nor frees one's
\* object, in terms of the new values
LEMMA ServerFrame ==
  ASSUME FilesInv, NEW u \in Uploads,
         UNCHANGED <<client, replaces, file, over, job>>, faults' \in 0..MaxFaults,
         NEW t \in SUBSET {"complete", "abort"}, sent' = [sent EXCEPT ![u] = t],
         NEW s \in Status, session' = [session EXCEPT ![u] = s], s = "COMPLETED" => Filed(u),
         NEW a \in BOOLEAN, aged' = [aged EXCEPT ![u] = a],
         NEW w \in Work, work' = [work EXCEPT ![u] = w],
         NEW b \in {"none", "open", "done", "gone"}, store' = [store EXCEPT ![u] = b],
         store[u] \in {"done", "gone"} => b = store[u],
         session[u] # "NONE" => s # "NONE",
         Dead(u) => s # "INITIATED" /\ w = "idle",
         UploadOK(u)'
  PROVE  FilesInv'
<1>1. TypeOK  BY DEF FilesInv
<1>2. u \in All  BY DEF All
<1>3. /\ sent'[u] = t /\ session'[u] = s /\ aged'[u] = a /\ work'[u] = w /\ store'[u] = b
      /\ Filed(u)' = Filed(u)
  BY <1>1, <1>2 DEF TypeOK, Filed
<1>4. TypeOK'
  <2>1. sent' \in [Uploads -> SUBSET {"complete", "abort"}]  BY <1>1 DEF TypeOK
  <2>2. session' \in [All -> Status]  BY <1>1 DEF TypeOK
  <2>3. aged' \in [All -> BOOLEAN]  BY <1>1 DEF TypeOK
  <2>4. work' \in [Uploads -> Work]  BY <1>1 DEF TypeOK
  <2>5. store' \in [All -> {"none", "open", "done", "gone"}]  BY <1>1 DEF TypeOK
  <2>6. \A v \in All : session'[v] = "COMPLETED" => file'[v] # "none"
    BY <1>1, <1>2 DEF TypeOK, Filed
  <2> QED  BY <1>1, <2>1, <2>2, <2>3, <2>4, <2>5, <2>6 DEF TypeOK
<1>5. OnlyAt(u)
  <2>1. ASSUME NEW v \in All \ {u}
        PROVE  /\ session'[v] = session[v] /\ aged'[v] = aged[v] /\ store'[v] = store[v]
               /\ Filed(v)' = Filed(v)
    BY <1>1 DEF TypeOK, Filed
  <2>2. ASSUME NEW v \in Uploads \ {u}
        PROVE  client'[v] = client[v] /\ sent'[v] = sent[v] /\ work'[v] = work[v]
    BY <1>1 DEF TypeOK
  <2> QED  BY <2>1, <2>2 DEF OnlyAt
<1>6. ForwardAt(u)  BY <1>3 DEF ForwardAt, Dead
<1>7. (\A v \in Uploads : UploadOK(v)') /\ JobOK' /\ RowsOK'
  BY <1>2, <1>5, <1>6, LocalStep
<1>8. \A v \in All : store[v] = "done" => store'[v] = "done"  BY <1>1, <1>2 DEF TypeOK
<1>9. FilesKept'  BY <1>8, KeptFrame DEF FilesInv
<1> QED  BY <1>4, <1>7, <1>9 DEF FilesInv

\* Values that a step does not name stay.
LEMMA Unnamed ==
  ASSUME TypeOK, NEW u \in Uploads
  PROVE  /\ u \in All
         /\ sent[u] \in SUBSET {"complete", "abort"} /\ session[u] \in Status
         /\ aged[u] \in BOOLEAN /\ work[u] \in Work
         /\ store[u] \in {"none", "open", "done", "gone"}
         /\ sent = [sent EXCEPT ![u] = sent[u]] /\ session = [session EXCEPT ![u] = session[u]]
         /\ aged = [aged EXCEPT ![u] = aged[u]] /\ work = [work EXCEPT ![u] = work[u]]
         /\ store = [store EXCEPT ![u] = store[u]]
         /\ session[u] = "COMPLETED" => Filed(u)
         /\ faults \in 0..MaxFaults /\ (Fault => faults' \in 0..MaxFaults)
<1>1. u \in All  BY DEF All
<1>2. MaxFaults \in Nat /\ faults \in 0..MaxFaults  BY FilesAssumption DEF TypeOK
<1>3. Fault => faults' \in 0..MaxFaults  BY <1>2 DEF Fault
<1>4. /\ sent[u] \in SUBSET {"complete", "abort"} /\ session[u] \in Status
      /\ work[u] \in Work /\ store[u] \in {"none", "open", "done", "gone"}
  BY <1>1 DEF TypeOK
<1>5. aged[u] \in BOOLEAN  BY <1>1 DEF TypeOK
<1>6. sent = [sent EXCEPT ![u] = sent[u]] /\ session = [session EXCEPT ![u] = session[u]]
  BY DEF TypeOK
<1>7. aged = [aged EXCEPT ![u] = aged[u]]  BY DEF TypeOK
<1>8. work = [work EXCEPT ![u] = work[u]] /\ store = [store EXCEPT ![u] = store[u]]
  BY DEF TypeOK
<1>9. session[u] = "COMPLETED" => Filed(u)  BY <1>1 DEF TypeOK, Filed
<1> QED  BY <1>1, <1>2, <1>3, <1>4, <1>5, <1>6, <1>7, <1>8, <1>9

LEMMA CreateStep ==
  ASSUME FilesInv, NEW u \in Uploads, CreateMultipart(u)
  PROVE  FilesInv'
<1>1. TypeOK /\ UploadOK(u)  BY DEF FilesInv
<1>2. /\ work[u] = "checked"
      /\ UNCHANGED <<client, sent, session, replaces, aged, file, over, job>>
      /\ \/ /\ store' = [store EXCEPT ![u] = "open"] /\ work' = [work EXCEPT ![u] = "created"]
            /\ faults' = faults
         \/ Fault /\ work' = [work EXCEPT ![u] = "idle"] /\ store' = store
  BY DEF CreateMultipart, At
<1>3. /\ store[u] = "none" /\ session[u] = "NONE" /\ ~Filed(u) /\ ~aged[u]
      /\ client[u].phase # "new"
  BY <1>1, <1>2 DEF UploadOK
<1>5. PICK w \in {"created", "idle"}, b \in {"open", "none"} :
        /\ work' = [work EXCEPT ![u] = w] /\ store' = [store EXCEPT ![u] = b]
        /\ faults' \in 0..MaxFaults
  BY <1>1, <1>2, <1>3, Unnamed
<1>6. work'[u] = w /\ store'[u] = b  BY <1>1, <1>5, Unnamed DEF TypeOK
<1>7. UploadOK(u)'  BY <1>1, <1>2, <1>3, <1>6 DEF UploadOK, Completing, Filed
<1>8. w \in Work  BY DEF Work
<1> QED  BY <1>1, <1>2, <1>3, <1>5, <1>7, <1>8, Unnamed, ServerFrame DEF Dead

LEMMA InsertStep ==
  ASSUME FilesInv, NEW u \in Uploads, InsertSession(u)
  PROVE  FilesInv'
<1>1. TypeOK /\ UploadOK(u)  BY DEF FilesInv
<1>2. /\ work[u] = "created" /\ work' = [work EXCEPT ![u] = "idle"]
      /\ UNCHANGED <<client, sent, replaces, file, over, job>>
      /\ \/ /\ session' = [session EXCEPT ![u] = "INITIATED"]
            /\ aged' = [aged EXCEPT ![u] = FALSE] /\ UNCHANGED <<store, faults>>
         \/ Fault /\ MaybeAborted(u) /\ UNCHANGED <<session, aged>>
  BY DEF InsertSession, At, Save
<1>3. /\ session[u] = "NONE" /\ ~Filed(u) /\ ~aged[u] /\ client[u].phase # "new"
      /\ store[u] # "done"
  BY <1>1, <1>2 DEF UploadOK, SearchedStatus
<1>5. PICK s \in {"INITIATED", "NONE"}, b \in {"none", "open", "gone"} :
        /\ session' = [session EXCEPT ![u] = s] /\ store' = [store EXCEPT ![u] = b]
        /\ aged' = [aged EXCEPT ![u] = FALSE]
        /\ store[u] = "gone" => b = "gone"
        /\ faults' \in 0..MaxFaults
  BY <1>1, <1>2, <1>3, Unnamed DEF MaybeAborted
<1>6. session'[u] = s /\ store'[u] = b /\ aged'[u] = FALSE /\ work'[u] = "idle"
  BY <1>1, <1>2, <1>5, Unnamed DEF TypeOK
<1>7. UploadOK(u)'  BY <1>1, <1>2, <1>3, <1>6 DEF UploadOK, Completing, Filed
<1>8. "idle" \in Work /\ s \in Status  BY DEF Work, Status
<1> QED  BY <1>1, <1>2, <1>3, <1>5, <1>7, <1>8, Unnamed, ServerFrame DEF Dead

LEMMA StartStep ==
  ASSUME FilesInv, NEW u \in Uploads, Start(u)
  PROVE  FilesInv'
<1>1. TypeOK /\ UploadOK(u) /\ u \in All  BY DEF FilesInv, All
<1> DEFINE c == [client[u] EXCEPT !.phase = "starting"]
<1>2. /\ client[u].phase = "new" /\ Goes(u, "starting")
      /\ work' = [work EXCEPT ![u] = "checked"]
      /\ replaces' = replaces \/ \E f \in Active : replaces' = [replaces EXCEPT ![u] = f]
      /\ UNCHANGED <<sent, session, aged, store, file, over, job, faults>>
  BY DEF Start, At
<1>3. /\ c \in [phase : Phase, cancelled : BOOLEAN] /\ c.phase = "starting"
      /\ client' = [client EXCEPT ![u] = c]
  BY <1>1, <1>2, GoesTyped DEF Phase
<1> HIDE DEF c
<1>4. client'[u] = c /\ work'[u] = "checked"  BY <1>1, <1>2, <1>3 DEF TypeOK
<1>5. /\ replaces' \in [All -> All \cup {NoFile}]
      /\ \A v \in All : replaces'[v] \in {replaces[v], NoFile} \cup Active
  BY <1>1, <1>2 DEF TypeOK, Active
<1>6. /\ client' \in [Uploads -> [phase : Phase, cancelled : BOOLEAN]]
      /\ work' \in [Uploads -> Work]
  BY <1>1, <1>2, <1>3 DEF TypeOK, Work
<1>7. TypeOK'  BY <1>1, <1>2, <1>5, <1>6 DEF TypeOK
<1>8. /\ session[u] = "NONE" /\ work[u] = "idle" /\ sent[u] = {} /\ store[u] = "none"
      /\ ~Filed(u) /\ ~aged[u]
  BY <1>1, <1>2 DEF UploadOK
<1>9. UploadOK(u)'  BY <1>2, <1>3, <1>4, <1>8 DEF UploadOK, Completing, Filed
<1>10. OnlyAt(u)  BY <1>1, <1>2, <1>3 DEF OnlyAt, TypeOK, Filed
<1>11. ForwardAt(u)  BY <1>2, <1>8 DEF ForwardAt, Dead, Filed
<1>12. (\A v \in Uploads : UploadOK(v)') /\ JobOK' /\ RowsOK'
  BY <1>1, <1>2, <1>5, <1>9, <1>10, <1>11, LocalStep
<1>13. FilesKept'  BY <1>2 DEF FilesInv, FilesKept
<1> QED  BY <1>7, <1>12, <1>13 DEF FilesInv

LEMMA ClaimStep ==
  ASSUME FilesInv, NEW u \in Uploads, ClaimComplete(u) \/ ClaimAbort(u)
  PROVE  FilesInv'
<1>1. TypeOK /\ UploadOK(u)  BY DEF FilesInv
<1>2. PICK s \in {"COMPLETING", "ABORTING"}, w \in {"complete", "abort"} :
        /\ session[u] = "INITIATED" /\ sent' = [sent EXCEPT ![u] = {}]
        /\ session' = [session EXCEPT ![u] = s] /\ aged' = [aged EXCEPT ![u] = FALSE]
        /\ work' = [work EXCEPT ![u] = w]
        /\ w = "complete" => s = "COMPLETING" /\ "complete" \in sent[u]
        /\ UNCHANGED <<client, replaces, store, file, over, job, faults>>
  BY DEF ClaimComplete, ClaimAbort, Claim, Save, At
<1>3. session'[u] = s /\ aged'[u] = FALSE /\ work'[u] = w /\ sent'[u] = {}
  BY <1>1, <1>2, Unnamed DEF TypeOK
<1>4. store[u] # "done" /\ ~Filed(u) /\ client[u].phase # "new"
  BY <1>1, <1>2 DEF UploadOK, SearchedStatus
<1>5. UploadOK(u)'
  BY <1>1, <1>2, <1>3, <1>4 DEF UploadOK, Completing, Filed, SearchedStatus
<1>6. s \in Status /\ w \in Work /\ {} \in SUBSET {"complete", "abort"}  BY DEF Status, Work
<1>7. ~Dead(u)  BY <1>2 DEF Dead
<1> QED  BY <1>1, <1>2, <1>5, <1>6, <1>7, Unnamed, ServerFrame

LEMMA CompleteStep ==
  ASSUME FilesInv, NEW u \in Uploads, CompleteStorage(u)
  PROVE  FilesInv'
<1>1. TypeOK /\ UploadOK(u)  BY DEF FilesInv
<1>2. /\ work[u] = "complete"
      /\ UNCHANGED <<client, sent, session, replaces, aged, file, over, job>>
      /\ \/ /\ store[u] = "open" /\ store' = [store EXCEPT ![u] = "done"] /\ faults' = faults
            /\ \E where \in {"finished", "refused"} : work' = [work EXCEPT ![u] = where]
         \/ store' = store /\ work' = [work EXCEPT ![u] = "refused"] /\ (Fault \/ faults' = faults)
  BY DEF CompleteStorage, At
<1>3. PICK w \in {"finished", "refused"}, b \in {store[u], "done"} :
        /\ work' = [work EXCEPT ![u] = w] /\ store' = [store EXCEPT ![u] = b]
        /\ b = store[u] \/ (store[u] = "open" /\ b = "done")
        /\ w = "finished" => b = "done"
        /\ faults' \in 0..MaxFaults
  BY <1>1, <1>2, Unnamed
<1>4. work'[u] = w /\ store'[u] = b  BY <1>1, <1>3, Unnamed DEF TypeOK
<1>5. UploadOK(u)'
  BY <1>1, <1>2, <1>3, <1>4 DEF UploadOK, Completing, Filed
<1>6. w \in Work /\ b \in {"none", "open", "done", "gone"}  BY <1>1, Unnamed DEF Work
<1>7. ~Dead(u)  BY <1>2 DEF Dead
<1> QED  BY <1>1, <1>2, <1>3, <1>5, <1>6, <1>7, Unnamed, ServerFrame

LEMMA RefuseStep ==
  ASSUME FilesInv, NEW u \in Uploads, VerificationFailed(u)
  PROVE  FilesInv'
<1>1. TypeOK /\ UploadOK(u)  BY DEF FilesInv
<1> DEFINE s == IF session[u] = "COMPLETING" THEN "FAILED" ELSE session[u]
<1>2. /\ work[u] = "refused" /\ work' = [work EXCEPT ![u] = "idle"]
      /\ session' = [session EXCEPT ![u] = s]
      /\ UNCHANGED <<client, sent, replaces, aged, store, file, over, job, faults>>
  BY DEF VerificationFailed, At
<1>3. session'[u] = s /\ work'[u] = "idle"  BY <1>1, <1>2, Unnamed DEF TypeOK
<1>4. session[u] \notin {"NONE", "INITIATED"} /\ ~Filed(u)  BY <1>1, <1>2 DEF UploadOK
<1>5. UploadOK(u)'
  BY <1>1, <1>2, <1>3, <1>4 DEF UploadOK, Completing, Filed, SearchedStatus
<1>6. s \in Status /\ "idle" \in Work  BY <1>1, Unnamed DEF Status, Work
<1>7. s = "COMPLETED" => Filed(u)  BY <1>1, Unnamed
<1>8. ~Dead(u) /\ s # "NONE"  BY <1>2, <1>4 DEF Dead
<1> HIDE DEF s
<1> QED  BY <1>1, <1>2, <1>5, <1>6, <1>7, <1>8, Unnamed, ServerFrame

LEMMA AbortStep ==
  ASSUME FilesInv, NEW u \in Uploads, AbortStorage(u)
  PROVE  FilesInv'
<1>1. TypeOK /\ UploadOK(u)  BY DEF FilesInv
<1>2. /\ work[u] = "abort"
      /\ UNCHANGED <<client, sent, session, replaces, aged, file, over, job>>
      /\ \/ /\ store[u] = "open" /\ store' = [store EXCEPT ![u] = "gone"]
            /\ work' = [work EXCEPT ![u] = "aborted"] /\ faults' = faults
         \/ store' = store /\ work' = [work EXCEPT ![u] = "abortFailed"] /\ faults' = faults
         \/ Fault /\ work' = [work EXCEPT ![u] = "abortFailed"] /\ MaybeAborted(u)
  BY DEF AbortStorage, At
<1>3. PICK w \in {"aborted", "abortFailed"}, b \in {store[u], "gone"} :
        /\ work' = [work EXCEPT ![u] = w] /\ store' = [store EXCEPT ![u] = b]
        /\ b = store[u] \/ store[u] = "open"
        /\ w = "aborted" => b = "gone"
        /\ faults' \in 0..MaxFaults
  BY <1>1, <1>2, Unnamed DEF MaybeAborted
<1>4. work'[u] = w /\ store'[u] = b  BY <1>1, <1>3, Unnamed DEF TypeOK
<1>5. session[u] \notin {"NONE", "INITIATED"} /\ ~Filed(u)  BY <1>1, <1>2 DEF UploadOK
<1>6. UploadOK(u)'  BY <1>1, <1>2, <1>3, <1>4, <1>5 DEF UploadOK, Completing, Filed
<1>7. w \in Work /\ b \in {"none", "open", "done", "gone"}  BY <1>1, Unnamed DEF Work
<1>8. ~Dead(u)  BY <1>2 DEF Dead
<1> QED  BY <1>1, <1>2, <1>3, <1>6, <1>7, <1>8, Unnamed, ServerFrame

LEMMA SaveAbortedStep ==
  ASSUME FilesInv, NEW u \in Uploads, SaveAborted(u)
  PROVE  FilesInv'
<1>1. TypeOK /\ UploadOK(u)  BY DEF FilesInv
<1>2. PICK s \in {"ABORTED", "FAILED"} :
        /\ work[u] \in {"aborted", "abortFailed"} /\ (s = "ABORTED" => work[u] = "aborted")
        /\ work' = [work EXCEPT ![u] = "idle"]
        /\ session' = [session EXCEPT ![u] = s] /\ aged' = [aged EXCEPT ![u] = FALSE]
        /\ UNCHANGED <<client, sent, replaces, store, file, over, job, faults>>
  BY DEF SaveAborted, Save, At
<1>3. session'[u] = s /\ work'[u] = "idle" /\ aged'[u] = FALSE
  BY <1>1, <1>2, Unnamed DEF TypeOK
<1>4. /\ session[u] \notin {"NONE", "INITIATED"} /\ ~Filed(u)
      /\ s = "ABORTED" => store[u] = "gone"
  BY <1>1, <1>2 DEF UploadOK
<1>5. UploadOK(u)'
  BY <1>1, <1>2, <1>3, <1>4 DEF UploadOK, Completing, Filed, SearchedStatus
<1>6. s \in Status /\ "idle" \in Work  BY DEF Status, Work
<1>7. ~Dead(u)  BY <1>2 DEF Dead
<1> QED  BY <1>1, <1>2, <1>5, <1>6, <1>7, Unnamed, ServerFrame

LEMMA DieStep ==
  ASSUME FilesInv, NEW u \in Uploads, WorkerDies(u)
  PROVE  FilesInv'
<1>1. TypeOK /\ UploadOK(u)  BY DEF FilesInv
<1>2. /\ work[u] # "idle" /\ Fault /\ work' = [work EXCEPT ![u] = "idle"]
      /\ UNCHANGED <<client, sent, session, replaces, aged, store, file, over, job>>
  BY DEF WorkerDies, At
<1>3. work'[u] = "idle"  BY <1>1, <1>2 DEF TypeOK
<1>4. UploadOK(u)'  BY <1>1, <1>2, <1>3 DEF UploadOK, Completing, Filed
<1>5. "idle" \in Work /\ ~Dead(u)  BY <1>2 DEF Work, Dead
<1> QED  BY <1>1, <1>2, <1>4, <1>5, Unnamed, ServerFrame

LEMMA AgeStep ==
  ASSUME FilesInv, NEW u \in Uploads, Age(u)
  PROVE  FilesInv'
<1>1. TypeOK /\ UploadOK(u)  BY DEF FilesInv
<1>2. /\ session[u] \in {"INITIATED", "COMPLETING", "FAILED"} /\ work[u] = "idle"
      /\ aged' = [aged EXCEPT ![u] = TRUE]
      /\ UNCHANGED <<client, sent, session, replaces, work, store, file, over, job, faults>>
  BY DEF Age
<1>3. aged'[u] = TRUE  BY <1>1, <1>2, Unnamed DEF TypeOK
<1>4. UploadOK(u)'  BY <1>1, <1>2, <1>3 DEF UploadOK, Completing, Filed
<1>5. Dead(u) => session[u] # "INITIATED"  BY DEF Dead
<1> QED  BY <1>1, <1>2, <1>4, <1>5, Unnamed, ServerFrame

LEMMA DeliverStep ==
  ASSUME FilesInv, NEW u \in Uploads, Deliver(u)
  PROVE  FilesInv'
<1>1. TypeOK /\ UploadOK(u) /\ u \in All  BY DEF FilesInv, All
<1>2. /\ work[u] = "finished" /\ work' = [work EXCEPT ![u] = "idle"]
      /\ aged' = [aged EXCEPT ![u] = FALSE]
      /\ UNCHANGED <<client, sent, replaces, store, over, job, faults>>
  BY DEF Deliver, At, Save
<1>3. /\ work'[u] = "idle" /\ aged'[u] = FALSE
      /\ session[u] \notin {"NONE", "INITIATED"} /\ store[u] = "done" /\ ~Dead(u)
      /\ Completing(u) /\ ~Filed(u) /\ client[u].phase # "new"
  BY <1>1, <1>2 DEF UploadOK, TypeOK, Dead, Completing
<1>4. CASE session' = [session EXCEPT ![u] = "FAILED"] /\ file' = file
  <2>1. session'[u] = "FAILED"  BY <1>1, <1>4 DEF TypeOK
  <2>2. UploadOK(u)'
    BY <1>1, <1>2, <1>3, <1>4, <2>1 DEF UploadOK, Completing, Filed, SearchedStatus
  <2>3. "FAILED" \in Status /\ "idle" \in Work  BY DEF Status, Work
  <2> QED  BY <1>1, <1>2, <1>3, <1>4, <2>2, <2>3, Unnamed, ServerFrame
<1>5. CASE /\ Accepted(u) /\ session' = [session EXCEPT ![u] = "COMPLETED"]
           /\ file' = [f \in All |-> IF f = u THEN "active"
                                     ELSE IF f = replaces[u] THEN "inactive" ELSE file[f]]
  <2>1. session'[u] = "COMPLETED" /\ file'[u] = "active"  BY <1>1, <1>5 DEF TypeOK
  <2>2. \A f \in All \ {u} :
          \/ file'[f] = file[f]
          \/ f = replaces[u] /\ file[f] = "active" /\ file'[f] = "inactive"
    <3>1. \A f \in All : f # NoFile  BY FilesAssumption DEF All
    <3> QED  BY <1>5, <3>1 DEF Accepted, Replaceable
  <2>3. file' \in [All -> {"none", "active", "inactive", "deleted"}]
    <3>1. \A f \in All : file'[f] \in {"none", "active", "inactive", "deleted"}
      BY <1>1, <2>1, <2>2 DEF TypeOK
    <3>2. file' = [f \in All |-> file'[f]]  BY <1>5
    <3> QED  BY <3>1, <3>2
  <2>4. TypeOK'
    <3>1. session' \in [All -> Status]  BY <1>1, <1>5 DEF TypeOK, Status
    <3>2. aged' \in [All -> BOOLEAN]  BY <1>1, <1>2 DEF TypeOK
    <3>3. work' \in [Uploads -> Work]  BY <1>1, <1>2 DEF TypeOK, Work
    <3>4. ASSUME NEW v \in All, session'[v] = "COMPLETED"  PROVE file'[v] # "none"
      <4>1. CASE v = u  BY <2>1, <4>1
      <4>2. CASE v # u
        <5>1. session[v] = "COMPLETED"  BY <1>1, <1>5, <3>4, <4>2 DEF TypeOK
        <5>2. file[v] # "none"  BY <1>1, <5>1 DEF TypeOK
        <5> QED  BY <2>2, <4>2, <5>2
      <4> QED  BY <4>1, <4>2
    <3> QED  BY <1>1, <1>2, <2>3, <3>1, <3>2, <3>3, <3>4 DEF TypeOK
  <2>5. UploadOK(u)'
    <3>1. client[u].phase \in {"completing", "ended"} /\ ~client[u].cancelled
      BY <1>1, <1>3 DEF UploadOK
    <3> QED
      BY <1>2, <1>3, <2>1, <3>1 DEF UploadOK, Completing, Filed, SearchedStatus
  <2>6. \A v \in All \ {u} : Filed(v)' = Filed(v)  BY <2>2 DEF Filed
  <2>7. OnlyAt(u)  BY <1>1, <1>2, <1>5, <2>6 DEF OnlyAt, TypeOK
  <2>8. ForwardAt(u)  BY <1>2, <1>3, <2>1 DEF ForwardAt, Filed
  <2>9. (\A v \in Uploads : UploadOK(v)') /\ JobOK' /\ RowsOK'
    BY <1>1, <1>2, <2>5, <2>7, <2>8, LocalStep
  <2>10. FilesKept'
    <3>1. \A v \in All : file'[v] \in {"active", "inactive"}
            => v = u \/ file[v] \in {"active", "inactive"}
      BY <2>2
    <3> QED  BY <1>2, <1>3, <3>1 DEF FilesInv, FilesKept
  <2> QED  BY <2>4, <2>9, <2>10 DEF FilesInv
<1> QED  BY <1>4, <1>5 DEF Deliver, Save

LEMMA HideStep ==
  ASSUME FilesInv, NEW u \in All, Hide(u) \/ RetentionEnds
  PROVE  FilesInv'
<1>1. TypeOK  BY DEF FilesInv
<1>2. /\ UNCHANGED <<client, sent, session, replaces, aged, work, store, job, faults>>
      /\ over' \in BOOLEAN /\ (over => over')
      /\ \/ file' = file
         \/ file[u] = "active" /\ file' = [file EXCEPT ![u] = "inactive"]
  BY <1>1 DEF Hide, RetentionEnds, TypeOK
<1>3. /\ file' \in [All -> {"none", "active", "inactive", "deleted"}]
      /\ \A v \in All : Filed(v)' = Filed(v)
      /\ \A v \in All : file'[v] \in {"active", "inactive"} => file[v] \in {"active", "inactive"}
  BY <1>1, <1>2 DEF TypeOK, Filed
<1>4. TypeOK'  BY <1>1, <1>2, <1>3 DEF TypeOK, Filed
<1>5. OnlyAt(u)  BY <1>2, <1>3 DEF OnlyAt
<1>6. ForwardAt(u)  BY <1>2, <1>3 DEF ForwardAt, Dead
<1>7. u \in Uploads => UploadOK(u)'
  BY <1>2, <1>3 DEF FilesInv, UploadOK, Completing
<1>8. (\A v \in Uploads : UploadOK(v)') /\ JobOK' /\ RowsOK'
  BY <1>2, <1>5, <1>6, <1>7, LocalStep
<1>9. FilesKept'  BY <1>2, <1>3, KeptFrame DEF FilesInv
<1> QED  BY <1>4, <1>8, <1>9 DEF FilesInv

-----------------------------------------------------------------------------
(* The maintenance command *)

JobRecords == [phase : JobStep, todo : SUBSET All, orphans : SUBSET All,
               at : All \cup {NoFile}, ok : BOOLEAN]

LEMMA RestingOK ==
  /\ Resting \in JobRecords
  /\ job' = Resting => JobOK'
<1>1. \A u \in All : u # NoFile  BY FilesAssumption DEF All
<1>2. Resting \in JobRecords  BY DEF Resting, JobRecords, JobStep
<1>3. job' = Resting => JobOK'  BY <1>1 DEF Resting, JobOK
<1> QED  BY <1>2, <1>3

\* Only the command's own state changes.
LEMMA JobFrame ==
  ASSUME FilesInv, job' \in JobRecords, JobOK',
         UNCHANGED <<client, sent, session, replaces, aged, work, store, file, over>>,
         faults' \in 0..MaxFaults
  PROVE  FilesInv'
<1>1. TypeOK'  BY DEF FilesInv, TypeOK, JobRecords
<1>2. \A u \in Uploads : UploadOK(u)'  BY DEF FilesInv, UploadOK, Completing, Filed
<1>3. RowsOK'  BY DEF FilesInv, RowsOK, Filed
<1>4. FilesKept'  BY DEF FilesInv, FilesKept
<1> QED  BY <1>1, <1>2, <1>3, <1>4 DEF FilesInv

LEMMA JobBeginsStep ==
  ASSUME FilesInv, JobBegins
  PROVE  FilesInv'
<1>1. TypeOK /\ RowsOK /\ \A u \in Uploads : UploadOK(u)  BY DEF FilesInv
<1>2. /\ job' = [Resting EXCEPT !.phase = "stale", !.todo = Stale, !.orphans = Orphans]
      /\ UNCHANGED <<client, sent, session, replaces, aged, work, store, file, over, faults>>
  BY DEF JobBegins
<1>3. Stale \subseteq All /\ Orphans \subseteq All  BY DEF Stale, Orphans, Searched
<1>4. job' \in JobRecords  BY <1>2, <1>3 DEF Resting, JobRecords, JobStep
<1>5. /\ job'.phase = "stale" /\ job'.todo = Stale /\ job'.orphans = Orphans /\ job'.at = NoFile
  BY <1>2 DEF Resting
<1>6. \A u \in Stale : u \in Uploads /\ session[u] # "NONE"
  BY <1>1 DEF Stale, RowsOK
<1>7. \A u \in Orphans : Dead(u)
  BY <1>1 DEF Orphans, Searched, RowsOK, UploadOK, Dead, Filed
<1>8. \A u \in All : u # NoFile  BY FilesAssumption DEF All
<1>9. JobOK'  BY <1>2, <1>5, <1>6, <1>7, <1>8 DEF JobOK, Dead, Filed
<1> QED  BY <1>1, <1>2, <1>4, <1>9, JobFrame DEF TypeOK

LEMMA JobMovesStep ==
  ASSUME FilesInv, JobMoves
  PROVE  FilesInv'
<1>1. TypeOK /\ JobOK /\ job \in JobRecords  BY DEF FilesInv, TypeOK, JobRecords
<1>2. /\ job.at = NoFile /\ job.todo = {}
      /\ UNCHANGED <<client, sent, session, replaces, aged, work, store, file, over, faults>>
  BY DEF JobMoves
<1>3. \A u \in All : u # NoFile  BY FilesAssumption DEF All
<1>4. CASE job' = [job EXCEPT !.phase = "orphans", !.todo = job.orphans, !.orphans = {}]
  <2>1. job' \in JobRecords  BY <1>1, <1>4 DEF JobRecords, JobStep
  <2>2. job'.phase = "orphans" /\ job'.todo = job.orphans /\ job'.orphans = {} /\ job'.at = NoFile
    BY <1>1, <1>2, <1>4 DEF JobRecords
  <2>3. JobOK'  BY <1>1, <1>2, <1>3, <2>2 DEF JobOK, Dead, Filed
  <2> QED  BY <1>1, <1>2, <2>1, <2>3, JobFrame DEF TypeOK
<1>5. CASE job' = [job EXCEPT !.phase = "eligible", !.todo = Eligible]
  <2>0. Eligible \subseteq All /\ (\A u \in Eligible : over /\ Filed(u))
    BY DEF Eligible, Filed
  <2>1. job' \in JobRecords  BY <1>1, <1>5, <2>0 DEF JobRecords, JobStep
  <2>2. /\ job'.phase = "eligible" /\ job'.todo = Eligible /\ job'.orphans = job.orphans
        /\ job'.at = NoFile
    BY <1>1, <1>2, <1>5 DEF JobRecords
  <2>3. JobOK'  BY <1>1, <1>2, <1>3, <2>0, <2>2 DEF JobOK, Dead, Filed
  <2> QED  BY <1>1, <1>2, <2>1, <2>3, JobFrame DEF TypeOK
<1>6. CASE job' = Resting  BY <1>1, <1>2, <1>6, RestingOK, JobFrame DEF TypeOK
<1> QED  BY <1>4, <1>5, <1>6 DEF JobMoves

LEMMA JobDiesStep ==
  ASSUME FilesInv, JobDies
  PROVE  FilesInv'
<1>1. /\ job' = Resting /\ Fault
      /\ UNCHANGED <<client, sent, session, replaces, aged, work, store, file, over>>
  BY DEF JobDies
<1>2. MaxFaults \in Nat /\ faults \in 0..MaxFaults  BY FilesAssumption DEF FilesInv, TypeOK
<1>3. faults' \in 0..MaxFaults  BY <1>1, <1>2 DEF Fault
<1> QED  BY <1>1, <1>3, RestingOK, JobFrame

\* A storage call of the command for one upload
LEMMA JobStorageStep ==
  ASSUME FilesInv, NEW u \in All, JobAborts(u) \/ JobDeletes(u)
  PROVE  FilesInv'
<1>1. /\ TypeOK /\ JobOK /\ job \in JobRecords /\ (\A v \in Uploads : UploadOK(v))
  BY DEF FilesInv, TypeOK, JobRecords
<1>2. /\ job.phase \in {"stale", "orphans", "eligible"} /\ job.at = NoFile /\ u \in job.todo
      /\ UNCHANGED <<client, sent, session, replaces, aged, work, file, over>>
  BY DEF JobAborts, JobDeletes
<1>3. /\ job.phase = "stale" => u \in Uploads /\ session[u] # "NONE"
      /\ job.phase = "orphans" => Dead(u)
      /\ job.phase = "eligible" => over /\ Filed(u)
  BY <1>1, <1>2 DEF JobOK
<1>4. PICK b \in {"none", "open", "done", "gone"} :
        /\ store' = [store EXCEPT ![u] = b]
        /\ b = store[u] \/ b = "gone"
        /\ job.phase = "stale" => b = store[u] \/ store[u] = "open"
  <2>1. store = [store EXCEPT ![u] = store[u]] /\ store[u] \in {"none", "open", "done", "gone"}
    BY <1>1 DEF TypeOK
  <2> QED  BY <2>1 DEF JobAborts, JobDeletes, MaybeAborted, Delete
<1>5. store'[u] = b  BY <1>1, <1>4 DEF TypeOK
<1>6. /\ faults' \in 0..MaxFaults
  <2>1. MaxFaults \in Nat /\ faults \in 0..MaxFaults  BY <1>1, FilesAssumption DEF TypeOK
  <2>2. Fault \/ faults' = faults  BY DEF JobAborts, JobDeletes
  <2> QED  BY <2>1, <2>2 DEF Fault
<1> DEFINE Taken ==
      /\ job' \in JobRecords /\ job'.phase = job.phase /\ job'.orphans = job.orphans
      /\ job'.todo \subseteq job.todo /\ job'.at \in {job.at, u}
      /\ job.phase = "stale" /\ job'.at = u /\ job'.ok => b = "gone"
<1>7. Taken
  <2>1. \/ \E ok \in BOOLEAN :
             JobTakes(u, ok) /\ (job.phase = "stale" /\ ok => store[u] = "open" /\ b = "gone")
        \/ job.phase = "eligible" /\ job' = [job EXCEPT !.todo = @ \ {u}]
    <3>1. CASE JobAborts(u)
      <4>1. \/ store[u] = "open" /\ store' = [store EXCEPT ![u] = "gone"] /\ JobTakes(u, TRUE)
            \/ JobTakes(u, FALSE)
        BY <3>1 DEF JobAborts
      <4> QED  BY <1>1, <1>5, <4>1 DEF TypeOK
    <3>2. CASE JobDeletes(u)
      <4>1. /\ job.phase \in {"orphans", "eligible"}
            /\ \/ JobTakes(u, TRUE) \/ JobTakes(u, FALSE)
               \/ job.phase = "eligible" /\ job' = [job EXCEPT !.todo = @ \ {u}]
        BY <3>2 DEF JobDeletes
      <4> QED  BY <4>1
    <3> QED  BY <3>1, <3>2
  <2>2. ASSUME NEW ok \in BOOLEAN, JobTakes(u, ok),
               job.phase = "stale" /\ ok => store[u] = "open" /\ b = "gone"
        PROVE  Taken
    <3>1. job' = [job EXCEPT !.todo = job.todo \ {u}, !.at = u, !.ok = ok]
      BY <2>2 DEF JobTakes
    <3>2. job'.ok = ok /\ job'.at = u /\ job'.phase = job.phase /\ job'.orphans = job.orphans
          /\ job'.todo = job.todo \ {u}
      BY <1>1, <3>1 DEF JobRecords
    <3>3. job' \in JobRecords  BY <1>1, <3>1 DEF JobRecords
    <3> QED  BY <2>2, <3>2, <3>3
  <2>3. CASE job.phase = "eligible" /\ job' = [job EXCEPT !.todo = @ \ {u}]
    BY <1>1, <2>3 DEF JobRecords
  <2> QED  BY <2>1, <2>2, <2>3
<1>8. TypeOK'
  <2>1. store' \in [All -> {"none", "open", "done", "gone"}]  BY <1>1, <1>4 DEF TypeOK
  <2> QED  BY <1>1, <1>2, <1>6, <1>7, <2>1 DEF TypeOK, JobRecords
<1>9. OnlyAt(u)  BY <1>1, <1>2, <1>4 DEF OnlyAt, TypeOK, Filed
<1>10. ForwardAt(u)  BY <1>2, <1>4, <1>5 DEF ForwardAt, Dead, Filed
<1>11. ASSUME u \in Uploads  PROVE UploadOK(u)'
  <2>1. UploadOK(u)  BY <1>1, <1>11
  <2>2. session[u] # "NONE" /\ (job.phase # "stale" => work[u] = "idle")
    BY <1>2, <1>3, <2>1 DEF UploadOK, Dead
  <2> QED  BY <1>2, <1>4, <1>5, <2>1, <2>2 DEF UploadOK, Completing, Filed
<1>12. /\ \A v \in Uploads : UploadOK(v)'
       /\ \A v \in All : ForwardAt(v)
       /\ RowsOK'
  BY <1>2, <1>9, <1>10, <1>11, LocalRows
<1>13. JobOK'
  <2>1. \A v \in All : v = job'.at /\ job.phase = "stale" /\ job'.ok => store'[v] = "gone"
    <3>1. \A v \in All : v # NoFile  BY FilesAssumption DEF All
    <3> QED  BY <1>2, <1>5, <1>7, <3>1
  <2>2. job'.at \in {job.at, NoFile} \cup job.todo  BY <1>2, <1>7
  <2> QED  BY <1>1, <1>2, <1>7, <1>12, <2>1, <2>2, JobGoes
<1>14. FilesKept'
  <2>1. CASE job.phase = "eligible"  BY <1>2, <1>3, <2>1 DEF FilesKept
  <2>2. CASE job.phase = "stale"
    <3>1. \A v \in All : store[v] = "done" => store'[v] = "done"
      BY <1>1, <1>4, <2>2 DEF TypeOK
    <3> QED  BY <1>2, <3>1, KeptFrame DEF FilesInv
  <2>3. CASE job.phase = "orphans"
    <3>1. file[u] = "none"  BY <1>3, <2>3 DEF Dead, Filed
    <3>2. \A v \in All : v # u => store'[v] = store[v]  BY <1>1, <1>4 DEF TypeOK
    <3> QED  BY <1>2, <3>1, <3>2, KeptFrame DEF FilesInv
  <2> QED  BY <1>2, <2>1, <2>2, <2>3
<1> QED  BY <1>8, <1>12, <1>13, <1>14 DEF FilesInv

\* The row that belongs to the last storage call
LEMMA JobSavesStep ==
  ASSUME FilesInv, NEW u \in All, JobSaves(u)
  PROVE  FilesInv'
<1>1. TypeOK /\ JobOK /\ job \in JobRecords  BY DEF FilesInv, TypeOK, JobRecords
<1>2. /\ job.at = u /\ u # NoFile
      /\ job' = IF job.ok THEN [job EXCEPT !.at = NoFile] ELSE Resting
      /\ UNCHANGED <<client, sent, replaces, work, store, over, faults>>
  BY FilesAssumption DEF JobSaves, All
<1>3. job.phase \in {"stale", "orphans", "eligible"}
  BY <1>1, <1>2 DEF JobRecords, JobStep, JobOK
<1>4. /\ job.phase = "stale" => u \in Uploads /\ session[u] # "NONE"
      /\ job.phase = "stale" /\ job.ok => store[u] = "gone"
      /\ job.phase = "orphans" => Dead(u)
      /\ job.phase = "eligible" => over /\ Filed(u)
  BY <1>1, <1>2 DEF JobOK
<1>5. PICK s \in Status, a \in BOOLEAN :
        /\ session' = [session EXCEPT ![u] = s] /\ aged' = [aged EXCEPT ![u] = a]
        /\ \/ s = session[u] /\ a = aged[u]
           \/ /\ s \in {"ABORTED", "FAILED"} /\ a = FALSE /\ ~(job.phase = "eligible")
              /\ s = "ABORTED" => store[u] = "gone"
  <2>1. /\ session = [session EXCEPT ![u] = session[u]] /\ session[u] \in Status
        /\ aged = [aged EXCEPT ![u] = aged[u]] /\ aged[u] \in BOOLEAN
    BY <1>1 DEF TypeOK
  <2>2. CASE UNCHANGED <<session, aged>>  BY <2>1, <2>2
  <2>3. CASE Save(u, "FAILED") /\ job.phase # "eligible"  BY <2>3 DEF Save, Status
  <2>4. CASE Save(u, "ABORTED") /\ job.phase = "stale" /\ job.ok
    BY <1>4, <2>4 DEF Save, Status
  <2>5. CASE job.phase = "stale"
    BY <2>3, <2>4, <2>5 DEF JobSaves
  <2>6. CASE job.phase = "orphans"
    BY <2>2, <2>3, <2>6 DEF JobSaves
  <2>7. CASE job.phase = "eligible"
    BY <2>2, <2>7 DEF JobSaves
  <2> QED  BY <1>3, <2>5, <2>6, <2>7
<1>6. \/ file' = file
      \/ job.phase = "eligible" /\ file' = [file EXCEPT ![u] = "deleted"]
  BY <1>3 DEF JobSaves
<1>7. /\ file' \in [All -> {"none", "active", "inactive", "deleted"}]
      /\ \A v \in All : Filed(v)' = Filed(v)
      /\ \A v \in All : file'[v] \in {"active", "inactive"} => file[v] \in {"active", "inactive"}
  <2>1. CASE file' = file  BY <1>1, <2>1 DEF TypeOK, Filed
  <2>2. CASE job.phase = "eligible" /\ file' = [file EXCEPT ![u] = "deleted"]
    BY <1>1, <1>4, <2>2 DEF TypeOK, Filed
  <2> QED  BY <1>6, <2>1, <2>2
<1>8. session'[u] = s /\ aged'[u] = a  BY <1>1, <1>5 DEF TypeOK
<1>9. job' \in JobRecords  BY <1>1, <1>2, RestingOK DEF JobRecords
<1>10. TypeOK'
  <2>1. session' \in [All -> Status] /\ aged' \in [All -> BOOLEAN]
    BY <1>1, <1>5 DEF TypeOK
  <2>2. ASSUME NEW v \in All, session'[v] = "COMPLETED"  PROVE Filed(v)'
    <3>1. session[v] = "COMPLETED"  BY <1>1, <1>5, <2>2 DEF TypeOK
    <3> QED  BY <1>1, <1>7, <3>1 DEF TypeOK, Filed
  <2> QED  BY <1>1, <1>2, <1>7, <1>9, <2>1, <2>2 DEF TypeOK, JobRecords, Filed
<1>11. OnlyAt(u)  BY <1>1, <1>2, <1>5, <1>7 DEF OnlyAt, TypeOK
<1>12. session[u] # "NONE" => s # "NONE"  BY <1>5
<1>13. ForwardAt(u)
  BY <1>2, <1>5, <1>7, <1>8 DEF ForwardAt, Dead
<1>14. ASSUME u \in Uploads  PROVE UploadOK(u)'
  <2>1. UploadOK(u)  BY <1>14 DEF FilesInv
  <2>2. CASE s = session[u] /\ a = aged[u]
    BY <1>2, <1>7, <1>8, <2>1, <2>2 DEF UploadOK, Completing
  <2>3. CASE /\ s \in {"ABORTED", "FAILED"} /\ a = FALSE /\ ~(job.phase = "eligible")
             /\ s = "ABORTED" => store[u] = "gone"
    <3>1. session[u] # "NONE"  BY <1>3, <1>4, <2>3 DEF Dead
    <3> QED
      BY <1>2, <1>7, <1>8, <2>1, <2>3, <3>1 DEF UploadOK, Completing, SearchedStatus
  <2> QED  BY <1>5, <2>2, <2>3
<1>15. /\ \A v \in Uploads : UploadOK(v)'
       /\ \A v \in All : ForwardAt(v)
       /\ RowsOK'
  BY <1>2, <1>5, <1>8, <1>11, <1>13, <1>14, LocalRows
<1>16. JobOK'
  <2>1. CASE job.ok
    <3>1. job' = [job EXCEPT !.at = NoFile]  BY <1>2, <2>1
    <3>2. /\ job'.phase = job.phase /\ job'.todo = job.todo /\ job'.orphans = job.orphans
          /\ job'.at = NoFile
      BY <1>1, <3>1 DEF JobRecords
    <3>3. \A v \in All : v # NoFile  BY FilesAssumption DEF All
    <3> QED  BY <1>1, <1>2, <1>15, <3>2, <3>3, JobGoes
  <2>2. CASE ~job.ok  BY <1>2, <2>2, RestingOK
  <2> QED  BY <2>1, <2>2
<1>17. FilesKept'  BY <1>2, <1>7, KeptFrame DEF FilesInv
<1> QED  BY <1>10, <1>15, <1>16, <1>17 DEF FilesInv

LEMMA RetentionStep ==
  ASSUME FilesInv, RetentionEnds
  PROVE  FilesInv'
<1>1. /\ UNCHANGED <<client, sent, session, replaces, aged, work, store, file, job, faults>>
      /\ over' = TRUE
  BY DEF RetentionEnds
<1>2. TypeOK'  BY <1>1 DEF FilesInv, TypeOK
<1>3. \A u \in Uploads : UploadOK(u)'
  BY <1>1 DEF FilesInv, UploadOK, Completing, Filed
<1>4. JobOK' /\ RowsOK'  BY <1>1 DEF FilesInv, JobOK, RowsOK, Dead, Filed
<1>5. FilesKept'  BY <1>1 DEF FilesKept
<1> QED  BY <1>2, <1>3, <1>4, <1>5 DEF FilesInv

-----------------------------------------------------------------------------
(* Every step *)

LEMMA StepHolds ==
  ASSUME FilesInv, [Next]_vars
  PROVE  FilesInv'
<1>1. ASSUME NEW u \in Uploads, Page(u)  PROVE FilesInv'
  BY <1>1, StartStep, PageStep DEF Page
<1>2. ASSUME NEW u \in Uploads, Server(u)  PROVE FilesInv'
  BY <1>2, CreateStep, InsertStep, ClaimStep, CompleteStep, RefuseStep, DeliverStep,
     AbortStep, SaveAbortedStep DEF Server
<1>3. ASSUME NEW u \in Uploads, WorkerDies(u) \/ Age(u)  PROVE FilesInv'
  BY <1>3, DieStep, AgeStep
<1>4. ASSUME NEW u \in All, Hide(u)  PROVE FilesInv'  BY <1>4, HideStep
<1>5. CASE Job
  BY <1>5, JobBeginsStep, JobMovesStep, JobStorageStep, JobSavesStep DEF Job
<1>6. CASE JobDies  BY <1>6, JobDiesStep
<1>7. CASE RetentionEnds  BY <1>7, RetentionStep
<1>8. CASE UNCHANGED vars
  <2>1. job \in JobRecords /\ faults \in 0..MaxFaults  BY DEF FilesInv, TypeOK, JobRecords
  <2>2. JobOK'  BY <1>8 DEF vars, FilesInv, JobOK, Dead, Filed
  <2> QED  BY <1>8, <2>1, <2>2, JobFrame DEF vars
<1> QED  BY <1>1, <1>2, <1>3, <1>4, <1>5, <1>6, <1>7, <1>8 DEF Next

\* Page, requests, rows, bucket and command agree, in every reachable state.
THEOREM FilesSafe == Spec => []FilesInv
BY InitHolds, StepHolds, PTL DEF Spec

\* Every variable keeps its type, and a COMPLETED session has its deliverable.
THEOREM FilesTyped == Spec => []TypeOK
<1>1. FilesInv => TypeOK  BY DEF FilesInv
<1> QED  BY <1>1, FilesSafe, PTL

\* While the delivery is retained no file that is not deleted loses its object:
\* to no abort, no clean-up and no command that died and was run again.
THEOREM RetainedAreKept == Spec => []FilesKept
<1>1. FilesInv => FilesKept  BY DEF FilesInv
<1> QED  BY <1>1, FilesSafe, PTL

\* An upload the page called cancelled never becomes a file.
THEOREM CancelledAreNoFiles == Spec => []CancelledStaysOut
<1>1. ASSUME FilesInv  PROVE CancelledStaysOut
  BY <1>1 DEF FilesInv, UploadOK, Completing, Filed, CancelledStaysOut
<1> QED  BY <1>1, FilesSafe, PTL

\* A finished upload that nothing refers to is in reach of the maintenance.
THEOREM OrphansAreReached == Spec => []OrphansAreFound
<1>1. ASSUME FilesInv  PROVE OrphansAreFound
  BY <1>1 DEF FilesInv, UploadOK, OrphansAreFound, Searched, SearchedStatus, All
<1> QED  BY <1>1, FilesSafe, PTL

-----------------------------------------------------------------------------
(* What recipients are offered *)

\* A file that leaves the offer, or a replacement that is only planned
LEMMA OfferShrinks ==
  ASSUME FilesInv, OfferInv, Active' \subseteq Active,
         \A v \in All : Filed(v) => replaces'[v] = replaces[v]
  PROVE  OfferInv'
<1>1. TypeOK /\ RowsOK /\ NoFile \notin All  BY FilesAssumption DEF FilesInv, All
<1>2. \A v \in Active : Older(v)' = Older(v)
  <2>1. SUFFICES ASSUME NEW v \in Active
                 PROVE  Older(v)' = Older(v)
    OBVIOUS
  <2>2. v \in All /\ replaces'[v] = replaces[v] /\ replaces[v] \in All \cup {NoFile}
    BY <1>1 DEF Active, Filed, TypeOK
  <2>3. CASE replaces[v] = NoFile  BY <1>1, <2>2, <2>3 DEF Older
  <2>4. CASE replaces[v] # NoFile
    <3>1. replaces[v] \in All /\ Filed(replaces[v])  BY <1>1, <2>2, <2>4 DEF RowsOK
    <3>2. replaces'[replaces[v]] = replaces[replaces[v]]  BY <3>1
    <3> QED  BY <2>2, <3>2 DEF Older
  <2> QED  BY <2>3, <2>4
<1>3. IsFiniteSet(Active') /\ Cardinality(Active') <= Cardinality(Active)
  BY FS_Subset DEF OfferInv
<1>4. /\ Cardinality(Active) \in Nat /\ Cardinality(Active') \in Nat /\ MaxFiles \in Nat
      /\ Cardinality(Active) <= MaxFiles
  BY <1>3, FilesAssumption, FS_CardinalityType DEF OfferInv, OfferIsSound
<1>5. Cardinality(Active') <= MaxFiles  BY <1>3, <1>4
<1>6. \A v, w \in Active' : v # w => w \notin Older(v)' /\ Older(v)' \cap Older(w)' = {}
  BY <1>2 DEF OfferInv, OfferIsSound
<1> QED  BY <1>3, <1>5, <1>6 DEF OfferInv, OfferIsSound

\* The new file takes a free place, or the place of the file it replaces.
LEMMA OfferGrows ==
  ASSUME FilesInv, OfferInv, NEW u \in Uploads, Deliver(u), Accepted(u),
         file' = [f \in All |-> IF f = u THEN "active"
                                ELSE IF f = replaces[u] THEN "inactive" ELSE file[f]]
  PROVE  OfferInv'
<1>0. TypeOK /\ RowsOK /\ UploadOK(u) /\ u \in All /\ (\A v \in All : v # NoFile)
  BY FilesAssumption DEF FilesInv, All
<1>1. replaces' = replaces /\ ~Filed(u)  BY <1>0 DEF Deliver, UploadOK, Filed
<1>2. Active' = (Active \ {replaces[u]}) \cup {u}  BY <1>0 DEF Active
<1>3. u \notin Active  BY <1>1 DEF Active, Filed
<1>4. replaces[u] \in Active \/ (replaces[u] = NoFile /\ Room)
  BY <1>0 DEF Accepted, Replaceable, Active, TypeOK
<1>5. /\ IsFiniteSet(Active) /\ Cardinality(Active) \in Nat
      /\ MaxFiles \in Nat /\ Cardinality(Active) <= MaxFiles
  BY FilesAssumption, FS_CardinalityType DEF OfferInv, OfferIsSound
<1>6. IsFiniteSet(Active') /\ Cardinality(Active') <= MaxFiles
  <2>1. CASE replaces[u] \in Active
    <3> DEFINE Kept == Active \ {replaces[u]}
    <3>1. IsFiniteSet(Kept) /\ Cardinality(Kept) = Cardinality(Active) - 1
      BY <1>5, <2>1, FS_RemoveElement
    <3>2. u \notin Kept  BY <1>3
    <3> HIDE DEF Kept
    <3>3. IsFiniteSet(Kept \cup {u}) /\ Cardinality(Kept \cup {u}) = Cardinality(Kept) + 1
      BY <3>1, <3>2, FS_AddElement
    <3>4. Active' = Kept \cup {u}  BY <1>2 DEF Kept
    <3> QED  BY <1>5, <3>1, <3>3, <3>4
  <2>2. CASE replaces[u] = NoFile /\ Room
    <3>1. Active' = Active \cup {u}  BY <1>0, <1>2, <2>2 DEF Active
    <3>2. IsFiniteSet(Active \cup {u}) /\ Cardinality(Active \cup {u}) = Cardinality(Active) + 1
      BY <1>3, <1>5, FS_AddElement
    <3> QED  BY <1>5, <2>2, <3>1, <3>2 DEF Room
  <2> QED  BY <1>4, <2>1, <2>2
<1>7. \A v \in All : Older(v)' = Older(v)  BY <1>1 DEF Older
\* nobody replaced the upload before it was a file
<1>8. \A v \in All : u \notin Older(v)
  <2>1. SUFFICES ASSUME NEW v \in All, u \in Older(v)  PROVE FALSE
    OBVIOUS
  <2>2. CASE u = replaces[v]  BY <1>0, <1>1, <2>2 DEF RowsOK
  <2>3. CASE replaces[v] # NoFile /\ u = replaces[replaces[v]]
    <3>1. replaces[v] \in All  BY <1>0, <2>3 DEF TypeOK
    <3> QED  BY <1>0, <1>1, <2>3, <3>1 DEF RowsOK
  <2> QED  BY <2>1, <2>2, <2>3 DEF Older
\* its history is the replaced file and the history of that file
<1>9. ASSUME NEW v \in Active, v # replaces[u]
      PROVE  v \notin Older(u) /\ Older(u) \cap Older(v) = {}
  <2>1. CASE replaces[u] = NoFile
    <3>1. Older(u) = {}  BY <1>0, <2>1 DEF Older
    <3> QED  BY <3>1
  <2>2. CASE replaces[u] \in Active
    <3> DEFINE f == replaces[u]
    <3>1. /\ v \notin Older(f) /\ f \notin Older(v) /\ Older(f) \cap Older(v) = {}
      BY <1>9, <2>2 DEF OfferInv, OfferIsSound
    <3>2. Older(u) \subseteq {f} \cup Older(f)  BY DEF Older
    <3> HIDE DEF f
    <3> QED  BY <1>9, <3>1, <3>2 DEF f
  <2> QED  BY <1>4, <2>1, <2>2
<1>10. ASSUME NEW v \in Active', NEW w \in Active', v # w
       PROVE  w \notin Older(v) /\ Older(v) \cap Older(w) = {}
  <2>1. v \in All /\ w \in All  BY <1>0, <1>2, <1>10 DEF Active
  <2>2. CASE v = u
    <3>1. w \in Active /\ w # replaces[u]  BY <1>2, <1>10, <2>2
    <3> QED  BY <1>9, <2>2, <3>1
  <2>3. CASE w = u
    <3>1. v \in Active /\ v # replaces[u]  BY <1>2, <1>10, <2>3
    <3>2. Older(w) \cap Older(v) = {}  BY <1>9, <2>3, <3>1
    <3> QED  BY <1>8, <2>1, <2>3, <3>2
  <2>4. CASE v # u /\ w # u
    <3>1. v \in Active /\ w \in Active  BY <1>2, <1>10, <2>4
    <3> QED  BY <1>10, <3>1 DEF OfferInv, OfferIsSound
  <2> QED  BY <2>2, <2>3, <2>4
<1>11. \A v \in Active' : v \in All  BY <1>0, <1>2 DEF Active
<1> QED  BY <1>6, <1>7, <1>10, <1>11 DEF OfferInv, OfferIsSound

LEMMA OfferInit == Init => OfferInv
<1> SUFFICES ASSUME Init PROVE OfferInv
  OBVIOUS
<1>1. /\ Active = Existing /\ (\A v \in All : Older(v) = {})
  <2>1. \A v \in All : v # NoFile /\ replaces[v] = NoFile
    BY FilesAssumption DEF Init, All
  <2>2. Active = Existing  BY DEF Init, Active, All
  <2> QED  BY <2>1, <2>2 DEF Older
<1>2. \A v \in Active : v \in All  BY DEF Active
<1> QED  BY <1>1, <1>2, FilesAssumption DEF OfferInv, OfferIsSound

LEMMA OfferStep ==
  ASSUME FilesInv, OfferInv, [Next]_vars
  PROVE  OfferInv'
<1>1. TypeOK  BY DEF FilesInv
<1>2. ASSUME UNCHANGED <<replaces, file>>  PROVE OfferInv'
  BY <1>2, OfferShrinks DEF Active, Filed
<1>3. ASSUME NEW u \in All, replaces' = replaces,
             NEW s \in {"inactive", "deleted"}, file' = [file EXCEPT ![u] = s]
      PROVE  OfferInv'
  <2>1. Active' \subseteq Active  BY <1>1, <1>3 DEF Active, TypeOK
  <2> QED  BY <1>3, <2>1, OfferShrinks
<1>4. ASSUME NEW u \in Uploads, Page(u)  PROVE OfferInv'
  <2>1. CASE Start(u)
    <3>1. u \in All /\ ~Filed(u) /\ file' = file
      BY <2>1 DEF FilesInv, UploadOK, Start, All
    <3>2. \A v \in All : Filed(v) => replaces'[v] = replaces[v]
      <4>1. \/ replaces' = replaces
            \/ \E f \in Active : replaces' = [replaces EXCEPT ![u] = f]
        BY <2>1 DEF Start
      <4> QED  BY <1>1, <3>1, <4>1 DEF TypeOK
    <3>3. Active' = Active  BY <3>1 DEF Active
    <3> QED  BY <3>2, <3>3, OfferShrinks
  <2> QED
    BY <1>2, <1>4, <2>1 DEF Page, StartAnswered, PartsSent, PartsFail, Cancel, CompleteAnswered
<1>5. ASSUME NEW u \in Uploads, Server(u)  PROVE OfferInv'
  <2>1. CASE Deliver(u)
    <3>1. CASE file' = file  BY <1>2, <2>1, <3>1 DEF Deliver
    <3>2. CASE /\ Accepted(u)
               /\ file' = [f \in All |-> IF f = u THEN "active"
                                         ELSE IF f = replaces[u] THEN "inactive" ELSE file[f]]
      BY <2>1, <3>2, OfferGrows
    <3> QED  BY <2>1, <3>1, <3>2 DEF Deliver
  <2> QED
    BY <1>2, <1>5, <2>1 DEF Server, CreateMultipart, InsertSession, ClaimComplete, ClaimAbort,
       Claim, CompleteStorage, VerificationFailed, AbortStorage, SaveAborted
<1>6. ASSUME NEW u \in Uploads, WorkerDies(u) \/ Age(u)  PROVE OfferInv'
  BY <1>2, <1>6 DEF WorkerDies, Age
<1>7. ASSUME NEW u \in All, Hide(u)  PROVE OfferInv'  BY <1>3, <1>7 DEF Hide
<1>8. CASE Job
  <2>1. CASE JobBegins \/ JobMoves  BY <1>2, <2>1 DEF JobBegins, JobMoves
  <2>2. ASSUME NEW u \in All, JobAborts(u) \/ JobDeletes(u)  PROVE OfferInv'
    BY <1>2, <2>2 DEF JobAborts, JobDeletes
  <2>3. ASSUME NEW u \in All, JobSaves(u)  PROVE OfferInv'
    <3>1. replaces' = replaces  BY <2>3 DEF JobSaves
    <3>2. file' = file \/ file' = [file EXCEPT ![u] = "deleted"]
      <4>1. CASE job.phase = "stale"  BY <2>3, <4>1 DEF JobSaves
      <4>2. CASE job.phase = "orphans"  BY <2>3, <4>2 DEF JobSaves
      <4>3. CASE job.phase \notin {"stale", "orphans"}  BY <2>3, <4>3 DEF JobSaves
      <4> QED  BY <4>1, <4>2, <4>3
    <3> QED  BY <1>2, <1>3, <3>1, <3>2
  <2> QED  BY <1>8, <2>1, <2>2, <2>3 DEF Job
<1>9. CASE JobDies \/ RetentionEnds  BY <1>2, <1>9 DEF JobDies, RetentionEnds
<1>10. CASE UNCHANGED vars  BY <1>2, <1>10 DEF vars
<1> QED  BY <1>4, <1>5, <1>6, <1>7, <1>8, <1>9, <1>10 DEF Next

\* However many uploads finish at a time, each checked without a lock when it
\* started, the offer stays within its limit and shows one version of a file.
THEOREM OfferStaysSound == Spec => []OfferIsSound
<1>1. Init => FilesInv /\ OfferInv  BY InitHolds, OfferInit
<1>2. FilesInv /\ OfferInv /\ [Next]_vars => (FilesInv /\ OfferInv)'
  BY StepHolds, OfferStep
<1>3. FilesInv /\ OfferInv => OfferIsSound  BY DEF OfferInv
<1> QED  BY <1>1, <1>2, <1>3, PTL DEF Spec
=============================================================================
