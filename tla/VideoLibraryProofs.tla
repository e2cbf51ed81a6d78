------------------------- MODULE VideoLibraryProofs -------------------------
(***************************************************************************)
(* Theorems of VideoLibrary, for any uploads, requests and tokens.  The    *)
(* upload side and the token side touch each other in no variable, so each *)
(* has an inductive invariant of its own.                                  *)
(***************************************************************************)
EXTENDS VideoLibrary, TLAPS

\* What is behind KeyNamesObject: the request that is about to finish has its
\* object, and the keys an open form would put back have theirs.
UploadInv ==
  /\ TypeOK
  /\ \A u \in Uploads : work[u] = "finished" => store[u] = "done"
  /\ KeyNamesObject
  /\ form # NoForm => \A f \in Fields : store[form[f]] = "done"

\* What is behind OneUse: as long as no two requests were making the first token
\* at once, one is, and only while there is none.
TokenInv ==
  ~overlapped =>
    /\ \A r, s \in making : r = s
    /\ making # {} => \A t \in Tokens : ~Made(t)
    /\ \A s, t \in Tokens : Made(s) /\ Made(t) => s = t

USE DEF Uploads, Requests, Objects, Fields, Status, Work

\* Both invariants hold at first.
LEMMA InitEstablishes == Init => UploadInv /\ TokenInv
<1> SUFFICES ASSUME Init PROVE UploadInv /\ TokenInv
  OBVIOUS
<1>1. UploadInv
  BY LibraryAssumption DEF Init, UploadInv, TypeOK, KeyNamesObject
<1>2. TokenInv
  BY DEF Init, TokenInv, Made
<1> QED BY <1>1, <1>2

\* What buyers do leaves everything that UploadInv says about uploads.
LEMMA SalesKeepUploads ==
  ASSUME UploadInv, UNCHANGED <<uploadVars, key, form>>, faults' \in Nat, claimed' \in BOOLEAN,
         tokens' \in [Tokens -> {"none", "valid", "used", "expired"}],
         making' \in SUBSET Requests, overlapped' \in BOOLEAN
  PROVE  UploadInv'
  BY DEF UploadInv, TypeOK, KeyNamesObject, uploadVars

\* One step of an upload, by its actions.
LEMMA UploadStep ==
  ASSUME UploadInv, NEW u \in Uploads, Upload(u)
  PROVE  UploadInv'
<1> USE LibraryAssumption DEF UploadInv, TypeOK, KeyNamesObject, Put, Save, At, saleVars, Fault, Maybe
<1>1. CASE Start(u)
  BY <1>1 DEF Start
<1>2. CASE InsertSession(u)
  BY <1>2 DEF InsertSession
<1>3. CASE ClaimComplete(u) \/ ClaimAbort(u)
  BY <1>3 DEF ClaimComplete, ClaimAbort, Claim
<1>4. CASE CompleteStorage(u)
  BY <1>4 DEF CompleteStorage
<1>5. CASE CompleteFails(u)
  BY <1>5 DEF CompleteFails
<1>6. CASE Finish(u)
  BY <1>6 DEF Finish, FieldOf
<1>7. CASE AbortStorage(u)
  BY <1>7 DEF AbortStorage
<1>8. CASE FinishAbort(u)
  BY <1>8 DEF FinishAbort
<1>9. CASE WorkerDies(u)
  BY <1>9 DEF WorkerDies
<1> QED
  BY <1>1, <1>2, <1>3, <1>4, <1>5, <1>6, <1>7, <1>8, <1>9 DEF Upload

\* UploadInv is inductive.
LEMMA UploadInvStep == UploadInv /\ [Next]_vars => UploadInv'
<1> SUFFICES ASSUME UploadInv, [Next]_vars PROVE UploadInv'
  OBVIOUS
<1>1. ASSUME NEW u \in Uploads, Upload(u) PROVE UploadInv'
  BY <1>1, UploadStep
<1>2. CASE OpenForm
  BY <1>2 DEF OpenForm, UploadInv, TypeOK, KeyNamesObject, uploadVars, saleVars
<1>3. CASE SaveForm
  BY <1>3 DEF SaveForm, UploadInv, TypeOK, KeyNamesObject, uploadVars, saleVars, FieldOf
<1>4. ASSUME NEW r \in Requests, FindNoToken(r) PROVE UploadInv'
  BY <1>4, SalesKeepUploads DEF FindNoToken, UploadInv, TypeOK
<1>5. ASSUME NEW r \in Requests, MakeToken(r) PROVE UploadInv'
  BY <1>5, SalesKeepUploads DEF MakeToken, UploadInv, TypeOK
<1>6. ASSUME NEW t \in Tokens, Redeem(t) \/ Expire(t) PROVE UploadInv'
  BY <1>6, SalesKeepUploads DEF Redeem, Expire, UploadInv, TypeOK
<1>7. CASE ClaimOrder
  BY <1>7, SalesKeepUploads DEF ClaimOrder, UploadInv, TypeOK
<1>8. CASE UNCHANGED vars
  BY <1>8, SalesKeepUploads DEF vars, saleVars, UploadInv, TypeOK
<1> QED
  BY <1>1, <1>2, <1>3, <1>4, <1>5, <1>6, <1>7, <1>8 DEF Next

\* TokenInv is inductive, given the types.
LEMMA TokenInvStep == TypeOK /\ TokenInv /\ [Next]_vars => TokenInv'
<1> SUFFICES ASSUME TypeOK, TokenInv, [Next]_vars PROVE TokenInv'
  OBVIOUS
<1> USE DEF TokenInv, Made
<1>1. CASE UNCHANGED saleVars
  BY <1>1 DEF saleVars
<1>2. ASSUME NEW r \in Requests, FindNoToken(r) PROVE TokenInv'
  BY <1>2 DEF FindNoToken, Blocked, TypeOK
<1>3. ASSUME NEW r \in Requests, MakeToken(r) PROVE TokenInv'
  <2> SUFFICES ASSUME ~overlapped PROVE TokenInv'
    BY <1>3 DEF MakeToken
  <2>1. \A t \in Tokens : ~Made(t)
    BY <1>3 DEF MakeToken
  <2>2. making' = {}
    BY <1>3 DEF MakeToken
  <2>3. PICK t \in Tokens : tokens' = [tokens EXCEPT ![t] = "valid"]
    BY <1>3 DEF MakeToken
  <2> QED BY <2>1, <2>2, <2>3 DEF TypeOK
<1>4. ASSUME NEW t \in Tokens, Redeem(t) \/ Expire(t) PROVE TokenInv'
  BY <1>4 DEF Redeem, Expire, TypeOK
<1>5. ASSUME NEW u \in Uploads, Upload(u) PROVE UNCHANGED saleVars
  BY <1>5 DEF Upload, Start, InsertSession, ClaimComplete, ClaimAbort, Claim, CompleteStorage,
              CompleteFails, Finish, AbortStorage, FinishAbort, WorkerDies
<1>6. CASE OpenForm \/ SaveForm
  BY <1>1, <1>6 DEF OpenForm, SaveForm
<1>7. CASE ClaimOrder
  BY <1>7 DEF ClaimOrder
<1>8. CASE UNCHANGED vars
  BY <1>1, <1>8 DEF vars
<1> QED
  BY <1>1, <1>2, <1>3, <1>4, <1>5, <1>6, <1>7, <1>8 DEF Next

-----------------------------------------------------------------------------
\* Neither invariant is left by any step of uploads, staff or buyers.
LEMMA Invariance == Spec => [](UploadInv /\ TokenInv)
<1>1. UploadInv /\ TokenInv /\ [Next]_vars => (UploadInv /\ TokenInv)'
  BY UploadInvStep, TokenInvStep DEF UploadInv
<1> QED
  BY <1>1, InitEstablishes, PTL DEF Spec

\* Rows, keys and tokens have their types, and a COMPLETED session its object.
THEOREM TypeCorrect == Spec => []TypeOK
  BY Invariance, PTL DEF UploadInv

\* The video's keys always name objects of the bucket.
THEOREM KeysNameObjects == Spec => []KeyNamesObject
  BY Invariance, PTL DEF UploadInv

\* Without overlapping look-ups of the first token a link works once.
THEOREM LinkWorksOnce == Spec => []OneUse
<1>1. TokenInv => OneUse
  BY DEF TokenInv, OneUse, Made
<1> QED
  BY <1>1, Invariance, PTL
=============================================================================
