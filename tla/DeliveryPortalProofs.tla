------------------------ MODULE DeliveryPortalProofs -------------------------
(***************************************************************************)
(* Theorems of DeliveryPortal, for any recipients, requests, keys and      *)
(* versions.  Each property has an invariant of its own, which says what   *)
(* the requests in progress carry of what they have read; TypeInv is under *)
(* all of them.                                                            *)
(***************************************************************************)
EXTENDS DeliveryPortal, TLAPS

\* An open form holds a row of the kind it will save.
FormInv ==
  edit # None => IF edit.recipient = None THEN edit.row \in DeliveryRow
                                          ELSE edit.row \in RecipientRow

TypeInv == TypeOK /\ FormInv

Mailing(q) == requests[q] # None /\ requests[q].kind \in MailKinds

\* A key belongs to the request that recorded its attempt, and no mail has left
\* under it before that request sends it.
MailInv ==
  /\ \A q \in Requests : Mailing(q) =>
       /\ requests[q].key \in Keys /\ attempts[requests[q].key] # None
       /\ requests[q].step \in {"loaded", "allowed"} => mails[requests[q].key] = 0
       /\ \A p \in Requests : Mailing(p) /\ requests[p].key = requests[q].key => p = q
  /\ \A k \in Keys : attempts[k] = None => mails[k] = 0
  /\ OneMailPerKey

\* While a request lasts, the release of the media is remembered; past its
\* decision they were released.
ReleaseInv ==
  \A q \in Requests : requests[q] # None =>
    /\ CanRelease => releasedSince[q]
    /\ requests[q].step # "loaded" => releasedSince[q]

Closed == delivery.status \in {"revoked", "archived"}

\* The rows refuse a link that was stopped.
Refused(r, v) ==
  \/ Closed
  \/ recipients[r] # None /\ (recipients[r].revoked \/ recipients[r].version > v)

\* As long as no form has put an older row back, every stopped link is refused,
\* and a request that came with one gets no further than reading.
StopInv ==
  ~restored =>
    /\ \A r \in Recipients, v \in Version : <<r, v>> \in stopped => Refused(r, v)
    /\ \A q \in Requests : requests[q] # None /\ requests[q].late =>
         requests[q].step = "loaded" /\ ~requests[q].valid

PortalInv == TypeInv /\ MailInv /\ ReleaseInv /\ StopInv

\* All of it holds at first.
LEMMA InitEstablishes == Init => PortalInv
<1> SUFFICES ASSUME Init PROVE PortalInv
  OBVIOUS
<1> USE DEF Init
<1>1. TypeInv
  <2>1. delivery \in DeliveryRow /\ enquiry \in [completed : BOOLEAN, paid : BOOLEAN,
                                                override : BOOLEAN]
    BY DEF DeliveryRow
  <2>2. recipients \in [Recipients -> RecipientRow \union {None}]
    OBVIOUS
  <2>3. requests \in [Requests -> Request \union {None}]
    OBVIOUS
  <2>4. mails \in [Keys -> 0..2] /\ attempts \in [Keys -> {None, "pending", "sent", "failed"}]
    OBVIOUS
  <2>5. releasedSince \in [Requests -> BOOLEAN]
    OBVIOUS
  <2> QED BY <2>1, <2>2, <2>3, <2>4, <2>5 DEF TypeInv, TypeOK, FormInv
<1>2. MailInv
  BY DEF MailInv, Mailing, OneMailPerKey
<1>3. ReleaseInv
  BY DEF ReleaseInv
<1>4. StopInv
  BY DEF StopInv
<1> QED BY <1>1, <1>2, <1>3, <1>4 DEF PortalInv

-----------------------------------------------------------------------------
\* What a request that begins has read is of the right type.
LEMMA LoadTyped ==
  ASSUME TypeOK, NEW q \in Requests, NEW kind \in Kinds, NEW r \in Recipients,
         NEW v \in Version, NEW key \in Keys \union {None}, Load(q, kind, r, v, key)
  PROVE  /\ requests' \in [Requests -> Request \union {None}]
         /\ releasedSince' \in [Requests -> BOOLEAN]
<1> DEFINE late == <<r, v>> \in stopped
<1> DEFINE released == enquiry.paid \/ enquiry.override
<1>1. Valid(r) \in BOOLEAN /\ late \in BOOLEAN /\ released \in BOOLEAN
  BY DEF Valid
<1>2. <<r, v>> \in Link
  BY DEF Link
<1>3. [kind |-> kind, link |-> <<r, v>>, valid |-> Valid(r), key |-> key,
       late |-> late, step |-> "loaded"] \in Request
  <2> HIDE DEF late
  <2> QED BY <1>1, <1>2 DEF Request
<1>4. requests' = [requests EXCEPT ![q] =
        [kind |-> kind, link |-> <<r, v>>, valid |-> Valid(r), key |-> key,
         late |-> late, step |-> "loaded"]]
  BY DEF Load
<1>5. releasedSince' = [releasedSince EXCEPT ![q] = released]
  BY DEF Load
<1> HIDE DEF late, released
<1> QED BY <1>1, <1>3, <1>4, <1>5 DEF TypeOK

\* The types: one step per action.
LEMMA TypeStep == TypeInv /\ MailInv /\ [Next]_vars => TypeInv'
<1> SUFFICES ASSUME TypeInv, MailInv, [Next]_vars PROVE TypeInv'
  OBVIOUS
<1> USE PortalAssumption, NoneAssumption
    DEF TypeInv, TypeOK, FormInv, portalVars, mailVars, formVars, RecipientRow, DeliveryRow,
        Version
<1>1. ASSUME NEW r \in Recipients, AddRecipient(r) \/ RevokeRecipient(r) \/ RotateLink(r)
      PROVE TypeInv'
  <2>1. CASE AddRecipient(r)
    BY <2>1 DEF AddRecipient
  <2>2. CASE RevokeRecipient(r)
    <3> DEFINE links == {link \in Link : link[1] = r}
    <3>3. links \subseteq Link
      <4> HIDE DEF TypeOK
      <4> QED OBVIOUS
    <3>4. stopped' = stopped \union links
      <4> HIDE DEF TypeOK, Version
      <4> QED BY <2>2, Zenon DEF RevokeRecipient
    <3>5. stopped \subseteq Link
      OBVIOUS
    <3> HIDE DEF links
    <3>1. stopped' \subseteq Link
      BY <3>3, <3>4, <3>5
    <3>6. recipients[r] # None /\ recipients' = [recipients EXCEPT ![r].revoked = TRUE]
      <4> HIDE DEF TypeOK, Version
      <4> QED BY <2>2, Zenon DEF RevokeRecipient
    <3>2. recipients' \in [Recipients -> RecipientRow \union {None}]
      <4>1. recipients[r] \in RecipientRow /\ r \in Recipients
        BY <1>1, <3>6
      <4> QED BY <3>6, <4>1
    <3> QED BY <2>2, <3>1, <3>2 DEF RevokeRecipient
  <2>3. CASE RotateLink(r)
    <3>1. stopped' \subseteq Link
      BY <2>3 DEF RotateLink, Link
    <3>2. recipients' \in [Recipients -> RecipientRow \union {None}]
      BY <2>3 DEF RotateLink
    <3> QED BY <2>3, <3>1, <3>2 DEF RotateLink
  <2> QED BY <1>1, <2>1, <2>2, <2>3
<1>2. CASE Activate
  BY <1>2 DEF Activate
<1>3. ASSUME NEW status \in {"revoked", "archived"}, CloseDelivery(status) PROVE TypeInv'
  BY <1>3 DEF CloseDelivery
<1>4. ASSUME NEW r \in Recipients \union {None}, OpenForm(r) PROVE TypeInv'
  BY <1>4 DEF OpenForm, Edit
<1>5. ASSUME NEW expiry \in {"unset", "future", "past"}, SaveForm(expiry) PROVE TypeInv'
  BY <1>5 DEF SaveForm, Edit
<1>6. ASSUME NEW field \in {"completed", "paid", "override"}, EnquiryChanges(field)
      PROVE TypeInv'
  <2>1. CASE field = "completed"
    BY <1>6, <2>1 DEF EnquiryChanges
  <2>2. CASE field = "paid"
    BY <1>6, <2>2 DEF EnquiryChanges
  <2>3. CASE field = "override"
    BY <1>6, <2>3 DEF EnquiryChanges
  <2> QED BY <2>1, <2>2, <2>3
<1>7. CASE FilesChange \/ MarkExpired
  BY <1>7 DEF FilesChange, MarkExpired
<1>8. CASE TimePasses
  <2>1. ASSUME NEW q \in Requests PROVE requests'[q] \in Request \union {None}
    <3>1. CASE requests[q] = None
      BY <1>8, <3>1 DEF TimePasses
    <3>2. CASE requests[q] # None
      <4>1. requests'[q] = [requests[q] EXCEPT !.valid = FALSE]
        BY <1>8, <3>2 DEF TimePasses
      <4> QED BY <3>2, <4>1 DEF Request
    <3> QED BY <3>1, <3>2
  <2>2. requests' = [q \in Requests |-> requests'[q]]
    BY <1>8 DEF TimePasses
  <2>3. requests' \in [Requests -> Request \union {None}]
    BY <2>1, <2>2
  <2> QED BY <1>8, <2>3 DEF TimePasses
<1>9. ASSUME NEW link \in Link, SessionExpires(link) PROVE TypeInv'
  BY <1>9 DEF SessionExpires
<1>10. ASSUME NEW q \in Requests, Handling(q) PROVE TypeInv'
  <2>1. ASSUME NEW kind \in Kinds \ MailKinds, NEW r \in Recipients, NEW v \in Version,
               LoadRecipient(q, kind, r, v)
        PROVE TypeInv'
    <3>1. Load(q, kind, r, v, None) /\ kind \in Kinds /\ None \in Keys \union {None}
      BY <2>1 DEF LoadRecipient
    <3>2. /\ requests' \in [Requests -> Request \union {None}]
          /\ releasedSince' \in [Requests -> BOOLEAN]
      <4> HIDE DEF TypeOK
      <4> QED BY <1>10, <2>1, <3>1, LoadTyped
    <3> QED BY <2>1, <3>2 DEF LoadRecipient
  <2>2. ASSUME NEW kind \in MailKinds, NEW r \in Recipients, NEW k \in Keys,
               LoadMail(q, kind, r, k)
        PROVE TypeInv'
    <3>1. recipients[r].version \in Version
      BY <2>2 DEF LoadMail
    <3>2. Load(q, kind, r, recipients[r].version, k) /\ kind \in Kinds
      BY <2>2 DEF LoadMail, Kinds, MailKinds
    <3>3. /\ requests' \in [Requests -> Request \union {None}]
          /\ releasedSince' \in [Requests -> BOOLEAN]
      <4> HIDE DEF TypeOK, Version
      <4> QED BY <1>10, <2>2, <3>1, <3>2, LoadTyped
    <3> QED BY <2>2, <3>3 DEF LoadMail
  <2>3. CASE Decide(q)
    <3>1. CASE Allowed(requests[q])
      BY <2>3, <3>1 DEF Decide, Step, Request
    <3>2. CASE ~Allowed(requests[q])
      <4>1. attempts' \in [Keys -> {None, "pending", "sent", "failed"}]
        BY <2>3, <3>2 DEF Decide
      <4>2. /\ requests' \in [Requests -> Request \union {None}]
            /\ releasedSince' \in [Requests -> BOOLEAN]
        BY <2>3, <3>2 DEF Decide, End
      <4> QED BY <2>3, <4>1, <4>2 DEF Decide
    <3> QED BY <3>1, <3>2
  <2>4. CASE SaveAccess(q)
    <3>1. requests[q] \in Request /\ requests[q].link[1] \in Recipients
      BY <1>10, <2>4 DEF SaveAccess, Step, Request, Link
    <3>2. recipients' = recipients
      BY <2>4, <3>1 DEF SaveAccess, AccessRow
    <3>3. requests' \in [Requests -> Request \union {None}]
      BY <2>4, <3>1 DEF SaveAccess, Step, Request
    <3> QED BY <2>4, <3>2, <3>3 DEF SaveAccess
  <2>5. CASE Answer(q)
    BY <2>5 DEF Answer, Step, Request
  <2>6. CASE SendMail(q)
    BY <2>6 DEF SendMail, Step, Request, MailInv, Mailing, OneMailPerKey
  <2>7. ASSUME NEW left \in 0..1, SendMailFails(q, left) PROVE TypeInv'
    BY <2>7 DEF SendMailFails, End, Request, MailInv, Mailing, OneMailPerKey
  <2>8. CASE Finish(q)
    BY <2>8 DEF Finish, End, Request
  <2>9. CASE Fail(q)
    BY <2>9 DEF Fail, End
  <2> QED
    BY <1>10, <2>1, <2>2, <2>3, <2>4, <2>5, <2>6, <2>7, <2>8, <2>9 DEF Handling
<1>11. CASE UNCHANGED vars
  BY <1>11 DEF vars
<1> QED
  BY <1>1, <1>2, <1>3, <1>4, <1>5, <1>6, <1>7, <1>8, <1>9, <1>10, <1>11 DEF Next, Staff

-----------------------------------------------------------------------------
\* Every step but the beginning of a request keeps the key of each request that
\* goes on, and a mail leaves only under the key of a request that decided to send.
Going(q) ==
  /\ requests[q] # None
  /\ requests'[q].kind = requests[q].kind /\ requests'[q].key = requests[q].key
  /\ requests'[q].step \in {"loaded", "allowed"} => requests[q].step \in {"loaded", "allowed"}

Sends(q, left) ==
  /\ Mailing(q) /\ requests[q].step = "allowed"
  /\ requests'[q] = None \/ requests'[q].step = "answered"
  /\ mails' = [mails EXCEPT ![requests[q].key] = @ + left]

LEMMA MailFrame ==
  ASSUME TypeOK, MailInv,
         \A q \in Requests : requests'[q] # None => Going(q),
         \A k \in Keys : attempts'[k] = None <=> attempts[k] = None,
         mails' = mails \/ \E q \in Requests, left \in 0..1 : Sends(q, left)
  PROVE  MailInv'
<1> USE DEF MailInv
<1>1. ASSUME NEW q \in Requests, Mailing(q)'
      PROVE  Mailing(q) /\ requests'[q].key = requests[q].key /\ requests[q].key \in Keys
  BY <1>1 DEF Mailing, Going
<1>2. \A k \in Keys : attempts'[k] = None => mails'[k] = 0
  <2>1. CASE mails' = mails
    BY <2>1
  <2>2. ASSUME NEW q \in Requests, NEW left \in 0..1, Sends(q, left)
        PROVE  \A k \in Keys : attempts'[k] = None => mails'[k] = 0
    BY <2>2 DEF Sends, TypeOK
  <2> QED BY <2>1, <2>2
<1>3. OneMailPerKey'
  <2>1. CASE mails' = mails
    BY <2>1 DEF OneMailPerKey
  <2>2. ASSUME NEW q \in Requests, NEW left \in 0..1, Sends(q, left)
        PROVE  OneMailPerKey'
    <3>1. mails[requests[q].key] = 0 /\ requests[q].key \in Keys
      BY <2>2 DEF Sends
    <3> QED BY <2>2, <3>1 DEF Sends, OneMailPerKey, TypeOK
  <2> QED BY <2>1, <2>2
<1>4. ASSUME NEW q \in Requests, Mailing(q)', requests'[q].step \in {"loaded", "allowed"}
      PROVE  mails'[requests'[q].key] = 0
  <2>1. /\ Mailing(q) /\ requests'[q].key = requests[q].key /\ requests[q].key \in Keys
        /\ mails[requests[q].key] = 0 /\ requests'[q] # None
    BY <1>1, <1>4 DEF Mailing, Going
  <2>2. CASE mails' = mails
    BY <2>1, <2>2
  <2>3. ASSUME NEW p \in Requests, NEW left \in 0..1, Sends(p, left)
        PROVE  mails'[requests'[q].key] = 0
    <3>1. p # q
      BY <1>4, <2>1, <2>3 DEF Sends
    <3>2. requests[p].key # requests[q].key
      BY <2>1, <2>3, <3>1 DEF Sends
    <3> QED BY <2>1, <2>3, <3>2 DEF Sends, TypeOK
  <2> QED BY <2>2, <2>3
<1>5. ASSUME NEW q \in Requests, Mailing(q)'
      PROVE  /\ requests'[q].key \in Keys /\ attempts'[requests'[q].key] # None
             /\ \A p \in Requests : Mailing(p)' /\ requests'[p].key = requests'[q].key => p = q
  BY <1>1, <1>5
<1> QED BY <1>2, <1>3, <1>4, <1>5

\* A request that begins with a key is the first of that key.
LEMMA MailLoad ==
  ASSUME TypeOK, MailInv, NEW q \in Requests, NEW kind \in Kinds, NEW r \in Recipients,
         NEW v \in Version, NEW key \in Keys \union {None}, Load(q, kind, r, v, key),
         mails' = mails,
         \/ kind \notin MailKinds /\ attempts' = attempts
         \/ key \in Keys /\ Fresh(key) /\ attempts' = [attempts EXCEPT ![key] = "pending"]
  PROVE  MailInv'
<1>1. requests'[q].kind = kind /\ requests'[q].key = key /\ requests[q] = None
  BY DEF Load, TypeOK
<1>2. \A p \in Requests : p # q => requests'[p] = requests[p]
  BY DEF Load, TypeOK
<1> USE DEF MailInv
<1>3. "pending" # None
  BY NoneAssumption
<1>4. \A k \in Keys : attempts[k] # None => attempts'[k] # None
  BY <1>3 DEF TypeOK
<1>5. OneMailPerKey'
  BY DEF OneMailPerKey
<1>6. \A k \in Keys : attempts'[k] = None => mails'[k] = 0
  BY <1>4
<1>7. ASSUME NEW p \in Requests, Mailing(p)', p # q
      PROVE  /\ Mailing(p) /\ requests'[p] = requests[p]
             /\ key \in Keys /\ Fresh(key) => requests[p].key # key
  BY <1>2, <1>7 DEF Mailing, Fresh
<1>8. ASSUME Mailing(q)' PROVE key \in Keys /\ Fresh(key) /\ attempts'[key] = "pending"
  <2>1. key \in Keys /\ Fresh(key) /\ attempts' = [attempts EXCEPT ![key] = "pending"]
    BY <1>1, <1>8 DEF Mailing
  <2> QED BY <2>1 DEF TypeOK
<1>9. ASSUME NEW p \in Requests, Mailing(p)'
      PROVE  /\ requests'[p].key \in Keys /\ attempts'[requests'[p].key] # None
             /\ requests'[p].step \in {"loaded", "allowed"} => mails'[requests'[p].key] = 0
  <2>1. CASE p = q
    BY <1>1, <1>3, <1>8, <1>9, <2>1 DEF Fresh
  <2>2. CASE p # q
    BY <1>4, <1>7, <1>9, <2>2
  <2> QED BY <2>1, <2>2
<1>10. ASSUME NEW p \in Requests, NEW o \in Requests, Mailing(p)', Mailing(o)',
              requests'[p].key = requests'[o].key
       PROVE  p = o
  <2>1. CASE p # q /\ o # q
    BY <1>7, <1>10, <2>1
  <2>2. CASE p = q \/ o = q
    BY <1>1, <1>7, <1>8, <1>10, <2>2
  <2> QED BY <2>1, <2>2
<1> QED BY <1>5, <1>6, <1>9, <1>10

\* The mails: every action but the beginning of a request is a case of MailFrame.
LEMMA MailStep == TypeOK /\ MailInv /\ [Next]_vars => MailInv'
<1> SUFFICES ASSUME TypeOK, MailInv, [Next]_vars PROVE MailInv'
  OBVIOUS
<1> USE DEF portalVars, mailVars, formVars
<1>1. CASE UNCHANGED <<requests, mailVars>>
  BY <1>1, MailFrame DEF Going
<1>2. ASSUME \/ \E expiry \in {"unset", "future", "past"} : SaveForm(expiry)
             \/ Staff \/ MarkExpired \/ \E link \in Link : SessionExpires(link)
             \/ UNCHANGED vars
      PROVE  MailInv'
  <2>1. UNCHANGED <<requests, mailVars>>
    BY <1>2 DEF SaveForm, Staff, MarkExpired, SessionExpires, vars, AddRecipient,
      RevokeRecipient, RotateLink, Activate, CloseDelivery, OpenForm, EnquiryChanges, FilesChange
  <2> QED BY <1>1, <2>1
<1>3. CASE TimePasses
  <2>1. ASSUME NEW q \in Requests, requests'[q] # None PROVE Going(q)
    <3>1. requests[q] # None /\ requests'[q] = [requests[q] EXCEPT !.valid = FALSE]
      BY <1>3, <2>1 DEF TimePasses
    <3>2. requests[q] \in Request
      BY <3>1 DEF TypeOK
    <3> QED BY <3>1, <3>2 DEF Going, Request
  <2> QED BY <1>3, <2>1, MailFrame DEF TimePasses
<1>4. ASSUME NEW q \in Requests, Handling(q) PROVE MailInv'
  <2>1. ASSUME NEW kind \in Kinds \ MailKinds, NEW r \in Recipients, NEW v \in Version,
               LoadRecipient(q, kind, r, v)
        PROVE MailInv'
    BY <1>4, <2>1, MailLoad DEF LoadRecipient
  <2>2. ASSUME NEW kind \in MailKinds, NEW r \in Recipients, NEW k \in Keys,
               LoadMail(q, kind, r, k)
        PROVE MailInv'
    <3>1. recipients[r].version \in Version
      BY <2>2 DEF LoadMail, TypeOK, RecipientRow
    <3>2. kind \in Kinds
      BY DEF Kinds, MailKinds
    <3> QED BY <1>4, <2>2, <3>1, <3>2, MailLoad DEF LoadMail
  <2>3. ASSUME End(q) PROVE \A p \in Requests : requests'[p] # None => Going(p)
    BY <1>4, <2>3 DEF End, TypeOK, Going
  <2>4. ASSUME NEW from, NEW to \in {"allowed", "saved", "answered"}, Step(q, from, to),
               to = "allowed" => from = "loaded"
        PROVE  \A p \in Requests : requests'[p] # None => Going(p)
    <3>1. requests[q] \in Request
      BY <1>4, <2>4 DEF Step, TypeOK
    <3> QED BY <1>4, <2>4, <3>1 DEF Step, TypeOK, Going, Request
  <2>5. CASE Decide(q)
    <3>1. CASE Allowed(requests[q])
      <4>1. Step(q, "loaded", "allowed") /\ UNCHANGED mailVars
        BY <2>5, <3>1 DEF Decide
      <4> QED BY <2>4, <4>1, MailFrame
    <3>2. CASE ~Allowed(requests[q])
      <4>1. End(q) /\ mails' = mails
        BY <2>5, <3>2 DEF Decide
      <4>2. \A k \in Keys : attempts'[k] = None <=> attempts[k] = None
        BY <1>4, <2>5, <3>2, NoneAssumption DEF Decide, MailInv, Mailing, TypeOK
      <4> QED BY <2>3, <4>1, <4>2, MailFrame
    <3> QED BY <3>1, <3>2
  <2>6. CASE SaveAccess(q)
    BY <2>4, <2>6, MailFrame DEF SaveAccess
  <2>7. CASE Answer(q)
    BY <2>4, <2>7, MailFrame DEF Answer
  <2>8. CASE SendMail(q)
    <3>1. Step(q, "allowed", "answered") /\ attempts' = attempts
      BY <2>8 DEF SendMail
    <3>2. Sends(q, 1)
      <4>1. requests[q] \in Request
        BY <1>4, <3>1 DEF Step, TypeOK
      <4> QED BY <1>4, <2>8, <4>1 DEF SendMail, Step, Sends, Mailing, TypeOK, Request
    <3> QED BY <1>4, <2>4, <3>1, <3>2, MailFrame
  <2>9. ASSUME NEW left \in 0..1, SendMailFails(q, left) PROVE MailInv'
    <3>1. End(q) /\ \A k \in Keys : attempts'[k] = None <=> attempts[k] = None
      BY <1>4, <2>9, NoneAssumption DEF SendMailFails, MailInv, Mailing, TypeOK
    <3>2. Sends(q, left)
      BY <1>4, <2>9 DEF SendMailFails, End, Sends, Mailing, TypeOK
    <3> QED BY <1>4, <2>3, <3>1, <3>2, MailFrame
  <2>10. CASE Finish(q)
    <3>1. /\ End(q) /\ mails' = mails
          /\ \A k \in Keys : attempts'[k] = None <=> attempts[k] = None
      BY <1>4, <2>10, NoneAssumption DEF Finish, MailInv, Mailing, TypeOK
    <3> QED BY <2>3, <3>1, MailFrame
  <2>11. CASE Fail(q)
    BY <2>3, <2>11, MailFrame DEF Fail
  <2> QED
    BY <1>4, <2>1, <2>2, <2>5, <2>6, <2>7, <2>8, <2>9, <2>10, <2>11 DEF Handling
<1> QED BY <1>2, <1>3, <1>4 DEF Next

-----------------------------------------------------------------------------
\* The release: it is read when a request begins and when it decides, and every
\* change of the enquiry in between is remembered.
LEMMA ReleaseStep == TypeOK /\ ReleaseInv /\ [Next]_vars => ReleaseInv'
<1> SUFFICES ASSUME TypeOK, ReleaseInv, [Next]_vars PROVE ReleaseInv'
  OBVIOUS
<1> USE DEF portalVars, mailVars, formVars
<1>1. ASSUME \/ \E expiry \in {"unset", "future", "past"} : SaveForm(expiry)
             \/ \E r \in Recipients : AddRecipient(r) \/ RevokeRecipient(r) \/ RotateLink(r)
             \/ Activate \/ \E status \in {"revoked", "archived"} : CloseDelivery(status)
             \/ \E r \in Recipients \union {None} : OpenForm(r)
             \/ FilesChange \/ MarkExpired \/ \E link \in Link : SessionExpires(link)
             \/ UNCHANGED vars
      PROVE  ReleaseInv'
  <2>1. UNCHANGED <<requests, enquiry, releasedSince>>
    BY <1>1 DEF SaveForm, MarkExpired, SessionExpires, vars, AddRecipient,
      RevokeRecipient, RotateLink, Activate, CloseDelivery, OpenForm, FilesChange
  <2> QED BY <2>1 DEF ReleaseInv, CanRelease
<1>2. ASSUME NEW field \in {"completed", "paid", "override"}, EnquiryChanges(field)
      PROVE  ReleaseInv'
  <2>1. /\ requests' = requests
        /\ \A q \in Requests : releasedSince'[q] = (requests[q] # None /\
             (releasedSince[q] \/ enquiry'.paid \/ enquiry'.override))
    BY <1>2 DEF EnquiryChanges
  <2> QED BY <2>1 DEF ReleaseInv, CanRelease
<1>3. CASE TimePasses
  <2>1. ASSUME NEW q \in Requests, requests'[q] # None
        PROVE  requests[q] # None /\ requests'[q].step = requests[q].step
    <3>1. requests[q] # None /\ requests'[q] = [requests[q] EXCEPT !.valid = FALSE]
      BY <1>3, <2>1 DEF TimePasses
    <3>2. requests[q] \in Request
      BY <3>1 DEF TypeOK
    <3> QED BY <3>1, <3>2 DEF Request
  <2>2. UNCHANGED <<enquiry, releasedSince>>
    BY <1>3 DEF TimePasses
  <2> QED BY <2>1, <2>2 DEF ReleaseInv, CanRelease
<1>4. ASSUME NEW q \in Requests, Handling(q) PROVE ReleaseInv'
  <2>1. ASSUME NEW kind, NEW r, NEW v, NEW key, Load(q, kind, r, v, key), enquiry' = enquiry
        PROVE  ReleaseInv'
    <3>1. requests'[q].step = "loaded" /\ releasedSince'[q] = CanRelease
      BY <1>4, <2>1 DEF Load, TypeOK, CanRelease
    <3>2. \A p \in Requests \ {q} :
            requests'[p] = requests[p] /\ releasedSince'[p] = releasedSince[p]
      BY <1>4, <2>1 DEF Load, TypeOK
    <3> QED BY <2>1, <3>1, <3>2 DEF ReleaseInv, CanRelease
  <2>2. ASSUME End(q), enquiry' = enquiry PROVE ReleaseInv'
    <3>1. requests'[q] = None
      BY <1>4, <2>2 DEF End, TypeOK
    <3>2. \A p \in Requests \ {q} :
            requests'[p] = requests[p] /\ releasedSince'[p] = releasedSince[p]
      BY <1>4, <2>2 DEF End, TypeOK
    <3> QED BY <2>2, <3>1, <3>2 DEF ReleaseInv, CanRelease
  <2>3. ASSUME NEW from, NEW to, Step(q, from, to), from = "loaded" => CanRelease,
               UNCHANGED <<enquiry, releasedSince>>
        PROVE  ReleaseInv'
    <3>1. releasedSince[q] /\ requests[q] # None
      BY <1>4, <2>3 DEF Step, ReleaseInv
    <3>2. \A p \in Requests \ {q} : requests'[p] = requests[p]
      BY <1>4, <2>3 DEF Step, TypeOK
    <3> QED BY <2>3, <3>1, <3>2 DEF ReleaseInv, CanRelease
  <2>4. CASE Decide(q)
    BY <2>2, <2>3, <2>4 DEF Decide, Allowed
  <2>5. CASE SaveAccess(q) \/ Answer(q) \/ SendMail(q)
    BY <2>3, <2>5 DEF SaveAccess, Answer, SendMail
  <2>6. CASE Finish(q) \/ Fail(q) \/ \E left \in 0..1 : SendMailFails(q, left)
    BY <2>2, <2>6 DEF Finish, Fail, SendMailFails
  <2>7. CASE \/ \E kind \in Kinds \ MailKinds, r \in Recipients, v \in Version :
                  LoadRecipient(q, kind, r, v)
             \/ \E kind \in MailKinds, r \in Recipients, k \in Keys : LoadMail(q, kind, r, k)
    BY <2>1, <2>7 DEF LoadRecipient, LoadMail
  <2> QED BY <1>4, <2>4, <2>5, <2>6, <2>7 DEF Handling
<1> QED BY <1>1, <1>2, <1>3, <1>4 DEF Next, Staff

-----------------------------------------------------------------------------
\* A form whose row has not changed since it was read leaves the row's status,
\* version and revocation as they are.
LEMMA FormKeeps ==
  ASSUME TypeInv, NEW expiry, SaveForm(expiry), ~restored'
  PROVE  ~restored /\ recipients' = recipients /\ delivery'.status = delivery.status
<1>1. /\ ~restored /\ edit # None
      /\ edit.row = IF edit.recipient = None THEN delivery ELSE recipients[edit.recipient]
  BY DEF SaveForm
<1>2. edit.recipient \in Recipients \union {None}
  BY <1>1 DEF TypeInv, TypeOK, Edit
<1>3. CASE edit.recipient = None
  <2>1. recipients' = recipients /\ delivery' = [delivery EXCEPT !.expiry = expiry]
    BY <1>1, <1>3 DEF SaveForm
  <2> QED BY <1>1, <2>1 DEF TypeInv, TypeOK, DeliveryRow
<1>4. CASE edit.recipient # None
  <2>1. /\ delivery' = delivery
        /\ recipients' = [recipients EXCEPT ![edit.recipient] = recipients[edit.recipient]]
    BY <1>1, <1>4 DEF SaveForm
  <2> QED BY <1>1, <1>2, <1>4, <2>1 DEF TypeInv, TypeOK
<1> QED BY <1>3, <1>4

\* A recipient's row only moves forward, so a refused link stays refused.
LEMMA RefusedStays ==
  ASSUME TypeInv, NEW r \in Recipients, NEW v \in Version, Refused(r, v),
         Closed => Closed',
         recipients[r] # None =>
           /\ recipients'[r] # None
           /\ recipients[r].revoked => recipients'[r].revoked
           /\ recipients'[r].version >= recipients[r].version,
         recipients'[r] # None => recipients'[r] \in RecipientRow
  PROVE  Refused(r, v)'
<1>1. CASE Closed
  BY <1>1 DEF Refused, Closed
<1>2. CASE recipients[r] # None /\ recipients[r].revoked
  BY <1>2 DEF Refused
<1>3. CASE recipients[r] # None /\ recipients[r].version > v
  <2>1. recipients[r] \in RecipientRow /\ recipients'[r] \in RecipientRow
    BY <1>3 DEF TypeInv, TypeOK
  <2>2. recipients[r].version \in Nat /\ recipients'[r].version \in Nat /\ v \in Nat
    BY <2>1, PortalAssumption DEF RecipientRow, Version
  <2> QED BY <1>3, <2>2 DEF Refused
<1> QED BY <1>1, <1>2, <1>3 DEF Refused

\* Whoever stops a link leaves it refused, and a request that comes with a refused
\* link finds its access invalid.
LEMMA StopStep == TypeInv /\ TypeInv' /\ StopInv /\ [Next]_vars => StopInv'
<1> SUFFICES ASSUME TypeInv, TypeInv', StopInv, [Next]_vars, ~restored' PROVE StopInv'
  BY DEF StopInv
<1> USE DEF portalVars, mailVars, formVars
<1>1. ~restored
  <2>1. CASE \E expiry \in {"unset", "future", "past"} : SaveForm(expiry)
    BY <2>1, FormKeeps
  <2>2. CASE \/ Staff \/ TimePasses \/ MarkExpired \/ UNCHANGED vars
             \/ \E link \in Link : SessionExpires(link)
    BY <2>2 DEF Staff, TimePasses, MarkExpired, SessionExpires, vars, AddRecipient,
      RevokeRecipient, RotateLink, Activate, CloseDelivery, OpenForm, EnquiryChanges, FilesChange
  <2>3. ASSUME NEW q \in Requests, Handling(q) PROVE ~restored
    BY <2>3 DEF Handling, LoadRecipient, LoadMail, Decide, SaveAccess, Answer, SendMail,
      SendMailFails, Finish, Fail
  <2> QED BY <2>1, <2>2, <2>3 DEF Next
<1> DEFINE LinksRefused ==
      \A r \in Recipients, v \in Version : <<r, v>> \in stopped => Refused(r, v)
<1> DEFINE LateWait ==
      \A q \in Requests : requests[q] # None /\ requests[q].late =>
        requests[q].step = "loaded" /\ ~requests[q].valid
<1>2. LinksRefused /\ LateWait
  BY <1>1 DEF StopInv
<1>3. SUFFICES LinksRefused' /\ LateWait'
  BY DEF StopInv
<1>4. \A r \in Recipients : recipients[r] # None =>
        recipients[r].version \in Nat /\ recipients[r].version >= recipients[r].version
  BY PortalAssumption DEF TypeInv, TypeOK, RecipientRow, Version
<1>5. \A r \in Recipients : recipients'[r] # None => recipients'[r] \in RecipientRow
  BY DEF TypeInv, TypeOK
<1>6. ASSUME Closed => Closed',
             \A r \in Recipients : recipients[r] # None =>
               /\ recipients'[r] # None
               /\ recipients[r].revoked => recipients'[r].revoked
               /\ recipients'[r].version >= recipients[r].version,
             \A r \in Recipients, v \in Version :
               <<r, v>> \in stopped' /\ <<r, v>> \notin stopped => Refused(r, v)',
             requests' = requests
      PROVE  LinksRefused' /\ LateWait'
  <2>1. ASSUME NEW r \in Recipients, NEW v \in Version, <<r, v>> \in stopped'
        PROVE  Refused(r, v)'
    <3>1. CASE <<r, v>> \notin stopped
      BY <1>6, <2>1, <3>1
    <3>2. CASE <<r, v>> \in stopped
      <4>1. Refused(r, v)
        BY <1>2, <3>2
      <4> QED BY <1>5, <1>6, <4>1, RefusedStays
    <3> QED BY <3>1, <3>2
  <2>2. LateWait'
    BY <1>2, <1>6
  <2> QED BY <2>1, <2>2
<1>7. ASSUME UNCHANGED <<recipients, stopped>>, Closed => Closed', requests' = requests
      PROVE  LinksRefused' /\ LateWait'
  BY <1>4, <1>6, <1>7
<1>8. ASSUME NEW expiry \in {"unset", "future", "past"}, SaveForm(expiry)
      PROVE  LinksRefused' /\ LateWait'
  <2>1. recipients' = recipients /\ delivery'.status = delivery.status
    BY <1>8, FormKeeps
  <2>2. Closed => Closed'
    BY <2>1 DEF Closed
  <2> QED BY <1>7, <1>8, <2>1, <2>2 DEF SaveForm
<1>9. ASSUME NEW r \in Recipients, AddRecipient(r) PROVE LinksRefused' /\ LateWait'
  <2>1. /\ \A p \in Recipients : recipients[p] # None => recipients'[p] = recipients[p]
        /\ UNCHANGED <<delivery, stopped, requests>>
    BY <1>9 DEF AddRecipient, TypeInv, TypeOK
  <2>2. Closed => Closed'
    BY <2>1 DEF Closed
  <2> QED BY <1>4, <1>6, <2>1, <2>2
<1>10. ASSUME NEW r \in Recipients, RevokeRecipient(r) PROVE LinksRefused' /\ LateWait'
  <2>1. /\ recipients[r] # None /\ recipients' = [recipients EXCEPT ![r].revoked = TRUE]
        /\ UNCHANGED <<delivery, requests>>
    BY <1>10, Zenon DEF RevokeRecipient
  <2>2. \A p \in Recipients, v \in Version :
          <<p, v>> \in stopped' /\ <<p, v>> \notin stopped => p = r
    <3>1. stopped' = stopped \union {link \in Link : link[1] = r}
      BY <1>10, Zenon DEF RevokeRecipient
    <3> QED BY <3>1
  <2>3. recipients[r] \in RecipientRow
    BY <2>1 DEF TypeInv, TypeOK
  <2>4. /\ \A p \in Recipients : p # r => recipients'[p] = recipients[p]
        /\ recipients'[r].revoked /\ recipients'[r].version = recipients[r].version
    BY <2>1, <2>3 DEF TypeInv, TypeOK, RecipientRow
  <2>5. recipients'[r] # None
    <3>1. recipients'[r] = [recipients[r] EXCEPT !.revoked = TRUE]
      BY <2>1 DEF TypeInv, TypeOK
    <3>2. recipients'[r] \in RecipientRow
      BY <2>3, <3>1 DEF RecipientRow
    <3> QED BY <3>2, NoneAssumption
  <2>6. Closed => Closed'
    BY <2>1 DEF Closed
  <2>7. \A p \in Recipients, v \in Version :
          <<p, v>> \in stopped' /\ <<p, v>> \notin stopped => Refused(p, v)'
    BY <2>2, <2>4, <2>5 DEF Refused
  <2> QED BY <1>4, <1>6, <2>1, <2>4, <2>5, <2>6, <2>7
<1>11. ASSUME NEW r \in Recipients, RotateLink(r) PROVE LinksRefused' /\ LateWait'
  <2>1. /\ recipients[r] # None
        /\ recipients' = [recipients EXCEPT ![r].version = @ + 1]
        /\ stopped' = stopped \union {<<r, recipients[r].version>>}
        /\ UNCHANGED <<delivery, requests>>
    BY <1>11 DEF RotateLink
  <2>2. recipients[r] \in RecipientRow
    BY <2>1 DEF TypeInv, TypeOK
  <2>3. /\ \A p \in Recipients : p # r => recipients'[p] = recipients[p]
        /\ recipients'[r].revoked = recipients[r].revoked
        /\ recipients'[r].version = recipients[r].version + 1
    BY <2>1, <2>2 DEF TypeInv, TypeOK, RecipientRow
  <2>4. /\ recipients[r].version \in Nat
        /\ recipients'[r].version > recipients[r].version
        /\ recipients'[r].version >= recipients[r].version
    BY <1>4, <2>1, <2>3
  <2>5. recipients'[r] # None
    <3>1. recipients'[r] = [recipients[r] EXCEPT !.version = @ + 1]
      BY <2>1 DEF TypeInv, TypeOK
    <3>2. recipients[r].version + 1 \in Version
      BY <1>11, <2>2, PortalAssumption DEF RotateLink, RecipientRow, Version
    <3>3. recipients'[r] \in RecipientRow
      BY <2>2, <3>1, <3>2 DEF RecipientRow
    <3> QED BY <3>3, NoneAssumption
  <2>6. Closed => Closed'
    BY <2>1 DEF Closed
  <2>7. \A p \in Recipients, v \in Version :
          <<p, v>> \in stopped' /\ <<p, v>> \notin stopped => Refused(p, v)'
    BY <2>1, <2>4, <2>5 DEF Refused
  <2> QED BY <1>4, <1>6, <2>1, <2>3, <2>4, <2>5, <2>6, <2>7
<1>12. CASE Activate
  <2>1. ~Closed /\ UNCHANGED <<recipients, stopped, requests>>
    BY <1>12 DEF Activate, Activatable, Closed
  <2> QED BY <1>7, <2>1
<1>13. ASSUME NEW status \in {"revoked", "archived"}, CloseDelivery(status)
       PROVE  LinksRefused' /\ LateWait'
  <2>1. Closed' /\ UNCHANGED <<recipients, requests>>
    BY <1>13 DEF CloseDelivery, Closed, TypeInv, TypeOK, DeliveryRow
  <2>2. \A r \in Recipients, v \in Version : Refused(r, v)'
    BY <2>1 DEF Refused, Closed
  <2> QED BY <1>4, <1>6, <2>1, <2>2
<1>14. CASE \/ \E r \in Recipients \union {None} : OpenForm(r)
            \/ \E field \in {"completed", "paid", "override"} : EnquiryChanges(field)
            \/ FilesChange \/ UNCHANGED vars \/ \E link \in Link : SessionExpires(link)
  <2>1. UNCHANGED <<delivery, recipients, stopped, requests>>
    BY <1>14 DEF OpenForm, EnquiryChanges, FilesChange, SessionExpires, vars
  <2> QED BY <1>7, <2>1 DEF Closed
<1>15. CASE MarkExpired
  <2>1. ~Closed /\ UNCHANGED <<recipients, stopped, requests>>
    BY <1>15 DEF MarkExpired, Closed
  <2> QED BY <1>7, <2>1
<1>16. CASE TimePasses
  <2>1. UNCHANGED <<recipients, stopped>> /\ delivery'.status = delivery.status
    BY <1>16 DEF TimePasses, TypeInv, TypeOK, DeliveryRow
  <2>2. LinksRefused'
    BY <1>2, <2>1 DEF Refused, Closed
  <2>3. ASSUME NEW q \in Requests, requests'[q] # None
        PROVE  /\ requests[q] # None /\ requests'[q].late = requests[q].late
               /\ requests'[q].step = requests[q].step /\ ~requests'[q].valid
    <3>1. requests[q] # None /\ requests'[q] = [requests[q] EXCEPT !.valid = FALSE]
      BY <1>16, <2>3 DEF TimePasses
    <3>2. requests[q] \in Request
      BY <3>1 DEF TypeInv, TypeOK
    <3> QED BY <3>1, <3>2 DEF Request
  <2> QED BY <1>2, <2>2, <2>3
<1>17. ASSUME NEW q \in Requests, Handling(q) PROVE LinksRefused' /\ LateWait'
  <2>1. ASSUME UNCHANGED <<delivery, recipients, stopped>> PROVE LinksRefused'
    BY <1>2, <2>1 DEF Refused, Closed
  <2>2. ASSUME NEW kind, NEW r \in Recipients, NEW v \in Version, NEW key,
               Load(q, kind, r, v, key), recipients[r].version = v
        PROVE  LateWait'
    <3>1. /\ requests'[q].step = "loaded" /\ requests'[q].valid = Valid(r)
          /\ requests'[q].late = (<<r, v>> \in stopped) /\ recipients[r] # None
      BY <1>17, <2>2 DEF Load, TypeInv, TypeOK
    <3>2. Refused(r, v) => ~Valid(r)
      BY <1>4, <2>2, <3>1 DEF Refused, Closed, Valid
    <3>3. \A p \in Requests : p # q => requests'[p] = requests[p]
      BY <1>17, <2>2 DEF Load, TypeInv, TypeOK
    <3> QED BY <1>2, <3>1, <3>2, <3>3
  <2>3. ASSUME End(q) PROVE LateWait'
    BY <1>2, <1>17, <2>3 DEF End, TypeInv, TypeOK
  <2>4. ASSUME NEW from, NEW to, Step(q, from, to), from = "loaded" => requests[q].valid
        PROVE  LateWait'
    <3>1. requests[q] \in Request /\ ~requests[q].late
      BY <1>2, <1>17, <2>4 DEF Step, TypeInv, TypeOK
    <3>2. ~requests'[q].late
      BY <1>17, <2>4, <3>1 DEF Step, TypeInv, TypeOK, Request
    <3>3. \A p \in Requests : p # q => requests'[p] = requests[p]
      BY <1>17, <2>4 DEF Step, TypeInv, TypeOK
    <3> QED BY <1>2, <3>2, <3>3
  <2>5. CASE \/ \E kind \in Kinds \ MailKinds, r \in Recipients, v \in Version :
                  LoadRecipient(q, kind, r, v)
             \/ \E kind \in MailKinds, r \in Recipients, k \in Keys : LoadMail(q, kind, r, k)
    <3>1. ASSUME NEW kind, NEW r \in Recipients, NEW v \in Version, LoadRecipient(q, kind, r, v)
          PROVE  LinksRefused' /\ LateWait'
      BY <2>1, <2>2, <3>1 DEF LoadRecipient, Presents
    <3>2. ASSUME NEW kind, NEW r \in Recipients, NEW k \in Keys, LoadMail(q, kind, r, k)
          PROVE  LinksRefused' /\ LateWait'
      <4>1. recipients[r].version \in Version
        BY <3>2 DEF LoadMail, TypeInv, TypeOK, RecipientRow
      <4> QED BY <2>1, <2>2, <3>2, <4>1 DEF LoadMail
    <3> QED BY <2>5, <3>1, <3>2
  <2>6. CASE Decide(q)
    BY <2>1, <2>3, <2>4, <2>6 DEF Decide, Allowed
  <2>7. CASE SaveAccess(q)
    <3>1. requests[q] \in Request /\ requests[q].link[1] \in Recipients
      BY <1>17, <2>7 DEF SaveAccess, Step, TypeInv, TypeOK, Request, Link
    <3>2. UNCHANGED <<delivery, recipients, stopped>>
      BY <2>7, <3>1 DEF SaveAccess, AccessRow, TypeInv, TypeOK
    <3> QED BY <2>1, <2>4, <2>7, <3>2 DEF SaveAccess
  <2>8. CASE Answer(q) \/ SendMail(q)
    BY <2>1, <2>4, <2>8 DEF Answer, SendMail
  <2>9. CASE Finish(q) \/ Fail(q) \/ \E left \in 0..1 : SendMailFails(q, left)
    BY <2>1, <2>3, <2>9 DEF Finish, Fail, SendMailFails
  <2> QED BY <1>17, <2>5, <2>6, <2>7, <2>8, <2>9 DEF Handling
<1> HIDE DEF LinksRefused, LateWait
<1> QED
  BY <1>8, <1>9, <1>10, <1>11, <1>12, <1>13, <1>14, <1>15, <1>16, <1>17 DEF Next, Staff

-----------------------------------------------------------------------------
\* All four hold in every state the portal can reach.
LEMMA Invariance == Spec => []PortalInv
<1>1. PortalInv /\ [Next]_vars => PortalInv'
  <2> SUFFICES ASSUME PortalInv, [Next]_vars PROVE PortalInv'
    OBVIOUS
  <2>1. TypeInv'
    BY TypeStep DEF PortalInv
  <2>2. MailInv' /\ ReleaseInv'
    BY MailStep, ReleaseStep DEF PortalInv, TypeInv
  <2>3. StopInv'
    BY <2>1, StopStep DEF PortalInv
  <2> QED BY <2>1, <2>2, <2>3 DEF PortalInv
<1> QED BY <1>1, InitEstablishes, PTL DEF Spec

\* Rows, requests and histories of the portal have values that can occur.
THEOREM TypeCorrect == Spec => []TypeOK
<1>1. PortalInv => TypeOK
  BY DEF PortalInv, TypeInv
<1> QED BY <1>1, Invariance, PTL

\* One mail leaves under an idempotency key, however often its form is submitted
\* and whatever fails: get_or_create lets one request send, and it sends once.
THEOREM MailsOncePerKey == Spec => []OneMailPerKey
<1>1. PortalInv => OneMailPerKey
  BY DEF PortalInv, MailInv
<1> QED BY <1>1, Invariance, PTL

\* A session, page, URL or mail is given only for media that were released while
\* the request lasted: evaluate_delivery_access reads the release when it decides.
THEOREM ReleasedWhenAnswered == Spec => []AnsweredWasReleased
<1>1. PortalInv => AnsweredWasReleased
  BY DEF PortalInv, ReleaseInv, AnsweredWasReleased
<1> QED BY <1>1, Invariance, PTL

\* A revoked, rotated or closed link answers no request that begins afterwards,
\* as long as no open form puts an older row back.
THEOREM StoppedStaysStopped == Spec => []StoppedForGood
<1>1. PortalInv => StoppedForGood
  BY DEF PortalInv, StopInv, StoppedForGood
<1> QED BY <1>1, Invariance, PTL

\* A revoked or archived delivery stays closed: activate_delivery, the expiry and
\* the requests in progress never reopen it; only a form may.
THEOREM ClosedForGood == Spec => ClosedStaysClosed
<1> DEFINE Stays == ~restored' /\ delivery.status \in {"revoked", "archived"} =>
                      delivery'.status \in {"revoked", "archived"}
<1>1. TypeInv /\ [Next]_vars => [Stays]_vars
  <2> SUFFICES ASSUME TypeInv, Next, ~restored', delivery.status \in {"revoked", "archived"}
               PROVE  delivery'.status \in {"revoked", "archived"}
    OBVIOUS
  <2>1. CASE \E expiry \in {"unset", "future", "past"} : SaveForm(expiry)
    BY <2>1, FormKeeps
  <2>2. ASSUME NEW status \in {"revoked", "archived"}, CloseDelivery(status)
        PROVE  delivery'.status \in {"revoked", "archived"}
    BY <2>2 DEF CloseDelivery, TypeInv, TypeOK, DeliveryRow
  <2>3. ASSUME \/ \E r \in Recipients : AddRecipient(r) \/ RevokeRecipient(r) \/ RotateLink(r)
               \/ \E r \in Recipients \union {None} : OpenForm(r)
               \/ \E field \in {"completed", "paid", "override"} : EnquiryChanges(field)
               \/ FilesChange \/ \E link \in Link : SessionExpires(link)
        PROVE  delivery' = delivery
    BY <2>3 DEF AddRecipient, RevokeRecipient, RotateLink, OpenForm, EnquiryChanges,
      FilesChange, SessionExpires, portalVars
  <2>4. ~Activate /\ ~MarkExpired
    BY DEF Activate, Activatable, MarkExpired
  <2>5. CASE TimePasses
    BY <2>5 DEF TimePasses, TypeInv, TypeOK, DeliveryRow
  <2>6. ASSUME NEW q \in Requests, Handling(q) PROVE delivery' = delivery
    BY <2>6 DEF Handling, LoadRecipient, LoadMail, Decide, SaveAccess, Answer, SendMail,
      SendMailFails, Finish, Fail, portalVars
  <2> QED BY <2>1, <2>2, <2>3, <2>4, <2>5, <2>6 DEF Next, Staff
<1>2. PortalInv => TypeInv
  BY DEF PortalInv
<1> QED BY <1>1, <1>2, Invariance, PTL DEF Spec, ClosedStaysClosed

=============================================================================
