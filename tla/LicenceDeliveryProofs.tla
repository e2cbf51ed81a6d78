----------------------- MODULE LicenceDeliveryProofs ------------------------
(***************************************************************************)
(* Theorems of LicenceDelivery for any number of terms, offers, webhook    *)
(* runs, tokens and faults.                                                *)
(***************************************************************************)
EXTENDS LicenceDelivery, FiniteSetTheorems, TLAPS

Acts == QuickActs \union SlowActs

\* Whatever a mail, a draft or a staff member's row refers to was issued.
RefersToIssued ==
  /\ linksSent \subseteq Issued
  /\ request.payDraft # None => request.payDraft \in Issued
  /\ drafting # None => drafting \in Issued
  /\ staff # None =>
       /\ staff.row.payDraft # None => staff.row.payDraft \in Issued
       /\ staff.act = "send payment" => staff.row.payDraft # None

\* The scope is frozen exactly while it is confirmed, and then it is the terms.
Frozen(row) ==
  /\ row.confirmed = (row.snapshot # None)
  /\ row.confirmed => row.snapshot = row.terms

SameScope(row, other) ==
  row.confirmed = other.confirmed /\ row.snapshot = other.snapshot /\ row.terms = other.terms

\* What the staff member at work saw of the scope is still so.
ScopeInv ==
  /\ Frozen(request)
  /\ ActiveIsAgreed
  /\ staff # None =>
       /\ SameScope(staff.row, request)
       /\ staff.act = "negotiate" => Active = {}
       /\ staff.act \in {"generate", "regenerate"} => staff.row.confirmed

\* A run works alone on a paid link whose event is not handled; a request that
\* another one replaced stays closed.
RunInv ==
  /\ \A h \in Handlers : handlers[h] # None => handlers[h].offer \in captured \ done
  /\ \A g, h \in Handlers :
       handlers[g] # None /\ handlers[h] # None /\ handlers[g].offer = handlers[h].offer => g = h
  /\ rival => request.status \in Inactive

\* Runs that can still reach the mail although the request is closed for good
Past(h) ==
  /\ handlers[h] # None
  /\ \/ handlers[h].step \in {"issue", "mail"}
     \/ handlers[h].step \in {"offer", "paid"} /\ handlers[h].status = "PAID"

\* Paid links whose delivery mail may still leave without a fault
Pending ==
  IF rival THEN {v \in captured \ done : \E h \in Handlers : Past(h) /\ handlers[h].offer = v}
           ELSE {v \in captured \ done :
                   \A h \in Handlers : handlers[h] # None /\ handlers[h].offer = v
                                         => handlers[h].step # "deliver"}

MailInv == mails <= Cardinality(captured \ Pending) + faults

LicenceInv == TypeOK /\ RefersToIssued /\ ScopeInv /\ RunInv

-----------------------------------------------------------------------------
(* What was delivered *)

Stored == documents = DocTypes /\ \E t \in Tokens : tokens[t] # "none"

\* A run past the documents leaves them behind, one past the mail had it leave.
StageInv ==
  \A h \in Handlers : handlers[h] # None =>
    /\ handlers[h].step \in {"mail", "deliver"} => Stored
    /\ handlers[h].step = "deliver" => mails > 0

Delivered == captured # {} /\ Stored /\ mails > 0

\* A delivery time is stored only after a delivery.
TimedDelivery == request.delivered => Delivered

\* So is the status, and an event is handled only then, unless staff write the
\* status by hand.
StatedDelivery == request.status = "DELIVERED" \/ done # {} => Delivered

-----------------------------------------------------------------------------
(* What a staff action does to the request *)

LEMMA NoneApart ==
  /\ None \notin Version /\ None \notin Terms
  /\ \A o \in Offer : o # None
  /\ \A r \in Run : r # None
  /\ \A s \in [act : SlowActs, row : Row] : s # None
BY LicenceAssumption DEF Version

LEMMA SupersedingTyped ==
  ASSUME TypeOK
  PROVE  /\ Superseding(offers) \in [Version -> Offer \union {None}]
         /\ \A v \in Version : (Superseding(offers)[v] = None) <=> (offers[v] = None)
         /\ \A v \in Version : Superseding(offers)[v] # None
              => Superseding(offers)[v].status \notin {"ACTIVE", "LAPSED"}
<1>1. ASSUME NEW v \in Version
      PROVE  /\ Superseding(offers)[v] \in Offer \union {None}
             /\ (Superseding(offers)[v] = None) <=> (offers[v] = None)
             /\ Superseding(offers)[v] # None
                  => Superseding(offers)[v].status \notin {"ACTIVE", "LAPSED"}
  <2>1. offers[v] \in Offer \union {None}  BY <1>1 DEF TypeOK
  <2>2. CASE v \in Active
    <3>1. offers[v] \in Offer  BY <2>1, <2>2 DEF Active, Issued
    <3>2. Superseding(offers)[v] = [offers[v] EXCEPT !.status = "SUPERSEDED"]
      BY <2>2, <1>1 DEF Superseding
    <3>3. Superseding(offers)[v] \in Offer /\ Superseding(offers)[v].status = "SUPERSEDED"
      BY <3>1, <3>2 DEF Offer
    <3> QED  BY <3>1, <3>3, NoneApart
  <2>3. CASE v \notin Active
    <3>1. Superseding(offers)[v] = offers[v]  BY <2>3, <1>1 DEF Superseding
    <3> QED  BY <2>1, <2>3, <3>1 DEF Active, Issued
  <2> QED  BY <2>2, <2>3
<1>2. Superseding(offers) = [v \in Version |-> Superseding(offers)[v]]  BY DEF Superseding
<1> QED  BY <1>1, <1>2

LEMMA WrittenTyped ==
  ASSUME request \in Row, NEW row \in Row, NEW act \in Acts
  PROVE  /\ Written(act, row) \in Row
         /\ act # "form" => /\ Written(act, row).status = request.status
                            /\ Written(act, row).terms = request.terms
                            /\ Written(act, row).delivered = request.delivered
                            /\ Written(act, row).payDraft \in {request.payDraft, None}
         /\ act = "form" => Written(act, row) = row
<1>1. Agreed(row) \in Terms \union {None}  BY DEF Agreed, Row
<1>2. CASE act \in {"negotiate", "reset"}  BY <1>2, <1>1 DEF Written, Row
<1>3. CASE act = "confirm"  BY <1>3, <1>1 DEF Written, Row
<1>4. CASE act \in {"generate", "regenerate"}  BY <1>4, <1>1 DEF Written, Row
<1>5. CASE act = "payment draft"  BY <1>5 DEF Written, Row
<1>6. CASE act \in {"form", "send payment", "APPROVED", "REJECTED"}  BY <1>6 DEF Written
<1> QED  BY <1>2, <1>3, <1>4, <1>5, <1>6 DEF Acts, QuickActs, SlowActs

SameButStatus(r, s) ==
  /\ r.terms = s.terms /\ r.snapshot = s.snapshot /\ r.confirmed = s.confirmed
  /\ r.payDraft = s.payDraft /\ r.delivered = s.delivered

LEMMA MovedTyped ==
  ASSUME request \in Row, NEW row \in Row, NEW act \in Acts
  PROVE  /\ Moved(act, row) \in Row
         /\ SameButStatus(Moved(act, row), Written(act, row))
         /\ act = "form" => Moved(act, row) = row
         /\ Moved(act, row).status # Written(act, row).status
              => Moved(act, row).status \in {"AWAITING", "APPROVED", "PENDING", "REJECTED"}
<1> DEFINE target == CASE act = "negotiate" -> "AWAITING"
                       [] act = "reset" -> "APPROVED"
                       [] act = "send payment" -> "PENDING"
                       [] act \in {"APPROVED", "REJECTED"} -> act
                       [] OTHER -> row.status
           W == Written(act, row)
<1>1. Moved(act, row) = IF target = row.status THEN W ELSE [W EXCEPT !.status = target]
  BY DEF Moved
<1>2. W \in Row  BY WrittenTyped
<1>3. target = row.status \/ target \in {"AWAITING", "APPROVED", "PENDING", "REJECTED"}
  BY DEF Acts, QuickActs, SlowActs
<1>4. act = "form" => target = row.status /\ W = row  BY WrittenTyped
<1> HIDE DEF target, W
<1>5. CASE target = row.status  BY <1>1, <1>2, <1>4, <1>5 DEF SameButStatus, W
<1>6. CASE target # row.status
  <2>1. Moved(act, row) = [W EXCEPT !.status = target]  BY <1>1, <1>6
  <2>2. target \in Status /\ target \in {"AWAITING", "APPROVED", "PENDING", "REJECTED"}
    BY <1>3, <1>6 DEF Status, Inactive
  <2>3. Moved(act, row) \in Row /\ Moved(act, row).status = target
    BY <2>1, <2>2, <1>2 DEF Row
  <2>4. SameButStatus(Moved(act, row), W)  BY <2>1, <1>2 DEF SameButStatus, Row
  <2> QED  BY <2>2, <2>3, <2>4, <1>4, <1>6 DEF W
<1> QED  BY <1>5, <1>6

\* The fields of the request after an action
LEMMA RequestAfter ==
  ASSUME TypeOK, NEW row \in Row, NEW act \in Acts, Effect(act, row)
  PROVE  /\ request' \in Row
         /\ act # "form" => SameButStatus(request', Written(act, row))
         /\ act = "form" => request' \in {row, request}
         /\ rival /\ request.status \in Inactive => request'.status \in Inactive
         /\ request.status # "DELIVERED" /\ (act = "form" => row.status # "DELIVERED")
              => request'.status # "DELIVERED"
<1> DEFINE M == Moved(act, row)
           W == Written(act, row)
<1>1. request \in Row  BY DEF TypeOK
<1>2. /\ W \in Row /\ M \in Row /\ SameButStatus(M, W)
      /\ act # "form" => W.status = request.status
      /\ act = "form" => M = row
      /\ M.status # W.status => M.status \in {"AWAITING", "APPROVED", "PENDING", "REJECTED"}
  BY <1>1, WrittenTyped, MovedTyped
<1>3. request' = IF Storable(M.status) THEN M ELSE IF act = "form" THEN request ELSE W
  BY DEF Effect
<1>4. Storable(M.status) = (M.status \in Inactive \/ request.status \notin Inactive \/ ~rival)
  BY DEF Storable
<1>5. SameButStatus(W, W)  BY DEF SameButStatus
<1> HIDE DEF M, W
<1>6. CASE Storable(M.status)
  <2>1. request' = M  BY <1>3, <1>6
  <2> QED  BY <2>1, <1>2, <1>4, <1>6 DEF W
<1>7. CASE ~Storable(M.status) /\ act = "form"
  <2>1. request' = request  BY <1>3, <1>7
  <2> QED  BY <2>1, <1>1, <1>7
<1>8. CASE ~Storable(M.status) /\ act # "form"
  <2>1. request' = W  BY <1>3, <1>8
  <2> QED  BY <2>1, <1>2, <1>5, <1>8 DEF W
<1> QED  BY <1>6, <1>7, <1>8

\* What it does to the offers and to the links that were mailed
LEMMA OffersAfter ==
  ASSUME TypeOK, RefersToIssued, NEW row \in Row, NEW act \in Acts, Effect(act, row),
         row.payDraft # None => row.payDraft \in Issued,
         act = "send payment" => row.payDraft # None
  PROVE  /\ offers' \in [Version -> Offer \union {None}]
         /\ Issued \subseteq Issued'
         /\ linksSent' \subseteq Issued' /\ linksSent \subseteq linksSent'
         /\ request'.payDraft # None => request'.payDraft \in Issued'
<1> DEFINE next == Cardinality(Issued) + 1
           S == Superseding(offers)
           new == [status |-> "ACTIVE", terms |-> Agreed(row)]
<1>1. /\ S \in [Version -> Offer \union {None}]
      /\ \A v \in Version : (S[v] = None) <=> (offers[v] = None)
  BY SupersedingTyped
<1>2. Agreed(row) \in Terms  BY DEF Agreed, Row
<1>3. new \in Offer /\ new # None  BY <1>2, NoneApart DEF Offer
<1>4. /\ offers' \in [Version -> Offer \union {None}]
      /\ \A v \in Version : offers[v] # None => offers'[v] # None
  <2>1. CASE act \in {"generate", "regenerate"}
    <3>1. next \in Version /\ offers' = [S EXCEPT ![next] = new]  BY <2>1 DEF Effect, Issue
    <3> QED  BY <3>1, <1>1, <1>3
  <2>2. CASE act = "reset"  BY <2>2, <1>1 DEF Effect
  <2>3. CASE act \notin {"generate", "regenerate", "reset"}  BY <2>3 DEF Effect, TypeOK
  <2> QED  BY <2>1, <2>2, <2>3
<1>5. Issued \subseteq Issued'  BY <1>4 DEF Issued
<1>6. linksSent' = IF act = "send payment" THEN linksSent \union {row.payDraft} ELSE linksSent
  BY DEF Effect
<1>7. linksSent' \subseteq Issued' /\ linksSent \subseteq linksSent'
  BY <1>5, <1>6 DEF RefersToIssued
<1>8. /\ act # "form" => request'.payDraft \in {request.payDraft, None}
      /\ act = "form" => request'.payDraft \in {row.payDraft, request.payDraft}
  BY RequestAfter, WrittenTyped DEF SameButStatus, TypeOK
<1>9. request'.payDraft # None => request'.payDraft \in Issued'
  BY <1>5, <1>8 DEF RefersToIssued
<1> QED  BY <1>4, <1>5, <1>7, <1>9

\* An action that saw the scope as it is leaves the ACTIVE offers agreed.
LEMMA ScopeAfter ==
  ASSUME TypeOK, Frozen(request), ActiveIsAgreed,
         NEW row \in Row, NEW act \in Acts, Effect(act, row),
         act # "form" => SameScope(row, request),
         act = "form" => /\ row.confirmed = request.confirmed /\ row.snapshot = request.snapshot
                         /\ request.confirmed => row.terms = request.terms,
         act = "negotiate" => Active = {},
         act = "confirm" => ~row.confirmed,
         act \in {"generate", "regenerate"} => row.confirmed
  PROVE  Frozen(request') /\ ActiveIsAgreed'
<1> DEFINE W == Written(act, row)
<1>1. request \in Row /\ W \in Row  BY WrittenTyped DEF TypeOK
<1>2. /\ act # "form" => SameButStatus(request', W)
      /\ act = "form" => request' \in {row, request}
  BY RequestAfter
<1>3. CASE act \in {"negotiate", "reset"}
  <2>1. W.confirmed = FALSE /\ W.snapshot = None /\ W.terms = request.terms
    BY <1>3, <1>1 DEF Written, Row
  <2>2. Frozen(request')  BY <2>1, <1>2, <1>3 DEF Frozen, SameButStatus
  <2>3. Active' = {}
    <3>1. CASE act = "negotiate"
      <4>1. offers' = offers  BY <3>1 DEF Effect
      <4> QED  BY <4>1, <3>1 DEF Active, Issued
    <3>2. CASE act = "reset"
      <4>1. offers' = Superseding(offers)  BY <3>2 DEF Effect
      <4> QED  BY <4>1, SupersedingTyped DEF Active, Issued
    <3> QED  BY <3>1, <3>2, <1>3
  <2> QED  BY <2>2, <2>3 DEF ActiveIsAgreed
<1>4. CASE act = "confirm"
  <2>1. ~request.confirmed /\ row.snapshot = None /\ row.terms = request.terms
    BY <1>4 DEF SameScope, Frozen
  <2>2. Active = {}  BY <2>1 DEF ActiveIsAgreed
  <2>3. Agreed(row) = request.terms  BY <2>1 DEF Agreed
  <2>4. W.confirmed = TRUE /\ W.snapshot = request.terms /\ W.terms = request.terms
    BY <1>4, <1>1, <2>3 DEF Written, Row
  <2>5. request.terms # None  BY <1>1, NoneApart DEF Row
  <2>6. Frozen(request')  BY <2>4, <2>5, <1>2, <1>4 DEF Frozen, SameButStatus
  <2>7. offers' = offers  BY <1>4 DEF Effect
  <2> QED  BY <2>2, <2>6, <2>7 DEF ActiveIsAgreed, Active, Issued
<1>5. CASE act \in {"generate", "regenerate"}
  <2> DEFINE next == Cardinality(Issued) + 1
             S == Superseding(offers)
             new == [status |-> "ACTIVE", terms |-> Agreed(row)]
  <2>1. /\ request.confirmed /\ row.confirmed /\ row.snapshot # None
        /\ row.snapshot = request.snapshot /\ request.snapshot = request.terms
    BY <1>5 DEF SameScope, Frozen
  <2>2. Agreed(row) = request.terms  BY <2>1 DEF Agreed
  <2>3. W.confirmed = TRUE /\ W.snapshot = request.terms /\ W.terms = request.terms
    BY <1>5, <1>1, <2>1, <2>2 DEF Written, Row
  <2>4. /\ request'.confirmed = TRUE /\ request'.snapshot = request.terms
        /\ request'.terms = request.terms
    BY <2>3, <1>2, <1>5 DEF SameButStatus
  <2>5. Frozen(request')  BY <2>1, <2>4 DEF Frozen
  <2>6. next \in Version /\ offers' = [S EXCEPT ![next] = new]  BY <1>5 DEF Effect, Issue
  <2>7. /\ S \in [Version -> Offer \union {None}]
        /\ \A v \in Version : S[v] # None => S[v].status \notin {"ACTIVE", "LAPSED"}
    BY SupersedingTyped
  <2> HIDE DEF S, next
  <2>8. ASSUME NEW v \in Active'  PROVE offers'[v].terms = request.terms
    <3>1. v \in Version /\ offers'[v] # None /\ offers'[v].status \in {"ACTIVE", "LAPSED"}
      BY <2>8 DEF Active, Issued
    <3>2. v # next => offers'[v] = S[v]  BY <2>6, <2>7, <3>1
    <3>3. v = next  BY <3>1, <3>2, <2>7
    <3>4. offers'[v] = new  BY <3>3, <2>6, <2>7
    <3> QED  BY <3>4, <2>2
  <2> QED  BY <2>4, <2>5, <2>8 DEF ActiveIsAgreed
<1>6. CASE act \in {"payment draft", "send payment", "APPROVED", "REJECTED"}
  <2>1. /\ W.confirmed = request.confirmed /\ W.snapshot = request.snapshot
        /\ W.terms = request.terms
    BY <1>6, <1>1 DEF Written, Row
  <2>2. /\ request'.confirmed = request.confirmed /\ request'.snapshot = request.snapshot
        /\ request'.terms = request.terms
    BY <2>1, <1>2, <1>6 DEF SameButStatus
  <2>3. offers' = offers  BY <1>6 DEF Effect
  <2>4. Frozen(request')  BY <2>2 DEF Frozen
  <2> QED  BY <2>2, <2>3, <2>4 DEF ActiveIsAgreed, Active, Issued
<1>7. CASE act = "form"
  <2>1. /\ request'.confirmed = request.confirmed /\ request'.snapshot = request.snapshot
        /\ request.confirmed => request'.terms = request.terms
    BY <1>2, <1>7
  <2>2. Frozen(request')  BY <2>1 DEF Frozen
  <2>3. offers' = offers  BY <1>7 DEF Effect
  <2> QED  BY <2>1, <2>2, <2>3 DEF ActiveIsAgreed, Active, Issued
<1> QED  BY <1>3, <1>4, <1>5, <1>6, <1>7 DEF Acts, QuickActs, SlowActs

-----------------------------------------------------------------------------
(* The invariant, action by action *)

LEMMA InitHolds == Init => LicenceInv /\ MailInv
<1> SUFFICES ASSUME Init PROVE LicenceInv /\ MailInv
  OBVIOUS
<1>1. request \in Row /\ Frozen(request) /\ request.payDraft = None
  BY LicenceAssumption DEF Init, Row, Status, Inactive, Frozen
<1>2. Issued = {} /\ Active = {}  BY DEF Init, Issued, Active
<1>3. TypeOK
  <2>1. MaxFaults \in Nat  BY LicenceAssumption
  <2>2. offers \in [Version -> Offer \union {None}]  BY DEF Init
  <2>3. handlers \in [Handlers -> Run \union {None}]  BY DEF Init
  <2>4. tokens \in [Tokens -> {"none", "live", "spent"}]  BY DEF Init
  <2>5. linksSent \subseteq Version /\ captured \subseteq linksSent /\ done \subseteq captured
    BY DEF Init
  <2>6. mails = 0 /\ rival = FALSE /\ faults = 0  BY DEF Init
  <2>7. mails \in Nat /\ faults \in 0..MaxFaults  BY <2>1, <2>6
  <2>8. rival \in BOOLEAN  BY <2>6
  <2> QED  BY <1>1, <2>2, <2>3, <2>4, <2>5, <2>7, <2>8 DEF Init, TypeOK
<1>4. RefersToIssued  BY <1>1, <1>2 DEF Init, RefersToIssued
<1>5. ScopeInv  BY <1>1, <1>2 DEF Init, ScopeInv, ActiveIsAgreed
<1>6. RunInv  BY DEF Init, RunInv
<1>7. captured \ Pending = {}  BY DEF Init
<1>8. MailInv  BY <1>7, FS_EmptySet DEF Init, MailInv
<1> QED  BY <1>3, <1>4, <1>5, <1>6, <1>8 DEF LicenceInv

\* Offers may only leave ACTIVE while the scope stays as it is.
LEMMA ScopeFrame ==
  ASSUME ScopeInv, staff' = staff, SameScope(request', request),
         \A v \in Active' : v \in Active /\ offers'[v].terms = offers[v].terms
  PROVE  ScopeInv'
BY DEF ScopeInv, ActiveIsAgreed, Frozen, SameScope

LEMMA ReferFrame ==
  ASSUME RefersToIssued, staff' = staff, drafting' = drafting, linksSent' = linksSent,
         request'.payDraft = request.payDraft, Issued \subseteq Issued'
  PROVE  RefersToIssued'
BY DEF RefersToIssued

LEMMA RunFrame ==
  ASSUME RunInv, handlers' = handlers, captured \subseteq captured', done' = done,
         rival' => request'.status \in Inactive
  PROVE  RunInv'
BY DEF RunInv

\* A run that goes on keeps its offer, one that ends leaves it to another.
LEMMA RunMoves ==
  ASSUME TypeOK, RunInv, NEW h \in Handlers, handlers[h] # None, NEW r,
         r # None => r.offer = handlers[h].offer,
         handlers' = [handlers EXCEPT ![h] = r],
         captured' = captured,
         done' = done \/ (r = None /\ done' = done \union {handlers[h].offer}),
         rival' => request'.status \in Inactive
  PROVE  RunInv'
<1>1. \A g \in Handlers : handlers'[g] = IF g = h THEN r ELSE handlers[g]  BY DEF TypeOK
<1>2. ASSUME NEW g \in Handlers, handlers'[g] # None
      PROVE  handlers[g] # None /\ handlers'[g].offer = handlers[g].offer
  BY <1>1, <1>2
<1>3. ASSUME NEW g \in Handlers, handlers'[g] # None
      PROVE  handlers'[g].offer \in captured' \ done'
  <2>1. handlers'[g].offer \in captured \ done  BY <1>2, <1>3 DEF RunInv
  <2>2. r = None => g # h  BY <1>1, <1>3
  <2>3. r = None => handlers[g].offer # handlers[h].offer  BY <1>2, <1>3, <2>2 DEF RunInv
  <2> QED  BY <1>2, <1>3, <2>1, <2>3
<1>4. ASSUME NEW g \in Handlers, NEW k \in Handlers, handlers'[g] # None, handlers'[k] # None,
             handlers'[g].offer = handlers'[k].offer
      PROVE  g = k
  BY <1>2, <1>4 DEF RunInv
<1> QED  BY <1>3, <1>4 DEF RunInv

LEMMA PostedTyped ==
  ASSUME TypeOK, NEW row \in Posted(request)
  PROVE  /\ row \in Row
         /\ row.confirmed = request.confirmed /\ row.snapshot = request.snapshot
         /\ row.payDraft = request.payDraft /\ row.delivered = request.delivered
         /\ request.confirmed => row.terms = request.terms
         /\ row.status \in FormStatuses \union {request.status}
<1> DEFINE T == IF Locked(request) \/ request.confirmed THEN {request.terms} ELSE Terms
           S == FormStatuses \union {request.status}
<1>1. request \in Row  BY DEF TypeOK
<1>2. PICK t \in T : row \in {[request EXCEPT !.status = s, !.terms = t] : s \in S}
  BY DEF Posted
<1>3. PICK s \in S : row = [request EXCEPT !.status = s, !.terms = t]  BY <1>2
<1>4. s \in Status
  <2>1. FormStatuses \subseteq Status  BY LicenceAssumption
  <2> QED  BY <1>1, <2>1 DEF Row
<1>5. t \in Terms /\ (request.confirmed => t = request.terms)  BY <1>1 DEF Row
<1> QED  BY <1>1, <1>3, <1>4, <1>5 DEF Row

LEMMA DoActionStep ==
  ASSUME LicenceInv, NEW act \in QuickActs, DoAction(act)
  PROVE  LicenceInv'
<1> USE DEF LicenceInv
<1>1. /\ staff = None /\ May(act, request)
      /\ UNCHANGED <<staff, drafting, eventVars, deliveryVars, rival>>
  BY DEF DoAction
<1>2. PICK row \in IF act = "form" THEN Posted(request) ELSE {request} : Effect(act, row)
  BY DEF DoAction
<1>3. act \in Acts /\ act \notin SlowActs  BY DEF Acts, QuickActs, SlowActs
<1>4. /\ row \in Row /\ row.payDraft = request.payDraft
      /\ row.confirmed = request.confirmed /\ row.snapshot = request.snapshot
      /\ request.confirmed => row.terms = request.terms
      /\ act # "form" => row = request
  BY <1>2, PostedTyped DEF TypeOK
<1>5. act # "send payment" /\ act \notin {"negotiate", "generate", "regenerate"}
  BY <1>3 DEF SlowActs
<1>6. act = "confirm" => ~row.confirmed  BY <1>1, <1>4 DEF May
<1>7. row.payDraft # None => row.payDraft \in Issued  BY <1>4 DEF RefersToIssued
<1>8. /\ request' \in Row
      /\ rival /\ request.status \in Inactive => request'.status \in Inactive
  BY <1>2, <1>3, <1>4, RequestAfter
<1>9. /\ offers' \in [Version -> Offer \union {None}]
      /\ Issued \subseteq Issued'
      /\ linksSent' \subseteq Issued' /\ linksSent \subseteq linksSent'
      /\ request'.payDraft # None => request'.payDraft \in Issued'
  BY <1>2, <1>3, <1>4, <1>5, <1>7, OffersAfter
<1>10. Frozen(request') /\ ActiveIsAgreed'
  BY <1>2, <1>3, <1>4, <1>5, <1>6, ScopeAfter DEF ScopeInv, SameScope
<1>11. TypeOK'
  <2>1. linksSent' \subseteq Version  BY <1>9 DEF Issued
  <2> QED  BY <1>1, <1>8, <1>9, <2>1 DEF TypeOK, eventVars, deliveryVars
<1>12. RefersToIssued'  BY <1>1, <1>9 DEF RefersToIssued
<1>13. ScopeInv'  BY <1>1, <1>10 DEF ScopeInv
<1>14. RunInv'
  <2>1. rival' => request'.status \in Inactive  BY <1>1, <1>8 DEF RunInv
  <2> QED  BY <1>1, <2>1, RunFrame DEF eventVars
<1> QED  BY <1>11, <1>12, <1>13, <1>14

LEMMA BeginActionStep ==
  ASSUME LicenceInv, NEW act \in SlowActs, BeginAction(act)
  PROVE  LicenceInv'
<1> USE DEF LicenceInv
<1>1. /\ May(act, request) /\ staff' = [act |-> act, row |-> request]
      /\ UNCHANGED <<request, offers, drafting, linksSent, eventVars, deliveryVars, rival>>
  BY DEF BeginAction
<1>2. staff' \in [act : SlowActs, row : Row]  BY <1>1 DEF TypeOK
<1>3. TypeOK'  BY <1>1, <1>2 DEF TypeOK, eventVars, deliveryVars
<1>4. act = "negotiate" => Active = {}  BY <1>1 DEF May, Negotiable
<1>5. act \in {"generate", "regenerate"} => request.confirmed  BY <1>1 DEF May
<1>6. act = "send payment" => request.payDraft # None  BY <1>1 DEF May, Sendable
<1>7. ScopeInv'
  BY <1>1, <1>4, <1>5 DEF ScopeInv, ActiveIsAgreed, SameScope, Active, Issued
<1>8. RefersToIssued'  BY <1>1, <1>6 DEF RefersToIssued, Issued
<1>9. RunInv'  BY <1>1, RunFrame DEF RunInv, eventVars
<1> QED  BY <1>3, <1>7, <1>8, <1>9

LEMMA FinishActionStep ==
  ASSUME LicenceInv, FinishAction
  PROVE  LicenceInv'
<1> USE DEF LicenceInv
<1> DEFINE act == staff.act
           row == staff.row
<1>1. /\ staff # None /\ staff' = None /\ Effect(act, row)
      /\ UNCHANGED <<drafting, eventVars, deliveryVars, rival>>
  BY DEF FinishAction
<1>2. act \in SlowActs /\ row \in Row  BY <1>1 DEF TypeOK
<1>3. act \in Acts /\ act \notin {"form", "confirm"}  BY <1>2 DEF Acts, SlowActs
<1>4. /\ SameScope(row, request)
      /\ act = "negotiate" => Active = {}
      /\ act \in {"generate", "regenerate"} => row.confirmed
  BY <1>1 DEF ScopeInv
<1>5. /\ row.payDraft # None => row.payDraft \in Issued
      /\ act = "send payment" => row.payDraft # None
  BY <1>1 DEF RefersToIssued
<1> HIDE DEF act, row
<1>6. /\ request' \in Row
      /\ rival /\ request.status \in Inactive => request'.status \in Inactive
  BY <1>1, <1>2, <1>3, RequestAfter
<1>7. /\ offers' \in [Version -> Offer \union {None}]
      /\ Issued \subseteq Issued'
      /\ linksSent' \subseteq Issued' /\ linksSent \subseteq linksSent'
      /\ request'.payDraft # None => request'.payDraft \in Issued'
  BY <1>1, <1>2, <1>3, <1>5, OffersAfter
<1>8. Frozen(request') /\ ActiveIsAgreed'
  BY <1>1, <1>2, <1>3, <1>4, ScopeAfter DEF ScopeInv
<1>9. TypeOK'
  <2>1. linksSent' \subseteq Version  BY <1>7 DEF Issued
  <2> QED  BY <1>1, <1>6, <1>7, <2>1 DEF TypeOK, eventVars, deliveryVars
<1>10. RefersToIssued'  BY <1>1, <1>7 DEF RefersToIssued
<1>11. ScopeInv'  BY <1>1, <1>8 DEF ScopeInv
<1>12. RunInv'
  <2>1. rival' => request'.status \in Inactive  BY <1>1, <1>6 DEF RunInv
  <2> QED  BY <1>1, <2>1, RunFrame DEF eventVars
<1> QED  BY <1>9, <1>10, <1>11, <1>12

LEMMA AbandonActionStep ==
  ASSUME LicenceInv, AbandonAction
  PROVE  LicenceInv'
<1> USE DEF LicenceInv
<1>1. /\ staff' = None
      /\ UNCHANGED <<request, offers, drafting, linksSent, eventVars, deliveryVars, rival>>
  BY DEF AbandonAction
<1>2. TypeOK'  BY <1>1 DEF TypeOK, eventVars, deliveryVars
<1>3. RefersToIssued'  BY <1>1 DEF RefersToIssued, Issued
<1>4. ScopeInv'  BY <1>1 DEF ScopeInv, ActiveIsAgreed, Active, Issued
<1>5. RunInv'  BY <1>1, RunFrame DEF RunInv, eventVars
<1> QED  BY <1>2, <1>3, <1>4, <1>5

LEMMA ExpireStep ==
  ASSUME LicenceInv, NEW v \in Version, Expire(v)
  PROVE  LicenceInv'
<1> USE DEF LicenceInv
<1> DEFINE lapsed == [offers[v] EXCEPT !.status = "LAPSED"]
<1>1. /\ v \in Issued /\ offers[v].status = "ACTIVE"
      /\ offers' = [offers EXCEPT ![v] = lapsed]
      /\ UNCHANGED <<request, staff, drafting, linksSent, eventVars, deliveryVars, rival>>
  BY DEF Expire
<1>2. offers[v] \in Offer  BY <1>1 DEF Issued, TypeOK
<1>3. lapsed \in Offer /\ lapsed.terms = offers[v].terms /\ lapsed # None
  BY <1>2, NoneApart DEF Offer
<1> HIDE DEF lapsed
<1>4. \A u \in Version : offers'[u] = IF u = v THEN lapsed ELSE offers[u]
  BY <1>1 DEF TypeOK
<1>5. offers' \in [Version -> Offer \union {None}]  BY <1>1, <1>3 DEF TypeOK
<1>6. TypeOK'  BY <1>1, <1>5 DEF TypeOK, eventVars, deliveryVars
<1>7. Issued \subseteq Issued'  BY <1>3, <1>4 DEF Issued
<1>8. RefersToIssued'  BY <1>1, <1>7, ReferFrame
<1>9. v \in Active  BY <1>1 DEF Active
<1>10. \A u \in Active' : u \in Active /\ offers'[u].terms = offers[u].terms
  BY <1>3, <1>4, <1>9 DEF Active, Issued
<1>11. ScopeInv'  BY <1>1, <1>10, ScopeFrame DEF SameScope
<1>12. RunInv'  BY <1>1, RunFrame DEF RunInv, eventVars
<1> QED  BY <1>6, <1>8, <1>11, <1>12

LEMMA FetchStep ==
  ASSUME LicenceInv, FetchPaymentDraft
  PROVE  LicenceInv'
<1> USE DEF LicenceInv
<1>1. /\ drafting' \in Current
      /\ UNCHANGED <<request, offers, staff, linksSent, eventVars, deliveryVars, rival>>
  BY DEF FetchPaymentDraft
<1>2. drafting' \in Issued /\ drafting' \in Version  BY <1>1 DEF Current, Active, Issued
<1>3. TypeOK'  BY <1>1, <1>2 DEF TypeOK, eventVars, deliveryVars
<1>4. RefersToIssued'  BY <1>1, <1>2 DEF RefersToIssued, Issued
<1>5. ScopeInv'  BY <1>1 DEF ScopeInv, ActiveIsAgreed, Active, Issued
<1>6. RunInv'  BY <1>1, RunFrame DEF RunInv, eventVars
<1> QED  BY <1>3, <1>4, <1>5, <1>6

LEMMA SaveStep ==
  ASSUME LicenceInv, SavePaymentDraft
  PROVE  LicenceInv'
<1> USE DEF LicenceInv
<1>1. /\ drafting # None /\ drafting' = None
      /\ request' = IF WantsDraft THEN [request EXCEPT !.payDraft = drafting] ELSE request
      /\ UNCHANGED <<offers, staff, linksSent, eventVars, deliveryVars, rival>>
  BY DEF SavePaymentDraft
<1>2. drafting \in Version /\ drafting \in Issued  BY <1>1 DEF TypeOK, RefersToIssued
<1>3. /\ request' \in Row /\ SameScope(request', request)
      /\ request'.status = request.status
      /\ request'.payDraft \in {request.payDraft, drafting}
  <2>1. request \in Row  BY DEF TypeOK
  <2>2. CASE WantsDraft  BY <1>1, <1>2, <2>1, <2>2 DEF Row, SameScope
  <2>3. CASE ~WantsDraft  BY <1>1, <2>1, <2>3 DEF SameScope
  <2> QED  BY <2>2, <2>3
<1>4. TypeOK'  BY <1>1, <1>3 DEF TypeOK, eventVars, deliveryVars
<1>5. RefersToIssued'  BY <1>1, <1>2, <1>3 DEF RefersToIssued, Issued
<1>6. ScopeInv'  BY <1>1, <1>3, ScopeFrame DEF Active, Issued
<1>7. RunInv'  BY <1>1, <1>3, RunFrame DEF RunInv, eventVars
<1> QED  BY <1>4, <1>5, <1>6, <1>7

LEMMA PayStep ==
  ASSUME LicenceInv, NEW v \in Version, Pay(v)
  PROVE  LicenceInv'
<1> USE DEF LicenceInv
<1>1. /\ v \in linksSent \ captured /\ captured' = captured \union {v}
      /\ UNCHANGED <<request, offers, staff, drafting, linksSent, done, handlers, faults,
                     deliveryVars, rival>>
  BY DEF Pay
<1>2. TypeOK'  BY <1>1 DEF TypeOK, deliveryVars
<1>3. RefersToIssued'  BY <1>1 DEF RefersToIssued, Issued
<1>4. ScopeInv'  BY <1>1 DEF ScopeInv, ActiveIsAgreed, Active, Issued
<1>5. RunInv'  BY <1>1, RunFrame DEF RunInv
<1> QED  BY <1>2, <1>3, <1>4, <1>5

LEMMA ClientStep ==
  ASSUME LicenceInv,
         Resubmit \/ \E t \in Tokens : Download(t) \/ ExpireToken(t)
  PROVE  LicenceInv'
<1> USE DEF LicenceInv
<1>1. /\ UNCHANGED <<request, offers, staff, drafting, linksSent, eventVars, documents, mails>>
      /\ rival' = rival \/ (rival' = TRUE /\ request.status \in Inactive)
      /\ tokens' \in [Tokens -> {"none", "live", "spent"}]
  <2>1. CASE Resubmit  BY <2>1 DEF Resubmit, deliveryVars, TypeOK
  <2>2. ASSUME NEW t \in Tokens, Download(t) \/ ExpireToken(t)
        PROVE  /\ tokens' = [tokens EXCEPT ![t] = "spent"]
               /\ UNCHANGED <<request, offers, staff, drafting, linksSent, eventVars,
                              documents, mails, rival>>
    BY <2>2 DEF Download, ExpireToken
  <2> QED  BY <2>1, <2>2 DEF TypeOK
<1>2. rival' \in BOOLEAN  BY <1>1 DEF TypeOK
<1>3. TypeOK'  BY <1>1, <1>2 DEF TypeOK, eventVars
<1>4. RefersToIssued'  BY <1>1 DEF RefersToIssued, Issued
<1>5. ScopeInv'  BY <1>1 DEF ScopeInv, ActiveIsAgreed, Active, Issued
<1>6. rival' => request'.status \in Inactive  BY <1>1 DEF RunInv
<1>7. RunInv'  BY <1>1, <1>6, RunFrame DEF eventVars
<1> QED  BY <1>3, <1>4, <1>5, <1>7

LEMMA BeginRunStep ==
  ASSUME LicenceInv, NEW v \in Version, NEW h \in Handlers, BeginRun(h, v)
  PROVE  LicenceInv'
<1> USE DEF LicenceInv
<1> DEFINE r == [offer |-> v, status |-> request.status,
                 fresh |-> offers[v].status # "PAID", step |-> "offer"]
<1>1. /\ handlers[h] = None /\ v \in captured \ done
      /\ \A g \in Handlers : handlers[g] # None => handlers[g].offer # v
      /\ \/ done' = done \union {v} /\ handlers' = handlers
         \/ handlers' = [handlers EXCEPT ![h] = r] /\ done' = done
      /\ UNCHANGED <<request, offers, staff, drafting, linksSent, captured, faults,
                     deliveryVars, rival>>
  BY DEF BeginRun, Unhandled
<1>2. r \in Run /\ r.offer = v  BY DEF TypeOK, Run, Row
<1> HIDE DEF r
<1>3. handlers' \in [Handlers -> Run \union {None}] /\ done' \subseteq captured'
  BY <1>1, <1>2 DEF TypeOK
<1>4. TypeOK'  BY <1>1, <1>3 DEF TypeOK, deliveryVars
<1>5. RefersToIssued'  BY <1>1 DEF RefersToIssued, Issued
<1>6. ScopeInv'  BY <1>1 DEF ScopeInv, ActiveIsAgreed, Active, Issued
<1>7. RunInv'
  <2>1. CASE done' = done \union {v} /\ handlers' = handlers  BY <1>1, <2>1 DEF RunInv
  <2>2. CASE handlers' = [handlers EXCEPT ![h] = r] /\ done' = done
    <3>1. \A g \in Handlers : handlers'[g] = IF g = h THEN r ELSE handlers[g]
      BY <2>2 DEF TypeOK
    <3>2. \A g \in Handlers : handlers'[g] # None => handlers'[g].offer \in captured' \ done'
      BY <1>1, <1>2, <2>2, <3>1 DEF RunInv
    <3>3. \A g, k \in Handlers :
            handlers'[g] # None /\ handlers'[k] # None /\ handlers'[g].offer = handlers'[k].offer
              => g = k
      BY <1>1, <1>2, <3>1 DEF RunInv
    <3> QED  BY <1>1, <3>2, <3>3 DEF RunInv
  <2> QED  BY <1>1, <2>1, <2>2
<1> QED  BY <1>4, <1>5, <1>6, <1>7

\* A run goes from a step to the next one and keeps what it read.
LEMMA ToNext ==
  ASSUME TypeOK, NEW h \in Handlers, NEW step \in {"offer", "paid", "issue", "mail"},
         At(h, step)
  PROVE  /\ To(h) \in Run /\ To(h) # None /\ handlers[h] # None
         /\ To(h).offer = handlers[h].offer /\ To(h).status = handlers[h].status
         /\ To(h).step = After[step]
<1>1. handlers[h] # None /\ handlers[h] \in Run /\ handlers[h].step = step
  BY DEF At, TypeOK
<1>2. After[step] \in {"paid", "issue", "mail", "deliver"}  BY DEF After
<1>3. /\ To(h) \in Run /\ To(h).offer = handlers[h].offer
      /\ To(h).status = handlers[h].status /\ To(h).step = After[step]
  BY <1>1, <1>2 DEF Run, To
<1> QED  BY <1>1, <1>3, NoneApart

LEMMA MarkOfferStep ==
  ASSUME LicenceInv, NEW h \in Handlers, MarkOffer(h)
  PROVE  LicenceInv'
<1> USE DEF LicenceInv
<1> DEFINE v == handlers[h].offer
           paid == [offers[v] EXCEPT !.status = "PAID"]
<1>1. /\ At(h, "offer") /\ handlers' = [handlers EXCEPT ![h] = To(h)]
      /\ offers' = offers \/ offers' = [offers EXCEPT ![v] = paid]
      /\ UNCHANGED <<request, staff, drafting, linksSent, captured, done, faults,
                     deliveryVars, rival>>
  BY DEF MarkOffer
<1>2. To(h) \in Run /\ handlers[h] # None /\ To(h).offer = v  BY <1>1, ToNext
<1>3. v \in Issued  BY <1>2 DEF RunInv, RefersToIssued, TypeOK
<1>4. v \in Version /\ offers[v] \in Offer  BY <1>3 DEF Issued, TypeOK
<1>5. paid \in Offer /\ paid # None /\ paid.status = "PAID"  BY <1>4, NoneApart DEF Offer
<1> HIDE DEF v, paid
<1>6. /\ offers' \in [Version -> Offer \union {None}]
      /\ \A u \in Version : offers'[u] = offers[u] \/ (u = v /\ offers'[u] = paid)
  BY <1>1, <1>4, <1>5 DEF TypeOK
<1>7. handlers' \in [Handlers -> Run \union {None}]  BY <1>1, <1>2 DEF TypeOK
<1>8. TypeOK'  BY <1>1, <1>6, <1>7 DEF TypeOK, deliveryVars
<1>9. Issued \subseteq Issued'  BY <1>5, <1>6 DEF Issued
<1>10. RefersToIssued'  BY <1>1, <1>9, ReferFrame
<1>11. \A u \in Active' : u \in Active /\ offers'[u].terms = offers[u].terms
  BY <1>5, <1>6 DEF Active, Issued
<1>12. ScopeInv'  BY <1>1, <1>11, ScopeFrame DEF SameScope
<1>13. rival' => request'.status \in Inactive  BY <1>1 DEF RunInv
<1>14. RunInv'  BY <1>1, <1>2, <1>13, RunMoves DEF v
<1> QED  BY <1>8, <1>10, <1>12, <1>14

LEMMA MarkPaidStep ==
  ASSUME LicenceInv, NEW h \in Handlers, MarkPaid(h)
  PROVE  LicenceInv'
<1> USE DEF LicenceInv
<1>1. PICK r \in {None, To(h)} :
        /\ At(h, "paid") /\ handlers' = [handlers EXCEPT ![h] = r]
        /\ \/ request' = request
           \/ request' = [request EXCEPT !.status = "PAID"] /\ Storable("PAID")
        /\ UNCHANGED <<offers, staff, drafting, linksSent, captured, done, faults,
                       deliveryVars, rival>>
  <2>1. request \in Row  BY DEF TypeOK
  <2>2. request = [request EXCEPT !.status = request.status]  BY <2>1 DEF Row
  <2> QED  BY <2>2 DEF MarkPaid
<1>2. /\ To(h) \in Run /\ handlers[h] # None /\ To(h).offer = handlers[h].offer
  BY <1>1, ToNext
<1>3. request' \in Row /\ SameScope(request', request) /\ request'.payDraft = request.payDraft
  <2>1. request \in Row  BY DEF TypeOK
  <2>2. CASE request' = request  BY <2>1, <2>2 DEF SameScope
  <2>3. CASE request' = [request EXCEPT !.status = "PAID"]
    BY <2>1, <2>3 DEF Row, Status, SameScope
  <2> QED  BY <1>1, <2>2, <2>3
<1>4. rival' => request'.status \in Inactive
  <2>1. CASE request' = request  BY <1>1, <2>1 DEF RunInv
  <2>2. CASE Storable("PAID")  BY <1>1, <2>2 DEF RunInv, Storable, Inactive
  <2> QED  BY <1>1, <2>1, <2>2
<1>5. handlers' \in [Handlers -> Run \union {None}]  BY <1>1, <1>2 DEF TypeOK
<1>6. TypeOK'  BY <1>1, <1>3, <1>5 DEF TypeOK, deliveryVars
<1>7. RefersToIssued'  BY <1>1, <1>3, ReferFrame DEF Issued
<1>8. ScopeInv'  BY <1>1, <1>3, ScopeFrame DEF Active, Issued
<1>9. RunInv'  BY <1>1, <1>2, <1>4, RunMoves
<1> QED  BY <1>6, <1>7, <1>8, <1>9

\* The steps that leave the request and the offers alone
LEMMA StoreStep ==
  ASSUME LicenceInv, NEW h \in Handlers, IssueDocuments(h) \/ SendDelivery(h) \/ Fail(h)
  PROVE  LicenceInv'
<1> USE DEF LicenceInv
<1>1. PICK r \in Run \union {None} :
        /\ handlers' = [handlers EXCEPT ![h] = r] /\ handlers[h] # None
        /\ r # None => r.offer = handlers[h].offer
        /\ UNCHANGED <<request, offers, staff, drafting, linksSent, captured, done, rival>>
  <2>1. CASE IssueDocuments(h)
    <3>1. To(h) \in Run /\ handlers[h] # None /\ To(h).offer = handlers[h].offer
      BY <2>1, ToNext DEF IssueDocuments
    <3>2. /\ handlers' = [handlers EXCEPT ![h] = To(h)]
          /\ UNCHANGED <<request, offers, staff, drafting, linksSent, captured, done, rival>>
      BY <2>1 DEF IssueDocuments
    <3> QED  BY <3>1, <3>2
  <2>2. CASE SendDelivery(h)
    <3>1. To(h) \in Run /\ handlers[h] # None /\ To(h).offer = handlers[h].offer
      BY <2>2, ToNext DEF SendDelivery
    <3>2. /\ handlers' = [handlers EXCEPT ![h] = To(h)]
          /\ UNCHANGED <<request, offers, staff, drafting, linksSent, captured, done, rival>>
      BY <2>2 DEF SendDelivery
    <3> QED  BY <3>1, <3>2
  <2>3. CASE Fail(h)  BY <2>3 DEF Fail
  <2> QED  BY <2>1, <2>2, <2>3
<1>2. /\ documents' \subseteq DocTypes /\ mails' \in Nat
      /\ tokens' \in [Tokens -> {"none", "live", "spent"}]
      /\ faults' \in 0..MaxFaults
  <2>0. MaxFaults \in Nat /\ mails \in Nat /\ faults \in 0..MaxFaults
    BY LicenceAssumption DEF TypeOK
  <2>1. CASE IssueDocuments(h)
    <3>1. Ensured \subseteq Tokens  BY DEF Ensured
    <3>2. PICK t \in Ensured : tokens' = [tokens EXCEPT ![t] = "live"]
      BY <2>1 DEF IssueDocuments
    <3>3. tokens' \in [Tokens -> {"none", "live", "spent"}]  BY <3>1, <3>2 DEF TypeOK
    <3>4. documents' = DocTypes /\ mails' = mails /\ faults' = faults
      BY <2>1 DEF IssueDocuments
    <3> QED  BY <2>0, <3>3, <3>4
  <2>2. CASE SendDelivery(h)
    <3>1. mails' = mails + 1 /\ documents' = documents /\ tokens' = tokens /\ faults' = faults
      BY <2>2 DEF SendDelivery
    <3>2. mails' \in Nat  BY <2>0, <3>1
    <3> QED  BY <2>0, <3>1, <3>2 DEF TypeOK
  <2>3. CASE Fail(h)
    <3>1. /\ mails' = mails \/ mails' = mails + 1
          /\ documents' = documents \/ documents' = documents \union {"SCHEDULE"}
          /\ tokens' = tokens /\ faults < MaxFaults /\ faults' = faults + 1
      BY <2>3 DEF Fail
    <3>2. mails' \in Nat /\ faults' \in 0..MaxFaults  BY <2>0, <3>1
    <3>3. documents' \subseteq DocTypes  BY <3>1 DEF TypeOK, DocTypes
    <3> QED  BY <3>1, <3>2, <3>3 DEF TypeOK
  <2> QED  BY <2>1, <2>2, <2>3
<1>3. handlers' \in [Handlers -> Run \union {None}]  BY <1>1 DEF TypeOK
<1>4. TypeOK'  BY <1>1, <1>2, <1>3 DEF TypeOK
<1>5. RefersToIssued'  BY <1>1, ReferFrame DEF Issued
<1>6. ScopeInv'  BY <1>1 DEF ScopeInv, ActiveIsAgreed, Active, Issued
<1>7. rival' => request'.status \in Inactive  BY <1>1 DEF RunInv
<1>8. RunInv'  BY <1>1, <1>7, RunMoves
<1> QED  BY <1>4, <1>5, <1>6, <1>8

LEMMA DeliverStep ==
  ASSUME LicenceInv, NEW h \in Handlers, Deliver(h)
  PROVE  LicenceInv'
<1> USE DEF LicenceInv
<1> DEFINE v == handlers[h].offer
<1>1. /\ handlers[h] # None /\ handlers' = [handlers EXCEPT ![h] = None]
      /\ \/ /\ Storable("DELIVERED") /\ done' = done \union {v}
            /\ request' = [request EXCEPT !.delivered = TRUE, !.status = "DELIVERED"]
         \/ request' = [request EXCEPT !.delivered = TRUE] /\ done' = done
      /\ UNCHANGED <<offers, staff, drafting, linksSent, captured, faults, deliveryVars, rival>>
  BY DEF Deliver, At
<1>2. v \in captured \ done  BY <1>1 DEF RunInv
<1> HIDE DEF v
<1>3. /\ request' \in Row /\ SameScope(request', request)
      /\ request'.payDraft = request.payDraft
      /\ request'.status = request.status \/ Storable("DELIVERED")
  <2>1. request \in Row  BY DEF TypeOK
  <2> QED  BY <1>1, <2>1 DEF Row, Status, SameScope
<1>4. rival' => request'.status \in Inactive  BY <1>1, <1>3 DEF RunInv, Storable, Inactive
<1>5. handlers' \in [Handlers -> Run \union {None}] /\ done' \subseteq captured'
  BY <1>1, <1>2 DEF TypeOK
<1>6. TypeOK'  BY <1>1, <1>3, <1>5 DEF TypeOK, deliveryVars
<1>7. RefersToIssued'  BY <1>1, <1>3, ReferFrame DEF Issued
<1>8. ScopeInv'  BY <1>1, <1>3, ScopeFrame DEF Active, Issued
<1>9. RunInv'  BY <1>1, <1>4, RunMoves DEF v
<1> QED  BY <1>6, <1>7, <1>8, <1>9

\* The steps that touch neither a run nor an event
Desk ==
  \/ \E act \in QuickActs : DoAction(act)
  \/ \E act \in SlowActs : BeginAction(act)
  \/ FinishAction \/ AbandonAction \/ FetchPaymentDraft \/ SavePaymentDraft
  \/ \E v \in Version : Expire(v)
  \/ \E t \in Tokens : Download(t) \/ ExpireToken(t)

LEMMA NextSplit ==
  ASSUME Next
  PROVE  \/ Desk
         \/ \E v \in Version : Pay(v) \/ \E h \in Handlers : BeginRun(h, v)
         \/ \E h \in Handlers : Step(h) \/ Fail(h)
         \/ Resubmit
BY DEF Next, Desk

LEMMA StepHolds == LicenceInv /\ [Next]_vars => LicenceInv'
<1> SUFFICES ASSUME LicenceInv, [Next]_vars PROVE LicenceInv'
  OBVIOUS
<1>1. CASE Next
  <2>1. CASE Desk
    BY <2>1, DoActionStep, BeginActionStep, FinishActionStep, AbandonActionStep, FetchStep,
       SaveStep, ExpireStep, ClientStep DEF Desk
  <2>2. CASE \E v \in Version : Pay(v) \/ \E h \in Handlers : BeginRun(h, v)
    BY <2>2, PayStep, BeginRunStep
  <2>3. CASE \E h \in Handlers : Step(h) \/ Fail(h)
    BY <2>3, MarkOfferStep, MarkPaidStep, StoreStep, DeliverStep DEF Step
  <2>4. CASE Resubmit  BY <2>4, ClientStep
  <2> QED  BY <1>1, <2>1, <2>2, <2>3, <2>4, NextSplit
<1>2. CASE UNCHANGED vars
  BY <1>2 DEF vars, eventVars, deliveryVars, LicenceInv, TypeOK, RefersToIssued, ScopeInv,
     RunInv, ActiveIsAgreed, Active, Issued
<1> QED  BY <1>1, <1>2

\* Everything below holds together, whatever the numbers of terms, offers, webhook
\* runs, tokens and faults and whatever statuses staff set by hand.
THEOREM LicenceSafe == Spec => []LicenceInv
BY InitHolds, StepHolds, PTL DEF Spec

\* Rows, runs and actions keep the values that can occur.
THEOREM LicenceTyped == Spec => []TypeOK
<1>1. LicenceInv => TypeOK  BY DEF LicenceInv
<1> QED  BY <1>1, LicenceSafe, PTL

\* An ACTIVE offer always has the confirmed terms, although slow actions write what
\* they decided on a row read long before.
THEOREM ActiveOffersAgreed == Spec => []ActiveIsAgreed
<1>1. LicenceInv => ActiveIsAgreed  BY DEF LicenceInv, ScopeInv
<1> QED  BY <1>1, LicenceSafe, PTL

-----------------------------------------------------------------------------
(* Delivery mails *)

Settled == captured \ Pending

LEMMA CountVersions ==
  ASSUME NEW C \in SUBSET Version
  PROVE  IsFiniteSet(C) /\ Cardinality(C) \in Nat
<1>1. MaxVersion \in Int /\ 1 \in Int  BY LicenceAssumption
<1>2. IsFiniteSet(Version)  BY <1>1, FS_Interval DEF Version
<1>3. IsFiniteSet(C)  BY <1>2, FS_Subset
<1> QED  BY <1>3, FS_CardinalityType

LEMMA CountSettled ==
  ASSUME TypeOK, TypeOK'
  PROVE  /\ IsFiniteSet(Settled) /\ IsFiniteSet(Settled')
         /\ Cardinality(Settled)' \in Nat /\ Cardinality(Settled) \in Nat
         /\ mails \in Nat /\ faults \in Nat
<1>1. Settled \in SUBSET Version /\ Settled' \in SUBSET Version  BY DEF TypeOK, Settled
<1>2. mails \in Nat /\ faults \in Nat  BY LicenceAssumption DEF TypeOK
<1>3. IsFiniteSet(Settled) /\ IsFiniteSet(Settled')  BY <1>1, CountVersions
<1>4. Cardinality(Settled) \in Nat /\ Cardinality(Settled') \in Nat  BY <1>1, CountVersions
<1> QED  BY <1>2, <1>3, <1>4

\* Without a fault a mail may leave only when a link becomes settled.
LEMMA MailFrame ==
  ASSUME TypeOK, TypeOK', MailInv, Settled \subseteq Settled',
         \/ mails' = mails /\ faults' = faults
         \/ mails' \in {mails, mails + 1} /\ faults' = faults + 1
  PROVE  MailInv'
<1>1. /\ IsFiniteSet(Settled') /\ Cardinality(Settled)' \in Nat /\ Cardinality(Settled) \in Nat
      /\ mails \in Nat /\ faults \in Nat
  BY CountSettled
<1>2. Settled \in SUBSET Settled'  OBVIOUS
<1>3. Cardinality(Settled) <= Cardinality(Settled')  BY <1>1, <1>2, FS_Subset
<1>4. mails <= Cardinality(Settled) + faults  BY DEF MailInv, Settled
<1>5. mails' <= Cardinality(Settled') + faults'  BY <1>1, <1>3, <1>4
<1> QED  BY <1>5 DEF MailInv, Settled

LEMMA MailLeaves ==
  ASSUME TypeOK, TypeOK', MailInv, NEW v, v \notin Settled, Settled \union {v} \subseteq Settled',
         mails' = mails + 1, faults' = faults
  PROVE  MailInv'
<1>1. /\ IsFiniteSet(Settled) /\ IsFiniteSet(Settled')
      /\ Cardinality(Settled)' \in Nat /\ Cardinality(Settled) \in Nat
      /\ mails \in Nat /\ faults \in Nat
  BY CountSettled
<1>2. Settled \union {v} \in SUBSET Settled'  OBVIOUS
<1>3. Cardinality(Settled \union {v}) = Cardinality(Settled) + 1  BY <1>1, FS_AddElement
<1>4. Cardinality(Settled) + 1 <= Cardinality(Settled')  BY <1>1, <1>2, <1>3, FS_Subset
<1>5. mails <= Cardinality(Settled) + faults  BY DEF MailInv, Settled
<1>6. mails' <= Cardinality(Settled') + faults'  BY <1>1, <1>4, <1>5
<1> QED  BY <1>6 DEF MailInv, Settled

LEMMA MailLost ==
  ASSUME TypeOK, TypeOK', MailInv, NEW v, Settled \ {v} \subseteq Settled',
         mails' = mails, faults' = faults + 1
  PROVE  MailInv'
<1>1. /\ IsFiniteSet(Settled) /\ IsFiniteSet(Settled')
      /\ Cardinality(Settled)' \in Nat /\ Cardinality(Settled) \in Nat
      /\ mails \in Nat /\ faults \in Nat
  BY CountSettled
<1>2. Settled \ {v} \in SUBSET Settled'  OBVIOUS
<1>3. Cardinality(Settled \ {v}) \in {Cardinality(Settled), Cardinality(Settled) - 1}
  BY <1>1, FS_RemoveElement
<1>4. Cardinality(Settled) - 1 <= Cardinality(Settled')  BY <1>1, <1>2, <1>3, FS_Subset
<1>5. mails <= Cardinality(Settled) + faults  BY DEF MailInv, Settled
<1>6. mails' <= Cardinality(Settled') + faults'  BY <1>1, <1>4, <1>5
<1> QED  BY <1>6 DEF MailInv, Settled

\* A run that moves settles nothing anew while the request is closed for good,
\* and otherwise only its own link can cease to be settled.
LEMMA SettledMoves ==
  ASSUME LicenceInv, NEW h \in Handlers, handlers[h] # None, NEW r \in Run \union {None},
         r # None => r.offer = handlers[h].offer,
         handlers' = [handlers EXCEPT ![h] = r],
         captured' = captured, rival' = rival, done \subseteq done',
         rival => (Past(h)' => Past(h))
  PROVE  /\ Settled \ {handlers[h].offer} \subseteq Settled'
         /\ rival => Settled \subseteq Settled'
         /\ handlers[h].step # "deliver" \/ handlers[h].offer \in done'
              => Settled \subseteq Settled'
<1> DEFINE v == handlers[h].offer
<1>1. \A g \in Handlers : handlers'[g] = IF g = h THEN r ELSE handlers[g]
  BY DEF LicenceInv, TypeOK
<1>2. \A g \in Handlers : handlers'[g] # None
        => handlers[g] # None /\ handlers'[g].offer = handlers[g].offer
  BY <1>1
<1>3. ASSUME rival, NEW u \in Settled
      PROVE  u \in Settled'
  <2>1. \A g \in Handlers : Past(g)' => Past(g)  BY <1>1, <1>3 DEF Past
  <2>2. u \in captured /\ (u \in done \/ \A g \in Handlers : ~(Past(g) /\ handlers[g].offer = u))
    BY <1>3 DEF Settled, Pending
  <2>3. \A g \in Handlers : Past(g)' => handlers'[g].offer = handlers[g].offer
    BY <1>2 DEF Past
  <2>4. u \notin Pending'  BY <1>3, <2>1, <2>2, <2>3 DEF Pending
  <2> QED  BY <2>2, <2>4 DEF Settled
<1>4. ASSUME ~rival, NEW u \in Settled, u # v \/ u \in done'
                       \/ handlers[h].step # "deliver"
      PROVE  u \in Settled'
  <2>1. /\ u \in captured
        /\ \/ u \in done
           \/ \E g \in Handlers : handlers[g] # None /\ handlers[g].offer = u
                                    /\ handlers[g].step = "deliver"
    BY <1>4 DEF Settled, Pending
  <2>2. CASE u \in done'
    <3>1. u \notin Pending'  BY <2>2 DEF Pending
    <3> QED  BY <2>1, <3>1 DEF Settled
  <2>3. CASE u \notin done'
    <3>1. PICK g \in Handlers : handlers[g] # None /\ handlers[g].offer = u
                                  /\ handlers[g].step = "deliver"
      BY <2>1, <2>3
    <3>2. handlers'[g] # None /\ handlers'[g].offer = u /\ handlers'[g].step = "deliver"
      <4>1. g # h  BY <1>4, <2>3, <3>1
      <4> QED  BY <1>1, <3>1, <4>1
    <3>3. u \notin Pending'  BY <1>4, <3>2 DEF Pending
    <3> QED  BY <2>1, <3>3 DEF Settled
  <2> QED  BY <2>2, <2>3
<1> QED  BY <1>3, <1>4

LEMMA MailHandlerStep ==
  ASSUME LicenceInv, TypeOK', MailInv, NEW h \in Handlers, Step(h)
  PROVE  MailInv'
<1>1. TypeOK /\ RunInv  BY DEF LicenceInv
<1>2. CASE MarkOffer(h)
  <2>1. /\ At(h, "offer") /\ handlers' = [handlers EXCEPT ![h] = To(h)]
        /\ UNCHANGED <<captured, done, mails, faults, rival>>
    BY <1>2 DEF MarkOffer, deliveryVars
  <2>2. /\ To(h) \in Run /\ handlers[h] # None /\ To(h) # None
        /\ To(h).offer = handlers[h].offer /\ To(h).status = handlers[h].status
        /\ To(h).step = "paid"
    BY <1>1, <2>1, ToNext DEF After
  <2>3. handlers[h].step = "offer"  BY <2>1 DEF At
  <2>4. handlers'[h] = To(h)  BY <1>1, <2>1 DEF TypeOK
  <2>5. Past(h)' => Past(h)  BY <2>2, <2>3, <2>4 DEF Past
  <2>6. Settled \subseteq Settled'  BY <2>1, <2>2, <2>3, <2>5, SettledMoves
  <2> QED  BY <1>1, <2>1, <2>6, MailFrame
<1>3. CASE MarkPaid(h)
  <2>1. PICK r \in {None, To(h)} :
          /\ At(h, "paid") /\ handlers' = [handlers EXCEPT ![h] = r]
          /\ rival /\ r # None => handlers[h].status = "PAID"
          /\ UNCHANGED <<captured, done, mails, faults, rival>>
    <3>1. rival /\ handlers[h].status # "PAID" => ~Storable("PAID")
      BY <1>1 DEF RunInv, Storable, Inactive
    <3> QED  BY <1>3, <3>1 DEF MarkPaid, deliveryVars
  <2>2. /\ To(h) \in Run /\ handlers[h] # None /\ To(h) # None
        /\ To(h).offer = handlers[h].offer
        /\ To(h).step = "issue"
    BY <1>1, <2>1, ToNext DEF After
  <2>3. handlers[h].step = "paid"  BY <2>1 DEF At
  <2>4. handlers'[h] = r  BY <1>1, <2>1 DEF TypeOK
  <2>5. rival => (Past(h)' => Past(h))  BY <2>1, <2>2, <2>3, <2>4 DEF Past
  <2>6. Settled \subseteq Settled'  BY <2>1, <2>2, <2>3, <2>5, SettledMoves
  <2> QED  BY <1>1, <2>1, <2>6, MailFrame
<1>4. CASE IssueDocuments(h)
  <2>1. /\ At(h, "issue") /\ handlers' = [handlers EXCEPT ![h] = To(h)]
        /\ UNCHANGED <<captured, done, mails, faults, rival>>
    BY <1>4 DEF IssueDocuments
  <2>2. /\ To(h) \in Run /\ handlers[h] # None /\ To(h).offer = handlers[h].offer
    BY <1>1, <2>1, ToNext
  <2>3. handlers[h].step = "issue"  BY <2>1 DEF At
  <2>4. Past(h)  BY <2>2, <2>3 DEF Past
  <2>5. Settled \subseteq Settled'  BY <2>1, <2>2, <2>3, <2>4, SettledMoves
  <2> QED  BY <1>1, <2>1, <2>5, MailFrame
<1>5. CASE SendDelivery(h)
  <2> DEFINE v == handlers[h].offer
  <2>1. /\ At(h, "mail") /\ handlers' = [handlers EXCEPT ![h] = To(h)]
        /\ mails' = mails + 1
        /\ UNCHANGED <<captured, done, faults, rival>>
    BY <1>5 DEF SendDelivery
  <2>2. /\ To(h) \in Run /\ handlers[h] # None /\ To(h) # None
        /\ To(h).offer = v /\ To(h).step = "deliver"
    BY <1>1, <2>1, ToNext DEF After
  <2>3. handlers[h].step = "mail"  BY <2>1 DEF At
  <2>4. handlers'[h] = To(h)  BY <1>1, <2>1 DEF TypeOK
  <2>5. Past(h) /\ ~Past(h)'  BY <2>2, <2>3, <2>4 DEF Past
  <2>6. Settled \subseteq Settled'  BY <2>1, <2>2, <2>3, <2>5, SettledMoves
  <2>7. v \in captured \ done  BY <1>1, <2>2 DEF RunInv
  <2>8. \A g \in Handlers : g # h /\ handlers[g] # None => handlers[g].offer # v
    BY <1>1, <2>2 DEF RunInv
  <2>9. \A g \in Handlers : g # h => handlers'[g] = handlers[g]  BY <1>1, <2>1 DEF TypeOK
  <2> HIDE DEF v
  <2>10. v \notin Settled
    <3>1. v \in Pending
      <4>1. CASE rival  BY <2>5, <2>7, <4>1 DEF Pending, v
      <4>2. CASE ~rival
        <5>1. \A g \in Handlers : handlers[g] # None /\ handlers[g].offer = v
                                    => handlers[g].step # "deliver"
          BY <2>3, <2>8
        <5> QED  BY <2>7, <4>2, <5>1 DEF Pending
      <4> QED  BY <4>1, <4>2
    <3> QED  BY <3>1 DEF Settled
  <2>11. v \in Settled'
    <3>1. v \notin Pending'
      <4>1. CASE rival
        <5>1. \A g \in Handlers : Past(g)' => handlers'[g].offer # v
          BY <2>5, <2>8, <2>9 DEF Past
        <5> QED  BY <2>1, <4>1, <5>1 DEF Pending
      <4>2. CASE ~rival  BY <2>1, <2>2, <2>4, <4>2 DEF Pending
      <4> QED  BY <4>1, <4>2
    <3> QED  BY <2>1, <2>7, <3>1 DEF Settled
  <2>12. Settled \union {v} \subseteq Settled'  BY <2>6, <2>11
  <2> QED  BY <1>1, <2>1, <2>10, <2>12, MailLeaves
<1>6. CASE Deliver(h)
  <2>1. /\ At(h, "deliver") /\ handlers' = [handlers EXCEPT ![h] = None]
        /\ done \subseteq done' /\ (~rival => handlers[h].offer \in done')
        /\ UNCHANGED <<captured, mails, faults, rival>>
    BY <1>6 DEF Deliver, deliveryVars, Storable
  <2>2. handlers[h] # None  BY <2>1 DEF At
  <2>3. handlers'[h] = None  BY <1>1, <2>1 DEF TypeOK
  <2>4. ~Past(h)'  BY <2>3 DEF Past
  <2>5. Settled \subseteq Settled'  BY <2>1, <2>2, <2>4, SettledMoves
  <2> QED  BY <1>1, <2>1, <2>5, MailFrame
<1> QED  BY <1>2, <1>3, <1>4, <1>5, <1>6 DEF Step

LEMMA MailFailStep ==
  ASSUME LicenceInv, TypeOK', MailInv, NEW h \in Handlers, Fail(h)
  PROVE  MailInv'
<1>1. TypeOK /\ RunInv  BY DEF LicenceInv
<1>2. /\ handlers[h] # None /\ handlers' = [handlers EXCEPT ![h] = None]
      /\ faults' = faults + 1
      /\ mails' = mails \/ (mails' = mails + 1 /\ handlers[h].step = "mail")
      /\ UNCHANGED <<captured, done, rival>>
  BY DEF Fail, At
<1>3. handlers'[h] = None  BY <1>1, <1>2 DEF TypeOK
<1>4. ~Past(h)'  BY <1>3 DEF Past
<1>5. /\ Settled \ {handlers[h].offer} \subseteq Settled'
      /\ handlers[h].step # "deliver" => Settled \subseteq Settled'
  BY <1>2, <1>4, SettledMoves
<1>6. CASE mails' = mails  BY <1>1, <1>2, <1>5, <1>6, MailLost
<1>7. CASE mails' = mails + 1 /\ handlers[h].step = "mail"  BY <1>1, <1>2, <1>5, <1>7, MailFrame
<1> QED  BY <1>2, <1>6, <1>7

LEMMA DeskFrame ==
  ASSUME TypeOK, Desk
  PROVE  UNCHANGED <<captured, done, handlers, documents, mails, rival, faults>>
BY DEF Desk, DoAction, BeginAction, FinishAction, AbandonAction, FetchPaymentDraft,
   SavePaymentDraft, Expire, Download, ExpireToken, eventVars, deliveryVars

LEMMA MailPayStep ==
  ASSUME LicenceInv, TypeOK', MailInv, NEW v \in Version, Pay(v)
  PROVE  MailInv'
<1>1. /\ v \notin captured /\ captured' = captured \union {v}
      /\ UNCHANGED <<done, handlers, mails, faults, rival>>
  BY DEF Pay, deliveryVars
<1>2. \A u \in captured : u \in Pending' => u \in Pending  BY <1>1 DEF Pending, Past
<1>3. Settled \subseteq Settled'  BY <1>1, <1>2 DEF Settled
<1> QED  BY <1>1, <1>3, MailFrame DEF LicenceInv

LEMMA MailResubmitStep ==
  ASSUME LicenceInv, TypeOK', MailInv, Resubmit
  PROVE  MailInv'
<1>1. ~rival /\ rival' = TRUE /\ UNCHANGED <<captured, done, handlers, mails, faults>>
  BY DEF Resubmit, eventVars, deliveryVars
<1>2. ASSUME NEW u \in Settled  PROVE u \notin Pending'
  <2>1. u \in done \/ \E g \in Handlers :
          handlers[g] # None /\ handlers[g].offer = u /\ handlers[g].step = "deliver"
    BY <1>1, <1>2 DEF Settled, Pending
  <2>2. CASE u \in done  BY <1>1, <2>2 DEF Pending
  <2>3. ASSUME NEW g \in Handlers, handlers[g] # None, handlers[g].offer = u,
               handlers[g].step = "deliver"
        PROVE  u \notin Pending'
    <3>1. \A k \in Handlers : handlers[k] # None /\ handlers[k].offer = u => k = g
      BY <2>3 DEF LicenceInv, RunInv
    <3>2. ~Past(g)  BY <2>3 DEF Past
    <3>3. \A k \in Handlers : ~(Past(k) /\ handlers[k].offer = u)  BY <3>1, <3>2 DEF Past
    <3>4. \A k \in Handlers : ~(Past(k)' /\ handlers'[k].offer = u)  BY <1>1, <3>3 DEF Past
    <3> QED  BY <1>1, <3>4 DEF Pending
  <2> QED  BY <2>1, <2>2, <2>3
<1>3. Settled \subseteq Settled'  BY <1>1, <1>2 DEF Settled
<1> QED  BY <1>1, <1>3, MailFrame DEF LicenceInv

LEMMA MailBeginStep ==
  ASSUME LicenceInv, TypeOK', MailInv, NEW v \in Version, NEW h \in Handlers, BeginRun(h, v)
  PROVE  MailInv'
<1> DEFINE r == [offer |-> v, status |-> request.status,
                 fresh |-> offers[v].status # "PAID", step |-> "offer"]
<1>1. /\ v \in captured \ done /\ handlers[h] = None
      /\ \A g \in Handlers : handlers[g] # None => handlers[g].offer # v
      /\ \/ done' = done \union {v} /\ handlers' = handlers
         \/ handlers' = [handlers EXCEPT ![h] = r] /\ done' = done
      /\ UNCHANGED <<captured, faults, mails, rival>>
  BY DEF BeginRun, Unhandled, deliveryVars
<1>2. r.offer = v /\ r.step = "offer" /\ r.status = request.status  OBVIOUS
<1> HIDE DEF r
<1>3. CASE done' = done \union {v} /\ handlers' = handlers
  <2>1. \A u \in captured : u \in Pending' => u \in Pending  BY <1>1, <1>3 DEF Pending, Past
  <2>2. Settled \subseteq Settled'  BY <1>1, <2>1 DEF Settled
  <2> QED  BY <1>1, <2>2, MailFrame DEF LicenceInv
<1>4. CASE handlers' = [handlers EXCEPT ![h] = r] /\ done' = done
  <2>1. \A g \in Handlers : handlers'[g] = IF g = h THEN r ELSE handlers[g]
    BY <1>4 DEF LicenceInv, TypeOK
  <2>2. CASE rival
    <3>1. request.status \in Inactive  BY <2>2 DEF LicenceInv, RunInv
    <3>2. ~Past(h)'  BY <1>2, <2>1, <3>1 DEF Past, Inactive
    <3>3. \A g \in Handlers : Past(g)' => Past(g) /\ handlers'[g] = handlers[g]
      BY <2>1, <3>2 DEF Past
    <3>4. \A u \in captured : u \in Pending' => u \in Pending
      BY <1>1, <1>4, <2>2, <3>3 DEF Pending
    <3>5. Settled \subseteq Settled'  BY <1>1, <3>4 DEF Settled
    <3> QED  BY <1>1, <3>5, MailFrame DEF LicenceInv
  <2>3. CASE ~rival
    <3>1. ASSUME NEW u \in Settled  PROVE u \notin Pending'
      <4>1. CASE u \in done  BY <1>4, <4>1 DEF Pending
      <4>2. CASE u \notin done
        <5>1. PICK g \in Handlers : handlers[g] # None /\ handlers[g].offer = u
                                      /\ handlers[g].step = "deliver"
          BY <2>3, <3>1, <4>2 DEF Settled, Pending
        <5>2. g # h  BY <1>1, <5>1
        <5>3. handlers'[g] = handlers[g]  BY <2>1, <5>2
        <5> QED  BY <1>1, <2>3, <5>1, <5>3 DEF Pending
      <4> QED  BY <4>1, <4>2
    <3>2. Settled \subseteq Settled'  BY <1>1, <3>1 DEF Settled
    <3> QED  BY <1>1, <3>2, MailFrame DEF LicenceInv
  <2> QED  BY <2>2, <2>3
<1> QED  BY <1>1, <1>3, <1>4

LEMMA MailHolds == LicenceInv /\ MailInv /\ [Next]_vars => MailInv'
<1> SUFFICES ASSUME LicenceInv, MailInv, [Next]_vars PROVE MailInv'
  OBVIOUS
<1>1. TypeOK /\ TypeOK'  BY StepHolds DEF LicenceInv
<1>2. CASE Next
  <2>1. CASE Desk
    <3>1. UNCHANGED <<captured, done, handlers, mails, rival, faults>>
      BY <1>1, <2>1, DeskFrame
    <3>2. Settled' = Settled  BY <3>1 DEF Settled, Pending, Past
    <3> QED  BY <1>1, <3>1, <3>2, MailFrame
  <2>2. CASE \E v \in Version : Pay(v) \/ \E h \in Handlers : BeginRun(h, v)
    BY <1>1, <2>2, MailPayStep, MailBeginStep
  <2>3. CASE \E h \in Handlers : Step(h) \/ Fail(h)
    BY <1>1, <2>3, MailHandlerStep, MailFailStep
  <2>4. CASE Resubmit  BY <1>1, <2>4, MailResubmitStep
  <2> QED  BY <1>2, <2>1, <2>2, <2>3, <2>4, NextSplit
<1>3. CASE UNCHANGED vars
  BY <1>3 DEF vars, eventVars, deliveryVars, MailInv, Pending, Past
<1> QED  BY <1>2, <1>3

\* No more delivery mails leave than links were paid and runs failed, whoever
\* pays, retries, resubmits or moves the request meanwhile.
THEOREM MailsBounded == Spec => []MailsAccounted
<1>1. TypeOK /\ MailInv => MailsAccounted
  <2> SUFFICES ASSUME TypeOK, MailInv PROVE MailsAccounted
    OBVIOUS
  <2>1. captured \in SUBSET Version /\ captured \ Pending \in SUBSET captured  BY DEF TypeOK
  <2>2. IsFiniteSet(captured) /\ Cardinality(captured) \in Nat  BY <2>1, CountVersions
  <2>3. Cardinality(captured \ Pending) <= Cardinality(captured)  BY <2>1, <2>2, FS_Subset
  <2>4. captured \ Pending \in SUBSET Version  BY <2>1
  <2>5. Cardinality(captured \ Pending) \in Nat  BY <2>4, CountVersions
  <2>6. mails \in Nat /\ faults \in Nat  BY LicenceAssumption DEF TypeOK
  <2>7. mails <= Cardinality(captured \ Pending) + faults  BY DEF MailInv
  <2>8. mails <= Cardinality(captured) + faults  BY <2>2, <2>3, <2>5, <2>6, <2>7
  <2> QED  BY <2>8 DEF MailsAccounted
<1>2. LicenceInv => TypeOK  BY DEF LicenceInv
<1> QED  BY <1>1, <1>2, InitHolds, StepHolds, MailHolds, PTL DEF Spec

-----------------------------------------------------------------------------
(* Deliveries *)

LEMMA DeskKeeps ==
  ASSUME TypeOK, Desk
  PROVE  /\ request'.delivered = request.delivered
         /\ "DELIVERED" \notin FormStatuses /\ request.status # "DELIVERED"
              => request'.status # "DELIVERED"
<1> DEFINE Kept == /\ request'.delivered = request.delivered
                   /\ "DELIVERED" \notin FormStatuses /\ request.status # "DELIVERED"
                        => request'.status # "DELIVERED"
<1>0. request \in Row  BY DEF TypeOK
<1>1. ASSUME NEW act \in QuickActs, DoAction(act)
      PROVE  Kept
  <2>1. PICK row \in IF act = "form" THEN Posted(request) ELSE {request} : Effect(act, row)
    BY <1>1 DEF DoAction
  <2>2. act \in Acts  BY DEF Acts
  <2>3. /\ row \in Row /\ row.delivered = request.delivered
        /\ row.status \in FormStatuses \union {request.status}
    BY <1>0, <2>1, PostedTyped
  <2>4. /\ act # "form" => SameButStatus(request', Written(act, row))
        /\ act = "form" => request' \in {row, request}
        /\ request.status # "DELIVERED" /\ (act = "form" => row.status # "DELIVERED")
             => request'.status # "DELIVERED"
    BY <2>1, <2>2, <2>3, RequestAfter
  <2>5. act # "form" => Written(act, row).delivered = request.delivered
    BY <1>0, <2>2, <2>3, WrittenTyped
  <2> QED  BY <2>3, <2>4, <2>5 DEF SameButStatus
<1>2. ASSUME FinishAction
      PROVE  Kept
  <2> DEFINE act == staff.act
             row == staff.row
  <2>1. staff # None /\ Effect(act, row)  BY <1>2 DEF FinishAction
  <2>2. act \in SlowActs /\ row \in Row  BY <2>1 DEF TypeOK
  <2>3. act \in Acts /\ act # "form"  BY <2>2 DEF Acts, SlowActs
  <2> HIDE DEF act, row
  <2>4. /\ SameButStatus(request', Written(act, row))
        /\ request.status # "DELIVERED" => request'.status # "DELIVERED"
    BY <2>1, <2>2, <2>3, RequestAfter
  <2>5. Written(act, row).delivered = request.delivered  BY <1>0, <2>2, <2>3, WrittenTyped
  <2> QED  BY <2>4, <2>5 DEF SameButStatus
<1>3. CASE SavePaymentDraft
  <2>1. request' = [request EXCEPT !.payDraft = drafting] \/ request' = request
    BY <1>3 DEF SavePaymentDraft
  <2> QED  BY <1>0, <2>1 DEF Row
<1>4. request' = request => Kept  OBVIOUS
<1> QED
  BY <1>1, <1>2, <1>3, <1>4 DEF Desk, BeginAction, AbandonAction, FetchPaymentDraft, Expire,
     Download, ExpireToken

\* Documents, tokens, mails and payments are never taken back.
LEMMA EvidenceStays ==
  ASSUME TypeOK, [Next]_vars
  PROVE  /\ Stored => Stored'
         /\ mails > 0 => mails' > 0
         /\ captured \subseteq captured'
<1>0. mails \in Nat  BY DEF TypeOK
<1>1. documents = DocTypes => documents' = DocTypes
  <2>1. documents' \in {documents, DocTypes, documents \union {"SCHEDULE"}}
    BY DEF Next, Step, DoAction, BeginAction, FinishAction, AbandonAction, FetchPaymentDraft,
       SavePaymentDraft, Expire, Pay, BeginRun, MarkOffer, MarkPaid, IssueDocuments,
       SendDelivery, Deliver, Fail, Download, ExpireToken, Resubmit, vars, deliveryVars
  <2> QED  BY <2>1 DEF DocTypes
<1>2. mails' \in {mails, mails + 1}
  BY DEF Next, Step, DoAction, BeginAction, FinishAction, AbandonAction, FetchPaymentDraft,
     SavePaymentDraft, Expire, Pay, BeginRun, MarkOffer, MarkPaid, IssueDocuments,
     SendDelivery, Deliver, Fail, Download, ExpireToken, Resubmit, vars, deliveryVars
<1>3. captured \subseteq captured'
  BY DEF Next, Step, DoAction, BeginAction, FinishAction, AbandonAction, FetchPaymentDraft,
     SavePaymentDraft, Expire, Pay, BeginRun, MarkOffer, MarkPaid, IssueDocuments,
     SendDelivery, Deliver, Fail, Download, ExpireToken, Resubmit, vars, eventVars
<1>4. \/ tokens' = tokens
      \/ \E t \in Tokens, s \in {"live", "spent"} : tokens' = [tokens EXCEPT ![t] = s]
  <2>1. Ensured \subseteq Tokens  BY DEF Ensured
  <2>2. ASSUME NEW h \in Handlers, IssueDocuments(h)
        PROVE  \E t \in Tokens : tokens' = [tokens EXCEPT ![t] = "live"]
    BY <2>1, <2>2 DEF IssueDocuments
  <2>3. ASSUME NEW t \in Tokens, Download(t) \/ ExpireToken(t)
        PROVE  tokens' = [tokens EXCEPT ![t] = "spent"]
    BY <2>3 DEF Download, ExpireToken
  <2>4. (\E h \in Handlers : IssueDocuments(h)) \/ (\E t \in Tokens : Download(t) \/ ExpireToken(t))
          \/ tokens' = tokens
    BY DEF Next, Step, DoAction, BeginAction, FinishAction, AbandonAction, FetchPaymentDraft,
       SavePaymentDraft, Expire, Pay, BeginRun, MarkOffer, MarkPaid,
       SendDelivery, Deliver, Fail, Resubmit, vars, deliveryVars
  <2> QED  BY <2>2, <2>3, <2>4
<1>5. \A t \in Tokens : tokens[t] # "none" => tokens'[t] # "none"  BY <1>4 DEF TypeOK
<1>6. mails > 0 => mails' > 0  BY <1>0, <1>2
<1> QED  BY <1>1, <1>3, <1>5, <1>6 DEF Stored

LEMMA StageHolds == LicenceInv /\ StageInv /\ [Next]_vars => StageInv'
<1> SUFFICES ASSUME LicenceInv, StageInv, [Next]_vars,
                    NEW g \in Handlers, handlers'[g] # None
             PROVE  /\ handlers'[g].step \in {"mail", "deliver"} => Stored'
                    /\ handlers'[g].step = "deliver" => mails' > 0
  BY DEF StageInv
<1>1. TypeOK  BY DEF LicenceInv
<1>2. /\ Stored => Stored'
      /\ mails > 0 => mails' > 0
  BY <1>1, EvidenceStays
<1>3. CASE handlers'[g] = handlers[g]  BY <1>2, <1>3 DEF StageInv
<1>4. ASSUME NEW v \in Version, NEW h \in Handlers, BeginRun(h, v), handlers'[g] # handlers[g]
      PROVE  handlers'[g].step = "offer"
  <2>1. handlers' = [handlers EXCEPT ![h] =
                       [offer |-> v, status |-> request.status,
                        fresh |-> offers[v].status # "PAID", step |-> "offer"]]
    BY <1>4 DEF BeginRun
  <2> QED  BY <1>1, <1>4, <2>1 DEF TypeOK
<1>5. ASSUME NEW h \in Handlers, Step(h) \/ Fail(h), handlers'[g] # handlers[g]
      PROVE  /\ handlers'[g].step \in {"mail", "deliver"} => Stored'
             /\ handlers'[g].step = "deliver" => mails' > 0
  <2>1. CASE MarkOffer(h) \/ MarkPaid(h)
    <3>1. /\ At(h, "offer") \/ At(h, "paid")
          /\ \/ handlers' = [handlers EXCEPT ![h] = To(h)]
             \/ handlers' = [handlers EXCEPT ![h] = None]
      BY <2>1 DEF MarkOffer, MarkPaid
    <3>2. g = h /\ handlers'[g] = To(h)  BY <1>1, <1>5, <3>1 DEF TypeOK
    <3>3. To(h).step \in {"paid", "issue"}  BY <1>1, <3>1, ToNext DEF After
    <3> QED  BY <3>2, <3>3
  <2>2. CASE IssueDocuments(h)
    <3>1. At(h, "issue") /\ handlers' = [handlers EXCEPT ![h] = To(h)]
      BY <2>2 DEF IssueDocuments
    <3>2. g = h /\ handlers'[g] = To(h)  BY <1>1, <1>5, <3>1 DEF TypeOK
    <3>3. To(h).step = "mail"  BY <1>1, <3>1, ToNext DEF After
    <3>4. PICK t \in Ensured : tokens' = [tokens EXCEPT ![t] = "live"]
      BY <2>2 DEF IssueDocuments
    <3>5. t \in Tokens  BY DEF Ensured
    <3>6. tokens'[t] = "live"  BY <1>1, <3>4, <3>5 DEF TypeOK
    <3>7. documents' = DocTypes  BY <2>2 DEF IssueDocuments
    <3>8. Stored'  BY <3>5, <3>6, <3>7 DEF Stored
    <3> QED  BY <3>2, <3>3, <3>8
  <2>3. CASE SendDelivery(h)
    <3>1. At(h, "mail") /\ handlers' = [handlers EXCEPT ![h] = To(h)] /\ mails' = mails + 1
      BY <2>3 DEF SendDelivery
    <3>2. mails' > 0
      <4>1. mails \in Nat  BY <1>1 DEF TypeOK
      <4>2. mails' = mails + 1  BY <3>1
      <4> QED  BY <4>1, <4>2
    <3>3. handlers[h] # None /\ handlers[h].step = "mail"  BY <3>1 DEF At
    <3>4. Stored  BY <3>3 DEF StageInv
    <3> QED  BY <1>2, <3>2, <3>4
  <2>4. CASE Deliver(h) \/ Fail(h)
    <3>1. handlers' = [handlers EXCEPT ![h] = None]  BY <2>4 DEF Deliver, Fail
    <3>2. handlers'[g] = None  BY <1>1, <1>5, <3>1 DEF TypeOK
    <3> QED  BY <3>2
  <2> QED  BY <1>5, <2>1, <2>2, <2>3, <2>4 DEF Step
<1>6. CASE Next
  <2>1. CASE Desk \/ Resubmit \/ \E v \in Version : Pay(v)
    <3>1. handlers' = handlers  BY <1>1, <2>1, DeskFrame DEF Resubmit, Pay, eventVars
    <3> QED  BY <1>3, <3>1
  <2>2. CASE \E v \in Version : \E h \in Handlers : BeginRun(h, v)  BY <1>3, <1>4, <2>2
  <2>3. CASE \E h \in Handlers : Step(h) \/ Fail(h)  BY <1>3, <1>5, <2>3
  <2> QED  BY <1>6, <2>1, <2>2, <2>3, NextSplit
<1>7. CASE UNCHANGED vars  BY <1>3, <1>7 DEF vars, eventVars
<1> QED  BY <1>6, <1>7

\* A run that ends a delivery has everything behind it.
LEMMA DeliverEvidence ==
  ASSUME LicenceInv, StageInv, NEW h \in Handlers, Deliver(h)
  PROVE  Delivered
<1>1. handlers[h] # None /\ handlers[h].step = "deliver"  BY DEF Deliver, At
<1>2. Stored /\ mails > 0  BY <1>1 DEF StageInv
<1>3. captured # {}  BY <1>1 DEF LicenceInv, RunInv
<1> QED  BY <1>2, <1>3 DEF Delivered

LEMMA TimedHolds == LicenceInv /\ StageInv /\ TimedDelivery /\ [Next]_vars => TimedDelivery'
<1> SUFFICES ASSUME LicenceInv, StageInv, TimedDelivery, [Next]_vars, request'.delivered
             PROVE  Delivered'
  BY DEF TimedDelivery
<1>1. TypeOK  BY DEF LicenceInv
<1>2. Delivered => Delivered'  BY <1>1, EvidenceStays DEF Delivered
<1>3. CASE request'.delivered = request.delivered  BY <1>2, <1>3 DEF TimedDelivery
<1>4. CASE Next
  <2>1. CASE Desk  BY <1>1, <1>3, <2>1, DeskKeeps
  <2>2. CASE Resubmit \/ \E v \in Version : Pay(v) \/ \E h \in Handlers : BeginRun(h, v)
    BY <1>3, <2>2 DEF Resubmit, Pay, BeginRun
  <2>3. ASSUME NEW h \in Handlers, Step(h) \/ Fail(h)
        PROVE  Delivered'
    <3>1. CASE Deliver(h)  BY <1>2, <3>1, DeliverEvidence
    <3>2. CASE MarkPaid(h)
      <4>1. request' = request \/ \E s \in Status : request' = [request EXCEPT !.status = s]
        BY <1>1, <3>2 DEF MarkPaid, TypeOK, Row, Status
      <4>2. request'.delivered = request.delivered  BY <1>1, <4>1 DEF TypeOK, Row
      <4> QED  BY <1>3, <4>2
    <3>3. CASE MarkOffer(h) \/ IssueDocuments(h) \/ SendDelivery(h) \/ Fail(h)
      BY <1>3, <3>3 DEF MarkOffer, IssueDocuments, SendDelivery, Fail
    <3> QED  BY <2>3, <3>1, <3>2, <3>3 DEF Step
  <2> QED  BY <1>4, <2>1, <2>2, <2>3, NextSplit
<1>5. CASE UNCHANGED vars  BY <1>3, <1>5 DEF vars
<1> QED  BY <1>4, <1>5

LEMMA StatedHolds ==
  ASSUME "DELIVERED" \notin FormStatuses
  PROVE  LicenceInv /\ StageInv /\ StatedDelivery /\ [Next]_vars => StatedDelivery'
<1> SUFFICES ASSUME LicenceInv, StageInv, StatedDelivery, [Next]_vars,
                    request'.status = "DELIVERED" \/ done' # {}
             PROVE  Delivered'
  BY DEF StatedDelivery
<1>1. TypeOK  BY DEF LicenceInv
<1>2. Delivered => Delivered'  BY <1>1, EvidenceStays DEF Delivered
<1>3. CASE /\ request'.status = "DELIVERED" => request.status = "DELIVERED"
           /\ done' # {} => done # {} \/ request.status = "DELIVERED"
  BY <1>2, <1>3 DEF StatedDelivery
<1>4. CASE Next
  <2>1. CASE Desk  BY <1>1, <1>3, <2>1, DeskKeeps, DeskFrame
  <2>2. CASE Resubmit \/ \E v \in Version : Pay(v)
    BY <1>3, <2>2 DEF Resubmit, Pay, eventVars
  <2>3. ASSUME NEW v \in Version, NEW h \in Handlers, BeginRun(h, v)
        PROVE  Delivered'
    BY <1>3, <2>3 DEF BeginRun, Skips
  <2>4. ASSUME NEW h \in Handlers, Step(h) \/ Fail(h)
        PROVE  Delivered'
    <3>1. CASE Deliver(h)  BY <1>2, <3>1, DeliverEvidence
    <3>2. CASE MarkPaid(h)
      <4>1. /\ \/ request' = request \/ request' = [request EXCEPT !.status = "PAID"]
               \/ request' = [request EXCEPT !.status = request.status]
            /\ done' = done
        BY <3>2 DEF MarkPaid
      <4>2. request'.status \in {request.status, "PAID"}  BY <1>1, <4>1 DEF TypeOK, Row
      <4> QED  BY <1>3, <4>1, <4>2
    <3>3. CASE MarkOffer(h) \/ IssueDocuments(h) \/ SendDelivery(h) \/ Fail(h)
      BY <1>3, <3>3 DEF MarkOffer, IssueDocuments, SendDelivery, Fail
    <3> QED  BY <2>4, <3>1, <3>2, <3>3 DEF Step
  <2> QED  BY <1>4, <2>1, <2>2, <2>3, <2>4, NextSplit
<1>5. CASE UNCHANGED vars  BY <1>3, <1>5 DEF vars, eventVars
<1> QED  BY <1>4, <1>5

\* A delivery time is stored only when a link was paid, the documents and a token
\* are stored and a mail left, whatever staff write in the change form.
THEOREM DeliveryTimeIsEarned == Spec => []TimedDelivery
<1>1. Init => StageInv /\ TimedDelivery  BY DEF Init, StageInv, TimedDelivery
<1> QED  BY <1>1, InitHolds, StepHolds, StageHolds, TimedHolds, PTL DEF Spec

\* While staff do not write DELIVERED into the change form by hand, the event of a
\* paid link is recorded as handled only after a delivery.
THEOREM HandledAreDelivered ==
  ASSUME "DELIVERED" \notin FormStatuses
  PROVE  Spec => []HandledIsDelivered
<1>1. Init => StageInv /\ TimedDelivery /\ StatedDelivery
  BY DEF Init, StageInv, TimedDelivery, StatedDelivery
<1>2. LicenceInv /\ StageInv /\ StatedDelivery /\ [Next]_vars => StatedDelivery'
  BY StatedHolds
<1>3. TimedDelivery /\ StatedDelivery => HandledIsDelivered
  BY DEF TimedDelivery, StatedDelivery, HandledIsDelivered, Delivered, Stored
<1> QED  BY <1>1, <1>2, <1>3, InitHolds, StepHolds, StageHolds, TimedHolds, PTL DEF Spec
=============================================================================
