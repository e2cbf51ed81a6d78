-------------------------- MODULE MCDeliveryPortal ---------------------------
(***************************************************************************)
(* One recipient whose link is rotated once, one request or mail at a time *)
(* beside the actions of staff, one key and one admin form.                *)
(***************************************************************************)
EXTENDS DeliveryPortal, TLC

CONSTANTS p1, q1, k1

\* Bound: nothing is explored after the row of an open form has changed.  Saved,
\* the form puts the older row back, from where StoppedForGood and
\* ClosedStaysClosed promise nothing; not saved, it is as if never opened.
FormIsCurrent ==
  /\ ~restored
  /\ edit # None =>
       edit.row = IF edit.recipient = None THEN delivery ELSE recipients[edit.recipient]

=============================================================================
