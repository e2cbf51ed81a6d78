------------------------- MODULE MCOrderFulfilment --------------------------
(***************************************************************************)
(* Instances of OrderFulfilment for TLC.  A tick is 300 s: the lease lasts *)
(* one tick and a PROCESSING event is stale after two, the defaults of the *)
(* settings.                                                               *)
(***************************************************************************)
EXTENDS OrderFulfilment, TLC

CONSTANTS w1, w2, e1, e2, p1, p2, welcome

TwoPayments == e1 :> p1 @@ e2 :> p2
OnePayment  == e1 :> p1
SharedSlot  == p1 :> welcome @@ p2 :> welcome
NoSlot      == p1 :> NoDiscount

Restarts == Permutations(Workers)
=============================================================================
