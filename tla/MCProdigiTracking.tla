------------------------- MODULE MCProdigiTracking --------------------------
(***************************************************************************)
(* Two overlapping requests and four Prodigi states: in progress, a first  *)
(* parcel shipped (a final stage to the fallback), the same shipment after *)
(* an unrelated change, and the second parcel shipped.                     *)
(***************************************************************************)
EXTENDS ProdigiTracking, TLC

CONSTANTS r1, r2, parcel, both

TwoParcels == 0 :> Silent @@ 1 :> parcel @@ 2 :> parcel @@ 3 :> both
=============================================================================
