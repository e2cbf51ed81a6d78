-------------------------- MODULE MCDeliveryFiles --------------------------
(***************************************************************************)
(* Instances of DeliveryFiles for TLC: two uploads into a delivery that    *)
(* has one file and room for one more.                                     *)
(***************************************************************************)
EXTENDS DeliveryFiles, TLC

CONSTANTS u1, u2, f0

TwoFiles == Permutations(Uploads)
=============================================================================
