------------------------- MODULE MCDepositCheckout --------------------------
(***************************************************************************)
(* Two staff requests for one enquiry, the first deposit invoice and the   *)
(* one that follows a void, and three Checkout Sessions.                   *)
(***************************************************************************)
EXTENDS DepositCheckout, TLC

CONSTANTS r1, r2, d1, d2, s1, s2, s3

Same == Permutations(Requests) \union Permutations(Invoices)
          \union Permutations(Sessions)
=============================================================================
