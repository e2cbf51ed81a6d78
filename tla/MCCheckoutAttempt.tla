------------------------- MODULE MCCheckoutAttempt --------------------------
(***************************************************************************)
(* Two overlapping requests for one checkout key, two attempts (the second *)
(* after a purge) and three PaymentIntents.  The carts and catalogues give *)
(* refused requests, merged lines, free and paid shipping, a discount that *)
(* is rounded, and two different quotes of one amount.                     *)
(***************************************************************************)
EXTENDS CheckoutAttempt, TLC

CONSTANTS r1, r2, k1, a1, a2, i1, i2, i3

Same == Permutations(Requests) \union Permutations(Row) \union Permutations(Intent)

\* Lines quantities of the print, of the download, and whether a code is given.
CartOf(first, second, download, withCode) ==
  [print |-> first, again |-> second, photo |-> download, code |-> withCode]

MCCarts == {CartOf(1, 1, None, TRUE), CartOf(1, None, 1, FALSE),
            CartOf(2, 2, None, FALSE), CartOf(None, None, 1, TRUE)}

\* Before and after a price change that also ends the discount.
MCCatalogues ==
  {[print |-> 15, photo |-> 9, shipping |-> 4, freeFrom |-> 30, percent |-> 5],
   [print |-> 12, photo |-> 16, shipping |-> None, freeFrom |-> 24, percent |-> None],
   [print |-> 16, photo |-> None, shipping |-> 2, freeFrom |-> None, percent |-> 20]}
=============================================================================
