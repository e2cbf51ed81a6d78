------------------------- MODULE MCLicenceDelivery --------------------------
(***************************************************************************)
(* Two versions of an offer and two terms, so that an old link may be paid *)
(* after the terms changed; one webhook run at a time, one of which may    *)
(* fail at any statement.                                                  *)
(***************************************************************************)
EXTENDS LicenceDelivery, TLC

CONSTANTS t1, t2, h1

=============================================================================
