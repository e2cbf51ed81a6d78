-------------------------- MODULE MCInvoiceLedger ---------------------------
(***************************************************************************)
(* Two invoices (the second after a void), each of two units, with one     *)
(* balance Session, one receipt, two revisions and one staff request.      *)
(***************************************************************************)
EXTENDS InvoiceLedger, TLC

CONSTANTS s1, c1, r1
=============================================================================
