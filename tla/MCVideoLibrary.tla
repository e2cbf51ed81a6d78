--------------------------- MODULE MCVideoLibrary ---------------------------
(***************************************************************************)
(* Instances of VideoLibrary for TLC.                                      *)
(***************************************************************************)
EXTENDS VideoLibrary, TLC

CONSTANTS m1, m2, p1, mail, page, t1, t2

Alike == Permutations(Masters) \cup Permutations(Tokens)
=============================================================================
