--------------------------- MODULE MCMinorUpgrade ---------------------------
(***************************************************************************)
(* MinorUpgrade for TLC.  Three members are the smallest cluster with two  *)
(* replica batches, so that a lead that moves between them can leave one   *)
(* out; one unplanned loss of the leader is enough for that.               *)
(***************************************************************************)
EXTENDS MinorUpgrade
=============================================================================
