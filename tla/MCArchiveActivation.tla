------------------------ MODULE MCArchiveActivation ------------------------
(***************************************************************************)
(* ArchiveActivation for TLC.  Three hosts are the database hosts of the   *)
(* smallest cluster that is highly available.                              *)
(***************************************************************************)
EXTENDS ArchiveActivation
=============================================================================
