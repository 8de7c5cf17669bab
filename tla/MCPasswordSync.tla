--------------------------- MODULE MCPasswordSync ---------------------------
(***************************************************************************)
(* PasswordSync for TLC.                                                   *)
(***************************************************************************)
EXTENDS PasswordSync, TLC

TwoRoles == <<"replication", "rewind">>
=============================================================================
