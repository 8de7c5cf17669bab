---------------------------- MODULE MCConfigure ----------------------------
(***************************************************************************)
(* Configure for TLC.  Two overlapping runs of any kind, and one machine   *)
(* secret, are enough for every lost update; the responses are one that    *)
(* needs no conditional secret and one that needs one.                     *)
(***************************************************************************)
EXTENDS Configure, TLC

SomeResponses == {[mode |-> "self_hosted", auth |-> {}],
                  [mode |-> "external_push", auth |-> {"username"}]}

RunSymmetry == Permutations(Run)
=============================================================================
