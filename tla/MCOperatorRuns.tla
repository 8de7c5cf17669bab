--------------------------- MODULE MCOperatorRuns ---------------------------
(***************************************************************************)
(* OperatorRuns for TLC.  Two overlapping runs of every pair of playbooks, *)
(* on up to three members.  The runs are interchangeable, so that their    *)
(* permutations are a symmetry of every safety property.                   *)
(***************************************************************************)
EXTENDS OperatorRuns, TLC

RunSymmetry == Permutations(Run)
=============================================================================
