---------------------------- MODULE MCEvaluation ----------------------------
(***************************************************************************)
(* Evaluation with two conditions and two versions of every file, one of  *)
(* them with a literal key, an edit at any moment, and two bundles, so     *)
(* that one is a rerun of the other.                                       *)
(***************************************************************************)
EXTENDS Evaluation, TLC

Symmetry == Permutations(Bundles)
=============================================================================
