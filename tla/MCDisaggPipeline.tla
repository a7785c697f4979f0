-------------------------- MODULE MCDisaggPipeline --------------------------
(***************************************************************************)
(* Model values for TLC.  No definition tells requests apart, so any       *)
(* permutation of them is a symmetry of the safety runs.                   *)
(***************************************************************************)
EXTENDS DisaggRefinement, TLC

Symmetry == Permutations(Requests)
=============================================================================
