------------------------- MODULE MCCheckpointFiles -------------------------
(***************************************************************************)
(* The instance of CheckpointFiles for TLC: two keys, so that a file can   *)
(* lack either; enough captures for a collapse of a collapsed file.        *)
(***************************************************************************)
EXTENDS CheckpointFiles, TLC

Symmetry == Permutations(Keys)
=============================================================================
