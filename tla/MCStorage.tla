----------------------------- MODULE MCStorage -----------------------------
(***************************************************************************)
(* An instance of Storage for TLC: three keys with initial data or         *)
(* without, the second of which gets enough versions for every kind of     *)
(* pruning, the third of which is never written again.                     *)
(***************************************************************************)
EXTENDS Storage

MCVersionsOf == <<{2}, {1, 2}, {}>>
=============================================================================
