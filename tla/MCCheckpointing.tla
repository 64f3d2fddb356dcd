-------------------------- MODULE MCCheckpointing --------------------------
EXTENDS Checkpointing
MCWrites == <<{1, 2}, {2}, {1}, {1, 2}, {1}, {2}, {1}, {1}>>

(* The first one may still run when those after it are done.               *)
LateWrites == <<{2}, {1}, {1}, {1}>>

(* Key 1 is written once between two checkpoints.                          *)
FilterWrites == <<{1}, {2}, {1}, {2}, {2}>>
=============================================================================
