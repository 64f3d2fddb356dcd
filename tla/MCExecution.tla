---------------------------- MODULE MCExecution ----------------------------
(***************************************************************************)
(* Instances of Execution for TLC: three nodes, four keys.                 *)
(***************************************************************************)
EXTENDS Execution, TLC

CONSTANTS
  x, y,      \* keys stored at a, where they collide
  z,         \* a key stored at b
  v,         \* a key stored at c
  a, b, c    \* nodes

MCHome == x :> a @@ y :> a @@ z :> b @@ v :> c
MCHash == x :> x @@ y :> x @@ z :> z @@ v :> v

(* 1 and 7 write at two nodes; 2, 3 and 6 each read at one node for a      *)
(* write at another, in a circle; 4 reads at a for writes at b and c; 5 is *)
(* local to a; 8 reads what 7 wrote at the other end.                      *)
MCReadSet == <<{}, {z}, {v}, {x}, {}, {y}, {}, {x}>>
MCReadWriteSet == <<{x, z}, {v}, {x}, {v, z}, {y}, {z}, {v, x}, {v}>>

(* Ids as the sequencers number them: 4 and 5 were collected in an earlier *)
(* epoch than 3.                                                           *)
SequencerId == <<10, 11, 30, 20, 21, 40, 50, 60>>
=============================================================================
