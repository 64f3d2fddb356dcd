---------------------------- MODULE MCScheduler ----------------------------
(***************************************************************************)
(* Instances of Scheduler for TLC: a node that gets batches from three     *)
(* sequencers.                                                             *)
(***************************************************************************)
EXTENDS Scheduler, TLC

CONSTANTS
  x, y,   \* local keys, one bucket each
  far,    \* a key stored at another node
  other   \* another node

MCKey == {x, y, far}
MCHash == x :> x @@ y :> y @@ far :> y

(* Batch 1 has nothing for this node; three sequencers take turns.         *)
(* Transactions 1 and 6 write here after a remote read, 3 reads here for a *)
(* writer elsewhere, 4 and 5 write both keys in two different batches.     *)
SevenTxn == 1..7
SevenBatch == <<<<1, 2, 3>>, <<>>, <<4>>, <<5, 6>>, <<7>>>>
SevenReadSet == <<{far}, {x}, {x}, {}, {}, {far, x}, {y}>>
SevenReadWriteSet == <<{x}, {y}, {far}, {x, y}, {x, y}, {y}, {x}>>
SevenRemoteReaders == <<{other}, {}, {other}, {}, {}, {other}, {}>>

(* Transaction 2 only reads.                                               *)
ReadOnlyReadWriteSet == [SevenReadWriteSet EXCEPT ![2] = {}]
=============================================================================
