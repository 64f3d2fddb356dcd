---------------------------- MODULE MCSequencer ----------------------------
(***************************************************************************)
(* Instances of Sequencer for TLC.                                         *)
(***************************************************************************)
EXTENDS Sequencer

OneNodePlacements == {{0}}

(* Transactions of both nodes and of node 0 alone.                         *)
TwoNodePlacements == {{0, 1}, {0}}

(* Epochs of each writer.                                                  *)
OneNodeEpochs == [n \in {0} |-> 3]
TwoNodeEpochs == [n \in {0, 1} |-> 2 - n]
=============================================================================
