---------------------------- MODULE TotalOrder ----------------------------
(***************************************************************************)
(* What calvin's sequencers promise together: one log of batches that only *)
(* grows, from which every node takes, batch after batch, the transactions *)
(* it takes part in ("a pre-determined serial ordering of transactions to  *)
(* which every node must guarantee equivalence", README).                  *)
(***************************************************************************)
EXTENDS Naturals, Sequences, SequencesExt

CONSTANTS
  Node,
  Share(_, _)   \* what a batch has for a node, in order

VARIABLES
  log,       \* the batches ordered so far
  taken,     \* how many of them each node has taken
  schedule   \* the transactions each node has been given, in order

vars == <<log, taken, schedule>>

Init ==
  /\ log = <<>>
  /\ taken = [m \in Node |-> 0]
  /\ schedule = [m \in Node |-> <<>>]

(* Batches join the log behind what is there.                              *)
Order ==
  /\ log' # log /\ IsPrefix(log, log')
  /\ UNCHANGED <<taken, schedule>>

Take(m) ==
  /\ taken[m] < Len(log)
  /\ taken' = [taken EXCEPT ![m] = @ + 1]
  /\ schedule' = [schedule EXCEPT ![m] = @ \o Share(log[taken[m] + 1], m)]
  /\ UNCHANGED log

Next == Order \/ \E m \in Node : Take(m)

Spec == Init /\ [][Next]_vars
=============================================================================
