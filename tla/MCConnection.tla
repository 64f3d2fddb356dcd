---------------------------- MODULE MCConnection ----------------------------
(***************************************************************************)
(* An instance of Connection for TLC: a sequencer and another node send    *)
(* batches to the scheduler, and the other node sends the two reads of a   *)
(* transaction, while the three connections are being made, asked for at   *)
(* most twice each.                                                        *)
(***************************************************************************)
EXTENDS Connection

MCWorker == [channel \in Linkable |-> "worker"]
MCMail == [s \in Sender |-> CASE s = "node" -> <<"txn", "scheduler_", "txn">>
                              [] s = "sequencer" -> <<"scheduler_">>
                              [] OTHER -> <<>>]
=============================================================================
