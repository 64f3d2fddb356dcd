------------------------------ MODULE MCPaxos ------------------------------
(***************************************************************************)
(* Instances of Paxos for TLC: two objects that both submit and read, each *)
(* constructed at any time, also after the other has gone.                 *)
(***************************************************************************)
EXTENDS Paxos
=============================================================================
