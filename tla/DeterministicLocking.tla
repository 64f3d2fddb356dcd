------------------------ MODULE DeterministicLocking ------------------------
(***************************************************************************)
(* What calvin's lock manager promises, with no queues and no counters:    *)
(* transactions are submitted one at a time, and a transaction runs as     *)
(* soon as every conflicting transaction submitted before it has finished, *)
(* and not before ("each lock is granted to transactions in the order in   *)
(* which they requested them", scheduler.cc:12-13).                        *)
(***************************************************************************)
EXTENDS Naturals

CONSTANTS
  Txn,        \* every transaction that may be submitted
  Conflict    \* pairs of transactions that may not run together

(* Conflict is a symmetric relation between different transactions.        *)
ConflictAssumption ==
  /\ Conflict \subseteq Txn \X Txn
  /\ \A s, t \in Txn : <<s, t>> \in Conflict => <<t, s>> \in Conflict
  /\ \A t \in Txn : <<t, t>> \notin Conflict

VARIABLES
  status,     \* where each transaction is in its life
  blockers    \* the unfinished conflicting predecessors of each transaction

vars == <<status, blockers>>

Outstanding == {t \in Txn : status[t] \in {"waiting", "ready", "running"}}

Init ==
  /\ status = [t \in Txn |-> "new"]
  /\ blockers = [t \in Txn |-> {}]

(* t joins the order behind everything outstanding.                        *)
Submit(t) ==
  LET before == {s \in Outstanding : <<s, t>> \in Conflict} IN
  /\ status[t] = "new"
  /\ status' = [status EXCEPT ![t] = IF before = {} THEN "ready" ELSE "waiting"]
  /\ blockers' = [blockers EXCEPT ![t] = before]

Start(t) ==
  /\ status[t] = "ready"
  /\ status' = [status EXCEPT ![t] = "running"]
  /\ UNCHANGED blockers

(* t completes, or gives up while it waits; whoever waited only for t is   *)
(* ready in the same step.                                                 *)
Finish(t) ==
  /\ status[t] \in {"running", "waiting"}
  /\ blockers' = [u \in Txn |-> IF u = t THEN {} ELSE blockers[u] \ {t}]
  /\ status' = [u \in Txn |->
       IF u = t THEN "done"
       ELSE IF status[u] = "waiting" /\ blockers[u] \ {t} = {} THEN "ready"
       ELSE status[u]]

Next == \E t \in Txn : Submit(t) \/ Start(t) \/ Finish(t)

Spec == Init /\ [][Next]_vars

-----------------------------------------------------------------------------
TypeOK ==
  /\ status \in [Txn -> {"new", "waiting", "ready", "running", "done"}]
  /\ blockers \in [Txn -> SUBSET Txn]

(* Of two outstanding conflicting transactions one waits for the other,    *)
(* and only outstanding transactions are waited for.                       *)
Ordered ==
  /\ \A s, t \in Outstanding :
       <<s, t>> \in Conflict => s \in blockers[t] \/ t \in blockers[s]
  /\ \A t \in Txn : blockers[t] \subseteq Outstanding
  /\ \A t \in Txn : status[t] \in {"ready", "running"} => blockers[t] = {}

(* No two transactions that may run now conflict.                          *)
Isolation ==
  \A s, t \in Txn :
    /\ status[s] \in {"ready", "running"}
    /\ status[t] \in {"ready", "running"}
    => <<s, t>> \notin Conflict
=============================================================================
