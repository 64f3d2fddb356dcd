----------------------------- MODULE Execution -----------------------------
(***************************************************************************)
(* A cluster executing one agreed order of transactions: the workers of    *)
(* scheduler.cc with backend/transactional_storage_manager.cc and the      *)
(* versions kept by backend/storage.cc, on every node.                     *)
(*                                                                         *)
(* Each node locks the transactions it takes part in, in the agreed order  *)
(* (see Scheduler and LockManager; here a lock is granted when the         *)
(* conflicting predecessors are done).  A node that reads for a            *)
(* transaction sends the values to every node that writes for it; a node   *)
(* that writes executes it, whole, when it has every value.                *)
(***************************************************************************)
EXTENDS Integers, FiniteSets, Functions, FiniteSetsExt

CONSTANTS
  Node,
  Key,
  Bucket,
  Home,          \* LookupPartition: the node that stores each key
  Hash,          \* the lock table bucket of each key
  LastTxn,       \* transactions are 1..LastTxn, numbered in the agreed order
  Id,            \* txn_id of each transaction
  ReadSet,
  ReadWriteSet,
  InPlace,       \* transactions that write through GetMutable, not Put
  Capacity       \* transactions a node takes on at once

Txn == 1..LastTxn

ASSUME ExecutionAssumption ==
  /\ IsFiniteSet(Node) /\ IsFiniteSet(Key)
  /\ Home \in [Key -> Node] /\ Hash \in [Key -> Bucket]
  /\ LastTxn \in Nat /\ Capacity \in Nat \ {0}
  /\ Id \in Injection(Txn, Nat)
  /\ ReadSet \in [Txn -> SUBSET Key] /\ ReadWriteSet \in [Txn -> SUBSET Key]
  /\ \A t \in Txn : ReadSet[t] \cap ReadWriteSet[t] = {}
  /\ \A t \in Txn : ReadWriteSet[t] # {}
  /\ InPlace \subseteq Txn

VARIABLES
  storage,   \* the versions of each key, each with the buffer it points to
  buffer,    \* what is in the buffers of each key: the transaction that wrote it
  status,    \* of each transaction at each node: new, locked, active, done
  objects,   \* what each node knows of the values read by a transaction
  messages   \* READ_RESULT messages on their way

vars == <<storage, buffer, status, objects, messages>>

(* Sequencer::RunReader: who reads and who writes.                         *)
Keys(t) == ReadSet[t] \cup ReadWriteSet[t]
Readers(t) == {Home[k] : k \in Keys(t)}
Writers(t) == {Home[k] : k \in ReadWriteSet[t]}

LocalKeys(n, t) == {k \in Keys(t) : Home[k] = n}

(* The keys of s and t share a bucket at n that one of them writes.        *)
Conflict(n, s, t) ==
  \E k \in LocalKeys(n, s), l \in LocalKeys(n, t) :
    Hash[k] = Hash[l] /\ (k \in ReadWriteSet[s] \/ l \in ReadWriteSet[t])

InFlight(n) == {t \in Txn : status[n][t] \in {"locked", "active"}}

(* Variant of NewestBelow that takes the oldest version.                   *)
NewestBelow_Oldest(rows, id) ==
  CHOOSE row \in rows : \A other \in rows : row.version <= other.version

(* Storage::Get: the newest version older than the reader's id.            *)
NewestBelow(rows, id) ==
  LET older == {row \in rows : row.version < id} IN
  CHOOSE row \in older : \A other \in older : other.version <= row.version
Lookup(rows, bufs, id) == bufs[NewestBelow(rows, id).buf]

Loaded == {[version |-> -1, buf |-> 0]}
Blank == [v \in 0..LastTxn |-> 0]

Init ==
  /\ storage = [k \in Key |-> Loaded]
  /\ buffer = [k \in Key |-> Blank]
  /\ status = [n \in Node |-> [t \in Txn |-> "new"]]
  /\ objects = [n \in Node |-> [t \in Txn |-> <<>>]]
  /\ messages = {}

(* t is the first of n's transactions that is not locked yet.              *)
NextHere(n, t) == \A s \in Txn : s < t /\ n \in Readers(s) => status[n][s] # "new"

(* The main loop locks the next transaction of this node.                  *)
Lock(n, t) ==
  /\ status[n][t] = "new" /\ n \in Readers(t)
  /\ NextHere(n, t)
  /\ Cardinality(InFlight(n)) < Capacity
  /\ status' = [status EXCEPT ![n][t] = "locked"]
  /\ UNCHANGED <<storage, buffer, objects, messages>>

(* Variant of Granted in which readers hold up nobody.                     *)
Granted_WritesOnly(n, t) ==
  \A s \in Txn :
    s < t /\ (\E k \in ReadWriteSet[s] \cap ReadWriteSet[t] : Home[k] = n)
      => status[n][s] \notin {"locked", "active"}

Granted(n, t) ==
  \A s \in Txn : s < t /\ Conflict(n, s, t) => status[n][s] \notin {"locked", "active"}

(* ReadyToExecute counts objects.                                          *)
ReadyToExecute(t, objs) ==
  Cardinality(DOMAIN objs) = Cardinality(ReadSet[t]) + Cardinality(ReadWriteSet[t])

(* What t does to a key it writes, under its id: Put makes a new buffer,   *)
(* GetMutable puts the buffer it read a second time and changes it there.  *)
Target(rows, t) == IF t \in InPlace THEN NewestBelow(rows, Id[t]).buf ELSE t
RowsAfter(rows, t) == rows \cup {[version |-> Id[t], buf |-> Target(rows, t)]}
BufsAfter(rows, bufs, t) == [bufs EXCEPT ![Target(rows, t)] = t]

(* The application executes t: this node's part of its writes.             *)
Execute(n, t) ==
  LET written == {k \in ReadWriteSet[t] : Home[k] = n} IN
  /\ storage' = [k \in Key |->
       IF k \in written THEN RowsAfter(storage[k], t) ELSE storage[k]]
  /\ buffer' = [k \in Key |->
       IF k \in written THEN BufsAfter(storage[k], buffer[k], t) ELSE buffer[k]]

(* A worker continues with what it has: wait, execute, or leave the rest   *)
(* to the writers.  Locks go when the transaction is done.                 *)
Proceed(n, t, objs) ==
  /\ objects' = [objects EXCEPT ![n][t] = objs]
  /\ \/ /\ n \in Writers(t) /\ ReadyToExecute(t, objs)
        /\ Execute(n, t)
        /\ status' = [status EXCEPT ![n][t] = "done"]
     \/ /\ n \in Writers(t) /\ ~ ReadyToExecute(t, objs)
        /\ status' = [status EXCEPT ![n][t] = "active"]
        /\ UNCHANGED <<storage, buffer>>
     \/ /\ n \notin Writers(t)
        /\ status' = [status EXCEPT ![n][t] = "done"]
        /\ UNCHANGED <<storage, buffer>>

(* Variant of Recipients: nobody if the node writes, too.                  *)
Recipients_PureReader(n, t) == IF n \in Writers(t) THEN {} ELSE Writers(t)

Recipients(n, t) == Writers(t) \ {n}

LocalReads(n, t) == [k \in LocalKeys(n, t) |-> Lookup(storage[k], buffer[k], Id[t])]

(* TransactionalStorageManager's constructor: read here, tell the writers. *)
Start(n, t) ==
  /\ status[n][t] = "locked" /\ Granted(n, t)
  /\ messages' = messages \cup
       {[txn |-> t, from |-> n, to |-> m, values |-> LocalReads(n, t)] :
          m \in Recipients(n, t)}
  /\ Proceed(n, t, LocalReads(n, t))

(* HandleReadResult, for a message of any order of arrival.                *)
RemoteRead(m) ==
  /\ status[m.to][m.txn] = "active"
  /\ messages' = messages \ {m}
  /\ Proceed(m.to, m.txn,
       [k \in DOMAIN objects[m.to][m.txn] \cup DOMAIN m.values |->
          IF k \in DOMAIN m.values THEN m.values[k] ELSE objects[m.to][m.txn][k]])

Next ==
  \/ \E n \in Node, t \in Txn : Lock(n, t) \/ Start(n, t)
  \/ \E m \in messages : RemoteRead(m)

Spec == Init /\ [][Next]_vars

(* Main loops and workers run, and a message sent is handled in the end.   *)
Fairness ==
  /\ \A n \in Node :
       WF_vars(\E t \in Txn : Lock(n, t)) /\ WF_vars(\E t \in Txn : Start(n, t))
  /\ WF_vars(\E m \in messages : RemoteRead(m))

FairSpec == Spec /\ Fairness

-----------------------------------------------------------------------------
Value == 0..LastTxn

TypeOK ==
  /\ \A k \in Key : \A row \in storage[k] : row.version \in Int /\ row.buf \in Value
  /\ buffer \in [Key -> [Value -> Value]]
  /\ status \in [Node -> [Txn -> {"new", "locked", "active", "done"}]]
  /\ \A n \in Node, t \in Txn :
       /\ DOMAIN objects[n][t] \subseteq Keys(t)
       /\ \A k \in DOMAIN objects[n][t] : objects[n][t][k] \in Value
  /\ \A m \in messages :
       m.txn \in Txn /\ m.from \in Readers(m.txn) /\ m.to \in Writers(m.txn) \ {m.from}

(* The store after the transactions 1..t were executed one at a time.      *)
EmptyStore == [k \in Key |-> [rows |-> Loaded, bufs |-> Blank]]
StoreAfter(store, t) ==
  [k \in Key |->
     IF k \in ReadWriteSet[t]
     THEN [rows |-> RowsAfter(store[k].rows, t),
           bufs |-> BufsAfter(store[k].rows, store[k].bufs, t)]
     ELSE store[k]]
SerialStore[t \in 0..LastTxn] ==
  IF t = 0 THEN EmptyStore ELSE StoreAfter(SerialStore[t - 1], t)

SerialRead(k, t) ==
  LET before == SerialStore[t - 1][k] IN Lookup(before.rows, before.bufs, Id[t])

(* README: "a pre-determined serial ordering of transactions to which      *)
(* every node must guarantee equivalence".  Whatever the ids are, every    *)
(* value a transaction is executed with, on whichever node and sent from   *)
(* whichever node, is the one it reads when the agreed order is executed   *)
(* one transaction at a time; and a key that all its writers have written  *)
(* is left as that execution leaves it.                                    *)
SerialExecution ==
  /\ \A n \in Node, t \in Txn :
       /\ \A k \in DOMAIN objects[n][t] : objects[n][t][k] = SerialRead(k, t)
       /\ n \in Writers(t) /\ status[n][t] = "done" => DOMAIN objects[n][t] = Keys(t)
  /\ \A k \in Key :
       (\A t \in Txn : k \in ReadWriteSet[t] => status[Home[k]][t] = "done") =>
         /\ storage[k] = SerialStore[LastTxn][k].rows
         /\ buffer[k] = SerialStore[LastTxn][k].bufs

Before(k, t) == {s \in Txn : s < t /\ k \in ReadWriteSet[s]}
LastWriter(k, t) == Max({0} \cup Before(k, t))

(* The ids of t and of the writers of k before it increase.                *)
IdsOrdered(k, t) ==
  \A s, u \in Before(k, t) \cup {t} : s < u => Id[s] < Id[u]

(* Where the ids of a key's writers and its reader agree with the order, a *)
(* transaction reads what the last one before it wrote, put or in place.   *)
OrderedReads ==
  \A n \in Node, t \in Txn : \A k \in DOMAIN objects[n][t] :
    IdsOrdered(k, t) => objects[n][t][k] = LastWriter(k, t)

(* The same without the condition on ids: the serial execution of the      *)
(* agreed order as the README means it, in which a write is there for all  *)
(* that follow.                                                            *)
SerialReads ==
  \A n \in Node, t \in Txn :
    \A k \in DOMAIN objects[n][t] : objects[n][t][k] = LastWriter(k, t)

(* All of a transaction's nodes finish it: no set of nodes ever waits for  *)
(* each other's reads, however small the capacity.                         *)
AllDone == <>(\A t \in Txn : \A n \in Readers(t) : status[n][t] = "done")
=============================================================================
