---------------------------- MODULE LockManager ----------------------------
(***************************************************************************)
(* scheduler/lock_manager.{h,cc}: deterministic two-phase locking.         *)
(*                                                                         *)
(* Every key hashes to a bucket, and every bucket has one queue of lock    *)
(* requests, so keys that collide share a lock.  Lock() files all the      *)
(* requests of a transaction, Release() withdraws them all; both run in    *)
(* the scheduler's thread, one at a time.  The caller's half of the        *)
(* contract (lock once, execute what became ready, release afterwards) is  *)
(* the variable phase.  The keys of write_set are not locked at all: that  *)
(* part of Lock() and Release() is commented out.                          *)
(***************************************************************************)
EXTENDS Integers, Sequences, FiniteSets, SequencesExt

CONSTANTS
  Txn,          \* transactions (TxnProto objects)
  Key,          \* record keys
  Bucket,       \* slots of lock_table_ (TABLE_SIZE of them)
  Hash,         \* the bucket of each key
  LocalKeys,    \* keys stored at this node (IsLocal)
  ReadSet,      \* read_set of each transaction
  ReadWriteSet  \* read_write_set of each transaction

ASSUME LockManagerAssumption ==
  /\ IsFiniteSet(Txn) /\ IsFiniteSet(Bucket)
  /\ Hash \in [Key -> Bucket]
  /\ LocalKeys \subseteq Key
  /\ ReadSet \in [Txn -> SUBSET Key]
  /\ ReadWriteSet \in [Txn -> SUBSET Key]

VARIABLES
  lock_table,   \* the queue of requests of each bucket
  txn_waits,    \* requests a transaction still waits for; 0: no entry
  ready_txns,   \* transactions that hold every lock, not yet picked up
  phase         \* the caller's view: new, locked, executing, done

lockVars == <<lock_table, txn_waits, ready_txns, phase>>

Mode == {"READ", "WRITE"}
LockRequest == [txn : Txn, mode : Mode]

(* Requests are filed for read_write_set first, and a bucket in which the  *)
(* transaction already has a request gets no second one: a key read and a  *)
(* key written in one bucket make a single WRITE request.                  *)
WriteBuckets(t) == {Hash[k] : k \in ReadWriteSet[t] \cap LocalKeys}
ReadBuckets(t)  == {Hash[k] : k \in ReadSet[t] \cap LocalKeys} \ WriteBuckets(t)

IsWrite(q, i) == q[i].mode = "WRITE"

(* Variant of NotAcquired that only looks at the last request.             *)
NotAcquired_LastOnly(t) ==
  {b \in WriteBuckets(t) : lock_table[b] # <<>>} \cup
  {b \in ReadBuckets(t) : lock_table[b] # <<>> /\ IsWrite(lock_table[b], Len(lock_table[b]))}

(* The buckets whose lock t does not get at once: a WRITE request fails if *)
(* there is any request before it, a READ request if there is a WRITE.     *)
NotAcquired(t) ==
  {b \in WriteBuckets(t) : lock_table[b] # <<>>} \cup
  {b \in ReadBuckets(t) : \E i \in 1..Len(lock_table[b]) : IsWrite(lock_table[b], i)}

(* Variant of PushRequests that handles read_set first.                    *)
PushRequests_ReadsFirst(t) ==
  [b \in Bucket |->
     IF b \in {Hash[k] : k \in ReadSet[t] \cap LocalKeys}
     THEN Append(lock_table[b], [txn |-> t, mode |-> "READ"])
     ELSE IF b \in WriteBuckets(t) THEN Append(lock_table[b], [txn |-> t, mode |-> "WRITE"])
     ELSE lock_table[b]]

PushRequests(t) ==
  [b \in Bucket |->
     IF b \in WriteBuckets(t) THEN Append(lock_table[b], [txn |-> t, mode |-> "WRITE"])
     ELSE IF b \in ReadBuckets(t) THEN Append(lock_table[b], [txn |-> t, mode |-> "READ"])
     ELSE lock_table[b]]

(* Variant of ReadRun that stops after one request.                        *)
ReadRun_One(q, n) == {n}

(* The maximal run of READ requests that starts at position n.             *)
ReadRun(q, n) == {j \in n..Len(q) : \A i \in n..j : ~ IsWrite(q, i)}

WritePrecedes(q, i) == \E j \in 1..(i - 1) : IsWrite(q, j)

(* Variants of NewOwners: without the comparison of the first two modes,   *)
(* and without case (c), a cancelled WRITE among READs.                    *)
NewOwners_AnyModes(q, i) ==
  LET n == i + 1 IN
  IF i = Len(q) THEN {}
  ELSE IF i = 1 THEN IF IsWrite(q, n) THEN {n} ELSE ReadRun(q, n)
  ELSE IF ~ WritePrecedes(q, i) /\ IsWrite(q, i) /\ ~ IsWrite(q, n)
       THEN ReadRun(q, n)
  ELSE {}

NewOwners_NoCancel(q, i) ==
  LET n == i + 1 IN
  IF i = Len(q) THEN {}
  ELSE IF i = 1 /\ (IsWrite(q, 1) \/ IsWrite(q, n))
       THEN IF IsWrite(q, n) THEN {n} ELSE ReadRun(q, n)
  ELSE {}

(* Positions granted when the request at position i goes: cases (a), (b)   *)
(* and (c) of Release(key, txn).                                           *)
NewOwners(q, i) ==
  LET n == i + 1 IN
  IF i = Len(q) THEN {}
  ELSE IF i = 1 /\ (IsWrite(q, 1) \/ IsWrite(q, n))
       THEN IF IsWrite(q, n) THEN {n} ELSE ReadRun(q, n)
  ELSE IF ~ WritePrecedes(q, i) /\ IsWrite(q, i) /\ ~ IsWrite(q, n)
       THEN ReadRun(q, n)
  ELSE {}

(* Where t's requests are in bucket b, and the first of them.              *)
Positions(b, t) == {i \in 1..Len(lock_table[b]) : lock_table[b][i].txn = t}
Position(b, t) == CHOOSE i \in Positions(b, t) : \A j \in Positions(b, t) : i <= j

(* The buckets in which the release of t grants u its request.             *)
GrantedTo(u, t) ==
  {b \in Bucket :
     /\ Positions(b, t) # {}
     /\ \E j \in Positions(b, u) : j \in NewOwners(lock_table[b], Position(b, t))}

(* Variant of Woken that takes any grant for the last one.                 *)
Woken_AnyGrant(t) == {u \in Txn : txn_waits[u] > 0 /\ GrantedTo(u, t) # {}}

(* Transactions whose last missing lock the release of t grants.           *)
Woken(t) == {u \in Txn : txn_waits[u] \in 1..Cardinality(GrantedTo(u, t))}

-----------------------------------------------------------------------------
LockInit ==
  /\ lock_table = [b \in Bucket |-> <<>>]
  /\ txn_waits = [t \in Txn |-> 0]
  /\ ready_txns = <<>>
  /\ phase = [t \in Txn |-> "new"]

(* int Lock(TxnProto* txn)                                                 *)
Lock(t) ==
  /\ phase[t] = "new"
  /\ phase' = [phase EXCEPT ![t] = "locked"]
  /\ lock_table' = PushRequests(t)
  /\ \/ /\ NotAcquired(t) # {}
        /\ txn_waits' = [txn_waits EXCEPT ![t] = Cardinality(NotAcquired(t))]
        /\ UNCHANGED ready_txns
     \/ /\ NotAcquired(t) = {}
        /\ ready_txns' = Append(ready_txns, t)
        /\ UNCHANGED txn_waits

(* The scheduler pops the front of ready_txns_ and sends it to a worker.   *)
PopReady ==
  /\ ready_txns # <<>>
  /\ phase' = [phase EXCEPT ![Head(ready_txns)] = "executing"]
  /\ ready_txns' = Tail(ready_txns)
  /\ UNCHANGED <<lock_table, txn_waits>>

(* void Release(TxnProto* txn): Release(key, txn) for each local key.  The *)
(* order in which one call wakes several transactions follows the order of *)
(* the keys in the TxnProto, which is left open.                           *)
ReleaseLocks(t) ==
  /\ phase' = [phase EXCEPT ![t] = "done"]
  /\ lock_table' =
       [b \in Bucket |->
          IF Positions(b, t) = {} THEN lock_table[b]
          ELSE RemoveAt(lock_table[b], Position(b, t))]
  /\ txn_waits' = [u \in Txn |-> txn_waits[u] - Cardinality(GrantedTo(u, t))]
  /\ \E order \in SetToSeqs(Woken(t)) : ready_txns' = ready_txns \o order

(* The transaction has executed.                                           *)
Release(t) ==
  /\ phase[t] = "executing"
  /\ ReleaseLocks(t)

(* Release() before every lock was granted: the requests are cancelled and *)
(* the entry of txn_waits_ is left behind.                                 *)
Cancel(t) ==
  /\ phase[t] = "locked"
  /\ t \notin Range(ready_txns)
  /\ ReleaseLocks(t)

LockNext ==
  \/ PopReady
  \/ \E t \in Txn : Lock(t) \/ Release(t) \/ Cancel(t)

LockSpec == LockInit /\ [][LockNext]_lockVars

(* The scheduler's loop keeps draining ready_txns_, and every transaction  *)
(* handed to a worker comes back to be released.                           *)
LockFairness ==
  /\ WF_lockVars(PopReady)
  /\ \A t \in Txn : WF_lockVars(Release(t))

FairLockSpec == LockSpec /\ LockFairness

-----------------------------------------------------------------------------
LockTypeOK ==
  /\ lock_table \in [Bucket -> Seq(LockRequest)]
  /\ txn_waits \in [Txn -> Nat]
  /\ ready_txns \in Seq(Txn)
  /\ phase \in [Txn -> {"new", "locked", "executing", "done"}]

(* A request is held back by the header's rule (lock_manager.h:81-87): a   *)
(* WRITE unless it is first, a READ when some WRITE is before it.          *)
HeldBack(q, j) == IF IsWrite(q, j) THEN j > 1 ELSE WritePrecedes(q, j)

WaitingBuckets(t) ==
  {b \in Bucket : \E j \in Positions(b, t) : HeldBack(lock_table[b], j)}

Ready(t) == t \in Range(ready_txns)

(* The counter in txn_waits_ never drifts from the queues: a transaction   *)
(* that was locked and is not ready waits for exactly as many requests as  *)
(* are held back, at least one, and one that is ready or executing has     *)
(* none.  A lost wake-up (a transaction nobody will ever make ready) and   *)
(* an early one both break it.                                             *)
WaitsExact ==
  \A t \in Txn :
    /\ phase[t] = "locked" /\ ~ Ready(t) =>
         txn_waits[t] = Cardinality(WaitingBuckets(t)) /\ txn_waits[t] > 0
    /\ Ready(t) \/ phase[t] = "executing" => WaitingBuckets(t) = {}

(* ready_txns_ lists a transaction once, and never one that is not waiting *)
(* to be picked up, whatever mix of grants and cancellations made it       *)
(* ready: the scheduler would execute it twice.                            *)
ReadyOnce ==
  /\ \A i \in 1..Len(ready_txns) : phase[ready_txns[i]] = "locked"
  /\ \A i, j \in 1..Len(ready_txns) : ready_txns[i] = ready_txns[j] => i = j

Buckets(t) == WriteBuckets(t) \cup ReadBuckets(t)

(* Transactions that share a bucket at least one of them writes.           *)
Conflicting(s, t) ==
  /\ s # t
  /\ \E b \in Buckets(s) \cap Buckets(t) : b \in WriteBuckets(s) \cup WriteBuckets(t)

(* Two transactions that hold all their locks never conflict, hash         *)
(* collisions and cancelled requests included.                             *)
MutualExclusion ==
  \A s, t \in Txn :
    (Ready(s) \/ phase[s] = "executing") /\ (Ready(t) \/ phase[t] = "executing")
      => ~ Conflicting(s, t)

(* Refinement: what each transaction is waiting for is read off the        *)
(* queues, and the lock manager starts transactions exactly when the       *)
(* abstract one does: after their conflicting predecessors, in the order   *)
(* of the calls to Lock(), and without delay.                              *)
Status(t) ==
  CASE phase[t] = "locked" -> IF Ready(t) THEN "ready" ELSE "waiting"
    [] phase[t] = "executing" -> "running"
    [] OTHER -> phase[t]

Precedes(b, s, t) ==
  \E i \in Positions(b, s), j \in Positions(b, t) :
    /\ i < j
    /\ IsWrite(lock_table[b], i) \/ IsWrite(lock_table[b], j)

Blockers(t) == {s \in Txn : \E b \in Bucket : Precedes(b, s, t)}

Deterministic == INSTANCE DeterministicLocking WITH
  status <- [t \in Txn |-> Status(t)],
  blockers <- [t \in Txn |-> Blockers(t)],
  Conflict <- {p \in Txn \X Txn : Conflicting(p[1], p[2])}

DeterministicSpec == Deterministic!Spec

(* The queues hold exactly the requests of the transactions between Lock() *)
(* and Release(): one request per bucket and transaction, in the mode the  *)
(* header asks for, nothing left behind and nothing lost.                  *)
QueueShape ==
  \A b \in Bucket : LET q == lock_table[b] IN
    /\ \A i \in 1..Len(q) :
         /\ phase[q[i].txn] \in {"locked", "executing"}
         /\ b \in Buckets(q[i].txn)
         /\ IsWrite(q, i) <=> b \in WriteBuckets(q[i].txn)
    /\ \A i, j \in 1..Len(q) : q[i].txn = q[j].txn => i = j
    /\ \A t \in Txn :
         phase[t] \in {"locked", "executing"} /\ b \in Buckets(t) => Positions(b, t) # {}

(* No transaction that called Lock() waits forever: later transactions,    *)
(* readers included, never overtake it.                                    *)
NoStarvation ==
  \A t \in Txn : phase[t] = "locked" ~> phase[t] \in {"executing", "done"}
=============================================================================
