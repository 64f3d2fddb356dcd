-------------------------- MODULE SchedulerProofs --------------------------
(***************************************************************************)
(* Theorems about LockManager, for every set of transactions, keys and     *)
(* buckets; about the abstract specification it implements; and, resting   *)
(* on them, theorems about Scheduler, for all transactions, batches,       *)
(* sequencers and limits.                                                  *)
(***************************************************************************)
EXTENDS Scheduler, BasicLemmas, FiniteSetTheorems, SequenceTheorems, TLAPS

-----------------------------------------------------------------------------
(***************************************************************************)
(* Queues.                                                                 *)
(***************************************************************************)

(* The positions granted by Release are exactly those that were held back  *)
(* and no longer are once the request is gone: cases (a), (b) and (c) of   *)
(* the code miss nobody and grant nobody too early, for every queue.       *)
LEMMA GrantsExact ==
  ASSUME NEW q \in Seq(LockRequest), NEW i \in 1..Len(q), NEW j \in 1..Len(q), j # i
  PROVE  LET moved == IF j < i THEN j ELSE j - 1 IN
         /\ j \in NewOwners(q, i) => HeldBack(q, j)
         /\ HeldBack(RemoveAt(q, i), moved) <=> HeldBack(q, j) /\ j \notin NewOwners(q, i)
<1> DEFINE r == RemoveAt(q, i)
           moved == IF j < i THEN j ELSE j - 1
<1> SUFFICES /\ j \in NewOwners(q, i) => HeldBack(q, j)
             /\ HeldBack(r, moved) <=> HeldBack(q, j) /\ j \notin NewOwners(q, i)
  OBVIOUS
<1>1. /\ Len(q) \in Nat
      /\ r \in Seq(LockRequest)
      /\ Len(r) = Len(q) - 1
      /\ \A k \in 1..(Len(q) - 1) : r[k] = IF k < i THEN q[k] ELSE q[k + 1]
  BY RemoveAtProperties, LenProperties
<1> HIDE DEF r
<1>2. \A k \in 1..(Len(q) - 1) : IsWrite(r, k) <=> IF k < i THEN IsWrite(q, k) ELSE IsWrite(q, k + 1)
  BY <1>1 DEF IsWrite
<1>3. moved \in 1..Len(r) /\ (IsWrite(r, moved) <=> IsWrite(q, j))
  BY <1>1, <1>2
<1>4. WritePrecedes(r, moved) <=> \E k \in 1..(j - 1) : k # i /\ IsWrite(q, k)
  <2>1. ASSUME NEW k \in 1..(moved - 1), IsWrite(r, k)
        PROVE  \E m \in 1..(j - 1) : m # i /\ IsWrite(q, m)
    BY <1>1, <1>2, <2>1
  <2>2. ASSUME NEW k \in 1..(j - 1), k # i, IsWrite(q, k)
        PROVE  \E m \in 1..(moved - 1) : IsWrite(r, m)
    <3>1. CASE k < i
      BY <1>1, <1>2, <2>2, <3>1
    <3>2. CASE k > i
      <4>1. k - 1 \in 1..(moved - 1) /\ k - 1 \in 1..(Len(q) - 1) /\ ~ (k - 1 < i)
        BY <1>1, <2>2, <3>2
      <4>2. IsWrite(r, k - 1)
        BY <1>2, <2>2, <4>1
      <4>3. QED
        BY <4>1, <4>2
    <3>3. QED
      BY <1>1, <2>2, <3>1, <3>2
  <2>3. QED
    BY <2>1, <2>2 DEF WritePrecedes
<1>5. HeldBack(r, moved) <=> IF IsWrite(q, j) THEN moved > 1
                             ELSE \E k \in 1..(j - 1) : k # i /\ IsWrite(q, k)
  BY <1>3, <1>4 DEF HeldBack
<1>6. HeldBack(q, j) <=> IF IsWrite(q, j) THEN j > 1
                         ELSE \E k \in 1..(j - 1) : IsWrite(q, k)
  BY DEF HeldBack, WritePrecedes
<1>7. CASE i = Len(q)
  BY <1>1, <1>5, <1>6, <1>7 DEF NewOwners
<1>8. CASE i # Len(q) /\ i = 1 /\ IsWrite(q, i + 1)
  <2>1. NewOwners(q, i) = {2}
    BY <1>8 DEF NewOwners
  <2>2. QED
    BY <1>1, <1>5, <1>6, <1>8, <2>1
<1>9. CASE i # Len(q) /\ i = 1 /\ IsWrite(q, 1) /\ ~ IsWrite(q, i + 1)
  <2>1. NewOwners(q, i) = ReadRun(q, 2)
    BY <1>9 DEF NewOwners
  <2>2. j \in NewOwners(q, i) <=> \A k \in 2..j : ~ IsWrite(q, k)
    <3>1. j \in 2..Len(q)
      BY <1>1, <1>9
    <3>2. QED
      BY <2>1, <3>1 DEF ReadRun
  <2>3. CASE IsWrite(q, j)
    <3>1. j # 2 /\ j \notin NewOwners(q, i)
      BY <1>1, <1>9, <2>2, <2>3
    <3>2. QED
      BY <1>1, <1>5, <1>6, <1>9, <2>3, <3>1
  <2>4. CASE ~ IsWrite(q, j)
    <3>1. HeldBack(q, j)
      BY <1>1, <1>6, <1>9, <2>4
    <3>2. HeldBack(r, moved) <=> \E k \in 2..j : IsWrite(q, k)
      <4>1. \A k : k \in 2..j /\ k # j <=> k \in 1..(j - 1) /\ k # i
        BY <1>1, <1>9
      <4>2. QED
        BY <1>5, <1>9, <2>4, <4>1
    <3>3. QED
      BY <2>2, <3>1, <3>2
  <2>5. QED
    BY <2>3, <2>4
<1>10. CASE i # Len(q) /\ i = 1 /\ ~ IsWrite(q, 1) /\ ~ IsWrite(q, i + 1)
  <2>1. NewOwners(q, i) = {}
    BY <1>10 DEF NewOwners
  <2>2. QED
    BY <1>1, <1>5, <1>6, <1>10, <2>1
<1>11. CASE i # Len(q) /\ i # 1 /\ ~ WritePrecedes(q, i) /\ IsWrite(q, i) /\ ~ IsWrite(q, i + 1)
  <2>1. NewOwners(q, i) = ReadRun(q, i + 1)
    BY <1>11 DEF NewOwners
  <2>2. j \in NewOwners(q, i) <=> j > i /\ \A k \in (i + 1)..j : ~ IsWrite(q, k)
    BY <1>1, <1>11, <2>1 DEF ReadRun
  <2>3. \A k \in 1..(i - 1) : ~ IsWrite(q, k)
    BY <1>11 DEF WritePrecedes
  <2>4. QED
    BY <1>1, <1>5, <1>6, <1>11, <2>2, <2>3
<1>12. CASE i # Len(q) /\ i # 1 /\ ~ (~ WritePrecedes(q, i) /\ IsWrite(q, i) /\ ~ IsWrite(q, i + 1))
  <2>1. NewOwners(q, i) = {}
    BY <1>12 DEF NewOwners
  <2>2. QED
    BY <1>1, <1>5, <1>6, <1>12, <2>1 DEF WritePrecedes
<1>13. QED
  BY <1>7, <1>8, <1>9, <1>10, <1>11, <1>12

(* A request joins the end of a queue: nobody before it notices, and it is *)
(* held back exactly when Lock() counts it as not acquired.                *)
LEMMA AppendHeldBack ==
  ASSUME NEW q \in Seq(LockRequest), NEW e \in LockRequest
  PROVE  /\ Append(q, e) \in Seq(LockRequest)
         /\ Len(Append(q, e)) = Len(q) + 1
         /\ \A j \in 1..Len(q) :
              /\ Append(q, e)[j] = q[j]
              /\ IsWrite(Append(q, e), j) <=> IsWrite(q, j)
              /\ HeldBack(Append(q, e), j) <=> HeldBack(q, j)
         /\ Append(q, e)[Len(q) + 1] = e
         /\ HeldBack(Append(q, e), Len(q) + 1) <=>
              IF e.mode = "WRITE" THEN q # <<>>
              ELSE \E i \in 1..Len(q) : IsWrite(q, i)
<1> DEFINE r == Append(q, e)
<1>1. /\ r \in Seq(LockRequest)
      /\ Len(r) = Len(q) + 1
      /\ r[Len(q) + 1] = e
      /\ \A j \in 1..Len(q) : r[j] = q[j]
      /\ Len(q) \in Nat
      /\ q # <<>> <=> Len(q) > 0
  OBVIOUS
<1> HIDE DEF r
<1>2. /\ \A j \in 1..Len(q) : IsWrite(r, j) <=> IsWrite(q, j)
      /\ IsWrite(r, Len(q) + 1) <=> e.mode = "WRITE"
  BY <1>1 DEF IsWrite
<1>3. \A j \in 1..(Len(q) + 1) :
        WritePrecedes(r, j) <=> \E i \in 1..(j - 1) : IsWrite(q, i)
  BY <1>1, <1>2 DEF WritePrecedes
<1>4. \A j \in 1..Len(q) : HeldBack(r, j) <=> HeldBack(q, j)
  BY <1>1, <1>2, <1>3 DEF HeldBack, WritePrecedes
<1>5. HeldBack(r, Len(q) + 1) <=>
        IF e.mode = "WRITE" THEN q # <<>> ELSE \E i \in 1..Len(q) : IsWrite(q, i)
  BY <1>1, <1>2, <1>3 DEF HeldBack
<1>6. QED
  BY <1>1, <1>2, <1>4, <1>5 DEF r

-----------------------------------------------------------------------------
(***************************************************************************)
(* The inductive invariant.  WaitsExact alone is not inductive: that the   *)
(* counter matches the queues after a release depends on each queue        *)
(* holding one request per outstanding transaction (QueueShape), and that  *)
(* it never goes negative on ReadyOnce.                                    *)
(***************************************************************************)
LockInv == LockTypeOK /\ QueueShape /\ ReadyOnce /\ WaitsExact

LEMMA BucketsType ==
  ASSUME NEW t \in Txn
  PROVE  WriteBuckets(t) \subseteq Bucket /\ ReadBuckets(t) \subseteq Bucket
BY LockManagerAssumption DEF WriteBuckets, ReadBuckets

LEMMA LockInitInv == LockInit => LockInv
<1> SUFFICES ASSUME LockInit PROVE LockInv
  OBVIOUS
<1>1. LockTypeOK
  BY DEF LockInit, LockTypeOK
<1>2. QueueShape
  BY DEF LockInit, QueueShape
<1>3. ReadyOnce
  BY DEF LockInit, ReadyOnce
<1>4. WaitsExact
  <2>1. \A t \in Txn : phase[t] = "new" /\ ~ Ready(t)
    BY DEF LockInit, Ready, Range
  <2>2. QED
    BY <2>1 DEF WaitsExact
<1>5. QED
  BY <1>1, <1>2, <1>3, <1>4 DEF LockInv

(* What Lock(t) does to the queues, seen by each transaction.              *)
LEMMA LockQueues ==
  ASSUME LockInv, NEW t \in Txn, Lock(t)
  PROVE  /\ lock_table' \in [Bucket -> Seq(LockRequest)]
         /\ QueueShape'
         /\ WaitingBuckets(t)' = NotAcquired(t)
         /\ \A u \in Txn : u # t => WaitingBuckets(u)' = WaitingBuckets(u)
         /\ \A b \in Bucket : \A s, u \in Txn :
              Precedes(b, s, u)' <=>
                IF u = t
                THEN /\ phase[s] \in {"locked", "executing"}
                     /\ b \in Buckets(s) \cap Buckets(t)
                     /\ b \in WriteBuckets(s) \cup WriteBuckets(t)
                ELSE Precedes(b, s, u)
<1> DEFINE Queue(b) == lock_table[b]
           Entry(b) == [txn |-> t, mode |-> IF b \in WriteBuckets(t) THEN "WRITE" ELSE "READ"]
<1>1. /\ lock_table \in [Bucket -> Seq(LockRequest)]
      /\ phase[t] = "new"
      /\ phase' = [phase EXCEPT ![t] = "locked"]
      /\ phase \in [Txn -> {"new", "locked", "executing", "done"}]
  BY DEF LockInv, LockTypeOK, Lock
<1>2. \A b \in Bucket :
        /\ Entry(b) \in LockRequest
        /\ lock_table'[b] = IF b \in Buckets(t) THEN Append(Queue(b), Entry(b)) ELSE Queue(b)
  BY DEF Lock, PushRequests, Buckets, LockRequest, Mode
<1>3. lock_table' \in [Bucket -> Seq(LockRequest)]
  <2> HIDE DEF Entry
  <2>1. ASSUME NEW b \in Bucket PROVE lock_table'[b] \in Seq(LockRequest)
    <3>1. lock_table[b] \in Seq(LockRequest) /\ Entry(b) \in LockRequest
      BY <1>1, <1>2
    <3>2. Append(lock_table[b], Entry(b)) \in Seq(LockRequest)
      BY <3>1, AppendHeldBack
    <3>3. QED
      BY <1>2, <3>1, <3>2
  <2>2. QED
    BY <2>1 DEF Lock, PushRequests
<1>4. ASSUME NEW b \in Bucket
      PROVE  /\ Len(lock_table[b]) \in Nat
             /\ \A i \in 1..Len(lock_table[b]) :
                  /\ lock_table[b][i].txn \in Txn
                  /\ lock_table[b][i].txn # t
  <2>1. lock_table[b] \in Seq(LockRequest)
    BY <1>1
  <2>2. \A i \in 1..Len(lock_table[b]) : lock_table[b][i] \in LockRequest
    BY <2>1, ElementOfSeq
  <2>3. QED
    BY <1>1, <2>1, <2>2 DEF LockInv, QueueShape, LockRequest
<1>5. ASSUME NEW b \in Bucket
      PROVE  /\ \A i \in 1..Len(lock_table[b]) :
                  /\ i \in 1..Len(lock_table'[b])
                  /\ lock_table'[b][i] = lock_table[b][i]
                  /\ IsWrite(lock_table'[b], i) <=> IsWrite(lock_table[b], i)
                  /\ HeldBack(lock_table'[b], i) <=> HeldBack(lock_table[b], i)
             /\ b \notin Buckets(t) => lock_table'[b] = lock_table[b]
             /\ b \in Buckets(t) =>
                  /\ Len(lock_table'[b]) = Len(lock_table[b]) + 1
                  /\ lock_table'[b][Len(lock_table'[b])] = Entry(b)
                  /\ HeldBack(lock_table'[b], Len(lock_table'[b])) <=> b \in NotAcquired(t)
  <2>1. lock_table[b] \in Seq(LockRequest) /\ Entry(b) \in LockRequest
    BY <1>1, <1>2
  <2>2. CASE b \notin Buckets(t)
    BY <1>2, <2>2
  <2>3. CASE b \in Buckets(t)
    <3> DEFINE e == Entry(b)
    <3>1. lock_table'[b] = Append(lock_table[b], e)
      BY <1>2, <2>3
    <3>2. b \in NotAcquired(t) <=> IF e.mode = "WRITE" THEN lock_table[b] # <<>>
                                   ELSE \E i \in 1..Len(lock_table[b]) : IsWrite(lock_table[b], i)
      BY <2>3 DEF NotAcquired, Buckets, ReadBuckets
    <3>3. e \in LockRequest
      BY <2>1
    <3> HIDE DEF e
    <3>4. /\ Len(Append(lock_table[b], e)) = Len(lock_table[b]) + 1
          /\ \A j \in 1..Len(lock_table[b]) :
               /\ Append(lock_table[b], e)[j] = lock_table[b][j]
               /\ IsWrite(Append(lock_table[b], e), j) <=> IsWrite(lock_table[b], j)
               /\ HeldBack(Append(lock_table[b], e), j) <=> HeldBack(lock_table[b], j)
          /\ Append(lock_table[b], e)[Len(lock_table[b]) + 1] = e
          /\ HeldBack(Append(lock_table[b], e), Len(lock_table[b]) + 1) <=>
               IF e.mode = "WRITE" THEN lock_table[b] # <<>>
               ELSE \E i \in 1..Len(lock_table[b]) : IsWrite(lock_table[b], i)
      BY <2>1, <3>3, AppendHeldBack
    <3>5. Len(lock_table[b]) \in Nat
      BY <1>4
    <3>6. QED
      BY <2>3, <3>1, <3>2, <3>4, <3>5 DEF e
  <2>4. QED
    BY <2>2, <2>3
<1> HIDE DEF Entry
<1>6. ASSUME NEW b \in Bucket
      PROVE  /\ \A u \in Txn : u # t => Positions(b, u)' = Positions(b, u)
             /\ Positions(b, t)' = IF b \in Buckets(t) THEN {Len(lock_table'[b])} ELSE {}
  <2>1. Entry(b).txn = t
    BY DEF Entry
  <2>2. CASE b \notin Buckets(t)
    BY <1>4, <1>5, <2>2 DEF Positions
  <2>3. CASE b \in Buckets(t)
    BY <1>4, <1>5, <2>1, <2>3 DEF Positions
  <2>4. QED
    BY <2>2, <2>3
<1>7. WaitingBuckets(t)' = NotAcquired(t)
  <2>1. NotAcquired(t) \subseteq Buckets(t) /\ NotAcquired(t) \subseteq Bucket
    BY BucketsType DEF NotAcquired, Buckets
  <2>2. QED
    BY <1>5, <1>6, <2>1 DEF WaitingBuckets
<1>8. ASSUME NEW u \in Txn, u # t
      PROVE  WaitingBuckets(u)' = WaitingBuckets(u)
  BY <1>5, <1>6, <1>8 DEF WaitingBuckets, Positions
<1>9. QueueShape'
  <2> SUFFICES ASSUME NEW b \in Bucket
               PROVE  /\ \A i \in 1..Len(lock_table'[b]) :
                           /\ phase'[lock_table'[b][i].txn] \in {"locked", "executing"}
                           /\ b \in Buckets(lock_table'[b][i].txn)
                           /\ IsWrite(lock_table'[b], i) <=> b \in WriteBuckets(lock_table'[b][i].txn)
                      /\ \A i, j \in 1..Len(lock_table'[b]) :
                           lock_table'[b][i].txn = lock_table'[b][j].txn => i = j
                      /\ \A u \in Txn : phase'[u] \in {"locked", "executing"} /\ b \in Buckets(u)
                           => Positions(b, u)' # {}
    BY DEF QueueShape
  <2>0. /\ \A i \in 1..Len(lock_table[b]) :
             /\ phase[lock_table[b][i].txn] \in {"locked", "executing"}
             /\ b \in Buckets(lock_table[b][i].txn)
             /\ IsWrite(lock_table[b], i) <=> b \in WriteBuckets(lock_table[b][i].txn)
        /\ \A i, j \in 1..Len(lock_table[b]) :
             lock_table[b][i].txn = lock_table[b][j].txn => i = j
        /\ \A u \in Txn : phase[u] \in {"locked", "executing"} /\ b \in Buckets(u)
             => Positions(b, u) # {}
    BY DEF LockInv, QueueShape
  <2>1. Entry(b).txn = t /\ (Entry(b).mode = "WRITE" <=> b \in WriteBuckets(t))
    BY DEF Entry
  <2>2. ASSUME NEW i \in 1..Len(lock_table'[b])
        PROVE  /\ phase'[lock_table'[b][i].txn] \in {"locked", "executing"}
               /\ b \in Buckets(lock_table'[b][i].txn)
               /\ IsWrite(lock_table'[b], i) <=> b \in WriteBuckets(lock_table'[b][i].txn)
    <3>1. CASE i \in 1..Len(lock_table[b])
      BY <1>1, <1>4, <1>5, <2>0, <3>1
    <3>2. CASE i \notin 1..Len(lock_table[b])
      <4>1. b \in Buckets(t) /\ i = Len(lock_table'[b]) /\ lock_table'[b][i] = Entry(b)
        BY <1>4, <1>5, <3>2
      <4>2. QED
        BY <1>1, <2>1, <4>1 DEF IsWrite
    <3>3. QED
      BY <3>1, <3>2
  <2>3. ASSUME NEW i \in 1..Len(lock_table'[b]), NEW j \in 1..Len(lock_table'[b]),
               lock_table'[b][i].txn = lock_table'[b][j].txn
        PROVE  i = j
    <3>1. ASSUME NEW k \in 1..Len(lock_table'[b])
          PROVE  \/ /\ k \in 1..Len(lock_table[b])
                    /\ lock_table'[b][k].txn = lock_table[b][k].txn
                    /\ lock_table'[b][k].txn # t
                 \/ k = Len(lock_table'[b]) /\ lock_table'[b][k].txn = t
      <4>1. CASE b \in Buckets(t)
        <5>1. k \in 1..Len(lock_table[b]) \/ k = Len(lock_table'[b])
          BY <1>4, <1>5, <4>1
        <5>2. QED
          BY <1>4, <1>5, <2>1, <4>1, <5>1
      <4>2. CASE b \notin Buckets(t)
        BY <1>4, <1>5, <4>2
      <4>3. QED
        BY <4>1, <4>2
    <3>2. QED
      BY <2>0, <2>3, <3>1
  <2>4. ASSUME NEW u \in Txn, phase'[u] \in {"locked", "executing"}, b \in Buckets(u)
        PROVE  Positions(b, u)' # {}
    BY <1>1, <1>6, <2>0, <2>4
  <2>5. QED
    BY <2>2, <2>3, <2>4
<1>10. ASSUME NEW b \in Bucket, NEW s \in Txn, NEW u \in Txn
       PROVE  Precedes(b, s, u)' <=>
                IF u = t
                THEN /\ phase[s] \in {"locked", "executing"}
                     /\ b \in Buckets(s) \cap Buckets(t)
                     /\ b \in WriteBuckets(s) \cup WriteBuckets(t)
                ELSE Precedes(b, s, u)
  <2>0. /\ \A i \in 1..Len(lock_table[b]) :
             /\ phase[lock_table[b][i].txn] \in {"locked", "executing"}
             /\ b \in Buckets(lock_table[b][i].txn)
             /\ IsWrite(lock_table[b], i) <=> b \in WriteBuckets(lock_table[b][i].txn)
        /\ phase[s] \in {"locked", "executing"} /\ b \in Buckets(s) => Positions(b, s) # {}
    BY DEF LockInv, QueueShape
  <2>1. Entry(b).txn = t /\ (Entry(b).mode = "WRITE" <=> b \in WriteBuckets(t))
    BY DEF Entry
  <2>2. \A v \in Txn : \A i \in Positions(b, v) : i \in 1..Len(lock_table[b]) /\ lock_table[b][i].txn = v
    BY DEF Positions
  <2>3. CASE u = t /\ b \in Buckets(t)
    <3>1. /\ Positions(b, u)' = {Len(lock_table[b]) + 1}
          /\ IsWrite(lock_table'[b], Len(lock_table[b]) + 1) <=> b \in WriteBuckets(t)
      BY <1>5, <1>6, <2>1, <2>3 DEF IsWrite
    <3>2. CASE s = t
      BY <1>1, <3>1, <3>2, <2>3 DEF Precedes
    <3>3. CASE s # t
      <4>1. Positions(b, s)' = Positions(b, s)
        BY <1>6, <3>3
      <4>2. \A i \in Positions(b, s) : /\ i < Len(lock_table[b]) + 1
                                       /\ b \in Buckets(s) /\ phase[s] \in {"locked", "executing"}
                                       /\ IsWrite(lock_table'[b], i) <=> b \in WriteBuckets(s)
        BY <1>4, <1>5, <2>0, <2>2
      <4>3. Precedes(b, s, u)' <=> \E i \in Positions(b, s) : b \in WriteBuckets(s) \/ b \in WriteBuckets(t)
        BY <3>1, <4>1, <4>2 DEF Precedes
      <4>4. QED
        BY <2>0, <2>3, <4>2, <4>3
    <3>4. QED
      BY <3>2, <3>3
  <2>4. CASE u = t /\ b \notin Buckets(t)
    BY <1>6, <2>4 DEF Precedes
  <2>5. CASE u # t /\ s = t
    <3>1. Positions(b, u)' = Positions(b, u) /\ Positions(b, t) = {}
      BY <1>4, <1>6, <2>5 DEF Positions
    <3>2. \A i \in Positions(b, t)', j \in Positions(b, u) : ~ (i < j)
      BY <1>4, <1>5, <1>6, <2>2
    <3>3. QED
      BY <2>5, <3>1, <3>2 DEF Precedes
  <2>6. CASE u # t /\ s # t
    <3>1. Positions(b, u)' = Positions(b, u) /\ Positions(b, s)' = Positions(b, s)
      BY <1>6, <2>6
    <3>2. \A i \in Positions(b, s) \cup Positions(b, u) :
            IsWrite(lock_table'[b], i) <=> IsWrite(lock_table[b], i)
      BY <1>5, <2>2
    <3>3. QED
      BY <2>6, <3>1, <3>2 DEF Precedes
  <2>7. QED
    BY <2>3, <2>4, <2>5, <2>6
<1>11. QED
  BY <1>3, <1>7, <1>8, <1>9, <1>10

(* What the withdrawal of t's requests does to one queue.                  *)
LEMMA ReleaseQueue ==
  ASSUME LockInv, NEW t \in Txn, ReleaseLocks(t), NEW b \in Bucket
  PROVE  /\ lock_table'[b] \in Seq(LockRequest)
         /\ Positions(b, t)' = {}
         /\ \A u \in Txn : u # t =>
              /\ Positions(b, u) = {} <=> Positions(b, u)' = {}
              /\ (\E j \in Positions(b, u)' : HeldBack(lock_table'[b], j)) <=>
                   b \in WaitingBuckets(u) /\ b \notin GrantedTo(u, t)
              /\ b \in GrantedTo(u, t) => b \in WaitingBuckets(u)
         /\ b \notin GrantedTo(t, t)
         /\ \A k \in 1..Len(lock_table'[b]) : \E m \in 1..Len(lock_table[b]) :
              /\ lock_table[b][m].txn # t
              /\ lock_table'[b][k] = lock_table[b][m]
         /\ \A k, l \in 1..Len(lock_table'[b]) :
              lock_table'[b][k].txn = lock_table'[b][l].txn => k = l
         /\ \A s, u \in Txn : s # t /\ u # t => (Precedes(b, s, u)' <=> Precedes(b, s, u))
<1> DEFINE q == lock_table[b]
           r == lock_table'[b]
<1>1. /\ q \in Seq(LockRequest) /\ Len(q) \in Nat
      /\ \A k \in 1..Len(q) : q[k].txn \in Txn
      /\ \A k, l \in 1..Len(q) : q[k].txn = q[l].txn => k = l
  <2>1. q \in Seq(LockRequest)
    BY DEF LockInv, LockTypeOK
  <2>2. \A k \in 1..Len(q) : q[k] \in LockRequest
    BY <2>1, ElementOfSeq
  <2>3. \A k, l \in 1..Len(q) : q[k].txn = q[l].txn => k = l
    BY DEF LockInv, QueueShape
  <2>4. QED
    BY <2>1, <2>2, <2>3 DEF LockRequest
<1>2. r = IF Positions(b, t) = {} THEN q ELSE RemoveAt(q, Position(b, t))
  BY DEF ReleaseLocks
<1>3. CASE Positions(b, t) = {}
  <2>1. r = q /\ \A u \in Txn : Positions(b, u)' = Positions(b, u)
    BY <1>2, <1>3 DEF Positions
  <2>2. \A u \in Txn : b \notin GrantedTo(u, t)
    BY <1>3 DEF GrantedTo
  <2>3. \A u \in Txn : b \in WaitingBuckets(u) <=> \E j \in Positions(b, u) : HeldBack(q, j)
    BY DEF WaitingBuckets
  <2>4. \A k \in 1..Len(q) : q[k].txn # t
    BY <1>3 DEF Positions
  <2>5. \A s, u \in Txn : Precedes(b, s, u)' <=> Precedes(b, s, u)
    BY <2>1 DEF Precedes, IsWrite
  <2> HIDE DEF q, r
  <2>6. QED
    BY <1>1, <1>3, <2>1, <2>2, <2>3, <2>4, <2>5 DEF q, r
<1>4. CASE Positions(b, t) # {}
  <2> DEFINE i == Position(b, t)
             moved(j) == IF j < i THEN j ELSE j - 1
  <2>1. i \in 1..Len(q) /\ q[i].txn = t /\ Positions(b, t) = {i}
    <3>1. PICK k \in Positions(b, t) : TRUE
      BY <1>4
    <3>2. Positions(b, t) = {k} /\ k \in 1..Len(q)
      BY <1>1, <3>1 DEF Positions
    <3>3. Position(b, t) = k
      BY <1>1, <3>2 DEF Position
    <3>4. QED
      BY <3>1, <3>2, <3>3 DEF Positions
  <2>2. /\ r \in Seq(LockRequest)
        /\ Len(r) = Len(q) - 1
        /\ \A j \in 1..(Len(q) - 1) : r[j] = IF j < i THEN q[j] ELSE q[j + 1]
    <3>1. r = RemoveAt(q, i)
      BY <1>2, <1>4
    <3> HIDE DEF q, r, i
    <3>2. QED
      BY <1>1, <2>1, <3>1, RemoveAtProperties
  <2>3. \A j \in 1..Len(q) : j # i =>
          /\ j \in NewOwners(q, i) => HeldBack(q, j)
          /\ HeldBack(r, moved(j)) <=> HeldBack(q, j) /\ j \notin NewOwners(q, i)
    <3>1. r = RemoveAt(q, i)
      BY <1>2, <1>4
    <3> HIDE DEF q, r, i
    <3>2. QED
      BY <1>1, <2>1, <3>1, GrantsExact
  <2>4. i \notin NewOwners(q, i)
    BY <1>1, <2>1 DEF NewOwners, ReadRun
  <2>5. \A u \in Txn :
          /\ b \in GrantedTo(u, t) <=> \E j \in Positions(b, u) : j \in NewOwners(q, i)
          /\ b \in WaitingBuckets(u) <=> \E j \in Positions(b, u) : HeldBack(q, j)
          /\ \A j \in Positions(b, u) : j \in 1..Len(q) /\ q[j].txn = u
          /\ \A j \in 1..Len(q) : q[j].txn = u => j \in Positions(b, u)
          /\ \A j \in Positions(b, u)' : j \in 1..Len(r) /\ r[j].txn = u
          /\ \A j \in 1..Len(r) : r[j].txn = u => j \in Positions(b, u)'
    BY <1>4 DEF GrantedTo, WaitingBuckets, Positions
  <2> HIDE DEF q, r, i
  <2>6. ASSUME NEW k \in 1..Len(r)
        PROVE  \E m \in 1..Len(q) : m # i /\ q[m].txn # t /\ r[k] = q[m] /\ k = moved(m)
    <3>1. CASE k < i
      <4>1. k \in 1..Len(q) /\ k # i /\ r[k] = q[k] /\ k = moved(k)
        BY <1>1, <2>1, <2>2, <3>1
      <4>2. QED
        BY <1>1, <2>1, <4>1
    <3>2. CASE ~ (k < i)
      <4>1. k + 1 \in 1..Len(q) /\ k + 1 # i /\ r[k] = q[k + 1] /\ k = moved(k + 1)
        BY <1>1, <2>1, <2>2, <3>2
      <4>2. QED
        BY <1>1, <2>1, <4>1
    <3>3. QED
      BY <3>1, <3>2
  <2>7. ASSUME NEW m \in 1..Len(q), m # i
        PROVE  moved(m) \in 1..Len(r) /\ r[moved(m)] = q[m]
    BY <1>1, <2>1, <2>2, <2>7
  <2>8. Positions(b, t)' = {} /\ b \notin GrantedTo(t, t)
    BY <2>1, <2>4, <2>5, <2>6
  <2>9. ASSUME NEW u \in Txn, u # t
        PROVE  /\ Positions(b, u) = {} <=> Positions(b, u)' = {}
               /\ (\E j \in Positions(b, u)' : HeldBack(r, j)) <=>
                    b \in WaitingBuckets(u) /\ b \notin GrantedTo(u, t)
               /\ b \in GrantedTo(u, t) => b \in WaitingBuckets(u)
    <3>1. \A j \in Positions(b, u) : j # i /\ moved(j) \in Positions(b, u)'
      BY <2>1, <2>5, <2>7, <2>9, SMTT(20)
    <3>2. ASSUME NEW k \in Positions(b, u)'
          PROVE  \E j \in Positions(b, u) : k = moved(j)
      <4>1. k \in 1..Len(r) /\ r[k].txn = u
        BY <2>5
      <4>2. PICK m \in 1..Len(q) : r[k] = q[m] /\ k = moved(m)
        BY <2>6, <4>1
      <4>3. m \in Positions(b, u)
        BY <2>5, <4>1, <4>2
      <4>4. QED
        BY <4>2, <4>3
    <3>3. \A j, l \in Positions(b, u) : j = l
      BY <1>1, <2>5
    <3> HIDE DEF moved
    <3>4. QED
      BY <2>3, <2>5, <3>1, <3>2, <3>3
  <2>10. \A k, l \in 1..Len(r) : r[k].txn = r[l].txn => k = l
    BY <1>1, <2>6
  <2>11. ASSUME NEW s \in Txn, NEW u \in Txn, s # t, u # t
         PROVE  Precedes(b, s, u)' <=> Precedes(b, s, u)
    <3>1. \A v \in Txn : v # t =>
            \A j \in Positions(b, v) :
              /\ j \in 1..Len(q) /\ j # i
              /\ moved(j) \in Positions(b, v)'
              /\ IsWrite(r, moved(j)) <=> IsWrite(q, j)
      BY <2>1, <2>5, <2>7 DEF IsWrite
    <3>2. ASSUME NEW v \in Txn, v # t, NEW k \in Positions(b, v)'
          PROVE  \E j \in Positions(b, v) : k = moved(j)
      <4>1. k \in 1..Len(r) /\ r[k].txn = v
        BY <2>5
      <4>2. PICK m \in 1..Len(q) : r[k] = q[m] /\ k = moved(m)
        BY <2>6, <4>1
      <4>3. QED
        BY <2>5, <4>1, <4>2
    <3>3. \A j, l \in 1..Len(q) : j # i /\ l # i => (moved(j) < moved(l) <=> j < l)
      BY <1>1, <2>1
    <3>4. /\ Precedes(b, s, u) <=> \E k \in Positions(b, s), l \in Positions(b, u) :
                                    k < l /\ (IsWrite(q, k) \/ IsWrite(q, l))
          /\ Precedes(b, s, u)' <=> \E k \in Positions(b, s)', l \in Positions(b, u)' :
                                    k < l /\ (IsWrite(r, k) \/ IsWrite(r, l))
      BY DEF Precedes, q, r, IsWrite
    <3> HIDE DEF moved
    <3>5. ASSUME Precedes(b, s, u) PROVE Precedes(b, s, u)'
      BY <2>11, <3>1, <3>3, <3>4, <3>5
    <3>6. ASSUME Precedes(b, s, u)' PROVE Precedes(b, s, u)
      <4>1. PICK k \in Positions(b, s)', l \in Positions(b, u)' :
              k < l /\ (IsWrite(r, k) \/ IsWrite(r, l))
        BY <3>4, <3>6
      <4>2. PICK j \in Positions(b, s) : k = moved(j)
        BY <2>11, <3>2
      <4>3. PICK m \in Positions(b, u) : l = moved(m)
        BY <2>11, <3>2
      <4>4. QED
        BY <2>11, <3>1, <3>3, <3>4, <4>1, <4>2, <4>3
    <3>7. QED
      BY <3>5, <3>6
  <2>12. QED
    BY <2>2, <2>6, <2>8, <2>9, <2>10, <2>11 DEF q, r
<1>5. QED
  BY <1>3, <1>4

(* Over all queues: a release takes from u's waiting buckets exactly the   *)
(* ones it grants.                                                         *)
LEMMA ReleaseQueues ==
  ASSUME LockInv, NEW t \in Txn, ReleaseLocks(t)
  PROVE  /\ lock_table' \in [Bucket -> Seq(LockRequest)]
         /\ QueueShape'
         /\ GrantedTo(t, t) = {}
         /\ \A u \in Txn : u # t =>
              /\ GrantedTo(u, t) \subseteq WaitingBuckets(u)
              /\ WaitingBuckets(u)' = WaitingBuckets(u) \ GrantedTo(u, t)
<1>1. lock_table' \in [Bucket -> Seq(LockRequest)]
  <2>1. \A b \in Bucket : lock_table'[b] \in Seq(LockRequest)
    BY ReleaseQueue
  <2>2. QED
    BY <2>1 DEF ReleaseLocks
<1>2. GrantedTo(t, t) = {}
  BY ReleaseQueue DEF GrantedTo
<1>3. ASSUME NEW u \in Txn, u # t
      PROVE  /\ GrantedTo(u, t) \subseteq WaitingBuckets(u)
             /\ WaitingBuckets(u)' = WaitingBuckets(u) \ GrantedTo(u, t)
  <2>1. GrantedTo(u, t) \subseteq Bucket /\ WaitingBuckets(u) \subseteq Bucket
    BY DEF GrantedTo, WaitingBuckets
  <2>2. \A b \in Bucket : b \in WaitingBuckets(u)' <=> \E j \in Positions(b, u)' : HeldBack(lock_table'[b], j)
    BY DEF WaitingBuckets
  <2>3. WaitingBuckets(u)' \subseteq Bucket
    BY DEF WaitingBuckets
  <2>4. QED
    BY <1>3, <2>1, <2>2, <2>3, ReleaseQueue
<1>4. QueueShape'
  <2> SUFFICES ASSUME NEW b \in Bucket
               PROVE  /\ \A i \in 1..Len(lock_table'[b]) :
                           /\ phase'[lock_table'[b][i].txn] \in {"locked", "executing"}
                           /\ b \in Buckets(lock_table'[b][i].txn)
                           /\ IsWrite(lock_table'[b], i) <=> b \in WriteBuckets(lock_table'[b][i].txn)
                      /\ \A i, j \in 1..Len(lock_table'[b]) :
                           lock_table'[b][i].txn = lock_table'[b][j].txn => i = j
                      /\ \A u \in Txn : phase'[u] \in {"locked", "executing"} /\ b \in Buckets(u)
                           => Positions(b, u)' # {}
    BY DEF QueueShape
  <2>1. /\ phase \in [Txn -> {"new", "locked", "executing", "done"}]
        /\ phase' = [phase EXCEPT ![t] = "done"]
    BY DEF LockInv, LockTypeOK, ReleaseLocks
  <2>2. /\ \A i \in 1..Len(lock_table[b]) :
             /\ phase[lock_table[b][i].txn] \in {"locked", "executing"}
             /\ b \in Buckets(lock_table[b][i].txn)
             /\ IsWrite(lock_table[b], i) <=> b \in WriteBuckets(lock_table[b][i].txn)
        /\ \A u \in Txn : phase[u] \in {"locked", "executing"} /\ b \in Buckets(u)
             => Positions(b, u) # {}
    BY DEF LockInv, QueueShape
  <2>3. ASSUME NEW i \in 1..Len(lock_table'[b])
        PROVE  /\ phase'[lock_table'[b][i].txn] \in {"locked", "executing"}
               /\ b \in Buckets(lock_table'[b][i].txn)
               /\ IsWrite(lock_table'[b], i) <=> b \in WriteBuckets(lock_table'[b][i].txn)
    <3>1. PICK m \in 1..Len(lock_table[b]) :
            lock_table[b][m].txn # t /\ lock_table'[b][i] = lock_table[b][m]
      BY ReleaseQueue
    <3>2. QED
      BY <2>1, <2>2, <3>1 DEF IsWrite
  <2>4. ASSUME NEW u \in Txn, phase'[u] \in {"locked", "executing"}, b \in Buckets(u)
        PROVE  Positions(b, u)' # {}
    <3>1. u # t /\ phase[u] \in {"locked", "executing"}
      BY <2>1, <2>4
    <3>2. QED
      BY <2>2, <2>4, <3>1, ReleaseQueue
  <2>5. QED
    BY <2>3, <2>4, ReleaseQueue
<1>5. QED
  BY <1>1, <1>2, <1>3, <1>4

-----------------------------------------------------------------------------
(***************************************************************************)
(* Every step preserves the invariant.                                     *)
(***************************************************************************)

LEMMA OrderProperties ==
  ASSUME NEW S, IsFiniteSet(S), NEW order \in SetToSeqs(S)
  PROVE  /\ order \in Seq(S)
         /\ Range(order) = S
         /\ \A i, j \in 1..Len(order) : order[i] = order[j] => i = j
<1> DEFINE n == Cardinality(S)
<1>1. n \in Nat
  BY FS_CardinalityType
<1>2. order \in [1..n -> S] /\ \A i, j \in 1..n : i # j => order[i] # order[j]
  BY DEF SetToSeqs
<1>3. order \in Seq(S) /\ Len(order) = n
  BY <1>1, <1>2
<1>4. order \in Injection(1..n, S)
  BY <1>2 DEF Injection, IsInjective
<1>5. IsFiniteSet(1..n) /\ Cardinality(1..n) = n
  BY <1>1, FS_Interval
<1>6. order \in Surjection(1..n, S)
  BY <1>4, <1>5, FS_Injection
<1>7. Range(order) = S
  BY <1>2, <1>6 DEF Surjection, Range
<1>8. QED
  BY <1>2, <1>3, <1>7

LEMMA RangeConcat ==
  ASSUME NEW S, NEW s \in Seq(S), NEW r \in Seq(S)
  PROVE  Range(s \o r) = Range(s) \cup Range(r)
<1>1. /\ s \o r \in Seq(S)
      /\ Len(s) \in Nat /\ Len(r) \in Nat
      /\ DOMAIN s = 1..Len(s) /\ DOMAIN r = 1..Len(r)
      /\ Len(s \o r) = Len(s) + Len(r)
      /\ DOMAIN (s \o r) = 1..(Len(s) + Len(r))
      /\ \A i \in 1..(Len(s) + Len(r)) : (s \o r)[i] = IF i <= Len(s) THEN s[i] ELSE r[i - Len(s)]
  <2>1. s \o r \in Seq(S) /\ Len(s \o r) = Len(s) + Len(r)
    BY ConcatProperties
  <2>2. QED
    BY <2>1, ConcatProperties, LenProperties
<1> DEFINE sr == s \o r
<1> HIDE DEF sr
<1>2. ASSUME NEW x \in Range(sr) PROVE x \in Range(s) \cup Range(r)
  <2>1. PICK i \in 1..(Len(s) + Len(r)) : x = sr[i]
    BY <1>1 DEF Range, sr
  <2>2. CASE i <= Len(s)
    BY <1>1, <2>1, <2>2 DEF Range, sr
  <2>3. CASE ~ (i <= Len(s))
    <3>1. i - Len(s) \in 1..Len(r) /\ x = r[i - Len(s)]
      BY <1>1, <2>1, <2>3 DEF sr
    <3>2. QED
      BY <1>1, <3>1 DEF Range
  <2>4. QED
    BY <2>2, <2>3
<1>3. ASSUME NEW x \in Range(s) PROVE x \in Range(sr)
  <2>1. PICK i \in 1..Len(s) : x = s[i]
    BY <1>1 DEF Range
  <2>2. i \in DOMAIN sr /\ sr[i] = s[i]
    BY <1>1 DEF sr
  <2>3. QED
    BY <2>1, <2>2 DEF Range
<1>4. ASSUME NEW x \in Range(r) PROVE x \in Range(sr)
  <2>1. PICK i \in 1..Len(r) : x = r[i]
    BY <1>1 DEF Range
  <2>2. i + Len(s) \in DOMAIN sr /\ sr[i + Len(s)] = r[i]
    BY <1>1 DEF sr
  <2>3. QED
    BY <2>1, <2>2 DEF Range
<1>5. QED
  BY <1>2, <1>3, <1>4 DEF sr

(* Only a transaction between Lock() and Release() waits anywhere.         *)
LEMMA WaitingIsQueued ==
  ASSUME LockInv, NEW u \in Txn
  PROVE  /\ WaitingBuckets(u) \subseteq Bucket
         /\ IsFiniteSet(WaitingBuckets(u))
         /\ WaitingBuckets(u) # {} => phase[u] = "locked" /\ ~ Ready(u)
<1>1. WaitingBuckets(u) \subseteq Bucket
  BY DEF WaitingBuckets
<1>2. IsFiniteSet(WaitingBuckets(u))
  BY <1>1, LockManagerAssumption, FS_Subset
<1>3. WaitingBuckets(u) # {} => phase[u] \in {"locked", "executing"}
  BY DEF LockInv, QueueShape, WaitingBuckets, Positions
<1>4. QED
  BY <1>1, <1>2, <1>3 DEF LockInv, WaitsExact

LEMMA LockPreserves ==
  ASSUME LockInv, NEW t \in Txn, Lock(t)
  PROVE  /\ LockInv'
         /\ \A u \in Txn : Ready(u)' <=> Ready(u) \/ (u = t /\ NotAcquired(t) = {})
<1>1. /\ lock_table' \in [Bucket -> Seq(LockRequest)]
      /\ QueueShape'
      /\ WaitingBuckets(t)' = NotAcquired(t)
      /\ \A u \in Txn : u # t => WaitingBuckets(u)' = WaitingBuckets(u)
  BY LockQueues
<1>2. /\ phase \in [Txn -> {"new", "locked", "executing", "done"}]
      /\ phase[t] = "new"
      /\ phase' = [phase EXCEPT ![t] = "locked"]
      /\ txn_waits \in [Txn -> Nat]
      /\ ready_txns \in Seq(Txn)
  BY DEF LockInv, LockTypeOK, Lock
<1>3. ~ Ready(t)
  <2>1. \A i \in 1..Len(ready_txns) : phase[ready_txns[i]] = "locked"
    BY DEF LockInv, ReadyOnce
  <2>2. DOMAIN ready_txns = 1..Len(ready_txns)
    BY <1>2
  <2>3. QED
    BY <1>2, <2>1, <2>2 DEF Ready, Range
<1>4. NotAcquired(t) \subseteq Bucket /\ IsFiniteSet(NotAcquired(t))
  <2>1. NotAcquired(t) \subseteq Bucket
    BY BucketsType DEF NotAcquired
  <2>2. QED
    BY <2>1, LockManagerAssumption, FS_Subset
<1>5. CASE NotAcquired(t) # {}
  <2>1. /\ txn_waits' = [txn_waits EXCEPT ![t] = Cardinality(NotAcquired(t))]
        /\ ready_txns' = ready_txns
    BY <1>5 DEF Lock
  <2>2. Cardinality(NotAcquired(t)) \in Nat /\ Cardinality(NotAcquired(t)) > 0
    BY <1>4, <1>5, FS_CardinalityType, FS_EmptySet
  <2>3. LockTypeOK'
    BY <1>1, <1>2, <2>1, <2>2 DEF LockTypeOK
  <2>4. \A u \in Txn : Ready(u)' <=> Ready(u)
    BY <2>1 DEF Ready
  <2>5. ReadyOnce'
    BY <1>2, <2>1 DEF LockInv, ReadyOnce
  <2>6. WaitsExact'
    <3> SUFFICES ASSUME NEW u \in Txn
                 PROVE  /\ phase'[u] = "locked" /\ ~ Ready(u)' =>
                             txn_waits'[u] = Cardinality(WaitingBuckets(u)') /\ txn_waits'[u] > 0
                        /\ Ready(u)' \/ phase'[u] = "executing" => WaitingBuckets(u)' = {}
      BY DEF WaitsExact
    <3>1. CASE u = t
      BY <1>1, <1>2, <1>3, <2>1, <2>2, <2>4, <3>1
    <3>2. CASE u # t
      BY <1>1, <1>2, <2>1, <2>4, <3>2 DEF LockInv, WaitsExact
    <3>3. QED
      BY <3>1, <3>2
  <2>7. QED
    BY <1>1, <1>5, <2>3, <2>4, <2>5, <2>6 DEF LockInv
<1>6. CASE NotAcquired(t) = {}
  <2>1. txn_waits' = txn_waits /\ ready_txns' = Append(ready_txns, t)
    BY <1>6 DEF Lock
  <2>2. /\ ready_txns' \in Seq(Txn)
        /\ Len(ready_txns') = Len(ready_txns) + 1
        /\ Len(ready_txns) \in Nat
        /\ \A i \in 1..Len(ready_txns) : ready_txns'[i] = ready_txns[i]
        /\ ready_txns'[Len(ready_txns) + 1] = t
        /\ DOMAIN ready_txns' = 1..(Len(ready_txns) + 1)
        /\ DOMAIN ready_txns = 1..Len(ready_txns)
    BY <1>2, <2>1
  <2>3. LockTypeOK'
    BY <1>1, <1>2, <2>1, <2>2 DEF LockTypeOK
  <2>4. \A u \in Txn : Ready(u)' <=> Ready(u) \/ u = t
    <3>1. Range(ready_txns') = Range(ready_txns) \cup {t}
      BY <2>2 DEF Range
    <3>2. QED
      BY <3>1 DEF Ready
  <2>5. ReadyOnce'
    <3>1. \A i \in 1..Len(ready_txns) : ready_txns[i] # t /\ ready_txns[i] \in Txn
      <4>1. \A i \in 1..Len(ready_txns) : ready_txns[i] \in Txn
        BY <1>2, ElementOfSeq
      <4>2. \A i \in 1..Len(ready_txns) : ready_txns[i] \in Range(ready_txns)
        BY <2>2 DEF Range
      <4>3. QED
        BY <1>3, <4>1, <4>2 DEF Ready
    <3>2. \A i \in 1..Len(ready_txns') : phase'[ready_txns'[i]] = "locked"
      BY <1>2, <2>2, <3>1 DEF LockInv, ReadyOnce
    <3>3. \A i, j \in 1..Len(ready_txns') : ready_txns'[i] = ready_txns'[j] => i = j
      BY <2>2, <3>1 DEF LockInv, ReadyOnce
    <3>4. QED
      BY <3>2, <3>3 DEF ReadyOnce
  <2>6. WaitsExact'
    <3> SUFFICES ASSUME NEW u \in Txn
                 PROVE  /\ phase'[u] = "locked" /\ ~ Ready(u)' =>
                             txn_waits'[u] = Cardinality(WaitingBuckets(u)') /\ txn_waits'[u] > 0
                        /\ Ready(u)' \/ phase'[u] = "executing" => WaitingBuckets(u)' = {}
      BY DEF WaitsExact
    <3>1. CASE u = t
      BY <1>1, <1>6, <2>4, <3>1
    <3>2. CASE u # t
      BY <1>1, <1>2, <2>1, <2>4, <3>2 DEF LockInv, WaitsExact
    <3>3. QED
      BY <3>1, <3>2
  <2>7. QED
    BY <1>1, <1>6, <2>3, <2>4, <2>5, <2>6 DEF LockInv
<1>7. QED
  BY <1>5, <1>6

LEMMA PopReadyPreserves ==
  ASSUME LockInv, PopReady
  PROVE  /\ LockInv'
         /\ \A u \in Txn : Ready(u)' <=> Ready(u) /\ u # Head(ready_txns)
<1> DEFINE t == Head(ready_txns)
<1>1. /\ ready_txns \in Seq(Txn) /\ ready_txns # <<>>
      /\ ready_txns' = Tail(ready_txns)
      /\ phase' = [phase EXCEPT ![t] = "executing"]
      /\ phase \in [Txn -> {"new", "locked", "executing", "done"}]
      /\ lock_table' = lock_table /\ txn_waits' = txn_waits
  BY DEF LockInv, LockTypeOK, PopReady
<1>2. /\ Len(ready_txns) \in Nat /\ Len(ready_txns) > 0
      /\ t \in Txn /\ t = ready_txns[1]
      /\ ready_txns' \in Seq(Txn)
      /\ Len(ready_txns') = Len(ready_txns) - 1
      /\ \A i \in 1..(Len(ready_txns) - 1) : ready_txns'[i] = ready_txns[i + 1]
      /\ DOMAIN ready_txns = 1..Len(ready_txns)
      /\ DOMAIN ready_txns' = 1..(Len(ready_txns) - 1)
  BY <1>1
<1> HIDE DEF t
<1>3. /\ \A i, j \in 1..Len(ready_txns) : ready_txns[i] = ready_txns[j] => i = j
      /\ \A i \in 1..Len(ready_txns) : phase[ready_txns[i]] = "locked"
  BY DEF LockInv, ReadyOnce
<1>4. \A u \in Txn : Ready(u)' <=> Ready(u) /\ u # t
  <2>1. ASSUME NEW u \in Txn, Ready(u)' PROVE Ready(u) /\ u # t
    <3>1. PICK i \in 1..(Len(ready_txns) - 1) : ready_txns'[i] = u
      BY <1>2, <2>1 DEF Ready, Range
    <3>2. i + 1 \in 1..Len(ready_txns) /\ ready_txns[i + 1] = u /\ 1 \in 1..Len(ready_txns) /\ i + 1 # 1
      BY <1>2, <3>1
    <3>3. u # t
      BY <1>2, <1>3, <3>2
    <3>4. QED
      BY <1>2, <3>2, <3>3 DEF Ready, Range
  <2>2. ASSUME NEW u \in Txn, Ready(u), u # t PROVE Ready(u)'
    <3>1. PICK i \in 1..Len(ready_txns) : ready_txns[i] = u
      BY <1>2, <2>2 DEF Ready, Range
    <3>2. i - 1 \in 1..(Len(ready_txns) - 1) /\ ready_txns'[i - 1] = u
      BY <1>2, <2>2, <3>1
    <3>3. QED
      BY <1>2, <3>2 DEF Ready, Range
  <2>3. QED
    BY <2>1, <2>2
<1>5. phase[t] = "locked" /\ Ready(t)
  BY <1>2, <1>3 DEF Ready, Range
<1>6. \A u \in Txn : WaitingBuckets(u)' = WaitingBuckets(u)
  BY <1>1 DEF WaitingBuckets, Positions, HeldBack, WritePrecedes, IsWrite
<1>7. LockTypeOK'
  BY <1>1, <1>2 DEF LockInv, LockTypeOK
<1>8. QueueShape'
  <2>1. \A b \in Bucket : \A i \in 1..Len(lock_table[b]) :
          phase[lock_table[b][i].txn] \in {"locked", "executing"} =>
            phase'[lock_table[b][i].txn] \in {"locked", "executing"}
    <3>1. \A b \in Bucket : lock_table[b] \in Seq(LockRequest)
      BY DEF LockInv, LockTypeOK
    <3>2. \A b \in Bucket : \A i \in 1..Len(lock_table[b]) : lock_table[b][i] \in LockRequest
      BY <3>1, ElementOfSeq
    <3>3. QED
      BY <1>1, <1>2, <3>2 DEF LockRequest
  <2>2. \A u \in Txn : phase'[u] \in {"locked", "executing"} => phase[u] \in {"locked", "executing"}
    BY <1>1, <1>2, <1>5
  <2>3. \A b \in Bucket, u \in Txn : Positions(b, u)' = Positions(b, u)
    BY <1>1 DEF Positions
  <2>4. QED
    BY <1>1, <2>1, <2>2, <2>3 DEF LockInv, QueueShape, IsWrite
<1>9. ReadyOnce'
  <2>1. \A i \in 1..Len(ready_txns') :
          /\ i + 1 \in 1..Len(ready_txns) /\ i + 1 # 1
          /\ ready_txns'[i] = ready_txns[i + 1] /\ ready_txns'[i] \in Txn
    BY <1>1, <1>2
  <2>2. 1 \in 1..Len(ready_txns)
    BY <1>2
  <2>3. \A i \in 1..Len(ready_txns') : ready_txns'[i] # t
    BY <1>2, <1>3, <2>1, <2>2
  <2>4. \A i \in 1..Len(ready_txns') : phase'[ready_txns'[i]] = "locked"
    BY <1>1, <1>3, <2>1, <2>3
  <2>5. \A i, j \in 1..Len(ready_txns') : ready_txns'[i] = ready_txns'[j] => i = j
    BY <1>2, <1>3, <2>1
  <2>6. QED
    BY <2>4, <2>5 DEF ReadyOnce
<1>10. WaitsExact'
  <2> SUFFICES ASSUME NEW u \in Txn
               PROVE  /\ phase'[u] = "locked" /\ ~ Ready(u)' =>
                           txn_waits'[u] = Cardinality(WaitingBuckets(u)') /\ txn_waits'[u] > 0
                      /\ Ready(u)' \/ phase'[u] = "executing" => WaitingBuckets(u)' = {}
    BY DEF WaitsExact
  <2>1. CASE u = t
    <3>1. phase'[u] = "executing" /\ WaitingBuckets(u) = {}
      BY <1>1, <1>2, <1>5, <2>1 DEF LockInv, WaitsExact
    <3>2. QED
      BY <1>6, <3>1
  <2>2. CASE u # t
    <3>1. phase'[u] = phase[u] /\ (Ready(u)' <=> Ready(u))
      BY <1>1, <1>2, <1>4, <2>2
    <3>2. QED
      BY <1>1, <1>6, <3>1 DEF LockInv, WaitsExact
  <2>3. QED
    BY <2>1, <2>2
<1>11. QED
  BY <1>4, <1>7, <1>8, <1>9, <1>10 DEF LockInv, t

(* Release or cancellation of t, which no longer is in ready_txns_.        *)
LEMMA ReleasePreserves ==
  ASSUME LockInv, NEW t \in Txn, ReleaseLocks(t), ~ Ready(t),
         phase[t] \in {"locked", "executing"}
  PROVE  /\ LockInv'
         /\ \A u \in Txn : Ready(u)' <=>
              Ready(u) \/ (u # t /\ WaitingBuckets(u) # {} /\ WaitingBuckets(u)' = {})
<1>1. /\ lock_table' \in [Bucket -> Seq(LockRequest)]
      /\ QueueShape'
      /\ GrantedTo(t, t) = {}
      /\ \A u \in Txn : u # t =>
           /\ GrantedTo(u, t) \subseteq WaitingBuckets(u)
           /\ WaitingBuckets(u)' = WaitingBuckets(u) \ GrantedTo(u, t)
  BY ReleaseQueues
<1>2. /\ phase \in [Txn -> {"new", "locked", "executing", "done"}]
      /\ phase' = [phase EXCEPT ![t] = "done"]
      /\ txn_waits \in [Txn -> Nat]
      /\ txn_waits' = [u \in Txn |-> txn_waits[u] - Cardinality(GrantedTo(u, t))]
      /\ ready_txns \in Seq(Txn)
  BY DEF LockInv, LockTypeOK, ReleaseLocks
<1>3. ASSUME NEW u \in Txn, GrantedTo(u, t) = {}
      PROVE  txn_waits'[u] = txn_waits[u] /\ u \notin Woken(t)
  <2>1. Cardinality(GrantedTo(u, t)) = 0
    BY <1>3, FS_EmptySet
  <2>2. txn_waits'[u] = txn_waits[u]
    BY <1>2, <2>1
  <2>3. u \notin Woken(t)
    BY <2>1 DEF Woken
  <2>4. QED
    BY <2>2, <2>3
<1>4. t \notin Woken(t) /\ txn_waits'[t] = txn_waits[t]
  BY <1>1, <1>3
<1>5. ASSUME NEW u \in Txn, GrantedTo(u, t) # {}
      PROVE  /\ u # t /\ phase[u] = "locked" /\ ~ Ready(u)
             /\ WaitingBuckets(u) # {}
             /\ txn_waits'[u] = Cardinality(WaitingBuckets(u)')
             /\ txn_waits'[u] \in Nat
             /\ u \in Woken(t) <=> WaitingBuckets(u)' = {}
             /\ txn_waits'[u] > 0 <=> WaitingBuckets(u)' # {}
  <2> DEFINE W == WaitingBuckets(u)
             G == GrantedTo(u, t)
  <2>1. u # t /\ G \subseteq W /\ WaitingBuckets(u)' = W \ G /\ W # {}
    BY <1>1, <1>5
  <2>2. IsFiniteSet(W) /\ phase[u] = "locked" /\ ~ Ready(u)
    BY <2>1, WaitingIsQueued
  <2>3. txn_waits[u] = Cardinality(W) /\ txn_waits[u] > 0
    BY <2>2 DEF LockInv, WaitsExact
  <2>4. txn_waits'[u] = Cardinality(W) - Cardinality(G)
    BY <1>2, <2>3
  <2>5. u \in Woken(t) <=> txn_waits[u] \in 1..Cardinality(G)
    BY DEF Woken
  <2>6. G # {}
    BY <1>5
  <2>7. W \cap G = G
    BY <2>1
  <2> HIDE DEF W, G
  <2>8. /\ IsFiniteSet(G) /\ IsFiniteSet(W \ G)
        /\ Cardinality(W \ G) = Cardinality(W) - Cardinality(G)
        /\ Cardinality(W \ G) \in Nat /\ Cardinality(W) \in Nat /\ Cardinality(G) \in Nat
        /\ Cardinality(W \ G) = 0 <=> W \ G = {}
    <3>1. IsFiniteSet(G) /\ IsFiniteSet(W \ G)
      BY <2>1, <2>2, FS_Subset
    <3>2. Cardinality(W \ G) = Cardinality(W) - Cardinality(W \cap G)
      BY <2>2, FS_Difference
    <3>3. Cardinality(W \ G) = 0 <=> W \ G = {}
      BY <3>1, FS_EmptySet
    <3>4. QED
      BY <2>2, <2>7, <3>1, <3>2, <3>3, FS_CardinalityType
  <2>9. QED
    BY <2>1, <2>2, <2>3, <2>4, <2>5, <2>8 DEF W
<1>6. PICK order \in SetToSeqs(Woken(t)) : ready_txns' = ready_txns \o order
  BY DEF ReleaseLocks
<1>7. /\ Woken(t) \subseteq Txn
      /\ order \in Seq(Txn)
      /\ Range(order) = Woken(t)
      /\ \A i, j \in 1..Len(order) : order[i] = order[j] => i = j
  <2>1. Woken(t) \subseteq Txn
    BY DEF Woken
  <2>2. IsFiniteSet(Woken(t))
    BY <2>1, LockManagerAssumption, FS_Subset
  <2>3. /\ order \in Seq(Woken(t))
        /\ Range(order) = Woken(t)
        /\ \A i, j \in 1..Len(order) : order[i] = order[j] => i = j
    BY <2>2, OrderProperties
  <2>4. order \in Seq(Txn)
    BY <2>1, <2>3, SeqMonotonic
  <2>5. QED
    BY <2>1, <2>3, <2>4
<1>8. /\ ready_txns' \in Seq(Txn)
      /\ Range(ready_txns') = Range(ready_txns) \cup Woken(t)
      /\ Len(ready_txns) \in Nat /\ Len(order) \in Nat
      /\ Len(ready_txns') = Len(ready_txns) + Len(order)
      /\ \A i \in 1..Len(ready_txns') :
           ready_txns'[i] = IF i <= Len(ready_txns) THEN ready_txns[i]
                            ELSE order[i - Len(ready_txns)]
  BY <1>2, <1>6, <1>7, ConcatProperties, RangeConcat, LenProperties
<1>9. \A u \in Txn : Ready(u)' <=> Ready(u) \/ u \in Woken(t)
  BY <1>8 DEF Ready
<1>10. \A u \in Txn : u \in Woken(t) <=> u # t /\ WaitingBuckets(u) # {} /\ WaitingBuckets(u)' = {}
  BY <1>1, <1>3, <1>4, <1>5
<1>11. LockTypeOK'
  <2>1. \A u \in Txn : txn_waits'[u] \in Nat
    BY <1>2, <1>3, <1>5
  <2>2. txn_waits' \in [Txn -> Nat]
    BY <1>2, <2>1
  <2>3. QED
    BY <1>1, <1>2, <1>8, <2>2 DEF LockTypeOK
<1>12. ReadyOnce'
  <2>1. /\ \A i \in 1..Len(ready_txns) : ready_txns[i] \in Txn /\ Ready(ready_txns[i])
        /\ \A i \in 1..Len(order) : order[i] \in Txn /\ order[i] \in Woken(t)
    <3>1. /\ \A i \in 1..Len(ready_txns) : ready_txns[i] \in Txn /\ ready_txns[i] \in Range(ready_txns)
          /\ \A i \in 1..Len(order) : order[i] \in Txn /\ order[i] \in Range(order)
      BY <1>2, <1>7, ElementOfSeq, LenProperties DEF Range
    <3>2. QED
      BY <1>7, <3>1 DEF Ready
  <2>2. /\ \A i \in 1..Len(ready_txns) : phase[ready_txns[i]] = "locked" /\ ready_txns[i] # t
        /\ \A i, j \in 1..Len(ready_txns) : ready_txns[i] = ready_txns[j] => i = j
    BY <2>1 DEF LockInv, ReadyOnce
  <2>3. \A u \in Woken(t) : phase[u] = "locked" /\ ~ Ready(u) /\ u # t
    BY <1>3, <1>5, <1>7
  <2>4. ASSUME NEW i \in 1..Len(ready_txns')
        PROVE  \/ /\ i \in 1..Len(ready_txns) /\ ready_txns'[i] = ready_txns[i]
                  /\ Ready(ready_txns'[i])
               \/ /\ i - Len(ready_txns) \in 1..Len(order)
                  /\ ready_txns'[i] = order[i - Len(ready_txns)]
                  /\ ~ Ready(ready_txns'[i])
    <3>1. CASE i <= Len(ready_txns)
      BY <1>8, <2>1, <3>1
    <3>2. CASE ~ (i <= Len(ready_txns))
      <4>1. i - Len(ready_txns) \in 1..Len(order)
        BY <1>8, <3>2
      <4>2. ready_txns'[i] = order[i - Len(ready_txns)]
        BY <1>8, <3>2
      <4>3. QED
        BY <2>1, <2>3, <4>1, <4>2
    <3>3. QED
      BY <3>1, <3>2
  <2>5. \A i \in 1..Len(ready_txns') : phase'[ready_txns'[i]] = "locked"
    <3>1. ASSUME NEW i \in 1..Len(ready_txns')
          PROVE  ready_txns'[i] \in Txn /\ ready_txns'[i] # t /\ phase[ready_txns'[i]] = "locked"
      <4>1. CASE i \in 1..Len(ready_txns) /\ ready_txns'[i] = ready_txns[i]
        BY <2>1, <2>2, <4>1
      <4>2. CASE /\ i - Len(ready_txns) \in 1..Len(order)
                 /\ ready_txns'[i] = order[i - Len(ready_txns)]
        <5>1. ready_txns'[i] \in Txn /\ ready_txns'[i] \in Woken(t)
          BY <2>1, <4>2
        <5>2. QED
          BY <2>3, <5>1
      <4>3. QED
        BY <2>4, <4>1, <4>2
    <3>2. QED
      BY <1>2, <3>1
  <2>6. ASSUME NEW i \in 1..Len(ready_txns'), NEW j \in 1..Len(ready_txns'),
               ready_txns'[i] = ready_txns'[j]
        PROVE  i = j
    <3>1. CASE Ready(ready_txns'[i])
      BY <2>2, <2>4, <2>6, <3>1
    <3>2. CASE ~ Ready(ready_txns'[i])
      <4>1. i - Len(ready_txns) = j - Len(ready_txns)
        BY <1>7, <2>4, <2>6, <3>2
      <4>2. QED
        BY <1>8, <4>1
    <3>3. QED
      BY <3>1, <3>2
  <2>7. QED
    BY <2>5, <2>6 DEF ReadyOnce
<1>13. WaitsExact'
  <2> SUFFICES ASSUME NEW u \in Txn
               PROVE  /\ phase'[u] = "locked" /\ ~ Ready(u)' =>
                           txn_waits'[u] = Cardinality(WaitingBuckets(u)') /\ txn_waits'[u] > 0
                      /\ Ready(u)' \/ phase'[u] = "executing" => WaitingBuckets(u)' = {}
    BY DEF WaitsExact
  <2>1. CASE u = t
    BY <1>2, <1>4, <1>9, <2>1
  <2>2. CASE u # t /\ GrantedTo(u, t) = {}
    <3>1. /\ phase'[u] = phase[u] /\ (Ready(u)' <=> Ready(u))
          /\ txn_waits'[u] = txn_waits[u]
          /\ WaitingBuckets(u)' = WaitingBuckets(u)
      BY <1>1, <1>2, <1>3, <1>9, <2>2
    <3>2. QED
      BY <3>1 DEF LockInv, WaitsExact
  <2>3. CASE u # t /\ GrantedTo(u, t) # {}
    <3>1. phase'[u] = "locked" /\ (Ready(u)' <=> WaitingBuckets(u)' = {})
      BY <1>2, <1>5, <1>9, <2>3
    <3>2. QED
      BY <1>5, <2>3, <3>1
  <2>4. QED
    BY <2>1, <2>2, <2>3
<1>14. QED
  BY <1>1, <1>9, <1>10, <1>11, <1>12, <1>13 DEF LockInv

-----------------------------------------------------------------------------
(***************************************************************************)
(* Theorems.                                                               *)
(***************************************************************************)

LEMMA ExecutingNotReady ==
  ASSUME LockInv, NEW t \in Txn, phase[t] # "locked"
  PROVE  ~ Ready(t)
<1>1. DOMAIN ready_txns = 1..Len(ready_txns)
  BY LenProperties DEF LockInv, LockTypeOK
<1>2. QED
  BY <1>1 DEF LockInv, ReadyOnce, Ready, Range

LEMMA StepPreserves == LockInv /\ [LockNext]_lockVars => LockInv'
<1> SUFFICES ASSUME LockInv, [LockNext]_lockVars PROVE LockInv'
  OBVIOUS
<1>1. CASE PopReady
  BY <1>1, PopReadyPreserves
<1>2. ASSUME NEW t \in Txn, Lock(t) PROVE LockInv'
  BY <1>2, LockPreserves
<1>3. ASSUME NEW t \in Txn, Release(t) PROVE LockInv'
  BY <1>3, ExecutingNotReady, ReleasePreserves DEF Release
<1>4. ASSUME NEW t \in Txn, Cancel(t) PROVE LockInv'
  BY <1>4, ReleasePreserves DEF Cancel, Ready
<1>5. CASE UNCHANGED lockVars
  <2>1. /\ lock_table' = lock_table /\ txn_waits' = txn_waits
        /\ ready_txns' = ready_txns /\ phase' = phase
    BY <1>5 DEF lockVars
  <2>2. \A b \in Bucket, t \in Txn : Positions(b, t)' = Positions(b, t)
    BY <2>1 DEF Positions
  <2>3. \A t \in Txn : /\ WaitingBuckets(t)' = WaitingBuckets(t)
                       /\ Ready(t)' = Ready(t)
    BY <2>1, <2>2 DEF WaitingBuckets, HeldBack, WritePrecedes, IsWrite, Ready
  <2>4. LockTypeOK'
    BY <2>1 DEF LockInv, LockTypeOK
  <2>5. QueueShape'
    BY <2>1, <2>2 DEF LockInv, QueueShape, IsWrite
  <2>6. ReadyOnce'
    BY <2>1 DEF LockInv, ReadyOnce
  <2>7. WaitsExact'
    BY <2>1, <2>3 DEF LockInv, WaitsExact
  <2>8. QED
    BY <2>4, <2>5, <2>6, <2>7 DEF LockInv
<1>6. QED
  BY <1>1, <1>2, <1>3, <1>4, <1>5 DEF LockNext

(* The inductive invariant holds in every reachable state.                 *)
THEOREM InvariantHolds == LockSpec => []LockInv
<1>1. LockInit => LockInv
  BY LockInitInv
<1>2. LockInv /\ [LockNext]_lockVars => LockInv'
  BY StepPreserves
<1>3. QED
  BY <1>1, <1>2, PTL DEF LockSpec

(* Type correctness; in particular txn_waits_ never goes below zero, so no *)
(* transaction is granted a lock it was not waiting for.                   *)
THEOREM TypeCorrect == LockSpec => []LockTypeOK
<1>1. LockInv => LockTypeOK
  BY DEF LockInv
<1>2. QED
  BY <1>1, InvariantHolds, PTL

(* txn_waits_ counts exactly the requests that are held back: no wake-up   *)
(* is lost and none comes early.                                           *)
THEOREM NoLostWakeup == LockSpec => []WaitsExact
<1>1. LockInv => WaitsExact
  BY DEF LockInv
<1>2. QED
  BY <1>1, InvariantHolds, PTL

(* The queues hold one request per bucket and transaction that is between  *)
(* Lock() and Release(), in the right mode, and nothing else.              *)
THEOREM QueuesKeepShape == LockSpec => []QueueShape
<1>1. LockInv => QueueShape
  BY DEF LockInv
<1>2. QED
  BY <1>1, InvariantHolds, PTL

(* No transaction is handed to the workers twice.                          *)
THEOREM HandedOutOnce == LockSpec => []ReadyOnce
<1>1. LockInv => ReadyOnce
  BY DEF LockInv
<1>2. QED
  BY <1>1, InvariantHolds, PTL

(* Of two requests in one queue that conflict, the later is held back.     *)
LEMMA LaterIsHeldBack ==
  ASSUME NEW q \in Seq(LockRequest), NEW i \in 1..Len(q), NEW j \in 1..Len(q), i < j,
         IsWrite(q, i) \/ IsWrite(q, j)
  PROVE  HeldBack(q, j)
<1>1. Len(q) \in Nat
  BY LenProperties
<1>2. QED
  BY <1>1 DEF HeldBack, WritePrecedes

LEMMA Isolation == LockInv => MutualExclusion
<1> SUFFICES ASSUME LockInv, NEW s \in Txn, NEW t \in Txn,
                    Ready(s) \/ phase[s] = "executing",
                    Ready(t) \/ phase[t] = "executing",
                    Conflicting(s, t)
             PROVE  FALSE
  BY DEF MutualExclusion
<1>1. WaitingBuckets(s) = {} /\ WaitingBuckets(t) = {}
  BY DEF LockInv, WaitsExact
<1>2. PICK b \in Bucket : /\ b \in Buckets(s) /\ b \in Buckets(t)
                          /\ b \in WriteBuckets(s) \/ b \in WriteBuckets(t)
  BY BucketsType DEF Conflicting, Buckets
<1>3. phase[s] \in {"locked", "executing"} /\ phase[t] \in {"locked", "executing"}
  BY ExecutingNotReady
<1>4. PICK i \in Positions(b, s), j \in Positions(b, t) : TRUE
  BY <1>2, <1>3 DEF LockInv, QueueShape
<1>5. /\ lock_table[b] \in Seq(LockRequest)
      /\ i \in 1..Len(lock_table[b]) /\ j \in 1..Len(lock_table[b]) /\ i # j
      /\ IsWrite(lock_table[b], i) \/ IsWrite(lock_table[b], j)
  BY <1>2, <1>4 DEF LockInv, LockTypeOK, QueueShape, Positions, Conflicting
<1>6. Len(lock_table[b]) \in Nat
  BY <1>5, LenProperties
<1>7. i < j \/ j < i
  BY <1>5, <1>6
<1>8. HeldBack(lock_table[b], i) \/ HeldBack(lock_table[b], j)
  BY <1>5, <1>7, LaterIsHeldBack
<1>9. QED
  BY <1>1, <1>4, <1>8 DEF WaitingBuckets

(* Transactions that hold all their locks at one time never conflict.      *)
THEOREM LocksIsolate == LockSpec => []MutualExclusion
BY InvariantHolds, Isolation, PTL

-----------------------------------------------------------------------------
(***************************************************************************)
(* LockManager implements DeterministicLocking.                            *)
(***************************************************************************)

Outstanding(t) == phase[t] \in {"locked", "executing"}

LEMMA StatusFacts ==
  LockInv => \A t \in Txn :
         /\ Status(t) \in {"waiting", "ready", "running"} <=> Outstanding(t)
         /\ Status(t) = "new" <=> phase[t] = "new"
         /\ Status(t) = "waiting" <=> phase[t] = "locked" /\ ~ Ready(t)
         /\ Status(t) = "ready" <=> Ready(t)
         /\ Status(t) = "running" <=> phase[t] = "executing"
         /\ Ready(t) => phase[t] = "locked"
<1> SUFFICES ASSUME LockInv, NEW t \in Txn
             PROVE  /\ Status(t) \in {"waiting", "ready", "running"} <=> Outstanding(t)
                    /\ Status(t) = "new" <=> phase[t] = "new"
                    /\ Status(t) = "waiting" <=> phase[t] = "locked" /\ ~ Ready(t)
                    /\ Status(t) = "ready" <=> Ready(t)
                    /\ Status(t) = "running" <=> phase[t] = "executing"
                    /\ Ready(t) => phase[t] = "locked"
  OBVIOUS
<1>1. phase[t] \in {"new", "locked", "executing", "done"}
  BY DEF LockInv, LockTypeOK
<1>2. Ready(t) => phase[t] = "locked"
  BY ExecutingNotReady
<1>3. QED
  BY <1>1, <1>2 DEF Status, Outstanding

(* The counter and the blockers say the same thing.                        *)
LEMMA WaitingMeansBlocked ==
  LockInv => \A t \in Txn : Blockers(t) = {} <=> WaitingBuckets(t) = {}
<1> SUFFICES ASSUME LockInv, NEW t \in Txn
             PROVE  Blockers(t) = {} <=> WaitingBuckets(t) = {}
  OBVIOUS
<1>1. ASSUME NEW b \in Bucket
      PROVE  /\ lock_table[b] \in Seq(LockRequest) /\ Len(lock_table[b]) \in Nat
             /\ \A i \in 1..Len(lock_table[b]) :
                  lock_table[b][i].txn \in Txn /\ i \in Positions(b, lock_table[b][i].txn)
             /\ \A u \in Txn : \A i \in Positions(b, u) : i \in 1..Len(lock_table[b])
  <2>1. lock_table[b] \in Seq(LockRequest)
    BY DEF LockInv, LockTypeOK
  <2>2. \A i \in 1..Len(lock_table[b]) : lock_table[b][i] \in LockRequest
    BY <2>1, ElementOfSeq
  <2>3. QED
    BY <2>1, <2>2 DEF LockRequest, Positions
<1>2. ASSUME NEW b \in WaitingBuckets(t)
      PROVE  Blockers(t) # {}
  <2>1. PICK j \in Positions(b, t) : HeldBack(lock_table[b], j)
    BY DEF WaitingBuckets
  <2>2. b \in Bucket /\ j \in 1..Len(lock_table[b])
    BY <1>1 DEF WaitingBuckets
  <2>3. PICK i \in 1..(j - 1) : IsWrite(lock_table[b], i) \/ IsWrite(lock_table[b], j)
    <3>1. CASE IsWrite(lock_table[b], j)
      <4>1. 1 \in 1..(j - 1)
        BY <2>1, <2>2, <3>1 DEF HeldBack
      <4>2. QED
        BY <3>1, <4>1
    <3>2. CASE ~ IsWrite(lock_table[b], j)
      BY <2>1, <3>2 DEF HeldBack, WritePrecedes
    <3>3. QED
      BY <3>1, <3>2
  <2>4. i \in 1..Len(lock_table[b]) /\ i < j
    BY <1>1, <2>2, <2>3
  <2>5. lock_table[b][i].txn \in Txn /\ Precedes(b, lock_table[b][i].txn, t)
    BY <1>1, <2>1, <2>2, <2>3, <2>4 DEF Precedes
  <2>6. QED
    BY <2>2, <2>5 DEF Blockers
<1>3. ASSUME NEW s \in Blockers(t)
      PROVE  WaitingBuckets(t) # {}
  <2>1. PICK b \in Bucket : s \in Txn /\ Precedes(b, s, t)
    BY DEF Blockers
  <2>2. PICK i \in Positions(b, s), j \in Positions(b, t) :
          i < j /\ (IsWrite(lock_table[b], i) \/ IsWrite(lock_table[b], j))
    BY <2>1 DEF Precedes
  <2>3. HeldBack(lock_table[b], j)
    BY <1>1, <2>1, <2>2, LaterIsHeldBack
  <2>4. QED
    BY <2>1, <2>2, <2>3 DEF WaitingBuckets
<1>4. QED
  BY <1>2, <1>3

(* The same two facts of the state after a step.                           *)
LEMMA StatusFactsNext ==
  (LockInv => \A t \in Txn :
         /\ Status(t) \in {"waiting", "ready", "running"} <=> Outstanding(t)
         /\ Status(t) = "new" <=> phase[t] = "new"
         /\ Status(t) = "waiting" <=> phase[t] = "locked" /\ ~ Ready(t)
         /\ Status(t) = "ready" <=> Ready(t)
         /\ Status(t) = "running" <=> phase[t] = "executing"
         /\ Ready(t) => phase[t] = "locked")'
BY StatusFacts, PTL

LEMMA WaitingMeansBlockedNext ==
  (LockInv => \A t \in Txn : Blockers(t) = {} <=> WaitingBuckets(t) = {})'
BY WaitingMeansBlocked, PTL

LEMMA RefineInit == LockInit => Deterministic!Init
<1> SUFFICES ASSUME LockInit PROVE Deterministic!Init
  OBVIOUS
<1>1. \A t \in Txn : Status(t) = "new"
  BY DEF LockInit, Status
<1>2. \A t \in Txn : Blockers(t) = {}
  BY DEF LockInit, Blockers, Precedes, Positions
<1>3. QED
  BY <1>1, <1>2 DEF Deterministic!Init

LEMMA RefineLock ==
  ASSUME LockInv, LockInv', NEW t \in Txn, Lock(t)
  PROVE  Deterministic!Submit(t)
<1> DEFINE before == {s \in Deterministic!Outstanding :
                        <<s, t>> \in {p \in Txn \X Txn : Conflicting(p[1], p[2])}}
<1>1. /\ phase \in [Txn -> {"new", "locked", "executing", "done"}]
      /\ phase[t] = "new" /\ phase' = [phase EXCEPT ![t] = "locked"]
  BY DEF LockInv, LockTypeOK, Lock
<1>2. before = {s \in Txn : Outstanding(s) /\ Conflicting(s, t)}
  BY StatusFacts DEF Deterministic!Outstanding
<1>3. Blockers(t)' = before
  <2>1. ASSUME NEW s \in Txn
        PROVE  s \in Blockers(t)' <=> Outstanding(s) /\ Conflicting(s, t)
    <3>1. \A b \in Bucket : Precedes(b, s, t)' <=>
            /\ Outstanding(s)
            /\ b \in Buckets(s) \cap Buckets(t)
            /\ b \in WriteBuckets(s) \cup WriteBuckets(t)
      BY LockQueues DEF Outstanding
    <3>2. Outstanding(s) => s # t
      BY <1>1 DEF Outstanding
    <3>3. Buckets(s) \subseteq Bucket
      BY BucketsType DEF Buckets
    <3>4. QED
      BY <3>1, <3>2, <3>3 DEF Blockers, Conflicting
  <2>2. Blockers(t)' \subseteq Txn
    BY DEF Blockers
  <2>3. QED
    BY <1>2, <2>1, <2>2
<1>4. ASSUME NEW u \in Txn, u # t
      PROVE  Blockers(u)' = Blockers(u)
  BY <1>4, LockQueues DEF Blockers
<1>5. NotAcquired(t) = {} <=> before = {}
  <2>1. WaitingBuckets(t)' = NotAcquired(t)
    BY LockQueues
  <2>2. (LockInv => \A u \in Txn : Blockers(u) = {} <=> WaitingBuckets(u) = {})'
    BY WaitingMeansBlockedNext
  <2>3. QED
    BY <1>3, <2>1, <2>2
<1>6. \A u \in Txn : Status(u)' = IF u = t THEN (IF before = {} THEN "ready" ELSE "waiting")
                                 ELSE Status(u)
  <2>1. (LockInv => \A u \in Txn :
           /\ Status(u) \in {"waiting", "ready", "running"} <=> Outstanding(u)
           /\ Status(u) = "new" <=> phase[u] = "new"
           /\ Status(u) = "waiting" <=> phase[u] = "locked" /\ ~ Ready(u)
           /\ Status(u) = "ready" <=> Ready(u)
           /\ Status(u) = "running" <=> phase[u] = "executing"
           /\ Ready(u) => phase[u] = "locked")'
    BY StatusFactsNext
  <2>2. \A u \in Txn : Ready(u)' <=> Ready(u) \/ (u = t /\ NotAcquired(t) = {})
    BY LockPreserves
  <2>3. CASE before = {}
    BY <1>1, <1>5, <2>1, <2>2, <2>3 DEF Status
  <2>4. CASE before # {}
    <3>1. ~ Ready(t)
      BY <1>1, ExecutingNotReady
    <3>2. QED
      BY <1>1, <1>5, <2>1, <2>2, <2>4, <3>1 DEF Status
  <2>5. QED
    BY <2>3, <2>4
<1>7. Status(t) = "new"
  BY <1>1 DEF Status
<1>8. QED
  <2> HIDE DEF before
  <2>1. [u \in Txn |-> Status(u)]' =
          [[u \in Txn |-> Status(u)] EXCEPT ![t] = IF before = {} THEN "ready" ELSE "waiting"]
    BY <1>6
  <2>2. [u \in Txn |-> Blockers(u)]' = [[u \in Txn |-> Blockers(u)] EXCEPT ![t] = before]
    BY <1>3, <1>4
  <2>3. QED
    BY <1>7, <2>1, <2>2 DEF Deterministic!Submit, before

LEMMA RefinePopReady ==
  ASSUME LockInv, LockInv', PopReady
  PROVE  \E t \in Txn : Deterministic!Start(t)
<1> DEFINE t == Head(ready_txns)
<1>1. /\ t \in Txn /\ Ready(t)
      /\ phase \in [Txn -> {"new", "locked", "executing", "done"}]
      /\ phase' = [phase EXCEPT ![t] = "executing"]
      /\ lock_table' = lock_table
  <2>1. ready_txns \in Seq(Txn) /\ ready_txns # <<>>
    BY DEF LockInv, LockTypeOK, PopReady
  <2>2. t \in Txn /\ t = ready_txns[1] /\ 1 \in DOMAIN ready_txns
    BY <2>1
  <2>3. QED
    BY <2>2 DEF LockInv, LockTypeOK, PopReady, Ready, Range
<1> HIDE DEF t
<1>2. \A u \in Txn : Ready(u)' <=> Ready(u) /\ u # t
  BY PopReadyPreserves DEF t
<1>3. \A u \in Txn : Blockers(u)' = Blockers(u)
  BY <1>1 DEF Blockers, Precedes, Positions, IsWrite
<1>4. \A u \in Txn : Status(u)' = IF u = t THEN "running" ELSE Status(u)
  BY <1>1, <1>2 DEF Status
<1>5. Status(t) = "ready"
  BY <1>1, StatusFacts
<1>6. Deterministic!Start(t)
  <2>1. [u \in Txn |-> Status(u)]' = [[u \in Txn |-> Status(u)] EXCEPT ![t] = "running"]
    BY <1>4
  <2>2. QED
    BY <1>1, <1>3, <1>5, <2>1 DEF Deterministic!Start
<1>7. QED
  BY <1>1, <1>6

LEMMA RefineRelease ==
  ASSUME LockInv, LockInv', NEW t \in Txn, ReleaseLocks(t), ~ Ready(t),
         phase[t] \in {"locked", "executing"}
  PROVE  Deterministic!Finish(t)
<1>1. /\ phase \in [Txn -> {"new", "locked", "executing", "done"}]
      /\ phase' = [phase EXCEPT ![t] = "done"]
  BY DEF LockInv, LockTypeOK, ReleaseLocks
<1>2. ASSUME NEW u \in Txn
      PROVE  Blockers(u)' = IF u = t THEN {} ELSE Blockers(u) \ {t}
  <2>1. \A b \in Bucket : Positions(b, t)' = {}
    BY ReleaseQueue
  <2>2. \A b \in Bucket : ~ Precedes(b, t, u)'
    BY <2>1 DEF Precedes
  <2>3. CASE u = t
    BY <2>1, <2>3 DEF Blockers, Precedes
  <2>4. CASE u # t
    <3>1. \A b \in Bucket, s \in Txn : s # t => (Precedes(b, s, u)' <=> Precedes(b, s, u))
      BY <2>4, ReleaseQueue
    <3>2. QED
      BY <2>2, <2>4, <3>1 DEF Blockers
  <2>5. QED
    BY <2>3, <2>4
<1>3. /\ (\A u \in Txn : Blockers(u) = {} <=> WaitingBuckets(u) = {})
      /\ (\A u \in Txn : Blockers(u)' = {} <=> WaitingBuckets(u)' = {})
  <2>1. (LockInv => \A u \in Txn : Blockers(u) = {} <=> WaitingBuckets(u) = {})'
    BY WaitingMeansBlockedNext
  <2>2. QED
    BY <2>1, WaitingMeansBlocked
<1>4. \A u \in Txn : Ready(u)' <=>
        Ready(u) \/ (u # t /\ WaitingBuckets(u) # {} /\ WaitingBuckets(u)' = {})
  BY ReleasePreserves
<1>5. ASSUME NEW u \in Txn
      PROVE  Status(u)' = IF u = t THEN "done"
                          ELSE IF Status(u) = "waiting" /\ Blockers(u) \ {t} = {} THEN "ready"
                          ELSE Status(u)
  <2>1. CASE u = t
    BY <1>1, <2>1 DEF Status
  <2>2. CASE u # t
    <3>1. phase'[u] = phase[u]
      BY <1>1, <2>2
    <3>2. WaitingBuckets(u) # {} <=> Status(u) = "waiting"
      <4>1. WaitingBuckets(u) # {} => phase[u] = "locked" /\ ~ Ready(u)
        BY WaitingIsQueued
      <4>2. phase[u] = "locked" /\ ~ Ready(u) => WaitingBuckets(u) # {}
        BY FS_EmptySet DEF LockInv, WaitsExact
      <4>3. QED
        BY <4>1, <4>2, StatusFacts
    <3>3. Ready(u)' <=> Ready(u) \/ (Status(u) = "waiting" /\ Blockers(u) \ {t} = {})
      BY <1>2, <1>3, <1>4, <2>2, <3>2
    <3>4. CASE Status(u) = "waiting"
      <4>1. phase[u] = "locked" /\ ~ Ready(u)
        BY <3>4, StatusFacts
      <4>2. Status(u)' = IF Ready(u)' THEN "ready" ELSE "waiting"
        BY <3>1, <4>1 DEF Status
      <4>3. QED
        BY <2>2, <3>3, <3>4, <4>1, <4>2
    <3>5. CASE Status(u) # "waiting"
      <4>1. Ready(u)' <=> Ready(u)
        BY <3>3, <3>5
      <4>2. Status(u)' = Status(u)
        BY <3>1, <4>1 DEF Status
      <4>3. QED
        BY <2>2, <3>5, <4>2
    <3>6. QED
      BY <3>4, <3>5
  <2>3. QED
    BY <2>1, <2>2
<1>6. Status(t) \in {"running", "waiting"}
  BY StatusFacts
<1>7. QED
  <2>1. [u \in Txn |-> Status(u)]' =
          [u \in Txn |-> IF u = t THEN "done"
                         ELSE IF /\ [v \in Txn |-> Status(v)][u] = "waiting"
                                 /\ [v \in Txn |-> Blockers(v)][u] \ {t} = {} THEN "ready"
                         ELSE [v \in Txn |-> Status(v)][u]]
    BY <1>5
  <2>2. [u \in Txn |-> Blockers(u)]' =
          [u \in Txn |-> IF u = t THEN {} ELSE [v \in Txn |-> Blockers(v)][u] \ {t}]
    BY <1>2
  <2>3. QED
    BY <1>6, <2>1, <2>2 DEF Deterministic!Finish

(* The lock manager implements the abstract one: it starts a transaction   *)
(* when the conflicting transactions that called Lock() before it have     *)
(* finished, and makes it ready in the very step the last of them does.    *)
THEOREM ImplementsDeterministicLocking == LockSpec => DeterministicSpec
<1>1. LockInit => Deterministic!Init
  BY RefineInit
<1>2. LockInv /\ LockInv' /\ [LockNext]_lockVars => [Deterministic!Next]_Deterministic!vars
  <2> SUFFICES ASSUME LockInv, LockInv', [LockNext]_lockVars
               PROVE  Deterministic!Next \/ UNCHANGED Deterministic!vars
    OBVIOUS
  <2>1. CASE PopReady
    BY <2>1, RefinePopReady DEF Deterministic!Next
  <2>2. ASSUME NEW t \in Txn, Lock(t) PROVE Deterministic!Next
    BY <2>2, RefineLock DEF Deterministic!Next
  <2>3. ASSUME NEW t \in Txn, Release(t) PROVE Deterministic!Next
    BY <2>3, ExecutingNotReady, RefineRelease DEF Release, Deterministic!Next
  <2>4. ASSUME NEW t \in Txn, Cancel(t) PROVE Deterministic!Next
    BY <2>4, RefineRelease DEF Cancel, Ready, Deterministic!Next
  <2>5. CASE UNCHANGED lockVars
    <3>1. \A u \in Txn : Status(u)' = Status(u) /\ Blockers(u)' = Blockers(u)
      BY <2>5 DEF lockVars, Status, Ready, Blockers, Precedes, Positions, IsWrite
    <3>2. QED
      BY <3>1 DEF Deterministic!vars
  <2>6. QED
    BY <2>1, <2>2, <2>3, <2>4, <2>5 DEF LockNext
<1>3. QED
  BY <1>1, <1>2, InvariantHolds, PTL DEF LockSpec, DeterministicSpec, Deterministic!Spec

-----------------------------------------------------------------------------
(***************************************************************************)
(* The abstract lock manager keeps conflicting transactions apart, for any *)
(* set of transactions and any conflict relation: what LockManager refines *)
(* is worth refining.                                                      *)
(***************************************************************************)
CONSTANT AnyConflict
VARIABLES status, blockers

Abstract == INSTANCE DeterministicLocking WITH Conflict <- AnyConflict

AbstractInv == Abstract!TypeOK /\ Abstract!Ordered

LEMMA AbstractInvInit == Abstract!Init => AbstractInv
  BY DEF Abstract!Init, AbstractInv, Abstract!TypeOK, Abstract!Ordered, Abstract!Outstanding

LEMMA AbstractSubmitPreserves ==
  ASSUME Abstract!ConflictAssumption, AbstractInv, NEW t \in Txn, Abstract!Submit(t)
  PROVE  AbstractInv'
<1>1. Abstract!TypeOK'
  BY DEF AbstractInv, Abstract!TypeOK, Abstract!Submit, Abstract!Outstanding
<1>2. Abstract!Outstanding' = Abstract!Outstanding \cup {t} /\ t \notin Abstract!Outstanding
  BY DEF AbstractInv, Abstract!TypeOK, Abstract!Submit, Abstract!Outstanding
<1>3. blockers' = [blockers EXCEPT ![t] = {s \in Abstract!Outstanding : <<s, t>> \in AnyConflict}]
  BY DEF Abstract!Submit
<1>4. blockers'[t] = {s \in Abstract!Outstanding : <<s, t>> \in AnyConflict}
  BY <1>3 DEF AbstractInv, Abstract!TypeOK
<1>5. \A u \in Txn : u # t => blockers'[u] = blockers[u] /\ status'[u] = status[u]
  BY DEF AbstractInv, Abstract!TypeOK, Abstract!Submit
<1>6. Abstract!Outstanding \subseteq Txn
  BY DEF Abstract!Outstanding
<1>7. ASSUME NEW r \in Abstract!Outstanding', NEW u \in Abstract!Outstanding', <<r, u>> \in AnyConflict
      PROVE  r \in blockers'[u] \/ u \in blockers'[r]
  <2>1. r # u
    BY <1>2, <1>6, <1>7 DEF Abstract!ConflictAssumption
  <2>2. CASE u = t
    BY <1>2, <1>4, <1>7, <2>1, <2>2
  <2>3. CASE r = t
    BY <1>2, <1>4, <1>6, <1>7, <2>1, <2>3 DEF Abstract!ConflictAssumption
  <2>4. CASE r # t /\ u # t
    BY <1>2, <1>5, <1>6, <1>7, <2>4 DEF AbstractInv, Abstract!Ordered
  <2> QED
    BY <2>2, <2>3, <2>4
<1>8. \A u \in Txn : blockers'[u] \subseteq Abstract!Outstanding'
  BY <1>2, <1>4, <1>5 DEF AbstractInv, Abstract!Ordered
<1>9. ASSUME NEW u \in Txn, status'[u] \in {"ready", "running"}
      PROVE  blockers'[u] = {}
  <2>1. CASE u = t
    BY <1>4, <1>9, <2>1 DEF AbstractInv, Abstract!TypeOK, Abstract!Submit
  <2>2. CASE u # t
    BY <1>5, <1>9, <2>2 DEF AbstractInv, Abstract!Ordered
  <2> QED
    BY <2>1, <2>2
<1>10. Abstract!Ordered'
  BY <1>7, <1>8, <1>9 DEF Abstract!Ordered
<1> QED
  BY <1>1, <1>10 DEF AbstractInv

LEMMA AbstractStartPreserves ==
  ASSUME AbstractInv, NEW t \in Txn, Abstract!Start(t)
  PROVE  AbstractInv'
<1>1. Abstract!Outstanding' = Abstract!Outstanding
  BY DEF AbstractInv, Abstract!TypeOK, Abstract!Start, Abstract!Outstanding
<1> QED
  BY <1>1 DEF AbstractInv, Abstract!TypeOK, Abstract!Ordered, Abstract!Start

LEMMA AbstractFinishPreserves ==
  ASSUME AbstractInv, NEW t \in Txn, Abstract!Finish(t)
  PROVE  AbstractInv'
<1>1. Abstract!TypeOK'
  BY DEF AbstractInv, Abstract!TypeOK, Abstract!Finish
<1>2. Abstract!Outstanding' = Abstract!Outstanding \ {t}
  BY DEF AbstractInv, Abstract!TypeOK, Abstract!Finish, Abstract!Outstanding
<1>3. \A u \in Txn : blockers'[u] = IF u = t THEN {} ELSE blockers[u] \ {t}
  BY DEF Abstract!Finish
<1>4. ASSUME NEW u \in Txn, status'[u] \in {"ready", "running"}
      PROVE  blockers'[u] = {}
  <2>1. u # t
    BY <1>4 DEF AbstractInv, Abstract!TypeOK, Abstract!Finish
  <2>2. CASE status[u] = "waiting"
    BY <1>3, <1>4, <2>1, <2>2 DEF Abstract!Finish
  <2>3. CASE status[u] # "waiting"
    <3>1. status'[u] = status[u]
      BY <2>1, <2>3 DEF Abstract!Finish
    <3> QED
      BY <1>3, <1>4, <2>1, <3>1 DEF AbstractInv, Abstract!Ordered
  <2> QED
    BY <2>2, <2>3
<1>5. Abstract!Outstanding \subseteq Txn
  BY DEF Abstract!Outstanding
<1>6. \A r, u \in Abstract!Outstanding' :
        <<r, u>> \in AnyConflict => r \in blockers'[u] \/ u \in blockers'[r]
  BY <1>2, <1>3, <1>5, ZenonT(30) DEF AbstractInv, Abstract!Ordered
<1>7. \A u \in Txn : blockers'[u] \subseteq Abstract!Outstanding'
  BY <1>2, <1>3 DEF AbstractInv, Abstract!Ordered
<1>8. Abstract!Ordered'
  BY <1>4, <1>6, <1>7 DEF Abstract!Ordered
<1> QED
  BY <1>1, <1>8 DEF AbstractInv

LEMMA AbstractInvStep ==
  ASSUME Abstract!ConflictAssumption, AbstractInv, [Abstract!Next]_(Abstract!vars)
  PROVE  AbstractInv'
<1>1. CASE UNCHANGED Abstract!vars
  BY <1>1 DEF Abstract!vars, AbstractInv, Abstract!TypeOK, Abstract!Ordered, Abstract!Outstanding
<1>2. CASE Abstract!Next
  BY <1>2, AbstractSubmitPreserves, AbstractStartPreserves, AbstractFinishPreserves DEF Abstract!Next
<1> QED
  BY <1>1, <1>2

(* The order the scheduler must keep: conflicting transactions are never   *)
(* ready or running together, and of two that are outstanding one waits    *)
(* for the other.                                                          *)
THEOREM AbstractIsolation ==
  ASSUME Abstract!ConflictAssumption
  PROVE  Abstract!Spec => [](Abstract!Ordered /\ Abstract!Isolation)
<1>1. AbstractInv => Abstract!Ordered /\ Abstract!Isolation
  BY DEF AbstractInv, Abstract!TypeOK, Abstract!Ordered, Abstract!Isolation, Abstract!Outstanding
<1>2. AbstractInv /\ [Abstract!Next]_(Abstract!vars) => AbstractInv'
  BY AbstractInvStep
<1> QED
  BY <1>1, <1>2, AbstractInvInit, PTL DEF Abstract!Spec

-----------------------------------------------------------------------------
(***************************************************************************)
(* No deadlock.  All requests of a transaction are filed at once, behind   *)
(* those there are, so there is no circle of transactions each of which    *)
(* waits for the next.                                                     *)
(***************************************************************************)

(* Of any transactions one has none of the others before it in a queue.    *)
FirstToServe ==
  \A S \in SUBSET Txn :
    S # {} => \E t \in S : \A s \in S : \A b \in Bucket : ~ Precedes(b, s, t)

LEMMA QueuedIsOutstanding ==
  ASSUME LockInv, NEW b \in Bucket, NEW s \in Txn, NEW t \in Txn, Precedes(b, s, t)
  PROVE  Outstanding(s) /\ Outstanding(t)
<1>1. PICK i \in Positions(b, s), j \in Positions(b, t) : TRUE
  BY DEF Precedes
<1> QED
  BY <1>1 DEF LockInv, QueueShape, Positions, Outstanding

(* The transaction that is locked is behind all the others.                *)
LEMMA LockKeepsFirst ==
  ASSUME LockInv, FirstToServe, NEW t \in Txn, Lock(t)
  PROVE  FirstToServe'
<1> SUFFICES ASSUME NEW S \in SUBSET Txn, S # {}
             PROVE  \E u \in S : \A s \in S : \A b \in Bucket : ~ Precedes(b, s, u)'
  BY DEF FirstToServe
<1>1. ~ Outstanding(t)
  BY DEF Lock, Outstanding
<1>2. ASSUME NEW b \in Bucket, NEW s \in Txn, NEW u \in Txn \ {t}
      PROVE  Precedes(b, s, u)' <=> Precedes(b, s, u)
  BY LockQueues
<1>3. CASE S \ {t} # {}
  <2>1. PICK u \in S \ {t} : \A s \in S \ {t} : \A b \in Bucket : ~ Precedes(b, s, u)
    BY <1>3 DEF FirstToServe
  <2>2. \A b \in Bucket : ~ Precedes(b, t, u)
    BY <1>1, QueuedIsOutstanding
  <2>3. \A s \in S : \A b \in Bucket : ~ Precedes(b, s, u)'
    BY <1>2, <2>1, <2>2
  <2> QED
    BY <2>1, <2>3
<1>4. CASE S = {t}
  <2>1. \A b \in Bucket : ~ Precedes(b, t, t)'
    BY <1>1, LockQueues DEF Outstanding
  <2> QED
    BY <1>4, <2>1
<1> QED
  BY <1>3, <1>4

LEMMA FirstKept ==
  ASSUME FirstToServe,
         \A b \in Bucket : \A s, t \in Txn : Precedes(b, s, t)' => Precedes(b, s, t)
  PROVE  FirstToServe'
BY DEF FirstToServe

LEMMA FirstNext == LockInv /\ FirstToServe /\ [LockNext]_lockVars => FirstToServe'
<1> SUFFICES ASSUME LockInv, FirstToServe, [LockNext]_lockVars PROVE FirstToServe'
  OBVIOUS
<1>1. ASSUME NEW t \in Txn, Lock(t) PROVE FirstToServe'
  BY <1>1, LockKeepsFirst
<1>2. CASE PopReady \/ UNCHANGED lockVars
  <2>1. \A b \in Bucket : \A s, t \in Txn : Precedes(b, s, t)' <=> Precedes(b, s, t)
    BY <1>2 DEF PopReady, lockVars, Precedes, Positions
  <2> QED
    BY <2>1, FirstKept
<1>3. ASSUME NEW t \in Txn, ReleaseLocks(t) PROVE FirstToServe'
  <2>1. ASSUME NEW b \in Bucket, NEW s \in Txn, NEW u \in Txn, Precedes(b, s, u)'
        PROVE  Precedes(b, s, u)
    <3>1. Positions(b, t)' = {}
      BY <1>3, ReleaseQueue
    <3>2. s # t /\ u # t
      BY <2>1, <3>1 DEF Precedes
    <3> QED
      BY <1>3, <2>1, <3>2, ReleaseQueue
  <2> QED
    BY <2>1, FirstKept
<1> QED
  BY <1>1, <1>2, <1>3 DEF LockNext, Release, Cancel

LEMMA SomeoneIsFirst == LockSpec => []FirstToServe
<1>1. LockInit => FirstToServe
  BY DEF LockInit, FirstToServe, Precedes, Positions
<1> QED
  BY <1>1, FirstNext, InvariantHolds, PTL DEF LockSpec

LEMMA SomeoneHasLocks ==
  ASSUME LockInv, FirstToServe, NEW u \in Txn, Outstanding(u)
  PROVE  \E t \in Txn : Ready(t) \/ phase[t] = "executing"
<1> DEFINE S == {t \in Txn : Outstanding(t)}
<1>1. PICK t \in S : \A s \in S : \A b \in Bucket : ~ Precedes(b, s, t)
  BY DEF FirstToServe
<1>2. Blockers(t) = {}
  BY <1>1, QueuedIsOutstanding DEF Blockers
<1>3. WaitingBuckets(t) = {}
  BY <1>2, WaitingMeansBlocked
<1>4. Ready(t) \/ phase[t] = "executing"
  <2> SUFFICES ASSUME phase[t] = "locked", ~ Ready(t) PROVE FALSE
    BY DEF Outstanding
  <2>1. txn_waits[t] = Cardinality({}) /\ txn_waits[t] > 0
    BY <1>3 DEF LockInv, WaitsExact
  <2> QED
    BY <2>1, FS_EmptySet
<1> QED
  BY <1>4

(* The lock manager never deadlocks: as long as transactions are between   *)
(* Lock() and Release(), one of them has all its locks, whatever keys      *)
(* collide, in whatever order they call and whichever are cancelled.       *)
THEOREM LocksNeverDeadlock ==
  LockSpec => []((\E u \in Txn : Outstanding(u))
                   => \E t \in Txn : Ready(t) \/ phase[t] = "executing")
<1>1. LockInv /\ FirstToServe =>
        ((\E u \in Txn : Outstanding(u))
           => \E t \in Txn : Ready(t) \/ phase[t] = "executing")
  BY SomeoneHasLocks
<1> QED
  BY <1>1, InvariantHolds, SomeoneIsFirst, PTL

-----------------------------------------------------------------------------
(***************************************************************************)
(* The scheduler, which drives the lock manager.                           *)
(***************************************************************************)

InPhase(p) == {t \in Txn : phase[t] = p}

(* The two counters of the loop, each by itself.                           *)
Counted ==
  /\ pending_txns = Cardinality(InPhase("locked"))
  /\ executing_txns = Cardinality(InPhase("executing"))

(* The loop locks transactions of a batch it has.                          *)
HasBatch == pc = "lock" => batch_message # NoBatch

BaseInv == LockInv /\ SchedTypeOK /\ Counted /\ HasBatch

-----------------------------------------------------------------------------
(***************************************************************************)
(* The loop and the lock manager.                                          *)
(***************************************************************************)

LEMMA Sizes ==
  /\ Len(Batch) \in Nat
  /\ \A n \in Numbers : n \in Nat /\ n + 1 \in 1..Len(Batch)
  /\ \A n \in Numbers :
       /\ Batch[n + 1] \in Seq(Txn) /\ Len(Batch[n + 1]) \in Nat
       /\ DOMAIN Batch[n + 1] = 1..Len(Batch[n + 1])
       /\ \A i \in DOMAIN Batch[n + 1] : i \in Nat /\ Batch[n + 1][i] \in Txn
<1>1. Batch \in Seq(Seq(Txn))
  BY SchedulerAssumption
<1>2. Len(Batch) \in Nat
  BY <1>1, LenProperties
<1>3. \A n \in Numbers : n \in Nat /\ n + 1 \in 1..Len(Batch)
  BY <1>2 DEF Numbers
<1>4. \A n \in Numbers : Batch[n + 1] \in Seq(Txn)
  BY <1>1, <1>3, ElementOfSeq
<1>5. QED
  BY <1>2, <1>3, <1>4, LenProperties, ElementOfSeq

LEMMA PhasesFinite ==
  \A p : IsFiniteSet(InPhase(p)) /\ Cardinality(InPhase(p)) \in Nat
<1> SUFFICES ASSUME NEW p PROVE IsFiniteSet(InPhase(p)) /\ Cardinality(InPhase(p)) \in Nat
  OBVIOUS
<1>1. InPhase(p) \in SUBSET Txn
  BY DEF InPhase
<1>2. IsFiniteSet(InPhase(p))
  BY <1>1, LockManagerAssumption, FS_Subset
<1>3. QED
  BY <1>2, FS_CardinalityType

(* What the loop may lock next.                                            *)
LEMMA CurrentTxn ==
  ASSUME BaseInv, batch_message # NoBatch, batch_offset < Len(Current)
  PROVE  /\ batch_message \in Numbers
         /\ batch_offset + 1 \in DOMAIN Current
         /\ Current[batch_offset + 1] \in Txn
<1>1. batch_message \in Numbers /\ batch_offset \in Nat
  BY DEF BaseInv, SchedTypeOK
<1>2. QED
  BY <1>1, Sizes DEF Current

(* GetBatch yields the batch asked for, or none.                           *)
LEMMA GetBatchType ==
  ASSUME BaseInv, NEW id \in Nat, GetBatch(id)
  PROVE  /\ batch_message' \in Numbers \cup {NoBatch}
         /\ batch_message' # NoBatch => batch_message' = id
         /\ batches' \subseteq Numbers /\ inbox' \in Seq(Numbers)
<1>1. /\ batches \subseteq Numbers /\ inbox \in Seq(Numbers) /\ Len(inbox) \in Nat
      /\ DOMAIN inbox = 1..Len(inbox)
      /\ \A i \in 1..Len(inbox) : inbox[i] \in Numbers
  BY LenProperties, ElementOfSeq DEF BaseInv, SchedTypeOK
<1>2. CASE id \in batches /\ batch_message' = id /\ batches' = batches \ {id} /\ inbox' = inbox
  BY <1>1, <1>2
<1>3. ASSUME NEW i \in DOMAIN inbox, inbox[i] = id, batch_message' = id,
             batches' = batches \cup {inbox[j] : j \in 1..(i - 1)},
             inbox' = SubSeq(inbox, i + 1, Len(inbox))
      PROVE  /\ batch_message' \in Numbers /\ batch_message' = id
             /\ batches' \subseteq Numbers /\ inbox' \in Seq(Numbers)
  <2>1. \A j \in 1..(i - 1) : j \in 1..Len(inbox)
    BY <1>1, <1>3
  <2>2. batches' \subseteq Numbers
    BY <1>1, <1>3, <2>1
  <2>3. \A j \in (i + 1)..Len(inbox) : inbox[j] \in Numbers
    BY <1>1, <1>3
  <2>4. SubSeq(inbox, i + 1, Len(inbox)) \in Seq(Numbers)
    BY <1>1, <2>3, SubSeqProperties
  <2>5. QED
    BY <1>1, <1>3, <2>2, <2>4
<1>4. CASE batch_message' = NoBatch /\ batches' = batches \cup Range(inbox) /\ inbox' = <<>>
  <2>1. Range(inbox) \subseteq Numbers
    BY <1>1 DEF Range
  <2>2. QED
    BY <1>1, <1>4, <2>1
<1>5. QED
  BY <1>2, <1>3, <1>4 DEF GetBatch

LEMMA BaseInit == Init => BaseInv
<1> SUFFICES ASSUME Init PROVE BaseInv
  OBVIOUS
<1>1. LockInv
  BY LockInitInv DEF Init
<1>2. SchedTypeOK
  BY <1>1, SchedulerAssumption DEF Init, LockInv, SchedTypeOK
<1>3. InPhase("locked") = {} /\ InPhase("executing") = {}
  BY DEF Init, LockInit, InPhase
<1>4. QED
  BY <1>1, <1>2, <1>3, FS_EmptySet DEF Init, BaseInv, Counted, HasBatch

(* Every step of the scheduler is one of the lock manager, or none of its. *)
LEMMA LockSteps ==
  ASSUME BaseInv, [Next]_vars
  PROVE  \/ /\ LockTxn /\ Lock(Current[batch_offset + 1])
         \/ /\ StartReady /\ PopReady
         \/ HandleResponse /\ \E t \in Txn : Release(t)
         \/ UNCHANGED <<lockVars, pending_txns, executing_txns>>
<1>1. CASE HandleResponse
  <2>1. PICK h \in Thread : responses[h] # <<>> /\ Release(Head(responses[h]))
    BY <1>1 DEF HandleResponse
  <2>2. Head(responses[h]) \in Txn
    BY <2>1, HeadTailProperties DEF BaseInv, SchedTypeOK
  <2>3. QED
    BY <1>1, <2>1, <2>2
<1>2. CASE MainLoop /\ ~ HandleResponse
  BY <1>2 DEF MainLoop, AwaitBatch, NextBatch, BeginLocking, LockTxn, EndLocking,
              StartReady, EndDrain
<1>3. ASSUME NEW h \in Thread, Worker(h) PROVE UNCHANGED <<lockVars, pending_txns, executing_txns>>
  BY <1>3 DEF Worker, TakeRequest, RemoteRead, Respond, loopVars
<1>4. ASSUME NEW n \in Numbers, Deliver(n) PROVE UNCHANGED <<lockVars, pending_txns, executing_txns>>
  BY <1>4 DEF Deliver, loopVars
<1>5. CASE UNCHANGED vars
  BY <1>5 DEF vars, loopVars
<1>6. QED
  BY <1>1, <1>2, <1>3, <1>4, <1>5 DEF Next

(* How the phases change, and the counters with them.                      *)
LEMMA LockCounts ==
  ASSUME BaseInv, LockTxn, Lock(Current[batch_offset + 1])
  PROVE  LockInv' /\ Counted' /\ pending_txns' \in Nat
<1> DEFINE t == Current[batch_offset + 1]
<1>1. t \in Txn
  BY CurrentTxn DEF BaseInv, HasBatch, LockTxn
<1>2. LockInv'
  BY <1>1, LockPreserves DEF BaseInv
<1> HIDE DEF t
<1>3. /\ phase \in [Txn -> {"new", "locked", "executing", "done"}]
      /\ phase[t] = "new" /\ phase' = [phase EXCEPT ![t] = "locked"]
      /\ pending_txns' = pending_txns + 1 /\ executing_txns' = executing_txns
  BY DEF BaseInv, LockInv, LockTypeOK, LockTxn, Lock, t
<1>4. /\ InPhase("locked")' = InPhase("locked") \cup {t} /\ t \notin InPhase("locked")
      /\ InPhase("executing")' = InPhase("executing")
  BY <1>1, <1>3 DEF InPhase
<1>5. Cardinality(InPhase("locked")') = Cardinality(InPhase("locked")) + 1
  BY <1>4, PhasesFinite, FS_AddElement
<1>6. QED
  BY <1>2, <1>3, <1>4, <1>5, PhasesFinite DEF BaseInv, Counted

LEMMA StartCounts ==
  ASSUME BaseInv, StartReady, PopReady
  PROVE  /\ LockInv' /\ Counted' /\ pending_txns' \in Nat /\ executing_txns' \in Nat
         /\ Head(ready_txns) \in Txn /\ phase[Head(ready_txns)] = "locked"
<1> DEFINE t == Head(ready_txns)
<1>1. LockInv'
  BY PopReadyPreserves DEF BaseInv
<1>2. /\ ready_txns \in Seq(Txn) /\ ready_txns # <<>>
      /\ phase \in [Txn -> {"new", "locked", "executing", "done"}]
      /\ phase' = [phase EXCEPT ![t] = "executing"]
      /\ pending_txns' = pending_txns - 1 /\ executing_txns' = executing_txns + 1
  BY DEF BaseInv, LockInv, LockTypeOK, StartReady, PopReady, CountStarted
<1>3. t \in Txn /\ t = ready_txns[1] /\ Len(ready_txns) \in Nat /\ Len(ready_txns) > 0
  BY <1>2, HeadTailProperties, LenProperties, EmptySeq
<1>4. phase[t] = "locked"
  BY <1>3 DEF BaseInv, LockInv, ReadyOnce
<1> HIDE DEF t
<1>5. /\ InPhase("locked")' = InPhase("locked") \ {t} /\ t \in InPhase("locked")
      /\ InPhase("executing")' = InPhase("executing") \cup {t} /\ t \notin InPhase("executing")
  BY <1>2, <1>3, <1>4 DEF InPhase
<1>6. /\ Cardinality(InPhase("locked")') = Cardinality(InPhase("locked")) - 1
      /\ Cardinality(InPhase("executing")') = Cardinality(InPhase("executing")) + 1
  <2>1. IsFiniteSet(InPhase("locked")) /\ IsFiniteSet(InPhase("executing"))
    BY PhasesFinite
  <2>2. Cardinality(InPhase("locked") \ {t}) = Cardinality(InPhase("locked")) - 1
    BY <1>5, <2>1, FS_RemoveElement
  <2>3. Cardinality(InPhase("executing") \cup {t}) = Cardinality(InPhase("executing")) + 1
    BY <1>5, <2>1, FS_AddElement
  <2>4. QED
    BY <1>5, <2>2, <2>3
<1>7. /\ Cardinality(InPhase("locked")') \in Nat
      /\ Cardinality(InPhase("executing")') \in Nat
  <2>1. InPhase("locked")' \in SUBSET InPhase("locked")
    BY <1>5
  <2>2. IsFiniteSet(InPhase("locked")') /\ IsFiniteSet(InPhase("executing")')
    BY <1>5, <2>1, PhasesFinite, FS_Subset, FS_AddElement
  <2>3. QED
    BY <2>2, FS_CardinalityType
<1>8. QED
  <2>1. Counted'
    BY <1>2, <1>6, PhasesFinite DEF BaseInv, Counted
  <2>2. QED
    BY <1>1, <1>3, <1>4, <1>7, <2>1 DEF Counted, t

LEMMA ReleaseCounts ==
  ASSUME BaseInv, HandleResponse, NEW t \in Txn, Release(t)
  PROVE  LockInv' /\ Counted' /\ executing_txns' \in Nat
<1>1. LockInv'
  BY ExecutingNotReady, ReleasePreserves DEF BaseInv, Release
<1>2. /\ phase \in [Txn -> {"new", "locked", "executing", "done"}]
      /\ phase[t] = "executing" /\ phase' = [phase EXCEPT ![t] = "done"]
      /\ executing_txns' = executing_txns - 1 /\ pending_txns' = pending_txns
  BY DEF BaseInv, LockInv, LockTypeOK, HandleResponse, Release, ReleaseLocks
<1>3. /\ InPhase("executing")' = InPhase("executing") \ {t} /\ t \in InPhase("executing")
      /\ InPhase("locked")' = InPhase("locked")
  BY <1>2 DEF InPhase
<1>4. Cardinality(InPhase("executing")') = Cardinality(InPhase("executing")) - 1
  BY <1>3, PhasesFinite, FS_RemoveElement
<1>5. Cardinality(InPhase("executing")') \in Nat
  <2>1. InPhase("executing")' \in SUBSET InPhase("executing")
    BY <1>3
  <2>2. QED
    BY <2>1, PhasesFinite, FS_Subset, FS_CardinalityType
<1>6. QED
  BY <1>1, <1>2, <1>3, <1>4, <1>5 DEF BaseInv, Counted

LEMMA LockStateKept ==
  ASSUME BaseInv, UNCHANGED <<lockVars, pending_txns, executing_txns>>
  PROVE  LockInv' /\ Counted'
<1>1. LockInv'
  BY StepPreserves DEF BaseInv, lockVars
<1>2. \A p : InPhase(p)' = InPhase(p)
  BY DEF InPhase, lockVars
<1>3. QED
  BY <1>1, <1>2 DEF BaseInv, Counted

LEMMA LockAndCounts ==
  ASSUME BaseInv, [Next]_vars
  PROVE  LockInv' /\ Counted' /\ pending_txns' \in Nat /\ executing_txns' \in Nat
<1>1. pending_txns \in Nat /\ executing_txns \in Nat
  BY DEF BaseInv, SchedTypeOK
<1>2. QED
  BY <1>1, LockSteps, LockCounts, StartCounts, ReleaseCounts, LockStateKept
     DEF LockTxn, HandleResponse

LEMMA BaseNext == BaseInv /\ [Next]_vars => BaseInv'
<1> SUFFICES ASSUME BaseInv, [Next]_vars PROVE BaseInv'
  OBVIOUS
<1>1. LockInv' /\ LockTypeOK' /\ Counted' /\ pending_txns' \in Nat /\ executing_txns' \in Nat
  BY LockAndCounts DEF LockInv
<1> DEFINE MailOK == delivered \subseteq Numbers /\ inbox \in Seq(Numbers) /\ batches \subseteq Numbers
           LoopOK == /\ batch_message \in Numbers \cup {NoBatch}
                     /\ batch_offset \in Nat /\ batch_number \in Nat /\ grabbed \in 0..GrabLimit
                     /\ pc \in {"top", "lock", "drain", "aborted"}
           WorkOK == /\ requests \in Seq(Txn) /\ responses \in [Thread -> Seq(Txn)]
                     /\ active \in [Thread -> SUBSET WritesHere]
                     /\ executes \in [Thread -> Txn \cup {NoTxn}]
                     /\ reads \in [Txn -> SUBSET UNION {RemoteReaders[t] : t \in Txn}]
<1>2. MailOK /\ LoopOK /\ WorkOK /\ HasBatch /\ GrabLimit \in Nat
  BY SchedulerAssumption DEF BaseInv, SchedTypeOK
<1>3. SUFFICES MailOK' /\ LoopOK' /\ WorkOK' /\ HasBatch'
  BY <1>1 DEF BaseInv, SchedTypeOK
<1>4. CASE HandleResponse
  <2>1. PICK h \in Thread : /\ responses[h] # <<>>
                            /\ responses' = [responses EXCEPT ![h] = Tail(@)]
    BY <1>4 DEF HandleResponse
  <2>2. Tail(responses[h]) \in Seq(Txn)
    BY <1>2, <2>1, HeadTailProperties
  <2>3. WorkOK'
    BY <1>2, <1>4, <2>1, <2>2 DEF HandleResponse, workVars
  <2>4. QED
    BY <1>2, <1>4, <2>3 DEF HandleResponse, mailVars, HasBatch
<1>5. CASE AwaitBatch
  <2>1. MailOK' /\ batch_message' \in Numbers \cup {NoBatch}
    BY <1>2, <1>5, GetBatchType DEF AwaitBatch
  <2>2. QED
    BY <1>2, <1>5, <2>1 DEF AwaitBatch, workVars, HasBatch
<1>6. CASE NextBatch
  <2>1. batch_number + 1 \in Nat
    BY <1>2
  <2>2. MailOK' /\ batch_message' \in Numbers \cup {NoBatch}
    BY <1>2, <1>6, <2>1, GetBatchType DEF NextBatch
  <2>3. QED
    BY <1>2, <1>6, <2>1, <2>2 DEF NextBatch, workVars, HasBatch
<1>7. CASE BeginLocking
  BY <1>2, <1>7 DEF BeginLocking, mailVars, workVars, HasBatch
<1>8. CASE LockTxn
  BY <1>2, <1>8 DEF LockTxn, mailVars, workVars, HasBatch
<1>9. CASE EndLocking
  BY <1>2, <1>9 DEF EndLocking, mailVars, workVars, HasBatch
<1>10. CASE StartReady
  <2>1. Append(requests, Head(ready_txns)) \in Seq(Txn)
    BY <1>2, <1>10, StartCounts, AppendProperties DEF StartReady
  <2>2. QED
    BY <1>2, <1>10, <2>1 DEF StartReady, mailVars, workVars, HasBatch
<1>11. CASE EndDrain
  BY <1>2, <1>11 DEF EndDrain, mailVars, workVars, HasBatch
<1>12. ASSUME NEW h \in Thread, TakeRequest(h)
       PROVE  MailOK' /\ LoopOK' /\ WorkOK' /\ HasBatch'
  <2>1. Head(requests) \in Txn /\ Tail(requests) \in Seq(Txn)
    BY <1>2, <1>12, HeadTailProperties DEF TakeRequest
  <2>2. requests' = Tail(requests) /\ reads' = reads /\ responses' = responses
    BY <1>12 DEF TakeRequest
  <2>3. active' \in [Thread -> SUBSET WritesHere] /\ executes' \in [Thread -> Txn \cup {NoTxn}]
    BY <1>2, <1>12, <2>1 DEF TakeRequest
  <2>4. QED
    BY <1>2, <1>12, <2>1, <2>2, <2>3 DEF TakeRequest, loopVars, mailVars, HasBatch
<1>13. ASSUME NEW h \in Thread, NEW t \in Txn, NEW n \in RemoteReaders[t], RemoteRead(h, t, n)
       PROVE  MailOK' /\ LoopOK' /\ WorkOK' /\ HasBatch'
  <2>1. active' \in [Thread -> SUBSET WritesHere] /\ executes' \in [Thread -> Txn \cup {NoTxn}]
    BY <1>2, <1>13 DEF RemoteRead, Erase
  <2>2. reads' \in [Txn -> SUBSET UNION {RemoteReaders[u] : u \in Txn}]
    BY <1>2, <1>13 DEF RemoteRead
  <2>3. QED
    BY <1>2, <1>13, <2>1, <2>2 DEF RemoteRead, loopVars, mailVars, HasBatch
<1>17. ASSUME NEW h \in Thread, Respond(h)
       PROVE  MailOK' /\ LoopOK' /\ WorkOK' /\ HasBatch'
  <2>1. executes[h] \in Txn /\ responses[h] \in Seq(Txn)
    BY <1>2, <1>17 DEF Respond
  <2>2. Append(responses[h], executes[h]) \in Seq(Txn)
    BY <2>1, AppendProperties
  <2>3. WorkOK'
    BY <1>2, <1>17, <2>2 DEF Respond
  <2>4. QED
    BY <1>2, <1>17, <2>3 DEF Respond, loopVars, mailVars, HasBatch
<1>14. ASSUME NEW n \in Numbers, Deliver(n)
       PROVE  MailOK' /\ LoopOK' /\ WorkOK' /\ HasBatch'
  <2>1. Append(inbox, n) \in Seq(Numbers)
    BY <1>2, AppendProperties
  <2>2. QED
    BY <1>2, <1>14, <2>1 DEF Deliver, loopVars, workVars, HasBatch
<1>15. CASE UNCHANGED vars
  BY <1>2, <1>15 DEF vars, loopVars, mailVars, workVars, HasBatch
<1>16. QED
  BY <1>4, <1>5, <1>6, <1>7, <1>8, <1>9, <1>10, <1>11, <1>12, <1>13, <1>14, <1>15, <1>17
     DEF Next, MainLoop, Worker

LEMMA BaseHolds == Spec => []BaseInv
BY BaseInit, BaseNext, PTL DEF Spec

(* Types; in particular the loop's counters never go below zero.           *)
THEOREM SchedulerTypeCorrect == Spec => []SchedTypeOK
<1>1. BaseInv => SchedTypeOK
  BY DEF BaseInv
<1>2. QED
  BY <1>1, BaseHolds, PTL

(* The scheduler drives its lock manager as the lock manager expects:      *)
(* every transaction is locked once and released after it has executed     *)
(* (scheduler.cc:268-401), so what is proved of LockManager holds here.    *)
THEOREM DrivesLockManager == Spec => LockSpec
<1>1. Init => LockInit
  BY DEF Init
<1>2. BaseInv /\ [Next]_vars => [LockNext]_lockVars
  <2> SUFFICES ASSUME BaseInv, [Next]_vars PROVE [LockNext]_lockVars
    OBVIOUS
  <2>1. LockTxn => Current[batch_offset + 1] \in Txn
    BY CurrentTxn DEF LockTxn, BaseInv, HasBatch
  <2>2. QED
    BY <2>1, LockSteps DEF LockNext
<1>3. QED
  BY <1>1, <1>2, BaseHolds, PTL DEF Spec, LockSpec

-----------------------------------------------------------------------------
(***************************************************************************)
(* The throttle.                                                           *)
(***************************************************************************)

(* While the loop locks, what is beyond the limit was locked in this turn. *)
Limited ==
  /\ executing_txns + pending_txns < MaxInFlight + GrabLimit
  /\ pc = "lock" => executing_txns + pending_txns < MaxInFlight + grabbed

LEMMA LimitedNext == BaseInv /\ Limited /\ [Next]_vars => Limited'
<1> SUFFICES ASSUME BaseInv, Limited, [Next]_vars PROVE Limited'
  OBVIOUS
<1>1. /\ executing_txns \in Nat /\ pending_txns \in Nat /\ grabbed \in 0..GrabLimit
      /\ GrabLimit \in Nat \ {0} /\ MaxInFlight \in Nat \ {0}
  BY SchedulerAssumption DEF BaseInv, SchedTypeOK
<1> USE DEF Limited
<1>2. CASE HandleResponse
  BY <1>1, <1>2 DEF HandleResponse
<1>3. CASE BeginLocking
  BY <1>1, <1>3 DEF BeginLocking, Room
<1>4. CASE LockTxn
  BY <1>1, <1>4 DEF LockTxn
<1>5. CASE StartReady
  BY <1>1, <1>5 DEF StartReady, CountStarted
<1>6. CASE AwaitBatch \/ NextBatch \/ EndLocking \/ EndDrain
  BY <1>1, <1>6 DEF AwaitBatch, NextBatch, EndLocking, EndDrain
<1>7. CASE \E h \in Thread : Worker(h)
  BY <1>7 DEF Worker, TakeRequest, RemoteRead, Respond, loopVars
<1>8. CASE \E n \in Numbers : Deliver(n)
  BY <1>8 DEF Deliver, loopVars
<1>9. CASE UNCHANGED vars
  BY <1>9 DEF vars, loopVars
<1>10. QED
  BY <1>2, <1>3, <1>4, <1>5, <1>6, <1>7, <1>8, <1>9 DEF Next, MainLoop

(* The two counters add up to the transactions between Lock() and          *)
(* Release(), and one turn of the loop overshoots the limit by less than   *)
(* what it grabs (scheduler.cc:318-332).                                   *)
THEOREM ThrottleHolds == Spec => []Throttled
<1>1. Init => Limited
  BY SchedulerAssumption DEF Init, Limited
<1>2. BaseInv /\ Limited => Throttled
  <2> SUFFICES ASSUME BaseInv, Limited PROVE Throttled
    OBVIOUS
  <2> DEFINE L == InPhase("locked")  E == InPhase("executing")
  <2>1. InFlight = L \cup E /\ L \cap E = {}
    BY DEF InFlight, InPhase
  <2>2. IsFiniteSet(L) /\ IsFiniteSet(E)
    BY PhasesFinite
  <2>3. /\ Cardinality(L) = pending_txns /\ pending_txns \in Nat
        /\ Cardinality(E) = executing_txns /\ executing_txns \in Nat
    BY DEF BaseInv, Counted, SchedTypeOK
  <2> HIDE DEF L, E
  <2>4. Cardinality(L \cup E) = Cardinality(L) + Cardinality(E) - Cardinality(L \cap E)
    BY <2>2, FS_Union
  <2>5. Cardinality(InFlight) = executing_txns + pending_txns
    BY <2>1, <2>3, <2>4, FS_EmptySet
  <2>6. QED
    BY <2>5 DEF Throttled, Limited
<1>3. QED
  BY <1>1, <1>2, LimitedNext, BaseHolds, PTL DEF Spec

-----------------------------------------------------------------------------
(***************************************************************************)
(* The order.  Transactions are locked in the pre-determined order, so the *)
(* requests in every queue are in that order, and a transaction that holds *)
(* its locks has no unfinished conflicting predecessor.                    *)
(***************************************************************************)

Locked(n, i) == n < batch_number \/ (n = batch_number /\ i <= batch_offset)

Cursor ==
  /\ batch_message # NoBatch => batch_message = batch_number
  /\ batch_message = NoBatch => batch_offset = 0
  /\ \A n \in Numbers : \A i \in DOMAIN Batch[n + 1] :
       phase[Batch[n + 1][i]] # "new" <=> Locked(n, i)

LEMMA CursorInit == Init => Cursor
<1> SUFFICES ASSUME Init PROVE Cursor
  OBVIOUS
<1>1. ASSUME NEW n \in Numbers, NEW i \in DOMAIN Batch[n + 1]
      PROVE  phase[Batch[n + 1][i]] = "new" /\ ~ Locked(n, i)
  BY <1>1, Sizes DEF Init, LockInit, Locked
<1>2. QED
  BY <1>1 DEF Init, Cursor

(* Every place in the batches holds a transaction of its own.              *)
LEMMA PlacesUnique ==
  ASSUME NEW m \in Numbers, NEW n \in Numbers,
         NEW i \in DOMAIN Batch[m + 1], NEW j \in DOMAIN Batch[n + 1],
         Batch[m + 1][i] = Batch[n + 1][j]
  PROVE  m = n /\ i = j
BY SchedulerAssumption

(* No phase changes from or to "new", and the loop stays where it is.      *)
LEMMA CursorKept ==
  ASSUME Cursor, UNCHANGED <<batch_message, batch_offset, batch_number>>,
         \A t \in Txn : phase'[t] = "new" <=> phase[t] = "new"
  PROVE  Cursor'
<1>1. \A n \in Numbers : \A i \in DOMAIN Batch[n + 1] : Batch[n + 1][i] \in Txn
  BY Sizes
<1>2. QED
  BY <1>1 DEF Cursor, Locked

LEMMA CursorNext == BaseInv /\ Cursor /\ [Next]_vars => Cursor'
<1> SUFFICES ASSUME BaseInv, Cursor, [Next]_vars PROVE Cursor'
  OBVIOUS
<1>1. /\ phase \in [Txn -> {"new", "locked", "executing", "done"}]
      /\ batch_number \in Nat /\ batch_offset \in Nat
      /\ batch_message \in Numbers \cup {NoBatch}
  BY DEF BaseInv, LockInv, LockTypeOK, SchedTypeOK
<1>2. CASE LockTxn
  <2> DEFINE t == Current[batch_offset + 1]
  <2>1. batch_message # NoBatch /\ batch_offset < Len(Current)
    BY <1>2 DEF LockTxn, BaseInv, HasBatch
  <2>2. /\ batch_number \in Numbers /\ batch_message = batch_number
        /\ batch_offset + 1 \in DOMAIN Batch[batch_number + 1]
        /\ t = Batch[batch_number + 1][batch_offset + 1] /\ t \in Txn
    BY <2>1, CurrentTxn DEF Cursor, Current
  <2>3. /\ phase' = [phase EXCEPT ![t] = "locked"]
        /\ batch_offset' = batch_offset + 1
        /\ UNCHANGED <<batch_message, batch_number>>
    BY <1>2 DEF LockTxn, Lock
  <2> HIDE DEF t
  <2>4. ASSUME NEW n \in Numbers, NEW i \in DOMAIN Batch[n + 1]
        PROVE  phase'[Batch[n + 1][i]] # "new" <=> Locked(n, i)'
    <3>1. Batch[n + 1][i] \in Txn /\ n \in Nat /\ i \in Nat
      BY <2>4, Sizes
    <3>2. phase[Batch[n + 1][i]] # "new" <=> Locked(n, i)
      BY <2>4 DEF Cursor
    <3>3. CASE n = batch_number /\ i = batch_offset + 1
      <4>1. phase'[Batch[n + 1][i]] = "locked"
        BY <1>1, <2>2, <2>3, <3>3
      <4>2. Locked(n, i)'
        BY <1>1, <2>3, <3>3 DEF Locked
      <4>3. QED
        BY <4>1, <4>2
    <3>4. CASE ~ (n = batch_number /\ i = batch_offset + 1)
      <4>1. Batch[n + 1][i] # t
        BY <2>2, <2>4, <3>4, PlacesUnique
      <4>2. phase'[Batch[n + 1][i]] = phase[Batch[n + 1][i]]
        BY <1>1, <2>3, <3>1, <4>1
      <4>3. Locked(n, i)' <=> Locked(n, i)
        BY <1>1, <2>3, <3>1, <3>4 DEF Locked
      <4>4. QED
        BY <3>2, <4>2, <4>3
    <3>5. QED
      BY <3>3, <3>4
  <2>5. QED
    BY <2>1, <2>2, <2>3, <2>4 DEF Cursor
<1>3. CASE NextBatch
  <2>1. /\ batch_message = batch_number /\ batch_number \in Numbers
        /\ batch_offset >= Len(Batch[batch_number + 1])
        /\ batch_offset' = 0 /\ batch_number' = batch_number + 1 /\ phase' = phase
    BY <1>1, <1>3 DEF NextBatch, Cursor, Current, lockVars
  <2>2. batch_message' # NoBatch => batch_message' = batch_number'
    BY <1>1, <1>3, <2>1, GetBatchType DEF NextBatch
  <2>3. ASSUME NEW n \in Numbers, NEW i \in DOMAIN Batch[n + 1]
        PROVE  Locked(n, i)' <=> Locked(n, i)
    <3>1. n \in Nat /\ i \in 1..Len(Batch[n + 1]) /\ Len(Batch[n + 1]) \in Nat
      BY <2>3, Sizes
    <3>2. QED
      BY <1>1, <2>1, <3>1 DEF Locked
  <2>4. QED
    BY <2>1, <2>2, <2>3 DEF Cursor
<1>4. CASE AwaitBatch
  <2>1. batch_message' # NoBatch => batch_message' = batch_number'
    BY <1>1, <1>4, GetBatchType DEF AwaitBatch
  <2>2. /\ batch_offset = 0 /\ batch_offset' = 0 /\ batch_number' = batch_number
        /\ phase' = phase
    BY <1>4 DEF AwaitBatch, Cursor, lockVars
  <2>3. QED
    BY <2>1, <2>2 DEF Cursor, Locked
<1>5. CASE HandleResponse
  <2>1. PICK t \in Txn : phase[t] = "executing" /\ phase' = [phase EXCEPT ![t] = "done"]
    <3>1. PICK h \in Thread : responses[h] # <<>> /\ Release(Head(responses[h]))
      BY <1>5 DEF HandleResponse
    <3>2. Head(responses[h]) \in Txn
      BY <3>1, HeadTailProperties DEF BaseInv, SchedTypeOK
    <3>3. QED
      BY <3>1, <3>2 DEF Release, ReleaseLocks
  <2>2. QED
    BY <1>1, <1>5, <2>1, CursorKept DEF HandleResponse
<1>6. CASE StartReady
  <2>1. PICK t \in Txn : phase[t] = "locked" /\ phase' = [phase EXCEPT ![t] = "executing"]
    BY <1>6, StartCounts DEF StartReady, PopReady
  <2>2. QED
    BY <1>1, <1>6, <2>1, CursorKept DEF StartReady
<1>7. CASE BeginLocking \/ EndLocking \/ EndDrain
  BY <1>7, CursorKept DEF BeginLocking, EndLocking, EndDrain, lockVars
<1>8. CASE \E h \in Thread : Worker(h)
  BY <1>8, CursorKept DEF Worker, TakeRequest, RemoteRead, Respond, loopVars, lockVars
<1>9. CASE \E n \in Numbers : Deliver(n)
  BY <1>9, CursorKept DEF Deliver, loopVars, lockVars
<1>10. CASE UNCHANGED vars
  BY <1>10, CursorKept DEF vars, loopVars, lockVars
<1>11. QED
  BY <1>2, <1>3, <1>4, <1>5, <1>6, <1>7, <1>8, <1>9, <1>10 DEF Next, MainLoop

LEMMA EarlierAsymmetric ==
  ASSUME NEW s, NEW t, Earlier(s, t), Earlier(t, s)
  PROVE  FALSE
<1>1. PICK m \in Numbers, n \in Numbers :
        \E i \in DOMAIN Batch[m + 1] : \E j \in DOMAIN Batch[n + 1] :
          /\ s = Batch[m + 1][i] /\ t = Batch[n + 1][j]
          /\ m < n \/ (m = n /\ i < j)
  BY DEF Earlier
<1>2. PICK i \in DOMAIN Batch[m + 1], j \in DOMAIN Batch[n + 1] :
        /\ s = Batch[m + 1][i] /\ t = Batch[n + 1][j]
        /\ m < n \/ (m = n /\ i < j)
  BY <1>1
<1>3. PICK k \in Numbers, l \in Numbers :
        \E g \in DOMAIN Batch[k + 1] : \E h \in DOMAIN Batch[l + 1] :
          /\ t = Batch[k + 1][g] /\ s = Batch[l + 1][h]
          /\ k < l \/ (k = l /\ g < h)
  BY DEF Earlier
<1>4. PICK g \in DOMAIN Batch[k + 1], h \in DOMAIN Batch[l + 1] :
        /\ t = Batch[k + 1][g] /\ s = Batch[l + 1][h]
        /\ k < l \/ (k = l /\ g < h)
  BY <1>3
<1>5. Batch[l + 1][h] = Batch[m + 1][i] /\ Batch[k + 1][g] = Batch[n + 1][j]
  BY <1>2, <1>4
<1>6. l = m /\ h = i
  BY ONLY <1>5, l \in Numbers, m \in Numbers, h \in DOMAIN Batch[l + 1],
          i \in DOMAIN Batch[m + 1], PlacesUnique
<1>7. k = n /\ g = j
  BY ONLY <1>5, k \in Numbers, n \in Numbers, g \in DOMAIN Batch[k + 1],
          j \in DOMAIN Batch[n + 1], PlacesUnique
<1>8. m \in Nat /\ n \in Nat /\ i \in Nat /\ j \in Nat
  BY Sizes
<1>9. QED
  BY <1>2, <1>4, <1>6, <1>7, <1>8

(* A transaction is locked after all those before it.                      *)
LEMMA LockedInOrder ==
  ASSUME BaseInv, Cursor, NEW s, NEW t, Earlier(s, t), phase[t] # "new"
  PROVE  phase[s] # "new"
<1>1. PICK m \in Numbers, n \in Numbers :
        \E i \in DOMAIN Batch[m + 1] : \E j \in DOMAIN Batch[n + 1] :
          /\ s = Batch[m + 1][i] /\ t = Batch[n + 1][j]
          /\ m < n \/ (m = n /\ i < j)
  BY DEF Earlier
<1>2. PICK i \in DOMAIN Batch[m + 1], j \in DOMAIN Batch[n + 1] :
        /\ s = Batch[m + 1][i] /\ t = Batch[n + 1][j]
        /\ m < n \/ (m = n /\ i < j)
  BY <1>1
<1>3. Locked(n, j)
  BY <1>2 DEF Cursor
<1>4. /\ m \in Nat /\ n \in Nat /\ i \in Nat /\ j \in Nat
      /\ batch_number \in Nat /\ batch_offset \in Nat
  BY Sizes DEF BaseInv, SchedTypeOK
<1>5. Locked(m, i)
  BY <1>2, <1>3, <1>4 DEF Locked
<1>6. QED
  BY <1>2, <1>5 DEF Cursor

(* The transaction that is locked next comes after all those locked.       *)
LEMMA CurrentIsLast ==
  ASSUME BaseInv, Cursor, LockTxn, NEW s \in Txn, phase[s] # "new"
  PROVE  Earlier(s, Current[batch_offset + 1])
<1>1. batch_message # NoBatch /\ batch_offset < Len(Current)
  BY DEF LockTxn, BaseInv, HasBatch
<1>2. /\ batch_number \in Numbers
      /\ batch_offset + 1 \in DOMAIN Batch[batch_number + 1]
      /\ Current[batch_offset + 1] = Batch[batch_number + 1][batch_offset + 1]
  BY <1>1, CurrentTxn DEF Cursor, Current
<1>3. PICK m \in Numbers : s \in Range(Batch[m + 1])
  BY SchedulerAssumption
<1>4. PICK i \in DOMAIN Batch[m + 1] : s = Batch[m + 1][i]
  BY <1>3 DEF Range
<1>5. Locked(m, i)
  BY <1>4 DEF Cursor
<1>6. /\ m \in Nat /\ i \in Nat /\ batch_number \in Nat /\ batch_offset \in Nat
  BY <1>4, Sizes DEF BaseInv, SchedTypeOK
<1>7. m < batch_number \/ (m = batch_number /\ i < batch_offset + 1)
  BY <1>5, <1>6 DEF Locked
<1>8. QED
  BY <1>2, <1>4, <1>7 DEF Earlier

QueuesOrdered == \A b \in Bucket : \A s, t \in Txn : Precedes(b, s, t) => Earlier(s, t)

OrderInv == BaseInv /\ Cursor /\ QueuesOrdered /\ SerialOrder

LEMMA OrderInit == Init => OrderInv
<1> SUFFICES ASSUME Init PROVE OrderInv
  OBVIOUS
<1>1. QueuesOrdered
  BY DEF Init, LockInit, QueuesOrdered, Precedes, Positions
<1>2. SerialOrder
  BY DEF Init, LockInit, SerialOrder
<1>3. QED
  BY <1>1, <1>2, BaseInit, CursorInit DEF OrderInv

(* A transaction that holds its locks has no unfinished conflicting        *)
(* predecessor: its request would be held back behind that one's.          *)
LEMMA PredecessorsDone ==
  ASSUME OrderInv, NEW s \in Txn, NEW t \in Txn, Earlier(s, t), Conflicting(s, t),
         Ready(t)
  PROVE  phase[s] = "done"
<1>1. phase[t] = "locked" /\ WaitingBuckets(t) = {}
  BY ExecutingNotReady DEF OrderInv, BaseInv, LockInv, WaitsExact
<1>2. phase[s] # "new"
  BY <1>1, LockedInOrder DEF OrderInv
<1>3. SUFFICES ASSUME phase[s] \in {"locked", "executing"} PROVE FALSE
  BY <1>2 DEF OrderInv, BaseInv, LockInv, LockTypeOK
<1>4. PICK b \in Bucket : /\ b \in Buckets(s) /\ b \in Buckets(t)
                          /\ b \in WriteBuckets(s) \/ b \in WriteBuckets(t)
  BY BucketsType DEF Conflicting, Buckets
<1>5. QueueShape /\ lock_table[b] \in Seq(LockRequest)
  BY DEF OrderInv, BaseInv, LockInv, LockTypeOK
<1>6. PICK i \in Positions(b, s), j \in Positions(b, t) : TRUE
  BY <1>1, <1>3, <1>4, <1>5 DEF QueueShape
<1>7. /\ i \in 1..Len(lock_table[b]) /\ j \in 1..Len(lock_table[b]) /\ i # j
      /\ IsWrite(lock_table[b], i) \/ IsWrite(lock_table[b], j)
  BY <1>4, <1>5, <1>6 DEF QueueShape, Positions, Conflicting
<1>8. i < j \/ j < i
  BY <1>5, <1>7, LenProperties
<1>9. CASE i < j
  <2>1. HeldBack(lock_table[b], j)
    BY <1>5, <1>7, <1>9, LaterIsHeldBack
  <2>2. QED
    BY <1>1, <1>6, <2>1 DEF WaitingBuckets
<1>10. CASE j < i
  <2>1. Precedes(b, t, s)
    BY <1>6, <1>7, <1>10 DEF Precedes
  <2>2. QED
    BY <2>1, EarlierAsymmetric DEF OrderInv, QueuesOrdered
<1>11. QED
  BY <1>8, <1>9, <1>10

LEMMA QueuesOrderedNext == OrderInv /\ [Next]_vars => QueuesOrdered'
<1> SUFFICES ASSUME OrderInv, [Next]_vars, NEW b \in Bucket, NEW s \in Txn, NEW u \in Txn,
                    Precedes(b, s, u)'
             PROVE  Earlier(s, u)
  BY DEF QueuesOrdered, Earlier
<1>1. LockInv
  BY DEF OrderInv, BaseInv
<1>2. Precedes(b, s, u) => Earlier(s, u)
  BY DEF OrderInv, QueuesOrdered
<1>3. CASE LockTxn /\ Lock(Current[batch_offset + 1])
  <2> DEFINE t == Current[batch_offset + 1]
  <2>1. t \in Txn
    BY <1>3, CurrentTxn DEF OrderInv, BaseInv, HasBatch, LockTxn
  <2>2. Precedes(b, s, u)' <=>
          IF u = t
          THEN /\ phase[s] \in {"locked", "executing"}
               /\ b \in Buckets(s) \cap Buckets(t)
               /\ b \in WriteBuckets(s) \cup WriteBuckets(t)
          ELSE Precedes(b, s, u)
    BY <1>1, <1>3, <2>1, LockQueues
  <2>3. CASE u = t
    <3>1. phase[s] # "new"
      BY <2>2, <2>3
    <3>2. QED
      BY <1>3, <2>3, <3>1, CurrentIsLast DEF OrderInv
  <2>4. CASE u # t
    BY <1>2, <2>2, <2>4
  <2>5. QED
    BY <2>3, <2>4
<1>4. CASE StartReady /\ PopReady
  BY <1>2, <1>4 DEF PopReady, Precedes, Positions
<1>5. ASSUME NEW t \in Txn, Release(t) PROVE Earlier(s, u)
  <2>1. ReleaseLocks(t)
    BY <1>5 DEF Release
  <2>2. Positions(b, t)' = {}
    BY <1>1, <2>1, ReleaseQueue
  <2>3. s # t /\ u # t
    BY <2>2 DEF Precedes
  <2>4. Precedes(b, s, u)
    BY <1>1, <2>1, <2>3, ReleaseQueue
  <2>5. QED
    BY <1>2, <2>4
<1>6. CASE UNCHANGED <<lockVars, pending_txns, executing_txns>>
  BY <1>2, <1>6 DEF lockVars, Precedes, Positions
<1>7. QED
  BY <1>3, <1>4, <1>5, <1>6, LockSteps DEF OrderInv

LEMMA SerialOrderNext == OrderInv /\ [Next]_vars => SerialOrder'
<1> SUFFICES ASSUME OrderInv, [Next]_vars, NEW s \in Txn, NEW u \in Txn,
                    Earlier(s, u), Conflicting(s, u), phase'[u] \in {"executing", "done"}
             PROVE  phase'[s] = "done"
  BY DEF SerialOrder, Earlier, Conflicting, Buckets, WriteBuckets, ReadBuckets
<1>1. BaseInv /\ phase \in [Txn -> {"new", "locked", "executing", "done"}]
  BY DEF OrderInv, BaseInv, LockInv, LockTypeOK
<1>2. phase[u] \in {"executing", "done"} => phase[s] = "done"
  BY DEF OrderInv, SerialOrder
<1>3. CASE LockTxn /\ Lock(Current[batch_offset + 1])
  <2>1. Current[batch_offset + 1] \in Txn
    BY <1>1, <1>3, CurrentTxn DEF BaseInv, HasBatch, LockTxn
  <2>2. QED
    BY <1>1, <1>2, <1>3, <2>1 DEF Lock
<1>4. CASE StartReady /\ PopReady
  <2> DEFINE t == Head(ready_txns)
  <2>1. t \in Txn /\ phase[t] = "locked" /\ phase' = [phase EXCEPT ![t] = "executing"]
    BY <1>1, <1>4, StartCounts DEF PopReady
  <2>2. Ready(t)
    <3>1. ready_txns \in Seq(Txn) /\ ready_txns # <<>>
      BY <1>1, <1>4 DEF PopReady, BaseInv, LockInv, LockTypeOK
    <3>2. t = ready_txns[1] /\ 1 \in DOMAIN ready_txns
      BY <3>1, HeadTailProperties, LenProperties, EmptySeq
    <3>3. QED
      BY <3>2 DEF Ready, Range
  <2> HIDE DEF t
  <2>3. CASE u = t
    BY <1>1, <2>1, <2>2, <2>3, PredecessorsDone
  <2>4. CASE u # t
    BY <1>1, <1>2, <2>1, <2>4
  <2>5. QED
    BY <2>3, <2>4
<1>5. ASSUME NEW t \in Txn, Release(t) PROVE phase'[s] = "done"
  <2>1. phase[t] = "executing" /\ phase' = [phase EXCEPT ![t] = "done"]
    BY <1>5 DEF Release, ReleaseLocks
  <2>2. QED
    BY <1>1, <1>2, <2>1
<1>6. CASE UNCHANGED <<lockVars, pending_txns, executing_txns>>
  BY <1>2, <1>6 DEF lockVars
<1>7. QED
  BY <1>1, <1>3, <1>4, <1>5, <1>6, LockSteps

(* Whatever the order in which batches and remote reads arrive, and        *)
(* whichever worker is done first, conflicting transactions execute in the *)
(* pre-determined order (README:12-14, scheduler.cc:12-13).                *)
THEOREM SerialOrderHolds == Spec => []SerialOrder
<1>1. OrderInv /\ [Next]_vars => OrderInv'
  BY BaseNext, CursorNext, QueuesOrderedNext, SerialOrderNext DEF OrderInv
<1>2. OrderInv => SerialOrder
  BY DEF OrderInv
<1>3. QED
  BY <1>1, <1>2, OrderInit, PTL DEF Spec

-----------------------------------------------------------------------------
(***************************************************************************)
(* The hands.  Between the loop and the workers a transaction is in one    *)
(* place at a time.                                                        *)
(***************************************************************************)

In(q, t) == \E i \in 1..Len(q) : q[i] = t
Once(q) == \A i, j \in 1..Len(q) : q[i] = q[j] => i = j

(* What worker h has, in one of three ways.                                *)
Has(h, t) == In(responses[h], t) \/ t \in active[h] \/ executes[h] = t
OneWay(h, t) ==
  /\ ~ (In(responses[h], t) /\ t \in active[h])
  /\ ~ (In(responses[h], t) /\ executes[h] = t)
  /\ ~ (t \in active[h] /\ executes[h] = t)

Hands ==
  /\ Once(requests) /\ \A h \in Thread : Once(responses[h])
  /\ \A t \in Txn :
       /\ phase[t] = "executing" <=> In(requests, t) \/ \E h \in Thread : Has(h, t)
       /\ \A h \in Thread : OneWay(h, t) /\ (Has(h, t) => ~ In(requests, t))
       /\ \A h, g \in Thread : Has(h, t) /\ Has(g, t) => h = g
  /\ \A h \in Thread : \A t \in active[h] : reads[t] # RemoteReaders[t]

LEMMA OnceAppend ==
  ASSUME NEW S, NEW q \in Seq(S), NEW x \in S, Once(q), ~ In(q, x)
  PROVE  /\ Once(Append(q, x))
         /\ \A t : In(Append(q, x), t) <=> In(q, t) \/ t = x
<1> DEFINE r == Append(q, x)
<1>1. /\ Len(q) \in Nat /\ Len(r) = Len(q) + 1
      /\ \A i \in 1..Len(q) : r[i] = q[i]
      /\ r[Len(q) + 1] = x
  BY AppendProperties, LenProperties
<1> HIDE DEF r
<1>2. \A i \in 1..Len(r) : i \in 1..Len(q) \/ i = Len(q) + 1
  BY <1>1
<1>3. 1..Len(q) \subseteq 1..Len(r) /\ Len(q) + 1 \in 1..Len(r)
  BY <1>1
<1>4. Once(r)
  BY <1>1, <1>2 DEF Once, In
<1>5. \A t : In(r, t) <=> In(q, t) \/ t = x
  BY <1>1, <1>2, <1>3 DEF In
<1>6. QED
  BY <1>4, <1>5 DEF r

LEMMA OnceTail ==
  ASSUME NEW S, NEW q \in Seq(S), q # <<>>, Once(q)
  PROVE  /\ Once(Tail(q)) /\ In(q, Head(q))
         /\ \A t : In(Tail(q), t) <=> In(q, t) /\ t # Head(q)
<1> DEFINE r == Tail(q)
<1>1. /\ Len(q) \in Nat /\ Len(q) > 0 /\ Len(r) = Len(q) - 1 /\ Head(q) = q[1]
      /\ \A i \in 1..Len(r) : r[i] = q[i + 1]
  BY HeadTailProperties, LenProperties, EmptySeq
<1> HIDE DEF r
<1>2. \A i \in 1..Len(r) : i + 1 \in 1..Len(q) /\ i + 1 # 1
  BY <1>1
<1>3. Once(r)
  BY <1>1, <1>2 DEF Once
<1>4. ASSUME NEW t PROVE In(r, t) <=> In(q, t) /\ t # Head(q)
  <2>1. ASSUME In(r, t) PROVE In(q, t) /\ t # Head(q)
    <3>1. PICK i \in 1..Len(r) : r[i] = t
      BY <2>1 DEF In
    <3>2. i + 1 \in 1..Len(q) /\ 1 \in 1..Len(q) /\ i + 1 # 1 /\ q[i + 1] = t
      BY <1>1, <1>2, <3>1
    <3>3. QED
      BY <1>1, <3>2 DEF In, Once
  <2>2. ASSUME In(q, t), t # Head(q) PROVE In(r, t)
    <3>1. PICK i \in 1..Len(q) : q[i] = t
      BY <2>2 DEF In
    <3>2. i # 1
      BY <1>1, <2>2, <3>1
    <3>3. i - 1 \in 1..Len(r) /\ (i - 1) + 1 = i
      BY <1>1, <3>2
    <3>4. QED
      BY <1>1, <3>1, <3>3 DEF In
  <2>3. QED
    BY <2>1, <2>2
<1>5. In(q, Head(q))
  BY <1>1 DEF In
<1>6. QED
  BY <1>3, <1>4, <1>5 DEF r

LEMMA HandsKept ==
  ASSUME Hands, UNCHANGED <<requests, responses, active, executes, reads>>,
         \A t \in Txn : phase'[t] = "executing" <=> phase[t] = "executing"
  PROVE  Hands'
BY DEF Hands, Has, OneWay, Once, In

LEMMA HandsNext == BaseInv /\ Hands /\ [Next]_vars => Hands'
<1> SUFFICES ASSUME BaseInv, Hands, [Next]_vars PROVE Hands'
  OBVIOUS
<1>1. /\ phase \in [Txn -> {"new", "locked", "executing", "done"}]
      /\ requests \in Seq(Txn) /\ responses \in [Thread -> Seq(Txn)]
      /\ active \in [Thread -> SUBSET WritesHere] /\ WritesHere \subseteq Txn
      /\ executes \in [Thread -> Txn \cup {NoTxn}] /\ NoTxn \notin Txn
      /\ reads \in [Txn -> SUBSET UNION {RemoteReaders[t] : t \in Txn}]
  BY SchedulerAssumption DEF BaseInv, LockInv, LockTypeOK, SchedTypeOK
<1>2. CASE HandleResponse
  <2>1. PICK h \in Thread :
          /\ responses[h] # <<>> /\ responses' = [responses EXCEPT ![h] = Tail(@)]
          /\ Release(Head(responses[h]))
          /\ UNCHANGED <<requests, active, executes, reads>>
    BY <1>2 DEF HandleResponse, workVars
  <2> DEFINE t == Head(responses[h])
  <2>2. phase[t] = "executing" /\ phase' = [phase EXCEPT ![t] = "done"]
    BY <2>1 DEF Release, ReleaseLocks
  <2>3. t \in Txn
    BY <1>1, <2>1, HeadTailProperties
  <2>4. /\ Once(responses'[h]) /\ In(responses[h], t)
        /\ \A u : In(responses'[h], u) <=> In(responses[h], u) /\ u # t
    BY <1>1, <2>1, OnceTail DEF Hands
  <2>5. \A g \in Thread : g # h => responses'[g] = responses[g]
    BY <1>1, <2>1
  <2> HIDE DEF t
  <2>6. \A u \in Txn : phase'[u] = "executing" <=> phase[u] = "executing" /\ u # t
    BY <1>1, <2>2, <2>3
  <2>7. /\ ~ In(requests, t) /\ t \notin active[h] /\ executes[h] # t
        /\ \A g \in Thread : Has(g, t) => g = h
    BY <2>3, <2>4 DEF Hands, Has, OneWay
  <2>8. \A g \in Thread, u \in Txn : In(responses'[g], u) <=> In(responses[g], u) /\ u # t
    BY <2>4, <2>5, <2>7 DEF Has
  <2>9. \A g \in Thread : Once(responses'[g])
    BY <2>4, <2>5 DEF Hands
  <2>10. \A g \in Thread, u \in Txn : Has(g, u)' <=> Has(g, u) /\ u # t
    BY <2>1, <2>7, <2>8 DEF Has
  <2>11. \A g \in Thread, u \in Txn : OneWay(g, u)'
    BY <2>1, <2>8 DEF Hands, OneWay
  <2>12. QED
    BY <2>1, <2>6, <2>7, <2>9, <2>10, <2>11 DEF Hands
<1>3. CASE StartReady
  <2> DEFINE t == Head(ready_txns)
  <2>1. /\ t \in Txn /\ phase[t] = "locked"
        /\ phase' = [phase EXCEPT ![t] = "executing"]
        /\ requests' = Append(requests, t)
        /\ UNCHANGED <<responses, active, executes, reads>>
    BY <1>3, StartCounts DEF StartReady, PopReady, workVars
  <2> HIDE DEF t
  <2>2. ~ In(requests, t) /\ \A h \in Thread : ~ Has(h, t)
    BY <2>1 DEF Hands
  <2>3. Once(requests') /\ \A u : In(requests', u) <=> In(requests, u) \/ u = t
    BY <1>1, <2>1, <2>2, OnceAppend DEF Hands
  <2>4. \A u \in Txn : phase'[u] = "executing" <=> phase[u] = "executing" \/ u = t
    BY <1>1, <2>1
  <2>5. \A h \in Thread, u \in Txn : (Has(h, u)' <=> Has(h, u)) /\ (OneWay(h, u)' <=> OneWay(h, u))
    BY <2>1 DEF Has, OneWay
  <2>6. QED
    BY <2>1, <2>2, <2>3, <2>4, <2>5 DEF Hands
<1>4. ASSUME NEW h \in Thread, TakeRequest(h) PROVE Hands'
  <2> DEFINE t == Head(requests)
  <2>1. /\ requests # <<>> /\ requests' = Tail(requests) /\ executes[h] = NoTxn
        /\ phase' = phase /\ reads' = reads /\ responses' = responses
        /\ \/ /\ active' = [active EXCEPT ![h] = @ \cup {t}] /\ executes' = executes
              /\ reads[t] # RemoteReaders[t]
           \/ active' = active /\ executes' = [executes EXCEPT ![h] = t]
    BY <1>4 DEF TakeRequest, lockVars
  <2>2. t \in Txn
    BY <1>1, <2>1, HeadTailProperties
  <2>3. /\ Once(requests') /\ In(requests, t)
        /\ \A u : In(requests', u) <=> In(requests, u) /\ u # t
    BY <1>1, <2>1, OnceTail DEF Hands
  <2> HIDE DEF t
  <2>4. \A g \in Thread : ~ Has(g, t)
    BY <2>2, <2>3 DEF Hands
  <2>5. \A g \in Thread, u \in Txn : Has(g, u)' <=> Has(g, u) \/ (g = h /\ u = t)
    <3>1. CASE active' = [active EXCEPT ![h] = @ \cup {t}] /\ executes' = executes
      BY <1>1, <2>1, <2>2, <3>1 DEF Has
    <3>2. CASE active' = active /\ executes' = [executes EXCEPT ![h] = t]
      BY <1>1, <2>1, <2>2, <3>2 DEF Has
    <3>3. QED
      BY <2>1, <3>1, <3>2
  <2>6. \A g \in Thread, u \in Txn : OneWay(g, u)'
    <3>1. CASE active' = [active EXCEPT ![h] = @ \cup {t}] /\ executes' = executes
      BY <1>1, <2>1, <2>2, <2>4, <3>1 DEF Hands, Has, OneWay
    <3>2. CASE active' = active /\ executes' = [executes EXCEPT ![h] = t]
      BY <1>1, <2>1, <2>2, <2>4, <3>2 DEF Hands, Has, OneWay
    <3>3. QED
      BY <2>1, <3>1, <3>2
  <2>7. \A g \in Thread : \A u \in active'[g] : reads'[u] # RemoteReaders[u]
    <3>1. CASE active' = [active EXCEPT ![h] = @ \cup {t}] /\ reads[t] # RemoteReaders[t]
      BY <1>1, <2>1, <3>1 DEF Hands
    <3>2. CASE active' = active
      BY <2>1, <3>2 DEF Hands
    <3>3. QED
      BY <2>1, <3>1, <3>2
  <2>8. \A u \in Txn : phase'[u] = "executing" <=> In(requests', u) \/ \E g \in Thread : Has(g, u)'
    BY <2>1, <2>2, <2>3, <2>5 DEF Hands
  <2>9. QED
    BY <2>1, <2>3, <2>4, <2>5, <2>6, <2>7, <2>8 DEF Hands
<1>5. ASSUME NEW h \in Thread, NEW t \in Txn, NEW n \in RemoteReaders[t], RemoteRead(h, t, n)
      PROVE  Hands'
  <2>1. /\ t \in active[h] /\ reads' = [reads EXCEPT ![t] = @ \cup {n}]
        /\ requests' = requests /\ phase' = phase /\ responses' = responses
        /\ executes[h] = NoTxn
        /\ \/ active' = [active EXCEPT ![h] = @ \ {t}] /\ executes' = [executes EXCEPT ![h] = t]
           \/ /\ active' = active /\ executes' = executes
              /\ reads[t] \cup {n} # RemoteReaders[t]
    BY <1>5 DEF RemoteRead, Erase, lockVars
  <2>2. /\ ~ In(responses[h], t) /\ \A g \in Thread : Has(g, t) => g = h
    BY <2>1 DEF Hands, Has, OneWay
  <2>3. \A g \in Thread, u \in Txn : (Has(g, u)' <=> Has(g, u)) /\ OneWay(g, u)'
    <3>1. CASE active' = [active EXCEPT ![h] = @ \ {t}] /\ executes' = [executes EXCEPT ![h] = t]
      <4>1. \A g \in Thread, u \in Txn : Has(g, u)' <=> Has(g, u)
        BY <1>1, <2>1, <3>1 DEF Has
      <4>2. \A g \in Thread, u \in Txn : OneWay(g, u)'
        BY <1>1, <2>1, <2>2, <3>1 DEF Hands, OneWay
      <4>3. QED
        BY <4>1, <4>2
    <3>2. CASE active' = active /\ executes' = executes
      BY <2>1, <3>2 DEF Hands, Has, OneWay
    <3>3. QED
      BY <2>1, <3>1, <3>2
  <2>4. \A g \in Thread : \A u \in active'[g] : reads'[u] # RemoteReaders[u]
    <3>1. CASE active' = [active EXCEPT ![h] = @ \ {t}]
      <4>1. \A g \in Thread : t \notin active'[g]
        BY <1>1, <2>2, <3>1 DEF Has
      <4>2. QED
        BY <1>1, <2>1, <3>1, <4>1 DEF Hands
    <3>2. CASE active' = active /\ reads[t] \cup {n} # RemoteReaders[t]
      BY <1>1, <2>1, <3>2 DEF Hands
    <3>3. QED
      BY <2>1, <3>1, <3>2
  <2>5. QED
    BY <2>1, <2>3, <2>4 DEF Hands
<1>11. ASSUME NEW h \in Thread, Respond(h) PROVE Hands'
  <2> DEFINE t == executes[h]
  <2>1. /\ t # NoTxn /\ responses' = [responses EXCEPT ![h] = Append(@, t)]
        /\ executes' = [executes EXCEPT ![h] = NoTxn]
        /\ UNCHANGED <<phase, requests, active, reads>>
    BY <1>11 DEF Respond, lockVars
  <2>2. t \in Txn /\ Has(h, t)
    BY <1>1, <2>1 DEF Has
  <2>3. ~ In(responses[h], t) /\ t \notin active[h] /\ \A g \in Thread : Has(g, t) => g = h
    BY <2>2 DEF Hands, OneWay
  <2>4. Once(responses'[h]) /\ \A u : In(responses'[h], u) <=> In(responses[h], u) \/ u = t
    BY <1>1, <2>1, <2>2, <2>3, OnceAppend DEF Hands
  <2>5. \A g \in Thread : g # h => responses'[g] = responses[g] /\ executes'[g] = executes[g]
    BY <1>1, <2>1
  <2>6. executes'[h] = NoTxn /\ executes[h] = t
    BY <1>1, <2>1
  <2> HIDE DEF t
  <2>7. \A g \in Thread : Once(responses'[g])
    BY <2>4, <2>5 DEF Hands
  <2>8. \A g \in Thread, u \in Txn : Has(g, u)' <=> Has(g, u)
    BY <1>1, <2>1, <2>4, <2>5, <2>6 DEF Has
  <2>9. \A g \in Thread, u \in Txn : OneWay(g, u)'
    BY <1>1, <2>1, <2>3, <2>4, <2>5, <2>6 DEF Hands, OneWay
  <2>10. QED
    BY <2>1, <2>7, <2>8, <2>9 DEF Hands
<1>6. CASE LockTxn
  <2>1. PICK t \in Txn : phase[t] = "new" /\ phase' = [phase EXCEPT ![t] = "locked"]
    BY <1>6, CurrentTxn DEF LockTxn, Lock, BaseInv, HasBatch
  <2>2. QED
    BY <1>1, <1>6, <2>1, HandsKept DEF LockTxn, workVars
<1>7. CASE AwaitBatch \/ NextBatch \/ BeginLocking \/ EndLocking \/ EndDrain
  BY <1>7, HandsKept DEF AwaitBatch, NextBatch, BeginLocking, EndLocking, EndDrain,
                         lockVars, workVars
<1>8. CASE \E n \in Numbers : Deliver(n)
  BY <1>8, HandsKept DEF Deliver, lockVars, workVars
<1>9. CASE UNCHANGED vars
  BY <1>9, HandsKept DEF vars, lockVars, workVars
<1>10. QED
  BY <1>2, <1>3, <1>4, <1>5, <1>6, <1>7, <1>8, <1>9, <1>11 DEF Next, MainLoop, Worker

LEMMA CountInQueue ==
  ASSUME NEW S, NEW q \in Seq(S), Once(q), NEW t
  PROVE  Cardinality({i \in DOMAIN q : q[i] = t}) = IF In(q, t) THEN 1 ELSE 0
<1>1. DOMAIN q = 1..Len(q)
  BY LenProperties
<1>2. CASE In(q, t)
  <2>1. PICK i \in 1..Len(q) : q[i] = t
    BY <1>2 DEF In
  <2>2. {j \in DOMAIN q : q[j] = t} = {i}
    BY <1>1, <2>1 DEF Once
  <2>3. QED
    BY <1>2, <2>2, FS_Singleton
<1>3. CASE ~ In(q, t)
  <2>1. {j \in DOMAIN q : q[j] = t} = {}
    BY <1>1, <1>3 DEF In
  <2>2. QED
    BY <1>3, <2>1, FS_EmptySet
<1>4. QED
  BY <1>2, <1>3

(* The places of a transaction, counted.                                   *)
LEMMA AtMostOne ==
  ASSUME NEW S, \A p, q \in S : p = q
  PROVE  Cardinality(S) = IF \E p : p \in S THEN 1 ELSE 0
<1>1. CASE \E p : p \in S
  <2>1. PICK p : p \in S
    BY <1>1
  <2>2. S = {p}
    BY <2>1
  <2>3. QED
    BY <1>1, <2>2, FS_Singleton
<1>2. CASE ~ \E p : p \in S
  <2>1. S = {}
    BY <1>2
  <2>2. QED
    BY <1>2, <2>1, FS_EmptySet
<1>3. QED
  BY <1>1, <1>2

(* A transaction that is handed out is in exactly one place between the    *)
(* loop and the workers, once, and nothing else is there; a worker holds   *)
(* only what still waits for reads (scheduler.cc:134-236).                 *)
THEOREM CustodyHolds == Spec => []Custody
<1>1. Init => Hands
  BY SchedulerAssumption DEF Init, LockInit, Hands, Has, OneWay, In, Once
<1>2. BaseInv /\ Hands => Custody
  <2> SUFFICES ASSUME BaseInv, Hands PROVE Custody
    OBVIOUS
  <2>1. requests \in Seq(Txn) /\ responses \in [Thread -> Seq(Txn)]
    BY DEF BaseInv, SchedTypeOK
  <2>2. ASSUME NEW t \in Txn
        PROVE  Cardinality(Requested(t)) + Cardinality(HeldBy(t))
                 + Cardinality(ExecutedBy(t)) + Cardinality(Responded(t))
               = IF phase[t] = "executing" THEN 1 ELSE 0
    <3>1. Cardinality(Requested(t)) = IF In(requests, t) THEN 1 ELSE 0
      BY <2>1, CountInQueue DEF Hands, Requested
    <3>2. Cardinality(HeldBy(t)) = IF \E h \in Thread : t \in active[h] THEN 1 ELSE 0
      BY AtMostOne DEF Hands, Has, HeldBy
    <3>3. Cardinality(ExecutedBy(t)) = IF \E h \in Thread : executes[h] = t THEN 1 ELSE 0
      BY AtMostOne DEF Hands, Has, ExecutedBy
    <3>4. Cardinality(Responded(t)) = IF \E h \in Thread : In(responses[h], t) THEN 1 ELSE 0
      <4>1. \A h \in Thread : DOMAIN responses[h] = 1..Len(responses[h])
        BY <2>1, LenProperties
      <4>2. \A p : p \in Responded(t) <=>
                     \E h \in Thread : \E i \in 1..Len(responses[h]) :
                       p = <<h, i>> /\ responses[h][i] = t
        BY <4>1 DEF Responded
      <4>3. \A p, q \in Responded(t) : p = q
        BY <4>2 DEF Hands, Has, In, Once
      <4>4. (\E p : p \in Responded(t)) <=> \E h \in Thread : In(responses[h], t)
        <5>1. ASSUME NEW p \in Responded(t) PROVE \E h \in Thread : In(responses[h], t)
          BY <4>2 DEF In
        <5>2. ASSUME NEW h \in Thread, In(responses[h], t) PROVE \E p : p \in Responded(t)
          <6>1. PICK i \in 1..Len(responses[h]) : responses[h][i] = t
            BY <5>2 DEF In
          <6>2. <<h, i>> \in Responded(t)
            BY <4>2, <6>1
          <6>3. QED
            BY <6>2
        <5>3. QED
          BY <5>1, <5>2
      <4>5. QED
        BY <4>3, <4>4, AtMostOne
    <3>5. QED
      BY <3>1, <3>2, <3>3, <3>4 DEF Hands, Has, OneWay
  <2>3. QED
    BY <2>2 DEF Custody, Hands
<1>3. QED
  BY <1>1, <1>2, HandsNext, BaseHolds, PTL DEF Spec

-----------------------------------------------------------------------------
(***************************************************************************)
(* Nothing gets stuck.  Some transaction in flight holds its locks, what   *)
(* holds its locks is with the workers when the loop is at the top, and no *)
(* batch that has come is forgotten.                                       *)
(***************************************************************************)

LEMMA PlaceExists ==
  ASSUME NEW t \in Txn
  PROVE  \E n \in Numbers : \E i \in DOMAIN Batch[n + 1] : Batch[n + 1][i] = t
<1>1. PICK n \in Numbers : t \in Range(Batch[n + 1])
  BY SchedulerAssumption
<1> QED
  BY <1>1 DEF Range

(* What is ready has been handed out when the loop is back at the top.     *)
TurnsEnd == pc = "top" => ready_txns = <<>>

(* A batch that has come is used up, in use, set aside, or in the inbox.   *)
BatchesKept ==
  \A n \in delivered :
    n < batch_number \/ n = batch_message \/ n \in batches \cup Range(inbox)

ReadsComing == \A t \in Txn : reads[t] \subseteq RemoteReaders[t]

MailInv == TurnsEnd /\ BatchesKept /\ ReadsComing

LEMMA RestOfSeq ==
  ASSUME NEW S, NEW q \in Seq(S), NEW i \in 1..Len(q)
  PROVE  LET r == SubSeq(q, i + 1, Len(q)) IN
         /\ r \in Seq(S) /\ Len(r) = Len(q) - i
         /\ \A k \in 1..(Len(q) - i) : r[k] = q[i + k]
<1> DEFINE m == i + 1  l == Len(q)  r == SubSeq(q, m, l)
<1>1. l \in Nat /\ i \in Nat /\ m \in Int /\ l \in Int /\ i <= l
  BY LenProperties
<1>2. \A k \in m..l : q[k] \in S
  BY <1>1, ElementOfSeq
<1>3. /\ r \in Seq(S) /\ Len(r) = IF m <= l THEN l - m + 1 ELSE 0
      /\ \A k \in 1..(l - m + 1) : r[k] = q[m + k - 1]
  <2> HIDE DEF m, l
  <2>1. QED
    BY <1>1, <1>2, SubSeqProperties
<1> HIDE DEF r
<1>4. l - m + 1 = l - i /\ Len(r) = l - i
  BY <1>1, <1>3
<1>5. \A k \in 1..(l - i) : k \in 1..(l - m + 1) /\ m + k - 1 = i + k
  BY <1>1
<1> HIDE DEF m, l
<1>6. \A k \in 1..(l - i) : r[k] = q[i + k]
  BY <1>3, <1>5
<1> QED
  BY <1>3, <1>4, <1>6 DEF m, l, r

LEMMA GetBatchKeeps ==
  ASSUME BaseInv, NEW id, GetBatch(id), NEW n \in batches \cup Range(inbox)
  PROVE  n = batch_message' \/ n \in (batches \cup Range(inbox))'
<1>1. /\ inbox \in Seq(Numbers) /\ Len(inbox) \in Nat /\ DOMAIN inbox = 1..Len(inbox)
  BY LenProperties DEF BaseInv, SchedTypeOK
<1>2. CASE id \in batches /\ batch_message' = id /\ batches' = batches \ {id} /\ inbox' = inbox
  BY <1>2
<1>3. ASSUME NEW i \in DOMAIN inbox, inbox[i] = id, batch_message' = id,
             batches' = batches \cup {inbox[j] : j \in 1..(i - 1)},
             inbox' = SubSeq(inbox, i + 1, Len(inbox))
      PROVE  n = batch_message' \/ n \in (batches \cup Range(inbox))'
  <2>1. CASE n \in batches
    BY <1>3, <2>1
  <2>2. CASE n \in Range(inbox)
    <3>1. PICK j \in 1..Len(inbox) : inbox[j] = n
      BY <1>1, <2>2 DEF Range
    <3>2. CASE j < i
      BY <1>1, <1>3, <3>1, <3>2
    <3>3. CASE j > i
      <4>2. /\ inbox' \in Seq(Numbers) /\ Len(inbox') = Len(inbox) - i
            /\ \A k \in 1..(Len(inbox) - i) : inbox'[k] = inbox[i + k]
        <5>1. i \in 1..Len(inbox)
          BY <1>1, <1>3
        <5> QED
          BY <1>1, <1>3, <5>1, RestOfSeq
      <4>3. j - i \in 1..(Len(inbox) - i) /\ i + (j - i) = j
        BY <1>1, <3>1, <3>3
      <4>4. inbox'[j - i] = n /\ j - i \in DOMAIN inbox'
        BY <3>1, <4>2, <4>3, LenProperties
      <4> QED
        BY <4>4 DEF Range
    <3> QED
      BY <1>1, <1>3, <3>1, <3>2, <3>3
  <2> QED
    BY <2>1, <2>2
<1>4. CASE batch_message' = NoBatch /\ batches' = batches \cup Range(inbox) /\ inbox' = <<>>
  BY <1>4
<1> QED
  BY <1>2, <1>3, <1>4 DEF GetBatch

LEMMA RangeOfAppend ==
  ASSUME NEW S, NEW q \in Seq(S), NEW x \in S
  PROVE  Range(q) \cup {x} \subseteq Range(Append(q, x))
<1>1. /\ Len(q) \in Nat /\ DOMAIN q = 1..Len(q)
      /\ Append(q, x) \in Seq(S) /\ DOMAIN Append(q, x) = 1..(Len(q) + 1)
      /\ \A i \in 1..Len(q) : Append(q, x)[i] = q[i]
      /\ Append(q, x)[Len(q) + 1] = x
  BY AppendProperties, LenProperties
<1>2. 1..Len(q) \subseteq 1..(Len(q) + 1) /\ Len(q) + 1 \in 1..(Len(q) + 1)
  BY <1>1
<1> QED
  BY <1>1, <1>2 DEF Range

LEMMA MailInit == Init => MailInv
BY DEF Init, LockInit, MailInv, TurnsEnd, BatchesKept, ReadsComing

LEMMA TurnsEndNext == BaseInv /\ TurnsEnd /\ [Next]_vars => TurnsEnd'
<1> SUFFICES ASSUME BaseInv, TurnsEnd, [Next]_vars PROVE TurnsEnd'
  OBVIOUS
<1>1. CASE HandleResponse \/ LockTxn \/ StartReady \/ BeginLocking \/ EndLocking
  BY <1>1 DEF HandleResponse, LockTxn, StartReady, BeginLocking, EndLocking, TurnsEnd
<1>2. CASE AwaitBatch \/ NextBatch \/ EndDrain
  BY <1>2 DEF AwaitBatch, NextBatch, EndDrain, lockVars, TurnsEnd
<1>3. CASE \E h \in Thread : Worker(h)
  BY <1>3 DEF Worker, TakeRequest, RemoteRead, Respond, lockVars, loopVars, TurnsEnd
<1>4. CASE \E n \in Numbers : Deliver(n)
  BY <1>4 DEF Deliver, lockVars, loopVars, TurnsEnd
<1>5. CASE UNCHANGED vars
  BY <1>5 DEF vars, lockVars, loopVars, TurnsEnd
<1> QED
  BY <1>1, <1>2, <1>3, <1>4, <1>5 DEF Next, MainLoop

LEMMA BatchesKeptNext == BaseInv /\ Cursor /\ BatchesKept /\ [Next]_vars => BatchesKept'
<1> SUFFICES ASSUME BaseInv, Cursor, BatchesKept, [Next]_vars PROVE BatchesKept'
  OBVIOUS
<1>1. /\ delivered \subseteq Nat /\ inbox \in Seq(Numbers)
      /\ batch_number \in Nat /\ NoBatch \notin Nat
  BY Sizes, SchedulerAssumption DEF BaseInv, SchedTypeOK
<1>2. CASE AwaitBatch
  <2>1. /\ GetBatch(batch_number) /\ batch_message = NoBatch
        /\ delivered' = delivered /\ batch_number' = batch_number
    BY <1>2 DEF AwaitBatch
  <2>2. \A n \in delivered : n < batch_number \/ n \in batches \cup Range(inbox)
    BY <1>1, <2>1 DEF BatchesKept
  <2> QED
    BY <2>1, <2>2, GetBatchKeeps DEF BatchesKept
<1>3. CASE NextBatch
  <2>1. /\ GetBatch(batch_number + 1) /\ batch_message = batch_number
        /\ delivered' = delivered /\ batch_number' = batch_number + 1
    BY <1>3 DEF NextBatch, Cursor
  <2>2. \A n \in delivered : n < batch_number' \/ n \in batches \cup Range(inbox)
    BY <1>1, <2>1 DEF BatchesKept
  <2> QED
    BY <2>1, <2>2, GetBatchKeeps DEF BatchesKept
<1>4. ASSUME NEW m \in Numbers, Deliver(m) PROVE BatchesKept'
  <2>1. /\ delivered' = delivered \cup {m} /\ inbox' = Append(inbox, m)
        /\ UNCHANGED <<batches, batch_message, batch_number>>
    BY <1>4 DEF Deliver, loopVars
  <2>2. Range(inbox) \cup {m} \subseteq Range(inbox')
    BY <1>1, <2>1, RangeOfAppend
  <2> QED
    BY <2>1, <2>2 DEF BatchesKept
<1>5. CASE HandleResponse \/ LockTxn \/ StartReady \/ BeginLocking \/ EndLocking \/ EndDrain
  BY <1>5 DEF HandleResponse, LockTxn, StartReady, BeginLocking, EndLocking, EndDrain,
     mailVars, BatchesKept
<1>6. CASE \E h \in Thread : Worker(h)
  BY <1>6 DEF Worker, TakeRequest, RemoteRead, Respond, loopVars, mailVars, BatchesKept
<1>7. CASE UNCHANGED vars
  BY <1>7 DEF vars, loopVars, mailVars, BatchesKept
<1> QED
  BY <1>2, <1>3, <1>4, <1>5, <1>6, <1>7 DEF Next, MainLoop

LEMMA ReadsComingNext == BaseInv /\ ReadsComing /\ [Next]_vars => ReadsComing'
<1> SUFFICES ASSUME BaseInv, ReadsComing, [Next]_vars PROVE ReadsComing'
  OBVIOUS
<1>1. ASSUME NEW h \in Thread, NEW t \in Txn, NEW n \in RemoteReaders[t], RemoteRead(h, t, n)
      PROVE  ReadsComing'
  <2>1. reads' = [reads EXCEPT ![t] = @ \cup {n}]
    BY <1>1 DEF RemoteRead
  <2>2. DOMAIN reads = Txn
    BY DEF BaseInv, SchedTypeOK
  <2> QED
    BY <1>1, <2>1, <2>2 DEF ReadsComing
<1>2. CASE MainLoop
  BY <1>2 DEF MainLoop, HandleResponse, AwaitBatch, NextBatch, BeginLocking, LockTxn,
     EndLocking, StartReady, EndDrain, workVars, ReadsComing
<1>3. ASSUME NEW h \in Thread, TakeRequest(h) \/ Respond(h) PROVE ReadsComing'
  BY <1>3 DEF TakeRequest, Respond, ReadsComing
<1>4. CASE (\E n \in Numbers : Deliver(n)) \/ UNCHANGED vars
  BY <1>4 DEF Deliver, vars, workVars, ReadsComing
<1> QED
  BY <1>1, <1>2, <1>3, <1>4 DEF Next, Worker

(* What each action of the loop needs; of AwaitBatch, to find the batch.   *)
LoopCanStep ==
  \/ pc = "top" /\ \E h \in Thread :
       responses[h] # <<>> /\ phase[Head(responses[h])] = "executing"
  \/ pc = "top" /\ NoResponse /\
       IF batch_message = NoBatch THEN batch_number \in batches \cup Range(inbox)
       ELSE batch_offset < Len(Current) => Room
  \/ pc = "lock" /\
       (grabbed < GrabLimit /\ batch_offset < Len(Current)
          => phase[Current[batch_offset + 1]] = "new")
  \/ pc = "drain"

WorkersCanStep ==
  \E h \in Thread :
    \/ executes[h] # NoTxn
    \/ executes[h] = NoTxn /\ requests # <<>>
    \/ executes[h] = NoTxn /\ \E t \in active[h] : RemoteReaders[t] \ reads[t] # {}

LoopGoesOn ==
  pc # "aborted" /\ (\E t \in Txn : phase[t] # "done") =>
    LoopCanStep \/ WorkersCanStep \/ batch_number \in Numbers \ delivered

(* With nobody at work, the loop at the top has nothing in flight.         *)
LEMMA IdleMeansEmpty ==
  ASSUME OrderInv, FirstToServe, Hands, TurnsEnd, pc = "top", requests = <<>>, NoResponse,
         \A h \in Thread : active[h] = {} /\ executes[h] = NoTxn
  PROVE  InFlight = {} /\ Room
<1>1. InFlight = {}
  <2> SUFFICES ASSUME InFlight # {} PROVE FALSE
    OBVIOUS
  <2>1. PICK t \in Txn : Ready(t) \/ phase[t] = "executing"
    BY SomeoneHasLocks DEF InFlight, Outstanding, OrderInv, BaseInv
  <2>2. ~ Ready(t)
    BY DEF TurnsEnd, Ready, Range
  <2>3. phase[t] # "executing"
    BY SchedulerAssumption DEF Hands, Has, In, NoResponse
  <2> QED
    BY <2>1, <2>2, <2>3
<1>2. InPhase("locked") = {} /\ InPhase("executing") = {}
  BY <1>1 DEF InFlight, InPhase
<1>3. pending_txns = 0 /\ executing_txns = 0
  BY <1>2, FS_EmptySet DEF OrderInv, BaseInv, Counted
<1> QED
  BY <1>1, <1>3, SchedulerAssumption DEF Room

LEMMA GoesOn == ASSUME OrderInv, FirstToServe, Hands, MailInv PROVE LoopGoesOn
<1> SUFFICES ASSUME pc # "aborted", NEW t \in Txn, phase[t] # "done",
                    ~ LoopCanStep, ~ WorkersCanStep, batch_number \notin Numbers \ delivered
             PROVE  FALSE
  BY DEF LoopGoesOn
<1>1. /\ pc \in {"top", "lock", "drain"}
      /\ batch_number \in Nat /\ batch_offset \in Nat
      /\ responses \in [Thread -> Seq(Txn)] /\ active \in [Thread -> SUBSET Txn]
      /\ NoBatch \notin Nat /\ phase[t] \in {"new", "locked", "executing"}
  BY SchedulerAssumption DEF OrderInv, BaseInv, LockInv, LockTypeOK, SchedTypeOK
<1>2. pc # "drain"
  BY DEF LoopCanStep
<1>3. pc # "lock"
  <2> SUFFICES ASSUME pc = "lock", grabbed < GrabLimit, batch_offset < Len(Current),
                      phase[Current[batch_offset + 1]] # "new"
               PROVE  FALSE
    BY DEF LoopCanStep
  <2>1. batch_message # NoBatch /\ batch_message = batch_number
    BY DEF OrderInv, BaseInv, HasBatch, Cursor
  <2>2. batch_number \in Numbers /\ batch_offset + 1 \in DOMAIN Batch[batch_number + 1]
    BY <2>1, CurrentTxn DEF OrderInv, Current
  <2>3. Locked(batch_number, batch_offset + 1)
    BY <2>1, <2>2 DEF OrderInv, Cursor, Current
  <2> QED
    BY <1>1, <2>3 DEF Locked
<1>4. pc = "top"
  BY <1>1, <1>2, <1>3
<1>5. NoResponse
  <2> SUFFICES ASSUME NEW h \in Thread, responses[h] # <<>> PROVE FALSE
    BY DEF NoResponse
  <2>1. Head(responses[h]) \in Txn /\ In(responses[h], Head(responses[h]))
    BY <1>1, HeadTailProperties, OnceTail DEF Hands
  <2>2. phase[Head(responses[h])] = "executing"
    BY <2>1 DEF Hands, Has
  <2> QED
    BY <1>4, <2>2 DEF LoopCanStep
<1>6. requests = <<>> /\ \A h \in Thread : executes[h] = NoTxn
  BY SchedulerAssumption DEF WorkersCanStep
<1>7. \A h \in Thread : active[h] = {}
  <2> SUFFICES ASSUME NEW h \in Thread, NEW u \in active[h] PROVE FALSE
    OBVIOUS
  <2>1. reads[u] \subseteq RemoteReaders[u] /\ reads[u] # RemoteReaders[u]
    BY <1>1 DEF MailInv, ReadsComing, Hands
  <2> QED
    BY <1>6, <2>1 DEF WorkersCanStep
<1>8. InFlight = {} /\ Room
  BY <1>4, <1>5, <1>6, <1>7, IdleMeansEmpty DEF MailInv
<1>9. batch_message = NoBatch /\ batch_number \notin batches \cup Range(inbox)
  BY <1>4, <1>5, <1>8 DEF LoopCanStep
<1>10. phase[t] = "new"
  BY <1>1, <1>8 DEF InFlight
<1>11. PICK n \in Numbers : \E i \in DOMAIN Batch[n + 1] : Batch[n + 1][i] = t
  BY PlaceExists
<1>12. ~ (n < batch_number)
  BY <1>10, <1>11 DEF OrderInv, Cursor, Locked
<1>13. batch_number \in Numbers
  BY <1>1, <1>11, <1>12, Sizes DEF Numbers
<1>14. batch_number \in delivered
  BY <1>13
<1>15. batch_number < batch_number \/ batch_number = batch_message
  BY <1>9, <1>14 DEF MailInv, BatchesKept
<1> QED
  BY <1>1, <1>9, <1>15

(* The loop and its workers never wait for each other: until all is done,  *)
(* one of them can take a step, or else the very batch whose turn it is    *)
(* has not come.  That holds at the limit of transactions in flight, with  *)
(* batches in any order and empty ones among them (scheduler.cc:257-401).  *)
THEOREM SchedulerNeverStuck == Spec => [](LoopGoesOn /\ BatchesKept)
<1> DEFINE Inv == OrderInv /\ Hands /\ MailInv
<1>1. Init => Inv
  <2>1. Init => Hands
    BY SchedulerAssumption DEF Init, LockInit, Hands, Has, OneWay, In, Once
  <2> QED
    BY <2>1, OrderInit, MailInit
<1>2. Inv /\ [Next]_vars => Inv'
  <2>1. OrderInv /\ [Next]_vars => OrderInv'
    BY BaseNext, CursorNext, QueuesOrderedNext, SerialOrderNext DEF OrderInv
  <2>2. OrderInv /\ MailInv /\ [Next]_vars => MailInv'
    BY TurnsEndNext, BatchesKeptNext, ReadsComingNext DEF OrderInv, MailInv
  <2>3. OrderInv /\ Hands /\ [Next]_vars => Hands'
    BY HandsNext DEF OrderInv
  <2> QED
    BY <2>1, <2>2, <2>3
<1>3. Inv /\ FirstToServe => LoopGoesOn /\ BatchesKept
  BY GoesOn DEF MailInv
<1>4. Spec => []FirstToServe
  BY DrivesLockManager, SomeoneIsFirst, PTL
<1> HIDE DEF Inv
<1> QED
  BY <1>1, <1>2, <1>3, <1>4, PTL DEF Spec
=============================================================================
