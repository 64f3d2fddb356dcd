--------------------------- MODULE TotalOrderProofs ---------------------------
(***************************************************************************)
(* Theorems about the two implementations of TotalOrder: Sequencer, for    *)
(* every number of nodes, every size of a batch, every placement of the    *)
(* transactions and any number of epochs, and Paxos, for every set of      *)
(* clients and readers and every number of concurrent gets.                *)
(***************************************************************************)
EXTENDS Sequencer, Paxos, BasicLemmas, FiniteSetTheorems, SequenceTheorems, TLAPS

(* The types of what the writers use, and of the batches they hand on.     *)
WriterTypes ==
  /\ writer \in [Node -> {"start", "sync", "check", "epoch", "stopped"}]
  /\ sync_messages \in [Node -> Nat] /\ synchronization_counter \in [Node -> 1..N]
  /\ batch_number \in [Node -> Nat]
  /\ batch \in [Node -> Seq(Txns)]
  /\ batch_queue \in [Node -> Seq(Seq(Txns))] /\ sent \in [Node -> Seq(Seq(Txns))]

-----------------------------------------------------------------------------
(***************************************************************************)
(* Synchronisation.  Every message is counted or waits to be counted, and  *)
(* there is one from each other sequencer that is up.                      *)
(***************************************************************************)

Up(n) == {m \in Node \ {n} : writer[m] # "start"}

Heard ==
  \A n \in Node :
    sync_messages[n] + synchronization_counter[n] = 1 + Cardinality(Up(n))

WaitedFor ==
  \A n \in Node : writer[n] \in {"check", "epoch", "stopped"} =>
    synchronization_counter[n] = N

SyncInv == WriterTypes /\ Heard /\ WaitedFor

LEMMA ProductNat ==
  ASSUME NEW a \in Nat, NEW b \in Nat
  PROVE  a * b \in Nat
BY SMT

LEMMA NodesFinite ==
  /\ IsFiniteSet(Node) /\ Cardinality(Node) = N /\ N \in Nat /\ N >= 1
  /\ Node \subseteq Nat
<1>1. N \in Nat /\ N >= 1
  BY SequencerAssumption
<1>2. IsFiniteSet(0..(N - 1)) /\ Cardinality(0..(N - 1)) = N
  BY <1>1, FS_Interval, 0 \in Int, N - 1 \in Int
<1>3. QED
  BY <1>1, <1>2 DEF Node

LEMMA OthersFinite ==
  ASSUME NEW n \in Node
  PROVE  /\ IsFiniteSet(Node \ {n}) /\ Cardinality(Node \ {n}) = N - 1
         /\ IsFiniteSet(Up(n)) /\ Cardinality(Up(n)) \in Nat
<1>1. IsFiniteSet(Node \ {n}) /\ Cardinality(Node \ {n}) = N - 1
  BY NodesFinite, FS_RemoveElement
<1>2. Up(n) \in SUBSET (Node \ {n})
  BY DEF Up
<1>3. IsFiniteSet(Up(n))
  BY <1>1, <1>2, FS_Subset
<1>4. QED
  BY <1>1, <1>3, FS_CardinalityType

LEMMA SyncInit == Init => SyncInv
<1> SUFFICES ASSUME Init PROVE SyncInv
  OBVIOUS
<1>1. WriterTypes
  BY NodesFinite, EmptySeq DEF Init, WriterTypes
<1>2. Heard
  <2> SUFFICES ASSUME NEW n \in Node
               PROVE  sync_messages[n] + synchronization_counter[n] = 1 + Cardinality(Up(n))
    BY DEF Heard
  <2>1. Up(n) = {}
    BY DEF Init, Up
  <2>2. QED
    BY <2>1, FS_EmptySet DEF Init
<1>3. WaitedFor
  BY DEF Init, WaitedFor
<1>4. QED
  BY <1>1, <1>2, <1>3 DEF SyncInv

(* Steps that bring no sequencer up and touch no count.                    *)
LEMMA CountsKept ==
  ASSUME SyncInv, WriterTypes',
         UNCHANGED <<sync_messages, synchronization_counter>>,
         \A n \in Node : writer'[n] = "start" <=> writer[n] = "start",
         \A n \in Node : writer'[n] \in {"check", "epoch", "stopped"} =>
           writer[n] \in {"check", "epoch", "stopped"} \/ synchronization_counter[n] = N
  PROVE  SyncInv'
<1>1. \A n \in Node : Up(n)' = Up(n)
  BY DEF Up
<1>2. Heard'
  BY <1>1 DEF SyncInv, Heard
<1>3. WaitedFor'
  BY DEF SyncInv, WaitedFor
<1>4. QED
  BY <1>2, <1>3 DEF SyncInv

LEMMA SendSyncPreserves ==
  ASSUME SyncInv, NEW n \in Node, SendSync(n)
  PROVE  SyncInv'
<1> USE DEF SyncInv, WriterTypes
<1>1. WriterTypes'
  BY SMTT(20) DEF SendSync, readerVars
<1>2. Heard'
  <2> SUFFICES ASSUME NEW m \in Node
               PROVE  sync_messages'[m] + synchronization_counter'[m] =
                        1 + Cardinality(Up(m)')
    BY DEF Heard
  <2>1. /\ sync_messages[m] + synchronization_counter[m] = 1 + Cardinality(Up(m))
        /\ synchronization_counter'[m] = synchronization_counter[m]
        /\ sync_messages[m] \in Nat /\ synchronization_counter[m] \in Nat
    BY NodesFinite, SMTT(20) DEF Heard, SendSync
  <2>2. CASE m = n
    <3>1. Up(m)' = Up(m)
      BY <2>2 DEF Up, SendSync
    <3>2. QED
      BY <2>1, <2>2, <3>1 DEF SendSync
  <2>3. CASE m # n
    <3>1. Up(m)' = Up(m) \cup {n} /\ n \notin Up(m)
      BY <2>3 DEF Up, SendSync
    <3>2. Cardinality(Up(m)') = Cardinality(Up(m)) + 1
      BY <3>1, OthersFinite, FS_AddElement, ZenonT(30)
    <3>3. sync_messages'[m] = sync_messages[m] + 1
      BY <2>3 DEF SendSync
    <3>4. Cardinality(Up(m)) \in Nat
      BY OthersFinite
    <3>5. QED
      BY <2>1, <3>2, <3>3, <3>4
  <2>4. QED
    BY <2>2, <2>3
<1>3. WaitedFor'
  BY DEF WaitedFor, SendSync
<1>4. QED
  BY <1>1, <1>2, <1>3

LEMMA ReceiveSyncPreserves ==
  ASSUME SyncInv, NEW n \in Node, ReceiveSync(n)
  PROVE  SyncInv'
<1> USE DEF SyncInv, WriterTypes
<1>1. WriterTypes'
  <2>1. sync_messages[n] \in Nat /\ sync_messages[n] > 0 /\ sync_messages[n] - 1 \in Nat
    BY DEF ReceiveSync, HasSync
  <2>2. synchronization_counter[n] + 1 \in 1..N
    BY NodesFinite DEF ReceiveSync
  <2>3. sync_messages' \in [Node -> Nat]
    BY <2>1 DEF ReceiveSync
  <2>4. synchronization_counter' \in [Node -> 1..N]
    BY <2>2 DEF ReceiveSync
  <2>5. QED
    BY <2>3, <2>4 DEF ReceiveSync, readerVars
<1>2. \A m \in Node : Up(m)' = Up(m)
  BY DEF Up, ReceiveSync
<1>3. Heard'
  <2> SUFFICES ASSUME NEW m \in Node
               PROVE  sync_messages'[m] + synchronization_counter'[m] =
                        1 + Cardinality(Up(m))
    BY <1>2 DEF Heard
  <2>1. /\ sync_messages[m] + synchronization_counter[m] = 1 + Cardinality(Up(m))
        /\ sync_messages[m] \in Nat /\ synchronization_counter[m] \in Nat
    BY NodesFinite, SMTT(20) DEF Heard
  <2>2. QED
    BY <2>1 DEF ReceiveSync, HasSync
<1>4. WaitedFor'
  BY DEF WaitedFor, ReceiveSync
<1>5. QED
  BY <1>1, <1>3, <1>4

LEMMA SyncNext == SyncInv /\ [Next]_vars => SyncInv'
<1> SUFFICES ASSUME SyncInv, [Next]_vars PROVE SyncInv'
  OBVIOUS
<1> USE DEF SyncInv, WriterTypes
<1>1. ASSUME NEW n \in Node, Writer(n) PROVE SyncInv'
  <2>1. CASE SendSync(n)
    BY <2>1, SendSyncPreserves
  <2>2. CASE ReceiveSync(n)
    BY <2>2, ReceiveSyncPreserves
  <2>3. CASE StartSequencer(n)
    <3>1. WriterTypes' /\ synchronization_counter[n] = N
      BY <2>3, NodesFinite, SMTT(20) DEF StartSequencer, Synchronized, readerVars
    <3>2. QED
      BY <2>3, <3>1, CountsKept DEF StartSequencer
  <2>4. CASE BeginEpoch(n)
    <3>1. WriterTypes'
      BY <2>4, EmptySeq DEF BeginEpoch, readerVars
    <3>2. QED
      BY <2>4, <3>1, CountsKept DEF BeginEpoch
  <2>5. CASE NewTxn(n)
    <3>1. PICK nodes \in Placements :
            batch' = [batch EXCEPT ![n] = Append(@, [id |-> TxnId(n), nodes |-> nodes])]
      BY <2>5 DEF NewTxn
    <3>2. MAX_BATCH_SIZE \in Nat /\ batch_number[n] \in Nat /\ Len(batch[n]) \in Nat
      BY SequencerAssumption, LenProperties
    <3>3. [id |-> TxnId(n), nodes |-> nodes] \in Txns
      <4>1. batch_number[n] * MAX_BATCH_SIZE \in Nat
        BY <3>2, ProductNat
      <4>2. TxnId(n) \in Nat
        BY <3>2, <4>1 DEF TxnId
      <4>3. QED
        BY <4>2 DEF Txns
    <3>4. Append(batch[n], [id |-> TxnId(n), nodes |-> nodes]) \in Seq(Txns)
      BY <3>3, AppendProperties
    <3>5. WriterTypes'
      BY <2>5, <3>1, <3>4 DEF NewTxn, readerVars
    <3>6. QED
      BY <2>5, <3>5, CountsKept DEF NewTxn
  <2>6. CASE EndEpoch(n)
    <3>1. Append(batch_queue[n], batch[n]) \in Seq(Seq(Txns))
      BY AppendProperties
    <3>2. batch_number[n] + N \in Nat
      BY NodesFinite
    <3>3. WriterTypes'
      BY <2>6, <3>1, <3>2 DEF EndEpoch, readerVars
    <3>4. QED
      BY <2>6, <3>3, CountsKept DEF EndEpoch
  <2>7. CASE StopWriter(n)
    <3>1. WriterTypes'
      BY <2>7 DEF StopWriter, readerVars
    <3>2. QED
      BY <2>7, <3>1, CountsKept DEF StopWriter
  <2>8. QED
    BY <1>1, <2>1, <2>2, <2>3, <2>4, <2>5, <2>6, <2>7 DEF Writer
<1>2. ASSUME NEW n \in Node, Reader(n) PROVE SyncInv'
  <2>1. UNCHANGED writerVars
    BY <1>2 DEF Reader, PollQueue, SendBatch, StopReader
  <2>2. WriterTypes'
    <3>1. CASE PollQueue(n) \/ StopReader(n)
      BY <2>1, <3>1 DEF PollQueue, StopReader, writerVars
    <3>2. CASE SendBatch(n)
      <4>1. Tail(batch_queue[n]) \in Seq(Seq(Txns)) /\ Head(batch_queue[n]) \in Seq(Txns)
        BY <3>2, HeadTailProperties DEF SendBatch
      <4>2. Append(sent[n], Head(batch_queue[n])) \in Seq(Seq(Txns))
        BY <4>1, AppendProperties
      <4>3. batch_queue' \in [Node -> Seq(Seq(Txns))]
        BY <3>2, <4>1 DEF SendBatch
      <4>4. sent' \in [Node -> Seq(Seq(Txns))]
        BY <3>2, <4>2 DEF SendBatch
      <4>5. QED
        BY <2>1, <4>3, <4>4 DEF writerVars
    <3>3. QED
      BY <1>2, <3>1, <3>2 DEF Reader
  <2>3. QED
    BY <2>1, <2>2, CountsKept DEF writerVars
<1>3. ASSUME NEW n \in Node, TakeBatch(n) \/ Finish(n) \/ Destroy(n) PROVE SyncInv'
  <2>1. UNCHANGED <<writerVars, batch_queue, sent>>
    BY <1>3 DEF TakeBatch, Finish, Destroy, readerVars
  <2>2. QED
    BY <2>1, CountsKept DEF writerVars
<1>4. CASE UNCHANGED vars
  BY <1>4, CountsKept DEF vars, writerVars, readerVars
<1>5. QED
  BY <1>1, <1>2, <1>3, <1>4 DEF Next

LEMMA SyncHolds == Spec => []SyncInv
BY SyncInit, SyncNext, PTL DEF Spec

(* No sequencer hands out work before all the others are up: it has heard  *)
(* from as many as there are, and nobody is counted twice                  *)
(* (sequencer.cc:81-103).                                                  *)
THEOREM SequencersStartTogether == Spec => []StartTogether
<1>1. SyncInv => StartTogether
  <2> SUFFICES ASSUME SyncInv, NEW n \in Node, writer[n] \in {"check", "epoch"},
                      NEW m \in Node
               PROVE  writer[m] # "start"
    BY DEF StartTogether
  <2>1. /\ sync_messages[n] + N = 1 + Cardinality(Up(n))
        /\ sync_messages[n] \in Nat
    BY DEF SyncInv, Heard, WaitedFor, WriterTypes
  <2>2. Up(n) \in SUBSET (Node \ {n})
    BY DEF Up
  <2>3. /\ IsFiniteSet(Node \ {n}) /\ Cardinality(Node \ {n}) = N - 1
        /\ Cardinality(Up(n)) \in Nat /\ N \in Nat
    BY OthersFinite, NodesFinite
  <2>4. Cardinality(Up(n)) <= Cardinality(Node \ {n})
    BY <2>2, <2>3, FS_Subset
  <2>5. Cardinality(Node \ {n}) = Cardinality(Up(n))
    BY <2>1, <2>3, <2>4
  <2>6. Up(n) = Node \ {n}
    BY <2>2, <2>3, <2>5, FS_Subset
  <2>7. QED
    BY <2>6 DEF Up
<1>2. QED
  BY <1>1, SyncHolds, PTL

-----------------------------------------------------------------------------
(***************************************************************************)
(* Ids.  An id is its epoch times the size of a batch plus a place in the  *)
(* batch; a batch never outgrows its room, and the epochs of a sequencer   *)
(* are its own.                                                            *)
(***************************************************************************)

IdsOf(txns, e) ==
  /\ Len(txns) <= MAX_BATCH_SIZE
  /\ \A k \in 1..Len(txns) : txns[k].id = (e * MAX_BATCH_SIZE) + (k - 1)

(* The batches of an own epoch each, from before the given one ...         *)
OwnEpochs(batches, n, number) ==
  \A i \in 1..Len(batches) :
    \E e \in Nat : e % N = n /\ e < number /\ IdsOf(batches[i], e)

(* ... and in their order.                                                 *)
Increasing(batches) ==
  \A i, j \in 1..Len(batches) : i < j =>
    \A k \in 1..Len(batches[i]), l \in 1..Len(batches[j]) :
      batches[i][k].id < batches[j][l].id

Numbered(batches, n, number) == OwnEpochs(batches, n, number) /\ Increasing(batches)

IdInv ==
  /\ SyncInv
  /\ \A n \in Node : batch_number[n] % N = n
  /\ \A n \in Node : Numbered(Done(n), n, batch_number[n])
  /\ \A n \in Node : writer[n] = "epoch" => IdsOf(batch[n], batch_number[n])

(* Two epochs do not share an id.                                          *)
LEMMA EpochsApart ==
  ASSUME NEW e \in Nat, NEW f \in Nat, e < f, NEW k \in 1..MAX_BATCH_SIZE
  PROVE  (e * MAX_BATCH_SIZE) + (k - 1) < f * MAX_BATCH_SIZE
<1> DEFINE M == MAX_BATCH_SIZE
<1>1. M \in Nat \ {0}
  BY SequencerAssumption
<1> HIDE DEF M
<1>2. M * (f - e) >= M
  BY <1>1, AtLeastOnce, f - e \in Int, f - e >= 1
<1>3. (f * M) - (e * M) = M * (f - e)
  BY <1>1, SMT
<1>4. e * M \in Nat /\ f * M \in Nat
  BY <1>1, ProductNat
<1> DEFINE p == e * M  q == f * M  d == M * (f - e)
<1>5. p \in Nat /\ q \in Nat /\ d \in Int /\ d >= M /\ q - p = d
  BY <1>1, <1>2, <1>3, <1>4
<1> HIDE DEF p, q, d
<1>6. p + (k - 1) < q
  BY <1>1, <1>5 DEF M
<1>7. QED
  BY <1>6 DEF p, q, M

LEMMA NumberedAppend ==
  ASSUME NEW n \in Node, NEW number \in Nat, number % N = n,
         NEW batches \in Seq(Seq(Txns)), Numbered(batches, n, number),
         NEW txns \in Seq(Txns), IdsOf(txns, number)
  PROVE  Numbered(Append(batches, txns), n, number + N)
<1> DEFINE all == Append(batches, txns)
<1>1. /\ Len(batches) \in Nat /\ Len(all) = Len(batches) + 1
      /\ \A i \in 1..Len(batches) : all[i] = batches[i]
      /\ all[Len(batches) + 1] = txns
  BY AppendProperties, LenProperties
<1>2. N \in Nat /\ N >= 1
  BY NodesFinite
<1> HIDE DEF all
<1>3. \A j \in 1..Len(all) : j \in 1..Len(batches) \/ j = Len(batches) + 1
  BY <1>1
<1>4. OwnEpochs(all, n, number + N)
  <2> SUFFICES ASSUME NEW i \in 1..Len(all)
               PROVE  \E e \in Nat : e % N = n /\ e < number + N /\ IdsOf(all[i], e)
    BY DEF OwnEpochs
  <2>1. CASE i = Len(batches) + 1
    BY <1>1, <1>2, <2>1
  <2>2. CASE i \in 1..Len(batches)
    <3>1. PICK e \in Nat : e % N = n /\ e < number /\ IdsOf(batches[i], e)
      BY <2>2 DEF Numbered, OwnEpochs
    <3>2. all[i] = batches[i] /\ e < number + N
      BY <1>1, <1>2, <2>2, <3>1
    <3>3. QED
      BY <3>1, <3>2
  <2>3. QED
    BY <1>1, <2>1, <2>2
<1>5. Increasing(all)
  <2> SUFFICES ASSUME NEW i \in 1..Len(all), NEW j \in 1..Len(all), i < j,
                      NEW k \in 1..Len(all[i]), NEW l \in 1..Len(all[j])
               PROVE  all[i][k].id < all[j][l].id
    BY DEF Increasing
  <2>1. i \in 1..Len(batches) /\ all[i] = batches[i]
    BY <1>1, SMTT(20)
  <2>2. CASE j \in 1..Len(batches)
    BY <1>1, <2>1, <2>2 DEF Numbered, Increasing
  <2>3. CASE j = Len(batches) + 1
    <3>1. PICK e \in Nat : e % N = n /\ e < number /\ IdsOf(all[i], e)
      BY <2>1 DEF Numbered, OwnEpochs
    <3>2. /\ k \in 1..MAX_BATCH_SIZE
          /\ all[i][k].id = (e * MAX_BATCH_SIZE) + (k - 1)
      <4>1. all[i] \in Seq(Txns) /\ MAX_BATCH_SIZE \in Nat
        BY <2>1, ElementOfSeq, SequencerAssumption
      <4>2. Len(all[i]) \in Nat
        BY <4>1, LenProperties
      <4>3. QED
        BY <3>1, <4>1, <4>2 DEF IdsOf
    <3>3. all[i][k].id < number * MAX_BATCH_SIZE
      BY <3>1, <3>2, EpochsApart
    <3>4. all[j] = txns /\ all[j][l].id = (number * MAX_BATCH_SIZE) + (l - 1)
      BY <1>1, <2>3 DEF IdsOf
    <3>5. Len(txns) \in Nat /\ l \in 1..Len(txns)
      BY <3>4, LenProperties
    <3> DEFINE p == number * MAX_BATCH_SIZE  q == all[i][k].id
    <3>6. p \in Nat
      BY ProductNat, SequencerAssumption
    <3>7. q \in Nat
      <4>1. all[i] \in Seq(Txns)
        BY <2>1, ElementOfSeq
      <4>2. all[i][k] \in Txns
        BY <4>1, ElementOfSeq
      <4>3. QED
        BY <4>2 DEF Txns
    <3>8. q < p /\ all[j][l].id = p + (l - 1) /\ l - 1 \in Nat
      BY <3>3, <3>4, <3>5
    <3> HIDE DEF p, q
    <3>9. q < all[j][l].id
      BY <3>6, <3>7, <3>8
    <3>10. QED
      BY <3>9 DEF q
  <2>4. QED
    BY <1>3, <2>2, <2>3
<1>6. QED
  BY <1>4, <1>5 DEF Numbered, all

(* The reader drops empty batches: the others keep their order.            *)
LEMMA NumberedDrop ==
  ASSUME NEW n \in Node, NEW number \in Nat,
         NEW s \in Seq(Seq(Txns)), NEW q \in Seq(Seq(Txns)), q # <<>>,
         Numbered(s \o q, n, number)
  PROVE  Numbered(s \o Tail(q), n, number)
<1> DEFINE all == s \o q  rest == s \o Tail(q)
           Old(i) == IF i <= Len(s) THEN i ELSE i + 1
<1>1. /\ Tail(q) \in Seq(Seq(Txns)) /\ Len(Tail(q)) = Len(q) - 1
      /\ \A i \in 1..Len(Tail(q)) : Tail(q)[i] = q[i + 1]
  BY HeadTailProperties
<1>2. Len(s) \in Nat /\ Len(q) \in Nat /\ Len(q) >= 1
  BY LenProperties, EmptySeq
<1>3. /\ Len(all) = Len(s) + Len(q)
      /\ \A i \in 1..Len(all) : all[i] = IF i <= Len(s) THEN s[i] ELSE q[i - Len(s)]
  BY ConcatProperties
<1>4. /\ Len(rest) = Len(s) + Len(Tail(q))
      /\ \A i \in 1..Len(rest) :
           rest[i] = IF i <= Len(s) THEN s[i] ELSE Tail(q)[i - Len(s)]
  BY <1>1, ConcatProperties
<1> HIDE DEF all, rest
<1>5. \A i \in 1..Len(rest) : Old(i) \in 1..Len(all) /\ rest[i] = all[Old(i)]
  <2> SUFFICES ASSUME NEW i \in 1..Len(rest)
               PROVE  Old(i) \in 1..Len(all) /\ rest[i] = all[Old(i)]
    OBVIOUS
  <2>1. CASE i <= Len(s)
    BY <1>1, <1>2, <1>3, <1>4, <2>1
  <2>2. CASE i > Len(s)
    <3>1. i - Len(s) \in 1..Len(Tail(q)) /\ i + 1 \in 1..Len(all)
      BY <1>1, <1>2, <1>3, <1>4, <2>2
    <3>2. rest[i] = q[(i - Len(s)) + 1]
      <4>1. ~ (i <= Len(s))
        BY <1>2, <1>4, <1>1, <2>2
      <4>2. rest[i] = Tail(q)[i - Len(s)]
        BY <1>4, <4>1
      <4>3. QED
        BY <1>1, <3>1, <4>2
    <3>3. all[i + 1] = q[(i + 1) - Len(s)]
      BY <1>2, <1>3, <2>2, <3>1
    <3>4. (i + 1) - Len(s) = (i - Len(s)) + 1
      BY <1>2, <1>4, <1>1
    <3>5. Old(i) = i + 1
      BY <1>2, <2>2
    <3>6. QED
      BY <3>1, <3>2, <3>3, <3>4, <3>5
  <2>3. QED
    BY <1>1, <1>2, <1>4, <2>1, <2>2
<1>6. \A i, j \in 1..Len(rest) : i < j => Old(i) < Old(j)
  BY <1>1, <1>2, <1>4, SMTT(20)
<1> HIDE DEF Old
<1>7. OwnEpochs(all, n, number) /\ Increasing(all)
  BY DEF Numbered, all
<1>8. OwnEpochs(rest, n, number)
  BY <1>5, <1>7 DEF OwnEpochs
<1>9. Increasing(rest)
  BY <1>5, <1>6, <1>7 DEF Increasing
<1>10. QED
  BY <1>8, <1>9 DEF Numbered, rest

LEMMA IdInit == Init => IdInv
<1> SUFFICES ASSUME Init PROVE IdInv
  OBVIOUS
<1>1. \A n \in Node : n % N = n
  <2> SUFFICES ASSUME NEW n \in Node PROVE n % N = n
    OBVIOUS
  <2>1. n \in 0..(N - 1) /\ N \in Nat \ {0} /\ n \in Nat
    BY NodesFinite DEF Node
  <2> DEFINE q == n \div N  r == n % N
  <2>2. q \in Int /\ r \in 0..(N - 1) /\ n = (N * q) + r
    BY <2>1, Division
  <2> HIDE DEF q, r
  <2>3. (N * q) + r = (N * 0) + n
    BY <2>1, <2>2, SMT
  <2>4. r = n
    BY <2>1, <2>2, <2>3, DivisionUnique, 0 \in Int
  <2>5. QED
    BY <2>4 DEF r
<1>2. \A n \in Node : Done(n) = <<>> /\ Len(Done(n)) = 0
  BY EmptySeq, ConcatEmptySeq DEF Init, Done
<1>3. \A n \in Node : Numbered(Done(n), n, batch_number[n])
  BY <1>2 DEF Numbered, OwnEpochs, Increasing
<1>4. QED
  BY <1>1, <1>3, SyncInit DEF Init, IdInv

(* Steps that leave what a sequencer has collected and its epoch alone.    *)
LEMMA IdsKept ==
  ASSUME IdInv, SyncInv', UNCHANGED batch_number,
         \A n \in Node : Done(n)' = Done(n),
         \A n \in Node : writer'[n] = "epoch" =>
           \/ writer[n] = "epoch" /\ batch'[n] = batch[n]
           \/ batch'[n] = <<>>
  PROVE  IdInv'
<1>1. \A e : IdsOf(<<>>, e)
  BY EmptySeq, SequencerAssumption DEF IdsOf
<1>2. \A n \in Node : writer'[n] = "epoch" => IdsOf(batch'[n], batch_number[n])
  BY <1>1 DEF IdInv
<1>3. \A n \in Node : batch_number[n] % N = n /\ Numbered(Done(n), n, batch_number[n])
  BY DEF IdInv
<1>4. \A n \in Node : Numbered(Done(n)', n, batch_number'[n]) /\ batch_number'[n] % N = n
  BY <1>3
<1>5. QED
  BY <1>2, <1>4 DEF IdInv, Numbered, OwnEpochs, Increasing, IdsOf

(* What leaves the writer goes behind the queue, what the reader sends     *)
(* leaves it at the front.                                                 *)
LEMMA AppendBehind ==
  ASSUME NEW S, NEW s \in Seq(S), NEW q \in Seq(S), NEW x \in S
  PROVE  s \o Append(q, x) = Append(s \o q, x)
<1>1. <<x>> \in Seq(S) /\ s \o q \in Seq(S)
  BY ConcatProperties
<1>2. Append(q, x) = q \o <<x>> /\ Append(s \o q, x) = (s \o q) \o <<x>>
  BY <1>1, AppendIsConcat
<1>3. (s \o q) \o <<x>> = s \o (q \o <<x>>)
  BY <1>1, ConcatAssociative
<1>4. QED
  BY <1>2, <1>3

LEMMA HeadInFront ==
  ASSUME NEW S, NEW s \in Seq(S), NEW q \in Seq(S), q # <<>>
  PROVE  Append(s, Head(q)) \o Tail(q) = s \o q
<1>1. Head(q) \in S /\ Tail(q) \in Seq(S) /\ <<Head(q)>> \in Seq(S)
  BY HeadTailProperties
<1>2. Append(s, Head(q)) = s \o <<Head(q)>>
  BY <1>1, AppendIsConcat
<1>3. (s \o <<Head(q)>>) \o Tail(q) = s \o (<<Head(q)>> \o Tail(q))
  BY <1>1, ConcatAssociative
<1>4. <<Head(q)>> \o Tail(q) = q
  OBVIOUS
<1>5. QED
  BY <1>2, <1>3, <1>4

LEMMA NewTxnKeepsIds ==
  ASSUME IdInv, SyncInv', NEW n \in Node, NewTxn(n)
  PROVE  IdInv'
<1>1. PICK nodes \in Placements :
        batch' = [batch EXCEPT ![n] = Append(@, [id |-> TxnId(n), nodes |-> nodes])]
  BY DEF NewTxn
<1> DEFINE t == [id |-> TxnId(n), nodes |-> nodes]
           e == batch_number[n]
<1>2. WriterTypes
  BY DEF IdInv, SyncInv
<1>3. /\ batch[n] \in Seq(Txns) /\ Len(batch[n]) \in Nat /\ batch \in [Node -> Seq(Txns)]
      /\ MAX_BATCH_SIZE \in Nat
  BY <1>2, LenProperties, SequencerAssumption DEF WriterTypes
<1>4. IdsOf(batch[n], e) /\ Len(batch[n]) < MAX_BATCH_SIZE
  BY DEF IdInv, NewTxn
<1>5. IdsOf(batch'[n], e)
  <2>1. batch'[n] = Append(batch[n], t)
    BY <1>1, <1>3
  <2>2. t.id = (e * MAX_BATCH_SIZE) + Len(batch[n])
    BY DEF TxnId
  <2> HIDE DEF t, e
  <2>3. /\ Len(batch'[n]) = Len(batch[n]) + 1
        /\ \A k \in 1..Len(batch[n]) : batch'[n][k] = batch[n][k]
        /\ batch'[n][Len(batch[n]) + 1] = t
    BY <1>3, <2>1
  <2>4. (Len(batch[n]) + 1) - 1 = Len(batch[n])
    BY <1>3
  <2>5. \A k \in 1..Len(batch'[n]) : k \in 1..Len(batch[n]) \/ k = Len(batch[n]) + 1
    BY <1>3, <2>3
  <2>6. \A k \in 1..Len(batch'[n]) : batch'[n][k].id = (e * MAX_BATCH_SIZE) + (k - 1)
    BY <1>4, <2>2, <2>3, <2>4, <2>5 DEF IdsOf
  <2>7. QED
    BY <1>3, <1>4, <2>3, <2>6 DEF IdsOf
<1>6. \A m \in Node : writer'[m] = "epoch" => IdsOf(batch'[m], batch_number[m])
  BY <1>1, <1>3, <1>5 DEF IdInv, NewTxn
<1>7. UNCHANGED <<batch_number, sent, batch_queue>>
  BY DEF NewTxn, readerVars
<1>8. \A m \in Node : Done(m)' = Done(m)
  BY <1>7 DEF Done
<1>9. \A m \in Node :
        /\ batch_number'[m] % N = m /\ Numbered(Done(m)', m, batch_number'[m])
        /\ writer'[m] = "epoch" => IdsOf(batch'[m], batch_number'[m])
  BY <1>6, <1>7, <1>8 DEF IdInv
<1>10. QED
  BY <1>9 DEF IdInv, Numbered, OwnEpochs, Increasing, IdsOf

LEMMA EndEpochKeepsIds ==
  ASSUME IdInv, SyncInv', NEW n \in Node, EndEpoch(n)
  PROVE  IdInv'
<1>1. /\ batch_queue \in [Node -> Seq(Seq(Txns))] /\ sent \in [Node -> Seq(Seq(Txns))]
      /\ batch[n] \in Seq(Txns) /\ batch_number \in [Node -> Nat]
  BY DEF IdInv, SyncInv, WriterTypes
<1>2. /\ batch_queue' = [batch_queue EXCEPT ![n] = Append(@, batch[n])]
      /\ batch_number' = [batch_number EXCEPT ![n] = @ + N]
      /\ writer' = [writer EXCEPT ![n] = "check"] /\ writer[n] = "epoch"
      /\ sent' = sent /\ batch' = batch
  BY DEF EndEpoch, readerVars
<1>3. N \in Nat \ {0}
  BY SequencerAssumption
<1>4. ASSUME NEW m \in Node
      PROVE  batch_number'[m] % N = m /\ Numbered(Done(m)', m, batch_number'[m])
  <2>1. batch_number[m] % N = m /\ Numbered(Done(m), m, batch_number[m])
    BY DEF IdInv
  <2>2. CASE m = n
    <3>1. batch_number'[m] = batch_number[m] + N
      BY <1>1, <1>2, <2>2
    <3>2. batch_number'[m] % N = m
      BY <1>1, <1>3, <2>1, <3>1, SameSlot
    <3>3. Done(m)' = Append(Done(m), batch[m]) /\ Done(m) \in Seq(Seq(Txns))
      <4>1. Done(m)' = sent[m] \o Append(batch_queue[m], batch[m])
        BY <1>1, <1>2, <2>2 DEF Done
      <4>2. sent[m] \o Append(batch_queue[m], batch[m])
              = Append(sent[m] \o batch_queue[m], batch[m])
        BY <1>1, <2>2, AppendBehind
      <4>3. Done(m) \in Seq(Seq(Txns))
        BY <1>1, ConcatProperties DEF Done
      <4>4. QED
        BY <4>1, <4>2, <4>3 DEF Done
    <3>4. IdsOf(batch[m], batch_number[m])
      BY <1>2, <2>2 DEF IdInv
    <3>5. Numbered(Append(Done(m), batch[m]), m, batch_number[m] + N)
      BY <1>1, <2>1, <2>2, <3>3, <3>4, NumberedAppend
    <3>6. QED
      BY <3>1, <3>2, <3>3, <3>5
  <2>3. CASE m # n
    <3>1. Done(m)' = Done(m) /\ batch_number'[m] = batch_number[m]
      BY <1>1, <1>2, <2>3 DEF Done
    <3>2. QED
      BY <2>1, <3>1
  <2>4. QED
    BY <2>2, <2>3
<1>5. \A m \in Node : writer'[m] = "epoch" => m # n /\ writer[m] = "epoch"
  BY <1>2 DEF IdInv, SyncInv, WriterTypes
<1>6. \A m \in Node : writer'[m] = "epoch" => IdsOf(batch'[m], batch_number'[m])
  BY <1>1, <1>2, <1>5 DEF IdInv
<1>7. QED
  BY <1>4, <1>6 DEF IdInv, Numbered, OwnEpochs, Increasing, IdsOf

LEMMA SendBatchKeepsIds ==
  ASSUME IdInv, SyncInv', NEW n \in Node, SendBatch(n)
  PROVE  IdInv'
<1> DEFINE txns == Head(batch_queue[n])
<1>1. /\ batch_queue \in [Node -> Seq(Seq(Txns))] /\ sent \in [Node -> Seq(Seq(Txns))]
      /\ batch_number \in [Node -> Nat] /\ batch_queue[n] # <<>>
  BY DEF IdInv, SyncInv, WriterTypes, SendBatch
<1>2. /\ batch_queue' = [batch_queue EXCEPT ![n] = Tail(@)]
      /\ \/ sent' = [sent EXCEPT ![n] = Append(@, txns)]
         \/ sent' = sent
      /\ UNCHANGED writerVars
  BY DEF SendBatch
<1> HIDE DEF txns
<1>3. ASSUME NEW m \in Node PROVE Numbered(Done(m)', m, batch_number[m])
  <2>1. Numbered(Done(m), m, batch_number[m])
    BY DEF IdInv
  <2>2. CASE m = n /\ sent' = [sent EXCEPT ![n] = Append(@, txns)]
    <3>1. sent[m] \in Seq(Seq(Txns)) /\ batch_queue[m] \in Seq(Seq(Txns))
      BY <1>1
    <3>2. Append(sent[m], txns) \o Tail(batch_queue[m]) = sent[m] \o batch_queue[m]
      BY <1>1, <2>2, <3>1, HeadInFront DEF txns
    <3>3. Done(m)' = Append(sent[m], txns) \o Tail(batch_queue[m])
      BY <1>1, <1>2, <2>2 DEF Done
    <3>4. QED
      BY <2>1, <3>2, <3>3 DEF Done
  <2>3. CASE m = n /\ sent' = sent
    <3>1. Done(m)' = sent[m] \o Tail(batch_queue[m])
      BY <1>1, <1>2, <2>3 DEF Done
    <3>2. QED
      BY <1>1, <2>1, <2>3, <3>1, NumberedDrop DEF Done
  <2>4. CASE m # n
    <3>1. Done(m)' = Done(m)
      BY <1>1, <1>2, <2>4 DEF Done
    <3>2. QED
      BY <2>1, <3>1
  <2>5. QED
    BY <1>2, <2>2, <2>3, <2>4
<1>4. \A m \in Node :
        /\ batch_number'[m] % N = m /\ Numbered(Done(m)', m, batch_number'[m])
        /\ writer'[m] = "epoch" => IdsOf(batch'[m], batch_number'[m])
  BY <1>2, <1>3 DEF IdInv, writerVars
<1>5. QED
  BY <1>4 DEF IdInv, Numbered, OwnEpochs, Increasing, IdsOf

LEMMA IdNext == IdInv /\ [Next]_vars => IdInv'
<1> SUFFICES ASSUME IdInv, [Next]_vars PROVE IdInv'
  OBVIOUS
<1>1. SyncInv'
  BY SyncNext DEF IdInv
<1>2. WriterTypes
  BY DEF IdInv, SyncInv
<1>3. ASSUME NEW n \in Node, Writer(n) PROVE IdInv'
  <2>1. CASE SendSync(n) \/ ReceiveSync(n) \/ StartSequencer(n) \/ BeginEpoch(n) \/ StopWriter(n)
    <3>1. /\ UNCHANGED <<batch_number, sent, batch_queue>>
          /\ \A m \in Node : writer'[m] = "epoch" =>
                \/ writer[m] = "epoch" /\ batch'[m] = batch[m]
                \/ batch'[m] = <<>>
      BY <1>2, <2>1 DEF WriterTypes, SendSync, ReceiveSync, StartSequencer, BeginEpoch,
                        StopWriter, readerVars
    <3>2. QED
      BY <1>1, <3>1, IdsKept DEF Done
  <2>2. CASE NewTxn(n)
    BY <1>1, <2>2, NewTxnKeepsIds
  <2>3. CASE EndEpoch(n)
    BY <1>1, <2>3, EndEpochKeepsIds
  <2>4. QED
    BY <1>3, <2>1, <2>2, <2>3 DEF Writer
<1>4. ASSUME NEW n \in Node, Reader(n) PROVE IdInv'
  <2>1. CASE SendBatch(n)
    BY <1>1, <2>1, SendBatchKeepsIds
  <2>2. CASE PollQueue(n) \/ StopReader(n)
    <3>1. UNCHANGED <<writerVars, batch_queue, sent>>
      BY <2>2 DEF PollQueue, StopReader
    <3>2. QED
      BY <1>1, <3>1, IdsKept DEF Done, writerVars
  <2>3. QED
    BY <1>4, <2>1, <2>2 DEF Reader
<1>5. ASSUME NEW n \in Node, TakeBatch(n) \/ Finish(n) \/ Destroy(n) PROVE IdInv'
  <2>1. UNCHANGED <<writerVars, batch_queue, sent>>
    BY <1>5 DEF TakeBatch, Finish, Destroy, readerVars
  <2>2. QED
    BY <1>1, <2>1, IdsKept DEF Done, writerVars
<1>6. CASE UNCHANGED vars
  BY <1>1, <1>6, IdsKept DEF vars, writerVars, readerVars, Done
<1>7. QED
  BY <1>3, <1>4, <1>5, <1>6 DEF Next

LEMMA IdsHold == Spec => []IdInv
BY IdInit, IdNext, PTL DEF Spec

(* What a sequencer has collected is numbered, with the batch it is at.    *)
LEMMA CollectedNumbered ==
  ASSUME IdInv, NEW n \in Node
  PROVE  /\ Collected(n) \in Seq(Seq(Txns))
         /\ Numbered(Collected(n), n, batch_number[n] + N)
<1>1. /\ Done(n) \in Seq(Seq(Txns)) /\ batch[n] \in Seq(Txns)
      /\ batch_number[n] \in Nat /\ N \in Nat
  BY ConcatProperties, NodesFinite DEF IdInv, SyncInv, WriterTypes, Done
<1>2. batch_number[n] % N = n /\ Numbered(Done(n), n, batch_number[n])
  BY DEF IdInv
<1>3. CASE writer[n] = "epoch"
  <2>1. Collected(n) = Append(Done(n), batch[n]) /\ IdsOf(batch[n], batch_number[n])
    BY <1>3 DEF Collected, IdInv
  <2>2. QED
    BY <1>1, <1>2, <2>1, NumberedAppend, AppendProperties
<1>4. CASE writer[n] # "epoch"
  <2>1. Collected(n) = Done(n)
    BY <1>4 DEF Collected
  <2>2. \A e \in Nat : e < batch_number[n] => e < batch_number[n] + N
    BY <1>1
  <2>3. QED
    BY <1>1, <1>2, <2>1, <2>2 DEF Numbered, OwnEpochs
<1>5. QED
  BY <1>3, <1>4

(* Ids are globally unique, over nodes, epochs and places in a batch       *)
(* (sequencer.cc:115, txn.proto:13).                                       *)
THEOREM IdsUnique == Spec => []UniqueIds
<1>1. IdInv => UniqueIds
  <2> SUFFICES ASSUME IdInv, NEW m \in Node, NEW n \in Node,
                      NEW i \in DOMAIN Collected(m), NEW j \in DOMAIN Collected(n),
                      NEW k \in DOMAIN Collected(m)[i], NEW l \in DOMAIN Collected(n)[j],
                      Collected(m)[i][k].id = Collected(n)[j][l].id
               PROVE  m = n /\ i = j /\ k = l
    BY DEF UniqueIds
  <2> DEFINE bs == Collected(m)  cs == Collected(n)  M == MAX_BATCH_SIZE
  <2>1. /\ bs \in Seq(Seq(Txns)) /\ Numbered(bs, m, batch_number[m] + N)
        /\ cs \in Seq(Seq(Txns)) /\ Numbered(cs, n, batch_number[n] + N)
    BY CollectedNumbered
  <2>2. /\ i \in 1..Len(bs) /\ bs[i] \in Seq(Txns) /\ k \in 1..Len(bs[i])
        /\ j \in 1..Len(cs) /\ cs[j] \in Seq(Txns) /\ l \in 1..Len(cs[j])
    BY <2>1, LenProperties, ElementOfSeq
  <2>3. M \in Nat \ {0}
    BY SequencerAssumption
  <2>4. bs[i][k].id = cs[j][l].id
    OBVIOUS
  <2> HIDE DEF bs, cs, M
  <2>5. PICK e \in Nat : e % N = m /\ IdsOf(bs[i], e)
    BY <2>1, <2>2 DEF Numbered, OwnEpochs
  <2>6. PICK f \in Nat : f % N = n /\ IdsOf(cs[j], f)
    BY <2>1, <2>2 DEF Numbered, OwnEpochs
  <2>7. /\ bs[i][k].id = (e * M) + (k - 1) /\ Len(bs[i]) <= M
        /\ cs[j][l].id = (f * M) + (l - 1) /\ Len(cs[j]) <= M
    BY <2>2, <2>5, <2>6 DEF IdsOf, M
  <2>8. k - 1 \in 0..(M - 1) /\ l - 1 \in 0..(M - 1)
    <3>1. Len(bs[i]) \in Nat /\ Len(cs[j]) \in Nat
      BY <2>2, LenProperties
    <3>2. Len(bs[i]) <= M /\ Len(cs[j]) <= M
      BY <2>7
    <3>3. k \in 1..Len(bs[i]) /\ l \in 1..Len(cs[j])
      BY <2>2
    <3>4. QED
      BY <2>3, <3>1, <3>2, <3>3
  <2>9. (M * e) + (k - 1) = (M * f) + (l - 1)
    <3>1. M * e = e * M /\ M * f = f * M
      BY <2>3, SMT
    <3>2. QED
      BY <2>4, <2>7, <3>1
  <2>10. e = f /\ k - 1 = l - 1
    <3> DEFINE r == k - 1  s == l - 1
    <3>1. r \in 0..(M - 1) /\ s \in 0..(M - 1) /\ (M * e) + r = (M * f) + s
      BY <2>8, <2>9
    <3> HIDE DEF r, s
    <3>2. e \in Int /\ f \in Int
      OBVIOUS
    <3>3. e = f /\ r = s
      BY <2>3, <3>1, <3>2, DivisionUnique
    <3>4. QED
      BY <3>3 DEF r, s
  <2>11. m = n /\ k = l
    BY <2>2, <2>5, <2>6, <2>10, LenProperties
  <2>12. bs = cs
    BY <2>11 DEF bs, cs
  <2>13. bs[i][k] \in Txns /\ bs[i][k].id \in Nat
    <3>1. bs[i][k] \in Txns
      BY <2>2, ElementOfSeq
    <3>2. QED
      BY <3>1 DEF Txns
  <2>14. ~ (i < j) /\ ~ (j < i)
    <3>1. CASE i < j
      <4>1. bs[i][k].id < bs[j][l].id
        BY <2>1, <2>2, <2>12, <3>1 DEF Numbered, Increasing
      <4>2. QED
        BY <2>4, <2>12, <2>13, <4>1
    <3>2. CASE j < i
      <4>1. bs[j][l].id < bs[i][k].id
        BY <2>1, <2>2, <2>12, <3>2 DEF Numbered, Increasing
      <4>2. QED
        BY <2>4, <2>12, <2>13, <4>1
    <3>3. QED
      BY <3>1, <3>2
  <2>15. i = j
    BY <2>1, <2>2, <2>14, LenProperties
  <2>16. QED
    BY <2>11, <2>15
<1>2. QED
  BY <1>1, IdsHold, PTL

-----------------------------------------------------------------------------
(***************************************************************************)
(* The log.  A message carries the number of a batch that its sequencer    *)
(* has sent and its receiver's share of that batch, and no scheduler is    *)
(* past a number that has not been sent.                                   *)
(***************************************************************************)

Message == [number : Nat, txns : {Part(b, m) : b \in Seq(Txns), m \in Node}]

Carries(x, n, m, batches) ==
  \E k \in 0..(Len(batches) - 1) :
    x.number = (N * k) + n /\ x.txns = Part(batches[k + 1], m)

LogInv ==
  /\ SyncInv
  /\ send_number \in [Node -> Nat] /\ turn \in [Node -> Nat]
  /\ channel \in [Node -> [Node -> Seq(Message)]]
  /\ \A n \in Node : send_number[n] = (N * Len(sent[n])) + n
  /\ \A n, m \in Node : \A i \in 1..Len(channel[n][m]) : Carries(channel[n][m][i], n, m, sent[n])
  /\ \A m \in Node : \A c \in 0..(turn[m] - 1) : IsSent(c)

LEMMA NumberPlace ==
  ASSUME NEW n \in Node, NEW k \in Nat
  PROVE  LET b == (N * k) + n IN b \in Nat /\ b % N = n /\ b \div N = k
<1> DEFINE b == (N * k) + n
<1>1. N \in Nat \ {0} /\ n \in 0..(N - 1)
  BY SequencerAssumption DEF Node
<1>2. b \in Nat
  <2>1. N * k \in Nat
    BY <1>1, ProductNat
  <2>2. QED
    BY <1>1, <2>1
<1>3. (b \div N) \in Int /\ (b % N) \in 0..(N - 1) /\ b = (N * (b \div N)) + (b % N)
  <2> HIDE DEF b
  <2>1. QED
    BY <1>1, <1>2, Division
<1> DEFINE u == b \div N
           r == b % N
<1>4. (N * k) + n = (N * u) + r /\ u \in Int /\ r \in 0..(N - 1)
  BY <1>3
<1> HIDE DEF b, u, r
<1>5. k = u /\ n = r
  BY <1>1, <1>4, DivisionUnique
<1>6. QED
  BY <1>2, <1>5 DEF b, u, r

LEMMA NumberSplit ==
  ASSUME NEW b \in Nat
  PROVE  (b % N) \in Node /\ (b \div N) \in Nat
<1>1. N \in Nat \ {0}
  BY SequencerAssumption
<1>2. QED
  BY <1>1, SMT DEF Node

(* What has been sent is numbered without gaps: the log has all numbers up *)
(* to its length.                                                          *)
LogFacts ==
  /\ Log \in Seq(Seq(Txns)) /\ Ordered = 0..(Len(Log) - 1)
  /\ \A i \in 1..Len(Log) : Log[i] = BatchOf(i - 1)
  /\ \A b \in Nat : b < Len(Log) <=> \A c \in 0..b : IsSent(c)

LEMMA LogIs == SyncInv => LogFacts
<1> SUFFICES ASSUME SyncInv PROVE LogFacts
  OBVIOUS
<1>1. 0 \in Node /\ N \in Nat \ {0} /\ Len(sent[0]) \in Nat /\ sent \in [Node -> Seq(Seq(Txns))]
  BY SequencerAssumption, LenProperties DEF SyncInv, WriterTypes, Node
<1> DEFINE top == N * Len(sent[0])
<1>2. top \in Nat /\ ~ IsSent(top)
  <2>1. top + 0 \in Nat /\ (top + 0) % N = 0 /\ (top + 0) \div N = Len(sent[0])
    BY <1>1, NumberPlace
  <2>2. top \in Nat /\ top + 0 = top
    BY <1>1, ProductNat
  <2> HIDE DEF top
  <2>3. QED
    BY <1>1, <2>1, <2>2 DEF IsSent
<1>3. Ordered = {b \in 0..top : \A c \in 0..b : IsSent(c)}
  BY DEF Ordered
<1> HIDE DEF top
<1>4. \A b \in Nat : b \in Ordered <=> \A c \in 0..b : IsSent(c)
  BY <1>2, <1>3
<1>5. IsFiniteSet(Ordered) /\ Ordered \in SUBSET Nat
  <2>1. IsFiniteSet(0..top)
    BY <1>2, FS_Interval, 0 \in Int, top \in Int
  <2>2. QED
    BY <1>2, <1>3, <2>1, FS_Subset
<1>6. Ordered = 0..(Cardinality(Ordered) - 1) /\ Cardinality(Ordered) \in Nat
  <2>1. CASE Ordered = {}
    BY <2>1, FS_EmptySet
  <2>2. CASE Ordered # {}
    <3>1. PICK x \in Ordered : \A y \in Ordered : y <= x
      BY <1>5, <2>2, GreatestExists
    <3>2. x \in Nat /\ \A b \in 0..x : b \in Ordered
      <4>1. x \in Nat /\ \A c \in 0..x : IsSent(c)
        BY <1>4, <1>5, <3>1
      <4>2. ASSUME NEW b \in 0..x PROVE b \in Nat /\ \A c \in 0..b : IsSent(c)
        BY <4>1
      <4>3. QED
        BY <1>4, <4>1, <4>2
    <3>3. Ordered = 0..x
      <4>1. ASSUME NEW b \in Ordered PROVE b \in 0..x
        BY <1>5, <3>1, <3>2
      <4>2. QED
        BY <3>2, <4>1
    <3>4. Cardinality(0..x) = x + 1
      BY <3>2, FS_Interval, 0 \in Int, x \in Int
    <3>5. QED
      BY <3>2, <3>3, <3>4
  <2>3. QED
    BY <2>1, <2>2
<1>7. ASSUME NEW b \in Ordered PROVE BatchOf(b) \in Seq(Txns)
  <2>1. b \in Nat /\ IsSent(b)
    BY <1>4, <1>5
  <2>2. (b % N) \in Node /\ (b \div N) \in Nat
    BY <2>1, NumberSplit
  <2> DEFINE q == sent[b % N]
             k == b \div N
  <2>3. q \in Seq(Seq(Txns)) /\ k \in Nat /\ k < Len(q) /\ Len(q) \in Nat
    BY <1>1, <2>1, <2>2, LenProperties DEF IsSent
  <2>4. BatchOf(b) = q[k + 1]
    BY DEF BatchOf
  <2> HIDE DEF q, k
  <2>5. k + 1 \in 1..Len(q)
    BY <2>3
  <2>6. QED
    BY <2>3, <2>4, <2>5, ElementOfSeq
<1> DEFINE L == Cardinality(Ordered)
<1>8. Log = [i \in 1..L |-> BatchOf(i - 1)]
  BY DEF Log
<1>9. L \in Nat /\ \A i \in 1..L : i - 1 \in Ordered /\ i - 1 \in Nat
  BY <1>6
<1> HIDE DEF L
<1>10. Log \in [1..L -> Seq(Txns)]
  BY <1>7, <1>8, <1>9
<1>11. Log \in Seq(Seq(Txns)) /\ Len(Log) = L
  BY <1>9, <1>10
<1>12. \A i \in 1..Len(Log) : Log[i] = BatchOf(i - 1)
  BY <1>8, <1>11
<1>13. Ordered = 0..(Len(Log) - 1)
  BY <1>6, <1>11 DEF L
<1>14. \A b \in Nat : b < Len(Log) <=> \A c \in 0..b : IsSent(c)
  <2>1. \A b \in Nat : b < Len(Log) <=> b \in Ordered
    BY <1>9, <1>11, <1>13
  <2>2. QED
    BY <1>4, <2>1
<1>15. QED
  BY <1>11, <1>12, <1>13, <1>14 DEF LogFacts

LEMMA LogWillBe == SyncInv' => LogFacts'
BY LogIs, PTL

LEMMA LogInit == Init => LogInv
<1> SUFFICES ASSUME Init PROVE LogInv
  OBVIOUS
<1>1. SyncInv
  BY SyncInit
<1>2. N \in Nat /\ Node \subseteq Nat /\ N * 0 = 0
  BY NodesFinite
<1>3. \A n \in Node : sent[n] = <<>> /\ Len(sent[n]) = 0 /\ send_number[n] = n
  BY DEF Init
<1>4. /\ send_number \in [Node -> Nat] /\ turn \in [Node -> Nat]
      /\ channel \in [Node -> [Node -> Seq(Message)]]
  BY <1>2, EmptySeq DEF Init
<1>5. \A n, m \in Node : Len(channel[n][m]) = 0 /\ turn[m] = 0
  BY DEF Init
<1>6. \A n \in Node : send_number[n] = (N * Len(sent[n])) + n
  BY <1>2, <1>3
<1>7. QED
  BY <1>1, <1>4, <1>5, <1>6 DEF LogInv

LEMMA LogKept ==
  ASSUME LogInv, SyncInv', UNCHANGED <<sent, send_number, channel, turn>>
  PROVE  LogInv'
BY DEF LogInv, Carries, IsSent

(* Sending changes nothing that has been sent.                             *)
LEMMA SentKept ==
  ASSUME SyncInv, SyncInv', NEW n \in Node, NEW txns \in Seq(Txns),
         sent' = [sent EXCEPT ![n] = Append(@, txns)]
  PROVE  /\ Len(sent'[n]) = Len(sent[n]) + 1 /\ sent'[n][Len(sent[n]) + 1] = txns
         /\ \A m \in Node : Len(sent[m]) \in Nat /\ Len(sent[m]) <= Len(sent'[m])
         /\ \A m \in Node : \A i \in 1..Len(sent[m]) : sent'[m][i] = sent[m][i]
         /\ \A b \in Nat : IsSent(b) => IsSent(b)' /\ BatchOf(b)' = BatchOf(b)
<1>1. sent \in [Node -> Seq(Seq(Txns))]
  BY DEF SyncInv, WriterTypes
<1>2. /\ sent'[n] = Append(sent[n], txns) /\ sent[n] \in Seq(Seq(Txns))
      /\ \A m \in Node \ {n} : sent'[m] = sent[m]
      /\ \A m \in Node : Len(sent[m]) \in Nat
  BY <1>1, LenProperties
<1>3. /\ Len(sent'[n]) = Len(sent[n]) + 1 /\ sent'[n][Len(sent[n]) + 1] = txns
      /\ \A i \in 1..Len(sent[n]) : sent'[n][i] = sent[n][i]
  BY <1>2, AppendProperties
<1>4. /\ \A m \in Node : Len(sent[m]) <= Len(sent'[m])
      /\ \A m \in Node : \A i \in 1..Len(sent[m]) : sent'[m][i] = sent[m][i]
  BY <1>2, <1>3
<1>5. ASSUME NEW b \in Nat, IsSent(b)
      PROVE  IsSent(b)' /\ BatchOf(b)' = BatchOf(b)
  <2> SUFFICES ASSUME NEW m, m = b % N, NEW k, k = b \div N
               PROVE  IsSent(b)' /\ BatchOf(b)' = BatchOf(b)
    OBVIOUS
  <2>1. m \in Node /\ k \in Nat
    BY NumberSplit
  <2>2. k < Len(sent[m])
    BY <1>5 DEF IsSent
  <2>3. k < Len(sent'[m]) /\ k + 1 \in 1..Len(sent[m])
    BY <1>2, <1>4, <2>1, <2>2
  <2>4. sent'[m][k + 1] = sent[m][k + 1]
    BY <1>4, <2>1, <2>3
  <2>5. QED
    BY <2>3, <2>4 DEF IsSent, BatchOf
<1>6. QED
  BY <1>2, <1>3, <1>4, <1>5

LEMMA SendBatchKeepsLog ==
  ASSUME LogInv, SyncInv', NEW n \in Node, SendBatch(n)
  PROVE  LogInv'
<1> SUFFICES ASSUME NEW txns, txns = Head(batch_queue[n]) PROVE LogInv'
  OBVIOUS
<1>1. /\ SyncInv /\ N \in Nat \ {0} /\ Node \subseteq Nat
      /\ send_number \in [Node -> Nat] /\ channel \in [Node -> [Node -> Seq(Message)]]
      /\ UNCHANGED turn
  BY NodesFinite, SequencerAssumption DEF LogInv, SendBatch, schedVars
<1>2. txns \in Seq(Txns)
  BY HeadTailProperties DEF SendBatch, LogInv, SyncInv, WriterTypes
<1>3. CASE txns = <<>>
  <2>1. UNCHANGED <<sent, channel>> /\ send_number' = send_number
    BY <1>1, <1>3 DEF SendBatch, NextNumber
  <2>2. QED
    BY <1>1, <2>1, LogKept
<1>4. CASE txns # <<>>
  <2> DEFINE x(m) == [number |-> send_number[n], txns |-> Part(txns, m)]
  <2>1. /\ channel' = [channel EXCEPT ![n] = [m \in Node |-> Append(channel[n][m], x(m))]]
        /\ sent' = [sent EXCEPT ![n] = Append(@, txns)]
        /\ send_number' = [send_number EXCEPT ![n] = send_number[n] + N]
    BY <1>4 DEF SendBatch, NextNumber
  <2>2. \A m \in Node : x(m) \in Message
    BY <1>1, <1>2 DEF Message
  <2>3. \A m \in Node : x(m).number = send_number[n] /\ x(m).txns = Part(txns, m)
    OBVIOUS
  <2> HIDE DEF x
  <2>4. /\ Len(sent'[n]) = Len(sent[n]) + 1 /\ sent'[n][Len(sent[n]) + 1] = txns
        /\ \A m \in Node : Len(sent[m]) \in Nat /\ Len(sent[m]) <= Len(sent'[m])
        /\ \A m \in Node : \A i \in 1..Len(sent[m]) : sent'[m][i] = sent[m][i]
        /\ \A b \in Nat : IsSent(b) => IsSent(b)'
    BY <1>1, <1>2, <2>1, SentKept
  <2>5. ASSUME NEW m \in Node
        PROVE  /\ channel'[n][m] \in Seq(Message) /\ Len(channel'[n][m]) = Len(channel[n][m]) + 1
               /\ Len(channel[n][m]) \in Nat
               /\ \A i \in 1..Len(channel[n][m]) : channel'[n][m][i] = channel[n][m][i]
               /\ channel'[n][m][Len(channel[n][m]) + 1] = x(m)
    <3>1. channel[n][m] \in Seq(Message) /\ channel'[n][m] = Append(channel[n][m], x(m))
      BY <1>1, <2>1
    <3>2. QED
      BY <2>2, <3>1, AppendProperties, LenProperties
  <2>6. \A l \in Node \ {n} : channel'[l] = channel[l] /\ sent'[l] = sent[l]
    BY <1>1, <2>1 DEF LogInv, SyncInv, WriterTypes
  <2>7. channel' \in [Node -> [Node -> Seq(Message)]]
    <3>1. [m \in Node |-> Append(channel[n][m], x(m))] \in [Node -> Seq(Message)]
      BY <1>1, <2>1, <2>5
    <3>2. QED
      BY <1>1, <2>1, <3>1
  <2>8. send_number' \in [Node -> Nat]
    BY <1>1, <2>1
  <2>9. ASSUME NEW l \in Node PROVE send_number'[l] = (N * Len(sent'[l])) + l
    <3>1. send_number[l] = (N * Len(sent[l])) + l /\ Len(sent[l]) \in Nat /\ N * Len(sent[l]) \in Nat
      BY <1>1, <2>4, ProductNat DEF LogInv
    <3>2. CASE l = n
      <4> DEFINE k == Len(sent[n])
      <4>1. N * (k + 1) = (N * k) + N
        BY <1>1, <2>4
      <4>2. send_number'[n] = ((N * k) + n) + N /\ Len(sent'[n]) = k + 1
        BY <1>1, <2>1, <2>4, <3>1, <3>2
      <4>3. N * k \in Nat /\ n \in Nat
        BY <1>1, <3>1, <3>2
      <4> HIDE DEF k
      <4>4. QED
        BY <1>1, <3>2, <4>1, <4>2, <4>3
    <3>3. CASE l # n
      BY <1>1, <2>1, <2>6, <3>1, <3>3
    <3>4. QED
      BY <3>2, <3>3
  <2>10. ASSUME NEW l \in Node, NEW m \in Node, NEW y, Carries(y, l, m, sent[l])
         PROVE  Carries(y, l, m, sent'[l])
    <3>1. PICK k \in 0..(Len(sent[l]) - 1) : y.number = (N * k) + l /\ y.txns = Part(sent[l][k + 1], m)
      BY <2>10 DEF Carries
    <3>2. k \in 0..(Len(sent'[l]) - 1) /\ sent'[l][k + 1] = sent[l][k + 1]
      <4>1. /\ Len(sent[l]) \in Nat /\ Len(sent[l]) <= Len(sent'[l]) /\ Len(sent'[l]) \in Nat
            /\ k + 1 \in 1..Len(sent[l])
        BY <2>4, <2>6, <3>1
      <4>2. QED
        BY <2>4, <4>1
    <3>3. y.txns = Part(sent'[l][k + 1], m)
      BY <3>1, <3>2
    <3>4. QED
      BY <3>1, <3>2, <3>3 DEF Carries
  <2>11. ASSUME NEW m \in Node PROVE Carries(x(m), n, m, sent'[n])
    <3> SUFFICES ASSUME NEW k, k = Len(sent[n]) PROVE Carries(x(m), n, m, sent'[n])
      OBVIOUS
    <3>1. k \in 0..(Len(sent'[n]) - 1) /\ sent'[n][k + 1] = txns
      BY <2>4
    <3>2. x(m).number = (N * k) + n
      BY <2>3 DEF LogInv
    <3>3. x(m).txns = Part(sent'[n][k + 1], m)
      BY <2>3, <3>1
    <3>4. QED
      BY <3>1, <3>2, <3>3 DEF Carries
  <2>12. ASSUME NEW l \in Node, NEW m \in Node, NEW i \in 1..Len(channel'[l][m])
         PROVE  Carries(channel'[l][m][i], l, m, sent'[l])
    <3>1. CASE l # n
      <4>1. channel'[l][m] = channel[l][m]
        BY <2>6, <3>1
      <4>2. Carries(channel[l][m][i], l, m, sent[l])
        BY <4>1 DEF LogInv
      <4>3. QED
        BY <2>10, <4>1, <4>2
    <3>2. CASE l = n /\ i \in 1..Len(channel[n][m])
      <4>1. Carries(channel[n][m][i], n, m, sent[n]) /\ channel'[n][m][i] = channel[n][m][i]
        BY <2>5, <3>2 DEF LogInv
      <4>2. QED
        BY <2>10, <3>2, <4>1
    <3>3. CASE l = n /\ i = Len(channel[n][m]) + 1
      BY <2>5, <2>11, <3>3
    <3>4. QED
      BY <2>5, <3>1, <3>2, <3>3
  <2>13. \A m \in Node : \A c \in 0..(turn'[m] - 1) : IsSent(c)'
    BY <1>1, <2>4 DEF LogInv
  <2>14. turn' \in [Node -> Nat]
    BY <1>1 DEF LogInv
  <2>15. QED
    BY <2>7, <2>8, <2>9, <2>12, <2>13, <2>14 DEF LogInv
<1>5. QED
  BY <1>3, <1>4

(* The scheduler whose turn a number is finds its share of that batch.     *)
LEMMA TakesShare ==
  ASSUME LogInv, NEW m \in Node, TakeBatch(m)
  PROVE  /\ turn[m] \in Nat /\ turn[m] < Len(Log) /\ turn' = [turn EXCEPT ![m] = @ + 1]
         /\ schedule' = [schedule EXCEPT ![m] = @ \o Part(Log[turn[m] + 1], m)]
         /\ IsSent(turn[m])
<1>0. PICK n \in Node : \E i \in DOMAIN channel[n][m] :
        /\ channel[n][m][i].number = turn[m]
        /\ schedule' = [schedule EXCEPT ![m] = @ \o channel[n][m][i].txns]
  BY DEF TakeBatch
<1>1. PICK i \in DOMAIN channel[n][m] :
        /\ channel[n][m][i].number = turn[m]
        /\ schedule' = [schedule EXCEPT ![m] = @ \o channel[n][m][i].txns]
  BY <1>0
<1>2. /\ SyncInv /\ turn[m] \in Nat /\ turn' = [turn EXCEPT ![m] = @ + 1]
      /\ channel[n][m] \in Seq(Message)
  BY DEF LogInv, TakeBatch
<1>3. DOMAIN channel[n][m] = 1..Len(channel[n][m])
  BY <1>2, LenProperties
<1>4. PICK k \in 0..(Len(sent[n]) - 1) :
        turn[m] = (N * k) + n /\ channel[n][m][i].txns = Part(sent[n][k + 1], m)
  <2>1. Carries(channel[n][m][i], n, m, sent[n])
    BY <1>3 DEF LogInv
  <2>2. PICK k \in 0..(Len(sent[n]) - 1) :
          /\ channel[n][m][i].number = (N * k) + n
          /\ channel[n][m][i].txns = Part(sent[n][k + 1], m)
    BY <2>1 DEF Carries
  <2>3. turn[m] = (N * k) + n
    BY <1>1, <2>2
  <2>4. QED
    BY <2>2, <2>3
<1>5. k \in Nat /\ k < Len(sent[n])
  <2>1. Len(sent[n]) \in Nat
    BY LenProperties DEF LogInv, SyncInv, WriterTypes
  <2>2. QED
    BY <1>4, <2>1
<1>6. turn[m] % N = n /\ turn[m] \div N = k
  BY <1>4, <1>5, NumberPlace
<1>7. IsSent(turn[m]) /\ BatchOf(turn[m]) = sent[n][k + 1]
  BY <1>5, <1>6 DEF IsSent, BatchOf
<1>8. \A c \in 0..turn[m] : IsSent(c)
  <2>1. \A c \in 0..(turn[m] - 1) : IsSent(c)
    BY DEF LogInv
  <2>2. QED
    BY <1>2, <1>7, <2>1
<1>9. turn[m] < Len(Log)
  BY <1>2, <1>8, LogIs DEF LogFacts
<1>10. Log[turn[m] + 1] = BatchOf(turn[m])
  <2>1. /\ Log \in Seq(Seq(Txns)) /\ \A j \in 1..Len(Log) : Log[j] = BatchOf(j - 1)
    BY <1>2, LogIs DEF LogFacts
  <2>2. Len(Log) \in Nat
    BY <2>1, LenProperties
  <2>3. turn[m] + 1 \in 1..Len(Log) /\ (turn[m] + 1) - 1 = turn[m]
    BY <1>2, <1>9, <2>2
  <2>4. QED
    BY <2>1, <2>3
<1>11. QED
  BY <1>1, <1>2, <1>4, <1>7, <1>9, <1>10

LEMMA TakeBatchKeepsLog ==
  ASSUME LogInv, SyncInv', NEW m \in Node, TakeBatch(m)
  PROVE  LogInv'
<1>0. PICK n \in Node : \E i \in DOMAIN channel[n][m] :
        channel' = [channel EXCEPT ![n][m] = RemoveAt(@, i)]
  BY DEF TakeBatch
<1>1. PICK i \in DOMAIN channel[n][m] :
        channel' = [channel EXCEPT ![n][m] = RemoveAt(@, i)]
  BY <1>0
<1>2. /\ channel \in [Node -> [Node -> Seq(Message)]] /\ turn \in [Node -> Nat]
      /\ turn' = [turn EXCEPT ![m] = @ + 1] /\ UNCHANGED <<sent, send_number>>
      /\ IsSent(turn[m])
  BY TakesShare DEF LogInv, TakeBatch
<1> DEFINE q == channel[n][m]
<1>3. q \in Seq(Message) /\ Len(q) \in Nat /\ i \in 1..Len(q)
  BY <1>2, LenProperties
<1>4. /\ RemoveAt(q, i) \in Seq(Message) /\ Len(RemoveAt(q, i)) = Len(q) - 1
      /\ \A j \in 1..(Len(q) - 1) : RemoveAt(q, i)[j] = IF j < i THEN q[j] ELSE q[j + 1]
  <2> HIDE DEF q
  <2>1. QED
    BY <1>3, RemoveAtProperties
<1>5. /\ channel' \in [Node -> [Node -> Seq(Message)]] /\ channel'[n][m] = RemoveAt(q, i)
      /\ \A l, o \in Node : l # n \/ o # m => channel'[l][o] = channel[l][o]
  BY <1>1, <1>2, <1>4
<1> HIDE DEF q
<1>6. ASSUME NEW l \in Node, NEW o \in Node, NEW j \in 1..Len(channel'[l][o])
      PROVE  Carries(channel'[l][o][j], l, o, sent[l])
  <2>1. CASE l # n \/ o # m
    BY <1>5, <2>1 DEF LogInv
  <2>2. CASE l = n /\ o = m
    <3>1. \A h \in 1..Len(q) : Carries(q[h], l, o, sent[l])
      BY <2>2 DEF LogInv, q
    <3>2. j \in 1..(Len(q) - 1) /\ channel'[l][o][j] = IF j < i THEN q[j] ELSE q[j + 1]
      BY <1>4, <1>5, <2>2
    <3>3. j \in 1..Len(q) /\ j + 1 \in 1..Len(q)
      BY <1>3, <3>2
    <3>4. QED
      BY <3>1, <3>2, <3>3
  <2>3. QED
    BY <2>1, <2>2
<1>7. ASSUME NEW o \in Node, NEW c \in 0..(turn'[o] - 1) PROVE IsSent(c)
  <2>1. turn[o] \in Nat /\ \A b \in 0..(turn[o] - 1) : IsSent(b)
    BY <1>2 DEF LogInv
  <2>2. CASE o # m
    BY <1>2, <2>1, <2>2
  <2>3. CASE o = m
    <3>1. turn'[o] = turn[o] + 1
      BY <1>2, <2>3
    <3>2. c \in 0..(turn[o] - 1) \/ c = turn[o]
      BY <2>1, <3>1
    <3>3. QED
      BY <1>2, <2>1, <2>3, <3>2
  <2>4. QED
    BY <2>2, <2>3
<1>8. turn' \in [Node -> Nat]
  BY <1>2
<1>9. QED
  BY <1>2, <1>5, <1>6, <1>7, <1>8 DEF LogInv, IsSent

LEMMA LogNext == LogInv /\ [Next]_vars => LogInv'
<1> SUFFICES ASSUME LogInv, [Next]_vars PROVE LogInv'
  OBVIOUS
<1>1. SyncInv'
  BY SyncNext DEF LogInv
<1>2. ASSUME NEW n \in Node, Writer(n) PROVE LogInv'
  <2>1. UNCHANGED <<sent, send_number, channel, turn>>
    BY <1>2 DEF Writer, SendSync, ReceiveSync, StartSequencer, BeginEpoch, NewTxn, EndEpoch,
                StopWriter, readerVars, schedVars
  <2>2. QED
    BY <1>1, <2>1, LogKept
<1>3. ASSUME NEW n \in Node, SendBatch(n) PROVE LogInv'
  BY <1>1, <1>3, SendBatchKeepsLog
<1>4. ASSUME NEW n \in Node, TakeBatch(n) PROVE LogInv'
  BY <1>1, <1>4, TakeBatchKeepsLog
<1>5. ASSUME NEW n \in Node, PollQueue(n) \/ StopReader(n) \/ Finish(n) \/ Destroy(n) PROVE LogInv'
  <2>1. UNCHANGED <<sent, send_number, channel, turn>>
    BY <1>5 DEF PollQueue, StopReader, Finish, Destroy, readerVars, schedVars
  <2>2. QED
    BY <1>1, <2>1, LogKept
<1>6. CASE UNCHANGED vars
  BY <1>1, <1>6, LogKept DEF vars, readerVars, schedVars
<1>7. QED
  BY <1>2, <1>3, <1>4, <1>5, <1>6 DEF Next, Reader

LEMMA LogHolds == Spec => []LogInv
BY LogInit, LogNext, PTL DEF Spec

-----------------------------------------------------------------------------
LEMMA SameLog ==
  ASSUME UNCHANGED sent
  PROVE  Log' = Log
BY DEF Log, Ordered, BatchOf, IsSent

LEMMA TotalStarts == Init => Total!Init
<1> SUFFICES ASSUME Init PROVE Total!Init
  OBVIOUS
<1>1. SyncInv /\ 0 \in Node
  BY SyncInit, NodesFinite DEF Node
<1>2. Log \in Seq(Seq(Txns)) /\ (0 < Len(Log) <=> \A c \in 0..0 : IsSent(c))
  BY <1>1, LogIs, 0 \in Nat DEF LogFacts
<1>3. ~ IsSent(0)
  <2>1. (0 % N) \in Node /\ (0 \div N) \in Nat
    BY NumberSplit
  <2>2. Len(sent[0 % N]) = 0
    BY <2>1 DEF Init
  <2>3. QED
    BY <2>1, <2>2 DEF IsSent
<1>4. Log = <<>>
  BY <1>2, <1>3, LenProperties, EmptySeq
<1>5. QED
  BY <1>4 DEF Init, Total!Init

LEMMA TotalSteps ==
  ASSUME LogInv, LogInv', [Next]_vars
  PROVE  [Total!Next]_(Total!vars)
<1>1. ASSUME NEW n \in Node, SendBatch(n)
      PROVE  UNCHANGED Total!vars \/ Total!Order
  <2>1. UNCHANGED <<turn, schedule>>
    BY <1>1 DEF SendBatch, schedVars
  <2>2. CASE sent' = sent
    BY <2>1, <2>2, SameLog DEF Total!vars
  <2>3. CASE sent' = [sent EXCEPT ![n] = Append(@, Head(batch_queue[n]))]
    <3>1. SyncInv /\ SyncInv' /\ Head(batch_queue[n]) \in Seq(Txns)
      BY <1>1, HeadTailProperties DEF SendBatch, LogInv, SyncInv, WriterTypes
    <3>2. \A b \in Nat : IsSent(b) => IsSent(b)' /\ BatchOf(b)' = BatchOf(b)
      BY <2>3, <3>1, SentKept
    <3>3. /\ Log \in Seq(Seq(Txns)) /\ Ordered = 0..(Len(Log) - 1)
          /\ \A i \in 1..Len(Log) : Log[i] = BatchOf(i - 1)
          /\ \A b \in Nat : b < Len(Log) <=> \A c \in 0..b : IsSent(c)
      BY <3>1, LogIs DEF LogFacts
    <3>4. /\ Log' \in Seq(Seq(Txns)) /\ Ordered' = 0..(Len(Log') - 1)
          /\ \A i \in 1..Len(Log') : Log'[i] = BatchOf(i - 1)'
          /\ \A b \in Nat : b < Len(Log') <=> \A c \in 0..b : IsSent(c)'
      BY <3>1, LogWillBe DEF LogFacts
    <3>5. Len(Log) \in Nat /\ Len(Log') \in Nat
      BY <3>3, <3>4, LenProperties
    <3>6. ASSUME NEW b \in Nat, b < Len(Log)
          PROVE  b < Len(Log') /\ Log'[b + 1] = Log[b + 1]
      <4>1. \A c \in 0..b : IsSent(c) /\ IsSent(c)' /\ BatchOf(c)' = BatchOf(c)
        BY <3>2, <3>3, <3>6
      <4>2. b < Len(Log')
        BY <3>4, <4>1
      <4>3. b + 1 \in 1..Len(Log) /\ b + 1 \in 1..Len(Log') /\ (b + 1) - 1 = b
        BY <3>5, <3>6, <4>2
      <4>4. Log[b + 1] = BatchOf(b) /\ Log'[b + 1] = BatchOf(b)'
        BY <3>3, <3>4, <4>3
      <4>5. QED
        BY <4>1, <4>2, <4>4
    <3>7. Len(Log) <= Len(Log')
      <4>1. CASE Len(Log) = 0
        BY <3>5, <4>1
      <4>2. CASE Len(Log) # 0
        <5>1. Len(Log) - 1 \in Nat /\ Len(Log) - 1 < Len(Log)
          BY <3>5, <4>2
        <5>2. Len(Log) - 1 < Len(Log')
          BY <3>6, <5>1
        <5>3. QED
          BY <3>5, <5>2
      <4>3. QED
        BY <4>1, <4>2
    <3>8. \A i \in 1..Len(Log) : Log[i] = Log'[i]
      <4>1. ASSUME NEW i \in 1..Len(Log) PROVE Log[i] = Log'[i]
        <5>1. i - 1 \in Nat /\ i - 1 < Len(Log) /\ (i - 1) + 1 = i
          BY <3>5
        <5>2. QED
          BY <3>6, <5>1
      <4>2. QED
        BY <4>1
    <3>9. IsPrefix(Log, Log')
      BY <3>3, <3>4, <3>7, <3>8, LongerHasPrefix
    <3>10. QED
      BY <2>1, <3>9 DEF Total!Order, Total!vars, Total!IsPrefix, IsPrefix
  <2>4. QED
    BY <1>1, <2>2, <2>3 DEF SendBatch
<1>2. ASSUME NEW m \in Node, TakeBatch(m)
      PROVE  Total!Take(m)
  <2>1. Log' = Log
    BY <1>2, SameLog DEF TakeBatch
  <2>2. QED
    BY <1>2, <2>1, TakesShare DEF Total!Take
<1>3. ASSUME NEW n \in Node, Writer(n) \/ PollQueue(n) \/ StopReader(n) \/ Finish(n) \/ Destroy(n)
      PROVE  UNCHANGED Total!vars
  <2>1. UNCHANGED <<sent, turn, schedule>>
    BY <1>3 DEF Writer, SendSync, ReceiveSync, StartSequencer, BeginEpoch, NewTxn, EndEpoch,
                StopWriter, PollQueue, StopReader, Finish, Destroy, readerVars, schedVars
  <2>2. QED
    BY <2>1, SameLog DEF Total!vars
<1>4. CASE UNCHANGED vars
  BY <1>4, SameLog DEF vars, readerVars, schedVars, Total!vars
<1>5. QED
  BY <1>1, <1>2, <1>3, <1>4 DEF Next, Reader, Total!Next

(* README, lines 11-15: although every sequencer numbers its batches on    *)
(* its own, there is one log, which only grows, and every scheduler takes  *)
(* its share of it batch by batch, skipping none and taking none twice or  *)
(* before its turn (sequencer.cc:220-234, scheduler.cc:208-228, 309-318).  *)
THEOREM SequencersImplementTotalOrder == Spec => TotalOrderSpec
<1>1. LogInv /\ LogInv' /\ [Next]_vars => [Total!Next]_(Total!vars)
  BY TotalSteps
<1>2. QED
  BY <1>1, TotalStarts, LogHolds, PTL DEF Spec, TotalOrderSpec, Total!Spec

-----------------------------------------------------------------------------
(***************************************************************************)
(* Nobody waits in vain.  A message that has been sent stays in its        *)
(* channel until its number has had its turn, and every sequencer that is  *)
(* up has been heard of or will be.                                        *)
(***************************************************************************)

Carried(b, n, m) == \E i \in 1..Len(channel[n][m]) : channel[n][m][i].number = b

Undelivered ==
  \A n, m \in Node : \A k \in 0..(Len(sent[n]) - 1) :
    (N * k) + n >= turn[m] => Carried((N * k) + n, n, m)

MessageInv == LogInv /\ Undelivered

(* The batch that a scheduler waits for is there for it as soon as it has  *)
(* been sent.                                                              *)
TurnComes ==
  \A m \in Node : IsSent(turn[m]) =>
    \E n \in Node : \E i \in DOMAIN channel[n][m] : channel[n][m][i].number = turn[m]

(* A sequencer that waits to be synchronised is ready, or has a message to *)
(* count, or some other has not yet come up.                               *)
SyncComes ==
  \A n \in Node : writer[n] = "sync" =>
    \/ Synchronized(n) \/ (synchronization_counter[n] < N /\ HasSync(n))
    \/ \E m \in Node : writer[m] = "start"

LEMMA UndeliveredInit == Init => Undelivered
<1> SUFFICES ASSUME Init PROVE Undelivered
  OBVIOUS
<1>1. \A n \in Node : Len(sent[n]) = 0
  BY DEF Init
<1>2. QED
  BY <1>1 DEF Undelivered

LEMMA SendBatchKeepsUndelivered ==
  ASSUME MessageInv, SyncInv', NEW n \in Node, SendBatch(n)
  PROVE  Undelivered'
<1> SUFFICES ASSUME NEW txns, txns = Head(batch_queue[n]) PROVE Undelivered'
  OBVIOUS
<1>1. /\ LogInv /\ SyncInv /\ Undelivered /\ UNCHANGED turn
      /\ channel \in [Node -> [Node -> Seq(Message)]]
  BY DEF MessageInv, LogInv, SendBatch, schedVars
<1>2. txns \in Seq(Txns)
  BY HeadTailProperties DEF SendBatch, MessageInv, LogInv, SyncInv, WriterTypes
<1>3. CASE txns = <<>>
  <2>1. UNCHANGED <<sent, channel>>
    BY <1>3 DEF SendBatch
  <2>2. QED
    BY <1>1, <2>1 DEF Undelivered, Carried
<1>4. CASE txns # <<>>
  <2> DEFINE x(m) == [number |-> send_number[n], txns |-> Part(txns, m)]
  <2>1. /\ channel' = [channel EXCEPT ![n] = [m \in Node |-> Append(channel[n][m], x(m))]]
        /\ sent' = [sent EXCEPT ![n] = Append(@, txns)]
    BY <1>4 DEF SendBatch
  <2>2. \A m \in Node : x(m).number = send_number[n]
    OBVIOUS
  <2>3. \A m \in Node : x(m) \in Message
    BY <1>1, <1>2 DEF Message, LogInv
  <2> HIDE DEF x
  <2>4. Len(sent[n]) \in Nat /\ Len(sent'[n]) = Len(sent[n]) + 1
    BY <1>1, <1>2, <2>1, SentKept
  <2>5. ASSUME NEW m \in Node
        PROVE  /\ Len(channel[n][m]) \in Nat /\ Len(channel'[n][m]) = Len(channel[n][m]) + 1
               /\ \A i \in 1..Len(channel[n][m]) : channel'[n][m][i] = channel[n][m][i]
               /\ channel'[n][m][Len(channel[n][m]) + 1].number = send_number[n]
    <3>1. channel[n][m] \in Seq(Message) /\ channel'[n][m] = Append(channel[n][m], x(m))
      BY <1>1, <2>1
    <3>2. QED
      BY <2>2, <2>3, <3>1, AppendProperties, LenProperties
  <2>6. \A l \in Node \ {n} : channel'[l] = channel[l] /\ sent'[l] = sent[l]
    BY <1>1, <2>1 DEF LogInv, SyncInv, WriterTypes
  <2>7. send_number[n] = (N * Len(sent[n])) + n
    BY <1>1 DEF LogInv
  <2>8. ASSUME NEW m \in Node, NEW b, Carried(b, n, m) PROVE Carried(b, n, m)'
    <3>1. PICK i \in 1..Len(channel[n][m]) : channel[n][m][i].number = b
      BY <2>8 DEF Carried
    <3>2. i \in 1..Len(channel'[n][m]) /\ channel'[n][m][i].number = b
      BY <2>5, <3>1
    <3>3. QED
      BY <3>2 DEF Carried
  <2>9. ASSUME NEW m \in Node, NEW b, b = send_number[n] PROVE Carried(b, n, m)'
    <3>1. Len(channel[n][m]) + 1 \in 1..Len(channel'[n][m])
      BY <2>5
    <3>2. QED
      BY <2>5, <2>9, <3>1 DEF Carried
  <2>10. ASSUME NEW l \in Node, NEW m \in Node, NEW k \in 0..(Len(sent'[l]) - 1),
                (N * k) + l >= turn'[m]
         PROVE  Carried((N * k) + l, l, m)'
    <3>1. (N * k) + l >= turn[m]
      BY <1>1, <2>10
    <3>2. CASE l # n
      <4>1. Carried((N * k) + l, l, m)
        BY <1>1, <2>6, <3>1, <3>2 DEF Undelivered
      <4>2. QED
        BY <2>6, <3>2, <4>1 DEF Carried
    <3>3. CASE l = n /\ k = Len(sent[n])
      <4>1. (N * k) + l = send_number[n]
        BY <2>7, <3>3
      <4>2. QED
        BY <2>9, <3>3, <4>1
    <3>4. CASE l = n /\ k \in 0..(Len(sent[n]) - 1)
      <4>1. Carried((N * k) + l, l, m)
        BY <1>1, <3>1, <3>4 DEF Undelivered
      <4>2. QED
        BY <2>8, <3>4, <4>1
    <3>5. QED
      BY <2>4, <3>2, <3>3, <3>4
  <2>11. QED
    BY <2>10 DEF Undelivered
<1>5. QED
  BY <1>3, <1>4

(* What is taken out of a channel is the number whose turn is over.        *)
LEMMA TakeBatchKeepsUndelivered ==
  ASSUME MessageInv, NEW m \in Node, TakeBatch(m)
  PROVE  Undelivered'
<1>0. PICK n \in Node : \E i \in DOMAIN channel[n][m] :
        /\ channel[n][m][i].number = turn[m]
        /\ channel' = [channel EXCEPT ![n][m] = RemoveAt(@, i)]
  BY DEF TakeBatch
<1>1. PICK i \in DOMAIN channel[n][m] :
        /\ channel[n][m][i].number = turn[m]
        /\ channel' = [channel EXCEPT ![n][m] = RemoveAt(@, i)]
  BY <1>0
<1>2. /\ channel \in [Node -> [Node -> Seq(Message)]] /\ turn \in [Node -> Nat]
      /\ turn' = [turn EXCEPT ![m] = @ + 1] /\ UNCHANGED sent
      /\ N \in Nat /\ Node \subseteq Nat /\ \A l \in Node : Len(sent[l]) \in Nat
  BY NodesFinite, LenProperties DEF MessageInv, LogInv, SyncInv, WriterTypes, TakeBatch
<1> DEFINE q == channel[n][m]
<1>3. q \in Seq(Message) /\ Len(q) \in Nat /\ i \in 1..Len(q) /\ q[i].number = turn[m]
  <2>1. q \in Seq(Message) /\ i \in DOMAIN q /\ q[i].number = turn[m]
    BY <1>1, <1>2
  <2> HIDE DEF q
  <2>2. QED
    BY <2>1, LenProperties
<1>4. /\ Len(RemoveAt(q, i)) = Len(q) - 1
      /\ \A j \in 1..(Len(q) - 1) : RemoveAt(q, i)[j] = IF j < i THEN q[j] ELSE q[j + 1]
  <2> HIDE DEF q
  <2>1. QED
    BY <1>3, RemoveAtProperties
<1>5. /\ channel'[n][m] = RemoveAt(q, i)
      /\ \A l, o \in Node : l # n \/ o # m => channel'[l][o] = channel[l][o]
  BY <1>1, <1>2, <1>4
<1>6. ASSUME NEW b, Carried(b, n, m), b # turn[m] PROVE Carried(b, n, m)'
  <2>1. PICK j \in 1..Len(q) : q[j].number = b
    BY <1>6 DEF Carried
  <2> HIDE DEF q
  <2>2. j # i
    BY <1>3, <1>6, <2>1
  <2> DEFINE h == IF j < i THEN j ELSE j - 1
  <2>3. h \in 1..(Len(q) - 1) /\ (IF h < i THEN h ELSE h + 1) = j
    BY <1>3, <2>1, <2>2
  <2> HIDE DEF h
  <2>4. h \in 1..Len(channel'[n][m]) /\ channel'[n][m][h] = q[j]
    BY <1>4, <1>5, <2>3
  <2>5. QED
    BY <2>1, <2>4 DEF Carried
<1> HIDE DEF q
<1>7. ASSUME NEW l \in Node, NEW o \in Node, NEW k \in 0..(Len(sent[l]) - 1),
             (N * k) + l >= turn'[o]
      PROVE  Carried((N * k) + l, l, o)'
  <2> SUFFICES ASSUME NEW b \in Nat, b = (N * k) + l PROVE Carried(b, l, o)'
    <3>1. k \in Nat /\ l \in Nat
      BY <1>2
    <3>2. N * k \in Nat
      BY <1>2, <3>1, ProductNat
    <3>3. (N * k) + l \in Nat
      BY <3>1, <3>2
    <3>4. QED
      BY <3>3
  <2>1. turn[o] \in Nat /\ turn'[o] = (IF o = m THEN turn[o] + 1 ELSE turn[o])
    BY <1>2
  <2>2. b >= turn[o] /\ (o = m => b # turn[m])
    BY <1>7, <2>1
  <2>3. Carried(b, l, o)
    BY <2>2 DEF MessageInv, Undelivered
  <2>4. CASE l = n /\ o = m
    BY <1>6, <2>2, <2>3, <2>4
  <2>5. CASE l # n \/ o # m
    BY <1>5, <2>3, <2>5 DEF Carried
  <2>6. QED
    BY <2>4, <2>5
<1>8. QED
  BY <1>2, <1>7 DEF Undelivered

LEMMA UndeliveredKept ==
  ASSUME Undelivered, UNCHANGED <<sent, channel, turn>>
  PROVE  Undelivered'
BY DEF Undelivered, Carried

LEMMA UndeliveredNext == MessageInv /\ SyncInv' /\ [Next]_vars => Undelivered'
<1> SUFFICES ASSUME MessageInv, SyncInv', [Next]_vars PROVE Undelivered'
  OBVIOUS
<1>1. Undelivered
  BY DEF MessageInv
<1>2. ASSUME NEW n \in Node, Writer(n) PROVE Undelivered'
  <2>1. UNCHANGED <<sent, channel, turn>>
    BY <1>2 DEF Writer, SendSync, ReceiveSync, StartSequencer, BeginEpoch, NewTxn, EndEpoch,
                StopWriter, readerVars, schedVars
  <2>2. QED
    BY <1>1, <2>1, UndeliveredKept
<1>3. ASSUME NEW n \in Node, SendBatch(n) PROVE Undelivered'
  BY <1>3, SendBatchKeepsUndelivered
<1>4. ASSUME NEW n \in Node, TakeBatch(n) PROVE Undelivered'
  BY <1>4, TakeBatchKeepsUndelivered
<1>5. ASSUME NEW n \in Node, PollQueue(n) \/ StopReader(n) \/ Finish(n) \/ Destroy(n)
      PROVE  Undelivered'
  <2>1. UNCHANGED <<sent, channel, turn>>
    BY <1>5 DEF PollQueue, StopReader, Finish, Destroy, readerVars, schedVars
  <2>2. QED
    BY <1>1, <2>1, UndeliveredKept
<1>6. CASE UNCHANGED vars
  BY <1>1, <1>6, UndeliveredKept DEF vars, readerVars, schedVars
<1>7. QED
  BY <1>2, <1>3, <1>4, <1>5, <1>6 DEF Next, Reader

LEMMA MessagesHold == Spec => []MessageInv
<1>1. MessageInv /\ SyncInv' /\ LogInv' /\ [Next]_vars => MessageInv'
  BY UndeliveredNext DEF MessageInv
<1>2. Init => MessageInv
  BY LogInit, UndeliveredInit DEF MessageInv
<1>3. QED
  BY <1>1, <1>2, LogHolds, SyncHolds, PTL DEF Spec

LEMMA NumbersCome == MessageInv => TurnComes
<1> SUFFICES ASSUME MessageInv, NEW m \in Node, IsSent(turn[m])
             PROVE  \E n \in Node : \E i \in DOMAIN channel[n][m] :
                      channel[n][m][i].number = turn[m]
  BY DEF TurnComes
<1>1. /\ turn[m] \in Nat /\ channel \in [Node -> [Node -> Seq(Message)]]
      /\ sent \in [Node -> Seq(Seq(Txns))] /\ N \in Nat \ {0}
  BY SequencerAssumption DEF MessageInv, LogInv, SyncInv, WriterTypes
<1> DEFINE n == turn[m] % N
           k == turn[m] \div N
<1>2. n \in Node /\ k \in Nat
  BY <1>1, NumberSplit
<1>3. k < Len(sent[n]) /\ Len(sent[n]) \in Nat
  BY <1>1, <1>2, LenProperties DEF IsSent
<1>4. (N * k) + n = turn[m]
  <2> SUFFICES ASSUME NEW b \in Nat, b = turn[m] PROVE (N * (b \div N)) + (b % N) = b
    BY <1>1
  <2>1. QED
    BY <1>1, Division
<1> HIDE DEF n, k
<1>5. Carried(turn[m], n, m)
  <2>1. k \in 0..(Len(sent[n]) - 1) /\ turn[m] >= turn[m]
    BY <1>1, <1>2, <1>3
  <2>2. QED
    BY <1>2, <1>4, <2>1 DEF MessageInv, Undelivered
<1>6. DOMAIN channel[n][m] = 1..Len(channel[n][m])
  BY <1>1, <1>2, LenProperties
<1>7. QED
  BY <1>2, <1>5, <1>6 DEF Carried

LEMMA SyncsCome == SyncInv => SyncComes
<1> SUFFICES ASSUME SyncInv, NEW n \in Node, ~ Synchronized(n),
                    \A m \in Node : writer[m] # "start"
             PROVE  synchronization_counter[n] < N /\ HasSync(n)
  BY DEF SyncComes
<1>1. N \in Nat /\ sync_messages[n] \in Nat /\ synchronization_counter[n] \in 1..N
  BY NodesFinite DEF SyncInv, WriterTypes
<1>2. Up(n) = Node \ {n}
  BY DEF Up
<1>3. sync_messages[n] + synchronization_counter[n] = 1 + (N - 1)
  BY <1>2, OthersFinite DEF SyncInv, Heard
<1>4. QED
  BY <1>1, <1>3 DEF Synchronized, HasSync

(* The safety half of BatchesTaken and of the start: a scheduler whose     *)
(* turn has been sent has the message, however many there are and in       *)
(* whatever order they came (scheduler.cc:208-228), and no sequencer waits *)
(* for a message that has been lost or counted (sequencer.cc:64-87).       *)
THEOREM SequencersNeverStuck == Spec => [](TurnComes /\ SyncComes)
<1>1. MessageInv => TurnComes /\ SyncComes
  BY NumbersCome, SyncsCome DEF MessageInv, LogInv
<1>2. QED
  BY <1>1, MessagesHold, PTL

-----------------------------------------------------------------------------
(***************************************************************************)
(* Numbers and slots.                                                      *)
(***************************************************************************)

LEMMA SlotOfNumber ==
  ASSUME NEW i \in Nat
  PROVE  /\ TableOf(i) \in Slot
         /\ \A s \in Slot : s \in Nat /\ s % CONCURRENT_GETS = s
<1>1. CONCURRENT_GETS \in Nat \ {0}
  BY PaxosAssumption
<1>2. TableOf(i) \in Slot
  BY <1>1, Division DEF TableOf, Slot
<1>3. ASSUME NEW s \in Slot PROVE s \in Nat /\ s % CONCURRENT_GETS = s
  <2>1. s \in Nat /\ s \in 0..(CONCURRENT_GETS - 1)
    BY <1>1, <1>3 DEF Slot
  <2> DEFINE q == s \div CONCURRENT_GETS  r == s % CONCURRENT_GETS
  <2>2. q \in Int /\ r \in 0..(CONCURRENT_GETS - 1) /\ s = (CONCURRENT_GETS * q) + r
    BY <1>1, <2>1, Division
  <2> HIDE DEF q, r
  <2>3. (CONCURRENT_GETS * q) + r = (CONCURRENT_GETS * 0) + s
    BY <1>1, <2>1, <2>2, SMT
  <2>4. r = s
    BY <1>1, <2>1, <2>2, <2>3, DivisionUnique, 0 \in Int
  <2>5. QED
    BY <2>1, <2>4 DEF r
<1>4. QED
  BY <1>2, <1>3

-----------------------------------------------------------------------------
(***************************************************************************)
(* The invariant.  SlotsExact alone is not inductive: a slot must not have *)
(* been overtaken by the reader, and what was handed out must agree with   *)
(* the numbers for what is handed out next to do so.                       *)
(***************************************************************************)

Table == UNION {[D -> Batch] : D \in SUBSET Nat}

TablesOK == tables \in [BatchReader -> [Slot -> Table]]

NotOvertaken == \A p \in BatchReader, s \in Slot : next[p] <= asked[p][s]

(* Every reader has been handed the batches of the first numbers, as many  *)
(* as next_read_batch_index_ says, each in its place (paxos.h:37-41).      *)
ReadsPrefix ==
  \A p \in BatchReader :
    /\ Len(delivered[p]) = next[p] /\ next[p] <= Len(created)
    /\ \A i \in 1..next[p] : delivered[p][i] = created[i]

PaxosInv == PaxosTypeOK /\ TablesOK /\ SlotsExact /\ NotOvertaken /\ ReadsPrefix

(* What is in a slot's table, by what the numbers say.                     *)
Turn(p, s) == {i \in next[p]..(asked[p][s] - 1) : i % CONCURRENT_GETS = s}

LEMMA TableProperties ==
  ASSUME NEW D \in SUBSET Nat, NEW t, t = [i \in D |-> t[i]], \A i \in D : t[i] \in Batch
  PROVE  t \in Table
BY t \in [D -> Batch] DEF Table

LEMMA TableDomain ==
  ASSUME NEW t \in Table
  PROVE  DOMAIN t \subseteq Nat /\ (\A i \in DOMAIN t : t[i] \in Batch) /\ t = [i \in DOMAIN t |-> t[i]]
BY DEF Table

LEMMA InitPaxosInv == PaxosInit => PaxosInv
<1> SUFFICES ASSUME PaxosInit PROVE PaxosInv
  OBVIOUS
<1>1. \A s \in Slot : s \in Nat /\ s % CONCURRENT_GETS = s
  BY SlotOfNumber, 0 \in Nat
<1>2. <<>> \in Seq(Batch) /\ Len(<<>>) = 0
  BY EmptySeq
<1>3. MaxBatches \in Nat /\ MaxFaults \in Nat
  BY PaxosAssumption
<1>4. PaxosTypeOK
  BY <1>1, <1>2, <1>3 DEF PaxosInit, PaxosTypeOK
<1>5. <<>> \in Table
  <2>1. <<>> \in [{} -> Batch]
    OBVIOUS
  <2>2. QED
    BY <2>1 DEF Table
<1>6. TablesOK
  BY <1>5 DEF PaxosInit, TablesOK
<1>7. SlotsExact
  <2> SUFFICES ASSUME NEW p \in BatchReader, NEW s \in Slot
               PROVE  /\ asked[p][s] % CONCURRENT_GETS = s
                      /\ DOMAIN tables[p][s] = Turn(p, s)
                      /\ \A i \in DOMAIN tables[p][s] :
                           i < Len(created) /\ tables[p][s][i] = created[i + 1]
    BY DEF SlotsExact, Turn
  <2>1. asked[p][s] = s /\ tables[p][s] = <<>> /\ next[p] = 0
    BY DEF PaxosInit
  <2>2. DOMAIN tables[p][s] = {}
    BY <2>1
  <2>3. Turn(p, s) = {}
    <3>1. ASSUME NEW i \in 0..(s - 1) PROVE i % CONCURRENT_GETS # s
      <4>1. i \in Slot
        BY <1>1, PaxosAssumption DEF Slot
      <4>2. i % CONCURRENT_GETS = i
        BY <1>1, <4>1
      <4>3. QED
        BY <1>1, <3>1, <4>2
    <3>2. QED
      BY <2>1, <3>1 DEF Turn
  <2>4. QED
    BY <1>1, <2>1, <2>2, <2>3
<1>8. NotOvertaken
  BY <1>1 DEF PaxosInit, NotOvertaken
<1>9. ReadsPrefix
  BY <1>2 DEF PaxosInit, ReadsPrefix
<1>10. QED
  BY <1>4, <1>6, <1>7, <1>8, <1>9 DEF PaxosInv

(* Steps that touch neither the readers nor the log keep what is about     *)
(* them.                                                                   *)
LEMMA Elsewhere ==
  ASSUME PaxosInv, PaxosTypeOK', UNCHANGED <<created, asked, tables, next, delivered>>
  PROVE  PaxosInv'
BY DEF PaxosInv, PaxosTypeOK, TablesOK, SlotsExact, NotOvertaken, ReadsPrefix

-----------------------------------------------------------------------------
(***************************************************************************)
(* The clients' and ZooKeeper's steps.                                     *)
(***************************************************************************)

LEMMA AskTyped ==
  ASSUME PaxosTypeOK, NEW p, NEW value \in BOOLEAN, Ask(p, value)
  PROVE  asking' \in [BatchReader -> [Slot -> BOOLEAN]]
BY DEF Ask, PaxosTypeOK

LEMMA ConstructPreserves ==
  ASSUME PaxosInv, NEW p \in Client, Construct(p)
  PROVE  PaxosInv'
<1>1. PaxosTypeOK
  BY DEF PaxosInv
<1>2. asking' \in [BatchReader -> [Slot -> BOOLEAN]]
  BY <1>1, AskTyped DEF Construct
<1>3. PaxosTypeOK'
  BY <1>1, <1>2 DEF Construct, PaxosTypeOK, zookeeper
<1>4. QED
  BY <1>3, Elsewhere DEF Construct, zookeeper

LEMMA SubmitPreserves ==
  ASSUME PaxosInv, NEW p \in Client, SubmitBatch(p)
  PROVE  PaxosInv'
<1>1. PaxosTypeOK
  BY DEF PaxosInv
<1>2. submitted + 1 \in Batch /\ submitted + 1 \in 0..MaxBatches
  BY <1>1, PaxosAssumption DEF SubmitBatch, PaxosTypeOK, Batch
<1>3. Append(creates[p], submitted + 1) \in Seq(Batch)
  BY <1>1, <1>2, AppendProperties DEF PaxosTypeOK
<1>4. PaxosTypeOK'
  BY <1>1, <1>2, <1>3 DEF SubmitBatch, PaxosTypeOK, reading
<1>5. QED
  BY <1>4, Elsewhere DEF SubmitBatch, reading

LEMMA FailCreatePreserves ==
  ASSUME PaxosInv, NEW p \in Client, FailCreate(p)
  PROVE  PaxosInv'
<1>1. PaxosTypeOK
  BY DEF PaxosInv
<1>2. Tail(creates[p]) \in Seq(Batch)
  BY <1>1, HeadTailProperties DEF FailCreate, PaxosTypeOK
<1>3. faults' \in 0..MaxFaults
  BY <1>1, PaxosAssumption DEF FailCreate, PaxosTypeOK
<1>4. PaxosTypeOK'
  BY <1>1, <1>2, <1>3 DEF FailCreate, PaxosTypeOK, reading
<1>5. QED
  BY <1>4, Elsewhere DEF FailCreate, reading

LEMMA EndSessionTyped ==
  ASSUME PaxosTypeOK, NEW p \in Client, NEW state \in {"none", "open", "expired", "closed"},
         EndSession(p, state)
  PROVE  /\ session' \in [Client -> {"none", "open", "expired", "closed"}]
         /\ creates' \in [Client -> Seq(Batch)]
         /\ DOMAIN owner' \subseteq DOMAIN owner
         /\ \A i \in DOMAIN owner' : owner'[i] \in Client
<1>1. <<>> \in Seq(Batch)
  BY EmptySeq
<1>2. QED
  BY <1>1 DEF EndSession, PaxosTypeOK, Restrict

LEMMA ClosePreserves ==
  ASSUME PaxosInv, NEW p \in Client, Close(p)
  PROVE  PaxosInv'
<1>1. PaxosTypeOK
  BY DEF PaxosInv
<1>2. asking' \in [BatchReader -> [Slot -> BOOLEAN]]
  BY <1>1, AskTyped DEF Close
<1>3. /\ session' \in [Client -> {"none", "open", "expired", "closed"}]
      /\ creates' \in [Client -> Seq(Batch)]
      /\ DOMAIN owner' \subseteq DOMAIN owner
      /\ \A i \in DOMAIN owner' : owner'[i] \in Client
  BY <1>1, EndSessionTyped DEF Close
<1>4. PaxosTypeOK'
  BY <1>1, <1>2, <1>3 DEF Close, PaxosTypeOK
<1>5. QED
  BY <1>4, Elsewhere DEF Close

LEMMA ExpirePreserves ==
  ASSUME PaxosInv, NEW p \in Client, Expire(p)
  PROVE  PaxosInv'
<1>1. PaxosTypeOK
  BY DEF PaxosInv
<1>2. asking' \in [BatchReader -> [Slot -> BOOLEAN]]
  BY <1>1, AskTyped DEF Expire
<1>3. /\ session' \in [Client -> {"none", "open", "expired", "closed"}]
      /\ creates' \in [Client -> Seq(Batch)]
      /\ DOMAIN owner' \subseteq DOMAIN owner
      /\ \A i \in DOMAIN owner' : owner'[i] \in Client
  BY <1>1, EndSessionTyped DEF Expire
<1>4. faults' \in 0..MaxFaults
  BY <1>1, PaxosAssumption DEF Expire, PaxosTypeOK
<1>5. PaxosTypeOK'
  BY <1>1, <1>2, <1>3, <1>4 DEF Expire, PaxosTypeOK
<1>6. QED
  BY <1>5, Elsewhere DEF Expire

(* A new number changes none of the old ones.                              *)
LEMMA CreateZnodePreserves ==
  ASSUME PaxosInv, NEW p \in Client, CreateZnode(p)
  PROVE  PaxosInv'
<1> DEFINE b == Head(creates[p])
<1>1. PaxosTypeOK /\ created \in Seq(Batch) /\ Len(created) \in Nat
  BY LenProperties DEF PaxosInv, PaxosTypeOK
<1>2. b \in Batch /\ Tail(creates[p]) \in Seq(Batch)
  BY <1>1, HeadTailProperties DEF CreateZnode, PaxosTypeOK
<1> HIDE DEF b
<1>3. created' = Append(created, b)
  BY DEF CreateZnode, b
<1>4. /\ created' \in Seq(Batch) /\ Len(created') = Len(created) + 1
      /\ \A i \in 1..Len(created) : created'[i] = created[i]
  BY <1>1, <1>2, <1>3, AppendProperties
<1>5. DOMAIN owner' \subseteq 0..Len(created) /\ \A i \in DOMAIN owner' : owner'[i] \in Client
  <2>1. owner' = [i \in DOMAIN owner \cup {Len(created)} |->
                    IF i = Len(created) THEN p ELSE owner[i]]
    BY DEF CreateZnode
  <2>2. DOMAIN owner \subseteq 0..(Len(created) - 1) /\ \A i \in DOMAIN owner : owner[i] \in Client
    BY <1>1 DEF PaxosTypeOK
  <2>3. QED
    BY <1>1, <2>1, <2>2
<1>6. PaxosTypeOK'
  BY <1>1, <1>2, <1>4, <1>5 DEF CreateZnode, PaxosTypeOK, reading
<1>7. UNCHANGED <<asked, tables, next, delivered>>
  BY DEF CreateZnode, reading
<1>8. TablesOK' /\ NotOvertaken'
  BY <1>7 DEF PaxosInv, TablesOK, NotOvertaken
<1>9. SlotsExact'
  <2> SUFFICES ASSUME NEW q \in BatchReader, NEW s \in Slot, NEW i \in DOMAIN tables[q][s]
               PROVE  i < Len(created') /\ tables[q][s][i] = created'[i + 1]
    BY <1>7 DEF PaxosInv, SlotsExact
  <2>1. i \in Nat
    BY TableDomain DEF PaxosInv, TablesOK
  <2>2. i < Len(created) /\ tables[q][s][i] = created[i + 1]
    BY DEF PaxosInv, SlotsExact
  <2>3. i + 1 \in 1..Len(created)
    BY <1>1, <2>1, <2>2
  <2>4. QED
    BY <1>1, <1>4, <2>1, <2>2, <2>3
<1>10. ReadsPrefix'
  <2> SUFFICES ASSUME NEW q \in BatchReader
               PROVE  /\ Len(delivered[q]) = next[q] /\ next[q] <= Len(created')
                      /\ \A i \in 1..next[q] : delivered[q][i] = created'[i]
    BY <1>7 DEF ReadsPrefix
  <2>1. next[q] \in Nat
    BY <1>1 DEF PaxosTypeOK
  <2>2. /\ Len(delivered[q]) = next[q] /\ next[q] <= Len(created)
        /\ \A i \in 1..next[q] : delivered[q][i] = created[i]
    BY DEF PaxosInv, ReadsPrefix
  <2>3. QED
    BY <1>1, <1>4, <2>1, <2>2
<1>11. QED
  BY <1>6, <1>8, <1>9, <1>10 DEF PaxosInv

-----------------------------------------------------------------------------
(***************************************************************************)
(* The readers' steps.                                                     *)
(***************************************************************************)

LEMMA FailGetPreserves ==
  ASSUME PaxosInv, NEW p \in BatchReader, NEW s \in Slot, FailGet(p, s)
  PROVE  PaxosInv'
<1>1. PaxosTypeOK
  BY DEF PaxosInv
<1>2. faults' \in 0..MaxFaults
  BY <1>1, PaxosAssumption DEF FailGet, PaxosTypeOK
<1>3. PaxosTypeOK'
  BY <1>1, <1>2 DEF FailGet, PaxosTypeOK, zookeeper
<1>4. QED
  BY <1>3, Elsewhere DEF FailGet, zookeeper

(* A batch that was read is the next of its slot's turn.                   *)
LEMMA TurnGrows ==
  ASSUME NEW n \in Nat, NEW a \in Nat, n <= a
  PROVE  {i \in n..(a + CONCURRENT_GETS - 1) : i % CONCURRENT_GETS = a % CONCURRENT_GETS} =
           {i \in n..(a - 1) : i % CONCURRENT_GETS = a % CONCURRENT_GETS} \cup {a}
<1>1. CONCURRENT_GETS \in Nat \ {0}
  BY PaxosAssumption
<1>2. ASSUME NEW i \in n..(a + CONCURRENT_GETS - 1), i % CONCURRENT_GETS = a % CONCURRENT_GETS
      PROVE  i \in n..(a - 1) \/ i = a
  <2>1. i \in Nat /\ n <= i /\ i < a + CONCURRENT_GETS
    BY <1>1, <1>2
  <2>2. a < i => i % CONCURRENT_GETS # a % CONCURRENT_GETS
    BY <1>1, <2>1, OtherSlots
  <2>3. i <= a
    BY <1>2, <2>1, <2>2
  <2>4. QED
    BY <2>1, <2>3
<1>3. a \in n..(a + CONCURRENT_GETS - 1)
  BY <1>1
<1>4. \A i \in n..(a - 1) : i \in n..(a + CONCURRENT_GETS - 1)
  BY <1>1
<1>5. QED
  BY <1>2, <1>3, <1>4

LEMMA GetDataPreserves ==
  ASSUME PaxosInv, NEW p \in BatchReader, NEW s \in Slot, GetDataCompletion(p, s)
  PROVE  PaxosInv'
<1> DEFINE a == asked[p][s]
           t == [j \in DOMAIN tables[p][s] \cup {a} |->
                   IF j = a THEN created[a + 1] ELSE tables[p][s][j]]
<1>1. /\ PaxosTypeOK /\ a \in Nat /\ next[p] \in Nat /\ CONCURRENT_GETS \in Nat \ {0}
      /\ Len(created) \in Nat /\ created \in Seq(Batch)
  BY PaxosAssumption, LenProperties DEF PaxosInv, PaxosTypeOK
<1>2. a % CONCURRENT_GETS = s /\ TableOf(a) = s /\ next[p] <= a
  BY DEF PaxosInv, SlotsExact, NotOvertaken, TableOf
<1>3. a < Len(created) /\ created[a + 1] \in Batch
  <2>1. a \in 0..(Len(created) - 1)
    BY <1>1 DEF GetDataCompletion, PaxosTypeOK
  <2>2. a + 1 \in 1..Len(created)
    BY <1>1, <2>1
  <2>3. QED
    BY <1>1, <2>1, <2>2, ElementOfSeq
<1>4. /\ tables[p][s] \in Table /\ DOMAIN tables[p][s] = Turn(p, s)
      /\ \A i \in DOMAIN tables[p][s] :
           i \in Nat /\ i < Len(created) /\ tables[p][s][i] = created[i + 1]
  BY TableDomain DEF PaxosInv, TablesOK, SlotsExact, Turn
<1>5. /\ asked' = [asked EXCEPT ![p][s] = a + CONCURRENT_GETS]
      /\ tables' = [tables EXCEPT ![p][s] = t]
      /\ UNCHANGED <<created, next, delivered>>
  BY <1>2 DEF GetDataCompletion, NextIndex, zookeeper
<1>6. t \in Table
  <2>1. DOMAIN tables[p][s] \cup {a} \in SUBSET Nat
    BY <1>1, <1>4
  <2>2. \A j \in DOMAIN tables[p][s] \cup {a} : t[j] \in Batch
    BY <1>3, <1>4, TableDomain
  <2>3. QED
    BY <2>1, <2>2, TableProperties
<1>7. (a + CONCURRENT_GETS) % CONCURRENT_GETS = s
  BY <1>1, <1>2, SameSlot
<1>8. DOMAIN t = {i \in next[p]..(a + CONCURRENT_GETS - 1) : i % CONCURRENT_GETS = s}
  <2>1. {i \in next[p]..(a + CONCURRENT_GETS - 1) : i % CONCURRENT_GETS = s} = Turn(p, s) \cup {a}
    <3>1. {i \in next[p]..(a + CONCURRENT_GETS - 1) : i % CONCURRENT_GETS = a % CONCURRENT_GETS} =
            {i \in next[p]..(a - 1) : i % CONCURRENT_GETS = a % CONCURRENT_GETS} \cup {a}
      BY <1>1, <1>2, TurnGrows
    <3>2. a % CONCURRENT_GETS = s
      BY <1>2
    <3>3. QED
      BY <3>1, <3>2, Zenon DEF Turn
  <2>2. QED
    BY <1>4, <2>1
<1>9. \A i \in DOMAIN t : i < Len(created) /\ t[i] = created[i + 1]
  BY <1>3, <1>4
<1> HIDE DEF a, t
<1>10. a + CONCURRENT_GETS \in Nat /\ next[p] <= a + CONCURRENT_GETS
  BY <1>1, <1>2
<1>11. PaxosTypeOK'
  BY <1>1, <1>5, <1>10, SMTT(20) DEF GetDataCompletion, PaxosTypeOK, zookeeper
<1>12. TablesOK'
  BY <1>5, <1>6 DEF PaxosInv, TablesOK
<1>13. \A q \in BatchReader, u \in Slot :
         /\ asked'[q][u] = IF q = p /\ u = s THEN a + CONCURRENT_GETS ELSE asked[q][u]
         /\ tables'[q][u] = IF q = p /\ u = s THEN t ELSE tables[q][u]
  BY <1>1, <1>5 DEF PaxosInv, PaxosTypeOK, TablesOK
<1>14. SlotsExact'
  <2> SUFFICES ASSUME NEW q \in BatchReader, NEW u \in Slot
               PROVE  /\ asked'[q][u] % CONCURRENT_GETS = u
                      /\ DOMAIN tables'[q][u] =
                           {i \in next[q]..(asked'[q][u] - 1) : i % CONCURRENT_GETS = u}
                      /\ \A i \in DOMAIN tables'[q][u] :
                           i < Len(created) /\ tables'[q][u][i] = created[i + 1]
    BY <1>5 DEF SlotsExact
  <2>1. CASE q = p /\ u = s
    <3>1. asked'[q][u] = a + CONCURRENT_GETS /\ tables'[q][u] = t
      BY <1>13, <2>1
    <3>2. {i \in next[q]..(asked'[q][u] - 1) : i % CONCURRENT_GETS = u} = DOMAIN t
      <4>1. asked'[q][u] - 1 = a + CONCURRENT_GETS - 1
        BY <1>1, <3>1
      <4>2. QED
        BY <1>8, <2>1, <4>1, Zenon
    <3>3. QED
      BY <1>7, <1>9, <2>1, <3>1, <3>2
  <2>2. CASE ~ (q = p /\ u = s)
    BY <1>13, <2>2 DEF PaxosInv, SlotsExact
  <2>3. QED
    BY <2>1, <2>2
<1>15. NotOvertaken'
  BY <1>5, <1>10, <1>13 DEF PaxosInv, NotOvertaken
<1>16. ReadsPrefix'
  BY <1>5 DEF PaxosInv, ReadsPrefix
<1>17. QED
  BY <1>11, <1>12, <1>14, <1>15, <1>16 DEF PaxosInv

(* A table that holds anything holds the next batch.                       *)
LEMMA NextIsThere ==
  ASSUME PaxosInv, NEW p \in BatchReader, Available(p)
  PROVE  LET n == next[p]  s == TableOf(n) IN
         /\ n \in DOMAIN tables[p][s] /\ n < asked[p][s]
         /\ n < Len(created) /\ tables[p][s][n] = created[n + 1] /\ created[n + 1] \in Batch
<1> DEFINE n == next[p]
           s == TableOf(n)
<1>1. /\ PaxosTypeOK /\ n \in Nat /\ CONCURRENT_GETS \in Nat \ {0} /\ s \in Slot
      /\ Len(created) \in Nat /\ created \in Seq(Batch) /\ delivered[p] \in Seq(Batch)
  BY PaxosAssumption, LenProperties, SlotOfNumber DEF PaxosInv, PaxosTypeOK
<1>2. /\ tables[p][s] \in Table /\ DOMAIN tables[p][s] = Turn(p, s)
      /\ \A i \in DOMAIN tables[p][s] :
           i \in Nat /\ i < Len(created) /\ tables[p][s][i] = created[i + 1]
  BY <1>1, TableDomain DEF PaxosInv, TablesOK, SlotsExact, Turn
<1>3. n % CONCURRENT_GETS = s
  BY DEF TableOf
<1>4. \A u \in Slot : asked[p][u] \in Nat /\ n <= asked[p][u] /\ asked[p][u] % CONCURRENT_GETS = u
  BY <1>1 DEF PaxosInv, PaxosTypeOK, SlotsExact, NotOvertaken
<1>5. n \in DOMAIN tables[p][s] /\ n < asked[p][s]
  <2>1. tables[p][s] # <<>>
    BY DEF Available
  <2>2. PICK i \in DOMAIN tables[p][s] : TRUE
    <3>1. CASE DOMAIN tables[p][s] = {}
      <4>1. tables[p][s] = [i \in {} |-> tables[p][s][i]]
        BY <1>2, <3>1, TableDomain
      <4>2. QED
        BY <2>1, <4>1
    <3>2. QED
      BY <3>1
  <2>3. i \in n..(asked[p][s] - 1)
    BY <1>2, <2>2 DEF Turn
  <2>4. QED
    BY <1>1, <1>2, <1>3, <1>4, <2>3 DEF Turn
<1>6. n < Len(created) /\ tables[p][s][n] = created[n + 1] /\ created[n + 1] \in Batch
  <2>1. n < Len(created) /\ tables[p][s][n] = created[n + 1]
    BY <1>2, <1>5
  <2>2. n + 1 \in 1..Len(created)
    BY <1>1, <2>1
  <2>3. QED
    BY <1>1, <2>1, <2>2, ElementOfSeq
<1>7. QED
  BY <1>5, <1>6

(* The reader moves on by one: it finds the next batch, and overtakes no   *)
(* slot.                                                                   *)
LEMMA GetNextBatchPreserves ==
  ASSUME PaxosInv, NEW p \in BatchReader, GetNextBatch(p)
  PROVE  PaxosInv'
<1> DEFINE n == next[p]
           s == TableOf(n)
           t == [i \in DOMAIN tables[p][s] \ {n} |-> tables[p][s][i]]
<1>1. /\ PaxosTypeOK /\ n \in Nat /\ CONCURRENT_GETS \in Nat \ {0} /\ s \in Slot
      /\ Len(created) \in Nat /\ created \in Seq(Batch) /\ delivered[p] \in Seq(Batch)
  BY PaxosAssumption, LenProperties, SlotOfNumber DEF PaxosInv, PaxosTypeOK
<1>2. /\ tables[p][s] \in Table /\ DOMAIN tables[p][s] = Turn(p, s)
      /\ \A i \in DOMAIN tables[p][s] :
           i \in Nat /\ i < Len(created) /\ tables[p][s][i] = created[i + 1]
  BY <1>1, TableDomain DEF PaxosInv, TablesOK, SlotsExact, Turn
<1>3. n % CONCURRENT_GETS = s
  BY DEF TableOf
<1>4. \A u \in Slot : asked[p][u] \in Nat /\ n <= asked[p][u] /\ asked[p][u] % CONCURRENT_GETS = u
  BY <1>1 DEF PaxosInv, PaxosTypeOK, SlotsExact, NotOvertaken
<1>5. n \in DOMAIN tables[p][s] /\ n < asked[p][s]
  BY NextIsThere DEF GetNextBatch
<1>6. n < Len(created) /\ tables[p][s][n] = created[n + 1] /\ created[n + 1] \in Batch
  BY NextIsThere DEF GetNextBatch
<1>7. /\ delivered' = [delivered EXCEPT ![p] = @ \o <<created[n + 1]>>]
      /\ tables' = [tables EXCEPT ![p][s] = t]
      /\ next' = [next EXCEPT ![p] = n + 1]
      /\ UNCHANGED <<created, asked>>
  BY <1>5, <1>6 DEF GetNextBatch, Found, Restrict, zookeeper
<1>8. /\ delivered[p] \o <<created[n + 1]>> \in Seq(Batch)
      /\ Len(delivered[p] \o <<created[n + 1]>>) = n + 1
      /\ \A i \in 1..(n + 1) : (delivered[p] \o <<created[n + 1]>>)[i] = created[i]
  <2> DEFINE one == <<created[n + 1]>>
  <2>1. one \in Seq(Batch) /\ Len(one) = 1 /\ one[1] = created[n + 1]
    BY <1>6
  <2>2. Len(delivered[p]) = n /\ \A i \in 1..n : delivered[p][i] = created[i]
    BY DEF PaxosInv, ReadsPrefix
  <2> HIDE DEF one
  <2>3. /\ delivered[p] \o one \in Seq(Batch)
        /\ Len(delivered[p] \o one) = n + 1
        /\ \A i \in 1..(n + 1) :
             (delivered[p] \o one)[i] = IF i <= n THEN delivered[p][i] ELSE one[i - n]
    <3>1. /\ delivered[p] \o one \in Seq(Batch)
          /\ Len(delivered[p] \o one) = Len(delivered[p]) + Len(one)
          /\ \A i \in 1..(Len(delivered[p]) + Len(one)) :
               (delivered[p] \o one)[i] = IF i <= Len(delivered[p]) THEN delivered[p][i]
                                         ELSE one[i - Len(delivered[p])]
      BY <1>1, <2>1, ConcatProperties
    <3>2. QED
      BY <2>1, <2>2, <3>1
  <2>4. \A i \in 1..(n + 1) : (delivered[p] \o one)[i] = created[i]
    <3> SUFFICES ASSUME NEW i \in 1..(n + 1) PROVE (delivered[p] \o one)[i] = created[i]
      OBVIOUS
    <3> HIDE DEF n
    <3>1. n \in Nat /\ (i <= n \/ i = n + 1)
      BY <1>1
    <3>2. CASE i <= n
      BY <2>2, <2>3, <3>1, <3>2
    <3>3. CASE i = n + 1
      <4>1. ~ (i <= n) /\ i - n = 1
        BY <3>1, <3>3
      <4>2. QED
        BY <2>1, <2>3, <3>3, <4>1
    <3>4. QED
      BY <3>1, <3>2, <3>3, Zenon
  <2>5. QED
    BY <2>3, <2>4 DEF one
<1>9. /\ t \in Table /\ DOMAIN t = Turn(p, s) \ {n}
      /\ \A i \in DOMAIN t : i < Len(created) /\ t[i] = created[i + 1]
  <2>1. DOMAIN tables[p][s] \ {n} \in SUBSET Nat
    BY <1>2
  <2>2. \A i \in DOMAIN tables[p][s] \ {n} : t[i] \in Batch
    BY <1>2, TableDomain
  <2>3. t \in Table
    BY <2>1, <2>2, TableProperties
  <2>4. QED
    BY <1>2, <2>3
<1>10. \A u \in Slot :
         {i \in (n + 1)..(asked[p][u] - 1) : i % CONCURRENT_GETS = u} = Turn(p, u) \ {n}
  BY <1>1, <1>4 DEF Turn
<1>11. \A u \in Slot : n + 1 <= asked[p][u] /\ (u # s => n \notin Turn(p, u))
  <2> SUFFICES ASSUME NEW u \in Slot
               PROVE  n + 1 <= asked[p][u] /\ (u # s => n \notin Turn(p, u))
    OBVIOUS
  <2>1. CASE u = s
    BY <1>1, <1>4, <1>5, <2>1
  <2>2. CASE u # s
    <3>1. asked[p][u] # n
      BY <1>3, <1>4, <2>2
    <3>2. QED
      BY <1>1, <1>3, <1>4, <2>2, <3>1 DEF Turn
  <2>3. QED
    BY <2>1, <2>2
<1> HIDE DEF n, s, t
<1>12. n + 1 \in Nat
  BY <1>1
<1>13. PaxosTypeOK'
  <2>1. next' \in [BatchReader -> Nat] /\ delivered' \in [BatchReader -> Seq(Batch)]
    BY <1>1, <1>7, <1>8, <1>12 DEF PaxosTypeOK
  <2>2. UNCHANGED <<created, owner, creates, session, asked, asking, submitted, faults>>
    BY DEF GetNextBatch, zookeeper
  <2>3. QED
    BY <1>1, <2>1, <2>2 DEF PaxosTypeOK
<1>14. TablesOK'
  BY <1>7, <1>9 DEF PaxosInv, TablesOK
<1>15. \A q \in BatchReader :
         /\ next'[q] = IF q = p THEN n + 1 ELSE next[q]
         /\ delivered'[q] = IF q = p THEN delivered[p] \o <<created[n + 1]>> ELSE delivered[q]
         /\ \A u \in Slot : tables'[q][u] = IF q = p /\ u = s THEN t ELSE tables[q][u]
  BY <1>1, <1>7 DEF PaxosInv, PaxosTypeOK, TablesOK
<1>16. SlotsExact'
  <2> SUFFICES ASSUME NEW q \in BatchReader, NEW u \in Slot
               PROVE  /\ asked[q][u] % CONCURRENT_GETS = u
                      /\ DOMAIN tables'[q][u] =
                           {i \in next'[q]..(asked[q][u] - 1) : i % CONCURRENT_GETS = u}
                      /\ \A i \in DOMAIN tables'[q][u] :
                           i < Len(created) /\ tables'[q][u][i] = created[i + 1]
    BY <1>7 DEF SlotsExact
  <2>1. /\ asked[q][u] % CONCURRENT_GETS = u
        /\ DOMAIN tables[q][u] = Turn(q, u)
        /\ \A i \in DOMAIN tables[q][u] :
             i < Len(created) /\ tables[q][u][i] = created[i + 1]
    BY DEF PaxosInv, SlotsExact, Turn
  <2>2. CASE q = p /\ u = s
    BY <1>9, <1>10, <1>15, <2>1, <2>2
  <2>3. CASE q = p /\ u # s
    BY <1>10, <1>11, <1>15, <2>1, <2>3
  <2>4. CASE q # p
    BY <1>15, <2>1, <2>4 DEF Turn
  <2>5. QED
    BY <2>2, <2>3, <2>4
<1>17. NotOvertaken'
  BY <1>7, <1>11, <1>15 DEF PaxosInv, NotOvertaken
<1>18. ReadsPrefix'
  <2> SUFFICES ASSUME NEW q \in BatchReader
               PROVE  /\ Len(delivered'[q]) = next'[q] /\ next'[q] <= Len(created)
                      /\ \A i \in 1..next'[q] : delivered'[q][i] = created[i]
    BY <1>7 DEF ReadsPrefix
  <2>1. CASE q = p
    <3>1. next'[q] = n + 1 /\ delivered'[q] = delivered[p] \o <<created[n + 1]>>
      BY <1>15, <2>1
    <3>2. n + 1 <= Len(created)
      BY <1>1, <1>6
    <3>3. QED
      BY <1>8, <3>1, <3>2
  <2>2. CASE q # p
    BY <1>15, <2>2 DEF PaxosInv, ReadsPrefix
  <2>3. QED
    BY <2>1, <2>2
<1>19. QED
  BY <1>13, <1>14, <1>16, <1>17, <1>18 DEF PaxosInv

-----------------------------------------------------------------------------
LEMMA NextPreserves == PaxosInv /\ [PaxosNext]_paxosVars => PaxosInv'
<1> SUFFICES ASSUME PaxosInv, [PaxosNext]_paxosVars PROVE PaxosInv'
  OBVIOUS
<1>1. ASSUME NEW p \in Client, Construct(p) \/ Close(p) \/ Expire(p)
      PROVE  PaxosInv'
  BY <1>1, ConstructPreserves, ClosePreserves, ExpirePreserves
<1>2. ASSUME NEW p \in Client, CreateZnode(p) \/ FailCreate(p) \/ SubmitBatch(p)
      PROVE  PaxosInv'
  BY <1>2, CreateZnodePreserves, FailCreatePreserves, SubmitPreserves
<1>3. ASSUME NEW p \in BatchReader, GetNextBatch(p) PROVE PaxosInv'
  BY <1>3, GetNextBatchPreserves
<1>4. ASSUME NEW p \in BatchReader, NEW s \in Slot, GetDataCompletion(p, s) \/ FailGet(p, s)
      PROVE  PaxosInv'
  BY <1>4, GetDataPreserves, FailGetPreserves
<1>5. CASE UNCHANGED paxosVars
  <2>1. PaxosTypeOK'
    BY <1>5 DEF PaxosInv, PaxosTypeOK, paxosVars, zookeeper, reading
  <2>2. QED
    BY <1>5, <2>1, Elsewhere DEF paxosVars, zookeeper, reading
<1>6. QED
  BY <1>1, <1>2, <1>3, <1>4, <1>5 DEF PaxosNext

LEMMA InvariantHolds == PaxosSpec => []PaxosInv
BY InitPaxosInv, NextPreserves, PTL DEF PaxosSpec

(* The variables keep their types: in particular no reader is ever handed  *)
(* the empty string that operator[] makes up for a missing key.            *)
THEOREM PaxosTypeCorrect == PaxosSpec => []PaxosTypeOK
BY InvariantHolds, PTL DEF PaxosInv

(* Every table holds exactly the numbers of its slot's turn, for every     *)
(* number of concurrent gets, whatever fails and whichever session ends.   *)
THEOREM SlotsCorrect == PaxosSpec => []SlotsExact
BY InvariantHolds, PTL DEF PaxosInv

(* paxos.h:37-41: every reader has been handed the first batches of the    *)
(* one order, without a gap and each once.                                 *)
THEOREM ReadersGetPrefixes == PaxosSpec => []ReadsPrefix
BY InvariantHolds, PTL DEF PaxosInv

(* So two readers never disagree about the batch at a position.            *)
SamePlace ==
  \A p, q \in BatchReader : \A i \in 1..next[p] :
    i <= next[q] => delivered[p][i] = delivered[q][i]

(* paxos.h:39-41: an insertion appears in the same place to all readers.   *)
THEOREM ReadersAgree == PaxosSpec => []SamePlace
<1>1. PaxosInv => SamePlace
  <2> SUFFICES ASSUME PaxosInv, NEW p \in BatchReader, NEW q \in BatchReader,
                      NEW i \in 1..next[p], i <= next[q]
               PROVE  delivered[p][i] = delivered[q][i]
    BY DEF SamePlace
  <2>1. next[p] \in Nat /\ next[q] \in Nat /\ i \in 1..next[q]
    BY DEF PaxosInv, PaxosTypeOK
  <2>2. QED
    BY <2>1 DEF PaxosInv, ReadsPrefix
<1>2. QED
  BY <1>1, InvariantHolds, PTL

-----------------------------------------------------------------------------
(***************************************************************************)
(* The readers implement the abstract log.                                 *)
(***************************************************************************)

LEMMA LogStarts == PaxosInit => Order!Init
BY DEF PaxosInit, Order!Init

LEMMA LogSteps ==
  ASSUME PaxosInv, [PaxosNext]_paxosVars
  PROVE  [Order!Next]_(Order!vars)
<1>1. ASSUME NEW p \in Client, CreateZnode(p)
      PROVE  Order!Order
  <2> DEFINE b == Head(creates[p])
  <2>1. created \in Seq(Batch) /\ Len(created) \in Nat /\ b \in Batch
    BY <1>1, HeadTailProperties, LenProperties DEF CreateZnode, PaxosInv, PaxosTypeOK
  <2>2. created' = Append(created, b) /\ UNCHANGED <<next, delivered>>
    BY <1>1 DEF CreateZnode
  <2> HIDE DEF b
  <2>3. /\ created' \in Seq(Batch) /\ Len(created') = Len(created) + 1
        /\ \A i \in 1..Len(created) : created'[i] = created[i]
    BY <2>1, <2>2, AppendProperties
  <2>4. IsPrefix(created, created')
    BY <2>1, <2>3, LongerHasPrefix
  <2>5. created' # created
    BY <2>1, <2>3
  <2>6. QED
    BY <2>2, <2>4, <2>5 DEF Order!Order, Order!IsPrefix, IsPrefix
<1>2. ASSUME NEW p \in BatchReader, GetNextBatch(p)
      PROVE  Order!Take(p)
  <2> DEFINE n == next[p]
             s == TableOf(n)
  <2>1. n < Len(created) /\ n \in DOMAIN tables[p][s] /\ tables[p][s][n] = created[n + 1]
    BY <1>2, NextIsThere DEF GetNextBatch
  <2>2. /\ delivered' = [delivered EXCEPT ![p] = @ \o <<created[n + 1]>>]
        /\ next' = [next EXCEPT ![p] = @ + 1]
        /\ UNCHANGED created
    BY <1>2, <2>1 DEF GetNextBatch, Found, zookeeper
  <2>3. QED
    BY <2>1, <2>2 DEF Order!Take, Whole
<1>3. ASSUME NEW p \in Client,
             Construct(p) \/ Close(p) \/ Expire(p) \/ FailCreate(p) \/ SubmitBatch(p)
      PROVE  UNCHANGED <<created, next, delivered>>
  BY <1>3 DEF Construct, Close, Expire, FailCreate, SubmitBatch, EndSession, zookeeper
<1>4. ASSUME NEW p \in BatchReader, NEW s \in Slot, GetDataCompletion(p, s) \/ FailGet(p, s)
      PROVE  UNCHANGED <<created, next, delivered>>
  BY <1>4 DEF GetDataCompletion, FailGet, zookeeper
<1>5. CASE UNCHANGED paxosVars
  BY <1>5 DEF paxosVars, zookeeper, Order!vars
<1>6. QED
  BY <1>1, <1>2, <1>3, <1>4, <1>5 DEF PaxosNext, Order!Next, Order!vars

(* paxos.h:37-41: there is one log, which only grows, and every reader     *)
(* takes the batches of it one after the other, skipping none and none     *)
(* twice, whatever sessions end and whatever fails.                        *)
THEOREM ReadersImplementTotalOrder == PaxosSpec => ReadersShareLog
<1>1. PaxosInv /\ [PaxosNext]_paxosVars => [Order!Next]_(Order!vars)
  BY LogSteps
<1>2. QED
  BY <1>1, LogStarts, InvariantHolds, PTL DEF PaxosSpec, ReadersShareLog, Order!Spec

-----------------------------------------------------------------------------
(***************************************************************************)
(* No reader waits in vain.                                                *)
(***************************************************************************)

(* The slot whose table the reader looks at next has read what it looks    *)
(* for, or asks for exactly that number.                                   *)
SlotAtWork ==
  \A p \in BatchReader :
    LET s == TableOf(next[p]) IN Available(p) \/ asked[p][s] = next[p]

(* So a reader that has had no error can go on as long as the znode it     *)
(* needs is there: a batch is handed out, or the answer that brings it is  *)
(* on its way.                                                             *)
ReaderGoesOn ==
  \A p \in BatchReader :
    LET s == TableOf(next[p]) IN
    session[p] = "open" /\ asking[p][s] /\ next[p] \in DOMAIN owner =>
      \/ Available(p)
      \/ asked[p][s] = next[p] /\ asked[p][s] \in DOMAIN owner

LEMMA SlotsAtWork == PaxosInv => SlotAtWork
<1> SUFFICES ASSUME PaxosInv, NEW p \in BatchReader, NEW s, s = TableOf(next[p]),
                    asked[p][s] # next[p]
             PROVE  Available(p)
  BY DEF SlotAtWork
<1>1. next[p] \in Nat /\ CONCURRENT_GETS \in Nat \ {0}
  BY PaxosAssumption DEF PaxosInv, PaxosTypeOK
<1>2. s \in Slot /\ next[p] % CONCURRENT_GETS = s
  BY <1>1, SlotOfNumber DEF TableOf
<1>3. asked[p][s] \in Nat /\ next[p] < asked[p][s]
  BY <1>1, <1>2 DEF PaxosInv, PaxosTypeOK, NotOvertaken
<1>4. next[p] \in DOMAIN tables[p][s]
  <2>1. next[p] \in next[p]..(asked[p][s] - 1)
    BY <1>1, <1>3
  <2>2. QED
    BY <1>2, <2>1 DEF PaxosInv, SlotsExact
<1>5. tables[p][s] # <<>>
  <2>1. DOMAIN <<>> = {}
    OBVIOUS
  <2>2. QED
    BY <1>4, <2>1
<1>6. QED
  BY <1>5 DEF Available

(* The safety half of BatchesRead (paxos.cc:108-129, 131-171): with        *)
(* CONCURRENT_GETS numbers asked for at a time none is left out, and the   *)
(* table that GetNextBatch looks at is empty only while its very batch is  *)
(* being asked for, whatever the other slots have read.                    *)
THEOREM ReadersNeverStuck == PaxosSpec => [](SlotAtWork /\ ReaderGoesOn)
<1>1. SlotAtWork => ReaderGoesOn
  BY DEF SlotAtWork, ReaderGoesOn
<1>2. QED
  BY <1>1, SlotsAtWork, InvariantHolds, PTL
=============================================================================
