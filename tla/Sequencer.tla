----------------------------- MODULE Sequencer -----------------------------
(***************************************************************************)
(* sequencer/sequencer.{h,cc} on every node of a cluster: the writer and   *)
(* the reader thread of each node's sequencer, and as much of the          *)
(* schedulers (scheduler.cc) as the order of the batches depends on.       *)
(*                                                                         *)
(* Batch numbers b with b % N = n belong to node n.  The writer collects   *)
(* transactions in epochs; the reader cuts each batch into one message per *)
(* node; every scheduler takes the messages in the order of the numbers.   *)
(***************************************************************************)
EXTENDS Integers, Sequences, FiniteSets, SequencesExt

CONSTANTS
  N,               \* number of nodes (all_nodes)
  Placements,      \* sets of nodes that a new transaction may take part in
  MAX_BATCH_SIZE,
  MAX_ACTIVE_TXNS,
  EpochLimit,      \* bound of the model: epochs of each node's writer
  Stoppable        \* nodes whose Sequencer may be destroyed

Node == 0..(N - 1)

ASSUME SequencerAssumption ==
  /\ N \in Nat \ {0}
  /\ Placements \subseteq (SUBSET Node) \ {{}}
  /\ MAX_BATCH_SIZE \in Nat \ {0} /\ MAX_ACTIVE_TXNS \in Nat \ {0}
  /\ EpochLimit \in [Node -> Nat]
  /\ Stoppable \subseteq Node

VARIABLES
  writer,                 \* where the writer thread is
  reader,                 \* where the reader thread is
  sync_messages,          \* EMPTY messages waiting for the writer
  synchronization_counter,
  batch_number,           \* of the writer's epoch
  batch,                  \* transactions collected in it
  total_active_txns,      \* the throttle shared with the scheduler
  batch_queue,            \* from writer to reader
  send_number,            \* the reader's own batch_number
  channel,                \* batch messages from each sequencer to each scheduler
  turn,                   \* batch number each scheduler waits for
  schedule,               \* transactions each scheduler took, in order
  finished,               \* how many of them are done
  deconstructor_invoked,
  sent                    \* history: the batches each reader has sent

writerVars == <<writer, sync_messages, synchronization_counter, batch_number, batch>>
readerVars == <<reader, send_number, channel, sent>>
schedVars  == <<turn, schedule, finished>>
vars == <<writerVars, readerVars, schedVars, total_active_txns, batch_queue,
          deconstructor_invoked>>

Init ==
  /\ writer = [n \in Node |-> "start"]
  /\ reader = [n \in Node |-> "top"]
  /\ sync_messages = [n \in Node |-> 0]
  /\ synchronization_counter = [n \in Node |-> 1]
  /\ batch_number = [n \in Node |-> n]
  /\ batch = [n \in Node |-> <<>>]
  /\ total_active_txns = [n \in Node |-> 0]
  /\ batch_queue = [n \in Node |-> <<>>]
  /\ send_number = [n \in Node |-> n]
  /\ channel = [n \in Node |-> [m \in Node |-> <<>>]]
  /\ turn = [m \in Node |-> 0]
  /\ schedule = [m \in Node |-> <<>>]
  /\ finished = [m \in Node |-> 0]
  /\ deconstructor_invoked = [n \in Node |-> FALSE]
  /\ sent = [n \in Node |-> <<>>]

-----------------------------------------------------------------------------
(* RunWriter: tell every other sequencer that this one is up ...           *)
SendSync(n) ==
  /\ writer[n] = "start"
  /\ writer' = [writer EXCEPT ![n] = "sync"]
  /\ sync_messages' = [m \in Node |-> IF m = n THEN sync_messages[m] ELSE sync_messages[m] + 1]
  /\ UNCHANGED <<synchronization_counter, batch_number, batch, readerVars, schedVars,
                 total_active_txns, batch_queue, deconstructor_invoked>>

HasSync(n) == sync_messages[n] > 0

(* ... and hear the same from all of them.                                 *)
ReceiveSync(n) ==
  /\ writer[n] = "sync" /\ synchronization_counter[n] < N
  /\ HasSync(n)
  /\ sync_messages' = [sync_messages EXCEPT ![n] = @ - 1]
  /\ synchronization_counter' = [synchronization_counter EXCEPT ![n] = @ + 1]
  /\ UNCHANGED <<writer, batch_number, batch, readerVars, schedVars,
                 total_active_txns, batch_queue, deconstructor_invoked>>

(* Variant of Synchronized that is content with one message less.          *)
Synchronized_Early(n) == synchronization_counter[n] >= N - 1

Synchronized(n) == synchronization_counter[n] >= N

StartSequencer(n) ==
  /\ writer[n] = "sync" /\ Synchronized(n)
  /\ writer' = [writer EXCEPT ![n] = "check"]
  /\ UNCHANGED <<sync_messages, synchronization_counter, batch_number, batch, readerVars,
                 schedVars, total_active_txns, batch_queue, deconstructor_invoked>>

(* The condition of the epoch loop.                                        *)
BeginEpoch(n) ==
  /\ writer[n] = "check" /\ ~ deconstructor_invoked[n]
  /\ batch_number[n] < N * EpochLimit[n]
  /\ writer' = [writer EXCEPT ![n] = "epoch"]
  /\ batch' = [batch EXCEPT ![n] = <<>>]
  /\ UNCHANGED <<sync_messages, synchronization_counter, batch_number, readerVars,
                 schedVars, total_active_txns, batch_queue, deconstructor_invoked>>

StopWriter(n) ==
  /\ writer[n] = "check" /\ deconstructor_invoked[n]
  /\ writer' = [writer EXCEPT ![n] = "stopped"]
  /\ UNCHANGED <<sync_messages, synchronization_counter, batch_number, batch, readerVars,
                 schedVars, total_active_txns, batch_queue, deconstructor_invoked>>

(* Variant of TxnId that does not leave room for a whole batch.            *)
TxnId_Unscaled(n) == batch_number[n] + Len(batch[n])

TxnId(n) == batch_number[n] * MAX_BATCH_SIZE + Len(batch[n])

(* The application makes a transaction; the keys it draws decide which     *)
(* nodes are its readers and writers.                                      *)
NewTxn(n) ==
  /\ writer[n] = "epoch" /\ ~ deconstructor_invoked[n]
  /\ total_active_txns[n] < MAX_ACTIVE_TXNS
  /\ Len(batch[n]) < MAX_BATCH_SIZE
  /\ total_active_txns' = [total_active_txns EXCEPT ![n] = @ + 1]
  /\ \E nodes \in Placements :
       batch' = [batch EXCEPT ![n] = Append(@, [id |-> TxnId(n), nodes |-> nodes])]
  /\ UNCHANGED <<writer, sync_messages, synchronization_counter, batch_number, readerVars,
                 schedVars, batch_queue, deconstructor_invoked>>

(* The epoch's time is over, whatever was collected in it.                 *)
EndEpoch(n) ==
  /\ writer[n] = "epoch"
  /\ batch_queue' = [batch_queue EXCEPT ![n] = Append(@, batch[n])]
  /\ batch_number' = [batch_number EXCEPT ![n] = @ + N]
  /\ writer' = [writer EXCEPT ![n] = "check"]
  /\ UNCHANGED <<sync_messages, synchronization_counter, batch, readerVars, schedVars,
                 total_active_txns, deconstructor_invoked>>

Writer(n) ==
  \/ SendSync(n) \/ ReceiveSync(n) \/ StartSequencer(n)
  \/ BeginEpoch(n) \/ NewTxn(n) \/ EndEpoch(n) \/ StopWriter(n)

-----------------------------------------------------------------------------
(* RunReader: the flag is looked at between batches only ...               *)
PollQueue(n) ==
  /\ reader[n] = "top" /\ ~ deconstructor_invoked[n]
  /\ reader' = [reader EXCEPT ![n] = "poll"]
  /\ UNCHANGED <<send_number, channel, sent, writerVars, schedVars, total_active_txns,
                 batch_queue, deconstructor_invoked>>

StopReader(n) ==
  /\ reader[n] = "top" /\ deconstructor_invoked[n]
  /\ reader' = [reader EXCEPT ![n] = "stopped"]
  /\ UNCHANGED <<send_number, channel, sent, writerVars, schedVars, total_active_txns,
                 batch_queue, deconstructor_invoked>>

(* What node m gets of a batch: the transactions it reads or writes for.   *)
Part(txns, m) == SelectSeq(txns, LAMBDA t : m \in t.nodes)

(* Variants of NextNumber: one steps by one instead of by N, one uses up a *)
(* number for a batch that is not sent.                                    *)
NextNumber_ByOne(n, txns) ==
  IF txns = <<>> THEN send_number[n] ELSE send_number[n] + 1
NextNumber_Always(n, txns) == send_number[n] + N

NextNumber(n, txns) == IF txns = <<>> THEN send_number[n] ELSE send_number[n] + N

(* ... and the queue until it has something.  A batch with transactions is *)
(* sent to every node, also to those that take no part in any of them; an  *)
(* empty one is dropped and leaves the number to the next.                 *)
SendBatch(n) ==
  LET txns == Head(batch_queue[n]) IN
  /\ reader[n] = "poll" /\ batch_queue[n] # <<>>
  /\ batch_queue' = [batch_queue EXCEPT ![n] = Tail(@)]
  /\ reader' = [reader EXCEPT ![n] = "top"]
  /\ \/ /\ txns # <<>>
        /\ channel' = [channel EXCEPT ![n] = [m \in Node |->
             Append(channel[n][m], [number |-> send_number[n], txns |-> Part(txns, m)])]]
        /\ sent' = [sent EXCEPT ![n] = Append(@, txns)]
     \/ /\ txns = <<>>
        /\ UNCHANGED <<channel, sent>>
  /\ send_number' = [send_number EXCEPT ![n] = NextNumber(n, txns)]
  /\ UNCHANGED <<writerVars, schedVars, total_active_txns, deconstructor_invoked>>

Reader(n) == PollQueue(n) \/ SendBatch(n) \/ StopReader(n)

-----------------------------------------------------------------------------
(* GetBatch in the scheduler of m: messages of one sequencer come in the   *)
(* order sent, and the one whose turn it is is found wherever it is.       *)
TakeBatch(m) ==
  /\ \E n \in Node : \E i \in DOMAIN channel[n][m] :
       /\ channel[n][m][i].number = turn[m]
       /\ schedule' = [schedule EXCEPT ![m] = @ \o channel[n][m][i].txns]
       /\ channel' = [channel EXCEPT ![n][m] = RemoveAt(@, i)]
  /\ turn' = [turn EXCEPT ![m] = @ + 1]
  /\ UNCHANGED <<finished, writerVars, reader, send_number, sent, total_active_txns,
                 batch_queue, deconstructor_invoked>>

(* A transaction is done at node m, which need not be where it came from.  *)
Finish(m) ==
  /\ finished[m] < Len(schedule[m])
  /\ finished' = [finished EXCEPT ![m] = @ + 1]
  /\ total_active_txns' = [total_active_txns EXCEPT ![m] = @ - 1]
  /\ UNCHANGED <<turn, schedule, writerVars, readerVars, batch_queue, deconstructor_invoked>>

(* Sequencer::~Sequencer() sets the flag and joins the two threads.        *)
Destroy(n) ==
  /\ n \in Stoppable /\ ~ deconstructor_invoked[n]
  /\ deconstructor_invoked' = [deconstructor_invoked EXCEPT ![n] = TRUE]
  /\ UNCHANGED <<writerVars, readerVars, schedVars, total_active_txns, batch_queue>>

Next ==
  \E n \in Node : Writer(n) \/ Reader(n) \/ TakeBatch(n) \/ Finish(n) \/ Destroy(n)

Spec == Init /\ [][Next]_vars

(* Threads run, epochs end, messages arrive and transactions finish; that  *)
(* an epoch collects anything is not assumed.                              *)
Fairness ==
  \A n \in Node :
    /\ WF_vars(SendSync(n)) /\ WF_vars(ReceiveSync(n)) /\ WF_vars(StartSequencer(n))
    /\ WF_vars(BeginEpoch(n)) /\ WF_vars(EndEpoch(n)) /\ WF_vars(StopWriter(n))
    /\ WF_vars(Reader(n)) /\ WF_vars(TakeBatch(n)) /\ WF_vars(Finish(n))

FairSpec == Spec /\ Fairness

-----------------------------------------------------------------------------
Txns == [id : Nat, nodes : Placements]

TypeOK ==
  /\ writer \in [Node -> {"start", "sync", "check", "epoch", "stopped"}]
  /\ reader \in [Node -> {"top", "poll", "stopped"}]
  /\ sync_messages \in [Node -> Nat] /\ synchronization_counter \in [Node -> 1..N]
  /\ batch_number \in [Node -> Nat] /\ send_number \in [Node -> Nat]
  /\ batch \in [Node -> Seq(Txns)] /\ batch_queue \in [Node -> Seq(Seq(Txns))]
  /\ sent \in [Node -> Seq(Seq(Txns))]
  /\ total_active_txns \in [Node -> Int]
  /\ channel \in [Node -> [Node -> Seq([number : Nat, txns : Seq(Txns)])]]
  /\ turn \in [Node -> Nat] /\ finished \in [Node -> Nat]
  /\ schedule \in [Node -> Seq(Txns)]
  /\ deconstructor_invoked \in [Node -> BOOLEAN]

(* No sequencer hands out work before every other one is up.               *)
StartTogether ==
  \A n \in Node : writer[n] \in {"check", "epoch"} =>
    \A m \in Node : writer[m] # "start"

(* The log: batch b is the (b \div N)-th one sent by node b % N, as far as *)
(* there is no gap.                                                        *)
BatchOf(b) == sent[b % N][(b \div N) + 1]
IsSent(b) == b \div N < Len(sent[b % N])
Numbers == UNION {{b * N + n : b \in 0..(EpochLimit[n] - 1)} : n \in Node}
Ordered == {b \in 0..(N * Len(sent[0])) : \A c \in 0..b : IsSent(c)}
Log == [i \in 1..Cardinality(Ordered) |-> BatchOf(i - 1)]

(* Refinement: every scheduler takes its share of one and the same         *)
(* sequence of batches, each once, none skipped, none before its turn,     *)
(* although every sequencer numbers its batches on its own.                *)
Total == INSTANCE TotalOrder WITH Share <- Part, log <- Log, taken <- turn
TotalOrderSpec == Total!Spec

(* Everything a sequencer has collected and not lost, batch by batch.      *)
Done(n) == sent[n] \o batch_queue[n]
Collected(n) == IF writer[n] = "epoch" THEN Append(Done(n), batch[n]) ELSE Done(n)

(* txn.proto:13: ids are globally unique, over nodes and epochs.  (They do *)
(* not specify the global order as that line says: see Execution.)         *)
UniqueIds ==
  \A m, n \in Node :
    \A i \in DOMAIN Collected(m), j \in DOMAIN Collected(n) :
      \A k \in DOMAIN Collected(m)[i], l \in DOMAIN Collected(n)[j] :
        Collected(m)[i][k].id = Collected(n)[j][l].id => m = n /\ i = j /\ k = l

(* A batch is held up by missing predecessors only: once all batches up to *)
(* number b have been sent, every scheduler gets past all of them.         *)
BatchesTaken ==
  \A b \in Numbers : (b \in Ordered) ~> (\A m \in Node : turn[m] > b)

(* sequencer.h:59 and 103-104: the destructor halts the main loops.        *)
Halts ==
  \A n \in Node :
    deconstructor_invoked[n] ~> writer[n] = "stopped" /\ reader[n] = "stopped"
=============================================================================
