# A formal model of Calvin

Calvin executes transactions on a shared-nothing cluster by agreeing on their order first. A sequencer on each node
collects transactions into batches, the batches of all nodes form one agreed order, and every node's scheduler locks and
executes the transactions it takes part in in that order, without any further coordination (`README`, lines 11-15: "a
pre-determined serial ordering of transactions to which every node must guarantee equivalence").

This directory holds TLA+ modules of the parts that make this work (paths below are relative to `src/src/`), the
configurations with which TLC checks them, and proofs for TLAPS of what matters most about each of them: the lock manager, the
scheduler, the sequencers, Paxos, execution, connections, storage, the checkpointers and their files, and TPC-C.

## 1. Inventory

### The system's parts

| Part | State | Operations | Talks to |
|---|---|---|---|
| Sequencer (`sequencer/`) | writer's `batch_number`, `batch_queue_`, reader's `batch_number`, the throttle `total_active_txns_`, `deconstructor_invoked_` | writer thread: synchronise with the others, collect an epoch; reader thread: look up the nodes of each transaction, cut the batch up and send it | application (`NewTxn`), the schedulers of all nodes through the connection |
| Scheduler (`scheduler/scheduler.cc`) | batches set aside, current batch and offset, two counters, request and response queues, `active_txns` of each worker | main loop: release what came back, take the next batch, lock up to 100 transactions, hand out the ready ones; workers: run a transaction or wait for remote reads | lock manager, storage managers, checkpointer, connection |
| Lock manager (`scheduler/lock_manager.*`) | `lock_table_` (a queue of requests per hash bucket), `txn_waits_`, `ready_txns_` | `Lock`, `Release` (also as cancellation) | called by the scheduler's main loop only |
| Storage manager (`backend/transactional_storage_manager.*`) | the values read for one transaction (`objects_`) | constructor (read locally, send to the writers), `HandleReadResult`, `ReadyToExecute`, `Put`, `GetMutable` | storage, the storage managers of other nodes |
| Storage (`backend/storage.*`, `storage_iterator.*`) | a list of versions per key, `freeze_lock_`, `decorator_` | `Put`, `Get`, `Delete`, `PruneRow`, `Freeze`, iterators | checkpointer as decorator |
| Checkpointers (`checkpointing/`) | stable version or odd/even arrays, filters, two locks | `HandlePut`, `HandleGet`, `PrepareForCheckpoint`, `CaptureCheckpoint`, recovery, collapsing | storage, scheduler, files |
| Connection (`connection/connection.*`) | `inproc_out_`, `undelivered_messages_`, the two pointers of the `NewConnection` handshake | `NewConnection`, `Send`, `GetMessage`, `LinkChannel`, `UnlinkChannel`, the multiplexer's loop | every thread, ZeroMQ |
| Paxos (`paxos/`) | a table of batches read and the number asked for in each of `CONCURRENT_GETS` slots, `next_read_batch_index_`; the batches themselves are znodes at ZooKeeper | constructor, `SubmitBatch`, `GetNextBatch`, two completions, destructor | ZooKeeper; the sequencer uses it with `PAXOS` only, which `sequencer.h:29` has commented out |
| Stored procedures (`stored_procedures/`) | none of their own, but the item list | TPC-C and a microbenchmark: make transactions with their read and write sets, execute them, load the data | storage manager |
| Query processor (`query_processor/`) | catalog | a SQL front end in the making | storage; not connected to the scheduler |
| The rest (`common/`, `deploy/`, `process_mgr/`, `bin/`, `include/`, `tools/`, `proto/`) | configuration | atomic containers, start and stop, clients, message formats | |

`ext/` is vendored.

### What is hard

* **Interleaving.** Workers, main loop, two sequencer threads, multiplexer, capturing thread. A remote read may come
  before its transaction has reached a worker; a put prunes versions that another transaction, or the capture, still reads.
* **Ordering.** Batches of different sequencers arrive in any order. Empty batches are dropped by the reader but
  counted by the writer, so transaction ids and the agreed order come from different counters.
* **Counters that repeat state.** `txn_waits_` repeats the lock queues, `pending_txns` and `executing_txns` what is
  in flight, `total_active_txns_` what a node has under way.
* **Waiting in circles.** Nodes wait for each other's reads while their throttles are full.
* **Sharing.** `GetMutable` puts the same buffer under several versions; two keys of TPC-C lead to one record.
* **Crashes.** Files are removed before what replaces them is closed; a batch in ZooKeeper vanishes with its sender's session.
* **Shutdown.** Flags that a loop looks at in one place only.

### What makes each part correct

| Part | Correct when |
|---|---|
| Lock manager | counters agree with queues, nobody is woken early, late, or twice, holders never conflict, grants follow the order of the calls, nobody starves |
| Scheduler | conflicting transactions run in batch order, none is lost or doubled between the threads, the throttle counts right |
| Sequencer | all start together, ids are unique, every scheduler takes its share of one log, destruction ends |
| Execution | every value read is the one of the serial execution, all nodes finish |
| Storage | `Get` finds the newest older version, pruning keeps what it promises, scans are exact |
| Checkpointers | a checkpoint is the data as of one point (when is section 4), nothing still needed is pruned |
| Connection | every message reaches its reader, once, in order, also when it overtakes the link request |
| Paxos | all readers return the same batches in the same places, none skipped |
| TPC-C | no update is lost between transactions that share records, the books balance |
| Checkpoint files | collapsing changes nothing, recovery finds every key as of the last checkpoint |

PROJECT.json lists the hazards of the code line by line, with the properties that cover them or the reason there is none.

## 2. The modules

    DeterministicLocking <~~ TPCC <-- TPCCProofs
            ^                              Execution <-- ExecutionProofs
            H                              Rows <-- Storage <-- StorageProofs
       LockManager                         Connection <-- ConnectionProofs
            ^                              Rows <-- Checkpointing <-- CheckpointProofs
            |                                     CheckpointFiles <-- CheckpointProofs
        Scheduler <-- SchedulerProofs      TotalOrder <== Sequencer <-- TotalOrderProofs
                                           TotalOrder <== Paxos     <-- TotalOrderProofs

Plain arrows are EXTENDS, `<==` and `H` refinement, `<~~` an instance used as a part; each `MC...` module holds the constants of an instance.
Definitions ending in `_Something`, each just before the definition it varies, are deliberate mistakes: a property that
still held with one of them in place would say nothing. **SchedulerProofs** has the
theorems about LockManager and DeterministicLocking too, **CheckpointProofs** those about both checkpoint modules, and **TotalOrderProofs** those about Sequencer and Paxos. **BasicLemmas**, which most
proof modules extend, has what they need about numbers, sequences and rows: division with remainder, least and greatest elements, taking elements out of a
sequence and putting them in, what `Get`, `Inserted` and `Pruned` return.

**LockManager** is `lock_manager.cc` line by line as far as state goes. `Lock` files one request per bucket, in the
stronger mode if keys collide; `ReleaseLocks` is `Release` with its three cases (first request gone, first writer
gone, writer cancelled among readers) in `NewOwners`. `phase` is the caller's half: lock once, execute when ready, release.
`PopReady` is the scheduler's popping of `ready_txns_`. Write sets are not locked, as in the code (that part is commented out there).

**DeterministicLocking** is what it promises, without queues or counters: a submitted transaction is blocked by the
unfinished conflicting ones submitted before it and is ready as soon as there are none. Under the refinement mapping `blockers` is
read off the queues and `status` off `phase` and `ready_txns`.

**Scheduler** composes the lock manager with the main loop (one action per branch of `Run`, with `pc` for where
the loop is), `GetBatch` with the batches set aside, and the worker threads. `requests` is the one queue they share;
each has its transactions that wait for reads (`active`), the one it executes (`executes`), and its own socket back
(`responses`). Taking a request, executing and sending back are steps of their own, and the loop receives from any
worker's socket, so local transactions overtake each other on both ways. The rest of the cluster appears as batches delivered and remote reads arriving.

**Sequencer** has the writer and the reader thread of every node and just as much of the schedulers as the order
depends on. **TotalOrder** is the abstract log; `Share` says what a batch has for a
node. `Sequencer` implements it with the log read off what the readers have sent.

**Execution** is a cluster from locking to writing: each node locks in the agreed order (a transaction is granted when its
conflicting predecessors are done, which is what LockManager implements), reads, sends reads, waits and executes.
Storage keeps versions that point to buffers, so that `Put` (a new buffer) and `GetMutable` (the same one again) differ.
`SerialStore` is the same store after the transactions of the agreed order were executed one at a time, with the same ids: what the cluster is compared with.

**Rows** has what `Put`, `Get` and `PruneRow` do to the list of versions of one key. **Storage** is the store over several
keys with one iterator. **Checkpointing** is the store of one node while transactions put and checkpoints are
prepared and captured, with `kind` choosing the checkpointer: naive, multiversion, Hobbes without and with a
filter, PingPong. A put is interrupted wherever it looks at shared state without a lock: Hobbes's `HandlePut` reads `stable_` for the test, again for the
minimum (`ReadMinimum`), prunes (`PrunePut`), tests it up to three more times to choose a filter (`Mark`), and only then is the version inserted (`Insert`); what `GetMutable`'s
caller does to the buffer comes after that (`Change`, for the transactions in `InPlace`), and buffers have contents of their own. A capture is one step per key. The main thread may prepare
a checkpoint at any transaction it locks, whether or not the last was captured, and starts a capture with the first transaction that finishes more than `Lead` ids past it, whoever is
still running; threads that wait for `checkpoint_lock_` are counted, Hobbes's by the file they have opened. `clean` and `sound` are history variables: `clean`, this capture began as
captures are meant to (`Clean`: the version is still its file's and all before it have finished; PingPong's arrays were flipped once since the last); `sound`, all so far did and none had its file cut off.

**Connection** is the multiplexer's loop and its clients. `pipe` holds what a sender has sent and the loop has not received.
`linked_channels_` and the rule for unlinking follow the worker thread's use of it (`scheduler.cc:144-190`).

**Paxos** has one action per function of the object, and ZooKeeper's part as actions of its own (`CreateZnode`, the end of a session). An answer and its completion are one step;
nobody else writes the slot's table in between. `GetNextBatch` reads `size()` outside the mutex; the map only grows under its reader's feet, so the step is
the same. A failed create or get is `FailCreate` and `FailGet`; a session ends with `Close` or `Expire` and takes its znodes with it.
The readers implement **TotalOrder**, the same abstract log as the sequencers without Paxos do (`ReadersShareLog`): each of them is a node that takes whole batches.

**TPCC** says what `NewTxn` puts into the sets of a transaction and what `Execute` makes of the records, as a list of assignments, each a load and a store, and lets
the transactions run side by side as DeterministicLocking (the abstract lock manager, instantiated) allows. `Record` maps the
keys that end in `y` to the record they share. Rows are the records an order or a payment adds.

**CheckpointFiles** is the checkpoint directory: partial files kept by key, the capturing thread, the collapser, a crash that keeps any part of the open files, and
recovery of all files from the oldest on, which is how `hobbes_test.cc:197-214` does it. It is about the hash-map PingPong, whose files are numbered by `time(NULL)`. Hobbes with a filter
writes the same files, but numbers them by `stable_`, a transaction id, and ids begin again after a restart: the assumption behind `Number` does not fit it.
`cut` is a history variable that is true from the moment when a collapse ends early with files removed until a whole checkpoint is finished; the properties are about
the rest of the time, and `RecoversAlways` (section 4) about that.

### Abstractions

* Strings, messages, values are numbers or model values; a value is the transaction that wrote it.
* Time is left open: an epoch may end at any moment, a checkpoint fall due at any transaction.
* Each operation of `AtomicQueue`, `AtomicMap` and of the lock manager (called by one thread) is a step.
* ZeroMQ delivers between two endpoints in order and loses nothing. High-water marks and broken peers are left out.
* ZooKeeper numbers znodes consecutively, in the order of each client's requests, and answers by what is there.
* TPC-C: one warehouse's transactions at one node (`multipartition` false). Floating point sums are integers. Item prices, names and order lines are left out, no property is about them.
* Files: a capture takes its snapshot in one step (how is the matter of Checkpointing); reading a file and removing it is one step of the collapser.
* Checkpointing takes a transaction's id for its place in the agreed order, as it is with one sequencer that has no empty epochs (what else ids do to storage is the matter of Execution).
  `Window` is the throttle without the grab of up to 100 on top. The files of one checkpointer are told apart by their version (Hobbes, multiversion) or by the number of flips before them (PingPong), and `recovered` is what the last one read over the earlier ones gives.
  `PrepareForCheckpoint` and the `Lock` that follows it are one step of the main thread.

### Assumptions

* Sequencer ids are whatever they are; Execution takes them as a constant `Id`, of which it assumes only that no two are the same (`UniqueIds`). Both runs of it have ids that do not follow the order, as the sequencers give them.
* `lock_manager.h:50-51`: read and read-write sets are disjoint (in `ExecutionAssumption`); pure write sets are not locked, and not modelled.
* TPC-C: an order has an unused item only as its last line (`tpcc.cc:169-170`), quantities are 1 to 10; `order_status`, `delivery` and `stock_level` do nothing (`tpcc.cc:351-371`).
* Two captures are not in the same second (`Number`). Recovery is into an empty storage: nothing but tests calls `InitializeStorage` after it.

## 3. The runs

| Run | Question | Instance |
|---|---|---|
| `lock_manager` | Do queues, counters and grants agree, and implement DeterministicLocking? | 5 transactions, 3 local keys in 2 buckets (two collide), one remote key; any order of calls, including cancellation |
| `scheduler` | Does one node execute in batch order, lose nothing and finish? | 7 transactions in 5 batches (one empty) of 3 sequencers, 2 workers, throttle 3, grab 2 |
| `sequencer` | Do independently numbered batches form one log? | 2 nodes, 2 and 1 epochs, batches of up to 2, a throttle of 1, node 1 may be destroyed at any time |
| `execution` | Do all nodes read what the serial execution reads, and finish? | 3 nodes, 4 keys, 8 transactions, capacity 2; three of them write in place, two have ids out of order |
| `execution_ids` | (violation) Does a transaction read what the last writer before it wrote? | the same, two that write in place, capacity 3 |
| `storage` | Does `Get` find the right version and a scan every key, after any puts, deletes, prunes, and `Seek` its target? | 3 keys, loaded or not, versions 1 and 2, iterator at two versions, moved and sought from everywhere |
| `checkpointing` | Is a checkpoint the data as of one point, and is nothing still needed pruned? | 8 transactions over 2 keys, two of them in place, up to 2 preparations at any time, all five kinds |
| `checkpointing_filter` | (violation) Does the filter catch every change between checkpoints? | Hobbes with a filter |
| `paxos` | Do all readers return one order, and everything in it that is there? | 2 objects that submit and read, 3 batches, 2 gets at a time, 1 error or expiry; each constructed and closed at any time |
| `tpcc` | Do transactions that share records without sharing keys lose no update? | 2 new orders (one fails on its last line), 2 payments, an order status; 1 warehouse, 2 districts |
| `checkpoint_files` | Does collapsing change nothing, and does recovery find the last checkpoint? | 2 keys, 3 puts, 5 captures, 2 crashes |
| `connection` | Does every message reach its reader, in order, whatever overtakes what? | 3 connections, each asked for up to twice, one channel linked and unlinked, 4 messages of 2 senders |

### Bounds, and why they are enough

* Lock queues: the cases of `Release` look at the released request, the one behind it and the run of readers that follows, and at
  what precedes it. Five transactions give queues of five with writers first, in the middle and last, two-request runs of
  readers, and one transaction that waits in two buckets. The proofs below remove the bound altogether.
* Scheduler: the throttle (2000, grabs of 100) is 3 and 2, so it is hit, overshot, and full of transactions that wait for each
  other. Three sequencers suffice for a batch to overtake two others; batch 1 is empty for the node.
  Two workers suffice for transactions to overtake each other; the proofs have any number.
* Sequencer: `MAX_BATCH_SIZE` 2 and `MAX_ACTIVE_TXNS` 1 are reached. `EpochLimit` bounds the epochs. Two epochs of
  a node suffice for an empty one before a full one, which makes the two counters part.
* Execution: 8 transactions make a circle of three nodes that read for each other with capacity 2, smaller than the circle.
* Storage: a row has up to three versions (loaded, 1, 2); pruning distinguishes first, last and only.
* Checkpointing: `Lead` 1 for 1000, `Window` 2 for 2000, `Rounds` 2 preparations, the second of which comes before,
  between or after the first one's capture. 8 transactions are as many as both captures need to be triggered; one key at a time and both, in order and apart.
* Connection: `Asks` 2 makes a name be in use once; two messages to the linked channel from one sender are the least that can be reordered.

* Paxos: two slots make answers overtake each other and leave a slot with two batches waiting; three batches make a slot go round. Two objects suffice for a reader to lag behind
  a writer that goes away, and for one constructed when the other is gone. Safety is proved without bounds.
* TPC-C: pairs of transactions that share a district's record (1 and 3), a stock (1 and 2), a customer (4, 2 and 5) and a warehouse (3 and 4). A stock of 19 refills
  at the first line of 10 and does not at the first of 5.
* Files: five captures give a collapse of a collapsed file while another capture is open; two crashes give one during a capture and one during a collapse, or one after a recovery.

Deadlock is not checked where the model ends (all transactions done, all epochs over); it is checked in `scheduler`, whose
loop goes on for ever.

### Fairness

Only weak fairness, of threads that never block. Main loops, readers and multiplexer spin; ZeroMQ delivers; an epoch ends because it
is timed. That an epoch collects anything is *not* assumed, hence `BatchesTaken` speaks of batches that have
been sent by all. `LockFairness` assumes that a worker returns every transaction, which `Scheduler`'s `AllDone` then shows. Cancelling is never forced. In Paxos, ZooKeeper creates and answers, its client's thread completes and readers poll (`GetNextBatchBlocking` spins); submitting, closing and failing are never forced. A caller of `NewConnection` that gets NULL asks again, up to `Asks` times.

## 4. What disagrees with the source's own statements

Shown by runs:

1. `storage.cc:215` selects versions by `txn_id`, and ids do not follow the agreed order once an epoch was empty:
   a transaction misses a write before it. Writing through `GetMutable` hides it. Run `execution_ids`.
2. `hobbes.cc:158`: the filter is cleared outside its lock, after `stable_` was reset; a key put meanwhile is missing
   from the next partial checkpoint. Run `checkpointing_filter`.

Stated here and refuted by TLC as well, but not among the runs (`tlc -config X.cfg M`):

3. `scheduler.cc:302` computes `rand() % writers_size()`: a transaction without writers (TPC-C's stock level is
   one) ends the process. `KeepsRunning`, with `SchedulerReadOnly.cfg` and MCScheduler.
4. `sequencer.cc:175`: the reader polls an empty queue without looking at the flag; the destructor never returns. `Halts`, with `SequencerShutdown.cfg` and MCSequencer.
5. `checkpointer.h:49-56`: a checkpoint is captured "at" a transaction id. It need not be, for three reasons, each with a configuration of MCCheckpointing that refutes `StableSnapshot`:
   a record changed in place changes in its stable version too (`transactional_storage_manager.h:106`; `CheckpointInPlace.cfg`);
   a second preparation replaces `stable_`, or resets it, before the first is captured (`scheduler.cc:331-337`; `CheckpointPrepared.cfg`);
   and the capture starts with the first transaction 1000 ids on, while an earlier one has yet to put (`scheduler.cc:296`; the throttle counts transactions in flight, not ids; `CheckpointLate.cfg`).
   What does hold without any assumption is `CleanSnapshot`, and for the other two checkpointers `FrozenSnapshot`: both leave out the keys changed in place since, and the captures that did not begin as meant.
6. `paxos.cc:101` makes ephemeral znodes: a batch that was agreed on and whose sender has gone appears to the readers that were fast enough only (`paxos.h:39-41` says to all).
   The others wait for its number for ever, and so does any object constructed later, as it begins with number 0. `AppearsToAll`, with `PaxosSessions.cfg` and MCPaxos.
7. `new_order.cc:61-66`: an order that fails has already taken its order id and changed stocks, and nothing is undone ("This follows the TPC-C standard", `new_order.cc:14-15`,
   which rolls it back). `FailuresUndone` in place of the invariants of `TPCC.cfg`.
8. `checkpointer.h:214`: the collapser removes the files it has merged before it closes the file that has their records; a crash in between loses them.
   `RecoversAlways` in place of the invariants of `CheckpointFiles.cfg`.
9. `ping_pong.cc:76`, "Use this as a point of consistency": the arrays are flipped between two puts of a running transaction, one of which is in the checkpoint. `PointOfConsistency`, with `CheckpointFlip.cfg` and MCCheckpointing.
10. `hobbes.cc:51-57`, "Ensure you get the lock for thread safety": `stable_` is not under `filter_lock_`, and when it is reset and prepared anew between the tests, neither is true and the put writes through a null pointer.
    `FilterFound`, with `CheckpointMark.cfg` and MCCheckpointing.
11. `storage_iterator.cc:68-72`: `Seek` on an iterator before the first or past the last key leaves its flag set, and the iterator is not valid although the target exists; `iterator.h:50-53` has no such restriction
    (`REQUIRES: Valid()` stands at `Next` and `Prev` only). `SeekFindsTarget`, with `StorageSeek.cfg` and MCStorage.
12. `storage.h:145-146`, "If false, only exact match will be pruned": without `multiple`, `PruneRow` prunes the newest version at or below the given one, whichever it is (`storage.cc:117-139`), the row's newest included.
    `PruneExact`, with `StoragePrune.cfg` and MCStorage. Only `storage_test.cc:77` and `:82` pass false.

Met while modelling, and outside the models: `files.erase(files.end())` (`checkpointer.h:156`) is undefined, and takes the last entry off with libstdc++;
`TPCC::KeyToInt` (`tpcc.cc:22-85`) gives different keys the same number, although `application.h:79-84` wants it unique; `AtomicMap::Set` writes under a read lock, and `InsertOrSet` is not atomic (`atomic.h:182-207`);
the order lines announced in a new order's write set are never put, and `stock->order_count` counts down; with `PAXOS` each node's reader would submit what every reader reads.

## 5. What is proved

Every theorem is about all values of the constants that the module's assumption (`LockManagerAssumption` and so on) allows; no bound of section 3 is left.

| Module | Theorem | Says |
|---|---|---|
| `SchedulerProofs`: LockManager | `TypeCorrect` | types, in particular no wait counter ever goes below zero |
| | `QueuesKeepShape` | `QueueShape`: the queues hold the requests of the transactions in between, one per bucket |
| | `NoLostWakeup` | `WaitsExact`: a counter is the number of requests held back |
| | `HandedOutOnce`, `LocksIsolate` | `ReadyOnce`, `MutualExclusion` |
| | `LocksNeverDeadlock` | as long as somebody is between `Lock` and `Release`, somebody has all its locks |
| | `ImplementsDeterministicLocking` | the lock manager implements DeterministicLocking |
| DeterministicLocking | `AbstractIsolation` | what is implemented there keeps conflicting transactions apart |
| Scheduler | `DrivesLockManager` | the scheduler's steps are steps of the lock manager, or leave it alone |
| | `SchedulerTypeCorrect` | types, in particular no counter of transactions goes below zero |
| | `ThrottleHolds`, `CustodyHolds`, `SerialOrderHolds` | `Throttled`, `Custody`, `SerialOrder` |
| | `SchedulerNeverStuck` | until all is done, the loop or a worker has a step to take, or the very batch whose turn it is has not come; no batch that came is lost |
| `ExecutionProofs` | `ReadsAreSerial` | `SerialExecution`: every value read, on every node, and every key in the end, is as the agreed order leaves it when executed one at a time, whatever the ids |
| | `LastWriteIsRead` | `OrderedReads`: that is what the last writer before wrote, for the keys whose writers and reader have ids in order |
| | `NeverStuck` | the first unfinished transaction can go on at some node |
| | `NoStepTwice` | a step brings a transaction further at one node and none back, or uses up a message |
| `TotalOrderProofs`: Sequencer | `SequencersStartTogether`, `IdsUnique` | `StartTogether`, `UniqueIds` |
| | `SequencersImplementTotalOrder` | the sequencers implement TotalOrder |
| | `SequencersNeverStuck` | who waits for a batch that was sent, or at the start for the others, has the message |
| Paxos | `PaxosTypeCorrect` | types, in particular `GetNextBatch` never returns the empty string that `operator[]` would make |
| | `SlotsCorrect` | `SlotsExact`: a slot holds what it has read and not handed out, no more and no less |
| | `ReadersGetPrefixes`, `ReadersAgree` | what a reader has returned is a prefix of the order, so two readers agree on every place both have reached |
| | `ReadersImplementTotalOrder` | the readers implement TotalOrder |
| | `ReadersNeverStuck` | the number a reader needs next has been read or is being asked for |
| `ConnectionProofs` | `HandshakeCorrect`, `NobodyWaitsForKept` | `Handshake`, `NothingStranded` |
| | `MessagesInOrder` | `InOrder`: what a sender sent to a channel arrives complete, in order, at its owner only |
| | `RequestsAreHeard` | no request to link or unlink is dropped, and a linked channel is forwarded or about to be |
| | `NoMessageOrphaned` | whoever gives a channel up has got all there ever is for it |
| `StorageProofs` | `RowsOrdered` | rows stay in descending order of versions |
| | `ReadsFindNewestOlder`, `PruningKeepsPromise` | `GetFindsNewestOlder`, `PruneKeepsPromise` |
| | `ScansAreExact`, `SeeksFindTarget` | `ScanIsExact`, `SeekFromValid` |
| `CheckpointProofs`: Checkpointing | `AtMostOneUnstable`, `ReadsAreKept` | `OneUnstable`, `ReadsKept`, for all checkpointers and both styles of writing |
| | `VersionIsSnapshot` | `CleanSnapshot` |
| | `FrozenIsSaved` | `FrozenSnapshot` |
| CheckpointFiles | `CollapseKeepsCheckpoint`, `RestoresRecent` | `FilesHoldSaved`, `RecoversRecent` |
| `TPCCProofs` | `NoUpdateLost` | nobody changes a field between another's load of it and its store |
| | `StockNeverRunsOut`, `RowsAreExact` | `StockHeld`, `RowsExact` |
| | `BooksAlwaysBalance` | `BooksBalance`: between transactions warehouses, districts and customers agree on what was paid, and order ids on the orders |
| | `ExecutionIsSerial` | `RecordsSerial`: the records are those of the transactions run one by one in the agreed order |

**LockManager.** The inductive invariant is `LockInv`, that is `LockTypeOK`, `QueueShape`, `ReadyOnce` and `WaitsExact` together, each checked by TLC in the run
`lock_manager`. None is inductive alone. `WaitsExact` needs `QueueShape` (a transaction has one request per bucket, so a grant
is one unit of its counter) and `ReadyOnce` (who is ready waits for nothing); `ReadyOnce` needs
`WaitsExact` (a counter of zero means nobody wakes it again).
The key lemma is `GrantsExact`: for every queue and every position released, the positions that the three cases of the code grant are
exactly those that were held back by the header's rule and no longer are. `RemoveAtProperties` and `AppendHeldBack` say the same
of the queue operations, `ReleaseQueues` puts the buckets together, and one lemma per action (`LockPreserves`,
`PopReadyPreserves`, `ReleasePreserves`) carries `LockInv` over. Mutual exclusion follows from it: of two conflicting transactions in a bucket the later is held back.
The refinement has one lemma per action too; `WaitingMeansBlocked` links counters to `blockers`.
That nobody deadlocks is `FirstToServe`: locking takes no time, so there is a first among the transactions that have locked and not released, in the order of their calls. None of its requests
is held back, hence by `WaitsExact` its counter is zero and it is ready or executing.

**Scheduler.** `BaseInv` is `LockInv`, the types, `Counted` (each of the two counters is the number of transactions in its phase) and `HasBatch`. It rests on
`DrivesLockManager`'s step, so that what is proved of the lock manager need not be proved again. On it stand three invariants: `Limited` (while the loop locks, what is beyond
the limit was locked in this turn) gives `Throttled`; `Cursor` (a transaction is new exactly if it lies beyond the loop's place in the order) and `QueuesOrdered` (requests of a bucket
are in the agreed order) give `SerialOrder`, with mutual exclusion; `Hands` (a transaction in execution is among the requests or with one worker, and there in one of three places, once) is `Custody` without cardinalities.
`SchedulerNeverStuck` needs `MailInv` besides: `ready_txns_` is empty when the loop is at its top (`TurnsEnd`), and a batch that has come is behind the loop, in its hands, set aside or in the inbox (`BatchesKept`).
At the limit, something is in flight, and by `LocksNeverDeadlock` and `Hands` some of that is with a worker that can run it or still has reads coming (`ReadsComing`).

**Execution.** `ExecutionInv` is about three things. What the locks give: `LockOrder` (a node locks in the agreed order) and `RunOrder` (when a transaction is
active, the earlier ones that conflict with it are done). What is stored: `StoredSerially`, each key is what the serial execution has made of it up to the last transaction that has written it here, rows
and buffers alike. What is under way: `ReadsSerial`, of the values at the nodes and in messages, and `DoneIsComplete`. The step from stored to read is `StoredForNext`: of the transactions before `t` that write a key all are done
and of those after it none, so the store at that key is the serial one before `t`, and the same lookup finds the same value, whatever the ids (`SameWithoutWriters` skips those who do not write the key).
That the serial execution is a function at all (`SerialStore` is recursive) is `PrefixExists`, from a least counterexample. `OrderedReads` is then about that execution alone: `OrderedKey` says what a key looks like after a
prefix in which the ids of its writers increase.
`NeverStuck` rests on `FlowInv` and does not need the ids. Whatever a node still waits for, its owner has sent or has yet to lock (`NothingLost`, `WaitsForMore`). Of the first unfinished transaction all predecessors are done everywhere, so its
locks are free; and a node that has not taken it on has nothing else in flight, since it locks in the agreed order (`LockOrder`). So it waits for values only of nodes where it can itself go on, or whose message is there. `Rank` numbers the three
steps a node takes with a transaction, and `NoStepTwice` says that no step takes one back.

**Sequencer.** Nobody counts to `N` early because of `Heard`: what a node has counted and what waits for it are together one more than the others that are up. Ids are unique because
`IdInv` places them: the batches of node `n` come from epochs that are `n` modulo `N` and in their order, and the ids of an epoch lie in an interval of their own.
For the log, `LogInv` says that a message carries the number `N*k + n` of the `k`-th batch its sequencer sent, with its receiver's share, and that no scheduler is past a number that has not been sent.
The log that is read off the sequencers (the batches below the least number not sent, `Ordered`) then only grows, and a scheduler that finds the message with its number has found its share of
that place of the log. What `Part` makes of a batch is the same on both sides and never looked into.
`SequencersNeverStuck` needs `MessageInv`, that a message sent stays in its channel until the turn of its number has come (`Undelivered`); the start is `Heard` once more.

**Paxos.** The inductive invariant is `PaxosInv`: types, `SlotsExact`, the type of the tables, `NotOvertaken` (no slot asks for a number that was handed out already)
and `ReadsPrefix`. `SlotsExact` is what the unguarded `size() > 0` of `GetNextBatch` rests on: a slot that holds anything holds the number it is asked for. Its proof is about
remainders (`DivisionUnique`, `SameSlot`, `OtherSlots`, `TurnGrows`), then there is one lemma per action. Both refinements of TotalOrder follow step by step: making a znode
orders a batch, `GetNextBatch` takes it (`NextIsThere`), everything else is a stutter. `ReadersNeverStuck` follows from `PaxosInv` alone: `SlotsExact` has in a slot every number below the one it asks for that is not handed out.

**Connection.** `ConnectionInv` adds to the two properties, which are not inductive, that a posted name is the name of the caller inside `NewConnection` (`Posted`) and that requests to link and unlink come from the owner of the
channel (`Requests`): the first keeps the handshake's answer from going to another caller, the second a link from taking a channel that a connection has.
For the order of messages, `OrderInv` adds `Sequel`: on the way of a sender to a channel (received, in the inbox, kept back, in the pipe) the numbers ascend within each place and from each to the next,
and together are all that were sent; and a sender's messages to a channel are nowhere else. The lemmas about `Numbers` say what moving a message from one place to the next does to this.
The requests have `LinkInv`: those about one channel that are still in its worker's pipe alternate (`InTurns`), the first fits what the multiplexer knows, the last what the worker has linked (`Fits`). So none meets a
multiplexer that would ignore it, and `connection.cc:209` ("Check validity of unlink requests?") needs no check. `ServedInv` has three cases for a channel: linked by its worker, complete there, or untouched, which means
neither known nor asked for and with nothing passed on. That a worker's *count* of what came (`scheduler.cc:165-186`) means all of it is `AsManyIsAll`: the messages got map one to one into those meant for the channel, and an injection between
finite sets of the same size is onto. This is what `ConnectionAssumption` has `IsFiniteSet(Sender)` for. With `Sequel` nothing is on its way then. The answer to `connection.cc:212` ("Should we also be emptying unlinked
channels [...]? Probably.") is therefore no, while a channel is a transaction's id and linked once.

**Storage.** `RowsInv`, the order of the rows, is inductive: `InsertedKeepsOrder` and `PrunedKeepsOrder`, the latter by `PrunedIsStretch` (pruning takes out one stretch of
neighbours, all above the minimum). For the iterator, `IterInv` adds `NothingFurther` to `ScanIsExact`: once a scan has met the end, no visible key lies beyond its own.
The first and last keys are minima and maxima of sets, which exist by `LeastExists` and `GreatestExists` in BasicLemmas.

**Checkpointing.** `KeptInv` is what is true whatever the checkpointer: `TxnOrder` (what has been put, or is being put, is behind no unfinished transaction that writes some of the same),
`PutSteps` and `MinimumKept` (where a put is, with which buffer, and which minimum it has read), `RowEntries`, `RowContents` and `BufferContents` (a buffer holds what its version's transaction made, or what a later one wrote into it
in place), `Phases` (where the capturing thread can be), and what the rows keep. `NewestKept` has the last value put, unless a put of the key has pruned and not yet inserted (`Busy`): the reason why a reader depends on the
locks. `StableKept` has the last value before `stable_`, for as long as a capture still wants the key; `stable_` changes only while no thread holds `checkpoint_lock_`, and prunings with an older minimum leave more. `OneAbove` is `OneUnstable`
with the put that is under way counted in. `AppValue` says what is in PingPong's APP_STATE. `ReadsKept` follows from `NewestKept` with `TxnOrder`.
For the checkpoints, `SnapshotInv` says of a capture that began clean that everything before its version has finished and stays so, and that each key in the file is as of the version or was changed in place by a later transaction.
`NaiveInv` (no row changes while it captures, though a buffer may) and `PingInv` (the array being updated has what was put since the flip, the other what was put between the last two) do the same for the other two, and `ChangeIsLater`
is what a change in place may do to either. None of them has a hypothesis on when checkpoints are prepared or captured, or on how transactions write. Hobbes with a filter has no theorem about its checkpoints: `FilterCatchesAll` is false.

**CheckpointFiles.** `FilesInv` has the order of the files (`Shape`; `Top`: the newest is not being merged), of a collapse (`Collapsing`: it takes the number of the newest file it merges, that one goes
first, and what is not merged is newer; `SameNumber`: until then the file of the same number has at least as much), what the dirty keys are (`Unsaved`), and `Covered`: each key saved has a file
that decides it, with its saved value, readable now, and no newer file with the key. `FilesHoldSaved` and `RecoversRecent` follow from the last two. Recovery's walk through all files is given by the newest
one that has a key, so no induction over the files is needed.

**TPC-C.** `TPCCInv` has the locks (`LockingInv`: of two conflicting transactions in progress one blocks the other, and a blocked one does not run), how far each transaction is
(`Places`), the types, and four statements about the data. They all rest on one observation, `Guard`: each field of each record has one key that everybody who changes the field
has in his read-write set. For most fields it is the record's own key, for what payments add to warehouse and district the key that ends in `y`; that the two keys share a record is harmless
because they share no field. So two running transactions never change the same field (`RunningApart`), and what one has loaded is still there when it stores
(`LoadsFresh`). `StocksExact` follows a line through its three assignments: between the first and the last of them (`Selling`) what has been counted as sold is not yet taken
out, and at most one transaction is there for a stock. `OrdersCounted` is the same for order ids, and `RowsInv` adds to `RowsExact` that every row is one that some transaction adds.
`NewOrderTxn` gives the assignments of an order by their index, which is what makes the proofs possible.
`BooksBalance` compares sums. Its invariant `BooksExact` says at every moment what it says between transactions: two sides of the books differ by what a payment in progress has entered on one of them and not on the other. The sums
are folds over sets of records, which the library defines by recursive functions; the proofs show that these exist and that changing one summand changes the sum by as much. The induction this takes is over `0..n`
and stated for *sets* (a set with 0 in it and, with each number, the next, has them all: `UpTo`), since the library's induction theorem has an operator as its parameter; it comes from well-foundedness instead.
`RecordsSerial` has a serial execution in it, again a fold. The proof keeps it as a trace (`SerialRun`: one state per transaction and per assignment) and shows that a store may be moved to its place in that trace: what comes after it
there was assigned by later transactions that do not conflict with it (`InOrder`), which by `Guard` change none of the fields it changes.

**Invariants and runs.** What a proof rests on and no run lists (`ExecutionInv`, `FlowInv`, `FirstToServe`, `NothingStranded`, `MailInv`, `MessageInv`, `PaxosInv`, `OrderInv`, `LinkInv`, `ServedInv`, `TPCCInv`, `BooksExact`, `InOrder`), and what the theorems about progress and
about requests say, was checked by TLC on the instance of the component's run first. `Replayed` could not be (its trace is bound by an unbounded quantifier); `RecordsSerial`, which the run checks, says the same with the fold.

**Only model-checked.** What remains is temporal. `NoStarvation`, `AllDone` (of Execution and of Scheduler), `BatchesTaken`, `BatchesRead` and `AllReceived` are liveness under fairness, which is out of TLAPS's reach, as is ENABLED. The theorems that end in `NeverStuck`,
`LocksNeverDeadlock`, `NoStepTwice` and `RequestsAreHeard` are their safety halves: there is always a step to take towards the end, and none back. What they leave open is that fair scheduling takes that step, and this is what the runs with fairness check.
Recursive library operators such as `FlattenSeq` and `SelectSeq` are out of reach too; no proof looks into one.

## 6. What is not modelled

* `ext/` is vendored (protobuf, bison, flex, googletest and others) and makes up nearly all lines of the repository; `install-ext` builds it. It is not part of the system.
* The files of the array PingPong, which copy what they lack from the last listed file; file formats and I/O errors.
* `~Connection`, `~ConnectionMultiplexer`, `~Scheduler`: nothing destroys them while their threads run, apart from the end of the process.
* TPC-C over several nodes (`Execution` has what is hard about it), the types that do nothing, REDO (its probability is 0.00); the microbenchmark, which adds one to each record it locks.
* Query processor, command line, process management, tools, LevelDB adapter: wiring, parsing and I/O, without state that several steps could get wrong.
* Atomic containers and mutexes are taken as atomic steps; overflow of ids (an `int` of 100 times the batch number) is far beyond the bounds.

## 7. Plan

Done, in this order: LockManager with DeterministicLocking and proofs, Scheduler, Sequencer with TotalOrder, Execution, Rows and
Storage, Checkpointing, Connection, Paxos with proofs, TPCC, CheckpointFiles; then the proofs about Connection, Sequencer, Scheduler and Storage;
then those about Execution, the order of messages, both refinements of TotalOrder, CheckpointFiles, Checkpointing and TPCC; last
the balance of TPC-C's books, its serial execution, and that nothing gets stuck: the safety halves of the liveness properties.

Next:

1. An abstract specification of a checkpoint that all checkpointers implement.
2. The array PingPong's files as a kind of CheckpointFiles.
