----------------------------- MODULE Scheduler -----------------------------
(***************************************************************************)
(* scheduler/scheduler.cc at one node: the main loop (Run, GetBatch), the  *)
(* lock manager it drives, and the worker threads that execute.            *)
(*                                                                         *)
(* Batches come from one sequencer per node: batch n from sequencer        *)
(* n % Sequencers.  Each sequencer's batches arrive in order, batches of   *)
(* different sequencers in any order.  The rest of the cluster is only     *)
(* seen as the remote reads that arrive for a transaction.                 *)
(***************************************************************************)
EXTENDS LockManager

CONSTANTS
  Batch,          \* the batches, numbered from 0: Batch[n + 1] is a sequence of Txn
  Sequencers,     \* number of sequencers
  HasWriters,     \* transactions that write at some node
  WritesHere,     \* transactions that write at this node
  RemoteReaders,  \* for each transaction, the other nodes that read for it
  MaxInFlight,    \* 2000: no more transactions are taken on from here
  GrabLimit,      \* 100: transactions locked in one turn of the loop
  NoBatch,        \* the NULL batch_message
  Thread,         \* the worker threads (NUM_THREADS of them)
  NoTxn           \* a worker that executes nothing

Numbers == 0..(Len(Batch) - 1)

ASSUME SchedulerAssumption ==
  /\ Batch \in Seq(Seq(Txn))
  /\ \A t \in Txn : \E n \in Numbers : t \in Range(Batch[n + 1])
  /\ \A m, n \in Numbers : \A i \in DOMAIN Batch[m + 1], j \in DOMAIN Batch[n + 1] :
       Batch[m + 1][i] = Batch[n + 1][j] => m = n /\ i = j
  /\ WritesHere \subseteq HasWriters /\ HasWriters \subseteq Txn
  /\ Sequencers \in Nat \ {0} /\ MaxInFlight \in Nat \ {0} /\ GrabLimit \in Nat \ {0}
  /\ NoBatch \notin Nat
  /\ IsFiniteSet(Thread) /\ Thread # {} /\ NoTxn \notin Txn

VARIABLES
  delivered,      \* batches that have reached the connection
  inbox,          \* batches waiting in batch_connection_
  batches,        \* batches received before their turn
  batch_message,  \* number of the current batch, or NoBatch
  batch_offset,   \* transactions of it already locked
  batch_number,   \* number of the batch whose turn it is
  pending_txns,   \* counter: locked, not handed to a worker
  executing_txns, \* counter: handed to a worker, not released
  pc,             \* where the main loop is
  grabbed,        \* iterations of the locking loop in this turn
  requests,       \* main loop to workers
  responses,      \* each worker to the main loop: its own PUSH socket
  active,         \* transactions each worker holds until their remote reads are in
  executes,       \* the transaction each worker executes, or NoTxn
  reads           \* remote reads received for each transaction

loopVars == <<batch_message, batch_offset, batch_number, pending_txns,
              executing_txns, pc, grabbed>>
mailVars == <<delivered, inbox, batches>>
workVars == <<active, executes, reads>>
vars == <<lockVars, loopVars, mailVars, workVars, requests, responses>>

Init ==
  /\ LockInit
  /\ delivered = {} /\ inbox = <<>> /\ batches = {}
  /\ batch_message = NoBatch /\ batch_offset = 0 /\ batch_number = 0
  /\ pending_txns = 0 /\ executing_txns = 0
  /\ pc = "top" /\ grabbed = 0
  /\ requests = <<>> /\ responses = [h \in Thread |-> <<>>]
  /\ active = [h \in Thread |-> {}] /\ executes = [h \in Thread |-> NoTxn]
  /\ reads = [t \in Txn |-> {}]

-----------------------------------------------------------------------------
(* A sequencer's next batch reaches this node.                             *)
Deliver(n) ==
  /\ n \notin delivered
  /\ \A m \in Numbers : m < n /\ m % Sequencers = n % Sequencers => m \in delivered
  /\ delivered' = delivered \cup {n}
  /\ inbox' = Append(inbox, n)
  /\ UNCHANGED <<lockVars, loopVars, workVars, batches, requests, responses>>

(* Variants of GetBatch: one takes whatever batch came first, one forgets  *)
(* the batches it reads past.                                              *)
GetBatch_First(id) ==
  \/ /\ inbox # <<>>
     /\ batch_message' = Head(inbox)
     /\ inbox' = Tail(inbox)
     /\ UNCHANGED batches
  \/ /\ inbox = <<>>
     /\ batch_message' = NoBatch
     /\ UNCHANGED <<inbox, batches>>

GetBatch_Forgetful(id) ==
  \/ \E i \in DOMAIN inbox :
       /\ inbox[i] = id
       /\ batch_message' = id
       /\ inbox' = SubSeq(inbox, i + 1, Len(inbox))
       /\ UNCHANGED batches
  \/ /\ id \notin Range(inbox)
     /\ batch_message' = NoBatch
     /\ inbox' = <<>>
     /\ UNCHANGED batches

(* GetBatch(id): a batch set aside earlier, or else the connection is read *)
(* until the batch turns up; every other one is set aside.                 *)
GetBatch(id) ==
  \/ /\ id \in batches
     /\ batch_message' = id
     /\ batches' = batches \ {id}
     /\ UNCHANGED inbox
  \/ /\ id \notin batches
     /\ \E i \in DOMAIN inbox :
          /\ inbox[i] = id
          /\ batch_message' = id
          /\ batches' = batches \cup {inbox[j] : j \in 1..(i - 1)}
          /\ inbox' = SubSeq(inbox, i + 1, Len(inbox))
  \/ /\ id \notin batches \cup Range(inbox)
     /\ batch_message' = NoBatch
     /\ batches' = batches \cup Range(inbox)
     /\ inbox' = <<>>

Current == Batch[batch_message + 1]

NoResponse == \A h \in Thread : responses[h] = <<>>

(* The first branch of the loop: a transaction came back from a worker, of *)
(* several workers whichever the socket takes first.  Its locks are        *)
(* released; rand() % writers_size() then kills the process if it has no   *)
(* writers at all.                                                         *)
HandleResponse ==
  /\ pc = "top"
  /\ \E h \in Thread :
       /\ responses[h] # <<>>
       /\ LET t == Head(responses[h]) IN
            /\ Release(t)
            /\ pc' = IF t \in HasWriters THEN "drain" ELSE "aborted"
       /\ responses' = [responses EXCEPT ![h] = Tail(@)]
  /\ executing_txns' = executing_txns - 1
  /\ UNCHANGED <<mailVars, workVars, requests, batch_message, batch_offset,
                 batch_number, pending_txns, grabbed>>

(* No batch yet: look for the one whose turn it is.                        *)
AwaitBatch ==
  /\ pc = "top" /\ NoResponse
  /\ batch_message = NoBatch
  /\ GetBatch(batch_number)
  /\ UNCHANGED <<lockVars, workVars, requests, responses, delivered, batch_offset,
                 batch_number, pending_txns, executing_txns, pc, grabbed>>

(* The batch is used up: on to the next number.                            *)
NextBatch ==
  /\ pc = "top" /\ NoResponse
  /\ batch_message # NoBatch
  /\ batch_offset >= Len(Current)
  /\ batch_offset' = 0
  /\ batch_number' = batch_number + 1
  /\ GetBatch(batch_number + 1)
  /\ UNCHANGED <<lockVars, workVars, requests, responses, delivered,
                 pending_txns, executing_txns, pc, grabbed>>

(* Variant of Room that forgets the transactions waiting for locks.        *)
Room_Executing == executing_txns < MaxInFlight

(* No more than 2000 transactions between Lock() and Release().            *)
Room == executing_txns + pending_txns < MaxInFlight

(* There are transactions left and room for them.                          *)
BeginLocking ==
  /\ pc = "top" /\ NoResponse
  /\ batch_message # NoBatch
  /\ batch_offset < Len(Current)
  /\ Room
  /\ pc' = "lock" /\ grabbed' = 0
  /\ UNCHANGED <<lockVars, mailVars, workVars, requests, responses, batch_message,
                 batch_offset, batch_number, pending_txns, executing_txns>>

LockTxn ==
  /\ pc = "lock"
  /\ grabbed < GrabLimit /\ batch_offset < Len(Current)
  /\ Lock(Current[batch_offset + 1])
  /\ batch_offset' = batch_offset + 1
  /\ pending_txns' = pending_txns + 1
  /\ grabbed' = grabbed + 1
  /\ UNCHANGED <<mailVars, workVars, requests, responses, batch_message,
                 batch_number, executing_txns, pc>>

EndLocking ==
  /\ pc = "lock"
  /\ grabbed >= GrabLimit \/ batch_offset >= Len(Current)
  /\ pc' = "drain"
  /\ UNCHANGED <<lockVars, mailVars, workVars, requests, responses, batch_message,
                 batch_offset, batch_number, pending_txns, executing_txns, grabbed>>

(* Variant of CountStarted with the counters swapped.                      *)
CountStarted_Swapped ==
  /\ pending_txns' = pending_txns + 1
  /\ executing_txns' = executing_txns - 1

CountStarted ==
  /\ pending_txns' = pending_txns - 1
  /\ executing_txns' = executing_txns + 1

(* The end of every turn: all ready transactions go to the workers.        *)
StartReady ==
  /\ pc = "drain"
  /\ PopReady
  /\ requests' = Append(requests, Head(ready_txns))
  /\ CountStarted
  /\ UNCHANGED <<mailVars, workVars, responses, batch_message, batch_offset,
                 batch_number, pc, grabbed>>

EndDrain ==
  /\ pc = "drain" /\ ready_txns = <<>>
  /\ pc' = "top"
  /\ UNCHANGED <<lockVars, mailVars, workVars, requests, responses, batch_message,
                 batch_offset, batch_number, pending_txns, executing_txns, grabbed>>

MainLoop ==
  \/ HandleResponse \/ AwaitBatch \/ NextBatch
  \/ BeginLocking \/ LockTxn \/ EndLocking
  \/ StartReady \/ EndDrain

-----------------------------------------------------------------------------
(* A worker that has no message to read takes a request: it reads locally  *)
(* and sends the values on (TransactionalStorageManager), and goes on to   *)
(* execute if nothing is written here or nothing has to be waited for.     *)
TakeRequest(h) ==
  /\ requests # <<>> /\ executes[h] = NoTxn
  /\ LET t == Head(requests) IN
       \/ /\ t \in WritesHere /\ reads[t] # RemoteReaders[t]
          /\ active' = [active EXCEPT ![h] = @ \cup {t}]
          /\ UNCHANGED executes
       \/ /\ t \notin WritesHere \/ reads[t] = RemoteReaders[t]
          /\ executes' = [executes EXCEPT ![h] = t]
          /\ UNCHANGED active
  /\ requests' = Tail(requests)
  /\ UNCHANGED <<lockVars, loopVars, mailVars, reads, responses>>

(* Variant of Erase that leaves the transaction in active_txns.            *)
Erase_Not(h, t) == active

Erase(h, t) == [active EXCEPT ![h] = @ \ {t}]

(* A worker gets the reads of node n for a transaction it holds; with the  *)
(* last of them it goes on to execute the transaction.                     *)
RemoteRead(h, t, n) ==
  /\ executes[h] = NoTxn
  /\ t \in active[h] /\ n \in RemoteReaders[t] \ reads[t]
  /\ reads' = [reads EXCEPT ![t] = @ \cup {n}]
  /\ IF reads[t] \cup {n} = RemoteReaders[t]
     THEN /\ active' = Erase(h, t)
          /\ executes' = [executes EXCEPT ![h] = t]
     ELSE UNCHANGED <<active, executes>>
  /\ UNCHANGED <<lockVars, loopVars, mailVars, requests, responses>>

(* A worker has executed its transaction and sends it back.  The workers   *)
(* take any time, so transactions come back in another order than they     *)
(* were handed out in.                                                     *)
Respond(h) ==
  /\ executes[h] # NoTxn
  /\ responses' = [responses EXCEPT ![h] = Append(@, executes[h])]
  /\ executes' = [executes EXCEPT ![h] = NoTxn]
  /\ UNCHANGED <<lockVars, loopVars, mailVars, requests, active, reads>>

Worker(h) ==
  \/ TakeRequest(h)
  \/ \E t \in Txn : \E n \in RemoteReaders[t] : RemoteRead(h, t, n)
  \/ Respond(h)

Next ==
  \/ MainLoop
  \/ \E h \in Thread : Worker(h)
  \/ \E n \in Numbers : Deliver(n)

Spec == Init /\ [][Next]_vars

(* The main loop and the workers are threads that never block; batches and *)
(* remote reads are delivered in the end.                                  *)
Fairness ==
  /\ WF_vars(MainLoop)
  /\ \A h \in Thread : WF_vars(TakeRequest(h)) /\ WF_vars(Respond(h))
  /\ \A h \in Thread, t \in Txn : \A n \in RemoteReaders[t] : WF_vars(RemoteRead(h, t, n))
  /\ \A n \in Numbers : WF_vars(Deliver(n))

FairSpec == Spec /\ Fairness

-----------------------------------------------------------------------------
SchedTypeOK ==
  /\ LockTypeOK
  /\ delivered \subseteq Numbers /\ inbox \in Seq(Numbers) /\ batches \subseteq Numbers
  /\ batch_message \in Numbers \cup {NoBatch}
  /\ batch_offset \in Nat /\ batch_number \in Nat /\ grabbed \in 0..GrabLimit
  /\ pending_txns \in Nat /\ executing_txns \in Nat
  /\ pc \in {"top", "lock", "drain", "aborted"}
  /\ requests \in Seq(Txn) /\ responses \in [Thread -> Seq(Txn)]
  /\ active \in [Thread -> SUBSET WritesHere]
  /\ executes \in [Thread -> Txn \cup {NoTxn}]
  /\ reads \in [Txn -> SUBSET UNION {RemoteReaders[t] : t \in Txn}]

(* The pre-determined order: batch by batch, in the order of their numbers.*)
Earlier(s, t) ==
  \E m, n \in Numbers : \E i \in DOMAIN Batch[m + 1] : \E j \in DOMAIN Batch[n + 1] :
    /\ s = Batch[m + 1][i] /\ t = Batch[n + 1][j]
    /\ m < n \/ (m = n /\ i < j)

(* Whatever the order in which batches and remote reads arrive, and        *)
(* whichever worker is done first, a transaction executes only after every *)
(* conflicting transaction that precedes it in the pre-determined order is *)
(* done.                                                                   *)
SerialOrder ==
  \A s, t \in Txn :
    Earlier(s, t) /\ Conflicting(s, t) /\ phase[t] \in {"executing", "done"}
      => phase[s] = "done"

(* Where transaction t is while it is handed out.                          *)
Requested(t) == {i \in DOMAIN requests : requests[i] = t}
HeldBy(t)    == {h \in Thread : t \in active[h]}
ExecutedBy(t) == {h \in Thread : executes[h] = t}
Responded(t) ==
  UNION {{<<h, i>> : i \in {j \in DOMAIN responses[h] : responses[h][j] = t}} : h \in Thread}

(* The transactions that are in the program's hands while the loop and its *)
(* workers run: one that is handed out is in exactly one of the request    *)
(* queue, the workers' tables, the workers' hands and the response queues, *)
(* once, and nothing else is there; and none is held for reads it has.     *)
Custody ==
  /\ \A t \in Txn :
       Cardinality(Requested(t)) + Cardinality(HeldBy(t))
         + Cardinality(ExecutedBy(t)) + Cardinality(Responded(t))
       = IF phase[t] = "executing" THEN 1 ELSE 0
  /\ \A h \in Thread : \A t \in active[h] : reads[t] # RemoteReaders[t]

InFlight == {t \in Txn : phase[t] \in {"locked", "executing"}}

(* The two counters that throttle the loop count what they should, and one *)
(* turn overshoots the limit by less than a full grab.                     *)
Throttled ==
  /\ executing_txns + pending_txns = Cardinality(InFlight)
  /\ Cardinality(InFlight) < MaxInFlight + GrabLimit

(* No transaction of a delivered batch is lost: not in a batch set aside,  *)
(* not in a batch another one overtook, and not behind an empty batch.     *)
AllDone == <>(\A t \in Txn : phase[t] = "done")

(* scheduler.h:50-52: Run() receives requests, handles all locking and     *)
(* coordinates execution; nothing says a transaction that only reads ends  *)
(* the process.                                                            *)
KeepsRunning == pc # "aborted"
=============================================================================
