------------------------------- MODULE Paxos -------------------------------
(***************************************************************************)
(* paxos/paxos.cc: the object through which sequencers put their batches   *)
(* into one order and read it back.  A batch becomes a znode that          *)
(* ZooKeeper numbers; a reader asks for CONCURRENT_GETS numbers at a time, *)
(* each in a slot of its own with its own table, and hands the batches out *)
(* one number after the other.                                             *)
(*                                                                         *)
(* ZooKeeper is external: it numbers the znodes of /root as it creates     *)
(* them, in the order of each client's requests, answers a get by what is  *)
(* there at that moment, and removes a client's znodes when its session    *)
(* ends, because they are ephemeral.                                       *)
(***************************************************************************)
EXTENDS Integers, Sequences, FiniteSets, Functions, SequencesExt

CONSTANTS
  Client,           \* the Paxos objects that are ever constructed
  BatchReader,      \* those constructed with reader = TRUE
  CONCURRENT_GETS,
  MaxBatches,       \* bound on the batches submitted
  MaxFaults         \* bound on errors and expired sessions

ASSUME PaxosAssumption ==
  /\ BatchReader \subseteq Client
  /\ CONCURRENT_GETS \in Nat \ {0}
  /\ MaxBatches \in Nat /\ MaxFaults \in Nat

VARIABLES
  created,    \* every batch ZooKeeper has numbered, in the order of the numbers
  owner,      \* the znodes that are there: number -> the client that made it
  session,    \* of each client: none, open, expired, closed
  creates,    \* the acreate requests of each client, on their way
  asked,      \* the number each slot of each reader has asked for
  asking,     \* whether the slot still asks, for that number or a later one
  tables,     \* batch_tables_: per slot, the batches read and not handed out
  next,       \* next_read_batch_index_
  delivered,  \* what GetNextBatch has returned, in order
  submitted,  \* how many batches have been submitted; each has its number
  faults

zookeeper == <<created, owner, creates>>
reading == <<asked, asking, tables>>
paxosVars == <<zookeeper, session, reading, next, delivered, submitted, faults>>

Slot == 0..(CONCURRENT_GETS - 1)
Batch == 1..MaxBatches

Empty == 0         \* the empty string

PaxosInit ==
  /\ created = <<>> /\ owner = <<>>
  /\ session = [p \in Client |-> "none"]
  /\ creates = [p \in Client |-> <<>>]
  /\ asked = [p \in BatchReader |-> [s \in Slot |-> s]]
  /\ asking = [p \in BatchReader |-> [s \in Slot |-> FALSE]]
  /\ tables = [p \in BatchReader |-> [s \in Slot |-> <<>>]]
  /\ next = [p \in BatchReader |-> 0]
  /\ delivered = [p \in BatchReader |-> <<>>]
  /\ submitted = 0
  /\ faults = 0

Ask(p, value) ==
  asking' = [q \in BatchReader |-> IF q = p THEN [s \in Slot |-> value] ELSE asking[q]]

(* The constructor connects; a reader asks once in every slot.             *)
Construct(p) ==
  /\ session[p] = "none"
  /\ session' = [session EXCEPT ![p] = "open"]
  /\ Ask(p, TRUE)
  /\ UNCHANGED <<zookeeper, asked, tables, next, delivered, submitted, faults>>

SubmitBatch(p) ==
  /\ session[p] = "open" /\ submitted < MaxBatches
  /\ submitted' = submitted + 1
  /\ creates' = [creates EXCEPT ![p] = Append(@, submitted + 1)]
  /\ UNCHANGED <<created, owner, session, reading, next, delivered, faults>>

(* ZooKeeper: the next number of /root, for an ephemeral znode.            *)
CreateZnode(p) ==
  /\ creates[p] # <<>>
  /\ creates' = [creates EXCEPT ![p] = Tail(@)]
  /\ created' = Append(created, Head(creates[p]))
  /\ owner' = [i \in DOMAIN owner \cup {Len(created)} |->
                 IF i = Len(created) THEN p ELSE owner[i]]
  /\ UNCHANGED <<session, reading, next, delivered, submitted, faults>>

(* acreate_completion prints an error and leaves it at that.               *)
FailCreate(p) ==
  /\ creates[p] # <<>> /\ faults < MaxFaults
  /\ faults' = faults + 1
  /\ creates' = [creates EXCEPT ![p] = Tail(@)]
  /\ UNCHANGED <<created, owner, session, reading, next, delivered, submitted>>

(* Variant of NextIndex that reads on with the next number.                *)
NextIndex_ByOne(i) == i + 1

NextIndex(i) == i + CONCURRENT_GETS

TableOf(i) == i % CONCURRENT_GETS

(* get_data_completion, with ZooKeeper's answer: a batch goes into the     *)
(* slot's table and the next number of the slot is asked for; one that is  *)
(* not there yet is asked for again.  (What the answer says may be out of  *)
(* date when the completion runs; znodes only vanish with a session, and   *)
(* nobody else looks at the slot in between.)                              *)
GetDataCompletion(p, s) ==
  LET i == asked[p][s] IN
  /\ session[p] = "open" /\ asking[p][s]
  /\ i \in DOMAIN owner
  /\ asked' = [asked EXCEPT ![p][s] = NextIndex(i)]
  /\ tables' = [tables EXCEPT ![p][TableOf(i)] =
       [j \in DOMAIN @ \cup {i} |-> IF j = i THEN created[i + 1] ELSE @[j]]]
  /\ UNCHANGED <<zookeeper, session, asking, next, delivered, submitted, faults>>

(* Any other error ends the slot for good.                                 *)
FailGet(p, s) ==
  /\ session[p] = "open" /\ asking[p][s] /\ faults < MaxFaults
  /\ faults' = faults + 1
  /\ asking' = [asking EXCEPT ![p][s] = FALSE]
  /\ UNCHANGED <<zookeeper, session, asked, tables, next, delivered, submitted>>

(* Variants of Available: any table has something, and the table has two.  *)
Available_Any(p) == \E s \in Slot : tables[p][s] # <<>>
Available_Two(p) == Cardinality(DOMAIN tables[p][TableOf(next[p])]) > 1

Available(p) == tables[p][TableOf(next[p])] # <<>>

(* What operator[] returns: the empty string if the map has no such key.   *)
Found(table, i) == IF i \in DOMAIN table THEN <<table[i]>> ELSE <<Empty>>

(* GetNextBatch when it returns true.  GetNextBatchBlocking calls it until *)
(* it does.                                                                *)
GetNextBatch(p) ==
  LET s == TableOf(next[p]) IN
  /\ session[p] \in {"open", "expired"} /\ Available(p)
  /\ delivered' = [delivered EXCEPT ![p] = @ \o Found(tables[p][s], next[p])]
  /\ tables' = [tables EXCEPT ![p][s] = Restrict(@, DOMAIN @ \ {next[p]})]
  /\ next' = [next EXCEPT ![p] = @ + 1]
  /\ UNCHANGED <<zookeeper, session, asked, asking, submitted, faults>>

(* The end of p's session takes its znodes with it.                        *)
EndSession(p, state) ==
  /\ session' = [session EXCEPT ![p] = state]
  /\ owner' = Restrict(owner, {i \in DOMAIN owner : owner[i] # p})
  /\ creates' = [creates EXCEPT ![p] = <<>>]

(* ~Paxos closes the session and with it the object is gone.               *)
Close(p) ==
  /\ session[p] \in {"open", "expired"}
  /\ EndSession(p, "closed")
  /\ Ask(p, FALSE)
  /\ UNCHANGED <<created, asked, tables, next, delivered, submitted, faults>>

(* ZooKeeper gives a client up: what it waits for fails.                   *)
Expire(p) ==
  /\ session[p] = "open" /\ faults < MaxFaults
  /\ faults' = faults + 1
  /\ EndSession(p, "expired")
  /\ Ask(p, FALSE)
  /\ UNCHANGED <<created, asked, tables, next, delivered, submitted>>

PaxosNext ==
  \/ \E p \in Client :
       \/ Construct(p) \/ Close(p) \/ Expire(p)
       \/ CreateZnode(p) \/ FailCreate(p)
       \/ SubmitBatch(p)
  \/ \E p \in BatchReader :
       \/ GetNextBatch(p)
       \/ \E s \in Slot : GetDataCompletion(p, s) \/ FailGet(p, s)

PaxosSpec == PaxosInit /\ [][PaxosNext]_paxosVars

(* ZooKeeper answers and creates; its client's thread completes; readers   *)
(* poll.  Nobody has to submit, to close or to fail.                       *)
PaxosFairness ==
  /\ \A p \in Client : WF_paxosVars(CreateZnode(p))
  /\ \A p \in BatchReader :
       /\ WF_paxosVars(GetNextBatch(p))
       /\ \A s \in Slot : WF_paxosVars(GetDataCompletion(p, s))

PaxosFairSpec == PaxosSpec /\ PaxosFairness

-----------------------------------------------------------------------------
PaxosTypeOK ==
  /\ created \in Seq(Batch) /\ submitted \in 0..MaxBatches /\ faults \in 0..MaxFaults
  /\ DOMAIN owner \subseteq 0..(Len(created) - 1)
  /\ \A i \in DOMAIN owner : owner[i] \in Client
  /\ session \in [Client -> {"none", "open", "expired", "closed"}]
  /\ creates \in [Client -> Seq(Batch)]
  /\ asked \in [BatchReader -> [Slot -> Nat]]
  /\ asking \in [BatchReader -> [Slot -> BOOLEAN]]
  /\ next \in [BatchReader -> Nat]
  /\ delivered \in [BatchReader -> Seq(Batch)]

(* What a slot holds is exactly what it has read and not handed out: the   *)
(* numbers of its turn from the next to be handed out to the one asked     *)
(* for, each with the batch ZooKeeper gave that number.  So the next batch *)
(* is in its table as soon as that table holds anything, which GetNextBatch*)
(* relies on (paxos.cc:112-116).                                           *)
SlotsExact ==
  \A p \in BatchReader, s \in Slot :
    /\ asked[p][s] % CONCURRENT_GETS = s
    /\ DOMAIN tables[p][s] =
         {i \in next[p]..(asked[p][s] - 1) : i % CONCURRENT_GETS = s}
    /\ \A i \in DOMAIN tables[p][s] :
         i < Len(created) /\ tables[p][s][i] = created[i + 1]

(* paxos.h:37-41: a batch that is inserted appears in the same place in    *)
(* the global order to all readers.  The readers implement TotalOrder:     *)
(* each takes one batch after the other of the one log, of which it misses *)
(* none and sees none twice, whatever sessions end and whatever fails.     *)
Whole(b, p) == <<b>>

Order == INSTANCE TotalOrder WITH
  Node <- BatchReader, Share <- Whole,
  log <- created, taken <- next, schedule <- delivered

ReadersShareLog == Order!Spec

(* A slot of p has given up.                                               *)
GivenUp(p) == \E s \in Slot : ~ asking[p][s]

(* Every batch that ZooKeeper has ordered is returned to every reader, as  *)
(* long as the reader has had no error and the znodes up to the batch are  *)
(* there.                                                                  *)
BatchesRead ==
  \A p \in BatchReader, n \in Batch :
    session[p] = "open" /\ n <= Len(created) ~>
      next[p] >= n \/ GivenUp(p) \/ ~ (0..(n - 1) \subseteq DOMAIN owner)

(* paxos.h:39-41: "Once a quorum of zookeeper nodes have agreed on an      *)
(* insertion, it will appear in the same place in the global order to all  *)
(* readers."  To every reader, that is, which stays and has had no error.  *)
AppearsToAll ==
  \A p \in BatchReader, n \in Batch :
    session[p] = "open" /\ n <= Len(created) ~> next[p] >= n \/ GivenUp(p)
=============================================================================
