--------------------------- MODULE Checkpointing ---------------------------
(***************************************************************************)
(* checkpointing/: the four checkpointers of one node, while workers put   *)
(* what transactions write and the scheduler's main thread says when       *)
(* (scheduler.cc:294-300, 331-337).  kind is the checkpointer the process  *)
(* was started with: Hobbes is "hobbes", or "filtered" with a dictionary   *)
(* hash; the levels of PingPong differ in their arrays only.               *)
(***************************************************************************)
EXTENDS Rows

CONSTANTS
  Key,
  LastTxn,    \* transactions are 1..LastTxn: their txn_ids, and their order
  Writes,     \* keys each of them puts
  InPlace,    \* transactions that write with GetMutable instead of Put
  Kinds,      \* checkpointers to look at
  Lead,       \* the 1000 ids of scheduler.cc:296, 334, 336
  Window,     \* the 2000 transactions of scheduler.cc:321
  Rounds      \* bound: how often a checkpoint is prepared

MINUS_MAX == -2      \* -1 * VERSION_ID_MAX: below the version of loaded data

ASSUME CheckpointAssumption ==
  /\ IsFiniteSet(Key) /\ {LastTxn, Lead, Window, Rounds} \subseteq Nat
  /\ Writes \in [1..LastTxn -> (SUBSET Key) \ {{}}]
  /\ InPlace \subseteq 1..LastTxn
  /\ Kinds \subseteq {"naive", "multiversion", "hobbes", "filtered", "pingpong"}
  /\ NULL \notin Nat

VARIABLES
  kind,
  locked, finished,    \* transactions 1..locked went into the lock manager
  putting,             \* <<t, k>> inside Put,
  at, minimum, buffer, \* ... how far, and with what: see HandlePut
  changing, written,   \* <<t, k>> GetMutable has put, not changed yet; done
  objects,             \* rows; values are buffers: 0, or the transaction that made it
  contents,            \* who wrote last into each of a key's buffers
  array, dirty,        \* PingPong: APP_STATE, ODD and EVEN; dirty bits
  odd_is_being_updated_,
  stable_,             \* Hobbes; for "multiversion" historical_version_
  filter,              \* Hobbes: keys marked in filter_stable_, filter_unstable_
  upcoming_checkpoint, \* main thread (NULL: LLONG_MAX)
  rounds,
  created, opened,     \* threads that wait for checkpoint_lock_; Hobbes's by file
  thread,              \* the one that holds it
  to_scan, file,       \* keys it has not looked at, and what it wrote
  point, recovered,    \* its checkpoint, or the last; what recovery gets from all
  clean, sound,        \* history: see Clean; of this capture, of all so far
  frozen               \* history: the data when it was frozen or the arrays flipped

txnVars == <<locked, finished>>
putVars == <<putting, at, minimum, buffer, changing, written>>
storeVars == <<objects, contents, array, dirty, filter>>
prepareVars == <<odd_is_being_updated_, stable_, upcoming_checkpoint, rounds>>
waitVars == <<created, opened>>
threadVars == <<thread, to_scan, file, point, recovered>>
seenVars == <<clean, sound, frozen>>
vars == <<kind, txnVars, putVars, storeVars, prepareVars, waitVars, threadVars, seenVars>>

Hobbes == kind \in {"hobbes", "filtered"}
NoFile == [k \in {} |-> 0]
Versions_ == {MINUS_MAX} \cup 1..(LastTxn + Lead)

Init ==
  /\ kind \in Kinds
  /\ locked = 0 /\ finished = {}
  /\ putting = {} /\ changing = {} /\ written = {}
  /\ at = [t \in 1..LastTxn |-> "out"] /\ minimum = [t \in 1..LastTxn |-> MINUS_MAX]
  /\ buffer = [t \in 1..LastTxn |-> [k \in Key |-> t]]
  /\ objects = [k \in Key |-> IF kind = "pingpong" THEN <<>> ELSE <<[version |-> -1, value |-> 0]>>]
  /\ contents = [k \in Key |-> [b \in 0..LastTxn |-> b]]
  /\ array = [a \in {"app", "odd", "even"} |-> [k \in Key |-> IF a = "even" THEN NULL ELSE 0]]
  /\ dirty = [a \in {"odd", "even"} |-> IF a = "odd" THEN Key ELSE {}]
  /\ odd_is_being_updated_ = TRUE
  /\ stable_ = MINUS_MAX
  /\ \E garbage \in IF kind = "filtered" THEN SUBSET Key ELSE {{}} :
       filter = [stable |-> Key, unstable |-> garbage]     \* new char[] has no initializer
  /\ upcoming_checkpoint = NULL /\ rounds = 0
  /\ created = 0 /\ opened = [v \in Versions_ |-> 0]
  /\ thread = "idle" /\ to_scan = {} /\ file = NoFile
  /\ point = 0 /\ recovered = [k \in Key |-> NULL]
  /\ clean = FALSE /\ sound = TRUE /\ frozen = [k \in Key |-> NULL]

-----------------------------------------------------------------------------
(* What a transaction sees, and what a buffer holds.                       *)
Content(k, b) == IF b = NULL THEN NULL ELSE contents[k][b]
Read(k, v) == IF kind = "pingpong" THEN array.app[k] ELSE Get(objects[k], v)

(* The lock manager: conflicting transactions run one after the other.     *)
Running(t) ==
  /\ t \in 1..locked \ finished
  /\ \A u \in 1..(t - 1) \ finished : Writes[u] \cap Writes[t] = {}

Updated == IF odd_is_being_updated_ THEN "odd" ELSE "even"
Captured == IF odd_is_being_updated_ THEN "even" ELSE "odd"

(* freeze_lock_: held for reading inside Put, for writing by a naive       *)
(* capture.                                                                *)
Frozen == kind = "naive" /\ thread = "scanning"

(* Variant of MayPut without the freeze lock.                              *)
MayPut_Frozen(t) == TRUE
MayPut(t) == ~ Frozen

(* Variant of IsNewer that is never true.                                  *)
IsNewer_Never(t) == FALSE

(* A put of Hobbes prunes what is newer than stable_, or everything below  *)
(* a put that is older; a naive checkpointer keeps one version.            *)
IsNewer(t) == t >= stable_

(* Variant of Minimum that prunes nothing.                                 *)
Minimum_Own(t) == t
Minimum(t) == stable_

(* Storage::Put up to the decorator's HandlePut.  A put is between the     *)
(* reads of stable_, which no lock protects, and PruneRow.  PingPong does  *)
(* the rest itself and vetoes the insertion.                               *)
Target(t, k) == IF t \in InPlace THEN Read(k, t) ELSE t

HandlePut(t, k) ==
  /\ Running(t) /\ k \in Writes[t] /\ at[t] = "out"
  /\ <<t, k>> \notin changing \cup written
  /\ MayPut(t)
  /\ Target(t, k) # NULL
  /\ buffer' = [buffer EXCEPT ![t][k] = Target(t, k)]
  /\ IF kind = "pingpong"
     THEN /\ array' = [array EXCEPT !.app[k] = Target(t, k), ![Updated][k] = Target(t, k)]
          /\ dirty' = [dirty EXCEPT ![Updated] = @ \cup {k}]
          /\ IF t \in InPlace THEN changing' = changing \cup {<<t, k>>} /\ UNCHANGED written
             ELSE written' = written \cup {<<t, k>>} /\ UNCHANGED changing
          /\ UNCHANGED <<putting, at, minimum>>
     ELSE /\ putting' = putting \cup {<<t, k>>}
          /\ at' = [at EXCEPT ![t] = IF kind = "multiversion" THEN "insert"
                                     ELSE IF Hobbes /\ IsNewer(t) THEN "minimum" ELSE "prune"]
          /\ minimum' = [minimum EXCEPT ![t] = MINUS_MAX]
          /\ UNCHANGED <<changing, written, array, dirty>>
  /\ UNCHANGED <<kind, txnVars, objects, contents, filter, prepareVars, waitVars, threadVars, seenVars>>

(* stable_ is read again for the minimum.                                  *)
ReadMinimum(t) ==
  /\ at[t] = "minimum"
  /\ at' = [at EXCEPT ![t] = "prune"]
  /\ minimum' = [minimum EXCEPT ![t] = Minimum(t)]
  /\ UNCHANGED <<kind, txnVars, putting, buffer, changing, written, storeVars, prepareVars,
                 waitVars, threadVars, seenVars>>

PrunePut(t, k) ==
  /\ <<t, k>> \in putting /\ at[t] = "prune"
  /\ objects' = [objects EXCEPT ![k] = Pruned(@, t, TRUE, minimum[t], TRUE)]
  /\ at' = [at EXCEPT ![t] = IF kind = "filtered" THEN "mark" ELSE "insert"]
  /\ UNCHANGED <<kind, txnVars, putting, minimum, buffer, changing, written, contents, array,
                 dirty, filter, prepareVars, waitVars, threadVars, seenVars>>

(* The put marks its key in a filter.  filter_lock_ is taken for reading,  *)
(* and stable_ read up to three times; if no test is true there is no      *)
(* filter, and the process ends at a null pointer.                         *)
Mark(t, k) ==
  /\ <<t, k>> \in putting
  /\ LET marked(f) == /\ filter' = [filter EXCEPT ![f] = @ \cup {k}]
                      /\ at' = [at EXCEPT ![t] = "insert"]
         next(step) == at' = [at EXCEPT ![t] = step] /\ UNCHANGED filter
     IN \/ at[t] = "mark" /\ IF t <= stable_ THEN marked("stable") ELSE next("mark2")
        \/ at[t] = "mark2" /\ IF stable_ < 0 THEN marked("stable") ELSE next("mark3")
        \/ at[t] = "mark3" /\ IF t > stable_ THEN marked("unstable") ELSE next("fault")
  /\ UNCHANGED <<kind, txnVars, putting, minimum, buffer, changing, written, objects, contents,
                 array, dirty, prepareVars, waitVars, threadVars, seenVars>>

(* The rest of Put.                                                        *)
Insert(t, k) ==
  /\ <<t, k>> \in putting /\ at[t] = "insert"
  /\ putting' = putting \ {<<t, k>>} /\ at' = [at EXCEPT ![t] = "out"]
  /\ objects' = [objects EXCEPT ![k] = Inserted(@, buffer[t][k], t)]
  /\ IF t \in InPlace THEN changing' = changing \cup {<<t, k>>} /\ UNCHANGED written
     ELSE written' = written \cup {<<t, k>>} /\ UNCHANGED changing
  /\ UNCHANGED <<kind, txnVars, minimum, buffer, contents, array, dirty, filter, prepareVars,
                 waitVars, threadVars, seenVars>>

(* What GetMutable's caller does to the buffer it got, when Put is over.   *)
Change(t, k) ==
  /\ <<t, k>> \in changing
  /\ changing' = changing \ {<<t, k>>} /\ written' = written \cup {<<t, k>>}
  /\ contents' = [contents EXCEPT ![k][buffer[t][k]] = t]
  /\ UNCHANGED <<kind, txnVars, putting, at, minimum, buffer, objects, array, dirty, filter,
                 prepareVars, waitVars, threadVars, seenVars>>

-----------------------------------------------------------------------------
(* PrepareForCheckpoint(t + Lead), before t is locked: whenever the        *)
(* interval is over and no thread has checkpoint_lock_, whatever was       *)
(* prepared before.                                                        *)
Prepare(t) ==
  /\ rounds < Rounds
  /\ thread = "idle"                            \* TryReadLock()
  /\ kind = "pingpong" => putting = {}          \* Freeze()
  /\ stable_' = IF Hobbes \/ kind = "multiversion" THEN t + Lead ELSE stable_
  /\ odd_is_being_updated_' = IF kind = "pingpong" THEN ~ odd_is_being_updated_ ELSE TRUE
  /\ frozen' = IF kind = "pingpong" THEN [k \in Key |-> Content(k, array.app[k])] ELSE frozen
  /\ sound' = (sound /\ (kind = "pingpong" => changing = {}))
  /\ upcoming_checkpoint' = t + Lead
  /\ rounds' = rounds + 1

Lock ==
  /\ locked < LastTxn /\ locked - Cardinality(finished) < Window
  /\ locked' = locked + 1
  /\ Prepare(locked + 1) \/ UNCHANGED <<prepareVars, sound, frozen>>
  /\ UNCHANGED <<kind, finished, putVars, storeVars, waitVars, threadVars, clean>>

(* The main thread releases a finished transaction, and creates a thread   *)
(* for the capture when it is Lead ids past the checkpoint, whether or not *)
(* those before it are done.                                               *)
CaptureNow(t) == upcoming_checkpoint # NULL /\ t > upcoming_checkpoint + Lead

Finish(t) ==
  /\ Running(t) /\ \A k \in Writes[t] : <<t, k>> \in written
  /\ finished' = finished \cup {t}
  /\ IF CaptureNow(t) THEN upcoming_checkpoint' = NULL /\ created' = created + 1
     ELSE UNCHANGED <<upcoming_checkpoint, created>>
  /\ UNCHANGED <<kind, locked, putVars, storeVars, odd_is_being_updated_, stable_, rounds,
                 opened, threadVars, seenVars>>

-----------------------------------------------------------------------------
(* A thread of Hobbes opens the file named by stable_ before it has the    *)
(* lock; if that is the one being written, it is cut off.                  *)
Reopened == thread = "scanning" /\ stable_ = point
OpenFile ==
  /\ Hobbes /\ created > 0
  /\ created' = created - 1 /\ opened' = [opened EXCEPT ![stable_] = @ + 1]
  /\ file' = IF Reopened THEN NoFile ELSE file
  /\ clean' = (clean /\ ~ Reopened) /\ sound' = (sound /\ ~ Reopened)
  /\ UNCHANGED <<kind, txnVars, putVars, storeVars, prepareVars, thread, to_scan, point,
                 recovered, frozen>>

(* What a capture is meant to start with: the version is the file's, and   *)
(* all before it have finished; or the arrays were flipped once since the  *)
(* capture before.                                                         *)
Clean(name) ==
  CASE kind = "naive" -> TRUE
    [] kind = "pingpong" -> rounds = point + 1
    [] OTHER -> stable_ = name /\ stable_ > 0 /\ \A u \in 1..LastTxn : u < stable_ => u \in finished

(* The thread takes checkpoint_lock_ and, if naive, freezes the data.      *)
StartCapture(name) ==
  /\ thread = "idle" /\ thread' = "scanning"
  /\ IF Hobbes
     THEN /\ name \in Versions_ /\ opened[name] > 0
          /\ opened' = [opened EXCEPT ![name] = @ - 1] /\ UNCHANGED created
     ELSE /\ name = IF kind = "multiversion" THEN stable_ ELSE rounds
          /\ created > 0 /\ created' = created - 1 /\ UNCHANGED opened
  /\ kind = "naive" => putting = {}
  /\ point' = name /\ clean' = Clean(name) /\ sound' = (sound /\ Clean(name))
  /\ to_scan' = Key /\ file' = NoFile
  /\ frozen' = IF kind = "naive" THEN [k \in Key |-> Content(k, Get(objects[k], LastTxn + 1))] ELSE frozen
  /\ UNCHANGED <<kind, txnVars, putVars, storeVars, prepareVars, recovered>>

(* What the capture finds under a key: NULL if it writes nothing.          *)
Found(k) ==
  CASE kind = "naive" -> Get(objects[k], LastTxn + 1)
    [] kind = "pingpong" -> IF k \in dirty[Captured] THEN array[Captured][k] ELSE NULL
    [] kind = "filtered" /\ k \notin filter.stable -> NULL
    [] OTHER -> Get(objects[k], stable_)

(* Variant of PrunedByScan that overrides the failsafes.                   *)
PrunedByScan_Unsafe(k) == Pruned(objects[k], stable_ + 1, TRUE, MINUS_MAX, TRUE)

(* What is older than the checkpoint's version is of no use any more, but  *)
(* the newest version stays.                                               *)
PrunedByScan(k) == Pruned(objects[k], stable_ + 1, TRUE, MINUS_MAX, FALSE)

Scan(k) ==
  /\ thread = "scanning" /\ k \in to_scan
  /\ to_scan' = to_scan \ {k}
  /\ file' = IF Found(k) = NULL THEN file
             ELSE [l \in DOMAIN file \cup {k} |-> IF l = k THEN Content(k, Found(k)) ELSE file[l]]
  /\ objects' = IF Hobbes /\ Found(k) # NULL THEN [objects EXCEPT ![k] = PrunedByScan(k)] ELSE objects
  /\ dirty' = IF kind = "pingpong" THEN [dirty EXCEPT ![Captured] = @ \ {k}] ELSE dirty
  /\ UNCHANGED <<kind, txnVars, putVars, contents, array, filter, prepareVars, waitVars, thread,
                 point, recovered, seenVars>>

(* The file is closed and the locks are released.  A file of PingPong's or *)
(* a filtered one is completed with the checkpoint before it.              *)
Partial == kind \in {"pingpong", "filtered"}
Close ==
  /\ recovered' = [k \in Key |-> IF k \in DOMAIN file THEN file[k]
                                 ELSE IF Partial THEN recovered[k] ELSE NULL]
  /\ thread' = "idle"
  /\ UNCHANGED <<to_scan, file>>

(* After the last key; with a filter there is more to do.                  *)
EndScan ==
  /\ thread = "scanning" /\ to_scan = {}
  /\ stable_' = IF Hobbes THEN MINUS_MAX ELSE stable_
  /\ IF kind = "filtered" THEN thread' = "zeroing" /\ UNCHANGED <<to_scan, file, recovered>> ELSE Close
  /\ UNCHANGED <<kind, txnVars, putVars, storeVars, odd_is_being_updated_, upcoming_checkpoint,
                 rounds, waitVars, point, seenVars>>

Zero ==
  /\ thread = "zeroing" /\ thread' = "swapping"
  /\ filter' = [filter EXCEPT !.stable = {}]
  /\ UNCHANGED <<kind, txnVars, putVars, objects, contents, array, dirty, prepareVars, waitVars,
                 to_scan, file, point, recovered, seenVars>>

(* filter_lock_ is taken for writing: no put is between its tests.         *)
Swap ==
  /\ thread = "swapping" /\ Close
  /\ \A t \in 1..LastTxn : at[t] \notin {"mark2", "mark3"}
  /\ filter' = [stable |-> filter.unstable, unstable |-> filter.stable]
  /\ UNCHANGED <<kind, txnVars, putVars, objects, contents, array, dirty, prepareVars, waitVars,
                 point, seenVars>>

PutStep(t, k) ==
  HandlePut(t, k) \/ PrunePut(t, k) \/ Mark(t, k) \/ Insert(t, k) \/ Change(t, k)

Capture ==
  \/ OpenFile \/ (\E name \in Versions_ \cup 0..Rounds : StartCapture(name))
  \/ (\E k \in Key : Scan(k)) \/ EndScan \/ Zero \/ Swap

Alive == \A t \in 1..LastTxn : at[t] # "fault"

Next ==
  /\ Alive
  /\ \/ Lock
     \/ \E t \in 1..locked : Finish(t) \/ ReadMinimum(t) \/ \E k \in Key : PutStep(t, k)
     \/ Capture

Spec == Init /\ [][Next]_vars

-----------------------------------------------------------------------------
Data == [Key -> 0..LastTxn \cup {NULL}]
Steps == {"out", "minimum", "prune", "mark", "mark2", "mark3", "insert", "fault"}

TxnTypeOK ==
  /\ kind \in Kinds
  /\ locked \in 0..LastTxn /\ finished \subseteq 1..locked

PutTypeOK ==
  /\ putting \subseteq (1..locked) \X Key /\ changing \subseteq (1..locked) \X Key
  /\ written \subseteq (1..locked) \X Key
  /\ putting \cap changing = {} /\ putting \cap written = {} /\ changing \cap written = {}
  /\ at \in [1..LastTxn -> Steps] /\ minimum \in [1..LastTxn -> Int]
  /\ buffer \in [1..LastTxn -> [Key -> 0..LastTxn]]

StoreTypeOK ==
  /\ objects \in [Key -> Seq([version : Int, value : 0..LastTxn])]
  /\ \A k \in Key : Descending(objects[k])
  /\ contents \in [Key -> [0..LastTxn -> 0..LastTxn]]
  /\ array \in [{"app", "odd", "even"} -> Data]
  /\ dirty \in [{"odd", "even"} -> SUBSET Key] /\ filter \in [{"stable", "unstable"} -> SUBSET Key]

PrepareTypeOK ==
  /\ odd_is_being_updated_ \in BOOLEAN
  /\ stable_ \in Versions_ /\ rounds \in Nat
  /\ upcoming_checkpoint \in {NULL} \cup 1..(LastTxn + Lead)

CaptureTypeOK ==
  /\ created \in Nat /\ opened \in [Versions_ -> Nat]
  /\ thread \in {"idle", "scanning", "zeroing", "swapping"}
  /\ to_scan \subseteq Key /\ DOMAIN file \subseteq Key
  /\ file \in [DOMAIN file -> 0..LastTxn \cup {NULL}]
  /\ point \in Int /\ recovered \in Data
  /\ clean \in BOOLEAN /\ sound \in BOOLEAN /\ frozen \in Data

CheckpointTypeOK ==
  TxnTypeOK /\ PutTypeOK /\ StoreTypeOK /\ PrepareTypeOK /\ CaptureTypeOK

(* The last transaction before v that writes k.                            *)
WriterBefore(k, v) == Max({0} \cup {t \in 1..Min({v - 1, LastTxn}) : k \in Writes[t]})

(* A transaction from v on may have changed k in place.                    *)
ChangedSince(k, v) == \E t \in InPlace : v <= t /\ t <= locked /\ k \in Writes[t]

SavedAsOf(k) == recovered[k] = WriterBefore(k, point)
ByVersion == kind \in {"multiversion", "hobbes"}

(* checkpointer.h:49-56: the checkpoint a version-based checkpointer has   *)
(* captured is the data as of the id it was prepared for, each key as the  *)
(* last transaction before that id wrote it.                               *)
StableSnapshot == ByVersion /\ thread = "idle" /\ point > 0 => \A k \in Key : SavedAsOf(k)

(* So it is, whatever later transactions put and prune while it is made    *)
(* and however often checkpoints are prepared, if the capture did start    *)
(* with the version of its file and with all before it finished, for the   *)
(* keys that were not changed in place since.                              *)
CleanSnapshot ==
  ByVersion /\ thread = "idle" /\ clean =>
    \A k \in Key : ChangedSince(k, point) \/ SavedAsOf(k)

(* hobbes.h:110-111, with a filter: a checkpoint and the ones before it    *)
(* together have every key as the last transaction before the id left it,  *)
(* although only keys marked since the one before are written.             *)
FilterCatchesAll ==
  kind = "filtered" /\ thread = "idle" /\ clean /\ sound =>
    \A k \in Key : ChangedSince(k, 0) \/ SavedAsOf(k)

(* hobbes.cc:51: marking a key in the filters is safe among threads.       *)
FilterFound == Alive

(* The files of the other two hold the data as it was at one moment: when  *)
(* it was frozen, or when odd and even were flipped; for PingPong the file *)
(* merged with the earlier ones.  Not for keys changed in place since, nor *)
(* after two flips with no capture in between or with a key being changed. *)
FrozenSnapshot ==
  /\ kind \in {"naive", "pingpong"} /\ thread = "idle" /\ clean
  /\ kind = "pingpong" => sound /\ rounds = point
  => \A k \in Key : ChangedSince(k, frozen[k] + 1) \/ recovered[k] = frozen[k]

(* ping_pong.cc:76: the moment the arrays are flipped is a point of        *)
(* consistency, at which no transaction is half done.                      *)
PointOfConsistency ==
  kind = "pingpong" /\ frozen # [k \in Key |-> NULL] =>
    \A t \in 1..LastTxn : \A k, l \in Writes[t] : frozen[k] >= t => frozen[l] >= t

(* Whatever was pruned, by puts of others or by the capture, a running     *)
(* transaction still reads what the transaction before it wrote.           *)
ReadsKept ==
  \A t \in 1..locked : Running(t) =>
    \A k \in Writes[t] : <<t, k>> \notin putting \cup changing \cup written =>
      Content(k, Read(k, t)) = WriterBefore(k, t)

(* hobbes.h:35-36: at most one unstable version of each row, newer than    *)
(* the checkpoint in progress; a naive checkpointer keeps one version.     *)
OneUnstable ==
  \A k \in Key :
    /\ kind = "naive" => Len(objects[k]) <= 1
    /\ Hobbes /\ stable_ > 0 => Cardinality({i \in DOMAIN objects[k] : objects[k][i].version > stable_}) <= 1
=============================================================================
