-------------------------- MODULE CheckpointProofs --------------------------
(***************************************************************************)
(* Theorems about Checkpointing and, in the second half, CheckpointFiles:  *)
(* for all keys, transactions and checkpointers, whenever checkpoints are  *)
(* prepared and captured, and for any number of collapses and crashes.     *)
(***************************************************************************)
EXTENDS Checkpointing, CheckpointFiles, BasicLemmas, FiniteSetTheorems, SequenceTheorems, TLAPS

-----------------------------------------------------------------------------
(***************************************************************************)
(* Puts, prunings and captures (module Checkpointing): the order of the    *)
(* transactions, and what the rows keep.                                   *)
(***************************************************************************)

(* The pairs of a put that is done, or done but for GetMutable's caller.   *)
HasPut(u, k) == <<u, k>> \in changing \cup written

(* The lock manager's order: what a finished transaction writes is there,  *)
(* and what has been put or is being put is behind no unfinished           *)
(* transaction that writes some of the same.                               *)
TxnOrder ==
  /\ \A u \in finished : \A k \in Writes[u] : <<u, k>> \in written
  /\ \A u \in 1..LastTxn, k \in Key : <<u, k>> \in putting \/ HasPut(u, k) =>
       k \in Writes[u] /\ \A s \in 1..(u - 1) \ finished : Writes[s] \cap Writes[u] = {}

(* Buffers that a key's versions may share: the loaded one, and those of   *)
(* transactions that put one of their own.                                 *)
Used(k, b) == b = 0 \/ <<b, k>> \in written

(* A put is at one key at a time, and has the buffer that it puts.         *)
PutSteps ==
  \A u \in 1..LastTxn, k \in Key :
    /\ <<u, k>> \in putting =>
         at[u] # "out" /\ kind # "pingpong" /\ \A l \in Key : <<u, l>> \in putting => l = k
    /\ <<u, k>> \in changing => u \in InPlace
    /\ <<u, k>> \in putting \cup changing =>
         IF u \in InPlace THEN Used(k, buffer[u][k]) ELSE buffer[u][k] = u

(* What PruneRow will be given for a minimum.                              *)
MinimumKept ==
  \A u \in 1..LastTxn :
    /\ u > locked => at[u] = "out"
    /\ at[u] = "minimum" => Hobbes
    /\ at[u] = "prune" =>
         /\ kind # "multiversion"
         /\ kind = "naive" => minimum[u] = MINUS_MAX
         /\ Hobbes /\ stable_ > 0 /\ u >= stable_ => minimum[u] = stable_

(* A buffer that was put holds what its own transaction made, or what a    *)
(* later one wrote into it; nobody touches one that was not.               *)
BufferContents ==
  \A k \in Key : \A b \in 0..LastTxn :
    contents[k][b] = b \/ (Used(k, b) /\ <<contents[k][b], k>> \in written)

(* A row has the loaded version and versions that were put.                *)
RowEntries ==
  \A k \in Key : \A e \in Range(objects[k]) :
    /\ e.version = -1 \/ (e.version \in 1..LastTxn /\ HasPut(e.version, k))
    /\ Used(k, e.value)
    /\ <<e.version, k>> \in changing => e.value = buffer[e.version][k]

(* ... and what a version's buffer holds is its transaction's, or that of  *)
(* a later one that changed it in place.                                   *)
Writer(v) == IF v = -1 THEN 0 ELSE v
RowContents ==
  \A k \in Key : \A e \in Range(objects[k]) :
    \/ <<e.version, k>> \in changing
    \/ contents[k][e.value] = Writer(e.version)
    \/ /\ contents[k][e.value] \in InPlace /\ contents[k][e.value] > e.version
       /\ <<contents[k][e.value], k>> \in written

Busy(k) == \E u \in 1..LastTxn : <<u, k>> \in putting

(* A row has the last version put, unless somebody is about to replace it: *)
(* a put prunes what is there before it inserts.                           *)
NewestKept ==
  kind # "pingpong" => \A k \in Key :
    \/ Busy(k)
    \/ \E e \in Range(objects[k]) : \A u \in 1..LastTxn : HasPut(u, k) => u <= e.version

(* The same of APP_STATE, where nothing is pruned.                         *)
LastOn(k, w) ==
  /\ w = 0 \/ (w \in 1..LastTxn /\ <<w, k>> \in written)
  /\ \A u \in 1..LastTxn : HasPut(u, k) => u <= w
AppValue ==
  kind = "pingpong" => \A k \in Key :
    /\ Used(k, array.app[k])
    /\ \A u \in 1..LastTxn : <<u, k>> \in changing => array.app[k] = buffer[u][k]
    /\ (\A u \in 1..LastTxn : <<u, k>> \notin changing) => LastOn(k, contents[k][array.app[k]])

(* Those whose checkpoint is a version of the rows, and when they have not *)
(* captured a key yet.                                                     *)
Versioned == Hobbes \/ kind = "multiversion"
Wanted(k) == kind = "multiversion" \/ (thread = "scanning" => k \in to_scan)

(* Until then its row has the last version put before the checkpoint's,    *)
(* unless somebody before the checkpoint's is about to replace it.         *)
StableKept ==
  Versioned /\ stable_ > 0 => \A k \in Key : Wanted(k) =>
    \/ \E u \in 1..LastTxn : u < stable_ /\ <<u, k>> \in putting
    \/ \E e \in Range(objects[k]) :
         /\ e.version < stable_
         /\ \A u \in 1..LastTxn : u < stable_ /\ HasPut(u, k) => u <= e.version

(* What Put prunes down to: there is at most one version above it, and     *)
(* none while one is being put.                                            *)
Floor == IF kind = "naive" THEN MINUS_MAX ELSE stable_
OneAbove ==
  kind = "naive" \/ (Hobbes /\ stable_ > 0) => \A k \in Key :
    /\ \A e, f \in Range(objects[k]) : e.version > Floor /\ f.version > Floor => e.version = f.version
    /\ \A u \in 1..LastTxn :
         <<u, k>> \in putting /\ at[u] \notin {"minimum", "prune"} /\ u >= Floor =>
           \A e \in Range(objects[k]) : e.version <= Floor

Phases == thread \in {"zeroing", "swapping"} => kind = "filtered" /\ stable_ = MINUS_MAX

KeptInv ==
  /\ CheckpointTypeOK /\ TxnOrder /\ PutSteps /\ MinimumKept /\ BufferContents /\ RowEntries
  /\ RowContents /\ NewestKept /\ AppValue /\ StableKept /\ OneAbove /\ Phases

LEMMA Consts ==
  /\ LastTxn \in Nat /\ Lead \in Nat /\ NULL \notin Nat /\ InPlace \subseteq 1..LastTxn
  /\ \A t \in 1..LastTxn : Writes[t] \subseteq Key
  /\ Kinds \subseteq {"naive", "multiversion", "hobbes", "filtered", "pingpong"}
<1>1. LastTxn \in Nat /\ Lead \in Nat
  BY CheckpointAssumption
<1>2. NULL \notin Nat /\ InPlace \subseteq 1..LastTxn
  BY CheckpointAssumption
<1>3. Kinds \subseteq {"naive", "multiversion", "hobbes", "filtered", "pingpong"}
  BY CheckpointAssumption
<1>4. \A t \in 1..LastTxn : Writes[t] \subseteq Key
  BY CheckpointAssumption
<1>5. QED
  BY <1>1, <1>2, <1>3, <1>4

LEMMA Ranges ==
  CheckpointTypeOK =>
    /\ stable_ \in Int /\ locked \in Nat /\ locked <= LastTxn
    /\ \A t \in 1..locked : t \in 1..LastTxn /\ t \in 0..LastTxn /\ t \in Int /\ t > 0
    /\ \A k \in Key, t \in 1..LastTxn : buffer[t][k] \in 0..LastTxn
    /\ \A k \in Key, b \in 0..LastTxn : contents[k][b] \in 0..LastTxn
<1> SUFFICES ASSUME CheckpointTypeOK
             PROVE  /\ stable_ \in Int /\ locked \in Nat /\ locked <= LastTxn
                    /\ \A t \in 1..locked : t \in 1..LastTxn /\ t \in 0..LastTxn /\ t \in Int /\ t > 0
                    /\ \A k \in Key, t \in 1..LastTxn : buffer[t][k] \in 0..LastTxn
                    /\ \A k \in Key, b \in 0..LastTxn : contents[k][b] \in 0..LastTxn
  OBVIOUS
<1>1. stable_ \in Int
  BY Consts DEF CheckpointTypeOK, PrepareTypeOK, Versions_, MINUS_MAX
<1>2. /\ locked \in Nat /\ locked <= LastTxn
      /\ \A t \in 1..locked : t \in 1..LastTxn /\ t \in 0..LastTxn /\ t \in Int /\ t > 0
  BY Consts DEF CheckpointTypeOK, TxnTypeOK
<1>3. \A k \in Key, t \in 1..LastTxn : buffer[t][k] \in 0..LastTxn
  BY DEF CheckpointTypeOK, PutTypeOK
<1>4. \A k \in Key, b \in 0..LastTxn : contents[k][b] \in 0..LastTxn
  BY DEF CheckpointTypeOK, StoreTypeOK
<1>5. QED
  BY <1>1, <1>2, <1>3, <1>4

(* Who has put a key before another has finished.                          *)
LEMMA InOrder ==
  CheckpointTypeOK /\ TxnOrder =>
    \A k \in Key : \A s, u \in 1..LastTxn :
      s < u /\ k \in Writes[s] /\ <<u, k>> \in putting \cup changing \cup written =>
        s \in finished /\ <<s, k>> \in written /\ <<s, k>> \notin putting \cup changing
<1> SUFFICES ASSUME CheckpointTypeOK, TxnOrder, NEW k \in Key,
                    NEW s \in 1..LastTxn, NEW u \in 1..LastTxn,
                    s < u, k \in Writes[s], <<u, k>> \in putting \cup changing \cup written
             PROVE  s \in finished /\ <<s, k>> \in written /\ <<s, k>> \notin putting \cup changing
  OBVIOUS
<1>1. k \in Writes[u] /\ \A r \in 1..(u - 1) \ finished : Writes[r] \cap Writes[u] = {}
  BY DEF TxnOrder, HasPut
<1>2. s \in 1..(u - 1)
  BY Consts
<1>3. s \in finished
  BY <1>1, <1>2
<1>4. <<s, k>> \in written
  BY <1>3 DEF TxnOrder
<1>5. QED
  BY <1>3, <1>4 DEF CheckpointTypeOK, PutTypeOK

(* Nobody puts a key that a running transaction writes, and those that     *)
(* have put it are before the transaction.                                 *)
LEMMA RunningAlone ==
  CheckpointTypeOK /\ TxnOrder =>
    \A k \in Key : \A t, u \in 1..LastTxn :
      Running(t) /\ k \in Writes[t] /\ u # t /\ <<u, k>> \in putting \cup changing \cup written =>
        u < t /\ u \in finished /\ <<u, k>> \in written /\ <<u, k>> \notin putting \cup changing
<1> SUFFICES ASSUME CheckpointTypeOK, TxnOrder, NEW k \in Key,
                    NEW t \in 1..LastTxn, NEW u \in 1..LastTxn,
                    Running(t), k \in Writes[t], u # t, <<u, k>> \in putting \cup changing \cup written
             PROVE  /\ u < t /\ u \in finished /\ <<u, k>> \in written
                    /\ <<u, k>> \notin putting \cup changing
  OBVIOUS
<1>1. ~ (t < u)
  BY InOrder DEF Running
<1>2. u < t /\ u \in 1..(t - 1)
  BY <1>1, Consts
<1>3. k \in Writes[u]
  BY DEF TxnOrder, HasPut
<1>4. u \in finished
  BY <1>2, <1>3 DEF Running
<1>5. <<u, k>> \in written
  BY <1>3, <1>4 DEF TxnOrder
<1>6. QED
  BY <1>2, <1>4, <1>5 DEF CheckpointTypeOK, PutTypeOK

(* While one is at work on a key, all others that have been are before it  *)
(* and are done.                                                           *)
LEMMA AllBefore ==
  CheckpointTypeOK /\ TxnOrder =>
    \A k \in Key : \A t, u \in 1..LastTxn :
      <<t, k>> \in putting \cup changing /\ u # t /\ <<u, k>> \in putting \cup changing \cup written =>
        u < t /\ <<u, k>> \in written /\ <<u, k>> \notin putting \cup changing
<1> SUFFICES ASSUME CheckpointTypeOK, TxnOrder, NEW k \in Key,
                    NEW t \in 1..LastTxn, NEW u \in 1..LastTxn,
                    <<t, k>> \in putting \cup changing, u # t,
                    <<u, k>> \in putting \cup changing \cup written
             PROVE  u < t /\ <<u, k>> \in written /\ <<u, k>> \notin putting \cup changing
  OBVIOUS
<1>1. k \in Writes[t] /\ k \in Writes[u]
  BY DEF TxnOrder, HasPut
<1>2. ~ (t < u)
  BY <1>1, InOrder DEF CheckpointTypeOK, PutTypeOK
<1>3. u < t
  BY <1>2, Consts
<1>4. QED
  BY <1>1, <1>3, InOrder

-----------------------------------------------------------------------------
(* What the actions make of the rows.                                      *)

LEMMA RowFacts ==
  CheckpointTypeOK /\ RowEntries =>
    \A k \in Key :
      /\ RowType(objects[k], 0..LastTxn) /\ Descending(objects[k])
      /\ \A e \in Range(objects[k]) :
           e.version \in -1..LastTxn /\ e.version # 0 /\ e.version \in Int /\ e.value \in 0..LastTxn
<1> SUFFICES ASSUME CheckpointTypeOK, RowEntries, NEW k \in Key
             PROVE  /\ RowType(objects[k], 0..LastTxn) /\ Descending(objects[k])
                    /\ \A e \in Range(objects[k]) :
                         /\ e.version \in -1..LastTxn /\ e.version # 0 /\ e.version \in Int
                         /\ e.value \in 0..LastTxn
  OBVIOUS
<1>1. RowType(objects[k], 0..LastTxn) /\ Descending(objects[k])
  BY DEF CheckpointTypeOK, StoreTypeOK, RowType, EntryOf
<1>2. \A e \in Range(objects[k]) : e.version = -1 \/ e.version \in 1..LastTxn
  BY DEF RowEntries
<1>3. LastTxn \in Nat /\ written \subseteq (1..LastTxn) \X Key
  BY Consts, Ranges DEF CheckpointTypeOK, PutTypeOK
<1>4. \A e \in Range(objects[k]) : e.version \in -1..LastTxn /\ e.version # 0 /\ e.version \in Int
  BY <1>2, <1>3
<1>5. \A e \in Range(objects[k]) : e.value = 0 \/ <<e.value, k>> \in written
  BY DEF RowEntries, Used
<1>6. ASSUME NEW e \in Range(objects[k])
      PROVE  e.value \in 0..LastTxn
  <2>1. <<e.value, k>> \in written => e.value \in 1..LastTxn
    BY <1>3
  <2>2. QED
    BY <1>3, <1>5, <2>1
<1>7. QED
  BY <1>1, <1>4, <1>6

LEMMA PruneRow ==
  ASSUME CheckpointTypeOK, TxnOrder, RowEntries, NEW t \in 1..locked, NEW k \in Key, PrunePut(t, k)
  PROVE  /\ objects' \in [Key -> Seq([version : Int, value : 0..LastTxn])]
         /\ \A l \in Key : Descending(objects'[l])
         /\ \A l \in Key \ {k} : objects'[l] = objects[l]
         /\ \A l \in Key : Range(objects'[l]) \subseteq Range(objects[l])
         /\ \A e \in Range(objects[k]) : e.version <= minimum[t] => e \in Range(objects'[k])
         /\ \A e \in Range(objects'[k]) : e.version <= minimum[t]
<1> DEFINE left == Pruned(objects[k], t, TRUE, minimum[t], TRUE)
<1>1. objects' = [objects EXCEPT ![k] = left] /\ <<t, k>> \in putting
  BY DEF PrunePut
<1>2. /\ objects \in [Key -> Seq([version : Int, value : 0..LastTxn])]
      /\ \A l \in Key : Descending(objects[l])
      /\ RowType(objects[k], 0..LastTxn) /\ Descending(objects[k])
  BY RowFacts DEF CheckpointTypeOK, StoreTypeOK
<1>3. t \in Int /\ minimum[t] \in Int /\ t \in 1..LastTxn /\ LastTxn \in Nat
  BY Consts, Ranges DEF CheckpointTypeOK, PutTypeOK
<1>4. RowType(left, 0..LastTxn) /\ Descending(left)
  BY <1>2, <1>3, PrunedKeepsOrder, TRUE \in BOOLEAN
<1>5. /\ Range(left) \subseteq Range(objects[k])
      /\ \A e \in Range(objects[k]) : e.version > t \/ e.version <= minimum[t] => e \in Range(left)
      /\ \A e \in Range(left) : e.version > t \/ e.version <= minimum[t]
  BY <1>2, <1>3, PrunedEntries, TRUE \in BOOLEAN
<1>6. left \in Seq([version : Int, value : 0..LastTxn])
  BY <1>4 DEF RowType, EntryOf
<1> HIDE DEF left
<1>7. \A e \in Range(objects[k]) : ~ (e.version > t)
  <2>1. TAKE e \in Range(objects[k])
  <2>2. CASE e.version = -1
    BY <1>3, <2>2
  <2>3. CASE e.version \in 1..LastTxn /\ <<e.version, k>> \in changing \cup written
    <3>1. e.version = t \/ e.version < t
      BY <1>1, <1>3, <2>3, AllBefore
    <3>2. QED
      BY <1>3, <2>3, <3>1
  <2>4. QED
    BY <2>2, <2>3 DEF RowEntries, HasPut
<1>8. objects'[k] = left /\ \A l \in Key \ {k} : objects'[l] = objects[l]
  BY <1>1, <1>2
<1>9. objects' \in [Key -> Seq([version : Int, value : 0..LastTxn])]
  BY <1>1, <1>2, <1>6
<1>10. \A l \in Key : Descending(objects'[l])
  BY <1>2, <1>4, <1>8
<1>11. \A l \in Key : Range(objects'[l]) \subseteq Range(objects[l])
  BY <1>5, <1>8
<1>12. \A e \in Range(left) : e.version <= minimum[t]
  BY <1>5, <1>7
<1>13. QED
  BY <1>5, <1>8, <1>9, <1>10, <1>11, <1>12

LEMMA InsertRow ==
  ASSUME CheckpointTypeOK, TxnOrder, RowEntries, NEW t \in 1..locked, NEW k \in Key, Insert(t, k)
  PROVE  /\ objects' \in [Key -> Seq([version : Int, value : 0..LastTxn])]
         /\ \A l \in Key : Descending(objects'[l])
         /\ \A l \in Key \ {k} : objects'[l] = objects[l]
         /\ \A e : e \in Range(objects'[k]) <=>
                  e \in Range(objects[k]) \/ e = [version |-> t, value |-> buffer[t][k]]
         /\ \A e \in Range(objects[k]) : e.version # t
<1> DEFINE b == buffer[t][k]
           left == Inserted(objects[k], b, t)
<1>1. objects' = [objects EXCEPT ![k] = left] /\ <<t, k>> \in putting
  BY DEF Insert
<1>2. /\ objects \in [Key -> Seq([version : Int, value : 0..LastTxn])]
      /\ \A l \in Key : Descending(objects[l])
      /\ RowType(objects[k], 0..LastTxn) /\ Descending(objects[k])
  BY RowFacts DEF CheckpointTypeOK, StoreTypeOK
<1>3. t \in Int /\ t \in 1..LastTxn /\ b \in 0..LastTxn
  BY Ranges
<1> HIDE DEF b
<1>4. RowType(left, 0..LastTxn) /\ Descending(left)
  BY <1>2, <1>3, InsertedKeepsOrder
<1>5. \A e \in Range(objects[k]) : e.version # t
  <2>1. <<t, k>> \notin changing \cup written
    BY <1>1 DEF CheckpointTypeOK, PutTypeOK
  <2>2. QED
    BY <1>3, <2>1 DEF RowEntries, HasPut
<1>6. \A e : e \in Range(left) <=> e \in Range(objects[k]) \/ e = [version |-> t, value |-> b]
  BY <1>2, <1>3, <1>5, InsertedEntries
<1>7. left \in Seq([version : Int, value : 0..LastTxn])
  BY <1>4 DEF RowType, EntryOf
<1> HIDE DEF left
<1>8. objects'[k] = left /\ \A l \in Key \ {k} : objects'[l] = objects[l]
  BY <1>1, <1>2
<1>9. objects' \in [Key -> Seq([version : Int, value : 0..LastTxn])]
  BY <1>1, <1>2, <1>7
<1>10. \A l \in Key : Descending(objects'[l])
  BY <1>2, <1>4, <1>8
<1>11. QED
  BY <1>5, <1>6, <1>8, <1>9, <1>10 DEF b

LEMMA ScanRow ==
  ASSUME CheckpointTypeOK, RowEntries, NEW k \in Key, Scan(k)
  PROVE  /\ objects' \in [Key -> Seq([version : Int, value : 0..LastTxn])]
         /\ \A l \in Key : Descending(objects'[l])
         /\ \A l \in Key \ {k} : objects'[l] = objects[l]
         /\ \A l \in Key : Range(objects'[l]) \subseteq Range(objects[l])
         /\ ~ Hobbes => objects' = objects
         /\ \A e \in Range(objects[k]) :
              (\A f \in Range(objects[k]) : f.version <= e.version) => e \in Range(objects'[k])
<1> DEFINE left == PrunedByScan(k)
<1>1. objects' = IF Hobbes /\ Found(k) # NULL THEN [objects EXCEPT ![k] = left] ELSE objects
  BY DEF Scan
<1>2. /\ objects \in [Key -> Seq([version : Int, value : 0..LastTxn])]
      /\ \A l \in Key : Descending(objects[l])
      /\ RowType(objects[k], 0..LastTxn) /\ Descending(objects[k])
  BY RowFacts DEF CheckpointTypeOK, StoreTypeOK
<1>3. stable_ + 1 \in Int /\ MINUS_MAX \in Int /\ FALSE \in BOOLEAN /\ TRUE \in BOOLEAN
  BY Ranges DEF MINUS_MAX
<1>4. RowType(left, 0..LastTxn) /\ Descending(left)
  BY <1>2, <1>3, PrunedKeepsOrder DEF PrunedByScan
<1>5. /\ Range(left) \subseteq Range(objects[k])
      /\ \A e \in Range(objects[k]) :
           (\A f \in Range(objects[k]) : f.version <= e.version) => e \in Range(left)
  BY <1>2, <1>3, PrunedEntries DEF PrunedByScan
<1>6. left \in Seq([version : Int, value : 0..LastTxn])
  BY <1>4 DEF RowType, EntryOf
<1> HIDE DEF left
<1>7. CASE ~ (Hobbes /\ Found(k) # NULL)
  BY <1>1, <1>2, <1>7
<1>8. CASE Hobbes /\ Found(k) # NULL
  <2>1. objects' = [objects EXCEPT ![k] = left]
    BY <1>1, <1>8
  <2>2. objects'[k] = left /\ \A l \in Key \ {k} : objects'[l] = objects[l]
    BY <1>2, <2>1
  <2>3. objects' \in [Key -> Seq([version : Int, value : 0..LastTxn])]
    BY <1>2, <1>6, <2>1
  <2>4. \A l \in Key : Descending(objects'[l])
    BY <1>2, <1>4, <2>2
  <2>5. \A l \in Key : Range(objects'[l]) \subseteq Range(objects[l])
    BY <1>5, <2>2
  <2>6. QED
    BY <1>5, <1>8, <2>2, <2>3, <2>4, <2>5
<1>9. QED
  BY <1>7, <1>8

-----------------------------------------------------------------------------

(* The invariant holds initially, and every step keeps it.                 *)

LEMMA InitKept == Init => KeptInv
<1> SUFFICES ASSUME Init PROVE KeptInv
  OBVIOUS
<1> DEFINE loaded == [version |-> -1, value |-> 0]
<1>1. LastTxn \in Nat /\ Lead \in Nat
  BY Consts
<1>2. /\ loaded \in [version : Int, value : 0..LastTxn] /\ Range(<<loaded>>) = {loaded}
      /\ loaded.version = -1 /\ loaded.value = 0
  BY <1>1 DEF Range
<1>3. Range(<< >>) = {}
  BY DEF Range
<1>4. Descending(<< >>) /\ Descending(<<loaded>>)
  BY DEF Descending
<1>5. \A k \in Key : objects[k] = IF kind = "pingpong" THEN << >> ELSE <<loaded>>
  BY DEF Init
<1> HIDE DEF loaded
<1>6. objects \in [Key -> Seq([version : Int, value : 0..LastTxn])]
  <2> DEFINE S == [version : Int, value : 0..LastTxn]
             row == IF kind = "pingpong" THEN << >> ELSE <<loaded>>
  <2>1. loaded \in S
    BY <1>2
  <2> HIDE DEF S
  <2>2. << >> \in Seq(S) /\ <<loaded>> \in Seq(S)
    BY <2>1
  <2>3. row \in Seq(S)
    BY <2>2
  <2>4. objects = [k \in Key |-> row]
    BY DEF Init, loaded
  <2> HIDE DEF row
  <2>5. objects \in [Key -> Seq(S)]
    BY <2>3, <2>4
  <2>6. QED
    BY <2>5 DEF S
<1>7. \A k \in Key : Descending(objects[k])
  BY <1>4, <1>5
<1>8. \A k \in Key : \A e \in Range(objects[k]) : e.version = -1 /\ e.value = 0 /\ e = loaded
  BY <1>2, <1>3, <1>5
<1>9. \A k \in Key : kind # "pingpong" => loaded \in Range(objects[k])
  BY <1>2, <1>5
<1>10. /\ putting = {} /\ changing = {} /\ written = {} /\ finished = {} /\ thread = "idle"
       /\ stable_ = MINUS_MAX /\ ~ (stable_ > 0) /\ LastTxn \in Nat
       /\ \A k \in Key : \A b \in 0..LastTxn : contents[k][b] = b
  BY <1>1 DEF Init, MINUS_MAX
<1>11. CheckpointTypeOK
  <2>1. TxnTypeOK
    BY <1>1 DEF Init, TxnTypeOK
  <2>2. PutTypeOK
    <3>1. at \in [1..LastTxn -> Steps] /\ minimum \in [1..LastTxn -> Int]
      BY DEF Init, Steps, MINUS_MAX
    <3>2. buffer \in [1..LastTxn -> [Key -> 0..LastTxn]]
      BY <1>1 DEF Init
    <3>3. QED
      BY <1>10, <3>1, <3>2 DEF PutTypeOK
  <2>3. StoreTypeOK
    <3>1. contents \in [Key -> [0..LastTxn -> 0..LastTxn]]
      BY DEF Init
    <3>2. array \in [{"app", "odd", "even"} -> Data]
      BY <1>1 DEF Init, Data
    <3>3. dirty \in [{"odd", "even"} -> SUBSET Key]
      BY DEF Init
    <3>4. filter \in [{"stable", "unstable"} -> SUBSET Key]
      BY DEF Init
    <3>5. QED
      BY <1>6, <1>7, <3>1, <3>2, <3>3, <3>4 DEF StoreTypeOK
  <2>4. PrepareTypeOK
    BY DEF Init, PrepareTypeOK, Versions_
  <2>5. CaptureTypeOK
    <3>1. recovered \in Data /\ frozen \in Data
      BY DEF Init, Data
    <3>2. DOMAIN file \subseteq Key /\ file \in [DOMAIN file -> 0..LastTxn \cup {NULL}]
      BY DEF Init, NoFile
    <3>3. opened \in [Versions_ -> Nat] /\ created \in Nat
      BY DEF Init
    <3>4. thread \in {"idle", "scanning", "zeroing", "swapping"} /\ to_scan \subseteq Key
      BY <1>10 DEF Init
    <3>5. point \in Int
      BY DEF Init
    <3>6. clean \in BOOLEAN /\ sound \in BOOLEAN
      BY Zenon DEF Init
    <3>7. QED
      BY <3>1, <3>2, <3>3, <3>4, <3>5, <3>6, Zenon DEF CaptureTypeOK
  <2>6. QED
    BY <2>1, <2>2, <2>3, <2>4, <2>5 DEF CheckpointTypeOK
<1>12. TxnOrder /\ PutSteps
  BY <1>10 DEF TxnOrder, PutSteps, HasPut
<1>13. MinimumKept
  BY DEF Init, MinimumKept
<1>14. BufferContents
  BY <1>10 DEF BufferContents
<1>15. RowEntries
  BY <1>8, <1>10 DEF RowEntries, Used
<1>16. RowContents
  BY <1>1, <1>8, <1>10 DEF RowContents, Writer
<1>17. NewestKept
  BY <1>9, <1>10 DEF NewestKept, HasPut
<1>18. AppValue
  <2>1. \A k \in Key : array.app[k] = 0
    BY DEF Init
  <2>2. \A k \in Key : contents[k][array.app[k]] = 0
    BY <1>10, <2>1
  <2>3. QED
    BY <1>10, <2>1, <2>2 DEF AppValue, Used, LastOn, HasPut
<1>19. StableKept
  BY <1>10 DEF StableKept
<1>20. OneAbove
  <2>1. ASSUME NEW k \in Key, NEW e \in Range(objects[k]), NEW f \in Range(objects[k])
        PROVE  e.version = f.version
    BY <1>8
  <2>2. QED
    BY <1>10, <2>1 DEF OneAbove
<1>21. Phases
  BY <1>10 DEF Phases
<1>22. QED
  BY <1>11, <1>12, <1>13, <1>14, <1>15, <1>16, <1>17, <1>18, <1>19, <1>20, <1>21 DEF KeptInv

(* Facts about rows and puts that hold as long as those stay the same.     *)
LEMMA StoreKept ==
  ASSUME KeptInv, UNCHANGED <<kind, putting, changing, written, buffer, objects, contents, array>>,
         \A u \in 1..LastTxn : at'[u] = "out" => at[u] = "out"
  PROVE  PutSteps' /\ BufferContents' /\ RowEntries' /\ RowContents' /\ NewestKept' /\ AppValue'
<1> USE DEF KeptInv, HasPut, Used
<1>1. PutSteps'
  BY DEF PutSteps
<1>2. BufferContents'
  BY DEF BufferContents
<1>3. RowEntries'
  BY DEF RowEntries
<1>4. RowContents'
  BY DEF RowContents
<1>5. NewestKept'
  BY DEF NewestKept, Busy
<1>6. AppValue'
  BY DEF AppValue, LastOn
<1>7. QED
  BY <1>1, <1>2, <1>3, <1>4, <1>5, <1>6

LEMMA VersionsLocked ==
  KeptInv => \A k \in Key :
    /\ \A e \in Range(objects[k]) : e.version \in -1..locked
    /\ \A u \in 1..LastTxn : <<u, k>> \in putting \cup changing \cup written => u <= locked
<1> SUFFICES ASSUME KeptInv, NEW k \in Key
             PROVE  /\ \A e \in Range(objects[k]) : e.version \in -1..locked
                    /\ \A u \in 1..LastTxn : <<u, k>> \in putting \cup changing \cup written => u <= locked
  OBVIOUS
<1>1. LastTxn \in Nat /\ locked \in 0..LastTxn
  BY Consts DEF KeptInv, CheckpointTypeOK, TxnTypeOK
<1>2. \A u \in 1..LastTxn : <<u, k>> \in putting \cup changing \cup written => u <= locked
  BY <1>1 DEF KeptInv, CheckpointTypeOK, PutTypeOK
<1>3. ASSUME NEW e \in Range(objects[k])
      PROVE  e.version \in -1..locked
  <2>1. CASE e.version = -1
    BY <1>1, <2>1
  <2>2. CASE e.version \in 1..LastTxn /\ <<e.version, k>> \in changing \cup written
    BY <1>1, <1>2, <2>2
  <2>3. QED
    BY <2>1, <2>2 DEF KeptInv, RowEntries, HasPut
<1>4. QED
  BY <1>2, <1>3

LEMMA LockKept == ASSUME KeptInv, Lock PROVE KeptInv'
<1>1. /\ LastTxn \in Nat /\ Lead \in Nat /\ NULL \notin Nat
      /\ locked \in 0..LastTxn /\ locked < LastTxn /\ locked' = locked + 1
      /\ UNCHANGED <<kind, finished, putVars, storeVars, waitVars, threadVars, clean>>
  BY Consts DEF Lock, KeptInv, CheckpointTypeOK, TxnTypeOK
<1>2. /\ CheckpointTypeOK /\ TxnOrder /\ MinimumKept /\ StableKept /\ OneAbove /\ Phases /\ NewestKept
      /\ TxnTypeOK /\ PutTypeOK /\ StoreTypeOK /\ PrepareTypeOK /\ CaptureTypeOK
  BY DEF KeptInv, CheckpointTypeOK
<1>3. PutSteps' /\ BufferContents' /\ RowEntries' /\ RowContents' /\ NewestKept' /\ AppValue'
  BY <1>1, StoreKept DEF storeVars, putVars
<1>4. TxnOrder'
  BY <1>1, <1>2 DEF TxnOrder, HasPut, putVars
<1>5. TxnTypeOK' /\ PutTypeOK' /\ StoreTypeOK'
  <2>1. TxnTypeOK' /\ 1..locked \subseteq 1..locked'
    BY <1>1, <1>2 DEF TxnTypeOK
  <2>2. PutTypeOK'
    BY <1>1, <1>2, <2>1 DEF PutTypeOK, putVars
  <2>3. StoreTypeOK'
    BY <1>1, <1>2 DEF StoreTypeOK, storeVars
  <2>4. QED
    BY <2>1, <2>2, <2>3
<1>6. CASE UNCHANGED <<prepareVars, sound, frozen>>
  <2>1. CheckpointTypeOK'
    <3>1. PrepareTypeOK'
      BY <1>2, <1>6 DEF PrepareTypeOK, prepareVars
    <3>2. CaptureTypeOK'
      BY <1>1, <1>2, <1>6 DEF CaptureTypeOK, threadVars, waitVars
    <3>3. QED
      BY <1>5, <3>1, <3>2 DEF CheckpointTypeOK
  <2>2. StableKept'
    BY <1>1, <1>2, <1>6 DEF StableKept, Versioned, Hobbes, Wanted, HasPut,
                            putVars, storeVars, threadVars, prepareVars
  <2>5. MinimumKept' /\ Phases'
    BY <1>1, <1>2, <1>6 DEF MinimumKept, Hobbes, Phases, putVars, threadVars, prepareVars
  <2>3. OneAbove'
    BY <1>1, <1>2, <1>6 DEF OneAbove, Hobbes, Floor, putVars, storeVars, prepareVars
  <2>4. QED
    BY <1>3, <1>4, <2>1, <2>2, <2>3, <2>5 DEF KeptInv
<1>7. CASE Prepare(locked + 1)
  <2>1. /\ upcoming_checkpoint' = locked + 1 + Lead /\ rounds' = rounds + 1 /\ thread = "idle"
        /\ odd_is_being_updated_' \in BOOLEAN
        /\ Versioned => stable_' = locked + 1 + Lead
        /\ ~ Versioned => stable_' = stable_
        /\ sound' \in BOOLEAN
    BY <1>2, <1>7 DEF Prepare, Versioned, Hobbes, PrepareTypeOK, CaptureTypeOK
  <2>2. locked + 1 + Lead \in 1..(LastTxn + Lead) /\ locked < locked + 1 + Lead
    BY <1>1
  <2>3. frozen' \in Data
    <3>1. CASE kind = "pingpong"
      <4>1. frozen' = [k \in Key |-> Content(k, array.app[k])]
        BY <1>7, <3>1 DEF Prepare
      <4>2. array.app \in Data
        BY <1>2 DEF StoreTypeOK
      <4>3. \A k \in Key : Content(k, array.app[k]) \in 0..LastTxn \cup {NULL}
        BY <1>2, <4>2, Ranges DEF Content, Data
      <4>4. QED
        BY <4>1, <4>3 DEF Data
    <3>2. CASE kind # "pingpong"
      BY <1>2, <1>7, <3>2 DEF Prepare, CaptureTypeOK
    <3>3. QED
      BY <3>1, <3>2
  <2>4. CheckpointTypeOK'
    <3>1. PrepareTypeOK'
      BY <1>2, <2>1, <2>2 DEF PrepareTypeOK, Versions_
    <3>2. CaptureTypeOK'
      BY <1>1, <1>2, <2>1, <2>3 DEF CaptureTypeOK, threadVars, waitVars
    <3>3. QED
      BY <1>5, <3>1, <3>2 DEF CheckpointTypeOK
  <2>5. StableKept'
    <3> SUFFICES ASSUME Versioned, NEW k \in Key
                 PROVE  \/ \E u \in 1..LastTxn : u < stable_' /\ <<u, k>> \in putting
                        \/ \E e \in Range(objects[k]) :
                             /\ e.version < stable_'
                             /\ \A u \in 1..LastTxn : u < stable_' /\ HasPut(u, k) => u <= e.version
      BY <1>1 DEF StableKept, Versioned, Hobbes, HasPut, putVars, storeVars
    <3>1. stable_' > locked /\ stable_' \in Int
      BY <1>1, <2>1, <2>2
    <3>2. kind # "pingpong"
      BY DEF Versioned, Hobbes
    <3>3. CASE Busy(k)
      <4>1. PICK u \in 1..LastTxn : <<u, k>> \in putting
        BY <3>3 DEF Busy
      <4>2. u <= locked
        BY <4>1, VersionsLocked
      <4>3. u < stable_'
        BY <1>1, <3>1, <4>2
      <4>4. QED
        BY <4>1, <4>3
    <3>4. CASE ~ Busy(k)
      <4>1. PICK e \in Range(objects[k]) : \A u \in 1..LastTxn : HasPut(u, k) => u <= e.version
        BY <1>2, <3>2, <3>4 DEF NewestKept
      <4>2. e.version \in -1..locked
        BY VersionsLocked
      <4>3. e.version < stable_'
        BY <1>1, <3>1, <4>2
      <4>4. QED
        BY <4>1, <4>3
    <3>5. QED
      BY <3>3, <3>4
  <2>6. OneAbove'
    <3>1. CASE kind = "naive"
      <4>1. OneAbove' <=> OneAbove
        BY <1>1, <3>1 DEF OneAbove, Hobbes, Floor, putVars, storeVars
      <4>2. QED
        BY <1>2, <4>1
    <3>2. CASE Hobbes
      <4>1. stable_' > locked /\ stable_' \in Int /\ Floor' = stable_' /\ locked \in Int
        BY <1>1, <2>1, <2>2, <3>2 DEF Versioned, Hobbes, Floor
      <4>2. ASSUME NEW k \in Key
            PROVE  /\ \A e \in Range(objects[k]) : e.version <= stable_' /\ ~ (e.version > stable_')
                   /\ \A u \in 1..LastTxn : <<u, k>> \in putting => ~ (u >= stable_')
        <5>1. ASSUME NEW e \in Range(objects[k])
              PROVE  e.version <= stable_' /\ ~ (e.version > stable_')
          <6>1. e.version \in -1..locked
            BY VersionsLocked
          <6>2. QED
            BY <4>1, <6>1
        <5>2. ASSUME NEW u \in 1..LastTxn, <<u, k>> \in putting
              PROVE  ~ (u >= stable_')
          <6>1. u <= locked
            BY <5>2, VersionsLocked
          <6>2. QED
            BY <4>1, <6>1
        <5>3. QED
          BY <5>1, <5>2
      <4>3. QED
        BY <1>1, <4>1, <4>2 DEF OneAbove, putVars, storeVars
    <3>3. CASE kind # "naive" /\ ~ Hobbes
      BY <1>1, <3>3 DEF OneAbove, Hobbes
    <3>4. QED
      BY <3>1, <3>2, <3>3
  <2>7. Phases'
    BY <1>1, <2>1 DEF Phases, threadVars
  <2>8. MinimumKept'
    <3>1. CASE ~ Versioned
      BY <1>1, <1>2, <2>1, <3>1, Consts DEF MinimumKept, Hobbes, Versioned, putVars
    <3>2. CASE Versioned
      <4>1. ASSUME NEW u \in 1..LastTxn, at[u] = "prune"
            PROVE  u <= locked
        BY <1>1, <1>2, <4>1 DEF MinimumKept
      <4>2. stable_' > locked /\ stable_' \in Int
        BY <1>1, <2>1, <2>2, <3>2
      <4>3. QED
        BY <1>1, <1>2, <4>1, <4>2, <2>1, <3>2 DEF MinimumKept, Hobbes, putVars
    <3>3. QED
      BY <3>1, <3>2
  <2>9. QED
    BY <1>3, <1>4, <2>4, <2>5, <2>6, <2>7, <2>8 DEF KeptInv
<1>8. QED
  BY <1>1, <1>6, <1>7 DEF Lock

LEMMA FinishKept == ASSUME KeptInv, NEW t \in 1..locked, Finish(t) PROVE KeptInv'
<1>1. /\ Running(t) /\ (\A k \in Writes[t] : <<t, k>> \in written)
      /\ finished' = finished \cup {t}
      /\ UNCHANGED <<kind, locked, putVars, storeVars, odd_is_being_updated_, stable_, rounds,
                     opened, threadVars, seenVars>>
  BY DEF Finish
<1>2. \/ UNCHANGED <<upcoming_checkpoint, created>>
      \/ upcoming_checkpoint' = NULL /\ created' = created + 1
  BY DEF Finish
<1>3. /\ TxnOrder /\ MinimumKept /\ StableKept /\ OneAbove /\ Phases
      /\ TxnTypeOK /\ PutTypeOK /\ StoreTypeOK /\ PrepareTypeOK /\ CaptureTypeOK
  BY DEF KeptInv, CheckpointTypeOK
<1>4. PutSteps' /\ BufferContents' /\ RowEntries' /\ RowContents' /\ NewestKept' /\ AppValue'
  BY <1>1, StoreKept DEF storeVars, putVars
<1>5. TxnOrder'
  BY <1>1, <1>3 DEF TxnOrder, HasPut, putVars
<1>6. CheckpointTypeOK'
  <2>1. TxnTypeOK'
    BY <1>1, <1>3 DEF TxnTypeOK
  <2>2. PutTypeOK' /\ StoreTypeOK'
    BY <1>1, <1>3 DEF PutTypeOK, StoreTypeOK, putVars, storeVars
  <2>3. PrepareTypeOK'
    BY <1>1, <1>2, <1>3 DEF PrepareTypeOK
  <2>4. CaptureTypeOK'
    BY <1>1, <1>2, <1>3 DEF CaptureTypeOK, threadVars, seenVars
  <2>5. QED
    BY <2>1, <2>2, <2>3, <2>4 DEF CheckpointTypeOK
<1>7. StableKept' /\ MinimumKept' /\ Phases'
  BY <1>1, <1>3 DEF StableKept, Versioned, Hobbes, Wanted, HasPut, MinimumKept, Phases,
                    putVars, storeVars, threadVars
<1>8. OneAbove'
  BY <1>1, <1>3 DEF OneAbove, Hobbes, Floor, putVars, storeVars
<1>9. QED
  BY <1>4, <1>5, <1>6, <1>7, <1>8 DEF KeptInv

(* A buffer that a transaction reads is one of its key's.                  *)
LEMMA TargetUsed ==
  ASSUME KeptInv, NEW t \in 1..locked, NEW k \in Key, Target(t, k) # NULL
  PROVE  /\ Target(t, k) \in 0..LastTxn
         /\ IF t \in InPlace THEN Used(k, Target(t, k)) ELSE Target(t, k) = t
<1>1. /\ t \in 1..LastTxn /\ t \in Int /\ LastTxn \in Nat
      /\ \A b : Used(k, b) => b \in 0..LastTxn
  <2>1. t \in 1..LastTxn /\ t \in Int /\ LastTxn \in Nat /\ CheckpointTypeOK
    BY Consts, Ranges DEF KeptInv
  <2>2. \A b : <<b, k>> \in written => b \in 1..LastTxn
    BY <2>1, Ranges DEF CheckpointTypeOK, PutTypeOK
  <2>3. QED
    BY <2>1, <2>2 DEF Used
<1>2. CASE t \notin InPlace
  BY <1>1, <1>2 DEF Target
<1>3. CASE t \in InPlace /\ kind = "pingpong"
  <2>1. Used(k, array.app[k])
    BY <1>3 DEF KeptInv, AppValue
  <2>2. QED
    BY <1>1, <1>3, <2>1 DEF Target, Read
<1>4. CASE t \in InPlace /\ kind # "pingpong"
  <2>1. Target(t, k) = Get(objects[k], t)
    BY <1>4 DEF Target, Read
  <2>2. RowType(objects[k], 0..LastTxn)
    BY RowFacts DEF KeptInv
  <2>3. PICK e \in Range(objects[k]) : Get(objects[k], t) = e.value
    BY <1>1, <2>1, <2>2, GetFrom
  <2>4. Used(k, e.value)
    BY <2>3 DEF KeptInv, RowEntries
  <2>5. QED
    BY <1>1, <1>4, <2>1, <2>3, <2>4
<1>5. QED
  BY <1>2, <1>3, <1>4

(* PingPong's puts go to its arrays: APP_STATE and the one being updated.  *)
LEMMA PingPut ==
  ASSUME KeptInv, NEW t \in 1..locked, NEW k \in Key, HandlePut(t, k), kind = "pingpong"
  PROVE  /\ array' \in [{"app", "odd", "even"} -> Data] /\ dirty' \in [{"odd", "even"} -> SUBSET Key]
         /\ \A l \in Key :
              /\ array'.app[l] = IF l = k THEN Target(t, k) ELSE array.app[l]
              /\ array'[Updated][l] = IF l = k THEN Target(t, k) ELSE array[Updated][l]
         /\ dirty'[Updated] = dirty[Updated] \cup {k}
         /\ array'[Captured] = array[Captured] /\ dirty'[Captured] = dirty[Captured]
<1> DEFINE b == Target(t, k)
<1>1. /\ array' = [array EXCEPT !.app[k] = b, ![Updated][k] = b]
      /\ dirty' = [dirty EXCEPT ![Updated] = @ \cup {k}]
  BY DEF HandlePut
<1>2. array \in [{"app", "odd", "even"} -> Data] /\ dirty \in [{"odd", "even"} -> SUBSET Key]
  BY DEF KeptInv, CheckpointTypeOK, StoreTypeOK
<1>3. b \in 0..LastTxn
  BY TargetUsed DEF HandlePut
<1> HIDE DEF b
<1>4. /\ array.app \in Data /\ array.odd \in Data /\ array.even \in Data
      /\ [array.app EXCEPT ![k] = b] \in Data
      /\ [array.odd EXCEPT ![k] = b] \in Data
      /\ [array.even EXCEPT ![k] = b] \in Data
  BY <1>2, <1>3 DEF Data
<1>5. CASE odd_is_being_updated_
  <2>1. Updated = "odd" /\ Captured = "even"
    BY <1>5 DEF Updated, Captured
  <2>2. array' = [array EXCEPT !.app = [array.app EXCEPT ![k] = b],
                               !.odd = [array.odd EXCEPT ![k] = b]]
    BY <1>1, <1>2, <2>1
  <2>3. /\ array' \in [{"app", "odd", "even"} -> Data] /\ array'.even = array.even
        /\ array'.app = [array.app EXCEPT ![k] = b]
        /\ array'.odd = [array.odd EXCEPT ![k] = b]
    BY <1>2, <1>4, <2>2
  <2>4. /\ dirty' \in [{"odd", "even"} -> SUBSET Key]
        /\ dirty'["odd"] = dirty["odd"] \cup {k} /\ dirty'["even"] = dirty["even"]
    BY <1>1, <1>2, <2>1
  <2>5. QED
    BY <1>4, <2>1, <2>3, <2>4 DEF Data, b
<1>6. CASE ~ odd_is_being_updated_
  <2>1. Updated = "even" /\ Captured = "odd"
    BY <1>6 DEF Updated, Captured
  <2>2. array' = [array EXCEPT !.app = [array.app EXCEPT ![k] = b],
                               !.even = [array.even EXCEPT ![k] = b]]
    BY <1>1, <1>2, <2>1
  <2>3. /\ array' \in [{"app", "odd", "even"} -> Data] /\ array'.odd = array.odd
        /\ array'.app = [array.app EXCEPT ![k] = b]
        /\ array'.even = [array.even EXCEPT ![k] = b]
    BY <1>2, <1>4, <2>2
  <2>4. /\ dirty' \in [{"odd", "even"} -> SUBSET Key]
        /\ dirty'["even"] = dirty["even"] \cup {k} /\ dirty'["odd"] = dirty["odd"]
    BY <1>1, <1>2, <2>1
  <2>5. QED
    BY <1>4, <2>1, <2>3, <2>4 DEF Data, b
<1>7. QED
  BY <1>5, <1>6

(* What every put does to the order of the transactions and to buffer.     *)
LEMMA PutStarts ==
  ASSUME KeptInv, NEW t \in 1..locked, NEW k \in Key, HandlePut(t, k)
  PROVE  /\ TxnOrder' /\ buffer' \in [1..LastTxn -> [Key -> 0..LastTxn]]
         /\ \A u \in 1..LastTxn, l \in Key : <<u, l>> # <<t, k>> => buffer'[u][l] = buffer[u][l]
         /\ buffer'[t][k] = Target(t, k) /\ \A l \in Key : <<t, l>> \notin putting
<1>1. /\ Running(t) /\ k \in Writes[t] /\ <<t, k>> \notin changing \cup written /\ at[t] = "out"
      /\ buffer' = [buffer EXCEPT ![t][k] = Target(t, k)] /\ Target(t, k) # NULL
      /\ UNCHANGED <<locked, finished>>
      /\ putting' \cup changing' \cup written' = putting \cup changing \cup written \cup {<<t, k>>}
      /\ written \subseteq written'
  BY DEF HandlePut, txnVars
<1>2. /\ CheckpointTypeOK /\ TxnOrder /\ PutSteps /\ t \in 1..LastTxn
      /\ buffer \in [1..LastTxn -> [Key -> 0..LastTxn]]
  BY Ranges DEF KeptInv, CheckpointTypeOK, PutTypeOK
<1>3. Target(t, k) \in 0..LastTxn
  BY <1>1, TargetUsed
<1>4. TxnOrder'
  <2>1. ASSUME NEW u \in 1..LastTxn, NEW l \in Key,
               <<u, l>> \in putting \cup changing \cup written \cup {<<t, k>>}
        PROVE  l \in Writes[u] /\ \A s \in 1..(u - 1) \ finished : Writes[s] \cap Writes[u] = {}
    <3>1. CASE <<u, l>> = <<t, k>>
      BY <1>1, <3>1 DEF Running
    <3>2. CASE <<u, l>> # <<t, k>>
      BY <1>2, <2>1, <3>2 DEF TxnOrder, HasPut
    <3>3. QED
      BY <3>1, <3>2
  <2>2. \A u \in finished : \A l \in Writes[u] : <<u, l>> \in written'
    BY <1>1, <1>2 DEF TxnOrder
  <2>3. QED
    BY <1>1, <2>1, <2>2 DEF TxnOrder, HasPut
<1>5. /\ buffer' \in [1..LastTxn -> [Key -> 0..LastTxn]]
      /\ \A u \in 1..LastTxn, l \in Key : <<u, l>> # <<t, k>> => buffer'[u][l] = buffer[u][l]
      /\ buffer'[t][k] = Target(t, k)
  BY <1>1, <1>2, <1>3
<1>6. \A l \in Key : <<t, l>> \notin putting
  BY <1>1, <1>2 DEF PutSteps
<1>7. QED
  BY <1>4, <1>5, <1>6

LEMMA PingPutKept ==
  ASSUME KeptInv, NEW t \in 1..locked, NEW k \in Key, HandlePut(t, k), kind = "pingpong"
  PROVE  KeptInv'
<1>1. /\ Running(t) /\ k \in Writes[t] /\ <<t, k>> \notin changing \cup written
      /\ IF t \in InPlace THEN changing' = changing \cup {<<t, k>>} /\ written' = written
         ELSE written' = written \cup {<<t, k>>} /\ changing' = changing
      /\ UNCHANGED <<kind, txnVars, putting, at, minimum, objects, contents, filter, prepareVars,
                     waitVars, threadVars, seenVars>>
      /\ Target(t, k) # NULL
  BY DEF HandlePut
<1>2. /\ CheckpointTypeOK /\ TxnOrder /\ PutSteps /\ MinimumKept /\ BufferContents /\ RowEntries
      /\ RowContents /\ AppValue /\ Phases
      /\ TxnTypeOK /\ PutTypeOK /\ StoreTypeOK /\ PrepareTypeOK /\ CaptureTypeOK
  BY DEF KeptInv, CheckpointTypeOK
<1>3. t \in 1..LastTxn /\ t \in 0..LastTxn /\ t > 0 /\ \A l \in Key : \A u \in 1..LastTxn : <<u, l>> \notin putting
  BY <1>2, Ranges DEF PutSteps
<1>4. /\ array' \in [{"app", "odd", "even"} -> Data] /\ dirty' \in [{"odd", "even"} -> SUBSET Key]
      /\ \A l \in Key : array'.app[l] = IF l = k THEN Target(t, k) ELSE array.app[l]
  BY PingPut
<1>5. /\ TxnOrder' /\ buffer' \in [1..LastTxn -> [Key -> 0..LastTxn]]
      /\ \A u \in 1..LastTxn, l \in Key : <<u, l>> # <<t, k>> => buffer'[u][l] = buffer[u][l]
      /\ buffer'[t][k] = Target(t, k)
  BY PutStarts
<1>6. IF t \in InPlace THEN Used(k, Target(t, k)) ELSE Target(t, k) = t
  BY <1>1, TargetUsed
<1>7. CheckpointTypeOK'
  <2>1. TxnTypeOK' /\ PrepareTypeOK' /\ CaptureTypeOK'
    BY <1>1, <1>2 DEF TxnTypeOK, PrepareTypeOK, CaptureTypeOK, txnVars, prepareVars, waitVars,
                      threadVars, seenVars
  <2>2. StoreTypeOK'
    BY <1>1, <1>2, <1>4 DEF StoreTypeOK
  <2>3. PutTypeOK'
    <3>1. <<t, k>> \notin putting
      BY <1>3
    <3>2. /\ changing' \subseteq (1..locked) \X Key /\ written' \subseteq (1..locked) \X Key
          /\ changing' \cap written' = {} /\ putting' \cap changing' = {} /\ putting' \cap written' = {}
      BY <1>1, <1>2, <3>1 DEF PutTypeOK
    <3>3. QED
      BY <1>1, <1>2, <1>5, <3>2 DEF PutTypeOK, txnVars
  <2>4. QED
    BY <2>1, <2>2, <2>3 DEF CheckpointTypeOK
<1>8. \A l, b : Used(l, b) => Used(l, b)'
  BY <1>1 DEF Used
<1>9. PutSteps'
  <2> SUFFICES ASSUME NEW u \in 1..LastTxn, NEW l \in Key
               PROVE  /\ <<u, l>> \notin putting'
                      /\ <<u, l>> \in changing' =>
                           u \in InPlace /\ (buffer'[u][l] = 0 \/ <<buffer'[u][l], l>> \in written')
    BY DEF PutSteps, Used
  <2>1. <<u, l>> \notin putting'
    BY <1>1, <1>3
  <2>2. CASE <<u, l>> = <<t, k>>
    <3>1. u = t /\ l = k
      BY <2>2
    <3>2. t \in InPlace => Target(t, k) = 0 \/ <<Target(t, k), k>> \in written'
      BY <1>6, <1>1 DEF Used
    <3>3. <<t, k>> \in changing' => t \in InPlace
      BY <1>1
    <3>4. QED
      BY <1>5, <2>1, <3>1, <3>2, <3>3
  <2>3. CASE <<u, l>> # <<t, k>>
    <3>1. <<u, l>> \in changing' => <<u, l>> \in changing /\ buffer'[u][l] = buffer[u][l]
      BY <1>1, <1>5, <2>3
    <3>2. <<u, l>> \in changing => u \in InPlace /\ Used(l, buffer[u][l])
      BY <1>2 DEF PutSteps
    <3>3. QED
      BY <1>1, <2>1, <3>1, <3>2 DEF Used
  <2>4. QED
    BY <2>2, <2>3
<1>10. MinimumKept' /\ Phases'
  BY <1>1, <1>2 DEF MinimumKept, Phases, Hobbes, txnVars, prepareVars, threadVars
<1>11. BufferContents'
  BY <1>1, <1>2, <1>8 DEF BufferContents, Used
<1>12. RowEntries' /\ RowContents'
  <2>1. RowEntries'
    <3> SUFFICES ASSUME NEW l \in Key, NEW e \in Range(objects[l])
                 PROVE  /\ e.version = -1 \/ (e.version \in 1..LastTxn /\ HasPut(e.version, l)')
                        /\ Used(l, e.value)'
                        /\ <<e.version, l>> \in changing' => e.value = buffer'[e.version][l]
      BY <1>1 DEF RowEntries, HasPut, Used
    <3>1. /\ e.version = -1 \/ (e.version \in 1..LastTxn /\ HasPut(e.version, l))
          /\ Used(l, e.value)
          /\ <<e.version, l>> \in changing => e.value = buffer[e.version][l]
      BY <1>2 DEF RowEntries
    <3>2. <<e.version, l>> # <<t, k>>
      BY <1>1, <1>3, <3>1 DEF HasPut
    <3>3. -1 \notin 1..LastTxn
      BY Consts
    <3>4. changing' \subseteq (1..LastTxn) \X Key
      BY <1>7, <1>1, Ranges, <1>2 DEF CheckpointTypeOK, PutTypeOK, txnVars
    <3>5. <<e.version, l>> \in changing' => <<e.version, l>> \in changing /\ e.version \in 1..LastTxn
      BY <1>1, <3>2, <3>4
    <3>6. QED
      BY <1>1, <1>5, <3>1, <3>2, <3>5 DEF HasPut, Used
  <2>2. RowContents'
    BY <1>1, <1>2 DEF RowContents
  <2>3. QED
    BY <2>1, <2>2
<1>13. NewestKept' /\ StableKept' /\ OneAbove'
  BY <1>1 DEF NewestKept, StableKept, OneAbove, Versioned, Hobbes
<1>14. ASSUME NEW u \in 1..LastTxn, u # t, HasPut(u, k)
       PROVE  u < t /\ <<u, k>> \notin changing
  BY <1>1, <1>2, <1>3, <1>14, RunningAlone DEF HasPut
<1>15. AppValue'
  <2> DEFINE LastNow(l, w) ==
               /\ w = 0 \/ (w \in 1..LastTxn /\ <<w, l>> \in written')
               /\ \A u \in 1..LastTxn : <<u, l>> \in changing' \cup written' => u <= w
  <2> SUFFICES ASSUME NEW l \in Key
               PROVE  /\ array'.app[l] = 0 \/ <<array'.app[l], l>> \in written'
                      /\ \A u \in 1..LastTxn : <<u, l>> \in changing' => array'.app[l] = buffer'[u][l]
                      /\ (\A u \in 1..LastTxn : <<u, l>> \notin changing') =>
                            LastNow(l, contents[l][array'.app[l]])
    BY <1>1 DEF AppValue, Used, LastOn, HasPut
  <2>1. /\ Used(l, array.app[l])
        /\ \A u \in 1..LastTxn : <<u, l>> \in changing => array.app[l] = buffer[u][l]
        /\ (\A u \in 1..LastTxn : <<u, l>> \notin changing) => LastOn(l, contents[l][array.app[l]])
    BY <1>2 DEF AppValue
  <2>2. CASE l # k
    <3>1. array'.app[l] = array.app[l]
      BY <1>4, <2>2
    <3>2. \A u \in 1..LastTxn : /\ <<u, l>> \in changing' <=> <<u, l>> \in changing
                                /\ <<u, l>> \in written' <=> <<u, l>> \in written
                                /\ buffer'[u][l] = buffer[u][l]
      <4>1. TAKE u \in 1..LastTxn
      <4>2. <<u, l>> # <<t, k>>
        BY <2>2
      <4>3. buffer'[u][l] = buffer[u][l]
        BY <1>5, <4>2
      <4>4. /\ <<u, l>> \in changing' <=> <<u, l>> \in changing
            /\ <<u, l>> \in written' <=> <<u, l>> \in written
        BY <1>1, <4>2
      <4>5. QED
        BY <4>3, <4>4
    <3>3. \A w : LastOn(l, w) => LastNow(l, w)
      <4> SUFFICES ASSUME NEW w, LastOn(l, w) PROVE LastNow(l, w)
        OBVIOUS
      <4>1. w = 0 \/ (w \in 1..LastTxn /\ <<w, l>> \in written')
        BY <3>2 DEF LastOn
      <4>2. \A u \in 1..LastTxn : <<u, l>> \in changing' \cup written' => HasPut(u, l)
        BY <3>2 DEF HasPut
      <4>3. QED
        BY <4>1, <4>2 DEF LastOn
    <3>4. array'.app[l] = 0 \/ <<array'.app[l], l>> \in written'
      BY <1>1, <2>1, <3>1 DEF Used
    <3>5. (\A u \in 1..LastTxn : <<u, l>> \notin changing') =>
             LastNow(l, contents[l][array'.app[l]])
      BY <2>1, <3>1, <3>2, <3>3
    <3>6. QED
      BY <2>1, <3>1, <3>2, <3>4, <3>5
  <2>3. CASE l = k /\ t \in InPlace
    <3>1. array'.app[l] = Target(t, k) /\ <<t, k>> \in changing' /\ Used(k, Target(t, k))
      BY <1>1, <1>4, <1>6, <2>3
    <3>2. \A u \in 1..LastTxn : <<u, k>> \in changing' => u = t
      BY <1>1, <1>14 DEF HasPut
    <3>3. array'.app[l] = 0 \/ <<array'.app[l], l>> \in written'
      BY <1>1, <2>3, <3>1 DEF Used
    <3>4. \A u \in 1..LastTxn : <<u, l>> \in changing' => array'.app[l] = buffer'[u][l]
      BY <1>5, <2>3, <3>1, <3>2
    <3>5. QED
      BY <1>3, <2>3, <3>1, <3>3, <3>4
  <2>4. CASE l = k /\ t \notin InPlace
    <3>1. array'.app[l] = t /\ <<t, k>> \in written' /\ changing' = changing
      BY <1>1, <1>4, <1>6, <2>4
    <3>2. contents[k][t] = t
      <4>1. ~ Used(k, t)
        BY <1>1, <1>3 DEF Used
      <4>2. QED
        BY <1>2, <1>3, <4>1 DEF BufferContents
    <3>3. LastNow(k, t)
      <4>1. \A u \in 1..LastTxn : <<u, k>> \in changing' \cup written' => u <= t
        <5>1. TAKE u \in 1..LastTxn
        <5>2. CASE u = t
          BY <1>3, <5>2
        <5>3. CASE u # t
          <6>1. <<u, k>> \in changing' \cup written' => HasPut(u, k)
            BY <1>1, <5>3 DEF HasPut
          <6>2. QED
            BY <1>3, <1>14, <5>3, <6>1
        <5>4. QED
          BY <5>2, <5>3
      <4>2. QED
        BY <1>3, <3>1, <4>1
    <3>4. \A u \in 1..LastTxn : <<u, k>> \notin changing'
      BY <1>1, <1>14, <3>1 DEF HasPut
    <3>5. QED
      BY <2>4, <3>1, <3>2, <3>3, <3>4
  <2>5. QED
    BY <2>2, <2>3, <2>4
<1>16. QED
  BY <1>5, <1>7, <1>9, <1>10, <1>11, <1>12, <1>13, <1>15 DEF KeptInv

(* A put of another checkpointer begins.                                   *)
LEMMA PutKept ==
  ASSUME KeptInv, NEW t \in 1..locked, NEW k \in Key, HandlePut(t, k), kind # "pingpong"
  PROVE  KeptInv'
<1>1. /\ Running(t) /\ k \in Writes[t] /\ at[t] = "out"
      /\ <<t, k>> \notin changing \cup written
      /\ putting' = putting \cup {<<t, k>>}
      /\ at' = [at EXCEPT ![t] = IF kind = "multiversion" THEN "insert"
                                 ELSE IF Hobbes /\ IsNewer(t) THEN "minimum" ELSE "prune"]
      /\ minimum' = [minimum EXCEPT ![t] = MINUS_MAX]
      /\ UNCHANGED <<kind, txnVars, changing, written, array, dirty, objects, contents, filter,
                     prepareVars, waitVars, threadVars, seenVars>>
      /\ Target(t, k) # NULL
  BY DEF HandlePut
<1>2. /\ CheckpointTypeOK /\ TxnOrder /\ PutSteps /\ MinimumKept /\ BufferContents /\ RowEntries
      /\ RowContents /\ AppValue /\ Phases /\ StableKept /\ OneAbove /\ NewestKept
      /\ TxnTypeOK /\ PutTypeOK /\ StoreTypeOK /\ PrepareTypeOK /\ CaptureTypeOK
  BY DEF KeptInv, CheckpointTypeOK
<1>3. t \in 1..LastTxn /\ t > 0 /\ t \in Int /\ stable_ \in Int
  BY <1>2, Ranges
<1>4. /\ TxnOrder' /\ buffer' \in [1..LastTxn -> [Key -> 0..LastTxn]]
      /\ \A u \in 1..LastTxn, l \in Key : <<u, l>> # <<t, k>> => buffer'[u][l] = buffer[u][l]
      /\ buffer'[t][k] = Target(t, k) /\ \A l \in Key : <<t, l>> \notin putting
  BY PutStarts
<1>5. IF t \in InPlace THEN Used(k, Target(t, k)) ELSE Target(t, k) = t
  BY <1>1, TargetUsed
<1>7. CheckpointTypeOK'
  <2>1. TxnTypeOK' /\ PrepareTypeOK' /\ CaptureTypeOK'
    BY <1>1, <1>2 DEF TxnTypeOK, PrepareTypeOK, CaptureTypeOK, txnVars, prepareVars, waitVars,
                      threadVars, seenVars
  <2>2. StoreTypeOK'
    BY <1>1, <1>2 DEF StoreTypeOK
  <2>3. PutTypeOK'
    <3>1. at' \in [1..LastTxn -> Steps] /\ minimum' \in [1..LastTxn -> Int]
      <4>1. at' \in [1..LastTxn -> Steps]
        BY <1>1, <1>2 DEF PutTypeOK, Steps
      <4>2. MINUS_MAX \in Int
        BY DEF MINUS_MAX
      <4>3. minimum' \in [1..LastTxn -> Int]
        BY <1>1, <1>2, <4>2 DEF PutTypeOK
      <4>4. QED
        BY <4>1, <4>3
    <3>2. /\ putting' \subseteq (1..locked) \X Key
          /\ putting' \cap changing' = {} /\ putting' \cap written' = {}
      BY <1>1, <1>2 DEF PutTypeOK
    <3>3. QED
      BY <1>1, <1>2, <1>4, <3>1, <3>2 DEF PutTypeOK, txnVars
  <2>4. QED
    BY <2>1, <2>2, <2>3 DEF CheckpointTypeOK
<1>8. PutSteps'
  <2> SUFFICES ASSUME NEW u \in 1..LastTxn, NEW l \in Key
               PROVE  /\ <<u, l>> \in putting' => at'[u] # "out" /\ \A m \in Key : <<u, m>> \in putting' => m = l
                      /\ <<u, l>> \in changing => u \in InPlace
                      /\ <<u, l>> \in putting' \cup changing =>
                           IF u \in InPlace THEN Used(l, buffer'[u][l]) ELSE buffer'[u][l] = u
    BY <1>1 DEF PutSteps, Used
  <2>1. <<u, l>> \in changing => u \in InPlace
    BY <1>2 DEF PutSteps
  <2>2. CASE u = t
    <3>1. at'[t] # "out"
      BY <1>1, <1>2, <1>3 DEF PutTypeOK
    <3>2. \A m \in Key : <<t, m>> \in putting' => m = k
      BY <1>1, <1>4
    <3>3. CASE l = k
      BY <1>4, <1>5, <2>1, <2>2, <3>1, <3>2, <3>3
    <3>4. CASE l # k
      <4>1. <<t, l>> \notin putting' /\ buffer'[t][l] = buffer[t][l]
        BY <1>3, <1>4, <3>2, <3>4
      <4>2. <<t, l>> \in changing => IF t \in InPlace THEN Used(l, buffer[t][l]) ELSE buffer[t][l] = t
        BY <1>2, <1>3 DEF PutSteps
      <4>3. QED
        BY <2>1, <2>2, <4>1, <4>2
    <3>5. QED
      BY <3>3, <3>4
  <2>3. CASE u # t
    <3>1. \A m \in Key : <<u, m>> \in putting' <=> <<u, m>> \in putting
      BY <1>1, <2>3
    <3>2. at'[u] = at[u] /\ buffer'[u][l] = buffer[u][l]
      BY <1>1, <1>2, <1>4, <2>3 DEF PutTypeOK
    <3>3. /\ <<u, l>> \in putting => at[u] # "out" /\ \A m \in Key : <<u, m>> \in putting => m = l
          /\ <<u, l>> \in putting \cup changing =>
               IF u \in InPlace THEN Used(l, buffer[u][l]) ELSE buffer[u][l] = u
      BY <1>2 DEF PutSteps
    <3>4. QED
      BY <2>1, <3>1, <3>2, <3>3
  <2>4. QED
    BY <2>2, <2>3
<1>9. MinimumKept'
  <2> SUFFICES ASSUME NEW u \in 1..LastTxn
               PROVE  /\ u > locked => at'[u] = "out"
                      /\ at'[u] = "minimum" => Hobbes
                      /\ at'[u] = "prune" =>
                           /\ kind # "multiversion"
                           /\ kind = "naive" => minimum'[u] = MINUS_MAX
                           /\ Hobbes /\ stable_ > 0 /\ u >= stable_ => minimum'[u] = stable_
    BY <1>1 DEF MinimumKept, Hobbes, txnVars, prepareVars
  <2>1. CASE u = t
    <3>1. minimum'[t] = MINUS_MAX /\ ~ (t > locked)
      BY <1>1, <1>2, <1>3 DEF PutTypeOK, TxnTypeOK
    <3>2. at'[t] = IF kind = "multiversion" THEN "insert"
                   ELSE IF Hobbes /\ IsNewer(t) THEN "minimum" ELSE "prune"
      BY <1>1, <1>2, <1>3 DEF PutTypeOK
    <3>3. QED
      BY <2>1, <3>1, <3>2 DEF IsNewer
  <2>2. CASE u # t
    BY <1>1, <1>2, <2>2 DEF PutTypeOK, MinimumKept
  <2>3. QED
    BY <2>1, <2>2
<1>10. Phases' /\ BufferContents' /\ RowContents' /\ AppValue'
  <2>1. Phases' /\ BufferContents' /\ RowContents'
    BY <1>1, <1>2 DEF Phases, BufferContents, RowContents, Used, threadVars, prepareVars
  <2>2. AppValue'
    BY <1>1 DEF AppValue
  <2>3. QED
    BY <2>1, <2>2
<1>11. RowEntries'
  <2> SUFFICES ASSUME NEW l \in Key, NEW e \in Range(objects[l])
               PROVE  <<e.version, l>> \in changing => e.value = buffer'[e.version][l]
    BY <1>1, <1>2 DEF RowEntries, HasPut, Used
  <2>1. <<e.version, l>> \in changing => e.version \in 1..LastTxn /\ <<e.version, l>> # <<t, k>>
    BY <1>1, <1>2, Ranges DEF PutTypeOK
  <2>2. QED
    BY <1>2, <1>4, <2>1 DEF RowEntries
<1>12. NewestKept' /\ StableKept'
  <2>1. \A l \in Key : Busy(l) => Busy(l)'
    BY <1>1 DEF Busy
  <2>2. NewestKept'
    BY <1>1, <1>2, <2>1 DEF NewestKept, HasPut
  <2>3. StableKept'
    BY <1>1, <1>2 DEF StableKept, Versioned, Hobbes, Wanted, HasPut, prepareVars, threadVars
  <2>4. QED
    BY <2>2, <2>3
<1>13. OneAbove'
  <2>1. ASSUME kind = "naive" \/ (Hobbes /\ stable_ > 0), NEW l \in Key, NEW u \in 1..LastTxn,
               <<u, l>> \in putting', at'[u] \notin {"minimum", "prune"}, u >= Floor,
               NEW e \in Range(objects[l])
        PROVE  e.version <= Floor
    <3>1. u # t
      <4>1. at'[t] \in {"minimum", "prune"}
        BY <1>1, <1>2, <1>3, <2>1 DEF PutTypeOK, Hobbes
      <4>2. QED
        BY <2>1, <4>1
    <3>2. <<u, l>> \in putting /\ at'[u] = at[u]
      BY <1>1, <1>2, <2>1, <3>1 DEF PutTypeOK
    <3>3. QED
      BY <1>2, <2>1, <3>2 DEF OneAbove
  <2>2. QED
    BY <1>1, <1>2, <2>1 DEF OneAbove, Hobbes, Floor, prepareVars
<1>14. QED
  BY <1>4, <1>7, <1>8, <1>9, <1>10, <1>11, <1>12, <1>13 DEF KeptInv

LEMMA HandlePutKept ==
  ASSUME KeptInv, NEW t \in 1..locked, NEW k \in Key, HandlePut(t, k) PROVE KeptInv'
BY PingPutKept, PutKept

LEMMA ReadMinimumKept ==
  ASSUME KeptInv, NEW t \in 1..locked, ReadMinimum(t) PROVE KeptInv'
<1>1. /\ at[t] = "minimum" /\ at' = [at EXCEPT ![t] = "prune"]
      /\ minimum' = [minimum EXCEPT ![t] = stable_]
      /\ UNCHANGED <<kind, txnVars, putting, buffer, changing, written, storeVars, prepareVars,
                     waitVars, threadVars, seenVars>>
  BY DEF ReadMinimum, Minimum
<1>2. /\ TxnOrder /\ MinimumKept /\ StableKept /\ OneAbove /\ Phases
      /\ TxnTypeOK /\ PutTypeOK /\ StoreTypeOK /\ PrepareTypeOK /\ CaptureTypeOK
      /\ t \in 1..LastTxn /\ stable_ \in Int
  BY Ranges DEF KeptInv, CheckpointTypeOK
<1>3. /\ at' \in [1..LastTxn -> Steps] /\ minimum' \in [1..LastTxn -> Int]
      /\ at'[t] = "prune" /\ minimum'[t] = stable_
      /\ \A u \in 1..LastTxn : u # t => at'[u] = at[u] /\ minimum'[u] = minimum[u]
  BY <1>1, <1>2 DEF PutTypeOK, Steps
<1>4. PutSteps' /\ BufferContents' /\ RowEntries' /\ RowContents' /\ NewestKept' /\ AppValue'
  <2>1. \A u \in 1..LastTxn : at'[u] = "out" => at[u] = "out"
    BY <1>3
  <2>2. QED
    BY <1>1, <2>1, StoreKept DEF storeVars
<1>5. TxnOrder'
  BY <1>1, <1>2 DEF TxnOrder, HasPut, txnVars
<1>6. CheckpointTypeOK'
  <2>1. TxnTypeOK' /\ PrepareTypeOK' /\ CaptureTypeOK' /\ StoreTypeOK'
    BY <1>1, <1>2 DEF TxnTypeOK, PrepareTypeOK, CaptureTypeOK, StoreTypeOK, txnVars, prepareVars,
                      waitVars, threadVars, seenVars, storeVars
  <2>2. PutTypeOK'
    BY <1>1, <1>2, <1>3 DEF PutTypeOK, txnVars
  <2>3. QED
    BY <2>1, <2>2 DEF CheckpointTypeOK
<1>7. StableKept' /\ Phases'
  BY <1>1, <1>2 DEF StableKept, Versioned, Hobbes, Wanted, HasPut, Phases, storeVars, prepareVars,
                    threadVars
<1>8. MinimumKept'
  <2> SUFFICES ASSUME NEW u \in 1..LastTxn
               PROVE  /\ u > locked => at'[u] = "out"
                      /\ at'[u] = "minimum" => Hobbes
                      /\ at'[u] = "prune" =>
                           /\ kind # "multiversion"
                           /\ kind = "naive" => minimum'[u] = MINUS_MAX
                           /\ Hobbes /\ stable_ > 0 /\ u >= stable_ => minimum'[u] = stable_
    BY <1>1 DEF MinimumKept, Hobbes, txnVars, prepareVars
  <2>1. CASE u = t
    <3>1. Hobbes /\ ~ (t > locked)
      BY <1>1, <1>2 DEF MinimumKept, TxnTypeOK
    <3>2. QED
      BY <1>3, <2>1, <3>1 DEF Hobbes
  <2>2. CASE u # t
    BY <1>2, <1>3, <2>2 DEF MinimumKept
  <2>3. QED
    BY <2>1, <2>2
<1>9. OneAbove'
  <2>1. \A u \in 1..LastTxn : at'[u] \notin {"minimum", "prune"} => at[u] \notin {"minimum", "prune"}
    BY <1>3
  <2>2. QED
    BY <1>1, <1>2, <2>1 DEF OneAbove, Hobbes, Floor, storeVars, prepareVars
<1>10. QED
  BY <1>4, <1>5, <1>6, <1>7, <1>8, <1>9 DEF KeptInv

(* Pruning takes what a put of t may take.                                 *)
LEMMA PrunePutKept ==
  ASSUME KeptInv, NEW t \in 1..locked, NEW k \in Key, PrunePut(t, k) PROVE KeptInv'
<1>1. /\ <<t, k>> \in putting /\ at[t] = "prune"
      /\ at' = [at EXCEPT ![t] = IF kind = "filtered" THEN "mark" ELSE "insert"]
      /\ UNCHANGED <<kind, txnVars, putting, minimum, buffer, changing, written, contents, array,
                     dirty, filter, prepareVars, waitVars, threadVars, seenVars>>
  BY DEF PrunePut
<1>2. /\ CheckpointTypeOK /\ TxnOrder /\ PutSteps /\ MinimumKept /\ BufferContents /\ RowEntries
      /\ RowContents /\ AppValue /\ Phases /\ StableKept /\ OneAbove /\ NewestKept
      /\ TxnTypeOK /\ PutTypeOK /\ StoreTypeOK /\ PrepareTypeOK /\ CaptureTypeOK
      /\ t \in 1..LastTxn /\ t \in Int /\ stable_ \in Int
  BY Ranges DEF KeptInv, CheckpointTypeOK
<1>3. /\ objects' \in [Key -> Seq([version : Int, value : 0..LastTxn])]
      /\ \A l \in Key : Descending(objects'[l])
      /\ \A l \in Key \ {k} : objects'[l] = objects[l]
      /\ \A l \in Key : Range(objects'[l]) \subseteq Range(objects[l])
      /\ \A e \in Range(objects[k]) : e.version <= minimum[t] => e \in Range(objects'[k])
      /\ \A e \in Range(objects'[k]) : e.version <= minimum[t]
  BY <1>2, PruneRow
<1>4. /\ at' \in [1..LastTxn -> Steps] /\ at'[t] \in {"mark", "insert"}
      /\ \A u \in 1..LastTxn : u # t => at'[u] = at[u]
  BY <1>1, <1>2 DEF PutTypeOK, Steps
<1>5. /\ kind # "multiversion" /\ kind # "pingpong"
      /\ kind = "naive" => minimum[t] = MINUS_MAX
      /\ Hobbes /\ stable_ > 0 /\ t >= stable_ => minimum[t] = stable_
  BY <1>1, <1>2 DEF MinimumKept, PutSteps
<1>6. TxnOrder'
  BY <1>1, <1>2 DEF TxnOrder, HasPut, txnVars
<1>7. CheckpointTypeOK'
  <2>1. TxnTypeOK' /\ PrepareTypeOK' /\ CaptureTypeOK'
    BY <1>1, <1>2 DEF TxnTypeOK, PrepareTypeOK, CaptureTypeOK, txnVars, prepareVars,
                      waitVars, threadVars, seenVars
  <2>2. PutTypeOK'
    BY <1>1, <1>2, <1>4 DEF PutTypeOK, txnVars
  <2>3. StoreTypeOK'
    BY <1>1, <1>2, <1>3 DEF StoreTypeOK
  <2>4. QED
    BY <2>1, <2>2, <2>3 DEF CheckpointTypeOK
<1>8. PutSteps'
  <2>1. \A u \in 1..LastTxn : at[u] # "out" => at'[u] # "out"
    BY <1>4
  <2>2. QED
    BY <1>1, <1>2, <2>1 DEF PutSteps, Used
<1>9. MinimumKept'
  <2>1. ~ (t > locked)
    BY <1>2 DEF TxnTypeOK
  <2>2. QED
    BY <1>1, <1>2, <1>4, <2>1 DEF MinimumKept, Hobbes, txnVars, prepareVars
<1>10. BufferContents' /\ Phases' /\ AppValue'
  <2>1. BufferContents' /\ Phases'
    BY <1>1, <1>2 DEF BufferContents, Phases, Used, prepareVars, threadVars
  <2>2. AppValue'
    BY <1>1, <1>5 DEF AppValue
  <2>3. QED
    BY <2>1, <2>2
<1>11. RowEntries' /\ RowContents'
  BY <1>1, <1>2, <1>3 DEF RowEntries, RowContents, HasPut, Used
<1>12. NewestKept'
  <2>1. Busy(k)' /\ \A l \in Key : Busy(l) => Busy(l)'
    BY <1>1, <1>2 DEF Busy
  <2>2. ASSUME NEW l \in Key, l # k, ~ Busy(l)
        PROVE  \E e \in Range(objects'[l]) : \A u \in 1..LastTxn : HasPut(u, l) => u <= e.version
    BY <1>2, <1>3, <1>5, <2>2 DEF NewestKept
  <2>3. QED
    BY <1>1, <2>1, <2>2 DEF NewestKept, HasPut
<1>13. StableKept'
  <2> SUFFICES ASSUME Versioned, stable_ > 0, NEW l \in Key, Wanted(l)
               PROVE  \/ \E u \in 1..LastTxn : u < stable_ /\ <<u, l>> \in putting
                      \/ \E e \in Range(objects'[l]) :
                           /\ e.version < stable_
                           /\ \A u \in 1..LastTxn : u < stable_ /\ HasPut(u, l) => u <= e.version
    BY <1>1 DEF StableKept, Versioned, Hobbes, Wanted, HasPut, prepareVars, threadVars
  <2>1. \/ \E u \in 1..LastTxn : u < stable_ /\ <<u, l>> \in putting
        \/ \E e \in Range(objects[l]) :
             /\ e.version < stable_
             /\ \A u \in 1..LastTxn : u < stable_ /\ HasPut(u, l) => u <= e.version
    BY <1>2 DEF StableKept
  <2>2. CASE l # k
    BY <1>3, <2>1, <2>2
  <2>3. CASE l = k /\ t < stable_
    BY <1>1, <1>2, <2>3
  <2>4. CASE l = k /\ ~ (t < stable_)
    <3>1. minimum[t] = stable_
      BY <1>2, <1>5, <2>4 DEF Versioned
    <3>2. \A e \in Range(objects[k]) : e.version \in Int
      BY <1>2, RowFacts
    <3>3. \A e \in Range(objects[k]) : e.version < stable_ => e \in Range(objects'[k])
      BY <1>2, <1>3, <3>1, <3>2
    <3>4. QED
      BY <2>1, <2>4, <3>3
  <2>5. QED
    BY <2>2, <2>3, <2>4
<1>14. OneAbove'
  <2> SUFFICES ASSUME kind = "naive" \/ (Hobbes /\ stable_ > 0), NEW l \in Key
               PROVE  /\ \A e, f \in Range(objects'[l]) :
                           e.version > Floor /\ f.version > Floor => e.version = f.version
                      /\ \A u \in 1..LastTxn :
                           <<u, l>> \in putting /\ at'[u] \notin {"minimum", "prune"} /\ u >= Floor =>
                             \A e \in Range(objects'[l]) : e.version <= Floor
    BY <1>1 DEF OneAbove, Hobbes, Floor, prepareVars
  <2>1. \A e, f \in Range(objects'[l]) : e.version > Floor /\ f.version > Floor => e.version = f.version
    BY <1>2, <1>3 DEF OneAbove
  <2>2. ASSUME NEW u \in 1..LastTxn, <<u, l>> \in putting, at'[u] \notin {"minimum", "prune"}, u >= Floor,
               NEW e \in Range(objects'[l])
        PROVE  e.version <= Floor
    <3>1. CASE u # t
      BY <1>2, <1>3, <1>4, <2>2, <3>1 DEF OneAbove
    <3>2. CASE u = t
      <4>1. l = k
        BY <1>1, <1>2, <2>2, <3>2 DEF PutSteps
      <4>2. minimum[t] = Floor
        BY <1>5, <2>2, <3>2 DEF Floor, Hobbes
      <4>3. QED
        BY <1>3, <2>2, <4>1, <4>2
    <3>3. QED
      BY <3>1, <3>2
  <2>3. QED
    BY <2>1, <2>2
<1>15. QED
  BY <1>6, <1>7, <1>8, <1>9, <1>10, <1>11, <1>12, <1>13, <1>14 DEF KeptInv

LEMMA MarkKept ==
  ASSUME KeptInv, NEW t \in 1..locked, NEW k \in Key, Mark(t, k) PROVE KeptInv'
<1>1. /\ at[t] \in {"mark", "mark2", "mark3"}
      /\ \E step \in {"mark2", "mark3", "insert", "fault"} : at' = [at EXCEPT ![t] = step]
      /\ filter' = filter \/ \E f \in {"stable", "unstable"} : filter' = [filter EXCEPT ![f] = @ \cup {k}]
      /\ UNCHANGED <<kind, txnVars, putting, minimum, buffer, changing, written, objects, contents,
                     array, dirty, prepareVars, waitVars, threadVars, seenVars>>
  BY DEF Mark
<1>2. /\ TxnOrder /\ MinimumKept /\ StableKept /\ OneAbove /\ Phases
      /\ TxnTypeOK /\ PutTypeOK /\ StoreTypeOK /\ PrepareTypeOK /\ CaptureTypeOK
      /\ t \in 1..LastTxn
  BY Ranges DEF KeptInv, CheckpointTypeOK
<1>3. /\ at' \in [1..LastTxn -> Steps] /\ at'[t] \in {"mark2", "mark3", "insert", "fault"}
      /\ \A u \in 1..LastTxn : u # t => at'[u] = at[u]
  BY <1>1, <1>2 DEF PutTypeOK, Steps
<1>4. PutSteps' /\ BufferContents' /\ RowEntries' /\ RowContents' /\ NewestKept' /\ AppValue'
  <2>1. \A u \in 1..LastTxn : at'[u] = "out" => at[u] = "out"
    BY <1>3
  <2>2. QED
    BY <1>1, <2>1, StoreKept
<1>5. TxnOrder'
  BY <1>1, <1>2 DEF TxnOrder, HasPut, txnVars
<1>6. CheckpointTypeOK'
  <2>1. TxnTypeOK' /\ PrepareTypeOK' /\ CaptureTypeOK'
    BY <1>1, <1>2 DEF TxnTypeOK, PrepareTypeOK, CaptureTypeOK, txnVars, prepareVars,
                      waitVars, threadVars, seenVars
  <2>2. PutTypeOK'
    BY <1>1, <1>2, <1>3 DEF PutTypeOK, txnVars
  <2>3. StoreTypeOK'
    <3>1. filter' \in [{"stable", "unstable"} -> SUBSET Key]
      <4>1. filter \in [{"stable", "unstable"} -> SUBSET Key]
        BY <1>2 DEF StoreTypeOK
      <4>2. CASE filter' = filter
        BY <4>1, <4>2
      <4>3. ASSUME NEW f \in {"stable", "unstable"}, filter' = [filter EXCEPT ![f] = @ \cup {k}]
            PROVE  filter' \in [{"stable", "unstable"} -> SUBSET Key]
        BY <4>1, <4>3
      <4>4. QED
        BY <1>1, <4>2, <4>3
    <3>2. QED
      BY <1>1, <1>2, <3>1 DEF StoreTypeOK
  <2>4. QED
    BY <2>1, <2>2, <2>3 DEF CheckpointTypeOK
<1>7. StableKept' /\ Phases'
  BY <1>1, <1>2 DEF StableKept, Versioned, Hobbes, Wanted, HasPut, Phases, prepareVars, threadVars
<1>8. MinimumKept'
  <2>1. ~ (t > locked)
    BY <1>2 DEF TxnTypeOK
  <2>2. ASSUME NEW u \in 1..LastTxn
        PROVE  /\ u > locked => at'[u] = "out"
               /\ at'[u] = "minimum" => Hobbes
               /\ at'[u] = "prune" =>
                    /\ kind # "multiversion"
                    /\ kind = "naive" => minimum[u] = MINUS_MAX
                    /\ Hobbes /\ stable_ > 0 /\ u >= stable_ => minimum[u] = stable_
    <3>1. CASE u = t
      BY <1>3, <2>1, <3>1
    <3>2. CASE u # t
      BY <1>2, <1>3, <3>2 DEF MinimumKept
    <3>3. QED
      BY <3>1, <3>2
  <2>3. QED
    BY <1>1, <2>2 DEF MinimumKept, Hobbes, txnVars, prepareVars
<1>9. OneAbove'
  <2>1. \A u \in 1..LastTxn : at'[u] \notin {"minimum", "prune"} => at[u] \notin {"minimum", "prune"}
    BY <1>1, <1>3
  <2>2. QED
    BY <1>1, <1>2, <2>1 DEF OneAbove, Hobbes, Floor, prepareVars
<1>10. QED
  BY <1>4, <1>5, <1>6, <1>7, <1>8, <1>9 DEF KeptInv

LEMMA InsertKept ==
  ASSUME KeptInv, NEW t \in 1..locked, NEW k \in Key, Insert(t, k) PROVE KeptInv'
<1> DEFINE b == buffer[t][k]
           new == [version |-> t, value |-> b]
<1>1. /\ <<t, k>> \in putting /\ at[t] = "insert"
      /\ putting' = putting \ {<<t, k>>} /\ at' = [at EXCEPT ![t] = "out"]
      /\ IF t \in InPlace THEN changing' = changing \cup {<<t, k>>} /\ written' = written
         ELSE written' = written \cup {<<t, k>>} /\ changing' = changing
      /\ UNCHANGED <<kind, txnVars, minimum, buffer, contents, array, dirty, filter, prepareVars,
                     waitVars, threadVars, seenVars>>
  BY DEF Insert
<1>2. /\ CheckpointTypeOK /\ TxnOrder /\ PutSteps /\ MinimumKept /\ BufferContents /\ RowEntries
      /\ RowContents /\ Phases /\ StableKept /\ OneAbove /\ NewestKept
      /\ TxnTypeOK /\ PutTypeOK /\ StoreTypeOK /\ PrepareTypeOK /\ CaptureTypeOK
      /\ t \in 1..LastTxn /\ t \in Int /\ t > 0 /\ t \in 0..LastTxn /\ stable_ \in Int
      /\ b \in 0..LastTxn
  BY Ranges DEF KeptInv, CheckpointTypeOK
<1>3. /\ objects' \in [Key -> Seq([version : Int, value : 0..LastTxn])]
      /\ \A l \in Key : Descending(objects'[l])
      /\ \A l \in Key \ {k} : objects'[l] = objects[l]
      /\ \A e : e \in Range(objects'[k]) <=> e \in Range(objects[k]) \/ e = new
      /\ \A e \in Range(objects[k]) : e.version # t
  BY <1>2, InsertRow
<1>4. /\ kind # "pingpong" /\ \A l \in Key : <<t, l>> \in putting => l = k
      /\ IF t \in InPlace THEN Used(k, b) ELSE b = t
  BY <1>1, <1>2 DEF PutSteps
<1>5. new.version = t /\ new.value = b
  OBVIOUS
<1> HIDE DEF b, new
<1>6. /\ at' \in [1..LastTxn -> Steps] /\ at'[t] = "out"
      /\ \A u \in 1..LastTxn : u # t => at'[u] = at[u]
  BY <1>1, <1>2 DEF PutTypeOK, Steps
<1>7. \A u \in 1..LastTxn : <<u, k>> \in putting \cup changing \cup written /\ u # t =>
                             u < t /\ <<u, k>> \in written /\ <<u, k>> \notin putting \cup changing
  BY <1>1, <1>2, AllBefore
<1>8. \A u, l : /\ HasPut(u, l) => HasPut(u, l)'
                /\ <<u, l>> # <<t, k>> =>
                     /\ HasPut(u, l)' => HasPut(u, l)
                     /\ <<u, l>> \in changing' <=> <<u, l>> \in changing
                     /\ <<u, l>> \in putting' <=> <<u, l>> \in putting
  BY <1>1 DEF HasPut
<1>9. /\ \A l, c : Used(l, c) => Used(l, c)'
      /\ <<t, k>> \notin changing \cup written /\ HasPut(t, k)'
  BY <1>1, <1>2 DEF Used, PutTypeOK, HasPut
<1>10. TxnOrder'
  <2>1. putting' \cup changing' \cup written' = putting \cup changing \cup written /\ written \subseteq written'
    BY <1>1
  <2>2. QED
    BY <1>1, <1>2, <2>1 DEF TxnOrder, HasPut, txnVars
<1>11. CheckpointTypeOK'
  <2>1. TxnTypeOK' /\ PrepareTypeOK' /\ CaptureTypeOK'
    BY <1>1, <1>2 DEF TxnTypeOK, PrepareTypeOK, CaptureTypeOK, txnVars, prepareVars,
                      waitVars, threadVars, seenVars
  <2>2. PutTypeOK'
    <3>1. /\ putting' \subseteq (1..locked) \X Key /\ changing' \subseteq (1..locked) \X Key
          /\ written' \subseteq (1..locked) \X Key
      BY <1>1, <1>2 DEF PutTypeOK
    <3>2. putting' \cap changing' = {} /\ putting' \cap written' = {} /\ changing' \cap written' = {}
      BY <1>1, <1>2, <1>9 DEF PutTypeOK
    <3>3. QED
      BY <1>1, <1>2, <1>6, <3>1, <3>2 DEF PutTypeOK, txnVars
  <2>3. StoreTypeOK'
    BY <1>1, <1>2, <1>3 DEF StoreTypeOK
  <2>4. QED
    BY <2>1, <2>2, <2>3 DEF CheckpointTypeOK
<1>12. PutSteps'
  <2> SUFFICES ASSUME NEW u \in 1..LastTxn, NEW l \in Key
               PROVE  /\ <<u, l>> \in putting' => at'[u] # "out" /\ \A m \in Key : <<u, m>> \in putting' => m = l
                      /\ <<u, l>> \in changing' => u \in InPlace
                      /\ <<u, l>> \in putting' \cup changing' =>
                           IF u \in InPlace THEN Used(l, buffer[u][l])' ELSE buffer[u][l] = u
    BY <1>1, <1>4 DEF PutSteps, Used
  <2>1. <<u, l>> \in putting \cup changing =>
          IF u \in InPlace THEN Used(l, buffer[u][l])' ELSE buffer[u][l] = u
    <3>1. <<u, l>> \in putting \cup changing =>
            IF u \in InPlace THEN Used(l, buffer[u][l]) ELSE buffer[u][l] = u
      BY <1>2 DEF PutSteps
    <3>2. Used(l, buffer[u][l]) => Used(l, buffer[u][l])'
      BY <1>1, <1>9 DEF Used
    <3>3. QED
      BY <3>1, <3>2
  <2>2. <<u, l>> \in putting' \cup changing' => <<u, l>> \in putting \cup changing
    BY <1>1
  <2>3. <<u, l>> \in changing' => u \in InPlace
    <3>1. <<u, l>> \in changing => u \in InPlace
      BY <1>2 DEF PutSteps
    <3>2. QED
      BY <1>1, <3>1
  <2>4. <<u, l>> \in putting' => at'[u] # "out" /\ \A m \in Key : <<u, m>> \in putting' => m = l
    <3>1. <<u, l>> \in putting' => u # t
      BY <1>1, <1>4
    <3>2. <<u, l>> \in putting => at[u] # "out" /\ \A m \in Key : <<u, m>> \in putting => m = l
      BY <1>2 DEF PutSteps
    <3>3. QED
      BY <1>1, <1>6, <3>1, <3>2
  <2>5. QED
    BY <2>1, <2>2, <2>3, <2>4
<1>13. MinimumKept'
  BY <1>1, <1>2, <1>6 DEF MinimumKept, Hobbes, txnVars, prepareVars
<1>14. BufferContents' /\ Phases'
  <2>1. \A l, c : <<c, l>> \in written => <<c, l>> \in written'
    BY <1>1
  <2>2. BufferContents'
    BY <1>1, <1>2, <1>9, <2>1 DEF BufferContents, Used
  <2>3. Phases'
    BY <1>1, <1>2 DEF Phases, prepareVars, threadVars
  <2>4. QED
    BY <2>2, <2>3
<1>15. RowEntries'
  <2> SUFFICES ASSUME NEW l \in Key, NEW e \in Range(objects'[l])
               PROVE  /\ e.version = -1 \/ (e.version \in 1..LastTxn /\ HasPut(e.version, l)')
                      /\ Used(l, e.value)'
                      /\ <<e.version, l>> \in changing' => e.value = buffer[e.version][l]
    <3>1. \A l \in Key : \A e \in Range(objects'[l]) :
            /\ e.version = -1 \/ (e.version \in 1..LastTxn /\ <<e.version, l>> \in changing' \cup written')
            /\ e.value = 0 \/ <<e.value, l>> \in written'
            /\ <<e.version, l>> \in changing' => e.value = buffer'[e.version][l]
      BY <1>1 DEF HasPut, Used
    <3>2. QED
      BY <3>1 DEF RowEntries, HasPut, Used
  <2>1. ASSUME e \in Range(objects[l]), <<e.version, l>> # <<t, k>>
        PROVE  /\ e.version = -1 \/ (e.version \in 1..LastTxn /\ HasPut(e.version, l)')
               /\ Used(l, e.value)'
               /\ <<e.version, l>> \in changing' => e.value = buffer[e.version][l]
    <3>1. /\ e.version = -1 \/ (e.version \in 1..LastTxn /\ HasPut(e.version, l))
          /\ Used(l, e.value)
          /\ <<e.version, l>> \in changing => e.value = buffer[e.version][l]
      BY <1>2, <2>1 DEF RowEntries
    <3>2. QED
      BY <1>8, <1>9, <2>1, <3>1
  <2>2. CASE l # k
    BY <1>3, <2>1, <2>2
  <2>3. CASE l = k /\ e \in Range(objects[k])
    BY <1>3, <2>1, <2>3
  <2>4. CASE l = k /\ e = new
    <3>1. b = 0 \/ <<b, k>> \in written'
      <4>1. CASE t \in InPlace
        BY <1>1, <1>4, <4>1 DEF Used
      <4>2. CASE t \notin InPlace
        BY <1>1, <1>4, <4>2
      <4>3. QED
        BY <4>1, <4>2
    <3>2. Used(l, e.value)'
      BY <1>5, <2>4, <3>1 DEF Used
    <3>3. e.version = t /\ e.value = buffer[t][k]
      BY <1>5, <2>4 DEF b
    <3>4. QED
      BY <1>2, <1>9, <2>4, <3>2, <3>3
  <2>5. QED
    BY <1>3, <2>2, <2>3, <2>4
<1>16. RowContents'
  <2> SUFFICES ASSUME NEW l \in Key, NEW e \in Range(objects'[l])
               PROVE  \/ <<e.version, l>> \in changing'
                      \/ contents[l][e.value] = Writer(e.version)
                      \/ /\ contents[l][e.value] \in InPlace /\ contents[l][e.value] > e.version
                         /\ <<contents[l][e.value], l>> \in written'
    BY <1>1 DEF RowContents
  <2>1. CASE e \in Range(objects[l])
    BY <1>1, <1>2, <2>1 DEF RowContents
  <2>2. CASE l = k /\ e = new /\ t \in InPlace
    BY <1>1, <1>5, <2>2
  <2>3. CASE l = k /\ e = new /\ t \notin InPlace
    <3>1. ~ Used(k, t)
      BY <1>2, <1>9 DEF Used
    <3>2. contents[k][t] = t
      BY <1>2, <3>1 DEF BufferContents
    <3>3. QED
      BY <1>2, <1>4, <1>5, <2>3, <3>2 DEF Writer
  <2>4. QED
    BY <1>3, <2>1, <2>2, <2>3
<1>17. NewestKept'
  <2> SUFFICES ASSUME NEW l \in Key, ~ Busy(l)'
               PROVE  \E e \in Range(objects'[l]) : \A u \in 1..LastTxn : HasPut(u, l)' => u <= e.version
    BY DEF NewestKept, HasPut
  <2>1. CASE l # k
    <3>1. ~ Busy(l)
      BY <1>8, <2>1 DEF Busy
    <3>2. QED
      BY <1>2, <1>3, <1>4, <1>8, <2>1, <3>1 DEF NewestKept
  <2>2. CASE l = k
    <3>1. \A u \in 1..LastTxn : HasPut(u, k)' => u <= t
      <4>1. TAKE u \in 1..LastTxn
      <4>2. CASE u = t
        BY <1>2, <4>2
      <4>3. CASE u # t
        BY <1>2, <1>7, <1>8, <4>3 DEF HasPut
      <4>4. QED
        BY <4>2, <4>3
    <3>2. QED
      BY <1>3, <1>5, <2>2, <3>1
  <2>3. QED
    BY <2>1, <2>2
<1>18. AppValue'
  BY <1>1, <1>4 DEF AppValue
<1>19. StableKept'
  <2> SUFFICES ASSUME Versioned, stable_ > 0, NEW l \in Key, Wanted(l)
               PROVE  \/ \E u \in 1..LastTxn : u < stable_ /\ <<u, l>> \in putting'
                      \/ \E e \in Range(objects'[l]) :
                           /\ e.version < stable_
                           /\ \A u \in 1..LastTxn : u < stable_ /\ HasPut(u, l)' => u <= e.version
    BY <1>1 DEF StableKept, Versioned, Hobbes, Wanted, HasPut, prepareVars, threadVars
  <2>1. \/ \E u \in 1..LastTxn : u < stable_ /\ <<u, l>> \in putting
        \/ \E e \in Range(objects[l]) :
             /\ e.version < stable_
             /\ \A u \in 1..LastTxn : u < stable_ /\ HasPut(u, l) => u <= e.version
    BY <1>2 DEF StableKept
  <2>2. CASE l # k
    BY <1>3, <1>8, <2>1, <2>2
  <2>3. CASE l = k /\ t < stable_
    <3>1. \A u \in 1..LastTxn : HasPut(u, k)' => u <= t
      <4>1. TAKE u \in 1..LastTxn
      <4>2. CASE u = t
        BY <1>2, <4>2
      <4>3. CASE u # t
        BY <1>2, <1>7, <1>8, <4>3 DEF HasPut
      <4>4. QED
        BY <4>2, <4>3
    <3>2. QED
      BY <1>3, <1>5, <2>3, <3>1
  <2>4. CASE l = k /\ ~ (t < stable_)
    <3>1. ~ \E u \in 1..LastTxn : u < stable_ /\ <<u, k>> \in putting
      BY <1>7, <2>4
    <3>2. PICK e \in Range(objects[k]) :
            /\ e.version < stable_
            /\ \A u \in 1..LastTxn : u < stable_ /\ HasPut(u, k) => u <= e.version
      BY <2>1, <2>4, <3>1
    <3>3. \A u \in 1..LastTxn : u < stable_ /\ HasPut(u, k)' => u <= e.version
      BY <1>8, <2>4, <3>2
    <3>4. QED
      BY <1>3, <2>4, <3>2, <3>3
  <2>5. QED
    BY <2>2, <2>3, <2>4
<1>20. OneAbove'
  <2> SUFFICES ASSUME kind = "naive" \/ (Hobbes /\ stable_ > 0), NEW l \in Key
               PROVE  /\ \A e, f \in Range(objects'[l]) :
                           e.version > Floor /\ f.version > Floor => e.version = f.version
                      /\ \A u \in 1..LastTxn :
                           <<u, l>> \in putting' /\ at'[u] \notin {"minimum", "prune"} /\ u >= Floor =>
                             \A e \in Range(objects'[l]) : e.version <= Floor
    BY <1>1 DEF OneAbove, Hobbes, Floor, prepareVars
  <2>1. /\ \A e, f \in Range(objects[l]) : e.version > Floor /\ f.version > Floor => e.version = f.version
        /\ \A u \in 1..LastTxn :
             <<u, l>> \in putting /\ at[u] \notin {"minimum", "prune"} /\ u >= Floor =>
               \A e \in Range(objects[l]) : e.version <= Floor
    BY <1>2 DEF OneAbove
  <2>2. CASE l # k
    <3>1. \A u \in 1..LastTxn : <<u, l>> \in putting' => <<u, l>> \in putting /\ u # t
      BY <1>1, <1>4, <2>2
    <3>2. QED
      BY <1>3, <1>6, <2>1, <2>2, <3>1
  <2>3. CASE l = k
    <3>1. \A u \in 1..LastTxn : <<u, k>> \notin putting'
      BY <1>1, <1>7
    <3>2. Floor \in Int /\ \A e \in Range(objects[k]) : e.version \in Int
      BY <1>2, RowFacts DEF Floor, MINUS_MAX
    <3>3. CASE t >= Floor
      <4>1. \A e \in Range(objects[k]) : ~ (e.version > Floor)
        BY <1>1, <1>2, <2>1, <2>3, <3>2, <3>3
      <4>2. \A e, f \in Range(objects'[k]) : e.version > Floor /\ f.version > Floor => e.version = f.version
        BY <1>3, <1>5, <4>1
      <4>3. QED
        BY <2>3, <3>1, <4>2
    <3>4. CASE ~ (t >= Floor)
      <4>1. ~ (new.version > Floor)
        BY <1>2, <1>5, <3>2, <3>4
      <4>2. \A e, f \in Range(objects'[k]) : e.version > Floor /\ f.version > Floor => e.version = f.version
        BY <1>3, <2>1, <2>3, <4>1
      <4>3. QED
        BY <2>3, <3>1, <4>2
    <3>5. QED
      BY <3>3, <3>4
  <2>4. QED
    BY <2>2, <2>3
<1>21. QED
  BY <1>10, <1>11, <1>12, <1>13, <1>14, <1>15, <1>16, <1>17, <1>18, <1>19, <1>20 DEF KeptInv

(* GetMutable's caller writes into a buffer that versions may share.       *)
LEMMA ChangeKept ==
  ASSUME KeptInv, NEW t \in 1..locked, NEW k \in Key, Change(t, k) PROVE KeptInv'
<1> DEFINE b == buffer[t][k]
<1>1. /\ <<t, k>> \in changing
      /\ changing' = changing \ {<<t, k>>} /\ written' = written \cup {<<t, k>>}
      /\ contents' = [contents EXCEPT ![k][b] = t]
      /\ UNCHANGED <<kind, txnVars, putting, at, minimum, buffer, objects, array, dirty, filter,
                     prepareVars, waitVars, threadVars, seenVars>>
  BY DEF Change
<1>2. /\ CheckpointTypeOK /\ TxnOrder /\ PutSteps /\ MinimumKept /\ BufferContents /\ RowEntries
      /\ RowContents /\ Phases /\ StableKept /\ OneAbove /\ NewestKept /\ AppValue
      /\ TxnTypeOK /\ PutTypeOK /\ StoreTypeOK /\ PrepareTypeOK /\ CaptureTypeOK
      /\ t \in 1..LastTxn /\ t \in Int /\ t > 0 /\ t \in 0..LastTxn
      /\ b \in 0..LastTxn
  BY Ranges DEF KeptInv, CheckpointTypeOK
<1>3. t \in InPlace /\ Used(k, b)
  BY <1>1, <1>2 DEF PutSteps
<1>4. \A l \in Key : \A e \in Range(objects[l]) : <<e.version, l>> \in changing => e.value = buffer[e.version][l]
  BY <1>2 DEF RowEntries
<1>5. \A u \in 1..LastTxn : <<u, k>> \in changing => IF kind = "pingpong" THEN array.app[k] = buffer[u][k] ELSE TRUE
  BY <1>2 DEF AppValue
<1>6. /\ \A e \in Range(objects[k]) : e.version = t => e.value = b
      /\ kind = "pingpong" => array.app[k] = b
  BY <1>1, <1>2, <1>4, <1>5
<1> HIDE DEF b
<1>7. \A u \in 1..LastTxn : <<u, k>> \in putting \cup changing \cup written /\ u # t =>
                             u < t /\ <<u, k>> \in written /\ <<u, k>> \notin putting \cup changing
  BY <1>1, <1>2, AllBefore
<1>8. /\ changing' \cup written' = changing \cup written /\ written \subseteq written'
      /\ \A u, l : HasPut(u, l)' <=> HasPut(u, l)
      /\ \A l, c : Used(l, c) => Used(l, c)'
      /\ \A u, l : <<u, l>> # <<t, k>> => (<<u, l>> \in changing' <=> <<u, l>> \in changing)
  BY <1>1 DEF HasPut, Used
<1>9. /\ contents' \in [Key -> [0..LastTxn -> 0..LastTxn]] /\ contents'[k][b] = t
      /\ \A l \in Key, c \in 0..LastTxn : l # k \/ c # b => contents'[l][c] = contents[l][c]
  BY <1>1, <1>2 DEF StoreTypeOK
<1>10. TxnOrder'
  BY <1>1, <1>2, <1>8 DEF TxnOrder, HasPut, txnVars
<1>11. CheckpointTypeOK'
  <2>1. TxnTypeOK' /\ PrepareTypeOK' /\ CaptureTypeOK'
    BY <1>1, <1>2 DEF TxnTypeOK, PrepareTypeOK, CaptureTypeOK, txnVars, prepareVars,
                      waitVars, threadVars, seenVars
  <2>2. PutTypeOK'
    <3>1. /\ changing' \subseteq (1..locked) \X Key /\ written' \subseteq (1..locked) \X Key
          /\ putting \cap changing' = {} /\ putting \cap written' = {} /\ changing' \cap written' = {}
      BY <1>1, <1>2 DEF PutTypeOK
    <3>2. QED
      BY <1>1, <1>2, <3>1 DEF PutTypeOK, txnVars
  <2>3. StoreTypeOK'
    BY <1>1, <1>2, <1>9 DEF StoreTypeOK
  <2>4. QED
    BY <2>1, <2>2, <2>3 DEF CheckpointTypeOK
<1>12. PutSteps'
  <2>1. changing' \subseteq changing
    BY <1>1
  <2>2. QED
    BY <1>1, <1>2, <1>8, <2>1 DEF PutSteps, Used
<1>13. MinimumKept' /\ Phases'
  BY <1>1, <1>2 DEF MinimumKept, Phases, Hobbes, txnVars, prepareVars, threadVars
<1>14. BufferContents'
  <2> SUFFICES ASSUME NEW l \in Key, NEW c \in 0..LastTxn
               PROVE  contents'[l][c] = c \/ (Used(l, c)' /\ <<contents'[l][c], l>> \in written')
    BY DEF BufferContents
  <2>1. CASE l = k /\ c = b
    <3>1. Used(l, c)'
      BY <1>3, <1>8, <2>1
    <3>2. QED
      BY <1>1, <1>9, <2>1, <3>1
  <2>2. CASE ~ (l = k /\ c = b)
    <3>1. contents[l][c] = c \/ (Used(l, c) /\ <<contents[l][c], l>> \in written)
      BY <1>2 DEF BufferContents
    <3>2. QED
      BY <1>8, <1>9, <2>2, <3>1
  <2>3. QED
    BY <2>1, <2>2
<1>15. RowEntries'
  <2> SUFFICES ASSUME NEW l \in Key, NEW e \in Range(objects[l])
               PROVE  /\ e.version = -1 \/ (e.version \in 1..LastTxn /\ HasPut(e.version, l)')
                      /\ Used(l, e.value)'
                      /\ <<e.version, l>> \in changing' => e.value = buffer[e.version][l]
    BY <1>1 DEF RowEntries
  <2>1. /\ e.version = -1 \/ (e.version \in 1..LastTxn /\ HasPut(e.version, l))
        /\ Used(l, e.value)
        /\ <<e.version, l>> \in changing => e.value = buffer[e.version][l]
    BY <1>2 DEF RowEntries
  <2>2. <<e.version, l>> \in changing' => <<e.version, l>> \in changing
    BY <1>1
  <2>3. QED
    BY <1>8, <2>1, <2>2
<1>16. RowContents'
  <2> SUFFICES ASSUME NEW l \in Key, NEW e \in Range(objects[l])
               PROVE  \/ <<e.version, l>> \in changing'
                      \/ contents'[l][e.value] = Writer(e.version)
                      \/ /\ contents'[l][e.value] \in InPlace /\ contents'[l][e.value] > e.version
                         /\ <<contents'[l][e.value], l>> \in written'
    BY <1>1 DEF RowContents
  <2>1. /\ e.value \in 0..LastTxn /\ e.version \in Int
        /\ e.version = -1 \/ (e.version \in 1..LastTxn /\ <<e.version, l>> \in changing \cup written)
    BY <1>2, RowFacts DEF RowEntries, HasPut
  <2>2. \/ <<e.version, l>> \in changing
        \/ contents[l][e.value] = Writer(e.version)
        \/ /\ contents[l][e.value] \in InPlace /\ contents[l][e.value] > e.version
           /\ <<contents[l][e.value], l>> \in written
    BY <1>2 DEF RowContents
  <2>3. CASE l # k
    BY <1>8, <1>9, <2>1, <2>2, <2>3
  <2>4. CASE l = k /\ e.version = t
    BY <1>2, <1>6, <1>9, <2>4 DEF Writer
  <2>5. CASE l = k /\ e.version # t /\ e.value = b
    <3>1. e.version < t
      <4>1. CASE e.version = -1
        BY <1>2, <4>1
      <4>2. CASE e.version \in 1..LastTxn /\ <<e.version, k>> \in changing \cup written
        BY <1>7, <2>5, <4>2
      <4>3. QED
        BY <2>1, <2>5, <4>1, <4>2
    <3>2. QED
      BY <1>1, <1>2, <1>3, <1>9, <2>1, <2>5, <3>1
  <2>6. CASE l = k /\ e.version # t /\ e.value # b
    BY <1>8, <1>9, <2>1, <2>2, <2>6
  <2>7. QED
    BY <2>3, <2>4, <2>5, <2>6
<1>17. NewestKept'
  BY <1>1, <1>2, <1>8 DEF NewestKept, Busy
<1>18. AppValue'
  <2> SUFFICES ASSUME kind = "pingpong", NEW l \in Key
               PROVE  /\ Used(l, array.app[l])'
                      /\ \A u \in 1..LastTxn : <<u, l>> \in changing' => array.app[l] = buffer[u][l]
                      /\ (\A u \in 1..LastTxn : <<u, l>> \notin changing') =>
                            /\ \/ contents'[l][array.app[l]] = 0
                               \/ /\ contents'[l][array.app[l]] \in 1..LastTxn
                                  /\ <<contents'[l][array.app[l]], l>> \in written'
                            /\ \A u \in 1..LastTxn : HasPut(u, l) => u <= contents'[l][array.app[l]]
    BY <1>1, <1>8 DEF AppValue, LastOn
  <2>1. /\ Used(l, array.app[l])
        /\ \A u \in 1..LastTxn : <<u, l>> \in changing => array.app[l] = buffer[u][l]
        /\ (\A u \in 1..LastTxn : <<u, l>> \notin changing) => LastOn(l, contents[l][array.app[l]])
    BY <1>2 DEF AppValue
  <2>2. array.app[l] = 0 \/ array.app[l] \in 1..LastTxn
    BY <1>2, <2>1, Ranges DEF Used, PutTypeOK
  <2>3. Used(l, array.app[l])'
    BY <1>1, <2>1 DEF Used
  <2>4. CASE l # k
    <3>1. contents'[l][array.app[l]] = contents[l][array.app[l]]
      <4>1. array.app[l] \in 0..LastTxn
        BY <2>2, Consts
      <4>2. QED
        BY <1>9, <2>4, <4>1
    <3>2. \A u \in 1..LastTxn : <<u, l>> \in changing' <=> <<u, l>> \in changing
      BY <1>8, <2>4
    <3>3. QED
      BY <1>8, <2>1, <2>3, <3>1, <3>2 DEF LastOn
  <2>5. CASE l = k
    <3>1. contents'[l][array.app[l]] = t
      BY <1>6, <1>9, <2>5
    <3>2. \A u \in 1..LastTxn : <<u, k>> \notin changing'
      BY <1>1, <1>7
    <3>3. \A u \in 1..LastTxn : HasPut(u, k) => u <= t
      <4>1. TAKE u \in 1..LastTxn
      <4>2. CASE u = t
        BY <1>2, <4>2
      <4>3. CASE u # t
        BY <1>2, <1>7, <4>3 DEF HasPut
      <4>4. QED
        BY <4>2, <4>3
    <3>4. QED
      BY <1>1, <1>2, <2>3, <2>5, <3>1, <3>2, <3>3
  <2>6. QED
    BY <2>4, <2>5
<1>19. StableKept' /\ OneAbove'
  BY <1>1, <1>2, <1>8 DEF StableKept, OneAbove, Versioned, Hobbes, Wanted, Floor, prepareVars, threadVars
<1>20. QED
  BY <1>10, <1>11, <1>12, <1>13, <1>14, <1>15, <1>16, <1>17, <1>18, <1>19 DEF KeptInv

(* What a capture writes down.                                             *)
LEMMA FoundType ==
  ASSUME CheckpointTypeOK, RowEntries, NEW k \in Key
  PROVE  /\ Found(k) \in 0..LastTxn \cup {NULL}
         /\ Content(k, Found(k)) \in 0..LastTxn \cup {NULL}
         /\ \A v \in Int : Get(objects[k], v) \in 0..LastTxn \cup {NULL}
         /\ \A b \in 0..LastTxn \cup {NULL} : Content(k, b) \in 0..LastTxn \cup {NULL}
<1>1. ASSUME NEW v \in Int
      PROVE  Get(objects[k], v) \in 0..LastTxn \cup {NULL}
  <2>1. RowType(objects[k], 0..LastTxn)
    BY RowFacts
  <2>2. CASE Get(objects[k], v) = NULL
    BY <2>2
  <2>3. CASE Get(objects[k], v) # NULL
    <3>1. PICK e \in Range(objects[k]) : Get(objects[k], v) = e.value
      BY <2>1, <2>3, GetFrom
    <3>2. QED
      BY <3>1, RowFacts
  <2>4. QED
    BY <2>2, <2>3
<1>2. ASSUME NEW b \in 0..LastTxn \cup {NULL}
      PROVE  Content(k, b) \in 0..LastTxn \cup {NULL}
  BY <1>2, Ranges DEF Content
<1>3. Found(k) \in 0..LastTxn \cup {NULL}
  <2>1. array[Captured][k] \in 0..LastTxn \cup {NULL}
    <3>1. array \in [{"app", "odd", "even"} -> Data] /\ Captured \in {"odd", "even"}
      BY DEF CheckpointTypeOK, StoreTypeOK, Captured
    <3>2. QED
      BY <3>1 DEF Data
  <2>2. LastTxn + 1 \in Int /\ stable_ \in Int
    BY Consts, Ranges
  <2>3. QED
    BY <1>1, <2>1, <2>2 DEF Found
<1>4. QED
  BY <1>1, <1>2, <1>3

LEMMA ScanKept == ASSUME KeptInv, NEW k \in Key, Scan(k) PROVE KeptInv'
<1>1. /\ thread = "scanning" /\ to_scan' = to_scan \ {k}
      /\ file' = IF Found(k) = NULL THEN file
                 ELSE [l \in DOMAIN file \cup {k} |-> IF l = k THEN Content(k, Found(k)) ELSE file[l]]
      /\ dirty' = IF kind = "pingpong" THEN [dirty EXCEPT ![Captured] = @ \ {k}] ELSE dirty
      /\ UNCHANGED <<kind, txnVars, putVars, contents, array, filter, prepareVars, waitVars, thread,
                     point, recovered, seenVars>>
  BY DEF Scan
<1>2. /\ CheckpointTypeOK /\ TxnOrder /\ PutSteps /\ MinimumKept /\ BufferContents /\ RowEntries
      /\ RowContents /\ AppValue /\ Phases /\ StableKept /\ OneAbove /\ NewestKept
      /\ TxnTypeOK /\ PutTypeOK /\ StoreTypeOK /\ PrepareTypeOK /\ CaptureTypeOK
  BY DEF KeptInv, CheckpointTypeOK
<1>3. /\ objects' \in [Key -> Seq([version : Int, value : 0..LastTxn])]
      /\ \A l \in Key : Descending(objects'[l])
      /\ \A l \in Key \ {k} : objects'[l] = objects[l]
      /\ \A l \in Key : Range(objects'[l]) \subseteq Range(objects[l])
      /\ ~ Hobbes => objects' = objects
      /\ \A e \in Range(objects[k]) :
           (\A f \in Range(objects[k]) : f.version <= e.version) => e \in Range(objects'[k])
  BY <1>2, ScanRow
<1>4. TxnOrder'
  BY <1>1, <1>2 DEF TxnOrder, HasPut, txnVars, putVars
<1>5. CheckpointTypeOK'
  <2>1. TxnTypeOK' /\ PrepareTypeOK' /\ PutTypeOK'
    BY <1>1, <1>2 DEF TxnTypeOK, PrepareTypeOK, PutTypeOK, txnVars, prepareVars, putVars
  <2>2. StoreTypeOK'
    <3>1. dirty' \in [{"odd", "even"} -> SUBSET Key]
      BY <1>1, <1>2 DEF StoreTypeOK
    <3>2. QED
      BY <1>1, <1>2, <1>3, <3>1 DEF StoreTypeOK
  <2>3. CaptureTypeOK'
    <3>1. DOMAIN file' \subseteq Key /\ file' \in [DOMAIN file' -> 0..LastTxn \cup {NULL}]
      <4>1. DOMAIN file \subseteq Key /\ file \in [DOMAIN file -> 0..LastTxn \cup {NULL}]
        BY <1>2 DEF CaptureTypeOK
      <4>2. CASE Found(k) = NULL
        <5>1. file' = file
          BY <1>1, <4>2
        <5>2. QED
          BY <4>1, <5>1
      <4>3. CASE Found(k) # NULL
        <5> DEFINE value == Content(k, Found(k))
        <5>1. value \in 0..LastTxn \cup {NULL}
          BY <1>2, FoundType
        <5>2. file' = [l \in DOMAIN file \cup {k} |-> IF l = k THEN value ELSE file[l]]
          BY <1>1, <4>3
        <5> HIDE DEF value
        <5>3. DOMAIN file' = DOMAIN file \cup {k}
          BY <5>2
        <5>4. file' \in [DOMAIN file \cup {k} -> 0..LastTxn \cup {NULL}]
          BY <4>1, <5>1, <5>2
        <5>5. QED
          BY <4>1, <5>3, <5>4
      <4>4. QED
        BY <4>2, <4>3
    <3>2. to_scan' \subseteq Key
      BY <1>1, <1>2 DEF CaptureTypeOK
    <3>3. QED
      BY <1>1, <1>2, <3>1, <3>2 DEF CaptureTypeOK, waitVars, seenVars
  <2>4. QED
    BY <2>1, <2>2, <2>3 DEF CheckpointTypeOK
<1>6. PutSteps' /\ MinimumKept' /\ BufferContents' /\ Phases'
  <2>1. PutSteps' /\ BufferContents'
    BY <1>1, <1>2 DEF PutSteps, BufferContents, Used, putVars
  <2>2. MinimumKept' /\ Phases'
    BY <1>1, <1>2 DEF MinimumKept, Phases, Hobbes, txnVars, putVars, prepareVars
  <2>3. QED
    BY <2>1, <2>2
<1>7. RowEntries' /\ RowContents'
  BY <1>1, <1>2, <1>3 DEF RowEntries, RowContents, HasPut, Used, putVars
<1>8. NewestKept'
  <2> SUFFICES ASSUME kind # "pingpong", NEW l \in Key, ~ Busy(l)
               PROVE  \E e \in Range(objects'[l]) : \A u \in 1..LastTxn : HasPut(u, l) => u <= e.version
    BY <1>1 DEF NewestKept, HasPut, Busy, putVars
  <2>1. PICK e \in Range(objects[l]) : \A u \in 1..LastTxn : HasPut(u, l) => u <= e.version
    BY <1>2 DEF NewestKept
  <2>2. CASE l # k
    BY <1>3, <2>1, <2>2
  <2>3. CASE l = k
    <3>1. ASSUME NEW f \in Range(objects[k])
          PROVE  f.version <= e.version
      <4>1. e.version \in -1..LastTxn /\ LastTxn \in Nat
        BY <1>2, <2>3, RowFacts, Consts
      <4>2. CASE f.version = -1
        BY <4>1, <4>2
      <4>3. CASE f.version \in 1..LastTxn /\ HasPut(f.version, k)
        BY <2>1, <2>3, <4>3
      <4>4. QED
        BY <1>2, <4>2, <4>3 DEF RowEntries
    <3>2. QED
      BY <1>3, <2>1, <2>3, <3>1
  <2>4. QED
    BY <2>2, <2>3
<1>9. AppValue'
  BY <1>1, <1>2 DEF AppValue, LastOn, HasPut, Used, putVars
<1>10. StableKept'
  <2> SUFFICES ASSUME Versioned, stable_ > 0, NEW l \in Key, Wanted(l)'
               PROVE  \/ \E u \in 1..LastTxn : u < stable_ /\ <<u, l>> \in putting
                      \/ \E e \in Range(objects'[l]) :
                           /\ e.version < stable_
                           /\ \A u \in 1..LastTxn : u < stable_ /\ HasPut(u, l) => u <= e.version
    BY <1>1 DEF StableKept, Versioned, Hobbes, HasPut, prepareVars, putVars
  <2>1. Wanted(l) /\ objects'[l] = objects[l]
    <3>1. CASE kind = "multiversion"
      BY <1>3, <3>1 DEF Wanted, Hobbes
    <3>2. CASE kind # "multiversion"
      <4>1. l \in to_scan'
        BY <1>1, <3>2 DEF Wanted
      <4>2. QED
        BY <1>1, <1>3, <4>1 DEF Wanted
    <3>3. QED
      BY <3>1, <3>2
  <2>2. QED
    BY <1>2, <2>1 DEF StableKept
<1>11. OneAbove'
  BY <1>1, <1>2, <1>3 DEF OneAbove, Hobbes, Floor, prepareVars, putVars
<1>12. QED
  BY <1>4, <1>5, <1>6, <1>7, <1>8, <1>9, <1>10, <1>11 DEF KeptInv

(* The other steps of the thread change nothing that puts depend on.       *)
LEMMA CloseType ==
  ASSUME CaptureTypeOK, Close, UNCHANGED <<waitVars, point, seenVars>> PROVE CaptureTypeOK'
<1>1. /\ file \in [DOMAIN file -> 0..LastTxn \cup {NULL}] /\ recovered \in Data
      /\ recovered' = [k \in Key |-> IF k \in DOMAIN file THEN file[k]
                                     ELSE IF Partial THEN recovered[k] ELSE NULL]
      /\ thread' = "idle" /\ UNCHANGED <<to_scan, file>>
  BY DEF CaptureTypeOK, Close
<1>2. ASSUME NEW k \in Key
      PROVE  (IF k \in DOMAIN file THEN file[k] ELSE IF Partial THEN recovered[k] ELSE NULL)
               \in 0..LastTxn \cup {NULL}
  BY <1>1 DEF Data
<1>3. recovered' \in Data
  BY <1>1, <1>2 DEF Data
<1>4. QED
  BY <1>1, <1>3 DEF CaptureTypeOK, waitVars, seenVars

LEMMA ThreadKept ==
  ASSUME KeptInv,
         \/ OpenFile \/ (\E name \in Versions_ \cup 0..Rounds : StartCapture(name))
         \/ EndScan \/ Zero \/ Swap \/ UNCHANGED vars
  PROVE  KeptInv'
<1>1. /\ CheckpointTypeOK /\ TxnOrder /\ MinimumKept /\ StableKept /\ OneAbove /\ Phases
      /\ TxnTypeOK /\ PutTypeOK /\ StoreTypeOK /\ PrepareTypeOK /\ CaptureTypeOK
      /\ recovered \in Data /\ file \in [DOMAIN file -> 0..LastTxn \cup {NULL}] /\ DOMAIN file \subseteq Key
      /\ created \in Nat /\ opened \in [Versions_ -> Nat] /\ clean \in BOOLEAN /\ sound \in BOOLEAN
      /\ RowEntries /\ LastTxn \in Nat
  BY Consts DEF KeptInv, CheckpointTypeOK, CaptureTypeOK
<1>2. /\ UNCHANGED <<kind, txnVars, putVars, objects, contents, array, dirty, odd_is_being_updated_,
                     upcoming_checkpoint, rounds>>
      /\ stable_' = stable_ \/ stable_' = MINUS_MAX
  BY DEF OpenFile, StartCapture, EndScan, Zero, Swap, vars, storeVars, prepareVars
<1>3. PutSteps' /\ BufferContents' /\ RowEntries' /\ RowContents' /\ NewestKept' /\ AppValue' /\ TxnOrder'
  <2>1. TxnOrder'
    BY <1>1, <1>2 DEF TxnOrder, HasPut, txnVars, putVars
  <2>2. QED
    BY <1>2, <2>1, StoreKept DEF putVars
<1>4. TxnTypeOK' /\ PutTypeOK' /\ PrepareTypeOK'
  BY <1>1, <1>2 DEF TxnTypeOK, PutTypeOK, PrepareTypeOK, txnVars, putVars, Versions_
<1>5. ~ (MINUS_MAX > 0)
  BY DEF MINUS_MAX
<1>6. MinimumKept' /\ OneAbove'
  <2>1. CASE stable_' = stable_
    BY <1>1, <1>2, <2>1 DEF MinimumKept, OneAbove, Hobbes, Floor, txnVars, putVars
  <2>2. CASE stable_' = MINUS_MAX
    <3>1. MinimumKept'
      BY <1>1, <1>2, <1>5, <2>2 DEF MinimumKept, Hobbes, txnVars, putVars
    <3>2. CASE kind = "naive"
      <4>1. OneAbove' <=> OneAbove
        BY <1>2, <3>2 DEF OneAbove, Hobbes, Floor, putVars
      <4>2. QED
        BY <1>1, <3>1, <4>1
    <3>3. CASE kind # "naive"
      BY <1>2, <1>5, <2>2, <3>1, <3>3 DEF OneAbove, Hobbes
    <3>4. QED
      BY <3>2, <3>3
  <2>3. QED
    BY <1>2, <2>1, <2>2
<1>7. ASSUME StoreTypeOK', CaptureTypeOK', StableKept', Phases'
      PROVE  KeptInv'
  BY <1>3, <1>4, <1>6, <1>7 DEF KeptInv, CheckpointTypeOK
<1>8. CASE OpenFile
  <2>1. /\ Hobbes /\ created > 0 /\ created' = created - 1
        /\ opened' = [opened EXCEPT ![stable_] = @ + 1]
        /\ file' = file \/ file' = NoFile
        /\ clean' = (clean /\ ~ Reopened) /\ sound' = (sound /\ ~ Reopened)
        /\ UNCHANGED <<storeVars, stable_, thread, to_scan, point, recovered, frozen>>
    BY <1>8 DEF OpenFile, prepareVars
  <2>2. StableKept' /\ Phases' /\ StoreTypeOK'
    <3>1. StableKept'
      BY <1>1, <1>2, <2>1 DEF StableKept, Versioned, Hobbes, Wanted, HasPut, putVars
    <3>2. Phases'
      BY <1>1, <1>2, <2>1 DEF Phases
    <3>3. StoreTypeOK'
      BY <1>1, <2>1 DEF StoreTypeOK, storeVars
    <3>4. QED
      BY <3>1, <3>2, <3>3
  <2>3. CaptureTypeOK'
    <3>1. created' \in Nat
      BY <1>1, <2>1
    <3>2. opened' \in [Versions_ -> Nat]
      BY <1>1, <2>1 DEF PrepareTypeOK
    <3>3. DOMAIN file' \subseteq Key /\ file' \in [DOMAIN file' -> 0..LastTxn \cup {NULL}]
      <4>1. DOMAIN NoFile \subseteq Key /\ NoFile \in [DOMAIN NoFile -> 0..LastTxn \cup {NULL}]
        BY DEF NoFile
      <4>2. CASE file' = file
        BY <1>1, <4>2
      <4>3. CASE file' = NoFile
        BY <4>1, <4>3
      <4>4. QED
        BY <2>1, <4>2, <4>3
    <3>4. clean' \in BOOLEAN /\ sound' \in BOOLEAN
      BY <1>1, <2>1
    <3>5. QED
      BY <1>1, <2>1, <3>1, <3>2, <3>3, <3>4 DEF CaptureTypeOK
  <2>4. QED
    BY <1>7, <2>2, <2>3
<1>9. ASSUME NEW name \in Versions_ \cup 0..Rounds, StartCapture(name)
      PROVE  KeptInv'
  <2>1. /\ thread = "idle" /\ thread' = "scanning" /\ point' = name
        /\ to_scan' = Key /\ file' = NoFile
        /\ clean' = Clean(name) /\ sound' = (sound /\ Clean(name))
        /\ frozen' = IF kind = "naive" THEN [k \in Key |-> Content(k, Get(objects[k], LastTxn + 1))] ELSE frozen
        /\ UNCHANGED <<storeVars, stable_, recovered>>
        /\ \/ created > 0 /\ created' = created - 1 /\ UNCHANGED opened
           \/ /\ name \in Versions_ /\ opened[name] > 0
              /\ opened' = [opened EXCEPT ![name] = @ - 1] /\ UNCHANGED created
    BY <1>9 DEF StartCapture, prepareVars
  <2>2. StableKept'
    <3>1. \A k \in Key : Wanted(k)
      BY <2>1 DEF Wanted
    <3>2. QED
      BY <1>1, <1>2, <2>1, <3>1 DEF StableKept, Versioned, Hobbes, HasPut, putVars
  <2>3. Phases' /\ StoreTypeOK'
    BY <1>1, <2>1 DEF Phases, StoreTypeOK, storeVars
  <2>4. CaptureTypeOK'
    <3>1. created' \in Nat
      BY <1>1, <2>1
    <3>2. opened' \in [Versions_ -> Nat]
      BY <1>1, <2>1
    <3>3. DOMAIN file' \subseteq Key /\ file' \in [DOMAIN file' -> 0..LastTxn \cup {NULL}]
      BY <2>1 DEF NoFile
    <3>4. clean' \in BOOLEAN /\ sound' \in BOOLEAN
      BY <1>1, <2>1 DEF Clean
    <3>5. frozen' \in Data
      <4>1. ASSUME NEW k \in Key
            PROVE  Content(k, Get(objects[k], LastTxn + 1)) \in 0..LastTxn \cup {NULL}
        <5>1. LastTxn + 1 \in Int
          BY <1>1
        <5>2. QED
          BY <1>1, <5>1, FoundType
      <4>2. CASE kind = "naive"
        BY <2>1, <4>1, <4>2 DEF Data
      <4>3. CASE kind # "naive"
        BY <1>1, <2>1, <4>3 DEF CaptureTypeOK
      <4>4. QED
        BY <4>2, <4>3
    <3>6. point' \in Int
      <4>1. Versions_ \subseteq Int /\ 0..Rounds \subseteq Int
        BY Consts DEF Versions_, MINUS_MAX
      <4>2. QED
        BY <2>1, <4>1
    <3>7. QED
      BY <1>1, <2>1, <3>1, <3>2, <3>3, <3>4, <3>5, <3>6 DEF CaptureTypeOK
  <2>5. QED
    BY <1>7, <2>2, <2>3, <2>4
<1>10. CASE EndScan
  <2>1. /\ thread = "scanning" /\ stable_' = IF Hobbes THEN MINUS_MAX ELSE stable_
        /\ IF kind = "filtered" THEN thread' = "zeroing" /\ UNCHANGED <<to_scan, file, recovered>> ELSE Close
        /\ UNCHANGED <<storeVars, waitVars, point, seenVars>>
    BY <1>10 DEF EndScan
  <2>2. StableKept'
    <3>1. CASE Hobbes
      BY <1>2, <1>5, <2>1, <3>1 DEF StableKept
    <3>2. CASE kind = "multiversion"
      BY <1>1, <1>2, <2>1, <3>2 DEF StableKept, Versioned, Hobbes, Wanted, HasPut, putVars
    <3>3. CASE ~ Versioned
      BY <1>2, <3>3 DEF StableKept, Versioned, Hobbes
    <3>4. QED
      BY <3>1, <3>2, <3>3 DEF Versioned
  <2>3. Phases' /\ StoreTypeOK'
    BY <1>1, <1>2, <2>1 DEF Phases, StoreTypeOK, storeVars, Close, Hobbes
  <2>4. CaptureTypeOK'
    <3>1. CASE kind = "filtered"
      BY <1>1, <2>1, <3>1 DEF CaptureTypeOK, waitVars, seenVars
    <3>2. CASE kind # "filtered"
      BY <1>1, <2>1, <3>2, CloseType
    <3>3. QED
      BY <3>1, <3>2
  <2>5. QED
    BY <1>7, <2>2, <2>3, <2>4
<1>11. CASE Zero \/ Swap
  <2>1. /\ thread \in {"zeroing", "swapping"} /\ kind = "filtered" /\ stable_ = MINUS_MAX
        /\ thread' \in {"swapping", "idle"}
        /\ UNCHANGED <<objects, contents, array, dirty, prepareVars, waitVars, point, seenVars>>
    BY <1>1, <1>11 DEF Zero, Swap, Close, Phases
  <2>2. StableKept'
    BY <1>5, <2>1 DEF StableKept, prepareVars
  <2>3. Phases'
    BY <1>2, <2>1 DEF Phases, prepareVars
  <2>4. StoreTypeOK'
    <3>1. filter' \in [{"stable", "unstable"} -> SUBSET Key]
      <4>1. filter \in [{"stable", "unstable"} -> SUBSET Key]
        BY <1>1 DEF StoreTypeOK
      <4>2. CASE Zero
        BY <4>1, <4>2 DEF Zero
      <4>3. CASE Swap
        <5>1. filter' = [stable |-> filter.unstable, unstable |-> filter.stable]
          BY <4>3 DEF Swap
        <5>2. QED
          BY <4>1, <5>1
      <4>4. QED
        BY <1>11, <4>2, <4>3
    <3>2. QED
      BY <1>1, <2>1, <3>1 DEF StoreTypeOK
  <2>5. CaptureTypeOK'
    <3>1. CASE Zero
      BY <1>1, <3>1 DEF Zero, CaptureTypeOK, waitVars, seenVars
    <3>2. CASE Swap
      BY <1>1, <3>2, CloseType DEF Swap
    <3>3. QED
      BY <1>11, <3>1, <3>2
  <2>6. QED
    BY <1>7, <2>2, <2>3, <2>4, <2>5
<1>12. CASE UNCHANGED vars
  <2>1. /\ UNCHANGED <<storeVars, prepareVars, waitVars, threadVars, seenVars>>
    BY <1>12 DEF vars
  <2>2. StoreTypeOK' /\ CaptureTypeOK'
    BY <1>1, <2>1 DEF StoreTypeOK, CaptureTypeOK, storeVars, waitVars, threadVars, seenVars
  <2>3. StableKept' /\ Phases'
    BY <1>1, <1>2, <2>1 DEF StableKept, Versioned, Hobbes, Wanted, HasPut, Phases, putVars, prepareVars, threadVars
  <2>4. QED
    BY <1>7, <2>2, <2>3
<1>13. QED
  BY <1>8, <1>9, <1>10, <1>11, <1>12

LEMMA NextKept == ASSUME KeptInv, [Next]_vars PROVE KeptInv'
<1>1. ASSUME NEW t \in 1..locked, NEW k \in Key, PutStep(t, k)
      PROVE  KeptInv'
  BY <1>1, HandlePutKept, PrunePutKept, MarkKept, InsertKept, ChangeKept DEF PutStep
<1>2. CASE Lock
  BY <1>2, LockKept
<1>3. ASSUME NEW t \in 1..locked, Finish(t) \/ ReadMinimum(t)
      PROVE  KeptInv'
  BY <1>3, FinishKept, ReadMinimumKept
<1>4. CASE Capture
  BY <1>4, ScanKept, ThreadKept DEF Capture
<1>5. CASE UNCHANGED vars
  BY <1>5, ThreadKept
<1>6. QED
  BY <1>1, <1>2, <1>3, <1>4, <1>5 DEF Next

LEMMA AlwaysKept == Spec => []KeptInv
BY InitKept, NextKept, PTL DEF Spec

-----------------------------------------------------------------------------
(* The properties.                                                         *)

(* At most one version of a row is above Hobbes' checkpoint, and a naive   *)
(* checkpointer's rows have one version (hobbes.h:35-36).                  *)
LEMMA OneAboveIsOne ==
  ASSUME KeptInv PROVE OneUnstable
<1>1. /\ CheckpointTypeOK /\ RowEntries /\ OneAbove /\ stable_ \in Int /\ MINUS_MAX = -2
  BY Ranges DEF KeptInv, MINUS_MAX
<1>2. ASSUME NEW k \in Key
      PROVE  /\ Len(objects[k]) \in Nat /\ DOMAIN objects[k] = 1..Len(objects[k])
             /\ \A i \in 1..Len(objects[k]) :
                  /\ objects[k][i] \in Range(objects[k])
                  /\ objects[k][i].version \in Int /\ objects[k][i].version >= -1
             /\ \A i, j \in 1..Len(objects[k]) : i < j => objects[k][i].version > objects[k][j].version
  <2>1. RowType(objects[k], 0..LastTxn) /\ Descending(objects[k])
    BY <1>1, RowFacts
  <2>2. Len(objects[k]) \in Nat /\ DOMAIN objects[k] = 1..Len(objects[k])
    BY <2>1 DEF RowType
  <2>3. \A i \in 1..Len(objects[k]) : objects[k][i] \in Range(objects[k])
    BY <2>2 DEF Range
  <2>4. \A e \in Range(objects[k]) : e.version \in Int /\ e.version >= -1
    BY <1>1, RowFacts, Consts
  <2>5. QED
    BY <2>1, <2>2, <2>3, <2>4 DEF Descending
<1>3. ASSUME NEW k \in Key, kind = "naive"
      PROVE  Len(objects[k]) <= 1
  <2>1. \A e, f \in Range(objects[k]) : e.version > MINUS_MAX /\ f.version > MINUS_MAX => e.version = f.version
    BY <1>1, <1>3 DEF OneAbove, Floor
  <2>2. SUFFICES ASSUME Len(objects[k]) > 1 PROVE FALSE
    BY <1>2
  <2>3. 1 \in 1..Len(objects[k]) /\ 2 \in 1..Len(objects[k])
    BY <1>2, <2>2
  <2>4. objects[k][1].version > objects[k][2].version
    BY <1>2, <2>3
  <2>5. objects[k][1].version = objects[k][2].version
    BY <1>1, <1>2, <2>1, <2>3
  <2>6. QED
    BY <1>2, <2>3, <2>4, <2>5
<1>4. ASSUME NEW k \in Key, Hobbes, stable_ > 0
      PROVE  Cardinality({i \in DOMAIN objects[k] : objects[k][i].version > stable_}) <= 1
  <2> DEFINE S == {i \in DOMAIN objects[k] : objects[k][i].version > stable_}
  <2>1. \A e, f \in Range(objects[k]) : e.version > stable_ /\ f.version > stable_ => e.version = f.version
    BY <1>1, <1>4 DEF OneAbove, Floor, Hobbes
  <2>2. ASSUME NEW i \in S, NEW j \in S
        PROVE  i = j
    <3>1. i \in 1..Len(objects[k]) /\ j \in 1..Len(objects[k])
      BY <1>2
    <3>2. objects[k][i].version = objects[k][j].version
      BY <1>2, <2>1, <3>1
    <3>3. ~ (i < j) /\ ~ (j < i)
      BY <1>2, <3>1, <3>2
    <3>4. QED
      BY <1>2, <3>1, <3>3
  <2> HIDE DEF S
  <2>4. ASSUME NEW i \in S
        PROVE  Cardinality(S) <= 1
    <3>1. S = {i}
      BY <2>2
    <3>2. Cardinality(S) = 1
      BY <3>1, FS_Singleton
    <3>3. QED
      BY <3>2
  <2>5. Cardinality(S) <= 1
    <3>1. CASE S = {}
      BY <3>1, FS_EmptySet
    <3>2. CASE S # {}
      BY <2>4, <3>2
    <3>3. QED
      BY <3>1, <3>2
  <2>6. QED
    BY <2>5 DEF S
<1>5. QED
  BY <1>3, <1>4 DEF OneUnstable

(* hobbes.h:35-36: a row never has two versions newer than the checkpoint  *)
(* in progress, and under a naive checkpointer never two at all: a put     *)
(* prunes before it inserts, and nobody else puts the key meanwhile.       *)
THEOREM AtMostOneUnstable == Spec => []OneUnstable
BY AlwaysKept, OneAboveIsOne, PTL

LEMMA WriterBeforeIs ==
  ASSUME NEW k \in Key, NEW v \in Nat \ {0}, NEW w \in 0..LastTxn,
         w = 0 \/ (w < v /\ k \in Writes[w]),
         \A t \in 1..LastTxn : t < v /\ k \in Writes[t] => t <= w
  PROVE  WriterBefore(k, v) = w
<1> DEFINE b == Min({v - 1, LastTxn})
           S == {0} \cup {t \in 1..b : k \in Writes[t]}
<1>1. LastTxn \in Nat /\ v - 1 \in Nat
  BY Consts
<1>2. b \in {v - 1, LastTxn} /\ b <= v - 1 /\ b <= LastTxn
  <2>1. {v - 1, LastTxn} \in SUBSET Nat
    BY <1>1
  <2>2. b \in {v - 1, LastTxn} /\ \A y \in {v - 1, LastTxn} : b <= y
    BY <2>1, MinProperties
  <2>3. QED
    BY <2>2
<1> HIDE DEF b
<1>3. \A t \in Nat : t \in 1..b <=> t \in 1..LastTxn /\ t < v
  BY <1>1, <1>2
<1>4. S \in SUBSET Nat /\ IsFiniteSet(S) /\ S # {}
  <2>0. b \in Nat
    BY <1>1, <1>2
  <2>1. IsFiniteSet(0..b)
    BY <2>0, FS_Interval
  <2>2. IsFiniteSet(S)
    <3>1. S \subseteq 0..b
      BY <2>0
    <3>2. QED
      BY <2>1, <3>1, FS_Subset
  <2>3. QED
    BY <1>1, <1>2, <2>1, <2>2
<1>5. \A t \in S : t <= w
  BY <1>1, <1>3
<1>6. w \in S
  BY <1>1, <1>3
<1>7. WriterBefore(k, v) = Max(S)
  BY DEF WriterBefore, b
<1> HIDE DEF S
<1>8. Max(S) \in S /\ \A y \in S : y <= Max(S)
  BY <1>4, MaxProperties
<1>9. Max(S) \in Nat /\ Max(S) <= w /\ w <= Max(S)
  BY <1>4, <1>5, <1>6, <1>8
<1>10. QED
  BY <1>1, <1>7, <1>9

(* In a row with the last version put before v, that is the one to read,   *)
(* and its buffer holds what its transaction wrote, unless it is still     *)
(* being changed, or one from v on has changed it in place.                *)
LEMMA RowRead ==
  ASSUME KeptInv, NEW k \in Key, NEW v \in Nat \ {0}, NEW e \in Range(objects[k]), e.version < v,
         \A u \in 1..LastTxn : u < v /\ HasPut(u, k) => u <= e.version,
         \A u \in 1..LastTxn : u < v /\ k \in Writes[u] => <<u, k>> \in written
  PROVE  /\ Get(objects[k], v) = e.value
         /\ \/ contents[k][e.value] = WriterBefore(k, v)
            \/ \E c \in InPlace : v <= c /\ c <= locked /\ <<c, k>> \in written /\ k \in Writes[c]
<1> DEFINE c == contents[k][e.value]
<1>1. /\ CheckpointTypeOK /\ TxnOrder /\ RowEntries /\ RowContents /\ LastTxn \in Nat
      /\ InPlace \subseteq 1..LastTxn /\ locked \in Nat /\ PutTypeOK /\ v \in Int
  BY Consts, Ranges DEF KeptInv, CheckpointTypeOK
<1>2. \A f \in Range(objects[k]) :
        /\ f.version \in Int /\ f.version >= -1
        /\ f.version = -1 \/ (f.version \in 1..LastTxn /\ HasPut(f.version, k))
  <2>1. TAKE f \in Range(objects[k])
  <2>2. f.version \in -1..LastTxn
    BY <1>1, RowFacts
  <2>3. f.version \in Int /\ f.version >= -1
    BY <1>1, <2>2
  <2>4. f.version = -1 \/ (f.version \in 1..LastTxn /\ HasPut(f.version, k))
    BY <1>1 DEF RowEntries
  <2>5. QED
    BY <2>3, <2>4
<1>3. Get(objects[k], v) = e.value
  <2>1. \A f \in Range(objects[k]) : f.version < v => f.version <= e.version
    BY <1>2
  <2>2. RowType(objects[k], 0..LastTxn) /\ Descending(objects[k])
    BY <1>1, RowFacts
  <2>3. QED
    BY <1>1, <2>1, <2>2, GetFinds
<1>4. <<e.version, k>> \notin changing
  <2>1. CASE e.version = -1
    BY <1>1, <2>1 DEF PutTypeOK
  <2>2. CASE e.version \in 1..LastTxn /\ HasPut(e.version, k)
    <3>1. k \in Writes[e.version]
      BY <1>1, <2>2 DEF TxnOrder
    <3>2. <<e.version, k>> \in written
      BY <2>2, <3>1
    <3>3. QED
      BY <1>1, <3>2 DEF PutTypeOK
  <2>3. QED
    BY <1>2, <2>1, <2>2
<1>5. \/ c = Writer(e.version)
      \/ c \in InPlace /\ c > e.version /\ <<c, k>> \in written
  BY <1>1, <1>4 DEF RowContents
<1> HIDE DEF c
<1>6. CASE c = Writer(e.version)
  <2>1. \A u \in 1..LastTxn : u < v /\ k \in Writes[u] => u <= e.version
    BY DEF HasPut
  <2>2. CASE e.version = -1
    <3>1. c = 0
      BY <1>6, <2>2 DEF Writer
    <3>2. \A u \in 1..LastTxn : u < v /\ k \in Writes[u] => u <= 0
      <4>1. ASSUME NEW u \in 1..LastTxn, u < v /\ k \in Writes[u]
            PROVE  FALSE
        BY <1>1, <2>1, <2>2, <4>1
      <4>2. QED
        BY <4>1
    <3>3. 0 \in 0..LastTxn
      BY <1>1
    <3>4. WriterBefore(k, v) = 0
      BY <3>2, <3>3, WriterBeforeIs
    <3>5. QED
      BY <1>3, <3>1, <3>4 DEF c
  <2>3. CASE e.version \in 1..LastTxn /\ HasPut(e.version, k)
    <3>1. c = e.version /\ k \in Writes[e.version] /\ e.version \in 0..LastTxn
      <4>1. k \in Writes[e.version]
        BY <1>1, <2>3 DEF TxnOrder
      <4>2. e.version \in 0..LastTxn /\ e.version # -1
        BY <1>1, <2>3
      <4>3. QED
        BY <1>6, <4>1, <4>2 DEF Writer
    <3>2. WriterBefore(k, v) = e.version
      BY <2>1, <3>1, WriterBeforeIs
    <3>3. QED
      BY <1>3, <3>1, <3>2 DEF c
  <2>4. QED
    BY <1>2, <2>2, <2>3
<1>7. CASE c \in InPlace /\ c > e.version /\ <<c, k>> \in written
  <2>1. c \in 1..LastTxn /\ HasPut(c, k) /\ c <= locked
    BY <1>1, <1>7 DEF HasPut, PutTypeOK
  <2>2. ~ (c < v)
    BY <1>2, <1>7, <2>1
  <2>3. v <= c /\ k \in Writes[c]
    <3>1. k \in Writes[c]
      BY <1>1, <2>1 DEF TxnOrder
    <3>2. QED
      BY <1>1, <2>1, <2>2, <3>1
  <2>4. QED
    BY <1>3, <1>7, <2>1, <2>3
<1>8. QED
  BY <1>5, <1>6, <1>7

(* Whatever was pruned, by puts of others or by the capture, a running     *)
(* transaction still reads what the transaction before it wrote: nobody    *)
(* else is putting or changing its keys, their rows keep the last version, *)
(* and all earlier transactions that write them have finished.             *)
THEOREM ReadsAreKept == Spec => []ReadsKept
<1>1. KeptInv => ReadsKept
  <2> SUFFICES ASSUME KeptInv, NEW t \in 1..locked, Running(t), NEW k \in Writes[t],
                      <<t, k>> \notin putting \cup changing \cup written
               PROVE  Content(k, Read(k, t)) = WriterBefore(k, t)
    BY DEF ReadsKept
  <2>1. /\ CheckpointTypeOK /\ TxnOrder /\ NewestKept /\ AppValue /\ RowEntries
        /\ PutTypeOK /\ LastTxn \in Nat /\ NULL \notin Nat
        /\ t \in 1..LastTxn /\ t \in Nat \ {0} /\ k \in Key
    <3>1. t \in 1..LastTxn /\ t \in Nat \ {0} /\ LastTxn \in Nat /\ NULL \notin Nat
      BY Consts, Ranges DEF KeptInv
    <3>2. k \in Key
      BY <3>1, Consts
    <3>3. QED
      BY <3>1, <3>2 DEF KeptInv, CheckpointTypeOK
  <2>2. \A u \in 1..LastTxn : <<u, k>> \in putting \cup changing \cup written =>
          u < t /\ <<u, k>> \notin putting \cup changing /\ k \in Writes[u]
    <3>1. TAKE u \in 1..LastTxn
    <3>2. HAVE <<u, k>> \in putting \cup changing \cup written
    <3>3. u # t /\ k \in Writes[u]
      BY <2>1, <3>2 DEF TxnOrder, HasPut
    <3>4. QED
      BY <2>1, <3>2, <3>3, RunningAlone
  <2>3. \A u \in 1..LastTxn : u < t /\ k \in Writes[u] => <<u, k>> \in written
    <3>1. TAKE u \in 1..LastTxn
    <3>2. HAVE u < t /\ k \in Writes[u]
    <3>3. u \in 1..(t - 1)
      BY <2>1, <3>2
    <3>4. u \in finished
      BY <3>2, <3>3 DEF Running
    <3>5. QED
      BY <2>1, <3>2, <3>4 DEF TxnOrder
  <2>4. CASE kind = "pingpong"
    <3> DEFINE w == contents[k][array.app[k]]
    <3>1. /\ Used(k, array.app[k]) /\ LastOn(k, w)
      BY <2>1, <2>2, <2>4 DEF AppValue
    <3>2. array.app[k] \in Nat
      <4>1. array.app[k] = 0 \/ <<array.app[k], k>> \in written
        BY <3>1 DEF Used
      <4>2. <<array.app[k], k>> \in written => array.app[k] \in 1..locked
        BY <2>1 DEF PutTypeOK
      <4>3. QED
        BY <4>1, <4>2
    <3>3. Content(k, Read(k, t)) = w
      BY <2>1, <2>4, <3>2 DEF Content, Read
    <3> HIDE DEF w
    <3>4. w \in 0..LastTxn /\ (w = 0 \/ <<w, k>> \in written)
      BY <2>1, <3>1 DEF LastOn
    <3>5. w = 0 \/ (w < t /\ k \in Writes[w])
      BY <2>2, <3>1, <3>4 DEF LastOn
    <3>6. \A u \in 1..LastTxn : u < t /\ k \in Writes[u] => u <= w
      BY <2>3, <3>1 DEF LastOn, HasPut
    <3>7. QED
      BY <2>1, <3>3, <3>4, <3>5, <3>6, WriterBeforeIs
  <2>5. CASE kind # "pingpong"
    <3>1. ~ Busy(k)
      BY <2>2 DEF Busy
    <3>2. PICK e \in Range(objects[k]) : \A u \in 1..LastTxn : HasPut(u, k) => u <= e.version
      BY <2>1, <2>5, <3>1 DEF NewestKept
    <3>3. e.value \in 0..LastTxn /\ e.version < t
      <4>1. e.value \in 0..LastTxn
        BY <2>1, RowFacts
      <4>2. CASE e.version = -1
        BY <2>1, <4>1, <4>2
      <4>3. CASE e.version \in 1..LastTxn /\ HasPut(e.version, k)
        BY <2>2, <4>1, <4>3 DEF HasPut
      <4>4. QED
        BY <2>1, <4>2, <4>3 DEF RowEntries
    <3>4. /\ Get(objects[k], t) = e.value
          /\ \/ contents[k][e.value] = WriterBefore(k, t)
             \/ \E c \in InPlace : t <= c /\ c <= locked /\ <<c, k>> \in written /\ k \in Writes[c]
      BY <2>1, <2>3, <3>2, <3>3, RowRead
    <3>5. ASSUME NEW c \in InPlace, t <= c, <<c, k>> \in written
          PROVE  FALSE
      <4>1. c \in 1..LastTxn /\ c \in Int
        BY Consts
      <4>2. c < t
        BY <2>2, <3>5, <4>1
      <4>3. QED
        BY <2>1, <3>5, <4>1, <4>2
    <3>6. contents[k][e.value] = WriterBefore(k, t)
      BY <3>4, <3>5
    <3>7. Read(k, t) = e.value /\ e.value # NULL
      BY <2>1, <2>5, <3>3, <3>4 DEF Read
    <3>8. QED
      BY <3>6, <3>7 DEF Content
  <2>6. QED
    BY <2>4, <2>5
<1>2. QED
  BY <1>1, AlwaysKept, PTL

-----------------------------------------------------------------------------
(* From the start of a capture whose checkpoint is a version, if all       *)
(* before it have finished, nothing is put below it.                       *)
SavedKey(k, value) == ChangedSince(k, point) \/ value = WriterBefore(k, point)
SnapshotInv ==
  ByVersion /\ clean =>
    /\ point \in Nat \ {0} /\ thread \in {"idle", "scanning"}
    /\ thread = "scanning" =>
         /\ stable_ = point /\ \A u \in 1..LastTxn : u < point => u \in finished
         /\ \A k \in Key \ to_scan : k \in DOMAIN file /\ SavedKey(k, file[k])
    /\ thread = "idle" => \A k \in Key : SavedKey(k, recovered[k])


LEMMA SavedStays ==
  ASSUME NEW k, NEW value, SavedKey(k, value), locked' >= locked, locked \in Nat, locked' \in Nat,
         point \in Nat, point' = point
  PROVE  ChangedSince(k, point)' \/ value = WriterBefore(k, point')
<1>1. ASSUME NEW t \in InPlace, point <= t /\ t <= locked /\ k \in Writes[t]
      PROVE  ChangedSince(k, point)'
  <2>1. t \in Nat /\ t <= locked'
    BY <1>1, Consts
  <2>2. QED
    BY <1>1, <2>1 DEF ChangedSince
<1>2. QED
  BY <1>1 DEF SavedKey, ChangedSince

(* What the capture finds is the last value written before the version.    *)
LEMMA FindsSnapshot ==
  ASSUME KeptInv, SnapshotInv, ByVersion, clean, NEW k \in Key, Scan(k)
  PROVE  Found(k) # NULL /\ SavedKey(k, Content(k, Found(k)))
<1>1. /\ CheckpointTypeOK /\ TxnOrder /\ RowEntries /\ StableKept /\ PutTypeOK
      /\ thread = "scanning" /\ k \in to_scan /\ Versioned
      /\ point \in Nat \ {0} /\ stable_ = point /\ \A u \in 1..LastTxn : u < point => u \in finished
      /\ NULL \notin Nat /\ LastTxn \in Nat
  BY Consts DEF KeptInv, CheckpointTypeOK, Scan, ByVersion, Versioned, Hobbes, SnapshotInv
<1>2. \A u \in 1..LastTxn : u < point /\ k \in Writes[u] => <<u, k>> \in written
  BY <1>1 DEF TxnOrder
<1>3. ~ \E u \in 1..LastTxn : u < point /\ <<u, k>> \in putting
  BY <1>1, <1>2 DEF TxnOrder, PutTypeOK
<1>4. PICK e \in Range(objects[k]) :
        /\ e.version < point
        /\ \A u \in 1..LastTxn : u < point /\ HasPut(u, k) => u <= e.version
  BY <1>1, <1>3 DEF StableKept, Wanted
<1>5. /\ Get(objects[k], point) = e.value
      /\ \/ contents[k][e.value] = WriterBefore(k, point)
         \/ \E c \in InPlace : point <= c /\ c <= locked /\ <<c, k>> \in written /\ k \in Writes[c]
  BY <1>1, <1>2, <1>4, RowRead
<1>6. Found(k) = e.value
  BY <1>1, <1>5 DEF Found, ByVersion
<1>7. e.value \in 0..LastTxn
  BY <1>1, RowFacts
<1>8. e.value # NULL /\ Content(k, Found(k)) = contents[k][e.value]
  BY <1>1, <1>6, <1>7 DEF Content
<1>9. contents[k][e.value] = WriterBefore(k, point) \/ ChangedSince(k, point)
  BY <1>5 DEF ChangedSince
<1>10. QED
  BY <1>6, <1>8, <1>9 DEF SavedKey

(* What no step does.                                                      *)
LEMMA StepFacts ==
  ASSUME CheckpointTypeOK, [Next]_vars
  PROVE  /\ locked' \in Nat /\ locked' >= locked /\ finished \subseteq finished' /\ kind' = kind
         /\ written \subseteq written'
<1>1. locked \in Nat
  BY Ranges
<1> DEFINE Facts == /\ locked' = locked \/ locked' = locked + 1
                    /\ finished \subseteq finished' /\ kind' = kind
                    /\ written \subseteq written'
<1> SUFFICES Facts
  BY <1>1
<1>2. CASE Lock
  BY <1>2 DEF Lock, putVars
<1>3. ASSUME NEW t \in 1..locked, Finish(t) \/ ReadMinimum(t)
      PROVE  Facts
  BY <1>3 DEF Finish, ReadMinimum, txnVars, putVars
<1>4. ASSUME NEW t \in 1..locked, NEW k \in Key, PutStep(t, k)
      PROVE  Facts
  <2>1. CASE HandlePut(t, k)
    BY <2>1 DEF HandlePut, txnVars
  <2>2. CASE PrunePut(t, k)
    BY <2>2 DEF PrunePut, txnVars
  <2>3. CASE Mark(t, k)
    BY <2>3 DEF Mark, txnVars
  <2>4. CASE Insert(t, k)
    BY <2>4 DEF Insert, txnVars
  <2>5. CASE Change(t, k)
    BY <2>5 DEF Change, txnVars
  <2>6. QED
    BY <1>4, <2>1, <2>2, <2>3, <2>4, <2>5 DEF PutStep
<1>5. CASE Capture
  BY <1>5 DEF Capture, OpenFile, StartCapture, Scan, EndScan, Zero, Swap, txnVars, putVars
<1>6. CASE UNCHANGED vars
  BY <1>6 DEF vars, txnVars, putVars
<1>7. QED
  BY <1>2, <1>3, <1>4, <1>5, <1>6 DEF Next

LEMMA SnapshotNext == KeptInv /\ SnapshotInv /\ [Next]_vars => SnapshotInv'
<1> SUFFICES ASSUME KeptInv, SnapshotInv, [Next]_vars, ByVersion, clean' PROVE SnapshotInv'
  <2>1. ASSUME KeptInv, [Next]_vars
        PROVE  ByVersion' <=> ByVersion
    BY <2>1, StepFacts DEF ByVersion, KeptInv
  <2>2. QED
    BY <2>1 DEF SnapshotInv
<1>1. /\ CheckpointTypeOK /\ Phases /\ LastTxn \in Nat /\ locked \in Nat /\ NULL \notin Nat
      /\ CaptureTypeOK
  BY Consts, Ranges DEF KeptInv, CheckpointTypeOK
<1>2. locked' \in Nat /\ locked' >= locked /\ finished \subseteq finished' /\ kind' = kind
  BY <1>1, StepFacts
<1>3. ASSUME clean, point' = point, NEW k, NEW value, SavedKey(k, value)
      PROVE  ChangedSince(k, point)' \/ value = WriterBefore(k, point')
  <2>1. point \in Nat
    BY <1>3 DEF SnapshotInv
  <2>2. QED
    BY <1>1, <1>2, <1>3, <2>1, SavedStays
<1> DEFINE Saved_(k, value) == ChangedSince(k, point)' \/ value = WriterBefore(k, point')
<1>4. ASSUME /\ point' \in Nat \ {0} /\ thread' \in {"idle", "scanning"}
             /\ thread' = "scanning" =>
                  /\ stable_' = point' /\ \A u \in 1..LastTxn : u < point' => u \in finished'
                  /\ \A k \in Key \ to_scan' : k \in DOMAIN file' /\ Saved_(k, file'[k])
             /\ thread' = "idle" => \A k \in Key : Saved_(k, recovered'[k])
      PROVE  SnapshotInv'
  BY <1>4 DEF SnapshotInv, SavedKey
<1>5. clean => /\ point \in Nat \ {0} /\ thread \in {"idle", "scanning"}
               /\ thread = "scanning" =>
                    /\ stable_ = point /\ \A u \in 1..LastTxn : u < point => u \in finished
                    /\ \A k \in Key \ to_scan : k \in DOMAIN file /\ SavedKey(k, file[k])
               /\ thread = "idle" => \A k \in Key : SavedKey(k, recovered[k])
  BY DEF SnapshotInv
<1> HIDE DEF Saved_
<1>6. ASSUME clean, point' = point, NEW k, NEW value, SavedKey(k, value)
      PROVE  Saved_(k, value)
  BY <1>3, <1>6 DEF Saved_
<1>7. CASE UNCHANGED <<stable_, thread, to_scan, file, point, recovered, clean>>
  <2>1. clean /\ point' = point
    BY <1>7
  <2>2. \A k \in Key \ to_scan' : thread' = "scanning" => k \in DOMAIN file' /\ Saved_(k, file'[k])
    BY <1>5, <1>6, <1>7, <2>1
  <2>3. \A k \in Key : thread' = "idle" => Saved_(k, recovered'[k])
    BY <1>5, <1>6, <1>7, <2>1
  <2>4. QED
    BY <1>2, <1>4, <1>5, <1>7, <2>1, <2>2, <2>3
<1>8. CASE Lock
  <2>1. CASE UNCHANGED stable_
    BY <1>7, <1>8, <2>1 DEF Lock, threadVars
  <2>2. CASE Prepare(locked + 1)
    <3>1. thread = "idle" /\ UNCHANGED <<thread, point, recovered, clean>>
      BY <1>8, <2>2 DEF Lock, Prepare, threadVars
    <3>2. clean /\ point' = point
      BY <3>1
    <3>3. \A k \in Key : Saved_(k, recovered'[k])
      BY <1>5, <1>6, <3>1, <3>2
    <3>4. QED
      BY <1>4, <1>5, <3>1, <3>2, <3>3
  <2>3. QED
    BY <1>8, <2>1, <2>2 DEF Lock, prepareVars
<1>9. ASSUME NEW t \in 1..locked, Finish(t) \/ ReadMinimum(t) \/ \E k \in Key : PutStep(t, k)
      PROVE  SnapshotInv'
  <2>1. UNCHANGED <<stable_, thread, to_scan, file, point, recovered, clean>>
    BY <1>9 DEF Finish, ReadMinimum, PutStep, HandlePut, PrunePut, Mark, Insert, Change, prepareVars,
                threadVars, seenVars
  <2>2. QED
    BY <1>7, <2>1
<1>10. CASE OpenFile
  <2>1. UNCHANGED <<stable_, thread, to_scan, file, point, recovered, clean>>
    BY <1>1, <1>10 DEF OpenFile, prepareVars, CaptureTypeOK
  <2>2. QED
    BY <1>7, <2>1
<1>11. ASSUME NEW name \in Versions_ \cup 0..Rounds, StartCapture(name)
       PROVE  SnapshotInv'
  <2>1. /\ thread' = "scanning" /\ point' = name /\ to_scan' = Key /\ Clean(name)
        /\ stable_' = stable_ /\ finished' = finished
    BY <1>11 DEF StartCapture, prepareVars, txnVars
  <2>2. stable_ = name /\ stable_ > 0 /\ \A u \in 1..LastTxn : u < stable_ => u \in finished
    BY <2>1 DEF Clean, ByVersion
  <2>3. point' \in Nat \ {0}
    BY <1>1, <2>1, <2>2, Ranges
  <2>4. QED
    BY <1>4, <2>1, <2>2, <2>3
<1>12. ASSUME NEW k \in Key, Scan(k)
       PROVE  SnapshotInv'
  <2>1. /\ thread = "scanning" /\ thread' = "scanning" /\ to_scan' = to_scan \ {k}
        /\ UNCHANGED <<stable_, point, clean, finished>> /\ clean
        /\ file' = IF Found(k) = NULL THEN file
                   ELSE [l \in DOMAIN file \cup {k} |-> IF l = k THEN Content(k, Found(k)) ELSE file[l]]
    BY <1>12 DEF Scan, prepareVars, seenVars, txnVars
  <2>2. Found(k) # NULL /\ SavedKey(k, Content(k, Found(k)))
    BY <1>12, <2>1, FindsSnapshot
  <2>3. \A l \in Key \ to_scan' : l \in DOMAIN file' /\ SavedKey(l, file'[l])
    <3>1. TAKE l \in Key \ to_scan'
    <3>2. CASE l = k
      BY <2>1, <2>2, <3>2
    <3>3. CASE l # k
      <4>1. l \in DOMAIN file /\ SavedKey(l, file[l])
        BY <1>5, <2>1, <3>3
      <4>2. l \in DOMAIN file' /\ file'[l] = file[l]
        BY <2>1, <2>2, <3>3, <4>1
      <4>3. QED
        BY <4>1, <4>2
    <3>4. QED
      BY <3>2, <3>3
  <2>4. \A l \in Key \ to_scan' : l \in DOMAIN file' /\ Saved_(l, file'[l])
    BY <1>6, <2>1, <2>3
  <2>5. QED
    BY <1>4, <1>5, <2>1, <2>4
<1>13. CASE EndScan
  <2>1. /\ thread = "scanning" /\ to_scan = {} /\ Close /\ UNCHANGED <<point, clean>> /\ clean
    BY <1>13 DEF EndScan, ByVersion, seenVars
  <2>2. thread' = "idle" /\ \A k \in Key : k \in DOMAIN file /\ recovered'[k] = file[k]
    BY <1>5, <2>1 DEF Close
  <2>3. \A k \in Key : SavedKey(k, recovered'[k])
    BY <1>5, <2>1, <2>2
  <2>4. \A k \in Key : Saved_(k, recovered'[k])
    BY <1>6, <2>1, <2>3
  <2>5. QED
    BY <1>4, <1>5, <2>1, <2>2, <2>4
<1>14. CASE Zero \/ Swap
  BY <1>1, <1>14 DEF Zero, Swap, Phases, ByVersion
<1>15. CASE UNCHANGED vars
  BY <1>7, <1>15 DEF vars, prepareVars, threadVars, seenVars
<1>16. QED
  BY <1>8, <1>9, <1>10, <1>11, <1>12, <1>13, <1>14, <1>15 DEF Next, Capture

(* What a version-based capture saves is the data as of its version, for   *)
(* the keys that nobody from the version on changed in place: nothing      *)
(* below the version is put after it has begun, and neither puts nor the   *)
(* capture prune the last version below it before it is written.           *)
THEOREM VersionIsSnapshot == Spec => []CleanSnapshot
<1>1. Init => SnapshotInv
  BY DEF Init, SnapshotInv
<1>2. SnapshotInv => CleanSnapshot
  BY DEF SnapshotInv, CleanSnapshot, SavedKey, SavedAsOf
<1>3. QED
  BY <1>1, <1>2, InitKept, NextKept, SnapshotNext, PTL DEF Spec

-----------------------------------------------------------------------------
(* What was frozen, and what has it still, but for later changes in place. *)
FrozenBefore ==
  \A k \in Key : frozen[k] = NULL \/ Used(k, frozen[k])
AsFrozen(k, value) == frozen[k] \in Nat /\ (ChangedSince(k, frozen[k] + 1) \/ value = frozen[k])

NaiveInv ==
  kind = "naive" =>
    /\ thread = "scanning" =>
         /\ putting = {}
         /\ \A k \in Key :
              /\ AsFrozen(k, Content(k, Get(objects[k], LastTxn + 1)))
              /\ k \notin to_scan => k \in DOMAIN file /\ AsFrozen(k, file[k])
    /\ thread = "idle" /\ clean => \A k \in Key : AsFrozen(k, recovered[k])

PingUpdated ==
  \A k \in Key :
    IF k \in dirty[Updated] THEN array[Updated][k] = array.app[k]
    ELSE /\ rounds > 0 /\ Content(k, array.app[k]) = frozen[k]
         /\ \A u \in 1..LastTxn : <<u, k>> \notin changing

PingCaptured ==
  IF rounds = 0 THEN dirty[Captured] = {} /\ ~ clean /\ thread = "idle"
  ELSE /\ rounds = point => dirty[Captured] \subseteq (IF thread = "scanning" THEN to_scan ELSE {})
       /\ rounds # point => thread = "idle"
       /\ \A k \in Key :
            IF k \in dirty[Captured] THEN array[Captured][k] # NULL /\ AsFrozen(k, Content(k, array[Captured][k]))
            ELSE IF thread = "scanning" /\ k \in DOMAIN file THEN AsFrozen(k, file[k])
            ELSE AsFrozen(k, recovered[k])

PingInv ==
  kind = "pingpong" =>
    /\ point \in Nat /\ point <= rounds
    /\ clean => point > 0
    /\ sound /\ rounds <= point + 1 => PingUpdated /\ PingCaptured

FrozenInv == FrozenBefore /\ NaiveInv /\ PingInv

(* What a buffer that versions share holds was written by somebody.        *)
LEMMA UsedContents ==
  ASSUME KeptInv, NEW k \in Key, NEW b, Used(k, b)
  PROVE  /\ b \in 0..LastTxn /\ b # NULL
         /\ contents[k][b] \in 0..LastTxn /\ contents[k][b] \in Nat /\ Used(k, contents[k][b])
<1>1. CheckpointTypeOK /\ BufferContents /\ PutTypeOK /\ LastTxn \in Nat /\ NULL \notin Nat
  BY Consts DEF KeptInv, CheckpointTypeOK
<1>2. b \in 0..LastTxn
  <2>1. <<b, k>> \in written => b \in 1..LastTxn
    BY <1>1, Ranges DEF PutTypeOK
  <2>2. QED
    BY <1>1, <2>1 DEF Used
<1>3. contents[k][b] \in 0..LastTxn
  BY <1>1, <1>2, Ranges
<1>4. Used(k, contents[k][b])
  BY <1>1, <1>2 DEF BufferContents, Used
<1>5. QED
  BY <1>1, <1>2, <1>3, <1>4

(* Under a frozen store a naive checkpointer finds every key.              *)
LEMMA NaiveFinds ==
  ASSUME KeptInv, kind = "naive", putting = {}, NEW k \in Key
  PROVE  Used(k, Get(objects[k], LastTxn + 1))
<1>1. CheckpointTypeOK /\ RowEntries /\ NewestKept /\ LastTxn \in Nat /\ LastTxn + 1 \in Int
  BY Consts DEF KeptInv
<1>2. PICK e \in Range(objects[k]) : \A u \in 1..LastTxn : HasPut(u, k) => u <= e.version
  BY <1>1 DEF NewestKept, Busy
<1>3. e.version \in -1..LastTxn /\ e.version < LastTxn + 1
  BY <1>1, RowFacts
<1>4. ASSUME NEW f \in Range(objects[k])
      PROVE  f.version <= e.version
  <2>1. CASE f.version = -1
    BY <1>1, <1>3, <2>1
  <2>2. CASE f.version \in 1..LastTxn /\ HasPut(f.version, k)
    BY <1>2, <2>2
  <2>3. QED
    BY <1>1, <2>1, <2>2 DEF RowEntries
<1>5. Get(objects[k], LastTxn + 1) = e.value
  <2>1. RowType(objects[k], 0..LastTxn) /\ Descending(objects[k])
    BY <1>1, RowFacts
  <2>2. QED
    BY <1>1, <1>3, <1>4, <2>1, GetFinds
<1>6. QED
  BY <1>1, <1>5 DEF RowEntries

(* Who changes a key in place does so after what was frozen was written.   *)
LEMMA ChangeIsLater ==
  ASSUME KeptInv, FrozenBefore, NEW t \in 1..locked, NEW k \in Key, Change(t, k), frozen[k] \in Nat
  PROVE  ChangedSince(k, frozen[k] + 1)
<1>1. /\ CheckpointTypeOK /\ TxnOrder /\ PutSteps /\ PutTypeOK /\ <<t, k>> \in changing
      /\ t \in 1..LastTxn /\ t \in Nat \ {0} /\ t <= locked /\ NULL \notin Nat /\ locked \in Nat
  BY Consts, Ranges DEF KeptInv, CheckpointTypeOK, Change
<1>2. t \in InPlace /\ k \in Writes[t]
  BY <1>1 DEF PutSteps, TxnOrder, HasPut
<1>3. frozen[k] < t
  <2>1. CASE frozen[k] = 0
    BY <1>1, <2>1
  <2>2. CASE <<frozen[k], k>> \in written
    <3>1. frozen[k] \in 1..LastTxn /\ frozen[k] # t
      BY <1>1, <2>2, Ranges DEF PutTypeOK
    <3>2. QED
      BY <1>1, <2>2, <3>1, AllBefore
  <2>3. QED
    BY <1>1, <2>1, <2>2 DEF FrozenBefore, Used
<1>4. frozen[k] + 1 <= t
  BY <1>1, <1>3
<1>5. QED
  BY <1>1, <1>2, <1>4 DEF ChangedSince

LEMMA FrozenStays ==
  ASSUME KeptInv, [Next]_vars, NEW k, NEW value, AsFrozen(k, value), frozen'[k] = frozen[k]
  PROVE  frozen'[k] \in Nat /\ (ChangedSince(k, frozen[k] + 1)' \/ value = frozen'[k])
<1>1. locked' \in Nat /\ locked' >= locked /\ locked \in Nat
  BY StepFacts, Ranges DEF KeptInv
<1>2. frozen[k] \in Nat
  BY DEF AsFrozen
<1>3. ASSUME NEW t \in InPlace, frozen[k] + 1 <= t /\ t <= locked /\ k \in Writes[t]
      PROVE  ChangedSince(k, frozen[k] + 1)'
  <2>1. t \in Nat /\ t <= locked' /\ frozen'[k] + 1 <= t
    BY <1>1, <1>3, Consts
  <2>2. QED
    BY <1>3, <2>1 DEF ChangedSince
<1>4. QED
  BY <1>2, <1>3 DEF AsFrozen, ChangedSince

(* What is frozen, and when.                                               *)
LEMMA FrozenWhen ==
  ASSUME [Next]_vars
  PROVE  \/ frozen' = frozen
         \/ kind = "pingpong" /\ Lock /\ Prepare(locked + 1)
         \/ kind = "naive" /\ \E name \in Versions_ \cup 0..Rounds : StartCapture(name)
<1> DEFINE Facts == \/ frozen' = frozen
                    \/ kind = "pingpong" /\ Lock /\ Prepare(locked + 1)
                    \/ kind = "naive" /\ \E name \in Versions_ \cup 0..Rounds : StartCapture(name)
<1> SUFFICES Facts
  OBVIOUS
<1>1. CASE Lock
  <2>1. CASE Prepare(locked + 1)
    BY <1>1, <2>1 DEF Prepare
  <2>2. CASE UNCHANGED <<prepareVars, sound, frozen>>
    BY <2>2
  <2>3. QED
    BY <1>1, <2>1, <2>2 DEF Lock
<1>2. ASSUME NEW t \in 1..locked, Finish(t) \/ ReadMinimum(t)
      PROVE  Facts
  BY <1>2 DEF Finish, ReadMinimum, seenVars
<1>3. ASSUME NEW t \in 1..locked, NEW k \in Key, PutStep(t, k)
      PROVE  Facts
  BY <1>3 DEF PutStep, HandlePut, PrunePut, Mark, Insert, Change, seenVars
<1>4. ASSUME NEW name \in Versions_ \cup 0..Rounds, StartCapture(name)
      PROVE  Facts
  BY <1>4 DEF StartCapture
<1>5. CASE OpenFile \/ (\E k \in Key : Scan(k)) \/ EndScan \/ Zero \/ Swap
  BY <1>5 DEF OpenFile, Scan, EndScan, Zero, Swap, seenVars
<1>6. CASE UNCHANGED vars
  BY <1>6 DEF vars, seenVars
<1>7. QED
  BY <1>1, <1>2, <1>3, <1>4, <1>5, <1>6 DEF Next, Capture

LEMMA FrozenBeforeNext ==
  ASSUME KeptInv, FrozenBefore, [Next]_vars PROVE FrozenBefore'
<1>1. written \subseteq written' /\ CheckpointTypeOK
  BY StepFacts DEF KeptInv
<1>2. CASE frozen' = frozen
  BY <1>1, <1>2 DEF FrozenBefore, Used
<1>3. CASE kind = "pingpong" /\ Lock /\ Prepare(locked + 1)
  <2>1. ASSUME NEW k \in Key
        PROVE  Used(k, Content(k, array.app[k]))
    <3>1. Used(k, array.app[k])
      BY <1>3 DEF KeptInv, AppValue
    <3>2. QED
      BY <3>1, UsedContents DEF Content
  <2>2. frozen' = [k \in Key |-> Content(k, array.app[k])]
    BY <1>3 DEF Prepare
  <2>3. QED
    BY <1>1, <2>1, <2>2 DEF FrozenBefore, Used
<1>4. ASSUME kind = "naive", NEW name \in Versions_ \cup 0..Rounds, StartCapture(name)
      PROVE  FrozenBefore'
  <2>1. ASSUME NEW k \in Key
        PROVE  Used(k, Content(k, Get(objects[k], LastTxn + 1)))
    <3>1. Used(k, Get(objects[k], LastTxn + 1))
      BY <1>4, NaiveFinds DEF StartCapture
    <3>2. QED
      BY <3>1, UsedContents DEF Content
  <2>2. frozen' = [k \in Key |-> Content(k, Get(objects[k], LastTxn + 1))]
    BY <1>4 DEF StartCapture
  <2>3. QED
    BY <1>1, <2>1, <2>2 DEF FrozenBefore, Used
<1>5. QED
  BY <1>2, <1>3, <1>4, FrozenWhen

(* A naive capture: nothing is put while it lasts.                         *)
LEMMA NaiveNext ==
  ASSUME KeptInv, FrozenBefore, NaiveInv, [Next]_vars PROVE NaiveInv'
<1> DEFINE Later(k, value) == frozen'[k] \in Nat /\ (ChangedSince(k, frozen[k] + 1)' \/ value = frozen'[k])
           value0(k) == Content(k, Get(objects[k], LastTxn + 1))
<1>1. /\ CheckpointTypeOK /\ MinimumKept /\ Phases /\ kind' = kind
  BY StepFacts DEF KeptInv
<1> SUFFICES ASSUME kind = "naive" PROVE NaiveInv'
  BY <1>1 DEF NaiveInv
<1>2. ASSUME thread' = "scanning" =>
               /\ putting' = {}
               /\ \A k \in Key :
                    /\ Later(k, IF Get(objects'[k], LastTxn + 1) = NULL THEN NULL
                                ELSE contents'[k][Get(objects'[k], LastTxn + 1)])
                    /\ k \notin to_scan' => k \in DOMAIN file' /\ Later(k, file'[k]),
             thread' = "idle" /\ clean' => \A k \in Key : Later(k, recovered'[k])
      PROVE  NaiveInv'
  BY <1>2 DEF NaiveInv, AsFrozen, Content
<1>3. ASSUME NEW k, NEW value, AsFrozen(k, value), frozen' = frozen
      PROVE  Later(k, value)
  <2>1. frozen'[k] = frozen[k]
    BY <1>3
  <2>2. QED
    BY <1>3, <2>1, FrozenStays
<1>4. /\ thread = "scanning" =>
           /\ putting = {}
           /\ \A k \in Key :
                /\ AsFrozen(k, value0(k))
                /\ k \notin to_scan => k \in DOMAIN file /\ AsFrozen(k, file[k])
      /\ thread = "idle" /\ clean => \A k \in Key : AsFrozen(k, recovered[k])
  BY DEF NaiveInv
<1> HIDE DEF Later
<1>5. ASSUME UNCHANGED <<thread, to_scan, file, recovered, clean, frozen>>,
             thread = "scanning" => UNCHANGED <<putting, objects, contents>>
      PROVE  NaiveInv'
  <2>1. ASSUME thread = "scanning"
        PROVE  /\ putting' = {}
               /\ \A k \in Key :
                    /\ Later(k, IF Get(objects'[k], LastTxn + 1) = NULL THEN NULL
                                ELSE contents'[k][Get(objects'[k], LastTxn + 1)])
                    /\ k \notin to_scan' => k \in DOMAIN file' /\ Later(k, file'[k])
    <3>1. putting' = {} /\ objects' = objects /\ contents' = contents
      BY <1>4, <1>5, <2>1
    <3>2. \A k \in Key : Later(k, value0(k))
      BY <1>3, <1>4, <1>5, <2>1
    <3>3. \A k \in Key : k \notin to_scan' => k \in DOMAIN file' /\ Later(k, file'[k])
      BY <1>3, <1>4, <1>5, <2>1
    <3>4. QED
      BY <3>1, <3>2, <3>3 DEF Content
  <2>2. thread' = "idle" /\ clean' => \A k \in Key : Later(k, recovered'[k])
    BY <1>3, <1>4, <1>5
  <2>3. QED
    BY <1>2, <1>5, <2>1, <2>2
<1>6. CASE Lock
  <2>1. /\ UNCHANGED <<thread, to_scan, file, recovered, clean, putting, objects, contents>>
        /\ frozen' = frozen
    BY <1>6 DEF Lock, Prepare, threadVars, putVars, storeVars
  <2>2. QED
    BY <1>5, <2>1
<1>7. ASSUME NEW t \in 1..locked, Finish(t)
      PROVE  NaiveInv'
  <2>1. UNCHANGED <<thread, to_scan, file, recovered, clean, frozen, putting, objects, contents>>
    BY <1>7 DEF Finish, threadVars, putVars, storeVars, seenVars
  <2>2. QED
    BY <1>5, <2>1
<1>8. ASSUME NEW t \in 1..locked, ReadMinimum(t)
      PROVE  NaiveInv'
  <2>1. UNCHANGED <<thread, to_scan, file, recovered, clean, frozen, putting, objects, contents>>
    BY <1>8 DEF ReadMinimum, threadVars, storeVars, seenVars
  <2>2. QED
    BY <1>5, <2>1
<1>9. ASSUME NEW t \in 1..locked, NEW k \in Key,
             HandlePut(t, k) \/ PrunePut(t, k) \/ Mark(t, k) \/ Insert(t, k)
      PROVE  NaiveInv'
  <2>1. thread # "scanning"
    <3>1. CASE HandlePut(t, k)
      BY <3>1 DEF HandlePut, MayPut, Frozen
    <3>2. CASE PrunePut(t, k) \/ Mark(t, k) \/ Insert(t, k)
      BY <1>4, <3>2 DEF PrunePut, Mark, Insert
    <3>3. QED
      BY <1>9, <3>1, <3>2
  <2>2. UNCHANGED <<thread, to_scan, file, recovered, clean, frozen>>
    BY <1>9 DEF HandlePut, PrunePut, Mark, Insert, threadVars, seenVars
  <2>3. QED
    BY <1>5, <2>1, <2>2
<1>10. ASSUME NEW t \in 1..locked, NEW k \in Key, Change(t, k)
       PROVE  NaiveInv'
  <2>1. /\ UNCHANGED <<thread, to_scan, file, recovered, clean, frozen, putting, objects>>
        /\ contents' = [contents EXCEPT ![k][buffer[t][k]] = t]
    BY <1>10 DEF Change, threadVars, seenVars
  <2>2. CASE thread # "scanning"
    BY <1>5, <2>1, <2>2
  <2>3. CASE thread = "scanning"
    <3>1. \A l \in Key : Later(l, value0(l))
      BY <1>3, <1>4, <2>1, <2>3
    <3>2. frozen[k] \in Nat
      BY <1>4, <2>3 DEF AsFrozen
    <3>3. ChangedSince(k, frozen[k] + 1)
      BY <1>10, <3>2, ChangeIsLater
    <3>4. \A v : AsFrozen(k, v)
      BY <3>2, <3>3 DEF AsFrozen
    <3>5. \A v : Later(k, v)
      BY <1>3, <2>1, <3>4
    <3>6. \A l \in Key : l # k => contents'[l] = contents[l]
      BY <1>1, <2>1 DEF CheckpointTypeOK, StoreTypeOK
    <3>7. \A l \in Key : Later(l, IF Get(objects'[l], LastTxn + 1) = NULL THEN NULL
                                   ELSE contents'[l][Get(objects'[l], LastTxn + 1)])
      <4>1. TAKE l \in Key
      <4>2. CASE l = k
        BY <3>5, <4>2
      <4>3. CASE l # k
        BY <2>1, <3>1, <3>6, <4>3 DEF Content
      <4>4. QED
        BY <4>2, <4>3
    <3>8. \A l \in Key : l \notin to_scan' => l \in DOMAIN file' /\ Later(l, file'[l])
      BY <1>3, <1>4, <2>1, <2>3
    <3>9. QED
      BY <1>2, <1>4, <2>1, <2>3, <3>7, <3>8
  <2>4. QED
    BY <2>2, <2>3
<1>11. ASSUME NEW name \in Versions_ \cup 0..Rounds, StartCapture(name)
       PROVE  NaiveInv'
  <2>1. /\ putting = {} /\ thread' = "scanning" /\ to_scan' = Key
        /\ frozen' = [k \in Key |-> value0(k)]
        /\ UNCHANGED <<putting, objects, contents>>
    BY <1>11 DEF StartCapture, putVars, storeVars
  <2>2. ASSUME NEW k \in Key
        PROVE  Later(k, value0(k))
    <3>1. Used(k, Get(objects[k], LastTxn + 1))
      BY <2>1, NaiveFinds
    <3>2. value0(k) \in Nat
      BY <3>1, UsedContents DEF Content
    <3>3. QED
      BY <2>1, <3>2 DEF Later
  <2>3. QED
    BY <1>2, <2>1, <2>2 DEF Content
<1>12. ASSUME NEW k \in Key, Scan(k)
       PROVE  NaiveInv'
  <2>1. /\ thread = "scanning" /\ thread' = "scanning" /\ to_scan' = to_scan \ {k}
        /\ UNCHANGED <<putting, contents, frozen>> /\ objects' = objects
        /\ file' = IF Found(k) = NULL THEN file
                   ELSE [l \in DOMAIN file \cup {k} |-> IF l = k THEN Content(k, Found(k)) ELSE file[l]]
        /\ Found(k) = Get(objects[k], LastTxn + 1)
    BY <1>12 DEF Scan, putVars, seenVars, Hobbes, Found
  <2>2. Found(k) # NULL
    <3>1. Used(k, Found(k))
      BY <1>4, <2>1, NaiveFinds
    <3>2. QED
      BY <3>1, UsedContents
  <2>3. ASSUME NEW l \in Key, l \notin to_scan'
        PROVE  l \in DOMAIN file' /\ Later(l, file'[l])
    <3>1. CASE l = k
      <4>1. k \in DOMAIN file' /\ file'[k] = value0(k)
        BY <2>1, <2>2
      <4>2. QED
        BY <1>3, <1>4, <2>1, <3>1, <4>1
    <3>2. CASE l # k
      <4>1. l \in DOMAIN file /\ AsFrozen(l, file[l])
        BY <1>4, <2>1, <2>3, <3>2
      <4>2. l \in DOMAIN file' /\ file'[l] = file[l]
        BY <2>1, <2>2, <3>2, <4>1
      <4>3. QED
        BY <1>3, <2>1, <4>1, <4>2
    <3>3. QED
      BY <3>1, <3>2
  <2>4. \A l \in Key : Later(l, value0(l))
    BY <1>3, <1>4, <2>1
  <2>5. QED
    BY <1>2, <1>4, <2>1, <2>3, <2>4 DEF Content
<1>13. CASE EndScan
  <2>1. /\ thread = "scanning" /\ to_scan = {} /\ thread' = "idle" /\ frozen' = frozen
        /\ recovered' = [k \in Key |-> IF k \in DOMAIN file THEN file[k]
                                        ELSE IF Partial THEN recovered[k] ELSE NULL]
    BY <1>13 DEF EndScan, Close, seenVars
  <2>2. \A k \in Key : recovered'[k] = file[k] /\ AsFrozen(k, file[k])
    BY <1>4, <2>1
  <2>3. \A k \in Key : Later(k, recovered'[k])
    BY <1>3, <2>1, <2>2
  <2>4. QED
    BY <1>2, <2>1, <2>3
<1>14. CASE OpenFile \/ Zero \/ Swap
  BY <1>1, <1>14 DEF OpenFile, Hobbes, Zero, Swap, Phases
<1>15. CASE UNCHANGED vars
  BY <1>5, <1>15 DEF vars, threadVars, seenVars, putVars, storeVars
<1>16. ASSUME NEW t \in 1..locked, NEW k \in Key, PutStep(t, k)
       PROVE  NaiveInv'
  BY <1>9, <1>10, <1>16 DEF PutStep
<1>17. QED
  BY <1>6, <1>7, <1>8, <1>11, <1>12, <1>13, <1>14, <1>15, <1>16 DEF Next, Capture

(* PingPong's arrays: the one being updated has what was put since the     *)
(* flip, the other what was put between the last two flips.                *)
LEMMA PingNext ==
  ASSUME KeptInv, FrozenBefore, PingInv, [Next]_vars PROVE PingInv'
<1> DEFINE Later(k, value) == frozen'[k] \in Nat /\ (ChangedSince(k, frozen[k] + 1)' \/ value = frozen'[k])
<1>1. /\ CheckpointTypeOK /\ PutSteps /\ MinimumKept /\ Phases /\ AppValue /\ kind' = kind
      /\ StoreTypeOK /\ PutTypeOK /\ rounds \in Nat /\ NULL \notin Nat
  BY StepFacts, Consts DEF KeptInv, CheckpointTypeOK, PrepareTypeOK
<1> SUFFICES ASSUME kind = "pingpong" PROVE PingInv'
  BY <1>1 DEF PingInv
<1>2. /\ point \in Nat /\ point <= rounds
      /\ clean => point > 0
      /\ sound /\ rounds <= point + 1 => PingUpdated /\ PingCaptured
  BY DEF PingInv
<1>3. /\ \A u \in 1..LastTxn, k \in Key : <<u, k>> \notin putting
      /\ \A k \in Key : Used(k, array.app[k])
  BY <1>1 DEF PutSteps, AppValue
<1>4. /\ Updated \in {"odd", "even"} /\ Captured \in {"odd", "even"} /\ Updated # Captured
  BY DEF Updated, Captured
<1>5. ASSUME NEW k, NEW value, AsFrozen(k, value), frozen'[k] = frozen[k]
      PROVE  Later(k, value)
  BY <1>5, FrozenStays
<1>6. ASSUME point' \in Nat, point' <= rounds', clean' => point' > 0,
             sound' /\ rounds' <= point' + 1 =>
               /\ PingUpdated'
               /\ IF rounds' = 0 THEN dirty'[Captured'] = {} /\ ~ clean' /\ thread' = "idle"
                  ELSE /\ rounds' = point' =>
                            dirty'[Captured'] \subseteq (IF thread' = "scanning" THEN to_scan' ELSE {})
                       /\ rounds' # point' => thread' = "idle"
                       /\ \A k \in Key :
                            IF k \in dirty'[Captured']
                            THEN /\ array'[Captured'][k] # NULL
                                 /\ Later(k, contents'[k][array'[Captured'][k]])
                            ELSE IF thread' = "scanning" /\ k \in DOMAIN file' THEN Later(k, file'[k])
                            ELSE Later(k, recovered'[k])
      PROVE  PingInv'
  <2>1. sound' /\ rounds' <= point' + 1 => PingCaptured'
    BY <1>6 DEF PingCaptured, AsFrozen, Content
  <2>2. QED
    BY <1>6, <2>1 DEF PingInv
<1> HIDE DEF Later
<1>7. PingCaptured =>
        IF rounds = 0 THEN dirty[Captured] = {} /\ ~ clean /\ thread = "idle"
        ELSE /\ rounds = point => dirty[Captured] \subseteq (IF thread = "scanning" THEN to_scan ELSE {})
             /\ rounds # point => thread = "idle"
             /\ \A k \in Key :
                  IF k \in dirty[Captured]
                  THEN array[Captured][k] # NULL /\ AsFrozen(k, contents[k][array[Captured][k]])
                  ELSE IF thread = "scanning" /\ k \in DOMAIN file THEN AsFrozen(k, file[k])
                  ELSE AsFrozen(k, recovered[k])
  BY DEF PingCaptured, Content
(* What a step does that does not touch what is captured.                  *)
<1>8. ASSUME UNCHANGED <<point, rounds, clean, sound, thread, to_scan, file, recovered, frozen>>,
             Captured' = Captured, dirty'[Captured] = dirty[Captured], array'[Captured] = array[Captured],
             PingUpdated => PingUpdated',
             \A k \in Key : frozen[k] \in Nat /\ AsFrozen(k, contents[k][array[Captured][k]]) /\ array[Captured][k] # NULL
                              => Later(k, contents'[k][array[Captured][k]])
      PROVE  PingInv'
  <2>1. ASSUME sound, rounds <= point + 1
        PROVE  /\ PingUpdated'
               /\ IF rounds' = 0 THEN dirty'[Captured'] = {} /\ ~ clean' /\ thread' = "idle"
                  ELSE /\ rounds' = point' =>
                            dirty'[Captured'] \subseteq (IF thread' = "scanning" THEN to_scan' ELSE {})
                       /\ rounds' # point' => thread' = "idle"
                       /\ \A k \in Key :
                            IF k \in dirty'[Captured']
                            THEN /\ array'[Captured'][k] # NULL
                                 /\ Later(k, contents'[k][array'[Captured'][k]])
                            ELSE IF thread' = "scanning" /\ k \in DOMAIN file' THEN Later(k, file'[k])
                            ELSE Later(k, recovered'[k])
    <3>1. PingUpdated' /\ PingCaptured
      BY <1>2, <1>8, <2>1
    <3>2. CASE rounds = 0
      BY <1>7, <1>8, <3>1, <3>2
    <3>3. CASE rounds # 0
      <4>1. /\ rounds' = point' =>
                 dirty'[Captured'] \subseteq (IF thread' = "scanning" THEN to_scan' ELSE {})
            /\ rounds' # point' => thread' = "idle"
        BY <1>7, <1>8, <3>1, <3>3
      <4>2. ASSUME NEW k \in Key
            PROVE  IF k \in dirty'[Captured']
                   THEN /\ array'[Captured'][k] # NULL
                        /\ Later(k, contents'[k][array'[Captured'][k]])
                   ELSE IF thread' = "scanning" /\ k \in DOMAIN file' THEN Later(k, file'[k])
                   ELSE Later(k, recovered'[k])
        <5>1. IF k \in dirty[Captured]
              THEN array[Captured][k] # NULL /\ AsFrozen(k, contents[k][array[Captured][k]])
              ELSE IF thread = "scanning" /\ k \in DOMAIN file THEN AsFrozen(k, file[k])
              ELSE AsFrozen(k, recovered[k])
          BY <1>7, <3>1, <3>3
        <5>2. CASE k \in dirty[Captured]
          BY <1>8, <5>1, <5>2 DEF AsFrozen
        <5>3. CASE k \notin dirty[Captured] /\ thread = "scanning" /\ k \in DOMAIN file
          BY <1>5, <1>8, <5>1, <5>3
        <5>4. CASE k \notin dirty[Captured] /\ ~ (thread = "scanning" /\ k \in DOMAIN file)
          BY <1>5, <1>8, <5>1, <5>4
        <5>5. QED
          BY <5>2, <5>3, <5>4
      <4>3. QED
        BY <1>8, <3>1, <3>3, <4>1, <4>2
    <3>4. QED
      BY <3>2, <3>3
  <2>2. QED
    BY <1>2, <1>6, <1>8, <2>1
<1>9. ASSUME NEW t \in 1..locked, NEW k \in Key, HandlePut(t, k)
      PROVE  PingInv'
  <2>1. /\ array' \in [{"app", "odd", "even"} -> Data] /\ dirty' \in [{"odd", "even"} -> SUBSET Key]
        /\ \A l \in Key :
             /\ array'.app[l] = IF l = k THEN Target(t, k) ELSE array.app[l]
             /\ array'[Updated][l] = IF l = k THEN Target(t, k) ELSE array[Updated][l]
        /\ dirty'[Updated] = dirty[Updated] \cup {k}
        /\ array'[Captured] = array[Captured] /\ dirty'[Captured] = dirty[Captured]
    BY <1>9, PingPut
  <2>2. /\ UNCHANGED <<point, rounds, clean, sound, thread, to_scan, file, recovered, frozen, contents,
                       odd_is_being_updated_>>
        /\ changing' = changing \/ changing' = changing \cup {<<t, k>>}
    BY <1>9 DEF HandlePut, prepareVars, threadVars, seenVars
  <2>3. Updated' = Updated /\ Captured' = Captured
    BY <2>2 DEF Updated, Captured
  <2>4. PingUpdated => PingUpdated'
    <3> SUFFICES ASSUME PingUpdated, NEW l \in Key
                 PROVE  IF l \in dirty'[Updated] THEN array'[Updated][l] = array'.app[l]
                        ELSE /\ rounds > 0
                             /\ (IF array'.app[l] = NULL THEN NULL ELSE contents[l][array'.app[l]]) = frozen[l]
                             /\ \A u \in 1..LastTxn : <<u, l>> \notin changing'
      BY <2>2, <2>3 DEF PingUpdated, Content
    <3>1. IF l \in dirty[Updated] THEN array[Updated][l] = array.app[l]
          ELSE /\ rounds > 0
               /\ (IF array.app[l] = NULL THEN NULL ELSE contents[l][array.app[l]]) = frozen[l]
               /\ \A u \in 1..LastTxn : <<u, l>> \notin changing
      BY DEF PingUpdated, Content
    <3>2. CASE l = k
      BY <2>1, <3>2
    <3>3. CASE l # k
      <4>1. \A u \in 1..LastTxn : <<u, l>> \in changing' => <<u, l>> \in changing
        BY <2>2, <3>3
      <4>2. array'.app[l] = array.app[l] /\ array'[Updated][l] = array[Updated][l]
        BY <2>1, <3>3
      <4>3. l \in dirty'[Updated] <=> l \in dirty[Updated]
        BY <2>1, <3>3
      <4>4. QED
        BY <3>1, <4>1, <4>2, <4>3
    <3>4. QED
      BY <3>2, <3>3
  <2>5. \A l \in Key : AsFrozen(l, contents[l][array[Captured][l]]) => Later(l, contents'[l][array[Captured][l]])
    BY <1>5, <2>2
  <2>6. QED
    BY <1>8, <2>1, <2>2, <2>3, <2>4, <2>5
<1>10. ASSUME NEW t \in 1..locked, NEW k \in Key, Change(t, k)
       PROVE  PingInv'
  <2>1. /\ <<t, k>> \in changing /\ changing' = changing \ {<<t, k>>}
        /\ contents' = [contents EXCEPT ![k][buffer[t][k]] = t]
        /\ UNCHANGED <<point, rounds, clean, sound, thread, to_scan, file, recovered, frozen, array,
                       dirty, odd_is_being_updated_>>
    BY <1>10 DEF Change, prepareVars, threadVars, seenVars
  <2>2. Updated' = Updated /\ Captured' = Captured
    BY <2>1 DEF Updated, Captured
  <2>3. t \in 1..LastTxn /\ \A l \in Key : l # k => contents'[l] = contents[l]
    BY <1>1, <2>1, Ranges DEF StoreTypeOK
  <2>4. PingUpdated => PingUpdated'
    <3> SUFFICES ASSUME PingUpdated, NEW l \in Key
                 PROVE  IF l \in dirty[Updated] THEN array[Updated][l] = array.app[l]
                        ELSE /\ rounds > 0
                             /\ (IF array.app[l] = NULL THEN NULL ELSE contents'[l][array.app[l]]) = frozen[l]
                             /\ \A u \in 1..LastTxn : <<u, l>> \notin changing'
      BY <2>1, <2>2 DEF PingUpdated, Content
    <3>1. IF l \in dirty[Updated] THEN array[Updated][l] = array.app[l]
          ELSE /\ rounds > 0
               /\ (IF array.app[l] = NULL THEN NULL ELSE contents[l][array.app[l]]) = frozen[l]
               /\ \A u \in 1..LastTxn : <<u, l>> \notin changing
      BY DEF PingUpdated, Content
    <3>2. CASE l = k
      BY <2>1, <2>3, <3>1, <3>2
    <3>3. CASE l # k
      BY <2>1, <2>3, <3>1, <3>3
    <3>4. QED
      BY <3>2, <3>3
  <2>5. ASSUME NEW l \in Key, frozen[l] \in Nat, AsFrozen(l, contents[l][array[Captured][l]])
        PROVE  Later(l, contents'[l][array[Captured][l]])
    <3>1. CASE l = k
      <4>1. ChangedSince(k, frozen[k] + 1)
        BY <1>10, <2>5, <3>1, ChangeIsLater
      <4>2. AsFrozen(l, contents'[l][array[Captured][l]])
        BY <2>5, <3>1, <4>1 DEF AsFrozen
      <4>3. QED
        BY <1>5, <2>1, <4>2
    <3>2. CASE l # k
      BY <1>5, <2>1, <2>3, <2>5, <3>2
    <3>3. QED
      BY <3>1, <3>2
  <2>6. QED
    BY <1>8, <2>1, <2>2, <2>4, <2>5
<1>11. ASSUME UNCHANGED <<point, rounds, clean, sound, thread, to_scan, file, recovered, frozen,
                          odd_is_being_updated_, dirty, array, contents, changing>>
       PROVE  PingInv'
  <2>1. Updated' = Updated /\ Captured' = Captured
    BY <1>11 DEF Updated, Captured
  <2>2. PingUpdated => PingUpdated'
    BY <1>11, <2>1 DEF PingUpdated, Content
  <2>3. \A l \in Key : AsFrozen(l, contents[l][array[Captured][l]]) => Later(l, contents'[l][array[Captured][l]])
    BY <1>5, <1>11
  <2>4. QED
    BY <1>8, <1>11, <2>1, <2>2, <2>3
<1>12. ASSUME NEW t \in 1..locked, NEW k \in Key, PrunePut(t, k) \/ Mark(t, k) \/ Insert(t, k)
       PROVE  PingInv'
  <2>1. <<t, k>> \in putting /\ t \in 1..LastTxn
    BY <1>1, <1>12, Ranges DEF PrunePut, Mark, Insert
  <2>2. QED
    BY <1>3, <2>1
<1>13. ASSUME NEW t \in 1..locked, Finish(t) \/ ReadMinimum(t)
       PROVE  PingInv'
  <2>1. UNCHANGED <<point, rounds, clean, sound, thread, to_scan, file, recovered, frozen,
                    odd_is_being_updated_, dirty, array, contents, changing>>
    BY <1>13 DEF Finish, ReadMinimum, threadVars, seenVars, putVars, storeVars, prepareVars
  <2>2. QED
    BY <1>11, <2>1
<1>14. CASE Lock
  <2>1. CASE UNCHANGED <<prepareVars, sound, frozen>>
    <3>1. UNCHANGED <<point, rounds, clean, sound, thread, to_scan, file, recovered, frozen,
                      odd_is_being_updated_, dirty, array, contents, changing>>
      BY <1>14, <2>1 DEF Lock, threadVars, putVars, storeVars, prepareVars
    <3>2. QED
      BY <1>11, <3>1
  <2>2. CASE Prepare(locked + 1)
    <3>1. /\ thread = "idle" /\ rounds' = rounds + 1 /\ odd_is_being_updated_' = ~ odd_is_being_updated_
          /\ frozen' = [k \in Key |-> Content(k, array.app[k])]
          /\ sound' => sound /\ changing = {}
          /\ UNCHANGED <<point, clean, thread, to_scan, file, recovered, dirty, array, contents, changing>>
      BY <1>14, <2>2 DEF Lock, Prepare, threadVars, putVars, storeVars
    <3>2. Updated' = Captured /\ Captured' = Updated
      BY <1>1, <3>1 DEF Updated, Captured, CheckpointTypeOK, PrepareTypeOK
    <3>3. ASSUME sound', rounds' <= point' + 1
          PROVE  /\ PingUpdated /\ PingCaptured /\ changing = {} /\ rounds = point
                 /\ dirty[Captured] = {} /\ rounds' # 0 /\ rounds' # point' /\ rounds' > 0
      <4>1. sound /\ changing = {}
        BY <3>1, <3>3
      <4>2. rounds = point
        <5>1. rounds + 1 <= point + 1
          BY <3>1, <3>3
        <5>2. rounds \in Nat /\ point \in Nat /\ point <= rounds
          BY <1>1, <1>2
        <5>3. QED
          BY ONLY <5>1, <5>2
      <4>3. PingUpdated /\ PingCaptured
        BY <1>1, <1>2, <4>1, <4>2
      <4>4. dirty[Captured] = {}
        BY <1>7, <3>1, <4>3, <4>2
      <4>5. rounds' # 0 /\ rounds' # point' /\ rounds' > 0
        BY <1>1, <3>1, <4>2
      <4>6. QED
        BY <4>1, <4>3, <4>4, <4>2, <4>5
    <3>4. \A k \in Key :
            /\ frozen'[k] = Content(k, array.app[k]) /\ frozen'[k] = contents[k][array.app[k]]
            /\ frozen'[k] \in Nat /\ array.app[k] # NULL
      <4>1. TAKE k \in Key
      <4>2. Used(k, array.app[k])
        BY <1>3
      <4>3. QED
        BY <3>1, <4>2, UsedContents DEF Content
    <3>5. ASSUME sound', rounds' <= point' + 1
          PROVE  PingUpdated'
      BY <3>1, <3>2, <3>3, <3>4, <3>5 DEF PingUpdated, Content
    <3>6. ASSUME sound', rounds' <= point' + 1, NEW k \in Key
          PROVE  IF k \in dirty[Updated]
                 THEN array[Updated][k] # NULL /\ Later(k, contents[k][array[Updated][k]])
                 ELSE Later(k, recovered[k])
      <4>1. CASE k \in dirty[Updated]
        <5>1. array[Updated][k] = array.app[k]
          BY <3>3, <3>6, <4>1 DEF PingUpdated
        <5>2. QED
          BY <3>4, <4>1, <5>1 DEF Later
      <4>2. CASE k \notin dirty[Updated]
        <5>1. rounds # 0 /\ Content(k, array.app[k]) = frozen[k]
          BY <1>1, <3>3, <3>6, <4>2 DEF PingUpdated
        <5>2. AsFrozen(k, recovered[k])
          BY <1>7, <3>1, <3>3, <3>6, <5>1
        <5>3. frozen'[k] = frozen[k]
          BY <3>4, <5>1
        <5>4. QED
          BY <1>5, <4>2, <5>2, <5>3
      <4>3. QED
        BY <4>1, <4>2
    <3>7. point' \in Nat /\ point' <= rounds' /\ (clean' => point' > 0)
      BY <1>1, <1>2, <3>1
    <3>8. QED
      BY <1>6, <3>1, <3>2, <3>3, <3>5, <3>6, <3>7
  <2>3. QED
    BY <1>14, <2>1, <2>2 DEF Lock
<1>15. ASSUME NEW name \in Versions_ \cup 0..Rounds, StartCapture(name)
       PROVE  PingInv'
  <2>1. /\ thread = "idle" /\ thread' = "scanning" /\ point' = rounds /\ rounds' = rounds
        /\ clean' => rounds = point + 1
        /\ sound' => sound /\ rounds = point + 1
        /\ to_scan' = Key /\ file' = NoFile /\ frozen' = frozen
        /\ UNCHANGED <<odd_is_being_updated_, dirty, array, contents, changing, recovered>>
    BY <1>15 DEF StartCapture, Clean, Hobbes, putVars, storeVars, prepareVars
  <2>2. Updated' = Updated /\ Captured' = Captured
    BY <2>1 DEF Updated, Captured
  <2>3. PingUpdated => PingUpdated'
    BY <2>1, <2>2 DEF PingUpdated, Content
  <2>4. ASSUME sound'
        PROVE  rounds # 0 /\ PingUpdated /\ PingCaptured
    <3>1. sound /\ rounds = point + 1
      BY <2>1, <2>4
    <3>2. rounds \in Nat /\ point \in Nat
      BY <1>1, <1>2
    <3>3. rounds # 0 /\ rounds <= point + 1
      BY ONLY <3>1, <3>2
    <3>4. QED
      BY <1>2, <3>1, <3>3
  <2>5. ASSUME sound', NEW k \in Key
        PROVE  IF k \in dirty[Captured]
               THEN array[Captured][k] # NULL /\ Later(k, contents[k][array[Captured][k]])
               ELSE Later(k, recovered[k])
    <3>1. IF k \in dirty[Captured]
          THEN array[Captured][k] # NULL /\ AsFrozen(k, contents[k][array[Captured][k]])
          ELSE AsFrozen(k, recovered[k])
      BY <1>7, <2>1, <2>4, <2>5
    <3>2. QED
      BY <1>5, <2>1, <3>1
  <2>6. dirty[Captured] \subseteq Key /\ DOMAIN NoFile = {}
    BY <1>1, <1>4 DEF StoreTypeOK, NoFile
  <2>7. point' \in Nat /\ point' <= rounds' /\ (clean' => point' > 0)
    <3>1. rounds \in Nat /\ point \in Nat /\ point' = rounds /\ rounds' = rounds
      BY <1>1, <1>2, <2>1
    <3>2. rounds = point + 1 => rounds > 0
      BY ONLY <3>1
    <3>3. QED
      BY <2>1, <3>1, <3>2
  <2>8. QED
    BY <1>6, <2>1, <2>2, <2>3, <2>4, <2>5, <2>6, <2>7
<1>16. ASSUME NEW k \in Key, Scan(k)
       PROVE  PingInv'
  <2>1. /\ thread = "scanning" /\ thread' = "scanning" /\ to_scan' = to_scan \ {k}
        /\ file' = IF Found(k) = NULL THEN file
                   ELSE [l \in DOMAIN file \cup {k} |-> IF l = k THEN Content(k, Found(k)) ELSE file[l]]
        /\ dirty' = [dirty EXCEPT ![Captured] = @ \ {k}]
        /\ UNCHANGED <<point, rounds, clean, sound, recovered, frozen, odd_is_being_updated_, array,
                       contents, changing>>
        /\ Found(k) = IF k \in dirty[Captured] THEN array[Captured][k] ELSE NULL
    BY <1>16 DEF Scan, Found, putVars, prepareVars, seenVars
  <2>2. Updated' = Updated /\ Captured' = Captured
    BY <2>1 DEF Updated, Captured
  <2>3. dirty'[Captured] = dirty[Captured] \ {k} /\ dirty'[Updated] = dirty[Updated]
    BY <1>1, <1>4, <2>1 DEF StoreTypeOK
  <2>4. PingUpdated => PingUpdated'
    BY <2>1, <2>2, <2>3 DEF PingUpdated, Content
  <2>5. ASSUME sound, rounds <= point + 1
        PROVE  /\ PingUpdated' /\ PingCaptured /\ rounds # 0 /\ rounds = point
               /\ dirty'[Captured] \subseteq to_scan'
    <3>1. PingUpdated' /\ PingCaptured
      BY <1>2, <2>4, <2>5
    <3>2. rounds # 0 /\ rounds = point
      BY <1>7, <2>1, <3>1
    <3>3. dirty[Captured] \subseteq to_scan
      BY <1>7, <2>1, <3>1, <3>2
    <3>4. QED
      BY <2>1, <2>3, <3>1, <3>2, <3>3
  <2>6. ASSUME sound, rounds <= point + 1, NEW l \in Key
        PROVE  IF l \in dirty'[Captured]
               THEN array[Captured][l] # NULL /\ Later(l, contents[l][array[Captured][l]])
               ELSE IF l \in DOMAIN file' THEN Later(l, file'[l])
               ELSE Later(l, recovered[l])
    <3>1. IF l \in dirty[Captured]
          THEN array[Captured][l] # NULL /\ AsFrozen(l, contents[l][array[Captured][l]])
          ELSE IF l \in DOMAIN file THEN AsFrozen(l, file[l])
          ELSE AsFrozen(l, recovered[l])
      BY <1>7, <2>1, <2>5, <2>6
    <3>2. CASE l = k /\ k \in dirty[Captured]
      <4>1. Found(k) = array[Captured][k] /\ Found(k) # NULL
        BY <2>1, <3>1, <3>2
      <4>2. k \in DOMAIN file' /\ file'[k] = contents[k][array[Captured][k]]
        BY <2>1, <4>1 DEF Content
      <4>3. Later(k, file'[k])
        BY <1>5, <2>1, <3>1, <3>2, <4>2
      <4>4. QED
        BY <2>3, <3>2, <4>2, <4>3
    <3>3. CASE l = k /\ k \notin dirty[Captured]
      <4>1. file' = file
        BY <2>1, <3>3
      <4>2. QED
        BY <1>5, <2>1, <2>3, <3>1, <3>3, <4>1
    <3>4. CASE l # k
      <4>1. (l \in DOMAIN file' <=> l \in DOMAIN file) /\ (l \in DOMAIN file => file'[l] = file[l])
        BY <2>1, <3>4
      <4>2. l \in dirty'[Captured] <=> l \in dirty[Captured]
        BY <2>3, <3>4
      <4>3. QED
        BY <1>5, <2>1, <3>1, <4>1, <4>2
    <3>5. QED
      BY <3>2, <3>3, <3>4
  <2>7. QED
    BY <1>2, <1>6, <2>1, <2>2, <2>5, <2>6
<1>17. CASE EndScan
  <2>1. /\ thread = "scanning" /\ to_scan = {} /\ thread' = "idle"
        /\ recovered' = [k \in Key |-> IF k \in DOMAIN file THEN file[k] ELSE recovered[k]]
        /\ UNCHANGED <<point, rounds, clean, sound, frozen, odd_is_being_updated_, array, dirty,
                       contents, changing>>
    BY <1>17 DEF EndScan, Close, Partial, putVars, storeVars, seenVars
  <2>2. Updated' = Updated /\ Captured' = Captured
    BY <2>1 DEF Updated, Captured
  <2>3. PingUpdated => PingUpdated'
    BY <2>1, <2>2 DEF PingUpdated, Content
  <2>4. ASSUME sound, rounds <= point + 1
        PROVE  PingUpdated' /\ PingCaptured /\ rounds # 0 /\ rounds = point /\ dirty[Captured] = {}
    <3>1. PingUpdated' /\ PingCaptured
      BY <1>2, <2>3, <2>4
    <3>2. rounds # 0 /\ rounds = point
      BY <1>7, <2>1, <3>1
    <3>3. dirty[Captured] = {}
      BY <1>7, <2>1, <3>1, <3>2
    <3>4. QED
      BY <3>1, <3>2, <3>3
  <2>5. ASSUME sound, rounds <= point + 1, NEW k \in Key
        PROVE  Later(k, recovered'[k])
    <3>1. AsFrozen(k, IF k \in DOMAIN file THEN file[k] ELSE recovered[k])
      BY <1>7, <2>1, <2>4, <2>5
    <3>2. AsFrozen(k, recovered'[k])
      BY <2>1, <3>1
    <3>3. QED
      BY <1>5, <2>1, <3>2
  <2>6. QED
    BY <1>2, <1>6, <2>1, <2>2, <2>4, <2>5
<1>18. CASE OpenFile \/ Zero \/ Swap
  BY <1>1, <1>18 DEF OpenFile, Hobbes, Zero, Swap, Phases
<1>19. CASE UNCHANGED vars
  BY <1>11, <1>19 DEF vars, threadVars, seenVars, putVars, storeVars, prepareVars
<1>20. ASSUME NEW t \in 1..locked, NEW k \in Key, PutStep(t, k)
       PROVE  PingInv'
  BY <1>9, <1>10, <1>12, <1>20 DEF PutStep
<1>21. QED
  BY <1>13, <1>14, <1>15, <1>16, <1>17, <1>18, <1>19, <1>20 DEF Next, Capture

(* What a naive capture or a PingPong one, with those before it, has saved *)
(* is the data as it was frozen or as it was at the flip, for the keys     *)
(* that were not changed in place since: nothing is put while a naive      *)
(* capture lasts, and no put goes to the array that PingPong captures.     *)
THEOREM FrozenIsSaved == Spec => []FrozenSnapshot
<1>1. Init => FrozenInv
  <2>1. Init => FrozenBefore /\ NaiveInv
    BY DEF Init, FrozenBefore, NaiveInv
  <2>2. Init => PingInv
    BY DEF Init, PingInv, PingUpdated, PingCaptured, Updated, Captured
  <2>3. QED
    BY <2>1, <2>2 DEF FrozenInv
<1>2. KeptInv /\ FrozenInv /\ [Next]_vars => FrozenInv'
  BY FrozenBeforeNext, NaiveNext, PingNext DEF FrozenInv
<1>3. KeptInv /\ FrozenInv => FrozenSnapshot
  <2> SUFFICES ASSUME KeptInv, FrozenInv, kind \in {"naive", "pingpong"}, thread = "idle", clean,
                      kind = "pingpong" => sound /\ rounds = point, NEW k \in Key
               PROVE  ChangedSince(k, frozen[k] + 1) \/ recovered[k] = frozen[k]
    BY DEF FrozenSnapshot
  <2>1. CASE kind = "naive"
    BY <2>1 DEF FrozenInv, NaiveInv, AsFrozen
  <2>2. CASE kind = "pingpong"
    <3>1. /\ point \in Nat /\ point > 0 /\ rounds = point
          /\ PingCaptured
      BY <2>2 DEF FrozenInv, PingInv
    <3>2. AsFrozen(k, recovered[k])
      BY <3>1 DEF PingCaptured
    <3>3. QED
      BY <3>2 DEF AsFrozen
  <2>3. QED
    BY <2>1, <2>2
<1>4. QED
  BY <1>1, <1>2, <1>3, InitKept, NextKept, PTL DEF Spec

-----------------------------------------------------------------------------
(***************************************************************************)
(* The checkpoint directory (module CheckpointFiles).                      *)
(***************************************************************************)

Table == UNION {[K -> Nat] : K \in SUBSET Keys}
File == [records : Table, open : BOOLEAN, torn : BOOLEAN]
Name == Nat \X {"chkpnt", "collapsed"}

FilesTypeOK ==
  /\ up \in BOOLEAN /\ cut \in BOOLEAN
  /\ data \in Table /\ snapshot \in Table /\ saved \in Table
  /\ puts \in Nat /\ clock \in Nat /\ crashes \in Nat
  /\ dirty_keys \subseteq DOMAIN data
  /\ DOMAIN files \subseteq Name /\ \A f \in DOMAIN files : files[f] \in File
  /\ capture \in Name \cup {<<>>}
  /\ collapse \in [to : Name \cup {<<>>}, left : SUBSET Name, removed : BOOLEAN]

-----------------------------------------------------------------------------
(***************************************************************************)
(* The inductive invariant.                                                *)
(***************************************************************************)

(* Numbers are no greater than the clock; the capture's file has the       *)
(* newest.  Nothing is open while the process is down, and what is open    *)
(* besides the capture's file was made by a collapse.                      *)
Shape ==
  /\ \A f \in DOMAIN files : f[1] <= clock
  /\ ~ up => capture = <<>> /\ collapse = Idle
  /\ capture # <<>> =>
       capture = <<clock, "chkpnt">> /\ capture \in DOMAIN files /\ files[capture].open
  /\ \A f \in DOMAIN files : files[f].open =>
       ~ files[f].torn /\ up /\ (f = capture \/ f[2] = "collapsed")

(* One file is newer than all others, and it is not being merged.          *)
Top ==
  DOMAIN files # {} =>
    \E g \in DOMAIN files \ collapse.left : \A f \in DOMAIN files \ {g} : f[1] < g[1]

(* The file that a collapse writes takes the number of the newest it       *)
(* merges, which goes first: until it is gone nothing has been written.    *)
(* What is not merged is newer.                                            *)
Collapsing ==
  collapse # Idle =>
    /\ collapse.to \in DOMAIN files /\ collapse.to[2] = "collapsed" /\ files[collapse.to].open
    /\ collapse.left \subseteq DOMAIN files \ {collapse.to, capture}
    /\ \A f \in collapse.left : f[1] <= collapse.to[1]
    /\ \A f \in DOMAIN files \ (collapse.left \cup {collapse.to}) : f[1] > collapse.to[1]
    /\ ~ collapse.removed => \E f \in collapse.left : f[1] = collapse.to[1]
    /\ (\E f \in collapse.left : f[1] = collapse.to[1]) => DOMAIN files[collapse.to].records = {}

(* Of two files with one number, the collapsed one is a part of the other. *)
SameNumber ==
  \A f, g \in DOMAIN files :
    f[1] = g[1] /\ f[2] = "chkpnt" /\ g[2] = "collapsed" =>
      \A k \in DOMAIN files[g].records :
        k \in DOMAIN files[f].records /\ files[g].records[k] = files[f].records[k]

Others == DOMAIN files \ {capture}

(* Between two captures the dirty keys are those in which the database     *)
(* differs from the last one, and a capture writes the keys in which it    *)
(* differs from the one before.                                            *)
Unsaved ==
  up =>
    /\ DOMAIN saved \subseteq DOMAIN snapshot /\ DOMAIN snapshot \subseteq DOMAIN data
    /\ \A k \in DOMAIN data \ dirty_keys : k \in DOMAIN snapshot /\ snapshot[k] = data[k]
    /\ \A f \in Others : DOMAIN files[f].records \subseteq DOMAIN saved
    /\ capture = <<>> => saved = snapshot
    /\ capture # <<>> =>
         /\ \A k \in DOMAIN snapshot \ DOMAIN files[capture].records :
              k \in DOMAIN saved /\ saved[k] = snapshot[k]
         /\ \A k \in DOMAIN files[capture].records :
              k \in DOMAIN snapshot /\ files[capture].records[k] = snapshot[k]

(* What reading h gives is certain: it is closed, or the collapser itself  *)
(* writes it.                                                              *)
Firm(h) == ~ files[h].open \/ h = collapse.to

(* h has what was saved of k, and no newer file has anything of k.         *)
Decides(h, k) ==
  /\ Firm(h) /\ k \in DOMAIN files[h].records /\ files[h].records[k] = saved[k]
  /\ \A g \in Others : k \in DOMAIN files[g].records => g[1] <= h[1]

Covered ==
  up /\ ~ cut => \A k \in DOMAIN saved : \E h \in Others : Decides(h, k)

FilesInv ==
  /\ FilesTypeOK /\ Shape /\ Top /\ Collapsing /\ SameNumber /\ Unsaved /\ Covered
  /\ RecoversRecent

-----------------------------------------------------------------------------
(***************************************************************************)
(* Names and tables.                                                       *)
(***************************************************************************)

LEMMA Names ==
  ASSUME NEW f \in Name
  PROVE  f[1] \in Nat /\ f[2] \in {"chkpnt", "collapsed"} /\ f = <<f[1], f[2]>> /\ f # <<>>
<1>1. f[1] \in Nat /\ f[2] \in {"chkpnt", "collapsed"} /\ f = <<f[1], f[2]>>
  BY DEF Name
<1>2. DOMAIN f = 1..2
  BY <1>1
<1>3. f # <<>>
  BY <1>2
<1> QED
  BY <1>1, <1>3

LEMMA Tables ==
  ASSUME NEW t \in Table
  PROVE  DOMAIN t \subseteq Keys /\ t = [k \in DOMAIN t |-> t[k]] /\ \A k \in DOMAIN t : t[k] \in Nat
BY DEF Table

LEMMA Empty == Nothing \in Table /\ DOMAIN Nothing = {}
BY DEF Nothing, Table

LEMMA Restricted ==
  ASSUME NEW t \in Table, NEW K \in SUBSET DOMAIN t
  PROVE  /\ Restrict(t, K) \in Table /\ DOMAIN Restrict(t, K) = K
         /\ \A k \in K : Restrict(t, K)[k] = t[k]
BY DEF Restrict, Table

LEMMA MergedTables ==
  ASSUME NEW t \in Table, NEW u \in Table
  PROVE  /\ Merged(t, u) \in Table /\ DOMAIN Merged(t, u) = DOMAIN t \cup DOMAIN u
         /\ \A k \in DOMAIN t : Merged(t, u)[k] = t[k]
         /\ \A k \in DOMAIN u \ DOMAIN t : Merged(t, u)[k] = u[k]
<1> DEFINE K == DOMAIN t \cup DOMAIN u
<1>1. Merged(t, u) = [k \in K |-> IF k \in DOMAIN t THEN t[k] ELSE u[k]]
  BY DEF Merged
<1>2. K \subseteq Keys /\ \A k \in K : (IF k \in DOMAIN t THEN t[k] ELSE u[k]) \in Nat
  BY Tables
<1>3. Merged(t, u) \in [K -> Nat]
  BY <1>1, <1>2
<1>4. Merged(t, u) \in Table
  BY <1>2, <1>3 DEF Table
<1> QED
  BY <1>1, <1>4

(* Two files with one number have the same of every key that both have.    *)
LEMMA Agree ==
  ASSUME FilesTypeOK, SameNumber, NEW f \in DOMAIN files, NEW g \in DOMAIN files, f[1] = g[1],
         NEW k, k \in DOMAIN files[f].records, k \in DOMAIN files[g].records
  PROVE  files[f].records[k] = files[g].records[k]
<1>1. f \in Name /\ g \in Name
  BY DEF FilesTypeOK
<1>2. f = <<f[1], f[2]>> /\ g = <<g[1], g[2]>> /\ {f[2], g[2]} \subseteq {"chkpnt", "collapsed"}
  BY <1>1, Names
<1>3. CASE f[2] = g[2]
  BY <1>2, <1>3
<1>4. CASE f[2] = "chkpnt" /\ g[2] = "collapsed"
  BY <1>4 DEF SameNumber
<1>5. CASE f[2] = "collapsed" /\ g[2] = "chkpnt"
  BY <1>5 DEF SameNumber
<1> QED
  BY <1>2, <1>3, <1>4, <1>5

(* What the invariant is for.                                              *)
LEMMA InvMeansHeld == FilesInv => FilesHoldSaved
<1> SUFFICES ASSUME FilesInv, up, ~ cut
             PROVE  /\ Held(Others) = DOMAIN saved
                    /\ \A k \in Held(Others) : \A f \in Latest(Others, k) :
                         files[f].records[k] = saved[k]
  BY DEF FilesHoldSaved, Others
<1>1. DOMAIN saved \subseteq Keys
  BY Tables DEF FilesInv, FilesTypeOK
<1>2. \A k \in DOMAIN saved : \E h \in Others : Decides(h, k)
  BY DEF FilesInv, Covered
<1>3. ASSUME NEW k \in Held(Others) PROVE k \in DOMAIN saved
  BY DEF Held, Holders, FilesInv, Unsaved
<1>4. ASSUME NEW k \in DOMAIN saved PROVE k \in Held(Others)
  BY <1>1, <1>2 DEF Held, Holders, Decides
<1>5. ASSUME NEW k \in Held(Others), NEW f \in Latest(Others, k)
      PROVE  files[f].records[k] = saved[k]
  <2>1. PICK h \in Others : Decides(h, k)
    BY <1>2, <1>3
  <2>2. /\ f \in Others /\ k \in DOMAIN files[f].records
        /\ \A g \in Others : k \in DOMAIN files[g].records => g[1] <= f[1]
    BY DEF Latest, Newest, Holders
  <2>3. f[1] <= h[1] /\ h[1] <= f[1] /\ k \in DOMAIN files[h].records /\ files[h].records[k] = saved[k]
    BY <2>1, <2>2 DEF Decides
  <2>4. f \in DOMAIN files /\ h \in DOMAIN files /\ f \in Name /\ h \in Name
    BY <2>2 DEF Others, FilesInv, FilesTypeOK
  <2>5. f[1] = h[1]
    BY <2>3, <2>4, Names
  <2> QED
    BY <2>2, <2>3, <2>4, <2>5, Agree DEF FilesInv
<1> QED
  BY <1>3, <1>4, <1>5

LEMMA InitFiles == FilesInit => FilesInv
<1> SUFFICES ASSUME FilesInit PROVE FilesInv
  OBVIOUS
<1>1. DOMAIN files = {} /\ up /\ capture = <<>> /\ collapse = Idle /\ saved = Nothing
  BY Empty DEF FilesInit
<1>2. FilesTypeOK
  BY Empty DEF FilesInit, FilesTypeOK, Idle
<1>3. Shape /\ Top /\ Collapsing /\ SameNumber
  BY <1>1 DEF Shape, Top, Collapsing, SameNumber
<1>4. Unsaved /\ Covered
  BY <1>1, Empty DEF FilesInit, Unsaved, Covered, Others
<1>5. RecoversRecent
  BY <1>1 DEF RecoversRecent
<1> QED
  BY <1>2, <1>3, <1>4, <1>5 DEF FilesInv

-----------------------------------------------------------------------------
LEMMA PutPreserves ==
  ASSUME FilesInv, NEW k \in Keys, Put(k)
  PROVE  FilesInv'
<1>1. /\ up /\ up' /\ data' = With(data, k, puts + 1) /\ dirty_keys' = dirty_keys \cup {k} /\ puts' = puts + 1
      /\ UNCHANGED <<clock, crashes, files, capture, collapse, snapshot, saved, cut>>
  BY DEF Put, history
<1>2. /\ DOMAIN data' = DOMAIN data \cup {k} /\ data'[k] = puts + 1
      /\ \A l \in DOMAIN data \ {k} : data'[l] = data[l]
  BY <1>1 DEF With
<1>3. data' \in Table
  <2>1. /\ data \in Table /\ puts \in Nat
    BY DEF FilesInv, FilesTypeOK
  <2> QED
    BY <1>1, <2>1 DEF With, Table
<1>4. FilesTypeOK'
  BY <1>1, <1>2, <1>3 DEF Put, FilesInv, FilesTypeOK
<1>5. Shape' /\ Top' /\ Collapsing' /\ SameNumber'
  BY <1>1 DEF FilesInv, Shape, Top, Collapsing, SameNumber
<1>6. Unsaved'
  BY <1>1, <1>2 DEF FilesInv, Unsaved, Others
<1>7. Covered'
  BY <1>1 DEF FilesInv, Covered, Others, Decides, Firm
<1>8. RecoversRecent'
  BY <1>1 DEF RecoversRecent
<1> QED
  BY <1>4, <1>5, <1>6, <1>7, <1>8 DEF FilesInv

LEMMA StartCapturePreserves ==
  ASSUME FilesInv, OpenCapture
  PROVE  FilesInv'
<1> DEFINE c == <<clock + 1, "chkpnt">>
           new == New(Restrict(data, dirty_keys))
<1>1. /\ up /\ up' /\ capture = <<>> /\ capture' = c /\ clock' = clock + 1 /\ clock \in Nat
      /\ files' = With(files, c, new) /\ snapshot' = data /\ dirty_keys' = {}
      /\ UNCHANGED <<data, puts, crashes, collapse, saved, cut>>
  BY DEF OpenCapture, Number, FilesInv, FilesTypeOK
<1>2. c \in Name /\ c # <<>> /\ c[1] = clock + 1 /\ c[2] = "chkpnt"
  <2>1. c \in Name
    BY <1>1 DEF Name
  <2>2. c # <<>>
    BY <2>1, Names
  <2> QED
    BY <2>1, <2>2
<1>3. /\ Restrict(data, dirty_keys) \in Table /\ DOMAIN Restrict(data, dirty_keys) = dirty_keys
      /\ \A k \in dirty_keys : Restrict(data, dirty_keys)[k] = data[k]
  BY Restricted DEF FilesInv, FilesTypeOK
<1>4. /\ new \in File /\ new.open /\ ~ new.torn /\ DOMAIN new.records = dirty_keys
      /\ \A k \in dirty_keys : new.records[k] = data[k]
  BY <1>3 DEF New, File
<1> HIDE DEF new
<1>5. \A f \in DOMAIN files : f \in Name /\ f # <<>> /\ f[1] \in Nat /\ f[1] <= clock /\ f # c
  BY <1>2, Names DEF FilesInv, FilesTypeOK, Shape
<1>6. /\ DOMAIN files' = DOMAIN files \cup {c} /\ files'[c] = new
      /\ \A f \in DOMAIN files : files'[f] = files[f]
  BY <1>1, <1>5 DEF With
<1> HIDE DEF c
<1>7. Others = DOMAIN files /\ Others' = DOMAIN files
  BY <1>1, <1>5, <1>6 DEF Others
<1>8. FilesTypeOK'
  BY <1>1, <1>2, <1>4, <1>6 DEF FilesInv, FilesTypeOK
<1>9. Shape'
  <2>1. \A f \in DOMAIN files' : f[1] <= clock'
    BY <1>1, <1>2, <1>5, <1>6
  <2>2. capture' = <<clock', "chkpnt">>
    BY <1>1 DEF c
  <2>3. \A f \in DOMAIN files' : files'[f].open =>
          ~ files'[f].torn /\ up' /\ (f = capture' \/ f[2] = "collapsed")
    BY <1>1, <1>4, <1>5, <1>6 DEF FilesInv, Shape
  <2> QED
    BY <1>1, <1>2, <1>4, <1>6, <2>1, <2>2, <2>3 DEF Shape
<1>10. Top'
  <2>1. collapse.left \subseteq DOMAIN files
    BY DEF FilesInv, Collapsing, Idle
  <2> QED
    BY <1>1, <1>2, <1>5, <1>6, <2>1 DEF Top
<1>11. Collapsing'
  <2> SUFFICES ASSUME collapse # Idle PROVE Collapsing'
    BY <1>1 DEF Collapsing
  <2>1. c[1] > collapse.to[1] /\ c # collapse.to /\ collapse.to \in DOMAIN files
    BY <1>1, <1>2, <1>5 DEF FilesInv, Collapsing
  <2> QED
    BY <1>1, <1>5, <1>6, <2>1 DEF FilesInv, Collapsing
<1>12. SameNumber'
  <2> SUFFICES ASSUME NEW f \in DOMAIN files', NEW g \in DOMAIN files',
                      f[1] = g[1], f[2] = "chkpnt", g[2] = "collapsed",
                      NEW k \in DOMAIN files'[g].records
               PROVE  k \in DOMAIN files'[f].records /\ files'[g].records[k] = files'[f].records[k]
    BY DEF SameNumber
  <2>1. g # c /\ g \in DOMAIN files
    BY <1>2, <1>6
  <2>2. f # c /\ f \in DOMAIN files
    BY <1>1, <1>2, <1>5, <1>6, <2>1
  <2> QED
    BY <1>6, <2>1, <2>2 DEF FilesInv, SameNumber
<1>13. Unsaved'
  <2>1. /\ DOMAIN saved \subseteq DOMAIN snapshot /\ DOMAIN snapshot \subseteq DOMAIN data
        /\ \A k \in DOMAIN data \ dirty_keys : k \in DOMAIN saved /\ saved[k] = data[k]
        /\ \A f \in DOMAIN files : DOMAIN files[f].records \subseteq DOMAIN saved
        /\ dirty_keys \subseteq DOMAIN data
    BY <1>1, <1>7 DEF FilesInv, FilesTypeOK, Unsaved
  <2>2. \A f \in Others' : DOMAIN files'[f].records \subseteq DOMAIN saved'
    BY <1>1, <1>6, <1>7, <2>1
  <2>3. \A k \in DOMAIN snapshot' \ DOMAIN files'[c].records : k \in DOMAIN saved' /\ saved'[k] = snapshot'[k]
    BY <1>1, <1>4, <1>6, <2>1
  <2>4. \A k \in DOMAIN files'[c].records :
          k \in DOMAIN snapshot' /\ files'[c].records[k] = snapshot'[k]
    BY <1>1, <1>4, <1>6, <2>1
  <2> QED
    BY <1>1, <1>2, <2>1, <2>2, <2>3, <2>4 DEF Unsaved
<1>14. Covered'
  BY <1>1, <1>6, <1>7 DEF FilesInv, Covered, Decides, Firm
<1>15. RecoversRecent'
  BY <1>1 DEF RecoversRecent
<1> QED
  BY <1>8, <1>9, <1>10, <1>11, <1>12, <1>13, <1>14, <1>15 DEF FilesInv

(* What an assignment to a field of a file leaves.                         *)
LEMMA Closed ==
  ASSUME NEW x \in File, NEW b \in BOOLEAN
  PROVE  LET y == [x EXCEPT !.open = b] IN
         y \in File /\ y.open = b /\ y.records = x.records /\ y.torn = x.torn
BY DEF File

LEMMA CloseCapturePreserves ==
  ASSUME FilesInv, CloseCapture
  PROVE  FilesInv'
<1> SUFFICES ASSUME NEW c, c = capture PROVE FilesInv'
  OBVIOUS
<1>1. /\ up /\ up' /\ c # <<>> /\ capture' = <<>> /\ saved' = snapshot
      /\ files' = [files EXCEPT ![c].open = FALSE]
      /\ cut' = (cut /\ DOMAIN files[c].records # DOMAIN snapshot)
      /\ UNCHANGED <<data, puts, clock, crashes, dirty_keys, collapse, snapshot>>
  BY DEF CloseCapture, counters
<1>2. /\ c \in DOMAIN files /\ c \in Name /\ c[1] = clock /\ clock \in Nat /\ c[2] = "chkpnt"
      /\ files[c].open
  BY <1>1 DEF FilesInv, FilesTypeOK, Shape
<1>3. \A f \in DOMAIN files : f \in Name /\ f # <<>> /\ f[1] <= c[1] /\ files[f] \in File
  BY <1>2, Names DEF FilesInv, FilesTypeOK, Shape
<1>4. /\ DOMAIN files' = DOMAIN files /\ \A f \in DOMAIN files \ {c} : files'[f] = files[f]
      /\ files'[c] \in File /\ ~ files'[c].open
      /\ files'[c].records = files[c].records /\ files'[c].torn = files[c].torn
  <2>1. files'[c] = [files[c] EXCEPT !.open = FALSE]
    BY <1>1, <1>2
  <2>2. files[c] \in File
    BY <1>2, <1>3
  <2>3. /\ files'[c] \in File /\ files'[c].open = FALSE
        /\ files'[c].records = files[c].records /\ files'[c].torn = files[c].torn
    BY <2>1, <2>2, Closed
  <2> QED
    BY <1>1, <2>3
<1>5. \A f \in DOMAIN files : files'[f].records = files[f].records
  BY <1>4
<1>6. Others = DOMAIN files \ {c} /\ Others' = DOMAIN files
  BY <1>1, <1>3, <1>4 DEF Others
<1>7. FilesTypeOK'
  BY <1>1, <1>3, <1>4 DEF FilesInv, FilesTypeOK
<1>8. Shape'
  BY <1>1, <1>2, <1>3, <1>4 DEF FilesInv, Shape
<1>9. Top' /\ SameNumber'
  BY <1>1, <1>4, <1>5 DEF FilesInv, Top, SameNumber
<1>10. Collapsing'
  <2> SUFFICES ASSUME collapse # Idle PROVE Collapsing'
    BY <1>1 DEF Collapsing
  <2>1. collapse.to # c /\ collapse.to \in DOMAIN files
    BY <1>2 DEF FilesInv, Collapsing
  <2>2. files'[collapse.to] = files[collapse.to]
    BY <1>4, <2>1
  <2>3. collapse.left \subseteq DOMAIN files \ {collapse.to, capture'}
    BY <1>1, <1>3 DEF FilesInv, Collapsing
  <2> QED
    BY <1>1, <1>4, <2>2, <2>3 DEF FilesInv, Collapsing
<1>11. Unsaved'
  <2>1. /\ DOMAIN saved \subseteq DOMAIN snapshot /\ DOMAIN snapshot \subseteq DOMAIN data
        /\ \A k \in DOMAIN data \ dirty_keys : k \in DOMAIN snapshot /\ snapshot[k] = data[k]
        /\ \A f \in DOMAIN files \ {c} : DOMAIN files[f].records \subseteq DOMAIN saved
        /\ DOMAIN files[c].records \subseteq DOMAIN snapshot
    BY <1>1, <1>6 DEF FilesInv, Unsaved
  <2>2. \A f \in DOMAIN files : DOMAIN files'[f].records \subseteq DOMAIN saved'
    BY <1>1, <1>5, <2>1
  <2> QED
    BY <1>1, <1>6, <2>1, <2>2 DEF Unsaved
<1>12. Covered'
  <2> SUFFICES ASSUME ~ cut', NEW k \in DOMAIN saved'
               PROVE  \E h \in Others' : Decides(h, k)'
    BY DEF Covered
  <2>1. CASE k \in DOMAIN files[c].records
    <3>1. files[c].records[k] = snapshot[k]
      BY <1>1, <2>1 DEF FilesInv, Unsaved
    <3>2. Decides(c, k)'
      BY <1>1, <1>3, <1>4, <1>6, <2>1, <3>1 DEF Decides, Firm
    <3> QED
      BY <1>2, <1>6, <3>2
  <2>2. CASE k \notin DOMAIN files[c].records
    <3>1. ~ cut /\ k \in DOMAIN saved /\ saved[k] = snapshot[k]
      BY <1>1, <2>2 DEF FilesInv, Unsaved
    <3>2. PICK h \in Others : Decides(h, k)
      BY <1>1, <3>1 DEF FilesInv, Covered
    <3>3. Decides(h, k)'
      <4>1. h # c /\ files'[h] = files[h] /\ saved'[k] = saved[k]
        BY <1>1, <1>4, <1>6, <3>1
      <4>2. ASSUME NEW g \in DOMAIN files, k \in DOMAIN files'[g].records PROVE g[1] <= h[1]
        BY <1>5, <1>6, <2>2, <3>2, <4>2 DEF Decides
      <4> QED
        BY <1>1, <1>6, <3>2, <4>1, <4>2 DEF Decides, Firm
    <3> QED
      BY <1>6, <3>3
  <2> QED
    BY <2>1, <2>2
<1>13. RecoversRecent'
  BY <1>1 DEF RecoversRecent
<1> QED
  BY <1>7, <1>8, <1>9, <1>10, <1>11, <1>12, <1>13 DEF FilesInv

-----------------------------------------------------------------------------
LEMMA StartCollapsePreserves ==
  ASSUME FilesInv, StartCollapse
  PROVE  FilesInv'
<1>0. PICK merging \in Merging :
        \E f \in Newest(merging) :
          LET to == <<f[1], "collapsed">> IN
          /\ to \notin DOMAIN files
          /\ files' = With(files, to, New(Nothing))
          /\ collapse' = [to |-> to, left |-> merging, removed |-> FALSE]
  BY DEF StartCollapse
<1>1. PICK f \in Newest(merging) :
        LET to == <<f[1], "collapsed">> IN
        /\ to \notin DOMAIN files
        /\ files' = With(files, to, New(Nothing))
        /\ collapse' = [to |-> to, left |-> merging, removed |-> FALSE]
  BY <1>0
<1>2. PICK g \in Newest(DOMAIN files) : merging = DOMAIN files \ {g}
  BY DEF Merging
<1>3. /\ up /\ up' /\ collapse = Idle
      /\ UNCHANGED <<data, puts, clock, crashes, dirty_keys, capture, snapshot, saved, cut>>
  BY DEF StartCollapse, counters, history
<1>4. \A x \in DOMAIN files : x \in Name /\ x[1] \in Nat /\ x[1] <= clock /\ x # <<>>
  BY Names DEF FilesInv, FilesTypeOK, Shape
<1>5. g \in DOMAIN files /\ \A x \in DOMAIN files \ {g} : x[1] < g[1]
  <2>1. g \in DOMAIN files /\ \A x \in DOMAIN files : x[1] <= g[1]
    BY DEF Newest
  <2>2. PICK t \in DOMAIN files : \A x \in DOMAIN files \ {t} : x[1] < t[1]
    BY <2>1 DEF FilesInv, Top
  <2>3. t = g
    BY <1>4, <2>1, <2>2
  <2> QED
    BY <2>1, <2>2, <2>3
<1>6. /\ f \in DOMAIN files \ {g} /\ f[1] \in Nat /\ f[1] <= clock /\ f[1] < g[1]
      /\ \A x \in merging : x[1] <= f[1]
  BY <1>2, <1>4, <1>5 DEF Newest
<1>7. capture \notin merging
  <2>1. CASE capture = <<>>
    BY <1>2, <1>4, <2>1
  <2>2. CASE capture # <<>>
    <3>1. capture \in DOMAIN files /\ capture[1] = clock
      BY <2>2 DEF FilesInv, Shape
    <3>2. clock \in Nat
      BY DEF FilesInv, FilesTypeOK
    <3>3. capture = g
      BY <1>4, <1>5, <3>1, <3>2
    <3> QED
      BY <1>2, <3>3
  <2> QED
    BY <2>1, <2>2
<1> DEFINE to == <<f[1], "collapsed">>
           new == New(Nothing)
<1>8. to \in Name /\ to[1] = f[1] /\ to[2] = "collapsed" /\ to # <<>>
  <2>1. to \in Name
    BY <1>6 DEF Name
  <2>2. to # <<>>
    BY <2>1, Names
  <2> QED
    BY <2>1, <2>2
<1>9. new \in File /\ new.open /\ ~ new.torn /\ DOMAIN new.records = {}
  BY Empty DEF New, File
<1>10. /\ to \notin DOMAIN files /\ files' = With(files, to, new)
       /\ collapse' = [to |-> to, left |-> merging, removed |-> FALSE]
  BY <1>1
<1> HIDE DEF to, new
<1>11. /\ DOMAIN files' = DOMAIN files \cup {to} /\ files'[to] = new
       /\ \A x \in DOMAIN files : files'[x] = files[x]
  BY <1>10 DEF With
<1>12. collapse'.to = to /\ collapse'.left = merging /\ collapse'.removed = FALSE
  BY <1>10
<1>13. to # capture
  BY <1>8, <1>10 DEF FilesInv, Shape
<1>14. FilesTypeOK'
  BY <1>2, <1>3, <1>4, <1>8, <1>9, <1>10, <1>11 DEF FilesInv, FilesTypeOK
<1>15. Shape'
  BY <1>3, <1>6, <1>8, <1>9, <1>11 DEF FilesInv, Shape
<1>16. Top'
  <2>1. g \in DOMAIN files' \ collapse'.left
    BY <1>2, <1>5, <1>11, <1>12
  <2>2. \A x \in DOMAIN files' \ {g} : x[1] < g[1]
    BY <1>5, <1>6, <1>8, <1>11
  <2> QED
    BY <2>1, <2>2 DEF Top
<1>17. Collapsing'
  <2>1. to \in DOMAIN files' /\ files'[to].open /\ DOMAIN files'[to].records = {}
    BY <1>9, <1>11
  <2>2. merging \subseteq DOMAIN files' \ {to, capture'}
    BY <1>2, <1>3, <1>7, <1>10, <1>11
  <2>3. \A x \in DOMAIN files' \ (merging \cup {to}) : x[1] > to[1]
    BY <1>2, <1>4, <1>6, <1>8, <1>11
  <2>4. f \in merging /\ f[1] = to[1]
    BY <1>2, <1>6, <1>8
  <2> QED
    BY <1>6, <1>8, <1>12, <2>1, <2>2, <2>3, <2>4 DEF Collapsing
<1>18. SameNumber'
  <2> SUFFICES ASSUME NEW x \in DOMAIN files', NEW y \in DOMAIN files',
                      x[1] = y[1], x[2] = "chkpnt", y[2] = "collapsed",
                      NEW k \in DOMAIN files'[y].records
               PROVE  k \in DOMAIN files'[x].records /\ files'[y].records[k] = files'[x].records[k]
    BY DEF SameNumber
  <2>1. x # to /\ y # to
    BY <1>8, <1>9, <1>11
  <2> QED
    BY <1>11, <2>1 DEF FilesInv, SameNumber
<1>19. Others' = Others \cup {to}
  BY <1>3, <1>11, <1>13 DEF Others
<1>20. Unsaved'
  <2>1. capture # <<>> => files'[capture] = files[capture]
    BY <1>11 DEF FilesInv, Shape
  <2>2. \A x \in Others' : DOMAIN files'[x].records \subseteq DOMAIN saved'
    BY <1>3, <1>9, <1>11, <1>19 DEF FilesInv, Unsaved, Others
  <2> QED
    BY <1>3, <2>1, <2>2 DEF FilesInv, Unsaved
<1>21. Covered'
  <2> SUFFICES ASSUME ~ cut, NEW k \in DOMAIN saved
               PROVE  \E h \in Others' : Decides(h, k)'
    BY <1>3 DEF Covered
  <2>1. PICK h \in Others : Decides(h, k)
    BY <1>3 DEF FilesInv, Covered
  <2>2. h \in DOMAIN files /\ h # <<>> /\ h \in Others'
    BY <1>4, <1>19 DEF Others
  <2>3. ~ files[h].open
    BY <1>3, <2>1, <2>2 DEF Decides, Firm, Idle
  <2>4. \A x \in Others' : k \in DOMAIN files'[x].records => x[1] <= h[1]
    BY <1>9, <1>11, <1>19, <2>1 DEF Decides, Others
  <2>5. Decides(h, k)'
    BY <1>3, <1>11, <2>1, <2>2, <2>3, <2>4 DEF Decides, Firm
  <2> QED
    BY <2>2, <2>5
<1>22. RecoversRecent'
  BY <1>3 DEF RecoversRecent
<1> QED
  BY <1>14, <1>15, <1>16, <1>17, <1>18, <1>20, <1>21, <1>22 DEF FilesInv

(* What a round of the collapser reads, and what it writes.                *)
LEMMA MergeParts ==
  ASSUME FilesInv, collapse # Idle, NEW f \in Newest(collapse.left), NEW read \in Readable(files[f]),
         NEW to, to = collapse.to
  PROVE  /\ to \in DOMAIN files /\ to \in Name /\ to[1] \in Nat /\ to[2] = "collapsed" /\ files[to].open
         /\ f \in DOMAIN files /\ f \in Name /\ f[1] \in Nat /\ f \in collapse.left
         /\ f # to /\ f # capture /\ to # capture
         /\ f[1] <= to[1] /\ \A x \in collapse.left : x[1] <= f[1] /\ x[1] \in Nat
         /\ \A x \in DOMAIN files : x[1] = to[1] /\ x # to => x = f
         /\ f[1] = to[1] => DOMAIN files[to].records = {}
         /\ read \in Table /\ DOMAIN read \subseteq DOMAIN files[f].records
         /\ \A k \in DOMAIN read : read[k] = files[f].records[k]
         /\ ~ files[f].open => read = files[f].records
<1>1. /\ to \in DOMAIN files /\ to[2] = "collapsed" /\ files[to].open
      /\ collapse.left \subseteq DOMAIN files \ {to, capture}
      /\ \A x \in collapse.left : x[1] <= to[1]
      /\ \A x \in DOMAIN files \ (collapse.left \cup {to}) : x[1] > to[1]
      /\ (\E x \in collapse.left : x[1] = to[1]) => DOMAIN files[to].records = {}
  BY DEF FilesInv, Collapsing
<1>2. f \in collapse.left /\ \A x \in collapse.left : x[1] <= f[1]
  BY DEF Newest
<1>3. /\ \A x \in DOMAIN files :
           /\ x \in Name /\ x[1] \in Nat /\ x[2] \in {"chkpnt", "collapsed"}
           /\ x = <<x[1], x[2]>> /\ x # <<>>
      /\ \A x \in DOMAIN files : files[x] \in File
  BY Names DEF FilesInv, FilesTypeOK
<1>4. to # capture
  BY <1>1, <1>3 DEF FilesInv, Shape
<1>5. ASSUME NEW x \in DOMAIN files, x[1] = to[1], x # to
      PROVE  x = f
  <2>1. x \in collapse.left
    BY <1>1, <1>3, <1>5
  <2>2. f[1] = to[1] /\ f \in DOMAIN files /\ f # to
    BY <1>1, <1>2, <1>3, <1>5, <2>1
  <2>3. x[2] = "chkpnt" /\ f[2] = "chkpnt"
    BY <1>1, <1>3, <1>5, <2>2
  <2> QED
    BY <1>3, <1>5, <2>2, <2>3
<1>6. files[f] \in File /\ files[f].records \in Table
  BY <1>1, <1>2, <1>3 DEF File
<1>7. /\ read \in Table /\ DOMAIN read \subseteq DOMAIN files[f].records
      /\ \A k \in DOMAIN read : read[k] = files[f].records[k]
      /\ ~ files[f].open => read = files[f].records
  <2>1. CASE files[f].open
    <3>1. PICK K \in SUBSET DOMAIN files[f].records : read = Restrict(files[f].records, K)
      BY <2>1 DEF Readable
    <3> QED
      BY <1>6, <2>1, <3>1, Restricted
  <2>2. CASE ~ files[f].open
    BY <1>6, <2>2 DEF Readable
  <2> QED
    BY <2>1, <2>2
<1> QED
  BY <1>1, <1>2, <1>3, <1>4, <1>5, <1>7

LEMMA Written ==
  ASSUME NEW x \in File, NEW t \in Table, NEW b \in BOOLEAN
  PROVE  LET y == [x EXCEPT !.records = t] IN
         y \in File /\ y.records = t /\ y.open = x.open /\ y.torn = x.torn
BY DEF File

(* A file is merged and removed.                                           *)
LEMMA MergeWholePreserves ==
  ASSUME FilesInv, up, collapse # Idle, NEW f \in Newest(collapse.left), NEW read \in Readable(files[f]),
         NEW to, to = collapse.to, NEW left, left = collapse.left \ {f},
         NEW merged, merged = Merged(files[to].records, read),
         files'[to] \in File, files'[to].records = merged, files'[to].torn = files[to].torn,
         files'[to].open <=> left # {}, DOMAIN files' = DOMAIN files \ {f},
         \A x \in DOMAIN files \ {f, to} : files'[x] = files[x],
         collapse' = IF left = {} THEN Idle ELSE [collapse EXCEPT !.left = left, !.removed = TRUE],
         UNCHANGED <<up, data, puts, clock, crashes, dirty_keys, capture, snapshot, saved, cut>>
  PROVE  FilesInv'
<1> DEFINE new == files'[to]
<1>1. /\ to \in DOMAIN files /\ to \in Name /\ to[1] \in Nat /\ to[2] = "collapsed" /\ files[to].open
      /\ f \in DOMAIN files /\ f \in Name /\ f[1] \in Nat /\ f \in collapse.left
      /\ f # to /\ f # capture /\ to # capture
      /\ f[1] <= to[1] /\ \A x \in collapse.left : x[1] <= f[1] /\ x[1] \in Nat
      /\ \A x \in DOMAIN files : x[1] = to[1] /\ x # to => x = f
      /\ f[1] = to[1] => DOMAIN files[to].records = {}
      /\ read \in Table /\ DOMAIN read \subseteq DOMAIN files[f].records
      /\ \A k \in DOMAIN read : read[k] = files[f].records[k]
      /\ ~ files[f].open => read = files[f].records
  BY MergeParts
<1>2. files[to] \in File /\ files[to].records \in Table
  BY <1>1 DEF FilesInv, FilesTypeOK, File
<1>3. /\ merged \in Table /\ DOMAIN merged = DOMAIN files[to].records \cup DOMAIN read
      /\ \A k \in DOMAIN files[to].records : merged[k] = files[to].records[k]
      /\ \A k \in DOMAIN read \ DOMAIN files[to].records : merged[k] = read[k]
  <2> DEFINE old == files[to].records
  <2>1. old \in Table /\ read \in Table /\ merged = Merged(old, read)
    BY <1>1, <1>2
  <2> HIDE DEF old
  <2>2. /\ Merged(old, read) \in Table /\ DOMAIN Merged(old, read) = DOMAIN old \cup DOMAIN read
        /\ \A k \in DOMAIN old : Merged(old, read)[k] = old[k]
        /\ \A k \in DOMAIN read \ DOMAIN old : Merged(old, read)[k] = read[k]
    BY <2>1, MergedTables
  <2> QED
    BY <2>1, <2>2 DEF old
<1>5. new \in File /\ new.records = merged /\ new.torn = files[to].torn /\ (new.open <=> left # {})
  OBVIOUS
<1>7. /\ DOMAIN files' = DOMAIN files \ {f} /\ files'[to] = new
      /\ \A x \in DOMAIN files \ {f, to} : files'[x] = files[x]
  OBVIOUS
<1>8. /\ collapse'.left = left /\ left \subseteq collapse.left
      /\ left # {} => collapse'.to = to /\ collapse'.removed = TRUE /\ collapse' # Idle
  <2>1. collapse \in [to : Name \cup {<<>>}, left : SUBSET Name, removed : BOOLEAN]
    BY DEF FilesInv, FilesTypeOK
  <2>2. CASE left = {}
    BY <2>2 DEF Idle
  <2>3. CASE left # {}
    BY <2>1, <2>3 DEF Idle
  <2> QED
    BY <2>2, <2>3
<1>9. FilesTypeOK'
  <2>1. collapse' \in [to : Name \cup {<<>>}, left : SUBSET Name, removed : BOOLEAN]
    <3>1. collapse \in [to : Name \cup {<<>>}, left : SUBSET Name, removed : BOOLEAN]
      BY DEF FilesInv, FilesTypeOK
    <3>2. left \in SUBSET Name
      BY <3>1
    <3> QED
      BY <3>1, <3>2 DEF Idle
  <2>2. \A x \in DOMAIN files' : files'[x] \in File
    BY <1>5, <1>7 DEF FilesInv, FilesTypeOK
  <2> QED
    BY <1>7, <2>1, <2>2 DEF FilesInv, FilesTypeOK
<1>10. Shape'
  <2>1. \A x \in DOMAIN files' : x[1] <= clock /\ (files'[x].open => files[x].open /\ files'[x].torn = files[x].torn)
    BY <1>1, <1>5, <1>7 DEF FilesInv, Shape
  <2>2. capture # <<>> => capture \in DOMAIN files' /\ files'[capture] = files[capture]
    BY <1>1, <1>7 DEF FilesInv, Shape
  <2> QED
    BY <1>7, <2>1, <2>2 DEF FilesInv, Shape
<1>11. Top'
  <2>1. PICK g \in DOMAIN files \ collapse.left : \A x \in DOMAIN files \ {g} : x[1] < g[1]
    BY <1>1 DEF FilesInv, Top
  <2>2. g \in DOMAIN files' \ collapse'.left
    BY <1>1, <1>7, <1>8, <2>1
  <2> QED
    BY <1>7, <2>1, <2>2 DEF Top
<1>12. Collapsing'
  <2> SUFFICES ASSUME left # {} PROVE Collapsing'
    BY DEF Collapsing
  <2>1. /\ to \in DOMAIN files' /\ files'[to].open
        /\ left \subseteq DOMAIN files' \ {to, capture'}
        /\ DOMAIN files' \ (left \cup {to}) = DOMAIN files \ (collapse.left \cup {to})
    <3>1. collapse.left \subseteq DOMAIN files \ {to, capture}
      BY DEF FilesInv, Collapsing
    <3>2. left \subseteq DOMAIN files' \ {to, capture'}
      BY <1>7, <3>1
    <3>3. DOMAIN files' \ (left \cup {to}) = DOMAIN files \ (collapse.left \cup {to})
      BY <1>1, <1>7
    <3>4. to \in DOMAIN files' /\ files'[to].open
      BY <1>1, <1>5, <1>7
    <3> QED
      BY <3>2, <3>3, <3>4
  <2>2. \A x \in left : x[1] <= to[1] /\ x[1] # to[1]
    BY <1>1, <2>1, <1>7, <1>8 DEF FilesInv, Collapsing
  <2>3. \A x \in DOMAIN files' \ (left \cup {to}) : x[1] > to[1]
    BY <2>1 DEF FilesInv, Collapsing
  <2> QED
    BY <1>1, <1>8, <2>1, <2>2, <2>3 DEF Collapsing
<1>13. SameNumber'
  <2> SUFFICES ASSUME NEW x \in DOMAIN files', NEW y \in DOMAIN files',
                      x[1] = y[1], x[2] = "chkpnt", y[2] = "collapsed",
                      NEW k \in DOMAIN files'[y].records
               PROVE  k \in DOMAIN files'[x].records /\ files'[y].records[k] = files'[x].records[k]
    BY DEF SameNumber
  <2>1. x # to /\ y # to
    BY <1>1, <1>7
  <2> QED
    BY <1>7, <2>1 DEF FilesInv, SameNumber
<1>14. /\ Others' = Others \ {f} /\ f \in Others /\ to \in Others
  BY <1>1, <1>7 DEF Others
<1>15. Unsaved'
  <2>1. capture # <<>> => files'[capture] = files[capture]
    BY <1>1, <1>7 DEF FilesInv, Shape
  <2>2. \A x \in Others' : DOMAIN files'[x].records \subseteq DOMAIN saved'
    <3>1. \A x \in Others : DOMAIN files[x].records \subseteq DOMAIN saved
      BY DEF FilesInv, Unsaved
    <3>2. DOMAIN merged \subseteq DOMAIN saved
      BY <1>1, <1>3, <1>14, <3>1
    <3> QED
      BY <1>5, <1>7, <1>14, <3>1, <3>2 DEF Others
  <2> QED
    BY <2>1, <2>2 DEF FilesInv, Unsaved
<1>16. Covered'
  <2> SUFFICES ASSUME ~ cut, NEW k \in DOMAIN saved
               PROVE  \E h \in Others' : Decides(h, k)'
    BY DEF Covered
  <2>0. saved' = saved /\ \A x \in Others : x \in DOMAIN files /\ x[1] \in Nat
    BY Names DEF FilesInv, FilesTypeOK, Others
  <2>1. PICK h \in Others : Decides(h, k)
    BY DEF FilesInv, Covered
  <2>2. /\ Firm(h) /\ k \in DOMAIN files[h].records /\ files[h].records[k] = saved[k]
        /\ \A x \in Others : k \in DOMAIN files[x].records => x[1] <= h[1]
    BY <2>1 DEF Decides
  <2>3. ASSUME h[1] <= to[1], k \in DOMAIN merged, merged[k] = saved[k]
        PROVE  Decides(to, k)'
    <3>1. Firm(to)'
      BY <1>5, <1>7, <1>8 DEF Firm
    <3>2. \A x \in Others' : k \in DOMAIN files'[x].records => x[1] <= to[1]
      BY <1>1, <1>7, <1>14, <2>0, <2>2, <2>3
    <3> QED
      BY <1>5, <1>7, <2>0, <2>3, <3>1, <3>2 DEF Decides
  <2>4. ASSUME h \notin {f, to}, k \in DOMAIN merged => to[1] <= h[1]
        PROVE  Decides(h, k)'
    <3>1. files'[h] = files[h] /\ ~ files'[h].open
      BY <1>7, <2>0, <2>2, <2>4 DEF Firm
    <3>2. \A x \in Others' : k \in DOMAIN files'[x].records => x[1] <= h[1]
      BY <1>5, <1>7, <1>14, <2>0, <2>2, <2>4
    <3> QED
      BY <2>0, <2>2, <3>1, <3>2 DEF Decides, Firm
  <2>5. k \in DOMAIN files[to].records => to[1] <= h[1]
    BY <1>14, <2>2
  <2>6. CASE h = f
    <3>1. ~ files[f].open /\ k \in DOMAIN read /\ read[k] = saved[k]
      BY <1>1, <2>2, <2>6 DEF Firm
    <3>2. k \notin DOMAIN files[to].records
      BY <1>1, <2>5, <2>6
    <3> QED
      BY <1>1, <1>3, <1>14, <2>3, <2>6, <3>1, <3>2
  <2>7. CASE h = to
    BY <1>1, <1>3, <1>14, <2>2, <2>3, <2>7
  <2>8. CASE h \notin {f, to} /\ h \notin collapse.left
    <3>1. h[1] > to[1]
      BY <2>0, <2>8 DEF FilesInv, Collapsing
    <3> QED
      BY <1>1, <1>14, <2>0, <2>4, <2>8, <3>1
  <2>9. CASE h \notin {f, to} /\ h \in collapse.left /\ k \in DOMAIN read
    <3>1. k \in DOMAIN files[f].records /\ f[1] = h[1]
      <4>1. k \in DOMAIN files[f].records
        BY <1>1, <2>9
      <4>2. f[1] <= h[1]
        BY <1>14, <2>2, <4>1
      <4>3. h[1] <= f[1] /\ h[1] \in Nat /\ f[1] \in Nat
        BY <1>1, <2>9
      <4> QED
        BY <4>1, <4>2, <4>3
    <3>2. files[f].records[k] = files[h].records[k]
      BY <1>1, <2>0, <2>2, <3>1, Agree DEF FilesInv
    <3>3. k \notin DOMAIN files[to].records
      BY <1>1, <2>5, <3>1
    <3>4. h[1] <= to[1] /\ k \in DOMAIN merged /\ merged[k] = saved[k]
      BY <1>1, <1>3, <2>2, <2>9, <3>1, <3>2, <3>3
    <3> QED
      BY <1>1, <1>14, <2>3, <3>4
  <2>10. CASE h \notin {f, to} /\ h \in collapse.left /\ k \notin DOMAIN read
    BY <1>3, <1>14, <2>4, <2>5, <2>10
  <2> QED
    BY <2>6, <2>7, <2>8, <2>9, <2>10
<1>17. RecoversRecent'
  BY DEF RecoversRecent
<1> QED
  BY <1>9, <1>10, <1>11, <1>12, <1>13, <1>15, <1>16, <1>17 DEF FilesInv

(* A torn record ends the collapse.                                        *)
LEMMA MergeTornPreserves ==
  ASSUME FilesInv, up, collapse # Idle, NEW f \in Newest(collapse.left), NEW read \in Readable(files[f]),
         NEW to, to = collapse.to, NEW total, files[f].torn,
         total = [files[to] EXCEPT !.records = Merged(@, read)],
         files' = [files EXCEPT ![to] = total],
         collapse' = Idle, cut' = (cut \/ collapse.removed),
         UNCHANGED <<up, data, counters, dirty_keys, capture, snapshot, saved>>
  PROVE  FilesInv'
<1>1. /\ to \in DOMAIN files /\ to \in Name /\ to[1] \in Nat /\ to[2] = "collapsed" /\ files[to].open
      /\ f \in DOMAIN files /\ f \in Name /\ f[1] \in Nat /\ f \in collapse.left
      /\ f # to /\ f # capture /\ to # capture
      /\ f[1] <= to[1] /\ \A x \in collapse.left : x[1] <= f[1] /\ x[1] \in Nat
      /\ \A x \in DOMAIN files : x[1] = to[1] /\ x # to => x = f
      /\ f[1] = to[1] => DOMAIN files[to].records = {}
      /\ read \in Table /\ DOMAIN read \subseteq DOMAIN files[f].records
      /\ \A k \in DOMAIN read : read[k] = files[f].records[k]
      /\ ~ files[f].open => read = files[f].records
  BY MergeParts
<1>2. files[to] \in File /\ files[to].records \in Table
  BY <1>1 DEF FilesInv, FilesTypeOK, File
<1> DEFINE merged == Merged(files[to].records, read)
<1>3. /\ merged \in Table /\ DOMAIN merged = DOMAIN files[to].records \cup DOMAIN read
      /\ \A k \in DOMAIN files[to].records : merged[k] = files[to].records[k]
      /\ \A k \in DOMAIN read \ DOMAIN files[to].records : merged[k] = read[k]
  BY <1>1, <1>2, MergedTables, ZenonT(30)
<1>4. total \in File /\ total.records = merged /\ total.torn = files[to].torn /\ total.open
  <2>1. total \in File /\ total.records = merged /\ total.torn = files[to].torn
    BY <1>2, <1>3, Written
  <2>2. total.open = files[to].open
    BY <1>2, <1>3, Written
  <2> QED
    BY <1>1, <2>1, <2>2
<1> HIDE DEF merged
<1>5. /\ DOMAIN files' = DOMAIN files /\ files'[to] = total
      /\ \A x \in DOMAIN files \ {to} : files'[x] = files[x]
  BY <1>1
<1>6. ~ files[f].open /\ read = files[f].records
  BY <1>1 DEF FilesInv, Shape
<1>7. FilesTypeOK'
  <2>1. Idle \in [to : Name \cup {<<>>}, left : SUBSET Name, removed : BOOLEAN]
    BY DEF Idle
  <2> QED
    BY <1>4, <1>5, <2>1 DEF FilesInv, FilesTypeOK, counters
<1>8. Shape'
  <2>1. \A x \in DOMAIN files : files'[x].open = files[x].open /\ files'[x].torn = files[x].torn
    BY <1>1, <1>4, <1>5
  <2>2. capture # <<>> => capture \in DOMAIN files' /\ files'[capture] = files[capture]
    BY <1>1, <1>5 DEF FilesInv, Shape
  <2> QED
    BY <1>5, <2>1, <2>2 DEF FilesInv, Shape, counters
<1>9. Top' /\ Collapsing'
  BY <1>5 DEF FilesInv, Top, Collapsing, Idle
<1>10. SameNumber'
  <2> SUFFICES ASSUME NEW x \in DOMAIN files', NEW y \in DOMAIN files',
                      x[1] = y[1], x[2] = "chkpnt", y[2] = "collapsed",
                      NEW k \in DOMAIN files'[y].records
               PROVE  k \in DOMAIN files'[x].records /\ files'[y].records[k] = files'[x].records[k]
    BY DEF SameNumber
  <2>1. x # to
    BY <1>1
  <2>2. CASE y # to
    BY <1>5, <2>1, <2>2 DEF FilesInv, SameNumber
  <2>3. CASE y = to
    <3>1. x = f /\ f[1] = to[1]
      BY <1>1, <1>5, <2>1, <2>3
    <3>2. k \in DOMAIN read /\ merged[k] = read[k]
      BY <1>1, <1>3, <1>4, <1>5, <2>3, <3>1
    <3> QED
      BY <1>4, <1>5, <1>6, <2>1, <2>3, <3>1, <3>2
  <2> QED
    BY <2>2, <2>3
<1>11. /\ Others' = Others /\ f \in Others /\ to \in Others
  BY <1>1, <1>5 DEF Others
<1>12. Unsaved'
  <2>1. capture # <<>> => files'[capture] = files[capture]
    BY <1>1, <1>5 DEF FilesInv, Shape
  <2>2. \A x \in Others' : DOMAIN files'[x].records \subseteq DOMAIN saved'
    <3>1. \A x \in Others : DOMAIN files[x].records \subseteq DOMAIN saved
      BY DEF FilesInv, Unsaved
    <3>2. DOMAIN merged \subseteq DOMAIN saved
      BY <1>1, <1>3, <1>11, <3>1
    <3> QED
      BY <1>4, <1>5, <1>11, <3>1, <3>2 DEF Others
  <2> QED
    BY <2>1, <2>2 DEF FilesInv, Unsaved
<1>13. Covered'
  <2> SUFFICES ASSUME ~ cut, ~ collapse.removed, NEW k \in DOMAIN saved
               PROVE  \E h \in Others' : Decides(h, k)'
    BY DEF Covered
  <2>0. saved' = saved /\ \A x \in Others : x \in DOMAIN files /\ x[1] \in Nat
    BY Names DEF FilesInv, FilesTypeOK, Others
  <2>1. f[1] = to[1] /\ DOMAIN files[to].records = {}
    BY <1>1 DEF FilesInv, Collapsing
  <2>2. PICK h \in Others : Decides(h, k)
    BY DEF FilesInv, Covered
  <2>3. /\ Firm(h) /\ k \in DOMAIN files[h].records /\ files[h].records[k] = saved[k]
        /\ \A x \in Others : k \in DOMAIN files[x].records => x[1] <= h[1]
    BY <2>2 DEF Decides
  <2>4. h # to /\ files'[h] = files[h] /\ ~ files'[h].open
    BY <1>5, <2>0, <2>1, <2>3 DEF Firm
  <2>5. \A x \in Others' : k \in DOMAIN files'[x].records => x[1] <= h[1]
    BY <1>3, <1>4, <1>5, <1>6, <1>11, <2>0, <2>1, <2>3
  <2>6. Decides(h, k)'
    BY <2>0, <2>3, <2>4, <2>5 DEF Decides, Firm
  <2> QED
    BY <1>11, <2>6
<1>14. RecoversRecent'
  BY DEF RecoversRecent
<1> QED
  BY <1>7, <1>8, <1>9, <1>10, <1>12, <1>13, <1>14 DEF FilesInv

LEMMA MergeFilePreserves ==
  ASSUME FilesInv, MergeFile
  PROVE  FilesInv'
<1>1. /\ up /\ collapse # Idle
      /\ UNCHANGED <<up, data, counters, dirty_keys, capture, snapshot, saved>>
  BY DEF MergeFile
<1> DEFINE total(f, read) == [files[collapse.to] EXCEPT !.records = Merged(@, read)]
<1>2. PICK f \in Newest(collapse.left) :
        \E read \in Readable(files[f]) :
          IF files[f].torn
          THEN /\ files' = [files EXCEPT ![collapse.to] = total(f, read)]
               /\ collapse' = Idle
               /\ cut' = (cut \/ collapse.removed)
          ELSE /\ files' = [Restrict(files, DOMAIN files \ {f}) EXCEPT
                              ![collapse.to] = [total(f, read) EXCEPT !.open = (collapse.left \ {f} # {})]]
               /\ collapse' = IF collapse.left \ {f} = {} THEN Idle
                              ELSE [collapse EXCEPT !.left = collapse.left \ {f}, !.removed = TRUE]
               /\ cut' = cut
  BY DEF MergeFile
<1>3. PICK read \in Readable(files[f]) :
          IF files[f].torn
          THEN /\ files' = [files EXCEPT ![collapse.to] = total(f, read)]
               /\ collapse' = Idle
               /\ cut' = (cut \/ collapse.removed)
          ELSE /\ files' = [Restrict(files, DOMAIN files \ {f}) EXCEPT
                              ![collapse.to] = [total(f, read) EXCEPT !.open = (collapse.left \ {f} # {})]]
               /\ collapse' = IF collapse.left \ {f} = {} THEN Idle
                              ELSE [collapse EXCEPT !.left = collapse.left \ {f}, !.removed = TRUE]
               /\ cut' = cut
  BY <1>2
<1>4. CASE files[f].torn
  BY <1>1, <1>3, <1>4, MergeTornPreserves
<1>5. CASE ~ files[f].torn
  <2> SUFFICES ASSUME NEW to, to = collapse.to, NEW left, left = collapse.left \ {f},
                      NEW merged, merged = Merged(files[to].records, read),
                      NEW x, x = [files[to] EXCEPT !.records = merged]
               PROVE  FilesInv'
    OBVIOUS
  <2>1. /\ files' = [Restrict(files, DOMAIN files \ {f}) EXCEPT ![to] = [x EXCEPT !.open = (left # {})]]
        /\ collapse' = IF left = {} THEN Idle ELSE [collapse EXCEPT !.left = left, !.removed = TRUE]
        /\ cut' = cut
    BY <1>3, <1>5
  <2> HIDE DEF total
  <2>2. to \in DOMAIN files /\ f # to /\ files[to] \in File /\ files[to].records \in Table /\ read \in Table
    <3>1. to \in DOMAIN files /\ f # to /\ read \in Table
      BY <1>1, MergeParts
    <3> QED
      BY <3>1 DEF FilesInv, FilesTypeOK, File
  <2>3. merged \in Table
    BY <2>2, MergedTables
  <2>4. x \in File /\ x.records = merged /\ x.torn = files[to].torn
    BY <2>2, <2>3, Written
  <2>5. /\ DOMAIN files' = DOMAIN files \ {f}
        /\ \A y \in DOMAIN files \ {f, to} : files'[y] = files[y]
        /\ files'[to] \in File /\ (files'[to].open <=> left # {})
        /\ files'[to].records = x.records /\ files'[to].torn = x.torn
    <3>1. /\ DOMAIN files' = DOMAIN files \ {f}
          /\ \A y \in DOMAIN files \ {f, to} : files'[y] = files[y]
          /\ files'[to] = [x EXCEPT !.open = (left # {})]
      BY <2>1, <2>2 DEF Restrict
    <3>2. /\ files'[to] \in File /\ (files'[to].open <=> left # {})
          /\ files'[to].records = x.records /\ files'[to].torn = x.torn
      BY <2>4, <3>1 DEF File
    <3> QED
      BY <3>1, <3>2
  <2>6. files'[to].records = merged /\ files'[to].torn = files[to].torn
    BY <2>4, <2>5
  <2>7. UNCHANGED <<up, data, puts, clock, crashes, dirty_keys, capture, snapshot, saved, cut>>
    BY <1>1, <2>1 DEF counters
  <2>8. collapse' = IF left = {} THEN Idle ELSE [collapse EXCEPT !.left = left, !.removed = TRUE]
    BY <2>1
  <2> QED
    BY <1>1, <2>5, <2>6, <2>7, <2>8, MergeWholePreserves, ZenonT(120)
<1> QED
  BY <1>4, <1>5

-----------------------------------------------------------------------------
LEMMA CrashPreserves ==
  ASSUME FilesInv, Crash
  PROVE  FilesInv'
<1>1. /\ up /\ up' = FALSE /\ crashes' = crashes + 1
      /\ data' = Nothing /\ dirty_keys' = {} /\ capture' = <<>> /\ collapse' = Idle
      /\ cut' = (cut \/ collapse.removed)
      /\ UNCHANGED <<puts, clock, snapshot, saved>>
  BY DEF Crash
<1>2. PICK lost \in [{f \in DOMAIN files : files[f].open} -> SUBSET Keys],
           torn \in [{f \in DOMAIN files : files[f].open} -> BOOLEAN] :
         files' = [f \in DOMAIN files |->
            IF f \in DOMAIN lost
            THEN [records |-> Restrict(files[f].records, DOMAIN files[f].records \ lost[f]),
                  open |-> FALSE, torn |-> torn[f]]
            ELSE files[f]]
  BY DEF Crash
<1>3. \A f \in DOMAIN files : f \in Name /\ f # <<>> /\ f[1] \in Nat /\ files[f] \in File
  BY Names DEF FilesInv, FilesTypeOK
<1>4. DOMAIN files' = DOMAIN files /\ DOMAIN lost = {f \in DOMAIN files : files[f].open}
  BY <1>2
<1>5. ASSUME NEW f \in DOMAIN files
      PROVE  /\ files'[f] \in File /\ ~ files'[f].open
             /\ DOMAIN files'[f].records \subseteq DOMAIN files[f].records
             /\ \A k \in DOMAIN files'[f].records : files'[f].records[k] = files[f].records[k]
             /\ ~ files[f].open => files'[f] = files[f]
  <2>1. CASE ~ files[f].open
    BY <1>2, <1>3, <1>4, <2>1
  <2>2. CASE files[f].open
    <3> DEFINE old == files[f].records
               kept == Restrict(old, DOMAIN old \ lost[f])
    <3>1. files'[f] = [records |-> kept, open |-> FALSE, torn |-> torn[f]] /\ torn[f] \in BOOLEAN
      BY <1>2, <1>4, <2>2
    <3>2. old \in Table
      BY <1>3 DEF File
    <3> HIDE DEF old
    <3>3. /\ kept \in Table /\ DOMAIN kept \subseteq DOMAIN old
          /\ \A k \in DOMAIN kept : kept[k] = old[k]
      BY <3>2, Restricted
    <3> HIDE DEF kept
    <3>4. files'[f] \in File /\ files'[f].open = FALSE /\ files'[f].records = kept
      BY <3>1, <3>3 DEF File
    <3> QED
      BY <2>2, <3>3, <3>4 DEF old
  <2> QED
    BY <2>1, <2>2
<1> HIDE <1>2
<1>6. FilesTypeOK'
  <2>1. Idle \in [to : Name \cup {<<>>}, left : SUBSET Name, removed : BOOLEAN]
    BY DEF Idle
  <2>2. cut' \in BOOLEAN
    BY <1>1 DEF FilesInv, FilesTypeOK
  <2>3. DOMAIN files' \subseteq Name /\ \A f \in DOMAIN files' : files'[f] \in File
    BY <1>3, <1>4, <1>5
  <2>4. up' \in BOOLEAN /\ data' \in Table /\ dirty_keys' \subseteq DOMAIN data'
    BY <1>1, Empty
  <2>5. snapshot' \in Table /\ saved' \in Table /\ {puts', clock', crashes'} \subseteq Nat
    BY <1>1 DEF FilesInv, FilesTypeOK
  <2>6. capture' = <<>> /\ collapse' = Idle
    BY <1>1
  <2> QED
    BY <2>1, <2>2, <2>3, <2>4, <2>5, <2>6 DEF FilesTypeOK
<1>7. Shape'
  BY <1>1, <1>4, <1>5 DEF FilesInv, Shape
<1>8. Top' /\ Collapsing'
  BY <1>1, <1>4 DEF FilesInv, Top, Collapsing, Idle
<1>9. SameNumber'
  <2> SUFFICES ASSUME NEW x \in DOMAIN files, NEW y \in DOMAIN files,
                      x[1] = y[1], x[2] = "chkpnt", y[2] = "collapsed",
                      NEW k \in DOMAIN files'[y].records
               PROVE  k \in DOMAIN files'[x].records /\ files'[y].records[k] = files'[x].records[k]
    BY <1>4 DEF SameNumber
  <2>1. ~ files[x].open
    <3> SUFFICES ASSUME files[x].open PROVE FALSE
      OBVIOUS
    <3>1. x = capture /\ x[1] = clock /\ x # y
      BY <1>3 DEF FilesInv, Shape
    <3>2. PICK g \in DOMAIN files : \A f \in DOMAIN files \ {g} : f[1] < g[1]
      BY DEF FilesInv, Top
    <3>3. g[1] <= x[1] /\ g[1] \in Nat /\ x[1] \in Nat
      BY <1>3, <3>1 DEF FilesInv, Shape
    <3> QED
      BY <3>1, <3>2, <3>3
  <2>2. k \in DOMAIN files[y].records /\ files'[y].records[k] = files[y].records[k]
    BY <1>5
  <2>3. k \in DOMAIN files[x].records /\ files[y].records[k] = files[x].records[k]
    BY <2>2 DEF FilesInv, SameNumber
  <2>4. files'[x] = files[x]
    BY <1>5, <2>1
  <2> QED
    BY <2>2, <2>3, <2>4
<1>10. Unsaved' /\ Covered'
  BY <1>1 DEF Unsaved, Covered
<1>11. RecoversRecent'
  <2> SUFFICES ASSUME ~ cut, ~ collapse.removed PROVE RecoversRecent'
    BY <1>1 DEF RecoversRecent
  <2> DEFINE H(k) == {f \in DOMAIN files : k \in DOMAIN files'[f].records}
  <2>1. ASSUME NEW k \in DOMAIN saved
        PROVE  \E h \in H(k) : Decides(h, k)
    <3>1. PICK h \in Others : Decides(h, k)
      BY <1>1 DEF FilesInv, Covered
    <3>2. h \in DOMAIN files /\ h # <<>> /\ Firm(h) /\ k \in DOMAIN files[h].records
      BY <1>3, <3>1 DEF Others, Decides
    <3>3. ~ files[h].open
      <4> SUFFICES ASSUME h = collapse.to PROVE FALSE
        BY <3>2 DEF Firm
      <4>1. collapse # Idle
        BY <3>2 DEF Idle
      <4>2. DOMAIN files[h].records = {}
        BY <4>1 DEF FilesInv, Collapsing
      <4> QED
        BY <3>2, <4>2
    <3> QED
      BY <1>5, <3>1, <3>2, <3>3
  <2>2. ASSUME NEW k, NEW f \in Newest(H(k))
        PROVE  files'[f].records[k] \in At(saved, k) \cup At(snapshot, k)
    <3>1. /\ f \in DOMAIN files /\ k \in DOMAIN files'[f].records
          /\ \A g \in H(k) : g[1] <= f[1]
      BY DEF Newest
    <3>2. k \in DOMAIN files[f].records /\ files'[f].records[k] = files[f].records[k]
      BY <1>5, <3>1
    <3>3. CASE f = capture
      BY <1>1, <1>3, <3>1, <3>2, <3>3 DEF FilesInv, Unsaved, At
    <3>4. CASE f # capture
      <4>1. f \in Others /\ k \in DOMAIN saved
        BY <1>1, <3>1, <3>2, <3>4 DEF FilesInv, Unsaved, Others
      <4>2. PICK h \in H(k) : Decides(h, k)
        BY <2>1, <4>1
      <4>3. h \in DOMAIN files /\ h[1] <= f[1]
        BY <3>1, <4>2
      <4>4. /\ k \in DOMAIN files[h].records /\ files[h].records[k] = saved[k]
            /\ f[1] <= h[1]
        BY <3>2, <4>1, <4>2 DEF Decides
      <4>5. f[1] = h[1]
        BY <1>3, <3>1, <4>3, <4>4
      <4>6. files[f].records[k] = saved[k]
        BY <3>1, <3>2, <4>3, <4>4, <4>5, Agree DEF FilesInv
      <4> QED
        BY <3>2, <4>1, <4>6 DEF At
    <3> QED
      BY <3>3, <3>4
  <2>3. DOMAIN saved \subseteq Keys
    BY Tables DEF FilesInv, FilesTypeOK
  <2>4. \A k : Holders(DOMAIN files, k)' = H(k) /\ Latest(DOMAIN files, k)' = Newest(H(k))
    BY <1>4 DEF Holders, Latest, Newest
  <2> HIDE DEF H
  <2>5. DOMAIN saved' \subseteq Held(DOMAIN files)'
    BY <1>1, <2>1, <2>3, <2>4 DEF Held
  <2>6. \A k \in Held(DOMAIN files)' : \A f \in Latest(DOMAIN files, k)' :
           files'[f].records[k] \in At(saved, k)' \cup At(snapshot, k)'
    BY <1>1, <2>2, <2>4 DEF At
  <2> QED
    BY <2>5, <2>6 DEF RecoversRecent
<1> QED
  BY <1>6, <1>7, <1>8, <1>9, <1>10, <1>11 DEF FilesInv

LEMMA RecoverPreserves ==
  ASSUME FilesInv, Recover
  PROVE  FilesInv'
<1>1. /\ ~ up /\ up' /\ dirty_keys' = DOMAIN data' /\ snapshot' = data' /\ saved' = data'
      /\ capture = <<>> /\ collapse = Idle
      /\ UNCHANGED <<puts, clock, crashes, files, capture, collapse, cut>>
  BY DEF Recover, counters, FilesInv, Shape
<1>2. PICK from \in [Held(DOMAIN files) -> DOMAIN files] :
        /\ \A k \in DOMAIN from : from[k] \in Latest(DOMAIN files, k)
        /\ data' = [k \in DOMAIN from |-> files[from[k]].records[k]]
  BY DEF Recover
<1>3. \A f \in DOMAIN files : f # <<>> /\ files[f] \in File /\ files[f].records \in Table
  BY Names DEF FilesInv, FilesTypeOK, File
<1>4. Others = DOMAIN files /\ Others' = DOMAIN files
  BY <1>1, <1>3 DEF Others
<1>5. DOMAIN data' = Held(DOMAIN files) /\ Held(DOMAIN files) \subseteq Keys
  BY <1>2 DEF Held
<1>6. ASSUME NEW k \in DOMAIN data'
      PROVE  /\ from[k] \in DOMAIN files /\ k \in DOMAIN files[from[k]].records
             /\ \A g \in DOMAIN files : k \in DOMAIN files[g].records => g[1] <= from[k][1]
             /\ data'[k] = files[from[k]].records[k]
  BY <1>2 DEF Latest, Newest, Holders
<1>7. data' \in Table
  <2>1. \A k \in DOMAIN data' : data'[k] \in Nat
    BY <1>3, <1>6, Tables
  <2>2. data' = [k \in DOMAIN data' |-> data'[k]]
    BY <1>2
  <2> QED
    BY <1>5, <2>1, <2>2 DEF Table
<1>8. FilesTypeOK'
  BY <1>1, <1>7 DEF FilesInv, FilesTypeOK
<1>9. Shape' /\ Top' /\ Collapsing' /\ SameNumber'
  BY <1>1 DEF FilesInv, Shape, Top, Collapsing, SameNumber
<1>10. Unsaved'
  <2>1. ASSUME NEW f \in DOMAIN files PROVE DOMAIN files[f].records \subseteq DOMAIN data'
    <3>1. DOMAIN files[f].records \subseteq Keys
      BY <1>3, Tables
    <3> QED
      BY <1>5, <3>1 DEF Held, Holders
  <2> QED
    BY <1>1, <1>4, <2>1 DEF Unsaved
<1>11. Covered'
  <2> SUFFICES ASSUME NEW k \in DOMAIN data'
               PROVE  \E h \in Others' : Decides(h, k)'
    BY <1>1 DEF Covered
  <2>1. ~ files[from[k]].open
    BY <1>1, <1>6 DEF FilesInv, Shape
  <2> QED
    BY <1>1, <1>4, <1>6, <2>1 DEF Decides, Firm
<1>12. RecoversRecent'
  BY <1>1 DEF RecoversRecent
<1> QED
  BY <1>8, <1>9, <1>10, <1>11, <1>12 DEF FilesInv

-----------------------------------------------------------------------------
LEMMA FilesNextPreserves == FilesInv /\ [FilesNext]_fileVars => FilesInv'
<1> SUFFICES ASSUME FilesInv, [FilesNext]_fileVars PROVE FilesInv'
  OBVIOUS
<1>1. ASSUME NEW k \in Keys, Put(k) PROVE FilesInv'
  BY <1>1, PutPreserves
<1>2. CASE OpenCapture
  BY <1>2, StartCapturePreserves
<1>3. CASE CloseCapture
  BY <1>3, CloseCapturePreserves
<1>4. CASE StartCollapse
  BY <1>4, StartCollapsePreserves
<1>5. CASE MergeFile
  BY <1>5, MergeFilePreserves
<1>6. CASE Crash
  BY <1>6, CrashPreserves
<1>7. CASE Recover
  BY <1>7, RecoverPreserves
<1>8. CASE UNCHANGED fileVars
  <2>1. UNCHANGED <<up, data, puts, clock, crashes, dirty_keys, files, capture, collapse, snapshot, saved, cut>>
    BY <1>8 DEF fileVars, counters, history
  <2>2. FilesTypeOK' /\ Shape' /\ Top' /\ Collapsing'
    BY <2>1 DEF FilesInv, FilesTypeOK, Shape, Top, Collapsing
  <2>3. SameNumber' /\ Unsaved' /\ Covered'
    BY <2>1 DEF FilesInv, SameNumber, Unsaved, Covered, Others, Decides, Firm
  <2>4. RecoversRecent'
    BY <2>1 DEF FilesInv, RecoversRecent, Held, Latest, Newest, Holders, At
  <2> QED
    BY <2>2, <2>3, <2>4 DEF FilesInv
<1> QED
  BY <1>1, <1>2, <1>3, <1>4, <1>5, <1>6, <1>7, <1>8 DEF FilesNext

THEOREM FilesInvariant == FilesSpec => []FilesInv
BY InitFiles, FilesNextPreserves, PTL DEF FilesSpec

(* Collapsing changes nothing (checkpointer.h:136-143): whatever captures, *)
(* collapses and crashes there have been, while the process runs the files *)
(* other than the one being captured, read oldest first, give exactly what *)
(* the last finished capture saw - unless a collapse has ended early after *)
(* it had removed a file.                                                  *)
THEOREM CollapseKeepsCheckpoint == FilesSpec => []FilesHoldSaved
BY FilesInvariant, InvMeansHeld, PTL

(* checkpointer.h:59-65: after a crash at any moment the files restore     *)
(* every key as the last finished checkpoint has it or as the one that was *)
(* interrupted would have; no key of the finished one is missing.  (Again  *)
(* unless a file was removed before what replaces it was closed.)          *)
THEOREM RestoresRecent == FilesSpec => []RecoversRecent
<1>1. FilesInv => RecoversRecent
  BY DEF FilesInv
<1> QED
  BY <1>1, FilesInvariant, PTL
=============================================================================
