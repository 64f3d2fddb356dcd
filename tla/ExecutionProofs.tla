-------------------------- MODULE ExecutionProofs --------------------------
(***************************************************************************)
(* Theorems about Execution, for all nodes, keys, transactions, ids and    *)
(* capacities: whatever the workers and the messages do, every node        *)
(* executes with the values of one serial execution in the agreed order,   *)
(* and nothing gets stuck.                                                 *)
(***************************************************************************)
EXTENDS Execution, BasicLemmas, FiniteSetTheorems, TLAPS

-----------------------------------------------------------------------------
(* A transaction is locked after all of the node's earlier ones, and runs  *)
(* after the earlier ones that conflict with it are done.                  *)
LockOrder ==
  \A n \in Node, t \in Txn :
    status[n][t] # "new" => n \in Readers(t) /\ NextHere(n, t)

RunOrder ==
  \A n \in Node, s, t \in Txn :
    s < t /\ Conflict(n, s, t) /\ status[n][t] \in {"active", "done"} => status[n][s] = "done"

(* The transactions that have written k, and the last of a set of them.    *)
Written(k) == {s \in Txn : k \in ReadWriteSet[s] /\ status[Home[k]][s] = "done"}
Latest(S) == Max({0} \cup S)

(* A key is what the serial execution makes of it up to the last           *)
(* transaction that has written it here.                                   *)
StoredSerially ==
  \A k \in Key :
    /\ storage[k] = SerialStore[Latest(Written(k))][k].rows
    /\ buffer[k] = SerialStore[Latest(Written(k))][k].bufs

(* What is known of a transaction's reads, at a node or in a message.      *)
Serial(t, values) ==
  /\ DOMAIN values \subseteq Keys(t)
  /\ \A k \in DOMAIN values : values[k] = SerialRead(k, t)

ReadsSerial ==
  /\ \A n \in Node, t \in Txn : Serial(t, objects[n][t])
  /\ \A m \in messages : Serial(m.txn, m.values)

DoneIsComplete ==
  \A n \in Node, t \in Txn :
    n \in Writers(t) /\ status[n][t] = "done" => DOMAIN objects[n][t] = Keys(t)

Statuses == status \in [Node -> [Txn -> {"new", "locked", "active", "done"}]]
Shape == objects = [n \in Node |-> [t \in Txn |-> objects[n][t]]]

ExecutionInv ==
  /\ TypeOK /\ Shape
  /\ LockOrder /\ RunOrder
  /\ StoredSerially /\ ReadsSerial /\ DoneIsComplete

-----------------------------------------------------------------------------
(***************************************************************************)
(* The serial execution.                                                   *)
(***************************************************************************)

LEMMA LatestProperties ==
  ASSUME ExecutionAssumption, NEW S \in SUBSET Txn
  PROVE  /\ Latest(S) \in {0} \cup S
         /\ \A s \in S : s <= Latest(S)
         /\ Latest(S) \in Value
<1> DEFINE U == {0} \cup S
<1>1. Txn \in SUBSET Nat /\ IsFiniteSet(Txn)
  BY FS_Interval DEF Txn, ExecutionAssumption
<1>2. U \in SUBSET Nat /\ U # {}
  BY <1>1
<1>3. IsFiniteSet(S)
  BY <1>1, FS_Subset
<1>4. U = S \cup {0}
  OBVIOUS
<1>5. U \subseteq Value
  BY DEF Txn, ExecutionAssumption, Value
<1> HIDE DEF U
<1>6. IsFiniteSet(U)
  BY <1>3, <1>4, FS_AddElement
<1>7. Max(U) \in U /\ \A s \in U : s <= Max(U)
  BY <1>2, <1>6, MaxProperties
<1> QED
  BY <1>4, <1>5, <1>7 DEF Latest, U

(* The serial execution is built one transaction at a time: there is such  *)
(* a function of the length of the prefix, so CHOOSE has one to choose.    *)
Prefix(f, n) ==
  f = [t \in 0..n |-> IF t = 0 THEN EmptyStore ELSE StoreAfter(f[t - 1], t)]

LEMMA PrefixExists ==
  ASSUME NEW m \in Nat PROVE \E f : Prefix(f, m)
<1> DEFINE Bad == {n \in 0..m : ~ \E f : Prefix(f, n)}
<1> SUFFICES ASSUME Bad # {} PROVE FALSE
  OBVIOUS
<1>1. PICK n \in Bad : \A i \in Bad : n <= i
  <2>1. Bad \in SUBSET Nat
    OBVIOUS
  <2> HIDE DEF Bad
  <2> QED
    BY <2>1, MinProperties
<1>2. n \in 0..m /\ ~ \E f : Prefix(f, n)
  BY <1>1
<1>3. CASE n = 0
  <2>1. Prefix([t \in 0..0 |-> EmptyStore], 0)
    BY DEF Prefix
  <2> QED
    BY <1>2, <1>3, <2>1
<1>4. CASE n # 0
  <2>1. n - 1 \in 0..m /\ n - 1 \notin Bad
    BY <1>1, <1>2, <1>4
  <2>2. PICK g : Prefix(g, n - 1)
    BY <2>1
  <2> DEFINE f == [t \in 0..n |-> IF t = n THEN StoreAfter(g[n - 1], n) ELSE g[t]]
  <2>3. \A t \in 0..(n - 1) : g[t] = IF t = 0 THEN EmptyStore ELSE StoreAfter(g[t - 1], t)
    BY <2>2 DEF Prefix
  <2>4. \A t \in 0..n : f[t] = IF t = n THEN StoreAfter(g[n - 1], n) ELSE g[t]
    OBVIOUS
  <2>5. \A t \in 0..n : f[t] = IF t = 0 THEN EmptyStore ELSE StoreAfter(f[t - 1], t)
    <3> HIDE DEF f
    <3> SUFFICES ASSUME NEW t \in 0..n
                 PROVE  f[t] = IF t = 0 THEN EmptyStore ELSE StoreAfter(f[t - 1], t)
      OBVIOUS
    <3>1. CASE t = n
      <4>1. f[n - 1] = g[n - 1]
        BY <1>2, <1>4, <2>4
      <4> QED
        BY <1>4, <2>4, <3>1, <4>1
    <3>2. CASE t # n /\ t # 0
      <4>1. f[t - 1] = g[t - 1] /\ t \in 0..(n - 1)
        BY <1>2, <2>4, <3>2
      <4> QED
        BY <2>3, <2>4, <3>2, <4>1
    <3>3. CASE t = 0 /\ t # n
      BY <1>2, <2>3, <2>4, <3>3
    <3> QED
      BY <3>1, <3>2, <3>3
  <2>6. f = [t \in 0..n |-> f[t]]
    OBVIOUS
  <2> HIDE DEF f
  <2>7. Prefix(f, n)
    BY <2>5, <2>6 DEF Prefix
  <2> QED
    BY <1>2, <2>7
<1> QED
  BY <1>3, <1>4

LEMMA SerialSteps ==
  ASSUME ExecutionAssumption
  PROVE  /\ SerialStore[0] = EmptyStore
         /\ \A t \in Txn : SerialStore[t] = StoreAfter(SerialStore[t - 1], t)
<1>1. LastTxn \in Nat
  BY DEF ExecutionAssumption
<1>2. PICK f : Prefix(f, LastTxn)
  BY <1>1, PrefixExists
<1>3. SerialStore = [t \in 0..LastTxn |->
                       IF t = 0 THEN EmptyStore ELSE StoreAfter(SerialStore[t - 1], t)]
  BY <1>2 DEF SerialStore, Prefix
<1>4. \A t \in 0..LastTxn : SerialStore[t] =
        IF t = 0 THEN EmptyStore ELSE StoreAfter(SerialStore[t - 1], t)
  BY <1>3
<1> QED
  BY <1>1, <1>4 DEF Txn

(* The rows and buffers of a key.                                          *)
WellFormed(rows, bufs) ==
  /\ IsFiniteSet(rows)
  /\ \A row \in rows : row.version \in Int /\ -1 <= row.version /\ row.buf \in Value
  /\ \E row \in rows : row.version = -1
  /\ bufs \in [Value -> Value]

LEMMA NewestExists ==
  ASSUME NEW rows, NEW bufs, WellFormed(rows, bufs), NEW id \in Nat
  PROVE  /\ NewestBelow(rows, id) \in rows
         /\ NewestBelow(rows, id).version < id
         /\ \A row \in rows : row.version < id => row.version <= NewestBelow(rows, id).version
<1> DEFINE older == {row \in rows : row.version < id}
           f == [row \in older |-> row.version + 1]
           counts == {f[row] : row \in older}
<1>1. IsFiniteSet(older)
  BY FS_Subset DEF WellFormed
<1>2. counts \in SUBSET Nat /\ counts # {}
  <2>1. \A row \in older : f[row] \in Nat
    BY DEF WellFormed
  <2>2. \E row \in older : TRUE
    BY DEF WellFormed
  <2> HIDE DEF older, f
  <2> QED
    BY <2>1, <2>2
<1>3. IsFiniteSet(counts)
  <2>1. f \in Surjection(older, counts)
    BY DEF Surjection
  <2> HIDE DEF older, f, counts
  <2> QED
    BY <1>1, <2>1, FS_Surjection
<1>4. PICK c \in counts : \A d \in counts : d <= c
  <2> HIDE DEF counts
  <2> QED
    BY <1>2, <1>3, GreatestExists
<1>5. PICK row \in older : c = row.version + 1
  BY <1>4
<1>6. \A other \in older : other.version <= row.version
  <2> SUFFICES ASSUME NEW other \in older PROVE other.version <= row.version
    OBVIOUS
  <2>1. other.version + 1 <= row.version + 1
    BY <1>4, <1>5
  <2>2. other.version \in Int /\ row.version \in Int
    BY DEF WellFormed
  <2> QED
    BY <2>1, <2>2
<1>7. NewestBelow(rows, id) \in older /\ \A other \in older : other.version <= NewestBelow(rows, id).version
  BY <1>6 DEF NewestBelow
<1> QED
  BY <1>7

LEMMA AfterWellFormed ==
  ASSUME ExecutionAssumption, NEW rows, NEW bufs, WellFormed(rows, bufs), NEW t \in Txn
  PROVE  /\ Target(rows, t) \in Value
         /\ WellFormed(RowsAfter(rows, t), BufsAfter(rows, bufs, t))
<1>1. Id[t] \in Nat /\ t \in Value
  BY DEF ExecutionAssumption, Injection, Txn, Value
<1>2. Target(rows, t) \in Value
  <2>1. NewestBelow(rows, Id[t]).buf \in Value
    BY <1>1, NewestExists DEF WellFormed
  <2> QED
    BY <1>1, <2>1 DEF Target
<1> DEFINE new == [version |-> Id[t], buf |-> Target(rows, t)]
<1>3. new.version = Id[t] /\ new.buf = Target(rows, t)
  OBVIOUS
<1>4. RowsAfter(rows, t) = rows \cup {new}
  BY DEF RowsAfter
<1> HIDE DEF new
<1>5. IsFiniteSet(rows \cup {new})
  BY FS_AddElement DEF WellFormed
<1>6. BufsAfter(rows, bufs, t) \in [Value -> Value]
  BY <1>1, <1>2 DEF BufsAfter, WellFormed
<1>7. \A row \in rows \cup {new} :
        row.version \in Int /\ -1 <= row.version /\ row.buf \in Value
  BY <1>1, <1>2, <1>3 DEF WellFormed
<1> QED
  BY <1>2, <1>4, <1>5, <1>6, <1>7 DEF WellFormed

LEMMA StepOfKey ==
  ASSUME ExecutionAssumption, NEW t \in Txn, NEW k \in Key
  PROVE  /\ k \notin ReadWriteSet[t] => SerialStore[t][k] = SerialStore[t - 1][k]
         /\ k \in ReadWriteSet[t] =>
              /\ SerialStore[t][k].rows = RowsAfter(SerialStore[t - 1][k].rows, t)
              /\ SerialStore[t][k].bufs =
                   BufsAfter(SerialStore[t - 1][k].rows, SerialStore[t - 1][k].bufs, t)
<1>1. SerialStore[t] = StoreAfter(SerialStore[t - 1], t)
  BY SerialSteps
<1> QED
  BY <1>1 DEF StoreAfter

LEMMA SerialWellFormed ==
  ASSUME ExecutionAssumption, NEW i \in 0..LastTxn, NEW k \in Key
  PROVE  WellFormed(SerialStore[i][k].rows, SerialStore[i][k].bufs)
<1> DEFINE Good(j) == WellFormed(SerialStore[j][k].rows, SerialStore[j][k].bufs)
           Bad == {j \in 0..LastTxn : ~ Good(j)}
<1> SUFFICES ASSUME Bad # {} PROVE FALSE
  OBVIOUS
<1>0. LastTxn \in Nat
  BY DEF ExecutionAssumption
<1>1. PICK n \in Bad : \A j \in Bad : n <= j
  <2>1. Bad \in SUBSET Nat
    OBVIOUS
  <2> HIDE DEF Bad
  <2> QED
    BY <2>1, MinProperties
<1>2. n \in 0..LastTxn /\ ~ Good(n)
  BY <1>1
<1>3. CASE n = 0
  <2>1. SerialStore[0][k] = [rows |-> Loaded, bufs |-> Blank]
    BY SerialSteps DEF EmptyStore
  <2>2. IsFiniteSet(Loaded)
    BY FS_Singleton DEF Loaded
  <2>3. \A row \in Loaded : row.version = -1 /\ row.buf = 0
    BY DEF Loaded
  <2>4. \E row \in Loaded : row.version = -1
    BY DEF Loaded
  <2>5. Blank \in [Value -> Value] /\ 0 \in Value
    BY <1>0 DEF Blank, Value
  <2>6. WellFormed(Loaded, Blank)
    BY <2>2, <2>3, <2>4, <2>5 DEF WellFormed
  <2> QED
    BY <1>2, <1>3, <2>1, <2>6
<1>4. CASE n # 0
  <2>1. n \in Txn /\ n - 1 \in 0..LastTxn /\ n - 1 \notin Bad
    BY <1>0, <1>1, <1>2, <1>4 DEF Txn
  <2>2. Good(n - 1)
    BY <2>1
  <2>3. CASE k \in ReadWriteSet[n]
    BY <1>2, <2>1, <2>2, <2>3, StepOfKey, AfterWellFormed
  <2>4. CASE k \notin ReadWriteSet[n]
    BY <1>2, <2>1, <2>2, <2>4, StepOfKey
  <2> QED
    BY <2>3, <2>4
<1> QED
  BY <1>3, <1>4

(* Transactions that do not write a key leave it as it was.                *)
LEMMA SameWithoutWriters ==
  ASSUME ExecutionAssumption, NEW k \in Key, NEW i \in 0..LastTxn, NEW j \in 0..LastTxn, i <= j,
         \A s \in Txn : i < s /\ s <= j => k \notin ReadWriteSet[s]
  PROVE  SerialStore[j][k] = SerialStore[i][k]
<1> DEFINE Bad == {m \in i..j : SerialStore[m][k] # SerialStore[i][k]}
<1> SUFFICES ASSUME Bad # {} PROVE FALSE
  OBVIOUS
<1>0. LastTxn \in Nat
  BY DEF ExecutionAssumption
<1>1. PICK n \in Bad : \A m \in Bad : n <= m
  <2>1. Bad \in SUBSET Nat
    OBVIOUS
  <2> HIDE DEF Bad
  <2> QED
    BY <2>1, MinProperties
<1>2. n \in i..j /\ SerialStore[n][k] # SerialStore[i][k] /\ n # i
  BY <1>1
<1>3. n \in Txn /\ i < n /\ n <= j /\ n - 1 \in i..j
  BY <1>0, <1>2 DEF Txn
<1>4. SerialStore[n - 1][k] = SerialStore[i][k]
  BY <1>1, <1>3
<1>5. k \notin ReadWriteSet[n]
  BY <1>3
<1> QED
  BY <1>2, <1>3, <1>4, <1>5, StepOfKey

(* What t finds is what the last writer before it left.                    *)
LEMMA FoundByNext ==
  ASSUME ExecutionAssumption, NEW k \in Key, NEW j \in 0..LastTxn,
         NEW W, W = {s \in Txn : s <= j /\ k \in ReadWriteSet[s]}
  PROVE  SerialStore[j][k] = SerialStore[Latest(W)][k]
<1>1. W \in SUBSET Txn
  OBVIOUS
<1>2. Latest(W) \in {0} \cup W /\ (\A s \in W : s <= Latest(W)) /\ Latest(W) \in 0..LastTxn
  BY <1>1, LatestProperties DEF Value
<1>3. Latest(W) <= j
  BY <1>2
<1>4. ASSUME NEW s \in Txn, Latest(W) < s, s <= j
      PROVE  k \notin ReadWriteSet[s]
  <2>1. s \notin W
    BY <1>2, <1>4 DEF Txn
  <2> QED
    BY <1>4, <2>1
<1> HIDE DEF Latest
<1> QED
  BY <1>2, <1>3, <1>4, SameWithoutWriters

(* The writers of k among the first j transactions.                        *)
WrittenBy(k, j) == {s \in Txn : s <= j /\ k \in ReadWriteSet[s]}

Newest(row, rows) == row \in rows /\ \A other \in rows : other.version <= row.version

(* Where ids increase, a key has the version it was loaded with and those  *)
(* of its writers, and the newest one leads to what was written last.      *)
OrderedKey(k, j) ==
  /\ \A row \in SerialStore[j][k].rows :
       row.version = -1 \/ \E s \in WrittenBy(k, j) : row.version = Id[s]
  /\ \A row \in SerialStore[j][k].rows :
       Newest(row, SerialStore[j][k].rows) =>
         SerialStore[j][k].bufs[row.buf] = Latest(WrittenBy(k, j))

LEMMA OrderedWrite ==
  ASSUME ExecutionAssumption, NEW k \in Key, NEW t \in Txn, IdsOrdered(k, t),
         NEW n \in Txn, n < t, k \in ReadWriteSet[n], OrderedKey(k, n - 1)
  PROVE  OrderedKey(k, n)
<1> DEFINE before == SerialStore[n - 1][k]
           target == Target(before.rows, n)
           new == [version |-> Id[n], buf |-> target]
           rows == before.rows \cup {new}
           bufs == [before.bufs EXCEPT ![target] = n]
<1>1. SerialStore[n][k].rows = rows /\ SerialStore[n][k].bufs = bufs
  BY StepOfKey DEF RowsAfter, BufsAfter
<1>2. n - 1 \in 0..LastTxn /\ n \in Value /\ \A s \in Txn : s \in Int /\ s > 0 /\ Id[s] \in Nat
  BY DEF ExecutionAssumption, Txn, Injection, Value
<1>3. WellFormed(before.rows, before.bufs)
  BY <1>2, SerialWellFormed
<1>4. target \in Value
  BY <1>3, AfterWellFormed
<1>5. new.version = Id[n] /\ new.buf = target
  OBVIOUS
<1>6. \A s \in WrittenBy(k, n - 1) : Id[s] < Id[n]
  <2> SUFFICES ASSUME NEW s \in WrittenBy(k, n - 1) PROVE Id[s] < Id[n]
    OBVIOUS
  <2>1. s \in Txn /\ s < n /\ k \in ReadWriteSet[s]
    BY <1>2 DEF WrittenBy
  <2>2. s \in Before(k, t) /\ n \in Before(k, t)
    BY <1>2, <2>1 DEF Before
  <2> QED
    BY <2>1, <2>2 DEF IdsOrdered
<1>7. WrittenBy(k, n) = WrittenBy(k, n - 1) \cup {n}
  BY <1>2 DEF WrittenBy
<1>8. \A row \in before.rows : row.version < Id[n]
  BY <1>2, <1>6 DEF OrderedKey, WrittenBy
<1>9. bufs[target] = n
  BY <1>3, <1>4 DEF WellFormed
<1>10. Latest(WrittenBy(k, n)) = n
  <2>1. WrittenBy(k, n) \in SUBSET Txn /\ n \in WrittenBy(k, n) /\ \A s \in WrittenBy(k, n) : s <= n
    BY <1>2 DEF WrittenBy
  <2>2. Latest(WrittenBy(k, n)) \in {0} \cup WrittenBy(k, n) /\ n <= Latest(WrittenBy(k, n))
    BY <2>1, LatestProperties
  <2> QED
    BY <1>2, <2>1, <2>2
<1>11. \A row \in before.rows : row.version \in Int
  BY <1>3 DEF WellFormed
<1>12. \A row \in before.rows :
         row.version = -1 \/ \E s \in WrittenBy(k, n - 1) : row.version = Id[s]
  BY DEF OrderedKey
<1> HIDE DEF before, target, new
<1>13. \A row \in rows : row.version = -1 \/ \E s \in WrittenBy(k, n) : row.version = Id[s]
  BY <1>5, <1>7, <1>12
<1>14. \A row \in rows : Newest(row, rows) => row = new
  <2> SUFFICES ASSUME NEW row \in before.rows, Newest(row, rows) PROVE FALSE
    OBVIOUS
  <2>1. Id[n] <= row.version
    BY <1>5 DEF Newest
  <2> QED
    BY <1>2, <1>8, <1>11, <2>1
<1>15. \A row \in rows : Newest(row, rows) => bufs[row.buf] = Latest(WrittenBy(k, n))
  BY <1>5, <1>9, <1>10, <1>14
<1> QED
  BY <1>1, <1>13, <1>15 DEF OrderedKey

LEMMA OrderedKeys ==
  ASSUME ExecutionAssumption, NEW k \in Key, NEW t \in Txn, IdsOrdered(k, t),
         NEW i \in 0..LastTxn, i < t
  PROVE  OrderedKey(k, i)
<1> DEFINE Bad == {j \in 0..LastTxn : j < t /\ ~ OrderedKey(k, j)}
<1> SUFFICES ASSUME Bad # {} PROVE FALSE
  OBVIOUS
<1>0. LastTxn \in Nat
  BY DEF ExecutionAssumption
<1>1. PICK n \in Bad : \A j \in Bad : n <= j
  <2>1. Bad \in SUBSET Nat
    OBVIOUS
  <2> HIDE DEF Bad
  <2> QED
    BY <2>1, MinProperties
<1>2. n \in 0..LastTxn /\ n < t /\ ~ OrderedKey(k, n)
  BY <1>1
<1>3. CASE n = 0
  <2>1. SerialStore[0][k] = [rows |-> Loaded, bufs |-> Blank]
    BY SerialSteps DEF EmptyStore
  <2>2. \A row \in Loaded : row.version = -1 /\ row.buf = 0
    BY DEF Loaded
  <2>3. Blank[0] = 0
    BY <1>0 DEF Blank
  <2>4. WrittenBy(k, 0) = {}
    BY DEF WrittenBy, Txn
  <2>5. Latest({}) = 0
    BY LatestProperties
  <2>6. SerialStore[0][k].rows = Loaded /\ SerialStore[0][k].bufs = Blank
    BY <2>1
  <2>7. \A row \in Loaded : Blank[row.buf] = 0
    BY <2>2, <2>3
  <2>8. OrderedKey(k, 0)
    BY <2>2, <2>4, <2>5, <2>6, <2>7 DEF OrderedKey
  <2> QED
    BY <1>2, <1>3, <2>8
<1>4. CASE n # 0
  <2>1. n \in Txn /\ n - 1 \in 0..LastTxn /\ n - 1 < t /\ n - 1 < n
    BY <1>0, <1>2, <1>4 DEF Txn
  <2>2. OrderedKey(k, n - 1)
    BY <1>1, <2>1
  <2>3. CASE k \in ReadWriteSet[n]
    BY <1>2, <2>1, <2>2, <2>3, OrderedWrite
  <2>4. CASE k \notin ReadWriteSet[n]
    <3>1. WrittenBy(k, n) = WrittenBy(k, n - 1)
      BY <2>1, <2>4 DEF WrittenBy, Txn
    <3>2. SerialStore[n][k] = SerialStore[n - 1][k]
      BY <2>1, <2>4, StepOfKey
    <3> QED
      BY <1>2, <2>2, <3>1, <3>2 DEF OrderedKey
  <2> QED
    BY <2>3, <2>4
<1> QED
  BY <1>3, <1>4

LEMMA OrderedRead ==
  ASSUME ExecutionAssumption, NEW k \in Key, NEW t \in Txn, IdsOrdered(k, t)
  PROVE  SerialRead(k, t) = LastWriter(k, t)
<1> DEFINE rows == SerialStore[t - 1][k].rows
           bufs == SerialStore[t - 1][k].bufs
           W == WrittenBy(k, t - 1)
<1>1. t - 1 \in 0..LastTxn /\ t - 1 < t /\ \A s \in Txn : s \in Int /\ Id[s] \in Nat
  BY DEF ExecutionAssumption, Txn, Injection
<1>2. WellFormed(rows, bufs) /\ OrderedKey(k, t - 1)
  BY <1>1, SerialWellFormed, OrderedKeys
<1>3. W = Before(k, t)
  BY <1>1 DEF WrittenBy, Before
<1>4. \A s \in W : Id[s] < Id[t]
  BY <1>3 DEF IdsOrdered, Before
<1>5. \A row \in rows : row.version < Id[t]
  BY <1>1, <1>2, <1>4 DEF OrderedKey, WrittenBy
<1>6. /\ \A row \in rows : Newest(row, rows) => bufs[row.buf] = Latest(W)
      /\ SerialRead(k, t) = bufs[NewestBelow(rows, Id[t]).buf]
  BY <1>2 DEF OrderedKey, SerialRead, Lookup
<1> HIDE DEF rows, bufs, W
<1>7. Newest(NewestBelow(rows, Id[t]), rows)
  BY <1>1, <1>2, <1>5, NewestExists DEF Newest
<1>8. LastWriter(k, t) = Latest(W)
  BY <1>3 DEF LastWriter, Latest
<1> QED
  BY <1>6, <1>7, <1>8 DEF Newest

-----------------------------------------------------------------------------
(***************************************************************************)
(* The nodes.                                                              *)
(***************************************************************************)

(* Transactions that share a key conflict where the key is stored, if one  *)
(* of them writes it.                                                      *)
LEMMA SharedKeyConflicts ==
  ASSUME ExecutionAssumption, NEW s \in Txn, NEW t \in Txn, NEW k \in Keys(s) \cap Keys(t),
         k \in ReadWriteSet[s] \/ k \in ReadWriteSet[t]
  PROVE  /\ k \in Key /\ Home[k] \in Node
         /\ Conflict(Home[k], s, t) /\ Conflict(Home[k], t, s)
<1>1. k \in Key /\ Home[k] \in Node
  BY DEF ExecutionAssumption, Keys
<1>2. k \in LocalKeys(Home[k], s) /\ k \in LocalKeys(Home[k], t)
  BY DEF LocalKeys
<1> QED
  BY <1>1, <1>2 DEF Conflict

LEMMA ConflictMeansReader ==
  ASSUME NEW n \in Node, NEW s \in Txn, NEW t \in Txn, Conflict(n, s, t)
  PROVE  n \in Readers(s)
BY DEF Conflict, LocalKeys, Readers

(* t may go on: nothing it depends on is under way any more.               *)
MayRun(n, t) ==
  \/ status[n][t] = "active"
  \/ status[n][t] = "locked" /\ Granted(n, t)

LEMMA PredecessorsDone ==
  ASSUME ExecutionAssumption, TypeOK, LockOrder, RunOrder,
         NEW n \in Node, NEW t \in Txn, MayRun(n, t),
         NEW s \in Txn, s < t, Conflict(n, s, t)
  PROVE  status[n][s] = "done"
<1>1. CASE status[n][t] = "active"
  BY <1>1 DEF RunOrder
<1>2. CASE status[n][t] = "locked" /\ Granted(n, t)
  <2>1. status[n][s] \notin {"locked", "active"}
    BY <1>2 DEF Granted
  <2>2. n \in Readers(s)
    BY ConflictMeansReader
  <2>3. status[n][s] # "new"
    BY <1>2, <2>2 DEF LockOrder, NextHere
  <2>4. status[n][s] \in {"new", "locked", "active", "done"}
    BY DEF TypeOK
  <2> QED
    BY <2>1, <2>3, <2>4
<1> QED
  BY <1>1, <1>2 DEF MayRun

(* So the writers of its keys that are done are those before it.           *)
LEMMA WrittenIsBefore ==
  ASSUME ExecutionAssumption, TypeOK, LockOrder, RunOrder,
         NEW t \in Txn, NEW k \in Keys(t), MayRun(Home[k], t)
  PROVE  Written(k) = Before(k, t)
<1>0. k \in Key /\ Home[k] \in Node
  BY DEF ExecutionAssumption, Keys
<1>1. ASSUME NEW s \in Txn, s < t, k \in ReadWriteSet[s]
      PROVE  status[Home[k]][s] = "done"
  <2>1. k \in Keys(s)
    BY <1>1 DEF Keys
  <2>2. Conflict(Home[k], s, t)
    BY <1>1, <2>1, SharedKeyConflicts
  <2> QED
    BY <1>0, <1>1, <2>2, PredecessorsDone
<1>2. ASSUME NEW s \in Txn, k \in ReadWriteSet[s], status[Home[k]][s] = "done"
      PROVE  s < t
  <2>1. s # t
    BY <1>2 DEF MayRun
  <2>2. k \in Keys(s)
    BY <1>2 DEF Keys
  <2>3. Conflict(Home[k], t, s)
    BY <1>2, <2>2, SharedKeyConflicts
  <2>4. ~ (t < s)
    BY <1>0, <1>2, <2>3 DEF RunOrder, MayRun
  <2>5. s \in Int /\ t \in Int
    BY DEF Txn, ExecutionAssumption
  <2> QED
    BY <2>1, <2>4, <2>5
<1> QED
  BY <1>1, <1>2 DEF Written, Before

-----------------------------------------------------------------------------
(* What is read: what the transactions before it leave.                    *)
LEMMA WritersAreTxns == ASSUME NEW k PROVE Written(k) \in SUBSET Txn
BY DEF Written

LEMMA SerialReadValue ==
  ASSUME ExecutionAssumption, NEW k \in Key, NEW t \in Txn
  PROVE  SerialRead(k, t) \in Value
<1> DEFINE rows == SerialStore[t - 1][k].rows
           bufs == SerialStore[t - 1][k].bufs
<1>1. t - 1 \in 0..LastTxn /\ Id[t] \in Nat
  BY DEF ExecutionAssumption, Txn, Injection
<1>2. WellFormed(rows, bufs)
  BY <1>1, SerialWellFormed
<1>3. SerialRead(k, t) = bufs[NewestBelow(rows, Id[t]).buf]
  BY DEF SerialRead, Lookup
<1> HIDE DEF rows, bufs
<1>4. NewestBelow(rows, Id[t]) \in rows
  BY <1>1, <1>2, NewestExists
<1> QED
  BY <1>2, <1>3, <1>4 DEF WellFormed

LEMMA StoredForNext ==
  ASSUME ExecutionAssumption, ExecutionInv,
         NEW t \in Txn, NEW k \in Keys(t), MayRun(Home[k], t)
  PROVE  /\ storage[k] = SerialStore[t - 1][k].rows
         /\ buffer[k] = SerialStore[t - 1][k].bufs
<1>1. k \in Key
  BY DEF ExecutionAssumption, Keys
<1>2. Written(k) = Before(k, t)
  BY WrittenIsBefore DEF ExecutionInv
<1>3. t - 1 \in 0..LastTxn /\ Before(k, t) = {s \in Txn : s <= t - 1 /\ k \in ReadWriteSet[s]}
  BY DEF Before, Txn, ExecutionAssumption
<1>4. SerialStore[t - 1][k] = SerialStore[Latest(Before(k, t))][k]
  BY <1>1, <1>3, FoundByNext
<1> QED
  BY <1>1, <1>2, <1>4 DEF ExecutionInv, StoredSerially

LEMMA LocalReadsSerial ==
  ASSUME ExecutionAssumption, ExecutionInv,
         NEW n \in Node, NEW t \in Txn, MayRun(n, t)
  PROVE  Serial(t, LocalReads(n, t))
<1>1. DOMAIN LocalReads(n, t) = LocalKeys(n, t)
  BY DEF LocalReads
<1>2. ASSUME NEW k \in LocalKeys(n, t)
      PROVE  LocalReads(n, t)[k] = SerialRead(k, t)
  <2>1. k \in Keys(t) /\ Home[k] = n
    BY DEF LocalKeys
  <2>2. /\ storage[k] = SerialStore[t - 1][k].rows
        /\ buffer[k] = SerialStore[t - 1][k].bufs
    BY <2>1, StoredForNext
  <2> QED
    BY <2>2 DEF LocalReads, SerialRead
<1> QED
  BY <1>1, <1>2 DEF Serial, LocalKeys

LEMMA DisjointCardinality ==
  ASSUME NEW S, NEW T, IsFiniteSet(S), IsFiniteSet(T), S \cap T = {}
  PROVE  IsFiniteSet(S \cup T) /\ Cardinality(S \cup T) = Cardinality(S) + Cardinality(T)
<1>1. Cardinality(S \cap T) = 0
  BY FS_EmptySet
<1>2. Cardinality(S) \in Nat /\ Cardinality(T) \in Nat
  BY FS_CardinalityType
<1>3. /\ IsFiniteSet(S \cup T)
      /\ Cardinality(S \cup T) = Cardinality(S) + Cardinality(T) - Cardinality(S \cap T)
  BY FS_Union
<1> QED
  BY <1>1, <1>2, <1>3

(* Objects are counted, but the sets are what matters.                     *)
LEMMA ReadyHasAll ==
  ASSUME ExecutionAssumption, NEW t \in Txn, NEW objs,
         DOMAIN objs \subseteq Keys(t), ReadyToExecute(t, objs)
  PROVE  DOMAIN objs = Keys(t)
<1>1. ReadSet[t] \in SUBSET Key /\ ReadWriteSet[t] \in SUBSET Key /\ IsFiniteSet(Key)
      /\ ReadSet[t] \cap ReadWriteSet[t] = {}
  BY DEF ExecutionAssumption
<1> DEFINE R == ReadSet[t]
           W == ReadWriteSet[t]
<1>2. IsFiniteSet(R) /\ IsFiniteSet(W) /\ R \cap W = {}
  BY <1>1, FS_Subset
<1>3. Keys(t) = R \cup W
  BY DEF Keys
<1> HIDE DEF R, W
<1>4. IsFiniteSet(R \cup W) /\ Cardinality(R \cup W) = Cardinality(R) + Cardinality(W)
  BY <1>2, DisjointCardinality
<1>5. Cardinality(DOMAIN objs) = Cardinality(R) + Cardinality(W)
  BY DEF ReadyToExecute, R, W
<1> QED
  BY <1>3, <1>4, <1>5, FS_Subset

(* And the other way round.                                                *)
LEMMA KeysReady ==
  ASSUME ExecutionAssumption, NEW t \in Txn, NEW objs, DOMAIN objs = Keys(t)
  PROVE  ReadyToExecute(t, objs)
<1>1. ReadSet[t] \in SUBSET Key /\ ReadWriteSet[t] \in SUBSET Key /\ IsFiniteSet(Key)
      /\ ReadSet[t] \cap ReadWriteSet[t] = {}
  BY DEF ExecutionAssumption
<1> DEFINE R == ReadSet[t]
           W == ReadWriteSet[t]
<1>2. IsFiniteSet(R) /\ IsFiniteSet(W) /\ R \cap W = {}
  BY <1>1, FS_Subset
<1>3. Keys(t) = R \cup W
  BY DEF Keys
<1> HIDE DEF R, W
<1>4. Cardinality(R \cup W) = Cardinality(R) + Cardinality(W)
  BY <1>2, DisjointCardinality
<1> QED
  BY <1>3, <1>4 DEF ReadyToExecute, R, W

-----------------------------------------------------------------------------
(* What a worker's step changes: the state of one transaction at one node, *)
(* and, when it executes there, the keys written.                          *)
LEMMA ProceedMoves ==
  ASSUME Statuses, Shape, NEW n \in Node, NEW t \in Txn, NEW objs, Proceed(n, t, objs)
  PROVE  /\ status' \in [Node -> [Txn -> {"new", "locked", "active", "done"}]]
         /\ status'[n][t] \in {"active", "done"}
         /\ \A m \in Node, u \in Txn : m # n \/ u # t => status'[m][u] = status[m][u]
         /\ Shape' /\ objects'[n][t] = objs
         /\ \A m \in Node, u \in Txn : m # n \/ u # t => objects'[m][u] = objects[m][u]
         /\ n \in Writers(t) /\ status'[n][t] = "done" =>
              Execute(n, t) /\ ReadyToExecute(t, objs)
         /\ n \notin Writers(t) \/ status'[n][t] # "done" => UNCHANGED <<storage, buffer>>
<1>1. PICK st \in {"active", "done"} : status' = [status EXCEPT ![n][t] = st]
  BY DEF Proceed
<1>2. /\ status' \in [Node -> [Txn -> {"new", "locked", "active", "done"}]]
      /\ status'[n][t] = st
      /\ \A m \in Node, u \in Txn : m # n \/ u # t => status'[m][u] = status[m][u]
  BY <1>1 DEF Statuses
<1>3. objects' = [objects EXCEPT ![n][t] = objs]
  BY DEF Proceed
<1>4. /\ Shape' /\ objects'[n][t] = objs
      /\ \A m \in Node, u \in Txn : m # n \/ u # t => objects'[m][u] = objects[m][u]
  <2>1. \A m \in Node : objects[m] = [u \in Txn |-> objects[m][u]]
    BY DEF Shape
  <2>2. objects = [m \in Node |-> objects[m]]
    BY DEF Shape
  <2>3. objects' = [m \in Node |-> IF m = n THEN [objects[n] EXCEPT ![t] = objs] ELSE objects[m]]
    BY <1>3, <2>2
  <2>4. \A m \in Node : objects'[m] = [u \in Txn |-> objects'[m][u]]
    BY <2>1, <2>3
  <2>5. Shape'
    BY <2>3, <2>4 DEF Shape
  <2> QED
    BY <2>1, <2>3, <2>5
<1>5. CASE n \in Writers(t) /\ ReadyToExecute(t, objs)
  BY <1>2, <1>4, <1>5 DEF Proceed
<1>6. CASE n \in Writers(t) /\ ~ ReadyToExecute(t, objs)
  <2>1. status' = [status EXCEPT ![n][t] = "active"] /\ UNCHANGED <<storage, buffer>>
    BY <1>6 DEF Proceed
  <2>2. status'[n][t] = "active"
    BY <2>1 DEF Statuses
  <2> QED
    BY <1>2, <1>4, <2>1, <2>2
<1>7. CASE n \notin Writers(t)
  BY <1>2, <1>4, <1>7 DEF Proceed
<1> QED
  BY <1>5, <1>6, <1>7

LEMMA ProceedEffect ==
  ASSUME TypeOK, Shape, NEW n \in Node, NEW t \in Txn, NEW objs, Proceed(n, t, objs)
  PROVE  /\ status' \in [Node -> [Txn -> {"new", "locked", "active", "done"}]]
         /\ status'[n][t] \in {"active", "done"}
         /\ \A m \in Node, u \in Txn : m # n \/ u # t => status'[m][u] = status[m][u]
         /\ Shape' /\ objects'[n][t] = objs
         /\ \A m \in Node, u \in Txn : m # n \/ u # t => objects'[m][u] = objects[m][u]
         /\ n \in Writers(t) /\ status'[n][t] = "done" =>
              Execute(n, t) /\ ReadyToExecute(t, objs)
         /\ n \notin Writers(t) \/ status'[n][t] # "done" => UNCHANGED <<storage, buffer>>
BY ProceedMoves DEF TypeOK, Statuses

LEMMA ProceedKeepsOrder ==
  ASSUME ExecutionAssumption, ExecutionInv,
         NEW n \in Node, NEW t \in Txn, NEW objs, MayRun(n, t), Proceed(n, t, objs)
  PROVE  LockOrder' /\ RunOrder'
<1>1. /\ status'[n][t] \in {"active", "done"}
      /\ \A m \in Node, u \in Txn : m # n \/ u # t => status'[m][u] = status[m][u]
  BY ProceedEffect DEF ExecutionInv
<1>2. status[n][t] \in {"active", "locked"}
  BY DEF MayRun
<1>3. \A m \in Node, u \in Txn : status'[m][u] = "new" <=> status[m][u] = "new"
  BY <1>1, <1>2
<1>4. LockOrder'
  BY <1>3 DEF ExecutionInv, LockOrder, NextHere
<1>5. ASSUME NEW m \in Node, NEW s \in Txn, NEW u \in Txn,
             s < u, Conflict(m, s, u), status'[m][u] \in {"active", "done"}
      PROVE  status'[m][s] = "done"
  <2>1. s # u
    BY <1>5 DEF Txn, ExecutionAssumption
  <2>2. CASE m = n /\ u = t
    <3>1. status[n][s] = "done"
      BY <1>5, <2>2, PredecessorsDone DEF ExecutionInv
    <3> QED
      BY <1>1, <2>1, <2>2, <3>1
  <2>3. CASE ~ (m = n /\ u = t)
    <3>1. status[m][s] = "done"
      BY <1>1, <1>5, <2>3 DEF ExecutionInv, RunOrder
    <3> QED
      BY <1>1, <1>2, <3>1
  <2> QED
    BY <2>2, <2>3
<1> QED
  BY <1>4, <1>5 DEF RunOrder

LEMMA WrittenAfterProceed ==
  ASSUME ExecutionAssumption, ExecutionInv,
         NEW n \in Node, NEW t \in Txn, NEW objs, MayRun(n, t), Proceed(n, t, objs),
         NEW k \in Key
  PROVE  Written(k)' =
           IF k \in ReadWriteSet[t] /\ Home[k] = n /\ status'[n][t] = "done"
           THEN Written(k) \cup {t} ELSE Written(k)
<1>1. \A m \in Node, u \in Txn : m # n \/ u # t => status'[m][u] = status[m][u]
  BY ProceedEffect DEF ExecutionInv
<1>2. Home[k] \in Node
  BY DEF ExecutionAssumption
<1>3. status[n][t] # "done"
  BY DEF MayRun
<1> QED
  BY <1>1, <1>2, <1>3 DEF Written

(* What a key is written with is what the serial execution makes of it.    *)
LEMMA ExecutedKey ==
  ASSUME ExecutionAssumption, ExecutionInv,
         NEW n \in Node, NEW t \in Txn, MayRun(n, t), Execute(n, t),
         NEW k \in ReadWriteSet[t], Home[k] = n
  PROVE  /\ storage'[k] = SerialStore[t][k].rows
         /\ buffer'[k] = SerialStore[t][k].bufs
         /\ Latest(Written(k) \cup {t}) = t
<1>1. k \in Key /\ k \in Keys(t)
  BY DEF ExecutionAssumption, Keys
<1>2. storage[k] = SerialStore[t - 1][k].rows /\ buffer[k] = SerialStore[t - 1][k].bufs
  BY <1>1, StoredForNext
<1>3. storage'[k] = RowsAfter(storage[k], t) /\ buffer'[k] = BufsAfter(storage[k], buffer[k], t)
  BY <1>1 DEF Execute
<1>4. /\ SerialStore[t][k].rows = RowsAfter(SerialStore[t - 1][k].rows, t)
      /\ SerialStore[t][k].bufs =
           BufsAfter(SerialStore[t - 1][k].rows, SerialStore[t - 1][k].bufs, t)
  BY <1>1, StepOfKey
<1>5. Latest(Written(k) \cup {t}) = t
  <2>1. Written(k) = Before(k, t)
    BY <1>1, WrittenIsBefore DEF ExecutionInv
  <2>2. \A s \in Written(k) : s < t
    BY <2>1 DEF Before
  <2> DEFINE W == Written(k) \cup {t}
  <2>3. W \in SUBSET Txn
    BY WritersAreTxns
  <2>4. Latest(W) \in {0} \cup W /\ t <= Latest(W)
    BY <2>3, LatestProperties
  <2>5. \A s \in Txn : s \in Int /\ s > 0
    BY DEF Txn, ExecutionAssumption
  <2>6. \A s \in W : s <= t
    BY <2>2, <2>3, <2>5
  <2> HIDE DEF W
  <2>7. Latest(W) \in Int /\ Latest(W) <= t
    BY <2>3, <2>4, <2>5, <2>6
  <2>8. Latest(W) = t
    BY <2>4, <2>5, <2>7
  <2> QED
    BY <2>8 DEF W
<1> QED
  BY <1>2, <1>3, <1>4, <1>5

LEMMA ProceedKeepsStored ==
  ASSUME ExecutionAssumption, ExecutionInv,
         NEW n \in Node, NEW t \in Txn, NEW objs, MayRun(n, t), Proceed(n, t, objs)
  PROVE  StoredSerially' /\ buffer' = [k \in Key |-> buffer'[k]]
<1>1. ASSUME NEW k \in Key
      PROVE  /\ storage'[k] = SerialStore[Latest(Written(k)')][k].rows
             /\ buffer'[k] = SerialStore[Latest(Written(k)')][k].bufs
  <2>1. CASE k \in ReadWriteSet[t] /\ Home[k] = n /\ status'[n][t] = "done"
    <3>1. n \in Writers(t)
      BY <2>1 DEF Writers
    <3>2. Execute(n, t)
      BY <2>1, <3>1, ProceedEffect DEF ExecutionInv
    <3>3. Written(k)' = Written(k) \cup {t}
      BY <2>1, WrittenAfterProceed
    <3>4. /\ storage'[k] = SerialStore[t][k].rows /\ buffer'[k] = SerialStore[t][k].bufs
          /\ Latest(Written(k) \cup {t}) = t
      <4>1. k \in ReadWriteSet[t] /\ Home[k] = n
        BY <2>1
      <4>2. ExecutionAssumption /\ ExecutionInv /\ MayRun(n, t) /\ Execute(n, t)
        BY <3>2
      <4> QED
        BY ONLY <4>1, <4>2, ExecutedKey, SMTT(30)
    <3> QED
      BY <3>3, <3>4
  <2>2. CASE ~ (k \in ReadWriteSet[t] /\ Home[k] = n /\ status'[n][t] = "done")
    <3>1. Written(k)' = Written(k)
      BY <2>2, WrittenAfterProceed
    <3>2. CASE n \in Writers(t) /\ status'[n][t] = "done"
      <4>1. Execute(n, t)
        BY <3>2, ProceedEffect DEF ExecutionInv
      <4>2. storage'[k] = storage[k] /\ buffer'[k] = buffer[k]
        BY <2>2, <3>2, <4>1 DEF Execute
      <4> QED
        BY <3>1, <4>2 DEF ExecutionInv, StoredSerially
    <3>3. CASE ~ (n \in Writers(t) /\ status'[n][t] = "done")
      <4>1. UNCHANGED <<storage, buffer>>
        BY <3>3, ProceedEffect DEF ExecutionInv
      <4> QED
        BY <3>1, <4>1 DEF ExecutionInv, StoredSerially
    <3> QED
      BY <3>2, <3>3
  <2> QED
    BY <2>1, <2>2
<1>2. StoredSerially'
  BY <1>1 DEF StoredSerially, Latest
<1>3. CASE Execute(n, t)
  BY <1>2, <1>3 DEF Execute
<1>4. CASE UNCHANGED buffer
  BY <1>2, <1>4 DEF ExecutionInv, TypeOK
<1> QED
  BY <1>2, <1>3, <1>4, ProceedEffect DEF ExecutionInv

LEMMA ProceedKeepsTypes ==
  ASSUME ExecutionAssumption, StoredSerially', buffer' = [k \in Key |-> buffer'[k]]
  PROVE  /\ \A k \in Key : \A row \in storage'[k] : row.version \in Int /\ row.buf \in Value
         /\ buffer' \in [Key -> [Value -> Value]]
<1>1. ASSUME NEW k \in Key
      PROVE  WellFormed(storage'[k], buffer'[k])
  <2> DEFINE i == Latest(Written(k)')
  <2>1. Written(k)' \in SUBSET Txn
    BY DEF Written
  <2>2. i \in 0..LastTxn
    BY <2>1, LatestProperties DEF Value
  <2>3. storage'[k] = SerialStore[i][k].rows /\ buffer'[k] = SerialStore[i][k].bufs
    BY DEF StoredSerially, Latest
  <2> HIDE DEF i
  <2> QED
    BY <2>2, <2>3, SerialWellFormed
<1> QED
  BY <1>1 DEF WellFormed

-----------------------------------------------------------------------------
(* A worker's step keeps the invariant, if what it knows and what is on    *)
(* its way afterwards is serial.                                           *)
LEMMA ProceedPreserves ==
  ASSUME ExecutionAssumption, ExecutionInv,
         NEW n \in Node, NEW t \in Txn, NEW objs, MayRun(n, t), Proceed(n, t, objs),
         Serial(t, objs),
         \A m \in messages' :
           /\ m.txn \in Txn /\ m.from \in Readers(m.txn) /\ m.to \in Writers(m.txn) \ {m.from}
           /\ Serial(m.txn, m.values)
  PROVE  ExecutionInv'
<1>1. LockOrder' /\ RunOrder'
  BY ProceedKeepsOrder
<1>2. StoredSerially' /\ buffer' = [k \in Key |-> buffer'[k]]
  BY ProceedKeepsStored
<1>9. /\ \A k \in Key : \A row \in storage'[k] : row.version \in Int /\ row.buf \in Value
      /\ buffer' \in [Key -> [Value -> Value]]
  BY <1>2, ProceedKeepsTypes
<1>3. /\ status' \in [Node -> [Txn -> {"new", "locked", "active", "done"}]]
      /\ \A m \in Node, u \in Txn : m # n \/ u # t => status'[m][u] = status[m][u]
      /\ Shape' /\ objects'[n][t] = objs
      /\ \A m \in Node, u \in Txn : m # n \/ u # t => objects'[m][u] = objects[m][u]
      /\ n \in Writers(t) /\ status'[n][t] = "done" => ReadyToExecute(t, objs)
  BY ProceedEffect DEF ExecutionInv
<1>4. \A m \in Node, u \in Txn : Serial(u, objects'[m][u])
  BY <1>3 DEF ExecutionInv, ReadsSerial
<1>5. ReadsSerial'
  BY <1>4 DEF ReadsSerial, Serial, SerialRead, Lookup, NewestBelow
<1>6. \A m \in Node, u \in Txn :
        /\ DOMAIN objects'[m][u] \subseteq Keys(u)
        /\ \A k \in DOMAIN objects'[m][u] : objects'[m][u][k] \in Value
  <2> SUFFICES ASSUME NEW m \in Node, NEW u \in Txn, NEW k \in DOMAIN objects'[m][u]
               PROVE  objects'[m][u][k] \in Value
    BY <1>4 DEF Serial
  <2>1. k \in Key
    BY <1>4 DEF Serial, Keys, ExecutionAssumption
  <2>2. objects'[m][u][k] = SerialRead(k, u)
    BY <1>4 DEF Serial
  <2> QED
    BY <2>1, <2>2, SerialReadValue
<1>7. TypeOK'
  BY <1>3, <1>6, <1>9 DEF TypeOK
<1>8. DoneIsComplete'
  <2> SUFFICES ASSUME NEW m \in Node, NEW u \in Txn, m \in Writers(u), status'[m][u] = "done"
               PROVE  DOMAIN objects'[m][u] = Keys(u)
    BY DEF DoneIsComplete
  <2>1. CASE m = n /\ u = t
    <3>1. ReadyToExecute(t, objs) /\ DOMAIN objs \subseteq Keys(t)
      BY <1>3, <2>1 DEF Serial
    <3> QED
      BY <1>3, <2>1, <3>1, ReadyHasAll
  <2>2. CASE m # n \/ u # t
    <3>1. status'[m][u] = status[m][u] /\ objects'[m][u] = objects[m][u]
      BY <1>3, <2>2
    <3>2. DoneIsComplete /\ status[m][u] = "done"
      BY <3>1 DEF ExecutionInv
    <3> QED
      BY <3>1, <3>2 DEF DoneIsComplete
  <2> QED
    BY <2>1, <2>2
<1> QED
  BY <1>1, <1>2, <1>3, <1>5, <1>7, <1>8 DEF ExecutionInv

LEMMA StartPreserves ==
  ASSUME ExecutionAssumption, ExecutionInv,
         NEW n \in Node, NEW t \in Txn, Start(n, t)
  PROVE  ExecutionInv'
<1>1. MayRun(n, t) /\ n \in Readers(t)
  BY DEF Start, MayRun, ExecutionInv, LockOrder
<1>2. Serial(t, LocalReads(n, t))
  BY <1>1, LocalReadsSerial
<1>3. ASSUME NEW m \in messages'
      PROVE  /\ m.txn \in Txn /\ m.from \in Readers(m.txn) /\ m.to \in Writers(m.txn) \ {m.from}
             /\ Serial(m.txn, m.values)
  <2>1. CASE m \in messages
    BY <2>1 DEF ExecutionInv, TypeOK, ReadsSerial
  <2>2. CASE m \notin messages
    <3>1. PICK to \in Recipients(n, t) :
            m = [txn |-> t, from |-> n, to |-> to, values |-> LocalReads(n, t)]
      BY <1>3, <2>2 DEF Start
    <3>2. m.txn = t /\ m.from = n /\ m.to = to /\ m.values = LocalReads(n, t)
      BY <3>1
    <3> QED
      BY <1>1, <1>2, <3>1, <3>2 DEF Recipients
  <2> QED
    BY <2>1, <2>2
<1>4. Proceed(n, t, LocalReads(n, t))
  BY DEF Start
<1> QED
  BY <1>1, <1>2, <1>3, <1>4, ProceedPreserves

LEMMA RemoteReadPreserves ==
  ASSUME ExecutionAssumption, ExecutionInv, NEW m \in messages, RemoteRead(m)
  PROVE  ExecutionInv'
<1> DEFINE n == m.to
           t == m.txn
           known == objects[n][t]
           objs == [k \in DOMAIN known \cup DOMAIN m.values |->
                      IF k \in DOMAIN m.values THEN m.values[k] ELSE known[k]]
<1>1. t \in Txn /\ n \in Writers(t)
  BY DEF ExecutionInv, TypeOK
<1>2. n \in Node
  BY <1>1 DEF Writers, ExecutionAssumption
<1>3. MayRun(n, t)
  BY DEF RemoteRead, MayRun
<1>4. Serial(t, known) /\ Serial(t, m.values)
  BY <1>1, <1>2 DEF ExecutionInv, ReadsSerial
<1>5. Serial(t, objs)
  BY <1>4 DEF Serial
<1>6. Proceed(n, t, objs)
  BY DEF RemoteRead
<1>7. \A other \in messages' :
        /\ other.txn \in Txn /\ other.from \in Readers(other.txn)
        /\ other.to \in Writers(other.txn) \ {other.from}
        /\ Serial(other.txn, other.values)
  BY DEF RemoteRead, ExecutionInv, TypeOK, ReadsSerial
<1> HIDE DEF n, t, objs
<1> QED
  BY <1>1, <1>2, <1>3, <1>5, <1>6, <1>7, ProceedPreserves

LEMMA LockPreserves ==
  ASSUME ExecutionAssumption, ExecutionInv, NEW n \in Node, NEW t \in Txn, Lock(n, t)
  PROVE  ExecutionInv'
<1>1. /\ status' \in [Node -> [Txn -> {"new", "locked", "active", "done"}]]
      /\ status'[n][t] = "locked" /\ status[n][t] = "new"
      /\ \A m \in Node, u \in Txn : m # n \/ u # t => status'[m][u] = status[m][u]
  BY DEF Lock, ExecutionInv, TypeOK
<1>2. UNCHANGED <<storage, buffer, objects, messages>>
  BY DEF Lock
<1>3. TypeOK' /\ Shape' /\ ReadsSerial'
  BY <1>1, <1>2 DEF ExecutionInv, TypeOK, Shape, ReadsSerial
<1>4. LockOrder'
  <2> SUFFICES ASSUME NEW m \in Node, NEW u \in Txn, status'[m][u] # "new"
               PROVE  m \in Readers(u) /\ NextHere(m, u)'
    BY DEF LockOrder
  <2>1. m \in Readers(u) /\ NextHere(m, u)
    BY <1>1 DEF Lock, ExecutionInv, LockOrder
  <2> QED
    BY <1>1, <2>1 DEF NextHere
<1>5. RunOrder'
  <2> SUFFICES ASSUME NEW m \in Node, NEW s \in Txn, NEW u \in Txn,
                      s < u, Conflict(m, s, u), status'[m][u] \in {"active", "done"}
               PROVE  status'[m][s] = "done"
    BY DEF RunOrder
  <2>1. status[m][u] = status'[m][u]
    BY <1>1
  <2>2. status[m][s] = "done"
    BY <2>1 DEF ExecutionInv, RunOrder
  <2> QED
    BY <1>1, <2>2
<1>6. \A k \in Key : Written(k)' = Written(k)
  <2>1. \A k \in Key : Home[k] \in Node
    BY DEF ExecutionAssumption
  <2> QED
    BY <1>1, <2>1 DEF Written
<1>7. StoredSerially'
  BY <1>2, <1>6 DEF ExecutionInv, StoredSerially, Latest
<1>8. DoneIsComplete'
  BY <1>1, <1>2, ZenonT(30) DEF ExecutionInv, DoneIsComplete
<1> QED
  BY <1>3, <1>4, <1>5, <1>7, <1>8 DEF ExecutionInv

LEMMA ExecutionInvInit == ASSUME ExecutionAssumption PROVE Init => ExecutionInv
<1> SUFFICES ASSUME Init PROVE ExecutionInv
  OBVIOUS
<1>1. \A n \in Node, t \in Txn : status[n][t] = "new" /\ objects[n][t] = <<>>
  BY DEF Init
<1>2. messages = {} /\ 0 \in Value
  BY DEF Init, Value, ExecutionAssumption
<1>3. \A n \in Node, t \in Txn : DOMAIN objects[n][t] = {}
  BY <1>1
<1>4. TypeOK
  <2>1. buffer \in [Key -> [Value -> Value]]
    BY <1>2 DEF Init, Blank, Value
  <2>2. status \in [Node -> [Txn -> {"new", "locked", "active", "done"}]]
    BY DEF Init
  <2>3. \A k \in Key : \A row \in storage[k] : row.version \in Int /\ row.buf \in Value
    BY <1>2 DEF Init, Loaded
  <2> QED
    BY <1>2, <1>3, <2>1, <2>2, <2>3 DEF TypeOK
<1>5. Shape
  BY DEF Init, Shape
<1>6. LockOrder /\ RunOrder /\ DoneIsComplete
  BY <1>1 DEF LockOrder, RunOrder, DoneIsComplete
<1>7. StoredSerially
  <2> SUFFICES ASSUME NEW k \in Key
               PROVE  /\ storage[k] = SerialStore[Latest(Written(k))][k].rows
                      /\ buffer[k] = SerialStore[Latest(Written(k))][k].bufs
    BY DEF StoredSerially
  <2>1. storage[k] = Loaded /\ buffer[k] = Blank
    BY DEF Init
  <2>2. Home[k] \in Node
    BY DEF ExecutionAssumption
  <2>3. Written(k) = {}
    BY <1>1, <2>2 DEF Written
  <2>4. Latest({}) = 0
    BY LatestProperties
  <2>5. SerialStore[0][k] = [rows |-> Loaded, bufs |-> Blank]
    BY SerialSteps DEF EmptyStore
  <2> QED
    BY <2>1, <2>3, <2>4, <2>5
<1>8. ReadsSerial
  BY <1>2, <1>3 DEF ReadsSerial, Serial
<1> QED
  BY <1>4, <1>5, <1>6, <1>7, <1>8 DEF ExecutionInv

LEMMA ExecutionInvStep ==
  ASSUME ExecutionAssumption, ExecutionInv, [Next]_vars
  PROVE  ExecutionInv'
<1>1. CASE UNCHANGED vars
  <2>1. UNCHANGED <<storage, buffer, status, objects, messages>>
    BY <1>1 DEF vars
  <2>2. TypeOK' /\ Shape' /\ ReadsSerial' /\ DoneIsComplete'
    BY <2>1 DEF ExecutionInv, TypeOK, Shape, ReadsSerial, DoneIsComplete
  <2>3. LockOrder' /\ RunOrder'
    BY <2>1 DEF ExecutionInv, LockOrder, NextHere, RunOrder
  <2>4. StoredSerially'
    BY <2>1 DEF ExecutionInv, StoredSerially, Written, Latest
  <2> QED
    BY <2>2, <2>3, <2>4 DEF ExecutionInv
<1>2. CASE \E n \in Node, t \in Txn : Lock(n, t)
  BY <1>2, LockPreserves
<1>3. CASE \E n \in Node, t \in Txn : Start(n, t)
  BY <1>3, StartPreserves
<1>4. CASE \E m \in messages : RemoteRead(m)
  BY <1>4, RemoteReadPreserves
<1> QED
  BY <1>1, <1>2, <1>3, <1>4 DEF Next

-----------------------------------------------------------------------------
LEMMA ExecutionIsSerial ==
  ASSUME ExecutionAssumption, ExecutionInv
  PROVE  SerialExecution
<1>1. ASSUME NEW n \in Node, NEW t \in Txn
      PROVE  /\ \A k \in DOMAIN objects[n][t] : objects[n][t][k] = SerialRead(k, t)
             /\ n \in Writers(t) /\ status[n][t] = "done" => DOMAIN objects[n][t] = Keys(t)
  BY DEF ExecutionInv, ReadsSerial, Serial, DoneIsComplete
<1>2. ASSUME NEW k \in Key,
             \A t \in Txn : k \in ReadWriteSet[t] => status[Home[k]][t] = "done"
      PROVE  /\ storage[k] = SerialStore[LastTxn][k].rows
             /\ buffer[k] = SerialStore[LastTxn][k].bufs
  <2>1. /\ LastTxn \in 0..LastTxn
        /\ Written(k) = {s \in Txn : s <= LastTxn /\ k \in ReadWriteSet[s]}
    BY <1>2 DEF Written, Txn, ExecutionAssumption
  <2>2. SerialStore[LastTxn][k] = SerialStore[Latest(Written(k))][k]
    BY <2>1, FoundByNext
  <2> QED
    BY <2>2 DEF ExecutionInv, StoredSerially
<1> QED
  BY <1>1, <1>2 DEF SerialExecution

(* Every value a transaction is executed with is the one it reads when the *)
(* agreed order is executed one at a time, on every node, whatever way and *)
(* in whatever order the values arrived; no writer executes with some of   *)
(* them missing; and what the writers of a key leave in the end is what    *)
(* that execution leaves.  For any ids.                                    *)
THEOREM ReadsAreSerial == Spec => []SerialExecution
<1>1. ExecutionInv => SerialExecution
  BY ExecutionAssumption, ExecutionIsSerial
<1>2. Init => ExecutionInv
  BY ExecutionAssumption, ExecutionInvInit
<1>3. ExecutionInv /\ [Next]_vars => ExecutionInv'
  BY ExecutionAssumption, ExecutionInvStep
<1> QED
  BY <1>1, <1>2, <1>3, PTL DEF Spec

(* For a reader whose key was written under ids that increase along the    *)
(* agreed order, that is the write of the last writer before it, whatever  *)
(* the ids of the others.                                                  *)
THEOREM LastWriteIsRead == Spec => []OrderedReads
<1>1. SerialExecution /\ TypeOK => OrderedReads
  <2> SUFFICES ASSUME SerialExecution, TypeOK, NEW n \in Node, NEW t \in Txn,
                      NEW k \in DOMAIN objects[n][t], IdsOrdered(k, t)
               PROVE  objects[n][t][k] = LastWriter(k, t)
    BY DEF OrderedReads
  <2>1. k \in Key
    BY ExecutionAssumption DEF TypeOK, Keys, ExecutionAssumption
  <2>2. SerialRead(k, t) = LastWriter(k, t)
    BY <2>1, ExecutionAssumption, OrderedRead
  <2> QED
    BY <2>2 DEF SerialExecution
<1>2. Init => ExecutionInv
  BY ExecutionAssumption, ExecutionInvInit
<1>3. ExecutionInv /\ [Next]_vars => ExecutionInv'
  BY ExecutionAssumption, ExecutionInvStep
<1>4. ExecutionInv => SerialExecution /\ TypeOK
  BY ExecutionAssumption, ExecutionIsSerial DEF ExecutionInv
<1> QED
  BY <1>1, <1>2, <1>3, <1>4, PTL DEF Spec

-----------------------------------------------------------------------------
(***************************************************************************)
(* Nothing gets stuck: whatever the ids, the capacity and the keys.        *)
(***************************************************************************)

(* The value of k has yet to be sent to n for t, or is on its way.         *)
OnItsWay(n, t, k) ==
  \/ status[Home[k]][t] \in {"new", "locked"}
  \/ \E m \in messages : m.txn = t /\ m.to = n /\ k \in DOMAIN m.values

(* What a writer lacks will come, and no writer waits that has everything. *)
NothingLost ==
  \A t \in Txn : \A n \in Writers(t) : \A k \in Keys(t) :
    \/ status[n][t] = "done"
    \/ status[n][t] = "active" /\ k \in DOMAIN objects[n][t]
    \/ OnItsWay(n, t, k)

WaitsForMore ==
  \A n \in Node, t \in Txn :
    status[n][t] = "active" => n \in Writers(t) /\ ~ ReadyToExecute(t, objects[n][t])

KnownKeys ==
  /\ \A n \in Node, t \in Txn : DOMAIN objects[n][t] \subseteq Keys(t)
  /\ \A m \in messages :
       m.txn \in Txn /\ m.to \in Writers(m.txn) /\ DOMAIN m.values \subseteq Keys(m.txn)

FlowInv == Statuses /\ Shape /\ LockOrder /\ KnownKeys /\ NothingLost /\ WaitsForMore

Finished(t) == \A n \in Readers(t) : status[n][t] = "done"
Unfinished == {t \in Txn : ~ Finished(t)}

(* The guards of Lock, of Start, and of RemoteRead for some message.       *)
CanGoOn(n, t) ==
  \/ status[n][t] = "new" /\ NextHere(n, t) /\ Cardinality(InFlight(n)) < Capacity
  \/ status[n][t] = "locked" /\ Granted(n, t)
  \/ status[n][t] = "active" /\ \E m \in messages : m.txn = t /\ m.to = n

FirstGoesOn ==
  \A t \in Unfinished :
    (\A s \in Txn : s < t => Finished(s)) => \E n \in Readers(t) : CanGoOn(n, t)

LEMMA FlowInit == ASSUME ExecutionAssumption PROVE Init => FlowInv
<1> SUFFICES ASSUME Init PROVE FlowInv
  OBVIOUS
<1>1. \A n \in Node, t \in Txn : status[n][t] = "new" /\ objects[n][t] = <<>>
  BY DEF Init
<1>2. Statuses /\ Shape /\ LockOrder /\ WaitsForMore
  BY <1>1 DEF Init, Statuses, Shape, LockOrder, WaitsForMore
<1>3. \A n \in Node, t \in Txn : DOMAIN objects[n][t] = {}
  BY <1>1
<1>4. KnownKeys
  BY <1>3 DEF Init, KnownKeys
<1>5. NothingLost
  <2>1. \A t \in Txn : \A k \in Keys(t) : Home[k] \in Node
    BY DEF Keys, ExecutionAssumption
  <2> QED
    BY <1>1, <2>1 DEF NothingLost, OnItsWay
<1> QED
  BY <1>2, <1>4, <1>5 DEF FlowInv

LEMMA KeysAreStored ==
  ASSUME ExecutionAssumption, NEW t \in Txn
  PROVE  /\ Readers(t) \subseteq Node /\ Writers(t) \subseteq Readers(t) /\ Writers(t) # {}
         /\ \A k \in Keys(t) : k \in Key /\ Home[k] \in Readers(t)
BY DEF Readers, Writers, Keys, ExecutionAssumption

(* What every step of a worker has in common: it leaves what others wait   *)
(* for on its way, and gets what it waits for itself or leaves that, too.  *)
LEMMA WorkerKeepsFlow ==
  ASSUME ExecutionAssumption, FlowInv,
         NEW n \in Node, NEW t \in Txn, NEW objs, MayRun(n, t), Proceed(n, t, objs),
         DOMAIN objs \subseteq Keys(t),
         \A m \in messages' :
           m.txn \in Txn /\ m.to \in Writers(m.txn) /\ DOMAIN m.values \subseteq Keys(m.txn),
         n \in Writers(t) =>
           \A k \in Keys(t) : k \in DOMAIN objs \/ OnItsWay(n, t, k)',
         \A m \in Node, u \in Txn : \A k \in Keys(u) :
           (m # n \/ u # t) /\ m \in Writers(u) /\ OnItsWay(m, u, k) => OnItsWay(m, u, k)'
  PROVE  FlowInv'
<1>1. /\ status' \in [Node -> [Txn -> {"new", "locked", "active", "done"}]]
      /\ status'[n][t] \in {"active", "done"}
      /\ \A m \in Node, u \in Txn : m # n \/ u # t => status'[m][u] = status[m][u]
      /\ Shape' /\ objects'[n][t] = objs
      /\ \A m \in Node, u \in Txn : m # n \/ u # t => objects'[m][u] = objects[m][u]
  BY ProceedMoves DEF FlowInv
<1>2. Statuses' /\ Shape'
  BY <1>1 DEF Statuses
<1>3. status[n][t] \in {"active", "locked"}
  BY DEF MayRun
<1>4. \A m \in Node, u \in Txn : status'[m][u] = "new" <=> status[m][u] = "new"
  BY <1>1, <1>3
<1>5. LockOrder'
  BY <1>4 DEF FlowInv, LockOrder, NextHere
<1>6. KnownKeys'
  BY <1>1 DEF FlowInv, KnownKeys
<1>7. NothingLost'
  <2> SUFFICES ASSUME NEW u \in Txn, NEW m \in Writers(u), NEW k \in Keys(u)
               PROVE  \/ status'[m][u] = "done"
                      \/ status'[m][u] = "active" /\ k \in DOMAIN objects'[m][u]
                      \/ OnItsWay(m, u, k)'
    BY DEF NothingLost
  <2>1. m \in Node
    BY KeysAreStored
  <2>2. CASE m = n /\ u = t
    BY <1>1, <2>2
  <2>3. CASE m # n \/ u # t
    <3>1. \/ status[m][u] = "done"
          \/ status[m][u] = "active" /\ k \in DOMAIN objects[m][u]
          \/ OnItsWay(m, u, k)
      BY DEF FlowInv, NothingLost
    <3> QED
      BY <1>1, <2>1, <2>3, <3>1
  <2> QED
    BY <2>2, <2>3
<1>8. WaitsForMore'
  <2> SUFFICES ASSUME NEW m \in Node, NEW u \in Txn, status'[m][u] = "active"
               PROVE  m \in Writers(u) /\ ~ ReadyToExecute(u, objects'[m][u])
    BY DEF WaitsForMore, ReadyToExecute
  <2>1. CASE m = n /\ u = t
    <3>1. \/ n \in Writers(t) /\ ~ ReadyToExecute(t, objs)
          \/ status' = [status EXCEPT ![n][t] = "done"]
      BY DEF Proceed
    <3>2. status' # [status EXCEPT ![n][t] = "done"]
      BY <2>1 DEF FlowInv, Statuses
    <3> QED
      BY <1>1, <2>1, <3>1, <3>2
  <2>2. CASE m # n \/ u # t
    BY <1>1, <2>2 DEF FlowInv, WaitsForMore
  <2> QED
    BY <2>1, <2>2
<1> QED
  BY <1>2, <1>5, <1>6, <1>7, <1>8 DEF FlowInv

LEMMA StartKeepsFlow ==
  ASSUME ExecutionAssumption, FlowInv, NEW n \in Node, NEW t \in Txn, Start(n, t)
  PROVE  FlowInv'
<1>1. MayRun(n, t) /\ Proceed(n, t, LocalReads(n, t)) /\ status[n][t] = "locked"
  BY DEF Start, MayRun
<1>2. DOMAIN LocalReads(n, t) = LocalKeys(n, t) /\ LocalKeys(n, t) \subseteq Keys(t)
  BY DEF LocalReads, LocalKeys
<1>3. \A m \in Node, u \in Txn : m # n \/ u # t => status'[m][u] = status[m][u]
  BY <1>1, ProceedMoves DEF FlowInv
<1>4. messages \subseteq messages'
  BY DEF Start
<1>5. ASSUME NEW m \in messages'
      PROVE  m.txn \in Txn /\ m.to \in Writers(m.txn) /\ DOMAIN m.values \subseteq Keys(m.txn)
  <2>1. CASE m \in messages
    BY <2>1 DEF FlowInv, KnownKeys
  <2>2. CASE m \notin messages
    <3>1. PICK to \in Recipients(n, t) :
            m = [txn |-> t, from |-> n, to |-> to, values |-> LocalReads(n, t)]
      BY <1>5, <2>2 DEF Start
    <3>2. m.txn = t /\ m.to = to /\ m.values = LocalReads(n, t)
      BY <3>1
    <3> QED
      BY <1>2, <3>1, <3>2 DEF Recipients
  <2> QED
    BY <2>1, <2>2
<1>6. ASSUME NEW m \in Node, NEW u \in Txn, NEW k \in Keys(u), m \in Writers(u),
             u # t \/ Home[k] # n \/ m # n, OnItsWay(m, u, k)
      PROVE  OnItsWay(m, u, k)'
  <2>1. Home[k] \in Node
    BY KeysAreStored
  <2>2. CASE \E mess \in messages : mess.txn = u /\ mess.to = m /\ k \in DOMAIN mess.values
    BY <1>4, <2>2 DEF OnItsWay
  <2>3. CASE status[Home[k]][u] \in {"new", "locked"} /\ (Home[k] # n \/ u # t)
    BY <1>3, <2>1, <2>3 DEF OnItsWay
  <2>4. CASE Home[k] = n /\ u = t
    <3> DEFINE mess == [txn |-> t, from |-> n, to |-> m, values |-> LocalReads(n, t)]
    <3>1. m \in Recipients(n, t)
      BY <1>6, <2>4 DEF Recipients
    <3>2. mess \in messages'
      BY <3>1 DEF Start
    <3>3. mess.txn = u /\ mess.to = m /\ mess.values = LocalReads(n, t)
      BY <2>4
    <3>4. k \in LocalKeys(n, t)
      BY <2>4 DEF LocalKeys
    <3> QED
      BY <1>2, <3>2, <3>3, <3>4 DEF OnItsWay
  <2> QED
    BY <1>6, <2>2, <2>3, <2>4 DEF OnItsWay
<1>7. ASSUME n \in Writers(t), NEW k \in Keys(t)
      PROVE  k \in DOMAIN LocalReads(n, t) \/ OnItsWay(n, t, k)'
  <2>1. CASE Home[k] = n
    BY <1>2, <2>1 DEF LocalKeys
  <2>2. CASE Home[k] # n
    <3>1. OnItsWay(n, t, k)
      BY <1>1, <1>7 DEF FlowInv, NothingLost
    <3> QED
      BY <1>6, <1>7, <2>2, <3>1
  <2> QED
    BY <2>1, <2>2
<1> HIDE DEF LocalReads
<1> QED
  BY <1>1, <1>2, <1>5, <1>6, <1>7, WorkerKeepsFlow

LEMMA RemoteReadKeepsFlow ==
  ASSUME ExecutionAssumption, FlowInv, NEW m \in messages, RemoteRead(m)
  PROVE  FlowInv'
<1> DEFINE n == m.to
           t == m.txn
           known == objects[n][t]
           objs == [k \in DOMAIN known \cup DOMAIN m.values |->
                      IF k \in DOMAIN m.values THEN m.values[k] ELSE known[k]]
<1>1. t \in Txn /\ n \in Writers(t) /\ n \in Node
  BY KeysAreStored DEF FlowInv, KnownKeys
<1>2. MayRun(n, t) /\ Proceed(n, t, objs) /\ status[n][t] = "active"
  BY DEF RemoteRead, MayRun
<1>3. DOMAIN objs = DOMAIN known \cup DOMAIN m.values /\ DOMAIN objs \subseteq Keys(t)
  BY <1>1 DEF FlowInv, KnownKeys
<1>4. \A mess \in messages' : mess.txn \in Txn /\ mess.to \in Writers(mess.txn)
                               /\ DOMAIN mess.values \subseteq Keys(mess.txn)
  BY DEF RemoteRead, FlowInv, KnownKeys
<1> HIDE DEF objs
<1>5. \A i \in Node, u \in Txn : i # n \/ u # t => status'[i][u] = status[i][u]
  BY <1>1, <1>2, ProceedMoves DEF FlowInv
<1>6. ASSUME NEW i \in Node, NEW u \in Txn, NEW k \in Keys(u), OnItsWay(i, u, k)
      PROVE  OnItsWay(i, u, k)' \/ (i = n /\ u = t /\ k \in DOMAIN m.values)
  <2>1. Home[k] \in Node
    BY KeysAreStored
  <2>2. CASE status[Home[k]][u] \in {"new", "locked"}
    BY <1>2, <1>5, <2>1, <2>2 DEF OnItsWay
  <2>3. CASE \E mess \in messages : mess.txn = u /\ mess.to = i /\ k \in DOMAIN mess.values
    <3>1. PICK mess \in messages : mess.txn = u /\ mess.to = i /\ k \in DOMAIN mess.values
      BY <2>3
    <3>2. CASE mess = m
      BY <3>1, <3>2
    <3>3. CASE mess # m
      BY <3>1, <3>3 DEF RemoteRead, OnItsWay
    <3> QED
      BY <3>2, <3>3
  <2> QED
    BY <1>6, <2>2, <2>3 DEF OnItsWay
<1>7. ASSUME NEW k \in Keys(t) PROVE k \in DOMAIN objs \/ OnItsWay(n, t, k)'
  BY <1>1, <1>2, <1>3, <1>6 DEF FlowInv, NothingLost
<1> HIDE DEF n, t
<1> QED
  BY <1>1, <1>2, <1>3, <1>4, <1>6, <1>7, WorkerKeepsFlow

LEMMA LockKeepsFlow ==
  ASSUME ExecutionAssumption, FlowInv, NEW n \in Node, NEW t \in Txn, Lock(n, t)
  PROVE  FlowInv'
<1>1. /\ status' \in [Node -> [Txn -> {"new", "locked", "active", "done"}]]
      /\ status'[n][t] = "locked" /\ status[n][t] = "new"
      /\ \A m \in Node, u \in Txn : m # n \/ u # t => status'[m][u] = status[m][u]
  BY DEF Lock, FlowInv, Statuses
<1>2. UNCHANGED <<objects, messages>>
  BY DEF Lock
<1>3. Statuses' /\ Shape' /\ KnownKeys'
  BY <1>1, <1>2 DEF FlowInv, Statuses, Shape, KnownKeys
<1>4. LockOrder'
  <2> SUFFICES ASSUME NEW m \in Node, NEW u \in Txn, status'[m][u] # "new"
               PROVE  m \in Readers(u) /\ NextHere(m, u)'
    BY DEF LockOrder
  <2>1. m \in Readers(u) /\ NextHere(m, u)
    BY <1>1 DEF Lock, FlowInv, LockOrder
  <2> QED
    BY <1>1, <2>1 DEF NextHere
<1>5. NothingLost'
  <2> SUFFICES ASSUME NEW u \in Txn, NEW m \in Writers(u), NEW k \in Keys(u)
               PROVE  \/ status'[m][u] = "done"
                      \/ status'[m][u] = "active" /\ k \in DOMAIN objects'[m][u]
                      \/ OnItsWay(m, u, k)'
    BY DEF NothingLost
  <2>1. m \in Node /\ Home[k] \in Node
    BY KeysAreStored
  <2>2. \/ status[m][u] = "done"
        \/ status[m][u] = "active" /\ k \in DOMAIN objects[m][u]
        \/ OnItsWay(m, u, k)
    BY DEF FlowInv, NothingLost
  <2>3. OnItsWay(m, u, k) => OnItsWay(m, u, k)'
    BY <1>1, <1>2, <2>1 DEF OnItsWay
  <2> QED
    BY <1>1, <1>2, <2>1, <2>2, <2>3
<1>6. WaitsForMore'
  <2>1. \A m \in Node, u \in Txn : status'[m][u] = "active" => status[m][u] = "active"
    BY <1>1
  <2> QED
    BY <1>2, <2>1 DEF FlowInv, WaitsForMore, ReadyToExecute
<1> QED
  BY <1>3, <1>4, <1>5, <1>6 DEF FlowInv

LEMMA FlowStep == ASSUME ExecutionAssumption, FlowInv, [Next]_vars PROVE FlowInv'
<1>1. CASE UNCHANGED vars
  <2>1. UNCHANGED <<status, objects, messages>>
    BY <1>1 DEF vars
  <2>2. Statuses' /\ Shape' /\ LockOrder'
    BY <2>1 DEF FlowInv, Statuses, Shape, LockOrder, NextHere
  <2>3. KnownKeys' /\ WaitsForMore'
    BY <2>1 DEF FlowInv, KnownKeys, WaitsForMore, ReadyToExecute
  <2>4. NothingLost'
    BY <2>1 DEF FlowInv, NothingLost, OnItsWay
  <2> QED
    BY <2>2, <2>3, <2>4 DEF FlowInv
<1>2. CASE \E n \in Node, t \in Txn : Lock(n, t)
  BY <1>2, LockKeepsFlow
<1>3. CASE \E n \in Node, t \in Txn : Start(n, t)
  BY <1>3, StartKeepsFlow
<1>4. CASE \E m \in messages : RemoteRead(m)
  BY <1>4, RemoteReadKeepsFlow
<1> QED
  BY <1>1, <1>2, <1>3, <1>4 DEF Next

(* A writer that lacks a value and finds no message waits for a node that  *)
(* has not started the transaction.                                        *)
LEMMA WhoeverWaitsWaitsForAnother ==
  ASSUME ExecutionAssumption, FlowInv, NEW n \in Node, NEW t \in Txn, status[n][t] = "active",
         ~ \E m \in messages : m.txn = t /\ m.to = n
  PROVE  \E other \in Readers(t) : status[other][t] \in {"new", "locked"}
<1>1. n \in Writers(t) /\ ~ ReadyToExecute(t, objects[n][t])
      /\ DOMAIN objects[n][t] \subseteq Keys(t)
  BY DEF FlowInv, WaitsForMore, KnownKeys
<1>2. DOMAIN objects[n][t] # Keys(t)
  BY <1>1, KeysReady
<1>3. PICK k \in Keys(t) : k \notin DOMAIN objects[n][t]
  BY <1>1, <1>2
<1>4. OnItsWay(n, t, k)
  BY <1>1, <1>3 DEF FlowInv, NothingLost
<1>5. status[Home[k]][t] \in {"new", "locked"}
  BY <1>4 DEF OnItsWay
<1> QED
  BY <1>3, <1>5, KeysAreStored

(* The first transaction that is not finished finds nothing before it:     *)
(* there is room for it, its locks are free, and of the nodes that wait    *)
(* for each other's values one has not sent its own.                       *)
LEMMA FirstIsFree ==
  ASSUME ExecutionAssumption, FlowInv, NEW t \in Txn, NEW n \in Readers(t),
         \A s \in Txn : s < t => Finished(s), status[n][t] \in {"new", "locked"}
  PROVE  CanGoOn(n, t)
<1>1. n \in Node
  BY KeysAreStored
<1>2. \A s \in Txn : s < t /\ n \in Readers(s) => status[n][s] = "done"
  BY DEF Finished
<1>3. CASE status[n][t] = "new"
  <2>1. NextHere(n, t)
    BY <1>2 DEF NextHere
  <2>2. InFlight(n) = {}
    <3> SUFFICES ASSUME NEW s \in InFlight(n) PROVE FALSE
      OBVIOUS
    <3>1. s \in Txn /\ status[n][s] \in {"locked", "active"}
      BY DEF InFlight
    <3>2. n \in Readers(s) /\ NextHere(n, s)
      BY <1>1, <3>1 DEF FlowInv, LockOrder
    <3>3. ~ (s < t)
      BY <1>2, <3>1, <3>2
    <3>4. ~ (t < s)
      BY <1>3, <3>2 DEF NextHere
    <3>5. s # t
      BY <1>3, <3>1
    <3> QED
      BY <3>1, <3>3, <3>4, <3>5 DEF Txn, ExecutionAssumption
  <2>3. Cardinality(InFlight(n)) < Capacity
    BY <2>2, FS_EmptySet DEF ExecutionAssumption
  <2> QED
    BY <1>3, <2>1, <2>3 DEF CanGoOn
<1>4. CASE status[n][t] = "locked"
  <2>1. Granted(n, t)
    BY <1>1, <1>2, ConflictMeansReader DEF Granted
  <2> QED
    BY <1>4, <2>1 DEF CanGoOn
<1> QED
  BY <1>3, <1>4

LEMMA FlowMeansProgress == ASSUME ExecutionAssumption, FlowInv PROVE FirstGoesOn
<1> SUFFICES ASSUME NEW t \in Unfinished, \A s \in Txn : s < t => Finished(s)
             PROVE  \E n \in Readers(t) : CanGoOn(n, t)
  BY DEF FirstGoesOn
<1>1. t \in Txn /\ ~ Finished(t)
  BY DEF Unfinished
<1>2. PICK n \in Readers(t) : status[n][t] # "done"
  BY <1>1 DEF Finished
<1>3. n \in Node /\ status[n][t] \in {"new", "locked", "active"}
  BY <1>1, <1>2, KeysAreStored DEF FlowInv, Statuses
<1>4. CASE status[n][t] \in {"new", "locked"}
  BY <1>1, <1>4, FirstIsFree
<1>5. CASE status[n][t] = "active" /\ \E m \in messages : m.txn = t /\ m.to = n
  BY <1>5 DEF CanGoOn
<1>6. CASE status[n][t] = "active" /\ ~ \E m \in messages : m.txn = t /\ m.to = n
  <2>1. PICK other \in Readers(t) : status[other][t] \in {"new", "locked"}
    BY <1>1, <1>3, <1>6, WhoeverWaitsWaitsForAnother
  <2> QED
    BY <1>1, <2>1, FirstIsFree
<1> QED
  BY <1>3, <1>4, <1>5, <1>6

(* However the nodes' transactions depend on each other's locks and values *)
(* and however few a node takes on at once, the first unfinished one can   *)
(* always go on at some node: the safety half of AllDone.                  *)
THEOREM NeverStuck == Spec => []FirstGoesOn
<1>1. FlowInv => FirstGoesOn
  BY ExecutionAssumption, FlowMeansProgress
<1>2. Init => FlowInv
  BY ExecutionAssumption, FlowInit
<1>3. FlowInv /\ [Next]_vars => FlowInv'
  BY ExecutionAssumption, FlowStep
<1> QED
  BY <1>1, <1>2, <1>3, PTL DEF Spec

(* How far a transaction is at a node, and what it means to go forward.    *)
Rank(st) == CASE st = "new" -> 0 [] st = "locked" -> 1 [] st = "active" -> 2 [] st = "done" -> 3

StepForward ==
  \/ /\ \E n \in Node, t \in Txn : Rank(status[n][t]) < Rank(status'[n][t])
     /\ \A n \in Node, t \in Txn : Rank(status[n][t]) <= Rank(status'[n][t])
  \/ /\ \A n \in Node, t \in Txn : status'[n][t] = status[n][t]
     /\ \E m \in messages : messages' = messages \ {m}

LEMMA OneMovesOn ==
  ASSUME NEW n \in Node, NEW t \in Txn, Statuses, Statuses',
         \A m \in Node, u \in Txn : m # n \/ u # t => status'[m][u] = status[m][u],
         Rank(status[n][t]) < Rank(status'[n][t])
  PROVE  StepForward
<1>1. \A m \in Node, u \in Txn : status[m][u] \in {"new", "locked", "active", "done"}
  BY DEF Statuses
<1>2. \A m \in Node, u \in Txn : Rank(status[m][u]) \in Nat
  BY <1>1 DEF Rank
<1>3. status'[n][t] \in {"new", "locked", "active", "done"}
  BY DEF Statuses
<1>4. Rank(status'[n][t]) \in Nat
  BY <1>3 DEF Rank
<1>5. \A m \in Node, u \in Txn : Rank(status[m][u]) <= Rank(status'[m][u])
  BY <1>2, <1>4
<1> QED
  BY <1>5 DEF StepForward

LEMMA EveryStepForward ==
  ASSUME ExecutionAssumption, FlowInv, Next PROVE StepForward
<1>1. Statuses /\ Shape /\ Statuses'
  BY FlowStep DEF FlowInv
<1>2. ASSUME NEW n \in Node, NEW t \in Txn, Lock(n, t) PROVE StepForward
  <2>1. /\ status[n][t] = "new" /\ status'[n][t] = "locked"
        /\ \A m \in Node, u \in Txn : m # n \/ u # t => status'[m][u] = status[m][u]
    BY <1>1, <1>2 DEF Lock, Statuses
  <2>2. Rank(status[n][t]) < Rank(status'[n][t])
    BY <2>1 DEF Rank
  <2> QED
    BY <1>1, <2>1, <2>2, OneMovesOn
<1>3. ASSUME NEW n \in Node, NEW t \in Txn, Start(n, t) PROVE StepForward
  <2>1. /\ status[n][t] = "locked" /\ status'[n][t] \in {"active", "done"}
        /\ \A m \in Node, u \in Txn : m # n \/ u # t => status'[m][u] = status[m][u]
    BY <1>1, <1>3, ProceedMoves DEF Start
  <2>2. Rank(status[n][t]) < Rank(status'[n][t])
    BY <2>1 DEF Rank
  <2> QED
    BY <1>1, <2>1, <2>2, OneMovesOn
<1>4. ASSUME NEW m \in messages, RemoteRead(m) PROVE StepForward
  <2>1. m.txn \in Txn /\ m.to \in Node
    BY KeysAreStored DEF FlowInv, KnownKeys
  <2>2. PICK objs : Proceed(m.to, m.txn, objs)
    BY <1>4 DEF RemoteRead
  <2>3. /\ status[m.to][m.txn] = "active" /\ status'[m.to][m.txn] \in {"active", "done"}
        /\ \A n \in Node, u \in Txn : n # m.to \/ u # m.txn => status'[n][u] = status[n][u]
    BY <1>1, <1>4, <2>1, <2>2, ProceedMoves DEF RemoteRead
  <2>4. CASE status'[m.to][m.txn] = "active"
    <3>1. \A n \in Node, u \in Txn : status'[n][u] = status[n][u]
      BY <2>3, <2>4
    <3>2. messages' = messages \ {m}
      BY <1>4 DEF RemoteRead
    <3> QED
      BY <3>1, <3>2 DEF StepForward
  <2>5. CASE status'[m.to][m.txn] = "done"
    <3>1. Rank(status[m.to][m.txn]) < Rank(status'[m.to][m.txn])
      BY <2>3, <2>5 DEF Rank
    <3> QED
      BY <1>1, <2>1, <2>3, <3>1, OneMovesOn
  <2> QED
    BY <2>3, <2>4, <2>5
<1> QED
  BY <1>2, <1>3, <1>4 DEF Next

(* No step is taken twice: it brings a transaction further at one node and *)
(* back at none, or it uses up a message and sends none.  Every node takes *)
(* a transaction through three steps at most, so there is an end to them,  *)
(* and by NeverStuck not before all is done.                               *)
THEOREM NoStepTwice == Spec => [][StepForward]_vars
<1>1. FlowInv /\ [Next]_vars => FlowInv'
  BY ExecutionAssumption, FlowStep
<1>2. FlowInv /\ [Next]_vars => [StepForward]_vars
  BY ExecutionAssumption, EveryStepForward
<1>3. Init => FlowInv
  BY ExecutionAssumption, FlowInit
<1> QED
  BY <1>1, <1>2, <1>3, PTL DEF Spec
=============================================================================
