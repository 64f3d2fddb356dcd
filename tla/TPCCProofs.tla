----------------------------- MODULE TPCCProofs -----------------------------
(***************************************************************************)
(* Theorems about TPCC, for any transactions of the three types and any    *)
(* number of warehouses, districts, customers and items.                   *)
(***************************************************************************)
EXTENDS TPCC, FiniteSetTheorems, SequenceTheorems, WellFoundedInduction, TLAPS

-----------------------------------------------------------------------------
(***************************************************************************)
(* The assignments of a transaction.                                       *)
(***************************************************************************)

Fields ==
  { <<"w", "year_to_date">>,
    <<"d", "year_to_date">>, <<"d", "next_order_id">>,
    <<"c", "balance">>, <<"c", "year_to_date_payment">>, <<"c", "payment_count">>,
    <<"s", "quantity">>, <<"s", "year_to_date">>, <<"s", "order_count">> }

(* The key that guards a field: whoever changes the field has it locked.   *)
(* A payment's keys guard what orders leave alone.                         *)
Guard(record, field) ==
  CASE record[1] = "w" -> <<"wy", record[2]>>
    [] record[1] = "d" /\ field = "year_to_date" -> <<"dy", record[2], record[3]>>
    [] OTHER -> record

Sound(t, a) ==
  /\ a.record \in Records /\ <<a.record[1], a.field>> \in Fields
  /\ Guard(a.record, a.field) \in ReadWriteSet(t)
  /\ \/ a.op = "add" /\ a.n \in Int /\ ~ (a.record[1] = "s" /\ a.field = "quantity")
     \/ a.op = "restock" /\ a.n \in 1..10 /\ a.record[1] = "s" /\ a.field = "quantity"

Lines(t) == ValidLines(Request[t])
IsOrder(t) == Request[t].type = "NEW_ORDER"

LEMMA OrderLines ==
  ASSUME NEW t \in Txn, IsOrder(t)
  PROVE  /\ Lines(t) \in Seq(Line) /\ Len(Lines(t)) \in Nat
         /\ \A i \in 1..Len(Lines(t)) :
              Lines(t)[i].item \in Items(Request[t]) \ {-1} /\ Lines(t)[i] \in Line
<1> DEFINE r == Request[t]  s == r.lines
<1>1. s \in Seq(Line) /\ Len(s) \in Nat /\ DOMAIN s = 1..Len(s)
  BY TPCCAssumption, LenProperties DEF IsOrder
<1>2. \A i \in 1..Len(s) : s[i] \in Line /\ s[i].item \in Items(r) /\ (s[i].item = -1 => i = Len(s))
  BY <1>1, TPCCAssumption, ElementOfSeq DEF IsOrder, Items
<1>3. Lines(t) = IF Valid(r) THEN s ELSE Front(s)
  BY DEF Lines, ValidLines
<1> HIDE DEF s, r
<1>4. CASE Valid(r)
  BY <1>1, <1>2, <1>3, <1>4 DEF Valid, r
<1>5. CASE ~ Valid(r)
  <2>1. \E i \in 1..Len(s) : s[i].item = -1
    BY <1>1, <1>5 DEF Valid, Items, r, s
  <2>2. s # <<>> /\ Len(s) >= 1
    BY <1>1, <2>1
  <2>3. Front(s) = SubSeq(s, 1, Len(s) - 1)
    BY DEF Front
  <2>4. /\ Front(s) \in Seq(Line) /\ Len(Front(s)) = Len(s) - 1
        /\ \A i \in 1..(Len(s) - 1) : Front(s)[i] = s[i]
    BY <1>1, <2>2, <2>3
  <2>5. Lines(t) = Front(s)
    BY <1>3, <1>5
  <2>6. Len(s) - 1 \in Nat
    BY <1>1, <2>2
  <2>7. \A i \in 1..(Len(s) - 1) : i \in 1..Len(s) /\ i # Len(s)
    <3> DEFINE n == Len(s)
    <3>1. n \in Nat
      BY <1>1
    <3> HIDE DEF n
    <3>2. \A i \in 1..(n - 1) : i \in 1..n /\ i # n
      BY <3>1
    <3> QED
      BY <3>2 DEF n
  <2>8. QED
    BY <1>2, <2>4, <2>5, <2>6, <2>7 DEF r
<1>6. QED
  BY <1>4, <1>5

(* An order changes the district first, then three fields for each line.   *)
LEMMA OrderAssignments ==
  ASSUME NEW t \in Txn, IsOrder(t)
  PROVE  LET r == Request[t] IN
         /\ Len(Execute[t]) = 1 + 3 * Len(Lines(t))
         /\ Execute[t][1] = Add(District(r), "next_order_id", 1)
         /\ \A i \in 1..Len(Lines(t)) :
              LET k == Stock(r, Lines(t)[i].item)
                  n == Lines(t)[i].quantity
              IN /\ Execute[t][3 * i - 1] = Add(k, "year_to_date", n)
                 /\ Execute[t][3 * i] = Add(k, "order_count", -1)
                 /\ Execute[t][3 * i + 1] = Assignment(k, "quantity", "restock", n)
<1> DEFINE r == Request[t]  L == Len(Lines(t))
           first == <<Add(District(r), "next_order_id", 1)>>
           at(i) == OrderLine(r, Lines(t)[((i - 1) \div 3) + 1])[((i - 1) % 3) + 1]
           others == [i \in 1..(3 * L) |-> at(i)]
<1>1. L \in Nat
  BY OrderLines
<1>2. Execute[t] = first \o others
  BY DEF Execute, NewOrderTxn, IsOrder, Lines
<1>3. /\ Len(others) = 3 * L /\ Len(first) = 1
      /\ Execute[t] = [i \in 1..(1 + 3 * L) |-> IF i <= 1 THEN first[i] ELSE others[i - 1]]
  <2>1. others \in Seq({at(i) : i \in 1..(3 * L)}) /\ Len(others) = 3 * L
    <3> DEFINE n == 3 * L  T == {at(i) : i \in 1..n}
    <3>1. n \in Nat
      BY <1>1
    <3>2. others = [i \in 1..n |-> at(i)] /\ \A i \in 1..n : at(i) \in T
      OBVIOUS
    <3> HIDE DEF n, T, others, at
    <3>3. others \in [1..n -> T]
      BY <3>2
    <3>4. others \in Seq(T) /\ Len(others) = n
      BY <3>1, <3>3
    <3> QED
      BY <3>4 DEF n, T
  <2>2. QED
    BY <1>2, <2>1
<1>4. Len(Execute[t]) = 1 + 3 * L /\ Execute[t][1] = first[1]
  BY <1>1, <1>3
<1>5. \A i \in 1..L :
        /\ Execute[t][3 * i - 1] = OrderLine(r, Lines(t)[i])[1]
        /\ Execute[t][3 * i] = OrderLine(r, Lines(t)[i])[2]
        /\ Execute[t][3 * i + 1] = OrderLine(r, Lines(t)[i])[3]
  <2> TAKE i \in 1..L
  <2>1. ASSUME NEW c \in 1..3
        PROVE  Execute[t][(3 * i - 2) + c] = at((3 * i - 3) + c)
    <3> DEFINE j == (3 * i - 2) + c  m == (3 * i - 3) + c
    <3>1. j \in 1..(1 + 3 * L) /\ ~ (j <= 1) /\ j - 1 = m /\ m \in 1..(3 * L)
      BY <1>1
    <3>2. others[m] = at(m)
      BY <3>1
    <3> HIDE DEF j, m, others, first, at
    <3>3. Execute[t][j] = others[m]
      BY <1>3, <3>1
    <3>4. Execute[t][j] = at(m)
      BY <3>2, <3>3
    <3>5. QED
      BY <3>4 DEF j, m
  <2>2. \A c \in 1..3 :
          (((3 * i - 3) + c) - 1) \div 3 = i - 1 /\ (((3 * i - 3) + c) - 1) % 3 = c - 1
    BY <1>1
  <2>3. \A c \in 1..3 : at((3 * i - 3) + c) = OrderLine(r, Lines(t)[i])[c]
    BY <1>1, <2>2
  <2>4. (3 * i - 2) + 1 = 3 * i - 1 /\ (3 * i - 2) + 2 = 3 * i /\ (3 * i - 2) + 3 = 3 * i + 1
    BY <1>1
  <2>5. QED
    BY <2>1, <2>3, <2>4
<1>6. QED
  BY <1>4, <1>5 DEF OrderLine, Add, Assignment

LEMMA OrderPlaces ==
  ASSUME NEW t \in Txn, IsOrder(t), NEW j \in 1..Len(Execute[t])
  PROVE  j = 1 \/ \E i \in 1..Len(Lines(t)) : j \in {3 * i - 1, 3 * i, 3 * i + 1}
<1> DEFINE L == Len(Lines(t))
<1>1. L \in Nat /\ Len(Execute[t]) = 1 + 3 * L
  BY OrderLines, OrderAssignments
<1> HIDE DEF L
<1>2. CASE j > 1
  <2> DEFINE i == ((j - 2) \div 3) + 1
  <2>1. i \in 1..L /\ j \in {3 * i - 1, 3 * i, 3 * i + 1}
    BY <1>1, <1>2
  <2> QED
    BY <2>1 DEF L
<1>3. QED
  BY <1>1, <1>2

(* The record a key leads to is one, but for the stock of item -1.         *)
LEMMA RecordsOfKeys ==
  ASSUME NEW t \in Txn, NEW k \in ReadSet(t) \cup ReadWriteSet(t), Record(k)[1] = "s" => Record(k)[3] \in Nat
  PROVE  Record(k) \in Records
<1>1. Record(k) \in {Record(l) : l \in UNION {ReadSet(u) \cup ReadWriteSet(u) : u \in Txn}}
  OBVIOUS
<1>2. \A u \in Txn : Stock(Request[u], -1)[1] = "s" /\ Stock(Request[u], -1)[3] = -1
  BY DEF Stock
<1>3. Record(k) \notin {Stock(Request[u], -1) : u \in Txn}
  BY <1>2
<1>4. QED
  BY <1>1, <1>3 DEF Records

LEMMA OrderSound ==
  ASSUME NEW t \in Txn, IsOrder(t), NEW j \in 1..Len(Execute[t])
  PROVE  Sound(t, Execute[t][j])
<1> DEFINE r == Request[t]
<1>1. ReadWriteSet(t) = {District(r)} \cup {Stock(r, item) : item \in Items(r)}
  BY DEF ReadWriteSet, IsOrder
<1>2. CASE j = 1
  <2> DEFINE k == District(r)
  <2>1. k = <<"d", r.warehouse, r.district>> /\ k[1] = "d" /\ Record(k) = k /\ k \in ReadWriteSet(t)
    BY <1>1 DEF District, Record
  <2>2. k \in Records
    BY <2>1, RecordsOfKeys
  <2>3. Execute[t][j] = [record |-> k, field |-> "next_order_id", op |-> "add", n |-> 1]
    BY <1>2, <2>1, OrderAssignments DEF Add, Assignment
  <2> HIDE DEF k
  <2>4. Guard(k, "next_order_id") = k
    BY <2>1 DEF Guard
  <2>5. QED
    BY <2>1, <2>2, <2>3, <2>4 DEF Sound, Fields
<1>3. CASE j # 1
  <2>1. PICK i \in 1..Len(Lines(t)) : j \in {3 * i - 1, 3 * i, 3 * i + 1}
    BY <1>3, OrderPlaces
  <2> DEFINE item == Lines(t)[i].item  n == Lines(t)[i].quantity  k == Stock(r, item)
  <2>2. item \in Nat /\ item \in Items(r) /\ n \in 1..10
    BY OrderLines DEF Line
  <2>3. k[1] = "s" /\ k[3] = item /\ Record(k) = k /\ k \in ReadWriteSet(t)
    BY <1>1, <2>2 DEF Stock, Record
  <2>4. k \in Records
    BY <2>2, <2>3, RecordsOfKeys
  <2>5. \A field : Guard(k, field) = k
    BY <2>3 DEF Guard
  <2>6. \/ Execute[t][j] = [record |-> k, field |-> "year_to_date", op |-> "add", n |-> n]
        \/ Execute[t][j] = [record |-> k, field |-> "order_count", op |-> "add", n |-> -1]
        \/ Execute[t][j] = [record |-> k, field |-> "quantity", op |-> "restock", n |-> n]
    <3>1. \/ Execute[t][j] = Add(k, "year_to_date", n)
          \/ Execute[t][j] = Add(k, "order_count", -1)
          \/ Execute[t][j] = Assignment(k, "quantity", "restock", n)
      BY <2>1, OrderAssignments
    <3>2. QED
      BY <2>3, <3>1 DEF Add, Assignment
  <2> HIDE DEF k, item, n
  <2>7. QED
    BY <2>2, <2>3, <2>4, <2>5, <2>6 DEF Sound, Fields
<1>4. QED
  BY <1>2, <1>3

LEMMA PaymentSound ==
  ASSUME NEW t \in Txn, Request[t].type = "PAYMENT", NEW j \in 1..Len(Execute[t])
  PROVE  Sound(t, Execute[t][j])
<1> DEFINE r == Request[t]  w == WarehouseY(r)  d == DistrictY(r)  c == Customer(r)
<1>1. ReadWriteSet(t) = {w, d, c}
  BY DEF ReadWriteSet
<1>2. /\ w = <<"wy", r.warehouse>> /\ Record(w) = <<"w", r.warehouse>>
      /\ d = <<"dy", r.warehouse, r.district>> /\ Record(d) = <<"d", r.warehouse, r.district>>
      /\ c = <<"c", r.warehouse, r.district, r.customer>> /\ Record(c) = c
  BY DEF WarehouseY, DistrictY, Customer, Record
<1>3. Record(w) \in Records /\ Record(d) \in Records /\ Record(c) \in Records
  BY <1>1, <1>2, RecordsOfKeys
<1>4. r.amount \in Int /\ - r.amount \in Int
  BY TPCCAssumption
<1>5. Execute[t] = PaymentTxn(r)
  BY DEF Execute
<1>6. /\ Guard(Record(w), "year_to_date") = w /\ Guard(Record(d), "year_to_date") = d
      /\ \A field : Guard(c, field) = c
  BY <1>2 DEF Guard
<1>7. \/ Execute[t][j] = [record |-> Record(w), field |-> "year_to_date", op |-> "add", n |-> r.amount]
      \/ Execute[t][j] = [record |-> Record(d), field |-> "year_to_date", op |-> "add", n |-> r.amount]
      \/ Execute[t][j] = [record |-> c, field |-> "balance", op |-> "add", n |-> - r.amount]
      \/ Execute[t][j] = [record |-> c, field |-> "year_to_date_payment", op |-> "add", n |-> r.amount]
      \/ Execute[t][j] = [record |-> c, field |-> "payment_count", op |-> "add", n |-> 1]
  <2> DEFINE made ==
        << [record |-> Record(w), field |-> "year_to_date", op |-> "add", n |-> r.amount],
           [record |-> Record(d), field |-> "year_to_date", op |-> "add", n |-> r.amount],
           [record |-> c, field |-> "balance", op |-> "add", n |-> - r.amount],
           [record |-> c, field |-> "year_to_date_payment", op |-> "add", n |-> r.amount],
           [record |-> c, field |-> "payment_count", op |-> "add", n |-> 1] >>
  <2> HIDE DEF w, d, c
  <2>1. Execute[t] = made
    BY <1>2, <1>5 DEF PaymentTxn, Add, Assignment, w, d, c
  <2>2. j = 1 \/ j = 2 \/ j = 3 \/ j = 4 \/ j = 5
    BY <2>1
  <2>3. QED
    BY <2>1, <2>2
<1>8. Record(w)[1] = "w" /\ Record(d)[1] = "d" /\ c[1] = "c"
  BY <1>2
<1> HIDE DEF w, d, c
<1>9. c \in Records
  BY <1>2, <1>3
<1>10. w \in ReadWriteSet(t) /\ d \in ReadWriteSet(t) /\ c \in ReadWriteSet(t)
  BY <1>1
<1>11. QED
  BY <1>3, <1>4, <1>6, <1>7, <1>8, <1>9, <1>10, SMTT(20) DEF Sound, Fields

(* Every assignment is to a field whose guard the transaction locks.       *)
LEMMA AssignmentsSound ==
  ASSUME NEW t \in Txn
  PROVE  /\ Len(Execute[t]) \in Nat
         /\ \A j \in 1..Len(Execute[t]) : Sound(t, Execute[t][j])
<1>1. CASE IsOrder(t)
  <2>1. Len(Lines(t)) \in Nat /\ Len(Execute[t]) = 1 + 3 * Len(Lines(t))
    BY <1>1, OrderLines, OrderAssignments
  <2>2. QED
    BY <1>1, <2>1, OrderSound
<1>2. CASE Request[t].type = "PAYMENT"
  <2>1. Len(Execute[t]) = 5
    BY <1>2 DEF Execute, PaymentTxn
  <2>2. QED
    BY <1>2, <2>1, PaymentSound
<1>3. CASE Request[t].type = "ORDER_STATUS"
  <2>1. Execute[t] = <<>>
    BY <1>3 DEF Execute
  <2>2. QED
    BY <2>1
<1>4. QED
  BY <1>1, <1>2, <1>3, TPCCAssumption DEF IsOrder

(* Of two transactions that change the same field, one waits for the other.*)
LEMMA SameFieldConflicts ==
  ASSUME NEW s \in Txn, NEW t \in Txn, s # t, NEW a, NEW b, Sound(s, a), Sound(t, b),
         a.record = b.record, a.field = b.field
  PROVE  <<s, t>> \in Conflict
BY DEF Sound, Conflict, Conflicting

-----------------------------------------------------------------------------
(***************************************************************************)
(* The inductive invariant.                                                *)
(***************************************************************************)

LockingInv == Locks!TypeOK /\ Locks!Ordered

(* How far a transaction is.                                               *)
Places ==
  /\ pc \in [Txn -> Nat] /\ register = [t \in Txn |-> register[t]]
  /\ \A t \in Txn :
       /\ pc[t] <= Len(Execute[t])
       /\ status[t] \notin {"running", "done"} => pc[t] = 0
       /\ status[t] = "done" => pc[t] = Len(Execute[t])
       /\ register[t] # <<>> => status[t] = "running" /\ pc[t] < Len(Execute[t])

RecordType(k) ==
  CASE k[1] = "w" -> [year_to_date : Int]
    [] k[1] = "d" -> [year_to_date : Int, next_order_id : Int]
    [] k[1] = "c" -> [balance : Int, year_to_date_payment : Int, payment_count : Int]
    [] k[1] = "s" -> [quantity : Int, year_to_date : Int, order_count : Int]

DataTypes ==
  /\ data = [k \in Records |-> data[k]]
  /\ \A k \in Records : data[k] \in RecordType(k)

(* No update is lost: what a transaction has loaded is still there when it *)
(* stores what it makes of it.                                             *)
LoadsFresh ==
  \A t \in Txn : register[t] # <<>> =>
    register[t] = <<data[NextAssignment(t).record][NextAssignment(t).field]>>

(* After p assignments, t is between the two fields of stock k that a line *)
(* of n changes.                                                           *)
SellingAt(t, p, k, n) ==
  /\ IsOrder(t)
  /\ \E i \in 1..Len(Lines(t)) :
       /\ p \in {3 * i - 1, 3 * i}
       /\ k = Stock(Request[t], Lines(t)[i].item) /\ n = Lines(t)[i].quantity

Selling(t, k, n) == SellingAt(t, pc[t], k, n)

(* What is missing of stock k when n of it have been counted as sold and   *)
(* not taken out.                                                          *)
Missing(k, n) == (data[k].quantity + data[k].year_to_date - n - Quantity) % 91

StocksExact ==
  \A k \in Records : k[1] = "s" =>
    /\ data[k].quantity \in 10..199
    /\ \A t \in Txn, n \in 1..10 : Selling(t, k, n) => Missing(k, n) = 0
    /\ (\A t \in Txn, n \in 1..10 : ~ Selling(t, k, n)) => Missing(k, 0) = 0

(* The orders that have taken an id in district k.                         *)
Ordered(k) == {t \in Txn : IsOrder(t) /\ pc[t] >= 1 /\ District(Request[t]) = k}

OrdersCounted ==
  \A k \in Records : k[1] = "d" => data[k].next_order_id = 1 + Cardinality(Ordered(k))

AllRows == UNION {ToSet(Added(t)) : t \in Txn}

RowsInv == rows \in Seq(AllRows) /\ RowsExact

TPCCInv ==
  /\ LockingInv /\ Places /\ DataTypes /\ LoadsFresh
  /\ StocksExact /\ OrdersCounted /\ RowsInv

-----------------------------------------------------------------------------
(***************************************************************************)
(* The locks, and the steps that assign nothing.                           *)
(***************************************************************************)

LEMMA ConflictsAreMutual == Locks!ConflictAssumption
BY DEF Locks!ConflictAssumption, Conflict, Conflicting

LEMMA SubmitKeepsLocking ==
  ASSUME LockingInv, NEW t \in Txn, Locks!Submit(t)
  PROVE  LockingInv'
<1> DEFINE before == {s \in Locks!Outstanding : <<s, t>> \in Conflict}
<1>1. Locks!TypeOK'
  BY DEF LockingInv, Locks!TypeOK, Locks!Submit, Locks!Outstanding
<1>2. Locks!Outstanding' = Locks!Outstanding \cup {t} /\ t \notin Locks!Outstanding
  BY DEF LockingInv, Locks!TypeOK, Locks!Submit, Locks!Outstanding
<1>3. /\ blockers'[t] = before
      /\ \A u \in Txn \ {t} : blockers'[u] = blockers[u] /\ status'[u] = status[u]
  BY DEF LockingInv, Locks!TypeOK, Locks!Submit
<1>4. status'[t] \in {"ready", "running"} => before = {}
  BY DEF LockingInv, Locks!TypeOK, Locks!Submit
<1>5. Locks!Outstanding \subseteq Txn
  BY DEF Locks!Outstanding
<1>6. ASSUME NEW r \in Locks!Outstanding', NEW u \in Locks!Outstanding', <<r, u>> \in Conflict
      PROVE  r \in blockers'[u] \/ u \in blockers'[r]
  <2>1. r # u /\ <<u, r>> \in Conflict
    BY <1>6, ConflictsAreMutual DEF Locks!ConflictAssumption, Conflict
  <2>2. CASE u = t \/ r = t
    BY <1>2, <1>3, <1>6, <2>1, <2>2
  <2>3. CASE u # t /\ r # t
    BY <1>2, <1>3, <1>5, <1>6, <2>3 DEF LockingInv, Locks!Ordered
  <2> QED
    BY <2>2, <2>3
<1>7. \A u \in Txn : blockers'[u] \subseteq Locks!Outstanding'
  BY <1>2, <1>3 DEF LockingInv, Locks!Ordered
<1>8. \A u \in Txn : status'[u] \in {"ready", "running"} => blockers'[u] = {}
  BY <1>3, <1>4 DEF LockingInv, Locks!Ordered
<1>9. QED
  BY <1>1, <1>6, <1>7, <1>8 DEF LockingInv, Locks!Ordered

LEMMA StartKeepsLocking ==
  ASSUME LockingInv, NEW t \in Txn, Locks!Start(t)
  PROVE  LockingInv'
<1>1. Locks!Outstanding' = Locks!Outstanding
  BY DEF LockingInv, Locks!TypeOK, Locks!Start, Locks!Outstanding
<1> QED
  BY <1>1 DEF LockingInv, Locks!TypeOK, Locks!Ordered, Locks!Start

LEMMA FinishKeepsLocking ==
  ASSUME LockingInv, NEW t \in Txn, Locks!Finish(t)
  PROVE  LockingInv'
<1>1. Locks!TypeOK'
  BY DEF LockingInv, Locks!TypeOK, Locks!Finish
<1>2. Locks!Outstanding' = Locks!Outstanding \ {t} /\ Locks!Outstanding \subseteq Txn
  BY DEF LockingInv, Locks!TypeOK, Locks!Finish, Locks!Outstanding
<1>3. \A u \in Txn : blockers'[u] = IF u = t THEN {} ELSE blockers[u] \ {t}
  BY DEF Locks!Finish
<1>4. ASSUME NEW u \in Txn, status'[u] \in {"ready", "running"}
      PROVE  blockers'[u] = {}
  <2>1. u # t
    BY <1>4 DEF LockingInv, Locks!TypeOK, Locks!Finish
  <2>2. status[u] \in {"ready", "running"} \/ blockers[u] \ {t} = {}
    BY <1>4, <2>1 DEF Locks!Finish
  <2> QED
    BY <1>3, <2>1, <2>2 DEF LockingInv, Locks!Ordered
<1>5. ASSUME NEW r \in Locks!Outstanding', NEW u \in Locks!Outstanding', <<r, u>> \in Conflict
      PROVE  r \in blockers'[u] \/ u \in blockers'[r]
  BY <1>2, <1>3, <1>5 DEF LockingInv, Locks!Ordered
<1>6. \A u \in Txn : blockers'[u] \subseteq Locks!Outstanding'
  BY <1>2, <1>3 DEF LockingInv, Locks!Ordered
<1>7. Locks!Ordered'
  BY <1>4, <1>5, <1>6 DEF Locks!Ordered
<1> QED
  BY <1>1, <1>7 DEF LockingInv

(* Two transactions that run do not conflict.                              *)
LEMMA RunningApart ==
  ASSUME LockingInv, NEW s \in Txn, NEW t \in Txn, status[s] = "running", status[t] = "running"
  PROVE  <<s, t>> \notin Conflict
BY DEF LockingInv, Locks!Ordered, Locks!Outstanding

(* Steps that change no data and make no assignment.                       *)
LEMMA NothingAssigned ==
  ASSUME TPCCInv, UNCHANGED <<data, pc, register>>, LockingInv', Places', RowsInv'
  PROVE  TPCCInv'
<1>1. DataTypes' /\ LoadsFresh'
  BY DEF TPCCInv, DataTypes, LoadsFresh, NextAssignment
<1>2. StocksExact'
  BY DEF TPCCInv, StocksExact, Selling, Missing
<1>3. OrdersCounted'
  BY DEF TPCCInv, OrdersCounted, Ordered
<1>4. QED
  BY <1>1, <1>2, <1>3 DEF TPCCInv

LEMMA SubmitPreserves ==
  ASSUME TPCCInv, NEW t \in Txn, Submit(t)
  PROVE  TPCCInv'
<1>1. LockingInv'
  BY SubmitKeepsLocking DEF TPCCInv, Submit
<1>2. /\ UNCHANGED <<data, pc, register, rows>> /\ status[t] = "new"
      /\ status'[t] \in {"ready", "waiting"} /\ \A u \in Txn \ {t} : status'[u] = status[u]
  BY DEF TPCCInv, Submit, Locks!Submit, LockingInv, Locks!TypeOK
<1>3. Places'
  BY <1>2 DEF TPCCInv, Places
<1>4. {u \in Txn : status'[u] = "done"} = {u \in Txn : status[u] = "done"}
  BY <1>2
<1>5. RowsInv'
  BY <1>2, <1>4 DEF TPCCInv, RowsInv, RowsExact
<1>6. QED
  BY <1>1, <1>2, <1>3, <1>5, NothingAssigned

LEMMA StartPreserves ==
  ASSUME TPCCInv, NEW t \in Txn, Start(t)
  PROVE  TPCCInv'
<1>1. LockingInv'
  BY StartKeepsLocking DEF TPCCInv, Start
<1>2. /\ UNCHANGED <<data, pc, register, rows>> /\ status[t] = "ready"
      /\ status'[t] = "running" /\ \A u \in Txn \ {t} : status'[u] = status[u]
  BY DEF TPCCInv, Start, Locks!Start, LockingInv, Locks!TypeOK
<1>3. Places'
  BY <1>2, AssignmentsSound DEF TPCCInv, Places
<1>4. {u \in Txn : status'[u] = "done"} = {u \in Txn : status[u] = "done"}
  BY <1>2
<1>5. RowsInv'
  BY <1>2, <1>4 DEF TPCCInv, RowsInv, RowsExact
<1>6. QED
  BY <1>1, <1>2, <1>3, <1>5, NothingAssigned

(* Nobody else changes what t has loaded, as it is the first to store.     *)
LEMMA LoadPreserves ==
  ASSUME TPCCInv, NEW t \in Txn, Load(t)
  PROVE  TPCCInv'
<1> DEFINE a == NextAssignment(t)
<1>1. /\ UNCHANGED <<status, blockers, data, pc, rows>>
      /\ status[t] = "running" /\ pc[t] < Len(Execute[t])
      /\ register' = [register EXCEPT ![t] = <<data[a.record][a.field]>>]
  BY DEF Load, locking
<1>2. register'[t] = <<data[a.record][a.field]>> /\ \A u \in Txn \ {t} : register'[u] = register[u]
  BY <1>1 DEF TPCCInv, Places
<1>3. LockingInv' /\ DataTypes' /\ RowsInv'
  BY <1>1 DEF TPCCInv, LockingInv, Locks!TypeOK, Locks!Ordered, Locks!Outstanding,
              DataTypes, RowsInv, RowsExact
<1>4. StocksExact' /\ OrdersCounted'
  BY <1>1 DEF TPCCInv, StocksExact, Selling, Missing, OrdersCounted, Ordered
<1>5. Places'
  <2>1. register' = [u \in Txn |-> register'[u]]
    BY <1>1 DEF TPCCInv, Places
  <2>2. QED
    BY <1>1, <1>2, <2>1 DEF TPCCInv, Places
<1>6. LoadsFresh'
  <2>1. \A u \in Txn : NextAssignment(u)' = NextAssignment(u)
    BY <1>1 DEF NextAssignment
  <2>2. QED
    BY <1>1, <1>2, <2>1 DEF TPCCInv, LoadsFresh
<1>7. QED
  BY <1>3, <1>4, <1>5, <1>6 DEF TPCCInv

-----------------------------------------------------------------------------
(***************************************************************************)
(* The rows.                                                               *)
(***************************************************************************)

IdOf(row) == CASE row[1] = "no" -> row[4] [] row[1] = "o" -> row[5] [] row[1] = "h" -> row[3]

LEMMA AddedRows ==
  ASSUME NEW t \in Txn
  PROVE  /\ Added(t) \in Seq(AllRows) /\ IsInjective(Added(t))
         /\ \A e \in ToSet(Added(t)) : IdOf(e) = t
<1> DEFINE r == Request[t]
<1>1. CASE IsOrder(t) /\ Valid(r)
  <2> DEFINE a == NewOrder(r, t)  b == Order(r, t)
  <2>1. Added(t) = <<a, b>>
    BY <1>1 DEF Added, IsOrder
  <2>2. a[1] = "no" /\ b[1] = "o" /\ IdOf(a) = t /\ IdOf(b) = t
    BY DEF NewOrder, Order, IdOf
  <2> HIDE DEF a, b
  <2>3. ToSet(Added(t)) = {a, b} /\ IsInjective(Added(t))
    BY <2>1, <2>2 DEF ToSet, IsInjective
  <2>4. a \in AllRows /\ b \in AllRows
    BY <2>3 DEF AllRows
  <2>5. QED
    BY <2>1, <2>2, <2>3, <2>4
<1>2. CASE r.type = "PAYMENT"
  <2> DEFINE a == History(r, t)
  <2>1. Added(t) = <<a>>
    BY <1>2 DEF Added
  <2>2. IdOf(a) = t
    BY DEF History, IdOf
  <2> HIDE DEF a
  <2>3. ToSet(Added(t)) = {a} /\ IsInjective(Added(t))
    BY <2>1 DEF ToSet, IsInjective
  <2>4. a \in AllRows
    BY <2>3 DEF AllRows
  <2>5. QED
    BY <2>1, <2>2, <2>3, <2>4
<1>3. CASE ~ (IsOrder(t) /\ Valid(r)) /\ r.type # "PAYMENT"
  <2>1. Added(t) = <<>>
    BY <1>3 DEF Added, IsOrder
  <2>2. QED
    BY <2>1 DEF ToSet, IsInjective
<1>4. QED
  BY <1>1, <1>2, <1>3

LEMMA ConcatRows ==
  ASSUME NEW S, NEW p \in Seq(S), NEW q \in Seq(S)
  PROVE  /\ ToSet(p \o q) = ToSet(p) \cup ToSet(q)
         /\ IsInjective(p) /\ IsInjective(q) /\ ToSet(p) \cap ToSet(q) = {} => IsInjective(p \o q)
<1> DEFINE r == p \o q  m == Len(p)  n == Len(q)
<1>1. /\ m \in Nat /\ n \in Nat /\ DOMAIN p = 1..m /\ DOMAIN q = 1..n
      /\ r \in Seq(S) /\ Len(r) = m + n /\ DOMAIN r = 1..(m + n)
      /\ \A i \in 1..(m + n) : r[i] = IF i <= m THEN p[i] ELSE q[i - m]
  BY ConcatProperties, LenProperties
<1> HIDE DEF r, m, n
<1>2. /\ \A i \in 1..m : i \in 1..(m + n) /\ r[i] = p[i]
      /\ \A i \in 1..n : i + m \in 1..(m + n) /\ r[i + m] = q[i]
  <2>1. \A i \in 1..n : i + m \in 1..(m + n) /\ ~ (i + m <= m) /\ (i + m) - m = i
    BY <1>1
  <2>2. \A i \in 1..m : i \in 1..(m + n) /\ i <= m
    BY <1>1
  <2>3. QED
    BY <1>1, <2>1, <2>2
<1>3. /\ ToSet(r) = {r[i] : i \in 1..(m + n)}
      /\ ToSet(p) = {p[i] : i \in 1..m} /\ ToSet(q) = {q[i] : i \in 1..n}
  BY <1>1 DEF ToSet
<1>4. \A i \in 1..(m + n) :
        \/ i \in 1..m /\ r[i] = p[i] /\ r[i] \in ToSet(p)
        \/ i - m \in 1..n /\ r[i] = q[i - m] /\ r[i] \in ToSet(q)
  <2> TAKE i \in 1..(m + n)
  <2>1. CASE i <= m
    <3>1. i \in 1..m
      BY <1>1, <2>1
    <3>2. QED
      BY <1>2, <1>3, <3>1
  <2>2. CASE ~ (i <= m)
    <3>1. i - m \in 1..n
      BY <1>1, <2>2
    <3>2. r[i] = q[i - m]
      BY <1>1, <2>2
    <3>3. QED
      BY <1>3, <3>1, <3>2
  <2>3. QED
    BY <2>1, <2>2
<1>5. ToSet(r) = ToSet(p) \cup ToSet(q)
  <2>1. \A x \in ToSet(r) : x \in ToSet(p) \cup ToSet(q)
    BY <1>3, <1>4
  <2>2. \A x \in ToSet(p) : x \in ToSet(r)
    BY <1>2, <1>3
  <2>3. \A x \in ToSet(q) : x \in ToSet(r)
    BY <1>2, <1>3
  <2>4. QED
    BY <2>1, <2>2, <2>3
<1>6. ASSUME IsInjective(p), IsInjective(q), ToSet(p) \cap ToSet(q) = {},
             NEW i \in 1..(m + n), NEW j \in 1..(m + n), r[i] = r[j]
      PROVE  i = j
  <2>1. CASE i \in 1..m /\ r[i] = p[i] /\ r[i] \in ToSet(p)
    BY <1>1, <1>4, <1>6, <2>1 DEF IsInjective
  <2>2. CASE i - m \in 1..n /\ r[i] = q[i - m] /\ r[i] \in ToSet(q)
    <3>1. j - m \in 1..n /\ r[j] = q[j - m]
      BY <1>4, <1>6, <2>2
    <3>2. i - m = j - m
      BY <1>1, <1>6, <2>2, <3>1 DEF IsInjective
    <3>3. QED
      BY <1>1, <3>2
  <2>3. QED
    BY <1>4, <2>1, <2>2
<1>7. QED
  BY <1>1, <1>5, <1>6 DEF r, IsInjective

LEMMA ReturnPreserves ==
  ASSUME TPCCInv, NEW t \in Txn, Return(t)
  PROVE  TPCCInv'
<1>1. LockingInv'
  BY FinishKeepsLocking DEF TPCCInv, Return
<1>2. /\ UNCHANGED <<data, pc, register>> /\ rows' = rows \o Added(t)
      /\ status[t] = "running" /\ register[t] = <<>> /\ pc[t] = Len(Execute[t])
  BY DEF Return
<1>3. /\ status'[t] = "done"
      /\ \A u \in Txn \ {t} :
           status'[u] = status[u] \/ (status[u] = "waiting" /\ status'[u] = "ready")
  BY DEF TPCCInv, Return, Locks!Finish, LockingInv, Locks!TypeOK
<1>4. Places'
  BY <1>2, <1>3 DEF TPCCInv, Places
<1> DEFINE Finished == {u \in Txn : status[u] = "done"}
<1>5. {u \in Txn : status'[u] = "done"} = Finished \cup {t} /\ t \notin Finished
  BY <1>2, <1>3
<1>6. rows \in Seq(AllRows) /\ IsInjective(rows) /\ ToSet(rows) = UNION {ToSet(Added(u)) : u \in Finished}
  BY DEF TPCCInv, RowsInv, RowsExact
<1>7. ToSet(rows) \cap ToSet(Added(t)) = {}
  BY <1>5, <1>6, AddedRows
<1>8. rows' \in Seq(AllRows) /\ IsInjective(rows') /\ ToSet(rows') = ToSet(rows) \cup ToSet(Added(t))
  BY <1>2, <1>6, <1>7, AddedRows, ConcatRows, ConcatProperties
<1>9. ToSet(rows') = UNION {ToSet(Added(u)) : u \in Finished \cup {t}}
  BY <1>6, <1>8
<1>10. RowsInv'
  BY <1>5, <1>8, <1>9 DEF RowsInv, RowsExact
<1>11. QED
  BY <1>1, <1>2, <1>4, <1>10, NothingAssigned

-----------------------------------------------------------------------------
(***************************************************************************)
(* Stores.                                                                 *)
(***************************************************************************)

LEMMA RecordKinds ==
  /\ \A k \in Records : k[1] \in {"w", "d", "c", "s"}
  /\ Records \cap {Stock(Request[t], -1) : t \in Txn} = {}
<1>1. ASSUME NEW t \in Txn, NEW k \in ReadSet(t) \cup ReadWriteSet(t)
      PROVE  Record(k)[1] \in {"w", "d", "c", "s"}
  BY <1>1, TPCCAssumption
     DEF ReadSet, ReadWriteSet, Record, Warehouse, District, Customer, Stock, WarehouseY, DistrictY
<1>2. QED
  BY <1>1 DEF Records

(* What a store does: one field gets what is made of its present value.    *)
LEMMA StoreEffect ==
  ASSUME TPCCInv, NEW t \in Txn, Store(t)
  PROVE  LET a == NextAssignment(t)
             k == a.record
         IN /\ status[t] = "running" /\ pc[t] < Len(Execute[t]) /\ Sound(t, a)
            /\ pc' = [pc EXCEPT ![t] = @ + 1] /\ register' = [register EXCEPT ![t] = <<>>]
            /\ UNCHANGED <<order, status, blockers, rows>>
            /\ DOMAIN data' = Records /\ \A l \in Records \ {k} : data'[l] = data[l]
            /\ data'[k] = [data[k] EXCEPT ![a.field] = Assigned(data[k][a.field], a)]
<1> DEFINE a == NextAssignment(t)  k == a.record
<1>1. register[t] # <<>>
  BY DEF Store
<1>2. status[t] = "running" /\ pc[t] < Len(Execute[t])
  BY <1>1 DEF TPCCInv, Places
<1>3. pc[t] \in Nat /\ Len(Execute[t]) \in Nat
  BY AssignmentsSound DEF TPCCInv, Places
<1>4. Sound(t, a)
  <2>1. pc[t] + 1 \in 1..Len(Execute[t])
    BY <1>2, <1>3
  <2>2. QED
    BY <2>1, AssignmentsSound DEF NextAssignment
<1>5. register[t][1] = data[k][a.field]
  BY <1>1 DEF TPCCInv, LoadsFresh
<1>6. data' = [data EXCEPT ![k][a.field] = Assigned(register[t][1], a)]
  BY DEF Store
<1>7. k \in Records /\ DOMAIN data = Records
  BY <1>4 DEF Sound, TPCCInv, DataTypes
<1>8. UNCHANGED <<order, status, blockers, rows>>
  BY DEF Store, locking
<1>9. /\ pc' = [pc EXCEPT ![t] = @ + 1] /\ register' = [register EXCEPT ![t] = <<>>]
  BY DEF Store
<1> HIDE DEF a, k
<1>10. /\ DOMAIN data' = Records /\ \A l \in Records \ {k} : data'[l] = data[l]
       /\ data'[k] = [data[k] EXCEPT ![a.field] = Assigned(data[k][a.field], a)]
  BY <1>5, <1>6, <1>7
<1>11. QED
  BY <1>2, <1>4, <1>8, <1>9, <1>10 DEF a, k

LEMMA StoreKeepsTypes ==
  ASSUME TPCCInv, NEW t \in Txn, Store(t)
  PROVE  DataTypes'
<1> DEFINE a == NextAssignment(t)  k == a.record  v == Assigned(data[k][a.field], a)
<1>1. /\ Sound(t, a) /\ k \in Records /\ data[k] \in RecordType(k)
      /\ DOMAIN data' = Records /\ \A l \in Records \ {k} : data'[l] = data[l]
      /\ data'[k] = [data[k] EXCEPT ![a.field] = v]
  BY StoreEffect DEF Sound, TPCCInv, DataTypes
<1>2. <<k[1], a.field>> \in Fields /\ a.n \in Int /\ a.op \in {"add", "restock"}
  BY <1>1 DEF Sound
<1>3. data[k][a.field] \in Int
  BY <1>1, <1>2 DEF RecordType, Fields
<1>4. v \in Int
  BY <1>2, <1>3 DEF Assigned, Restocked
<1> HIDE DEF v
<1>5. data'[k] \in RecordType(k)
  BY <1>1, <1>2, <1>4 DEF RecordType, Fields
<1>6. data' = [l \in Records |-> data'[l]]
  <2>1. data' = [data EXCEPT ![k][a.field] = Assigned(register[t][1], a)]
    BY DEF Store
  <2>2. QED
    BY <1>1, <2>1 DEF TPCCInv, DataTypes
<1>7. QED
  BY <1>1, <1>5, <1>6 DEF TPCCInv, DataTypes

LEMMA StoreKeepsPlaces ==
  ASSUME TPCCInv, NEW t \in Txn, Store(t)
  PROVE  /\ Places' /\ LockingInv' /\ RowsInv'
         /\ pc'[t] = pc[t] + 1 /\ register'[t] = <<>>
         /\ \A u \in Txn \ {t} : pc'[u] = pc[u] /\ register'[u] = register[u]
<1>1. /\ status[t] = "running" /\ pc[t] < Len(Execute[t]) /\ UNCHANGED <<status, blockers, rows>>
      /\ pc' = [pc EXCEPT ![t] = @ + 1] /\ register' = [register EXCEPT ![t] = <<>>]
  BY StoreEffect
<1>2. LockingInv' /\ RowsInv'
  BY <1>1 DEF TPCCInv, LockingInv, Locks!TypeOK, Locks!Ordered, Locks!Outstanding, RowsInv, RowsExact
<1>3. /\ pc'[t] = pc[t] + 1 /\ register'[t] = <<>>
      /\ \A u \in Txn \ {t} : pc'[u] = pc[u] /\ register'[u] = register[u]
  BY <1>1 DEF TPCCInv, Places
<1>4. pc[t] \in Nat /\ Len(Execute[t]) \in Nat
  BY AssignmentsSound DEF TPCCInv, Places
<1>5. Places'
  <2>1. pc' \in [Txn -> Nat] /\ register' = [u \in Txn |-> register'[u]]
    <3>1. pc \in [Txn -> Nat] /\ register = [u \in Txn |-> register[u]] /\ pc[t] + 1 \in Nat
      BY <1>4 DEF TPCCInv, Places
    <3>2. pc' \in [Txn -> Nat]
      BY <1>1, <3>1
    <3>3. register' = [u \in Txn |-> register'[u]]
      BY <1>1, <3>1
    <3>4. QED
      BY <3>2, <3>3
  <2>2. ASSUME NEW u \in Txn
        PROVE  /\ pc'[u] <= Len(Execute[u])
               /\ status'[u] \notin {"running", "done"} => pc'[u] = 0
               /\ status'[u] = "done" => pc'[u] = Len(Execute[u])
               /\ register'[u] # <<>> => status'[u] = "running" /\ pc'[u] < Len(Execute[u])
    <3>1. CASE u = t
      BY <1>1, <1>3, <1>4, <3>1
    <3>2. CASE u # t
      BY <1>1, <1>3, <3>2 DEF TPCCInv, Places
    <3>3. QED
      BY <3>1, <3>2
  <2>3. QED
    BY <2>1, <2>2 DEF Places
<1>6. QED
  BY <1>2, <1>3, <1>5

(* A transaction that has loaded a field and not stored it is alone with   *)
(* it: a store is to another field.                                        *)
LEMMA StoreKeepsFresh ==
  ASSUME TPCCInv, NEW t \in Txn, Store(t)
  PROVE  LoadsFresh'
<1> DEFINE a == NextAssignment(t)
<1> SUFFICES ASSUME NEW u \in Txn, register'[u] # <<>>
             PROVE  register'[u] = <<data'[NextAssignment(u)'.record][NextAssignment(u)'.field]>>
  BY DEF LoadsFresh
<1> DEFINE b == NextAssignment(u)
<1>1. u # t /\ register'[u] = register[u] /\ pc'[u] = pc[u]
  BY StoreKeepsPlaces
<1>2. NextAssignment(u)' = b
  BY <1>1 DEF NextAssignment
<1>3. status[u] = "running" /\ pc[u] + 1 \in 1..Len(Execute[u])
  <2>1. status[u] = "running" /\ pc[u] < Len(Execute[u]) /\ pc[u] \in Nat /\ Len(Execute[u]) \in Nat
    BY <1>1, AssignmentsSound DEF TPCCInv, Places
  <2>2. QED
    BY <2>1
<1>4. Sound(u, b)
  BY <1>3, AssignmentsSound DEF NextAssignment
<1>5. Sound(t, a) /\ status[t] = "running"
  BY StoreEffect
<1>6. ~ (a.record = b.record /\ a.field = b.field)
  <2>1. <<t, u>> \notin Conflict
    BY <1>3, <1>5, RunningApart DEF TPCCInv
  <2>2. QED
    BY <1>1, <1>4, <1>5, <2>1, SameFieldConflicts
<1>7. register[u] = <<data[b.record][b.field]>>
  BY <1>1 DEF TPCCInv, LoadsFresh
<1>8. b.record \in Records /\ <<b.record[1], b.field>> \in Fields
  BY <1>4 DEF Sound
<1>9. data'[b.record][b.field] = data[b.record][b.field]
  <2>1. CASE a.record # b.record
    BY <1>8, <2>1, StoreEffect
  <2>2. CASE a.record = b.record
    <3>1. a.field # b.field
      BY <1>6, <2>2
    <3>2. data'[b.record] = [data[b.record] EXCEPT ![a.field] = Assigned(data[b.record][a.field], a)]
      BY <2>2, StoreEffect
    <3>3. data[b.record] \in RecordType(b.record)
      BY <1>8 DEF TPCCInv, DataTypes
    <3>4. b.field \in DOMAIN data[b.record]
      BY <1>8, <3>3 DEF RecordType, Fields
    <3>5. QED
      BY <3>1, <3>2, <3>4
  <2>3. QED
    BY <2>1, <2>2
<1>10. QED
  BY <1>1, <1>2, <1>7, <1>9

-----------------------------------------------------------------------------
(***************************************************************************)
(* Stocks and order ids.                                                   *)
(***************************************************************************)

LEMMA NextLine ==
  ASSUME Places, NEW t \in Txn, IsOrder(t), pc[t] < Len(Execute[t])
  PROVE  LET a == NextAssignment(t) IN
         \/ pc[t] = 0 /\ a = Add(District(Request[t]), "next_order_id", 1)
         \/ \E i \in 1..Len(Lines(t)) :
              LET k == Stock(Request[t], Lines(t)[i].item)
                  n == Lines(t)[i].quantity
              IN /\ n \in 1..10
                 /\ \/ pc[t] = 3 * i - 2 /\ a = Add(k, "year_to_date", n)
                    \/ pc[t] = 3 * i - 1 /\ a = Add(k, "order_count", -1)
                    \/ pc[t] = 3 * i /\ a = Assignment(k, "quantity", "restock", n)
<1> DEFINE j == pc[t] + 1
<1>1. pc[t] \in Nat /\ Len(Execute[t]) \in Nat /\ j \in 1..Len(Execute[t])
  <2>1. pc[t] \in Nat /\ Len(Execute[t]) \in Nat
    BY AssignmentsSound DEF Places
  <2>2. QED
    BY <2>1
<1>2. NextAssignment(t) = Execute[t][j]
  BY DEF NextAssignment
<1>3. CASE j = 1
  BY <1>1, <1>2, <1>3, OrderAssignments
<1>4. CASE j # 1
  <2>1. PICK i \in 1..Len(Lines(t)) : j \in {3 * i - 1, 3 * i, 3 * i + 1}
    BY <1>1, <1>4, OrderPlaces
  <2>2. Lines(t)[i].quantity \in 1..10
    BY OrderLines DEF Line
  <2>3. i \in Nat
    BY OrderLines
  <2> DEFINE k == Stock(Request[t], Lines(t)[i].item)
             n == Lines(t)[i].quantity
             Change(m) == \/ m = 3 * i - 2 /\ NextAssignment(t) = Add(k, "year_to_date", n)
                          \/ m = 3 * i - 1 /\ NextAssignment(t) = Add(k, "order_count", -1)
                          \/ m = 3 * i /\ NextAssignment(t) = Assignment(k, "quantity", "restock", n)
  <2>4. ASSUME j = 3 * i - 1 PROVE Change(pc[t])
    <3>1. pc[t] = 3 * i - 2
      BY <1>1, <2>3, <2>4
    <3>2. Execute[t][3 * i - 1] = Add(k, "year_to_date", n)
      BY OrderAssignments
    <3>3. QED
      BY <1>2, <2>4, <3>1, <3>2
  <2>5. ASSUME j = 3 * i PROVE Change(pc[t])
    <3>1. pc[t] = 3 * i - 1
      BY <1>1, <2>3, <2>5
    <3>2. Execute[t][3 * i] = Add(k, "order_count", -1)
      BY OrderAssignments
    <3>3. QED
      BY <1>2, <2>5, <3>1, <3>2
  <2>6. ASSUME j = 3 * i + 1 PROVE Change(pc[t])
    <3>1. pc[t] = 3 * i
      BY <1>1, <2>3, <2>6
    <3>2. Execute[t][3 * i + 1] = Assignment(k, "quantity", "restock", n)
      BY OrderAssignments
    <3>3. QED
      BY <1>2, <2>6, <3>1, <3>2
  <2>7. n \in 1..10 /\ Change(pc[t])
    BY <2>1, <2>2, <2>4, <2>5, <2>6
  <2>8. QED
    BY <2>7
<1>5. QED
  BY <1>3, <1>4

(* Who is selling a stock runs, and has the stock's key locked.            *)
LEMMA SellersRun ==
  ASSUME Places, NEW t \in Txn, NEW k, NEW n, Selling(t, k, n)
  PROVE  status[t] = "running" /\ IsOrder(t) /\ k \in ReadWriteSet(t) /\ n \in 1..10 /\ k[1] = "s"
<1>1. PICK i \in 1..Len(Lines(t)) :
        /\ pc[t] \in {3 * i - 1, 3 * i}
        /\ k = Stock(Request[t], Lines(t)[i].item) /\ n = Lines(t)[i].quantity
  BY DEF Selling, SellingAt
<1>2. IsOrder(t)
  BY DEF Selling, SellingAt
<1>3. Len(Lines(t)) \in Nat /\ Len(Execute[t]) = 1 + 3 * Len(Lines(t))
  BY <1>2, OrderLines, OrderAssignments
<1>4. pc[t] # 0 /\ pc[t] # Len(Execute[t])
  BY <1>1, <1>3
<1>5. status[t] = "running"
  BY <1>4 DEF Places
<1>6. k \in ReadWriteSet(t) /\ n \in 1..10 /\ k[1] = "s"
  BY <1>1, <1>2, OrderLines DEF ReadWriteSet, IsOrder, Line, Stock
<1>7. QED
  BY <1>2, <1>5, <1>6

(* Only one transaction at a time is selling a stock, one line of it.      *)
LEMMA OneSeller ==
  ASSUME TPCCInv, NEW s \in Txn, NEW t \in Txn, s # t, NEW k, k \in ReadWriteSet(s),
         status[s] = "running", NEW n
  PROVE  ~ Selling(t, k, n)
<1> SUFFICES ASSUME Selling(t, k, n) PROVE FALSE
  OBVIOUS
<1>1. status[t] = "running" /\ k \in ReadWriteSet(t)
  BY SellersRun DEF TPCCInv
<1>2. <<s, t>> \in Conflict
  BY <1>1 DEF Conflict, Conflicting
<1>3. QED
  BY <1>1, <1>2, RunningApart DEF TPCCInv

LEMMA SellingOf ==
  ASSUME NEW t \in Txn, IsOrder(t), NEW p, NEW k, NEW n
  PROVE  /\ p \in {0, 1} => ~ SellingAt(t, p, k, n)
         /\ \A i \in 1..Len(Lines(t)) :
              /\ p \in {3 * i - 1, 3 * i} =>
                   (SellingAt(t, p, k, n) <=>
                      k = Stock(Request[t], Lines(t)[i].item) /\ n = Lines(t)[i].quantity)
              /\ p \in {3 * i - 2, 3 * i + 1} => ~ SellingAt(t, p, k, n)
<1>1. Len(Lines(t)) \in Nat
  BY OrderLines
<1>2. \A j \in 1..Len(Lines(t)) : p \in {0, 1} => p \notin {3 * j - 1, 3 * j}
  BY <1>1
<1>3. \A i, j \in 1..Len(Lines(t)) :
        /\ p \in {3 * i - 1, 3 * i} /\ p \in {3 * j - 1, 3 * j} => i = j
        /\ p \in {3 * i - 2, 3 * i + 1} => p \notin {3 * j - 1, 3 * j}
  BY <1>1
<1>4. QED
  BY <1>2, <1>3 DEF SellingAt

(* Payments change neither stocks nor order ids.                           *)
LEMMA OthersSpare ==
  ASSUME NEW t \in Txn, ~ IsOrder(t), NEW a, Sound(t, a)
  PROVE  a.record[1] # "s" /\ ~ (a.record[1] = "d" /\ a.field = "next_order_id")
<1>1. \A k \in ReadWriteSet(t) : k[1] \in {"wy", "dy", "c"}
  BY TPCCAssumption DEF IsOrder, ReadWriteSet, WarehouseY, DistrictY, Customer
<1>2. CASE a.record[1] = "s" \/ (a.record[1] = "d" /\ a.field = "next_order_id")
  <2>1. Guard(a.record, a.field) = a.record
    BY <1>2 DEF Guard
  <2>2. QED
    BY <1>1, <1>2, <2>1 DEF Sound
<1>3. QED
  BY <1>2

(* The stock whose fields t changes is the only one of which it is, or was,*)
(* selling anything.                                                       *)
LEMMA SellingElsewhere ==
  ASSUME TPCCInv, NEW t \in Txn, Store(t), NEW k, k # NextAssignment(t).record, NEW n
  PROVE  ~ SellingAt(t, pc[t], k, n) /\ ~ SellingAt(t, pc[t] + 1, k, n)
<1>1. CASE ~ IsOrder(t)
  BY <1>1 DEF SellingAt
<1>2. CASE IsOrder(t)
  <2>1. pc[t] < Len(Execute[t]) /\ Places
    BY StoreEffect DEF TPCCInv
  <2>2. CASE pc[t] = 0
    <3>1. pc[t] \in {0, 1} /\ pc[t] + 1 \in {0, 1}
      BY <2>2
    <3>2. QED
      BY <1>2, <3>1, SellingOf
  <2>3. CASE pc[t] # 0
    <3>1. PICK i \in 1..Len(Lines(t)) :
            /\ NextAssignment(t).record = Record(Stock(Request[t], Lines(t)[i].item))
            /\ pc[t] \in {3 * i - 2, 3 * i - 1, 3 * i}
      BY <1>2, <2>1, <2>3, NextLine DEF Add, Assignment
    <3>2. k # Stock(Request[t], Lines(t)[i].item)
      BY <3>1 DEF Record, Stock
    <3>3. i \in Nat
      BY <1>2, OrderLines
    <3>4. /\ pc[t] \in {3 * i - 2, 3 * i + 1} \/ pc[t] \in {3 * i - 1, 3 * i}
          /\ pc[t] + 1 \in {3 * i - 2, 3 * i + 1} \/ pc[t] + 1 \in {3 * i - 1, 3 * i}
      BY <3>1, <3>3
    <3>5. QED
      BY <1>2, <3>2, <3>4, SellingOf
  <2>4. QED
    BY <2>2, <2>3
<1>3. QED
  BY <1>1, <1>2

(* The three assignments to the stock of a line of n: it is sold, and it   *)
(* has been taken out.                                                     *)
LEMMA SellingHere ==
  ASSUME TPCCInv, NEW t \in Txn, Store(t), NEW k \in Records, k[1] = "s", k = NextAssignment(t).record
  PROVE  LET a == NextAssignment(t) IN
         \E n \in 1..10 :
           \/ /\ a = Add(k, "year_to_date", n)
              /\ \A m : ~ SellingAt(t, pc[t], k, m)
              /\ \A m : SellingAt(t, pc[t] + 1, k, m) <=> m = n
           \/ /\ a = Add(k, "order_count", -1)
              /\ \A m : SellingAt(t, pc[t], k, m) <=> m = n
              /\ \A m : SellingAt(t, pc[t] + 1, k, m) <=> m = n
           \/ /\ a = Assignment(k, "quantity", "restock", n)
              /\ \A m : SellingAt(t, pc[t], k, m) <=> m = n
              /\ \A m : ~ SellingAt(t, pc[t] + 1, k, m)
<1> DEFINE a == NextAssignment(t)
<1>1. pc[t] < Len(Execute[t]) /\ Places /\ Sound(t, a)
  BY StoreEffect DEF TPCCInv
<1>2. IsOrder(t)
  BY <1>1, OthersSpare
<1>3. pc[t] # 0 \/ a # Add(District(Request[t]), "next_order_id", 1)
  BY DEF Add, Assignment, District, Record
<1>4. PICK i \in 1..Len(Lines(t)) :
        LET l == Stock(Request[t], Lines(t)[i].item)
            n == Lines(t)[i].quantity
        IN /\ n \in 1..10
           /\ \/ pc[t] = 3 * i - 2 /\ a = Add(l, "year_to_date", n)
              \/ pc[t] = 3 * i - 1 /\ a = Add(l, "order_count", -1)
              \/ pc[t] = 3 * i /\ a = Assignment(l, "quantity", "restock", n)
  BY <1>1, <1>2, <1>3, NextLine
<1> DEFINE n == Lines(t)[i].quantity
<1>5. k = Stock(Request[t], Lines(t)[i].item)
  BY <1>4 DEF Add, Assignment, Record, Stock
<1>6. i \in Nat
  BY <1>2, OrderLines
<1>7. CASE pc[t] = 3 * i - 2 /\ a = Add(k, "year_to_date", n)
  <2>1. pc[t] \in {3 * i - 2, 3 * i + 1} /\ pc[t] + 1 \in {3 * i - 1, 3 * i}
    BY <1>6, <1>7
  <2>2. \A m : ~ SellingAt(t, pc[t], k, m)
    BY <1>2, <1>5, <2>1, SellingOf
  <2>3. \A m : SellingAt(t, pc[t] + 1, k, m) <=> m = n
    BY <1>2, <1>5, <2>1, SellingOf
  <2>4. n \in 1..10
    BY <1>4
  <2> HIDE DEF n, a
  <2>5. QED
    BY <1>7, <2>2, <2>3, <2>4 DEF a
<1>8. CASE pc[t] = 3 * i - 1 /\ a = Add(k, "order_count", -1)
  <2>1. pc[t] \in {3 * i - 1, 3 * i} /\ pc[t] + 1 \in {3 * i - 1, 3 * i}
    BY <1>6, <1>8
  <2>2. \A m : SellingAt(t, pc[t], k, m) <=> m = n
    BY <1>2, <1>5, <2>1, SellingOf
  <2>3. \A m : SellingAt(t, pc[t] + 1, k, m) <=> m = n
    BY <1>2, <1>5, <2>1, SellingOf
  <2>4. n \in 1..10
    BY <1>4
  <2> HIDE DEF n, a
  <2>5. QED
    BY <1>8, <2>2, <2>3, <2>4 DEF a
<1>9. CASE pc[t] = 3 * i /\ a = Assignment(k, "quantity", "restock", n)
  <2>1. pc[t] \in {3 * i - 1, 3 * i} /\ pc[t] + 1 \in {3 * i - 2, 3 * i + 1}
    BY <1>6, <1>9
  <2>2. \A m : SellingAt(t, pc[t], k, m) <=> m = n
    BY <1>2, <1>5, <2>1, SellingOf
  <2>3. \A m : ~ SellingAt(t, pc[t] + 1, k, m)
    BY <1>2, <1>5, <2>1, SellingOf
  <2>4. n \in 1..10
    BY <1>4
  <2> HIDE DEF n, a
  <2>5. QED
    BY <1>9, <2>2, <2>3, <2>4 DEF a
<1>10. QED
  BY <1>4, <1>5, <1>7, <1>8, <1>9

LEMMA StoreElsewhere ==
  ASSUME TPCCInv, NEW t \in Txn, Store(t), NEW k \in Records
  PROVE  LET a == NextAssignment(t) IN
         /\ k # a.record => data'[k] = data[k]
         /\ k = a.record => data'[k] = [data[k] EXCEPT ![a.field] = Assigned(data[k][a.field], a)]
<1> DEFINE a == NextAssignment(t)
<1>1. /\ \A l \in Records \ {a.record} : data'[l] = data[l]
      /\ data'[a.record] = [data[a.record] EXCEPT ![a.field] = Assigned(data[a.record][a.field], a)]
  BY StoreEffect
<1> HIDE DEF a
<1>2. k # a.record => data'[k] = data[k]
  BY <1>1
<1>3. k = a.record => data'[k] = [data[k] EXCEPT ![a.field] = Assigned(data[k][a.field], a)]
  BY <1>1
<1>4. QED
  BY <1>2, <1>3 DEF a

(* Refilling by 91 leaves the remainder.                                   *)
LEMMA RefillKeepsRemainder ==
  ASSUME NEW q \in Int, NEW y \in Int, NEW n \in Int, NEW s \in Int,
         NEW x, x = q - n \/ x = q - n + 91, (q + y - n - s) % 91 = 0
  PROVE  (x + y - 0 - s) % 91 = 0
<1>1. CASE x = q - n
  <2>1. x + y - 0 - s = q + y - n - s
    BY <1>1
  <2>2. QED
    BY <2>1
<1>2. CASE x = q - n + 91
  <2> DEFINE z == q + y - n - s
  <2>1. x + y - 0 - s = z + 91 /\ z \in Int
    BY <1>2
  <2> HIDE DEF z
  <2>2. z % 91 = 0 => (z + 91) % 91 = 0
    BY <2>1
  <2>3. QED
    BY <2>1, <2>2 DEF z
<1>3. QED
  BY <1>1, <1>2

LEMMA StoreKeepsStocks ==
  ASSUME TPCCInv, NEW t \in Txn, Store(t)
  PROVE  StocksExact'
<1> SUFFICES ASSUME NEW k \in Records, k[1] = "s"
             PROVE  /\ data'[k].quantity \in 10..199
                    /\ \A u \in Txn, n \in 1..10 : Selling(u, k, n)' => Missing(k, n)' = 0
                    /\ (\A u \in Txn, n \in 1..10 : ~ Selling(u, k, n)') => Missing(k, 0)' = 0
  BY DEF StocksExact
<1> DEFINE a == NextAssignment(t)
           q == data[k].quantity  y == data[k].year_to_date
<1>1. /\ \A u \in Txn \ {t}, n \in 1..10 : Selling(u, k, n)' <=> Selling(u, k, n)
      /\ \A n \in 1..10 : Selling(t, k, n) <=> SellingAt(t, pc[t], k, n)
      /\ \A n \in 1..10 : Selling(t, k, n)' <=> SellingAt(t, pc[t] + 1, k, n)
  <2>1. pc'[t] = pc[t] + 1 /\ \A u \in Txn \ {t} : pc'[u] = pc[u]
    BY StoreKeepsPlaces
  <2>2. QED
    BY <2>1 DEF Selling, SellingAt
<1>2. /\ q \in 10..199
      /\ \A u \in Txn, n \in 1..10 : Selling(u, k, n) => Missing(k, n) = 0
      /\ (\A u \in Txn, n \in 1..10 : ~ Selling(u, k, n)) => Missing(k, 0) = 0
  BY DEF TPCCInv, StocksExact
<1>3. CASE k # a.record
  <2>1. \A n \in 1..10 : ~ Selling(t, k, n) /\ ~ Selling(t, k, n)'
    BY <1>1, <1>3, SellingElsewhere
  <2>2. data'[k] = data[k]
    BY <1>3, StoreElsewhere
  <2>3. \A n : Missing(k, n)' = Missing(k, n)
    BY <2>2 DEF Missing
  <2>4. \A u \in Txn, n \in 1..10 : Selling(u, k, n)' <=> Selling(u, k, n)
    BY <1>1, <2>1
  <2>5. QED
    BY <1>2, <2>2, <2>3, <2>4
<1>4. CASE k = a.record
  <2>1. status[t] = "running" /\ Sound(t, a)
    BY StoreEffect
  <2>2. k \in ReadWriteSet(t)
    BY <1>4, <2>1 DEF Sound, Guard
  <2>3. \A u \in Txn \ {t}, n \in 1..10 : ~ Selling(u, k, n) /\ ~ Selling(u, k, n)'
    BY <1>1, <2>1, <2>2, OneSeller
  <2>4. data'[k] = [data[k] EXCEPT ![a.field] = Assigned(data[k][a.field], a)]
    BY <1>4, StoreElsewhere
  <2>5. data[k] \in [quantity : Int, year_to_date : Int, order_count : Int]
    BY DEF TPCCInv, DataTypes, RecordType
  <2>6. q \in 10..199 /\ y \in Int /\ Quantity \in Int
    BY <1>2, <2>5, TPCCAssumption
  <2>7. PICK n \in 1..10 :
          \/ /\ a = Add(k, "year_to_date", n)
             /\ \A m : ~ SellingAt(t, pc[t], k, m)
             /\ \A m : SellingAt(t, pc[t] + 1, k, m) <=> m = n
          \/ /\ a = Add(k, "order_count", -1)
             /\ \A m : SellingAt(t, pc[t], k, m) <=> m = n
             /\ \A m : SellingAt(t, pc[t] + 1, k, m) <=> m = n
          \/ /\ a = Assignment(k, "quantity", "restock", n)
             /\ \A m : SellingAt(t, pc[t], k, m) <=> m = n
             /\ \A m : ~ SellingAt(t, pc[t] + 1, k, m)
    BY <1>4, SellingHere
  <2> HIDE DEF a
  <2>8. CASE /\ a = Add(k, "year_to_date", n)
             /\ \A m : ~ SellingAt(t, pc[t], k, m)
             /\ \A m : SellingAt(t, pc[t] + 1, k, m) <=> m = n
    <3>1. Missing(k, 0) = 0
      BY <1>1, <1>2, <2>3, <2>8
    <3>2. a.field = "year_to_date" /\ a.op = "add" /\ a.n = n
      BY <2>8 DEF Add, Assignment
    <3>3. data'[k].quantity = q /\ data'[k].year_to_date = y + n
      BY <2>4, <2>5, <3>2 DEF Assigned
    <3>4. Missing(k, n)' = 0
      <4>1. (q + y - 0 - Quantity) % 91 = 0
        BY <3>1 DEF Missing
      <4>2. q + (y + n) - n - Quantity = q + y - 0 - Quantity
        BY <2>6
      <4>3. QED
        BY <3>3, <4>1, <4>2 DEF Missing
    <3>5. \A u \in Txn, m \in 1..10 : Selling(u, k, m)' <=> u = t /\ m = n
      BY <1>1, <2>3, <2>8
    <3>6. QED
      BY <2>6, <3>3, <3>4, <3>5
  <2>9. CASE /\ a = Add(k, "order_count", -1)
             /\ \A m : SellingAt(t, pc[t], k, m) <=> m = n
             /\ \A m : SellingAt(t, pc[t] + 1, k, m) <=> m = n
    <3>1. Missing(k, n) = 0
      BY <1>1, <1>2, <2>9
    <3>2. a.field = "order_count"
      BY <2>9 DEF Add, Assignment
    <3>3. data'[k].quantity = q /\ data'[k].year_to_date = y
      BY <2>4, <2>5, <3>2
    <3>4. Missing(k, n)' = 0
      BY <3>1, <3>3 DEF Missing
    <3>5. \A u \in Txn, m \in 1..10 : Selling(u, k, m)' <=> u = t /\ m = n
      BY <1>1, <2>3, <2>9
    <3>6. QED
      BY <2>6, <3>3, <3>4, <3>5
  <2>10. CASE /\ a = Assignment(k, "quantity", "restock", n)
              /\ \A m : SellingAt(t, pc[t], k, m) <=> m = n
              /\ \A m : ~ SellingAt(t, pc[t] + 1, k, m)
    <3>1. Missing(k, n) = 0
      BY <1>1, <1>2, <2>10
    <3>2. a.field = "quantity" /\ a.op = "restock" /\ a.n = n
      BY <2>10 DEF Assignment
    <3>3. data'[k].quantity = Restocked(q, n) /\ data'[k].year_to_date = y
      BY <2>4, <2>5, <3>2 DEF Assigned
    <3>4. Restocked(q, n) \in 10..199 /\ Restocked(q, n) \in {q - n, q - n + 91}
      <4> HIDE DEF q
      <4>1. CASE q >= n + 10
        <5>1. Restocked(q, n) = q - n
          BY <4>1 DEF Restocked
        <5>2. QED
          BY <2>6, <4>1, <5>1
      <4>2. CASE ~ (q >= n + 10)
        <5>1. Restocked(q, n) = q - (n - 91) /\ q - (n - 91) = q - n + 91
          BY <2>6, <4>2 DEF Restocked
        <5>2. QED
          BY <2>6, <4>2, <5>1
      <4>3. QED
        BY <4>1, <4>2
    <3>5. Missing(k, 0)' = 0
      <4>1. (q + y - n - Quantity) % 91 = 0
        BY <3>1 DEF Missing
      <4>2. (Restocked(q, n) + y - 0 - Quantity) % 91 = 0
        <5> DEFINE x == Restocked(q, n)
        <5>1. q \in Int /\ y \in Int /\ n \in Int /\ Quantity \in Int
          BY <2>6
        <5>2. x = q - n \/ x = q - n + 91
          BY <3>4
        <5> HIDE DEF x, q, y
        <5>3. (x + y - 0 - Quantity) % 91 = 0
          BY <4>1, <5>1, <5>2, RefillKeepsRemainder
        <5>4. QED
          BY <5>3 DEF x
      <4>3. QED
        BY <3>3, <4>2 DEF Missing
    <3>6. \A u \in Txn, m \in 1..10 : ~ Selling(u, k, m)'
      BY <1>1, <2>3, <2>10
    <3>7. QED
      BY <3>3, <3>4, <3>5, <3>6
  <2>11. QED
    BY <2>7, <2>8, <2>9, <2>10
<1>5. QED
  BY <1>3, <1>4

LEMMA StoreKeepsCounts ==
  ASSUME TPCCInv, NEW t \in Txn, Store(t)
  PROVE  OrdersCounted'
<1> SUFFICES ASSUME NEW k \in Records, k[1] = "d"
             PROVE  data'[k].next_order_id = 1 + Cardinality(Ordered(k)')
  BY DEF OrdersCounted
<1> DEFINE a == NextAssignment(t)
           takes == IsOrder(t) /\ pc[t] = 0 /\ District(Request[t]) = k
<1>1. /\ pc[t] < Len(Execute[t]) /\ Sound(t, a)
      /\ k # a.record => data'[k] = data[k]
      /\ k = a.record => data'[k] = [data[k] EXCEPT ![a.field] = Assigned(data[k][a.field], a)]
  <2>1. pc[t] < Len(Execute[t]) /\ Sound(t, a)
    BY StoreEffect
  <2>2. QED
    BY <2>1, StoreElsewhere
<1>2. data[k] \in [year_to_date : Int, next_order_id : Int]
  BY DEF TPCCInv, DataTypes, RecordType
<1>3. data[k].next_order_id = 1 + Cardinality(Ordered(k))
  BY DEF TPCCInv, OrdersCounted
<1>4. pc \in [Txn -> Nat] /\ pc'[t] = pc[t] + 1 /\ \A u \in Txn \ {t} : pc'[u] = pc[u]
  BY StoreKeepsPlaces DEF TPCCInv, Places
<1>5. CASE takes
  <2>1. a = Add(k, "next_order_id", 1)
    <3>1. Execute[t][1] = Add(District(Request[t]), "next_order_id", 1)
      BY <1>5, OrderAssignments
    <3>2. QED
      BY <1>5, <3>1 DEF NextAssignment
  <2>2. a.record = k /\ a.field = "next_order_id" /\ a.op = "add" /\ a.n = 1
    BY <2>1 DEF Add, Assignment, Record
  <2>3. data'[k].next_order_id = data[k].next_order_id + 1
    BY <1>1, <1>2, <2>2 DEF Assigned
  <2>4. Ordered(k)' = Ordered(k) \cup {t} /\ t \notin Ordered(k)
    BY <1>4, <1>5 DEF Ordered
  <2>5. IsFiniteSet(Ordered(k))
    BY TPCCAssumption, FS_Subset DEF Ordered
  <2>6. Cardinality(Ordered(k)') = Cardinality(Ordered(k)) + 1 /\ Cardinality(Ordered(k)) \in Nat
    BY <2>4, <2>5, FS_AddElement, FS_CardinalityType
  <2>7. QED
    BY <1>3, <2>3, <2>6
<1>6. CASE ~ takes
  <2>1. Ordered(k)' = Ordered(k)
    <3>1. IsOrder(t) /\ District(Request[t]) = k => (pc[t] >= 1 <=> pc'[t] >= 1)
      BY <1>4, <1>6
    <3>2. QED
      BY <1>4, <3>1 DEF Ordered
  <2>2. ~ (k = a.record /\ a.field = "next_order_id")
    <3>1. CASE ~ IsOrder(t)
      BY <1>1, <3>1, OthersSpare
    <3>2. CASE IsOrder(t) /\ pc[t] = 0
      <4>1. Execute[t][1] = Add(District(Request[t]), "next_order_id", 1)
        BY <3>2, OrderAssignments
      <4>2. a = Add(District(Request[t]), "next_order_id", 1)
        BY <3>2, <4>1 DEF NextAssignment
      <4>3. a.record = District(Request[t])
        BY <4>2 DEF Add, Assignment, Record, District
      <4>4. QED
        BY <1>6, <3>2, <4>3
    <3>3. CASE IsOrder(t) /\ pc[t] # 0
      BY <1>1, <3>3, NextLine DEF Add, Assignment, TPCCInv
    <3>4. QED
      BY <3>1, <3>2, <3>3
  <2>3. data'[k].next_order_id = data[k].next_order_id
    <3>1. a.field # "next_order_id" /\ k = a.record => data'[k].next_order_id = data[k].next_order_id
      BY <1>1, <1>2
    <3>2. QED
      BY <1>1, <2>2, <3>1
  <2>4. QED
    BY <1>3, <2>1, <2>3
<1>7. QED
  BY <1>5, <1>6

LEMMA StorePreserves ==
  ASSUME TPCCInv, NEW t \in Txn, Store(t)
  PROVE  TPCCInv'
BY StoreKeepsPlaces, StoreKeepsTypes, StoreKeepsFresh, StoreKeepsStocks, StoreKeepsCounts DEF TPCCInv

-----------------------------------------------------------------------------
(***************************************************************************)
(* The invariant holds initially, and every step keeps it.                 *)
(***************************************************************************)

LEMMA InitTPCC == Init => TPCCInv
<1> SUFFICES ASSUME Init PROVE TPCCInv
  OBVIOUS
<1>1. /\ status = [t \in Txn |-> "new"] /\ blockers = [t \in Txn |-> {}]
      /\ data = Loaded /\ rows = <<>>
      /\ pc = [t \in Txn |-> 0] /\ register = [t \in Txn |-> <<>>]
  BY DEF Init, Locks!Init
<1>2. LockingInv
  BY <1>1 DEF LockingInv, Locks!TypeOK, Locks!Ordered, Locks!Outstanding
<1>3. Places
  BY <1>1, AssignmentsSound DEF Places
<1>4. \A k \in Records : data[k] = Created(k) /\ k[1] \in {"w", "d", "c", "s"}
  BY <1>1, RecordKinds DEF Loaded
<1>5. Quantity \in 10..199 /\ Quantity \in Int
  BY TPCCAssumption
<1>6. DataTypes
  <2>1. ASSUME NEW k \in Records
        PROVE  data[k] \in RecordType(k)
    <3>1. CASE k[1] = "w"
      BY <1>4, <3>1 DEF Created, RecordType
    <3>2. CASE k[1] = "d"
      BY <1>4, <3>2 DEF Created, RecordType
    <3>3. CASE k[1] = "c"
      BY <1>4, <3>3 DEF Created, RecordType
    <3>4. CASE k[1] = "s"
      BY <1>4, <1>5, <3>4 DEF Created, RecordType
    <3>5. QED
      BY <1>4, <3>1, <3>2, <3>3, <3>4
  <2>2. data = [k \in Records |-> data[k]]
    BY <1>1 DEF Loaded
  <2>3. QED
    BY <2>1, <2>2 DEF DataTypes
<1>7. LoadsFresh
  BY <1>1 DEF LoadsFresh
<1>8. StocksExact
  <2>1. \A t \in Txn : \A k, n : ~ Selling(t, k, n)
    BY <1>1, SellingOf DEF Selling, SellingAt
  <2>2. ASSUME NEW k \in Records, k[1] = "s"
        PROVE  data[k].quantity \in 10..199 /\ Missing(k, 0) = 0
    <3>1. data[k].quantity = Quantity /\ data[k].year_to_date = 0
      BY <1>4, <2>2 DEF Created
    <3>2. (Quantity + 0 - 0 - Quantity) % 91 = 0
      BY <1>5
    <3>3. QED
      BY <1>5, <3>1, <3>2 DEF Missing
  <2>3. QED
    BY <2>1, <2>2 DEF StocksExact
<1>9. OrdersCounted
  <2>1. \A k : Ordered(k) = {}
    BY <1>1 DEF Ordered
  <2>2. \A k \in Records : k[1] = "d" => data[k].next_order_id = 1
    BY <1>4 DEF Created
  <2>3. QED
    BY <2>1, <2>2, FS_EmptySet DEF OrdersCounted
<1>10. RowsInv
  <2>1. rows \in Seq(AllRows) /\ ToSet(rows) = {} /\ IsInjective(rows)
    BY <1>1 DEF ToSet, IsInjective
  <2>2. {u \in Txn : status[u] = "done"} = {}
    BY <1>1
  <2>3. QED
    BY <2>1, <2>2 DEF RowsInv, RowsExact
<1>11. QED
  BY <1>2, <1>3, <1>6, <1>7, <1>8, <1>9, <1>10 DEF TPCCInv

LEMMA NextTPCC == TPCCInv /\ [Next]_vars => TPCCInv'
<1> SUFFICES ASSUME TPCCInv, [Next]_vars PROVE TPCCInv'
  OBVIOUS
<1>1. CASE UNCHANGED vars
  <2>1. UNCHANGED <<status, blockers, data, pc, register, rows>>
    BY <1>1 DEF vars, locking
  <2>2. LockingInv' /\ Places' /\ RowsInv'
    BY <2>1 DEF TPCCInv, LockingInv, Locks!TypeOK, Locks!Ordered, Locks!Outstanding,
                Places, RowsInv, RowsExact
  <2>3. QED
    BY <2>1, <2>2, NothingAssigned
<1>2. ASSUME NEW t \in Txn, Submit(t) PROVE TPCCInv'
  BY <1>2, SubmitPreserves
<1>3. ASSUME NEW t \in Txn, Start(t) PROVE TPCCInv'
  BY <1>3, StartPreserves
<1>4. ASSUME NEW t \in Txn, Load(t) PROVE TPCCInv'
  BY <1>4, LoadPreserves
<1>5. ASSUME NEW t \in Txn, Store(t) PROVE TPCCInv'
  BY <1>5, StorePreserves
<1>6. ASSUME NEW t \in Txn, Return(t) PROVE TPCCInv'
  BY <1>6, ReturnPreserves
<1>7. QED
  BY <1>1, <1>2, <1>3, <1>4, <1>5, <1>6 DEF Next

LEMMA AlwaysTPCC == Spec => []TPCCInv
BY InitTPCC, NextTPCC, PTL DEF Spec

-----------------------------------------------------------------------------
(* Transactions change records in place, one assignment after the other    *)
(* and side by side, and payments reach records under keys that orders do  *)
(* not lock.  Still nobody changes a field between another's load of it    *)
(* and its store (new_order.cc:33, 87-96, payment.cc).                     *)
THEOREM NoUpdateLost == Spec => []LoadsFresh
<1>1. TPCCInv => LoadsFresh
  BY DEF TPCCInv
<1>2. QED
  BY <1>1, AlwaysTPCC, PTL

(* new_order.cc:92-96: a stock never falls below 10 and is refilled by 91  *)
(* in time, whatever orders and failing orders share it, and between       *)
(* orders what was sold is what is missing.                                *)
THEOREM StockNeverRunsOut == Spec => []StockHeld
<1>1. TPCCInv => StockHeld
  <2> SUFFICES ASSUME TPCCInv, NEW k \in Records, k[1] = "s"
               PROVE  /\ data[k].quantity \in 10..199
                      /\ Running = {} =>
                           (data[k].quantity + data[k].year_to_date - Quantity) % 91 = 0
    BY DEF StockHeld
  <2>1. data[k].quantity \in 10..199
    BY DEF TPCCInv, StocksExact
  <2>2. CASE Running = {}
    <3>1. \A t \in Txn, n \in 1..10 : ~ Selling(t, k, n)
      BY <2>2, SellersRun DEF Running, TPCCInv
    <3>2. Missing(k, 0) = 0
      BY <3>1 DEF TPCCInv, StocksExact
    <3>3. data[k].quantity \in Int /\ data[k].year_to_date \in Int
      <4>1. data[k] \in RecordType(k)
        BY DEF TPCCInv, DataTypes
      <4>2. QED
        BY <4>1 DEF RecordType
    <3>4. data[k].quantity + data[k].year_to_date - 0 - Quantity
            = data[k].quantity + data[k].year_to_date - Quantity
      BY <3>3, TPCCAssumption
    <3>5. QED
      BY <2>1, <3>2, <3>4 DEF Missing
  <2>3. QED
    BY <2>1, <2>2
<1>2. QED
  BY <1>1, AlwaysTPCC, PTL

(* tpcc.cc:218-231: the keys of write sets are not locked, and need not    *)
(* be: each row is put once, by its own transaction, and none is missing   *)
(* of a transaction that succeeded.                                        *)
THEOREM RowsAreExact == Spec => []RowsExact
<1>1. TPCCInv => RowsExact
  BY DEF TPCCInv, RowsInv
<1>2. QED
  BY <1>1, AlwaysTPCC, PTL

(* new_order.cc:33: when nobody is running, a district's next order id     *)
(* counts the orders there have been, those that failed included.          *)
OrderIdsExact ==
  Running = {} =>
    \A k \in Records : k[1] = "d" =>
      data[k].next_order_id =
        1 + Cardinality({t \in Done("NEW_ORDER") : District(Request[t]) = k})

LEMMA OrderIdsFollow == TPCCInv => OrderIdsExact
<1> SUFFICES ASSUME TPCCInv, Running = {}, NEW k \in Records, k[1] = "d"
             PROVE  data[k].next_order_id =
                      1 + Cardinality({t \in Done("NEW_ORDER") : District(Request[t]) = k})
  BY DEF OrderIdsExact
<1>1. data[k].next_order_id = 1 + Cardinality(Ordered(k))
  BY DEF TPCCInv, OrdersCounted
<1>2. ASSUME NEW t \in Txn, IsOrder(t)
      PROVE  pc[t] >= 1 <=> status[t] = "done"
  <2>1. Len(Execute[t]) >= 1 /\ pc[t] \in Nat
    <3>1. Len(Lines(t)) \in Nat /\ Len(Execute[t]) = 1 + 3 * Len(Lines(t))
      BY <1>2, OrderLines, OrderAssignments
    <3>2. QED
      BY <3>1 DEF TPCCInv, Places
  <2>2. status[t] # "running"
    BY DEF Running
  <2>3. QED
    BY <2>1, <2>2 DEF TPCCInv, Places
<1>3. Ordered(k) = {t \in Done("NEW_ORDER") : District(Request[t]) = k}
  BY <1>2 DEF Ordered, Done, IsOrder
<1>4. QED
  BY <1>1, <1>3

-----------------------------------------------------------------------------
(***************************************************************************)
(* Sums.  What holds of no number at first and of each next number holds   *)
(* of all: the least it does not hold of would have one before it.         *)
(***************************************************************************)

LEMMA UpTo ==
  ASSUME NEW n \in Nat, NEW S, 0 \in S, \A i \in 0..(n - 1) : i \in S => i + 1 \in S
  PROVE  0..n \subseteq S
<1> SUFFICES ASSUME (0..n) \ S # {} PROVE FALSE
  OBVIOUS
<1> DEFINE R == {p \in Nat \X Nat : p[1] < p[2]}
<1>1. IsWellFoundedOn(R, Nat)
  BY NatLessThanWellFounded DEF OpToRel
<1>2. PICK x \in (0..n) \ S : \A y \in (0..n) \ S : <<y, x>> \notin R
  BY <1>1, WFMin
<1>3. x - 1 \in 0..(n - 1)
  <2>1. x # 0 /\ x \in 0..n
    OBVIOUS
  <2>2. QED
    BY <2>1
<1>4. x - 1 \in S
  <2>1. x - 1 \in Nat /\ x \in Nat /\ x - 1 < x /\ x - 1 \in 0..n
    BY <1>3
  <2>2. <<x - 1, x>> \in R
    BY <2>1
  <2>3. QED
    BY <1>2, <2>1, <2>2
<1>5. QED
  BY <1>2, <1>3, <1>4

(* The recursive function behind Total.                                    *)
Picked(s) == CHOOSE k \in s : TRUE

SumsUp(f, d, field, S) ==
  f = [s \in SUBSET S |->
         IF s = {} THEN 0 ELSE d[Picked(s)][field] + f[s \ {Picked(s)}]]

(* It exists: a function that is right for sets of up to n elements gives  *)
(* one that is right for sets of n + 1.                                    *)
LEMMA SumsExist ==
  ASSUME NEW d, NEW field, NEW S, IsFiniteSet(S)
  PROVE  \E f : SumsUp(f, d, field, S)
<1> DEFINE step(f) == [s \in SUBSET S |->
                         IF s = {} THEN 0 ELSE d[Picked(s)][field] + f[s \ {Picked(s)}]]
           small(n) == {s \in SUBSET S : Cardinality(s) <= n}
           right(n) == \E f : \A s \in small(n) : f[s] = step(f)[s]
           sizes == {n \in Nat : right(n)}
<1>1. \A s \in SUBSET S : IsFiniteSet(s) /\ Cardinality(s) \in 0..Cardinality(S)
  BY FS_Subset, FS_CardinalityType
<1>2. 0 \in sizes
  <2> DEFINE f == [s \in SUBSET S |-> 0]
  <2>1. \A s \in small(0) : s = {}
    BY <1>1, FS_EmptySet
  <2>2. \A s \in small(0) : f[s] = step(f)[s]
    BY <2>1
  <2> HIDE DEF f
  <2>3. QED
    BY <2>2
<1>3. ASSUME NEW n \in Nat, n \in sizes
      PROVE  n + 1 \in sizes
  <2>1. PICK f : \A s \in small(n) : f[s] = step(f)[s]
    BY <1>3
  <2> DEFINE g == step(f)
  <2>2. ASSUME NEW s \in small(n + 1)
        PROVE  g[s] = step(g)[s]
    <3>1. CASE s = {}
      BY <3>1
    <3>2. CASE s # {}
      <4> DEFINE k == Picked(s)
      <4>1. k \in s
        BY <3>2 DEF Picked
      <4>2. s \ {k} \in small(n)
        <5>1. Cardinality(s \ {k}) = Cardinality(s) - 1
          BY <1>1, <4>1, FS_RemoveElement
        <5>2. QED
          BY <1>1, <5>1
      <4>3. f[s \ {k}] = g[s \ {k}]
        BY <2>1, <4>2
      <4>4. g[s] = d[k][field] + f[s \ {k}] /\ step(g)[s] = d[k][field] + g[s \ {k}]
        BY <3>2
      <4>5. QED
        BY <4>3, <4>4
    <3>3. QED
      BY <3>1, <3>2
  <2> HIDE DEF g
  <2>3. right(n + 1)
    BY <2>2
  <2> HIDE DEF right
  <2>4. QED
    BY <2>3
<1>4. Cardinality(S) \in Nat
  BY FS_CardinalityType
<1> HIDE DEF sizes
<1>5. Cardinality(S) \in sizes
  BY <1>2, <1>3, <1>4, UpTo
<1>6. PICK f : \A s \in small(Cardinality(S)) : f[s] = step(f)[s]
  BY <1>5 DEF sizes
<1>7. small(Cardinality(S)) = SUBSET S
  BY <1>1
<1> DEFINE g == step(f)
<1>8. g = step(g)
  <2>1. \A s \in SUBSET S : g[s] = f[s]
    BY <1>6, <1>7
  <2>2. \A s \in SUBSET S : s \ {Picked(s)} \in SUBSET S
    OBVIOUS
  <2>3. \A s \in SUBSET S : step(f)[s] = step(g)[s]
    BY <2>1, <2>2
  <2>4. QED
    BY <2>3
<1>9. QED
  BY <1>8 DEF SumsUp

LEMMA TotalIsSum ==
  ASSUME NEW d, NEW field, NEW S, IsFiniteSet(S)
  PROVE  \E f : SumsUp(f, d, field, S) /\ Total(d, field, S) = f[S]
<1> DEFINE f == CHOOSE g : SumsUp(g, d, field, S)
<1>1. SumsUp(f, d, field, S)
  BY SumsExist
<1>2. Total(d, field, S) = f[S]
  BY DEF Total, MapThenSumSet, MapThenFoldSet, SumsUp, Picked
<1>3. QED
  BY <1>1, <1>2

(* What holds of the empty set, and of each set when it holds of the set   *)
(* without the element that is picked, holds of all.                       *)
LEMMA AllSubsets ==
  ASSUME NEW S, IsFiniteSet(S), NEW G, {} \in G,
         \A s \in SUBSET S : s # {} /\ s \ {Picked(s)} \in G => s \in G
  PROVE  SUBSET S \subseteq G
<1> DEFINE sizes == {n \in Nat : \A s \in SUBSET S : Cardinality(s) <= n => s \in G}
<1>1. \A s \in SUBSET S : IsFiniteSet(s) /\ Cardinality(s) \in 0..Cardinality(S)
  BY FS_Subset, FS_CardinalityType
<1>2. 0 \in sizes
  <2>1. \A s \in SUBSET S : Cardinality(s) <= 0 => s = {}
    BY <1>1, FS_EmptySet
  <2>2. QED
    BY <2>1
<1>3. ASSUME NEW n \in Nat, n \in sizes
      PROVE  n + 1 \in sizes
  <2>1. ASSUME NEW s \in SUBSET S, Cardinality(s) <= n + 1, s # {}
        PROVE  s \in G
    <3>1. Picked(s) \in s
      BY <2>1 DEF Picked
    <3>2. Cardinality(s \ {Picked(s)}) = Cardinality(s) - 1
      BY <1>1, <3>1, FS_RemoveElement
    <3>3. Cardinality(s \ {Picked(s)}) <= n
      BY <1>1, <2>1, <3>2
    <3>4. QED
      BY <1>3, <2>1, <3>3
  <2>2. QED
    BY <2>1
<1>4. Cardinality(S) \in Nat
  BY FS_CardinalityType
<1> HIDE DEF sizes
<1>5. Cardinality(S) \in sizes
  BY <1>2, <1>3, <1>4, UpTo
<1>6. QED
  BY <1>1, <1>5 DEF sizes

(* From d to e, the field changes at l only, by n.                         *)
Moved(d, e, field, S, l, n) ==
  \A k \in S : d[k][field] \in Int /\ e[k][field] = d[k][field] + (IF k = l THEN n ELSE 0)

(* What is added to one summand is added to the total ...                  *)
LEMMA TotalChanges ==
  ASSUME NEW d, NEW e, NEW field, NEW S, IsFiniteSet(S), NEW l, NEW n \in Int,
         Moved(d, e, field, S, l, n)
  PROVE  /\ Total(d, field, S) \in Int
         /\ Total(e, field, S) = Total(d, field, S) + (IF l \in S THEN n ELSE 0)
<1>1. PICK f : SumsUp(f, d, field, S) /\ Total(d, field, S) = f[S]
  BY TotalIsSum
<1>2. PICK g : SumsUp(g, e, field, S) /\ Total(e, field, S) = g[S]
  BY TotalIsSum
<1> DEFINE right(s) == f[s] \in Int /\ g[s] = f[s] + (IF l \in s THEN n ELSE 0)
           G == {s \in SUBSET S : right(s)}
<1>3. {} \in G
  BY <1>1, <1>2 DEF SumsUp
<1>4. ASSUME NEW s \in SUBSET S, s # {}, s \ {Picked(s)} \in G
      PROVE  right(s)
  <2> DEFINE k == Picked(s)  rest == s \ {k}
  <2>1. k \in s
    BY <1>4 DEF Picked
  <2>2. right(rest)
    BY <1>4
  <2>3. f[s] = d[k][field] + f[rest] /\ g[s] = e[k][field] + g[rest]
    BY <1>1, <1>2, <1>4 DEF SumsUp
  <2>4. d[k][field] \in Int /\ e[k][field] = d[k][field] + (IF k = l THEN n ELSE 0)
    BY <2>1 DEF Moved
  <2>5. (l \in s <=> k = l \/ l \in rest) /\ ~ (k = l /\ l \in rest)
    BY <2>1
  <2> HIDE DEF k, rest
  <2>6. QED
    BY <2>2, <2>3, <2>4, <2>5
<1> HIDE DEF right
<1>5. SUBSET S \subseteq G
  <2>1. \A s \in SUBSET S : s # {} /\ s \ {Picked(s)} \in G => s \in G
    BY <1>4
  <2> HIDE DEF G
  <2>2. QED
    BY <1>3, <2>1, AllSubsets
<1>6. right(S)
  BY <1>5
<1>7. QED
  BY <1>1, <1>2, <1>6 DEF right

(* ... and there is no total of what is nowhere.                           *)
LEMMA TotalOfZeros ==
  ASSUME NEW d, NEW field, NEW S, IsFiniteSet(S), \A k \in S : d[k][field] = 0
  PROVE  Total(d, field, S) = 0
<1>1. PICK f : SumsUp(f, d, field, S) /\ Total(d, field, S) = f[S]
  BY TotalIsSum
<1> DEFINE G == {s \in SUBSET S : f[s] = 0}
<1>2. {} \in G
  BY <1>1 DEF SumsUp
<1>3. ASSUME NEW s \in SUBSET S, s # {}, s \ {Picked(s)} \in G
      PROVE  s \in G
  <2>1. Picked(s) \in S
    BY <1>3 DEF Picked
  <2>2. f[s] = d[Picked(s)][field] + f[s \ {Picked(s)}]
    BY <1>1, <1>3 DEF SumsUp
  <2>3. QED
    BY <1>3, <2>1, <2>2
<1> HIDE DEF G
<1>4. SUBSET S \subseteq G
  BY <1>2, <1>3, AllSubsets
<1>5. QED
  BY <1>1, <1>4 DEF G

-----------------------------------------------------------------------------
(***************************************************************************)
(* The books.                                                              *)
(***************************************************************************)

IsPayment(t) == Request[t].type = "PAYMENT"
Till(t) == Record(WarehouseY(Request[t]))
Branch(t) == Record(DistrictY(Request[t]))
Payer(t) == Customer(Request[t])

(* The fields that payments add to.                                        *)
BookFields ==
  { <<"w", "year_to_date">>, <<"d", "year_to_date">>,
    <<"c", "balance">>, <<"c", "year_to_date_payment">> }

(* A payment of warehouse or district k is at one of the places.           *)
Late(t, k, places) == IsPayment(t) /\ k \in {Till(t), Branch(t)} /\ pc[t] \in places

(* The differences between the sides of the books.                         *)
TillOff(k) == data[k].year_to_date - Total(data, "year_to_date", Districts(k))
PaidOff(k) == data[k].year_to_date - Total(data, "year_to_date_payment", Customers(k))
OwedOff(k) == data[k].year_to_date + Total(data, "balance", Customers(k))

(* Two sides of the books of k differ by what a payment there has entered  *)
(* on one side and not yet on the other.                                   *)
Off(k, places, difference) ==
  /\ \A t \in Txn : Late(t, k, places) => difference = Request[t].amount
  /\ (\A t \in Txn : ~ Late(t, k, places)) => difference = 0

BooksExact ==
  \A k \in Records :
    /\ k[1] = "w" => Off(k, {1}, TillOff(k))
    /\ k[1] = "d" => Off(k, {2, 3}, PaidOff(k)) /\ Off(k, {2}, OwedOff(k))

LEMMA ImageFinite ==
  ASSUME NEW S, IsFiniteSet(S), NEW f, f = [x \in S |-> f[x]]
  PROVE  IsFiniteSet({f[x] : x \in S})
<1> DEFINE T == {f[x] : x \in S}
<1>1. f \in Surjection(S, T)
  BY DEF Surjection
<1>2. QED
  BY <1>1, FS_Surjection

LEMMA KeysFinite ==
  ASSUME NEW t \in Txn
  PROVE  IsFiniteSet(ReadSet(t) \cup ReadWriteSet(t))
<1> DEFINE r == Request[t]
<1>1. \A x, y, z : IsFiniteSet({x}) /\ IsFiniteSet({x, y}) /\ IsFiniteSet({x, y, z})
  <2> SUFFICES ASSUME NEW x, NEW y, NEW z
               PROVE  IsFiniteSet({x}) /\ IsFiniteSet({x, y}) /\ IsFiniteSet({x, y, z})
    OBVIOUS
  <2>1. IsFiniteSet({x})
    BY FS_Singleton
  <2>2. IsFiniteSet({x} \cup {y})
    BY <2>1, FS_AddElement
  <2>3. {x} \cup {y} = {x, y}
    OBVIOUS
  <2>4. IsFiniteSet({x, y} \cup {z})
    BY <2>2, <2>3, FS_AddElement
  <2>5. {x, y} \cup {z} = {x, y, z}
    OBVIOUS
  <2>6. IsFiniteSet({x, y})
    BY <2>2, <2>3
  <2>7. IsFiniteSet({x, y, z})
    BY <2>4, <2>5
  <2>8. QED
    BY <2>1, <2>6, <2>7
<1>2. IsFiniteSet(ReadSet(t))
  BY <1>1, FS_EmptySet DEF ReadSet
<1>3. CASE r.type = "NEW_ORDER"
  <2> DEFINE n == Len(r.lines)  f == [i \in 1..n |-> Stock(r, r.lines[i].item)]
  <2>1. DOMAIN r.lines = 1..n /\ n \in Nat
    BY <1>3, TPCCAssumption
  <2>2. IsFiniteSet({f[i] : i \in 1..n})
    <3>1. IsFiniteSet(1..n)
      <4> HIDE DEF n
      <4>1. 1 \in Int /\ n \in Int
        BY <2>1
      <4>2. QED
        BY <4>1, FS_Interval
    <3>2. f = [i \in 1..n |-> f[i]]
      OBVIOUS
    <3> HIDE DEF f, n
    <3>3. QED
      BY <3>1, <3>2, ImageFinite
  <2>3. {Stock(r, item) : item \in Items(r)} = {f[i] : i \in 1..n}
    BY <2>1 DEF Items
  <2>4. IsFiniteSet({District(r)} \cup {Stock(r, item) : item \in Items(r)})
    BY <1>1, <2>2, <2>3, FS_Union
  <2>5. ReadWriteSet(t) = {District(r)} \cup {Stock(r, item) : item \in Items(r)}
    BY <1>3 DEF ReadWriteSet
  <2>6. QED
    BY <1>2, <2>4, <2>5, FS_Union
<1>4. CASE r.type # "NEW_ORDER"
  <2>1. IsFiniteSet(ReadWriteSet(t))
    BY <1>1, <1>4, TPCCAssumption DEF ReadWriteSet
  <2>2. QED
    BY <1>2, <2>1, FS_Union
<1>5. QED
  BY <1>3, <1>4

LEMMA RecordsFinite == IsFiniteSet(Records)
<1> DEFINE keys == [t \in Txn |-> ReadSet(t) \cup ReadWriteSet(t)]
           sets == {keys[t] : t \in Txn}
           all == UNION sets
           records == [k \in all |-> Record(k)]
<1>1. IsFiniteSet(Txn)
  BY TPCCAssumption
<1>2. IsFiniteSet(sets)
  BY <1>1, ImageFinite
<1>3. \A s \in sets : IsFiniteSet(s)
  BY KeysFinite
<1>4. IsFiniteSet(all)
  BY <1>2, <1>3, FS_UNION
<1>5. Records \subseteq {records[k] : k \in all}
  <2>1. Records \subseteq {Record(k) : k \in UNION {ReadSet(t) \cup ReadWriteSet(t) : t \in Txn}}
    BY DEF Records
  <2>2. UNION {ReadSet(t) \cup ReadWriteSet(t) : t \in Txn} = all
    OBVIOUS
  <2>3. QED
    BY <2>1, <2>2
<1> HIDE DEF all
<1>6. IsFiniteSet({records[k] : k \in all})
  BY <1>4, ImageFinite
<1>7. QED
  BY <1>5, <1>6, FS_Subset

(* A warehouse is known by its number, a district by its own and that of   *)
(* its warehouse.                                                          *)
LEMMA RecordForms ==
  ASSUME NEW k \in Records
  PROVE  /\ k[1] = "w" => k = <<"w", k[2]>>
         /\ k[1] = "d" => k = <<"d", k[2], k[3]>>
<1>1. PICK t \in Txn : \E l \in ReadSet(t) \cup ReadWriteSet(t) : k = Record(l)
  BY DEF Records
<1>2. PICK l \in ReadSet(t) \cup ReadWriteSet(t) : k = Record(l)
  BY <1>1
<1> DEFINE r == Request[t]
<1>3. \/ l \in {Warehouse(r), District(r), Customer(r), WarehouseY(r), DistrictY(r)}
      \/ \E item \in Items(r) : l = Stock(r, item)
  BY <1>2, TPCCAssumption DEF ReadSet, ReadWriteSet
<1>4. \/ k = <<"w", r.warehouse>> \/ k = <<"d", r.warehouse, r.district>>
      \/ k = <<"c", r.warehouse, r.district, r.customer>>
      \/ \E item : k = <<"s", r.warehouse, item>>
  BY <1>2, <1>3 DEF Record, Warehouse, District, Customer, WarehouseY, DistrictY, Stock
<1>5. QED
  BY <1>4

LEMMA PaymentRecords ==
  ASSUME NEW t \in Txn, IsPayment(t)
  PROVE  /\ Till(t) \in Records /\ Branch(t) \in Records /\ Payer(t) \in Records
         /\ Till(t)[1] = "w" /\ Branch(t)[1] = "d" /\ Payer(t)[1] = "c"
         /\ \A k \in Records : k[1] = "w" => (Branch(t) \in Districts(k) <=> k = Till(t))
         /\ \A k \in Records : k[1] = "d" => (Payer(t) \in Customers(k) <=> k = Branch(t))
         /\ Request[t].amount \in Int
<1> DEFINE r == Request[t]
<1>1. ReadWriteSet(t) = {WarehouseY(r), DistrictY(r), Customer(r)}
  BY DEF ReadWriteSet, IsPayment
<1>2. /\ Till(t) = <<"w", r.warehouse>> /\ Branch(t) = <<"d", r.warehouse, r.district>>
      /\ Payer(t) = <<"c", r.warehouse, r.district, r.customer>> /\ Record(Customer(r)) = Payer(t)
  BY DEF Till, Branch, Payer, WarehouseY, DistrictY, Customer, Record
<1>3. Till(t) \in Records /\ Branch(t) \in Records /\ Payer(t) \in Records
  <2>1. Record(WarehouseY(r)) \in Records /\ Record(DistrictY(r)) \in Records /\ Record(Customer(r)) \in Records
    BY <1>1, <1>2, RecordsOfKeys DEF Till, Branch
  <2>2. QED
    BY <1>2, <2>1 DEF Till, Branch
<1>4. \A k \in Records : k[1] = "w" => (Branch(t) \in Districts(k) <=> k = Till(t))
  BY <1>2, <1>3, RecordForms DEF Districts
<1>5. \A k \in Records : k[1] = "d" => (Payer(t) \in Customers(k) <=> k = Branch(t))
  BY <1>2, <1>3, RecordForms DEF Customers
<1>6. QED
  BY <1>2, <1>3, <1>4, <1>5, TPCCAssumption DEF IsPayment

(* What a payment adds next; nobody else adds to the fields of the books.  *)
LEMMA PaymentNext ==
  ASSUME Places, NEW t \in Txn, IsPayment(t), pc[t] < Len(Execute[t])
  PROVE  LET a == NextAssignment(t)
             n == Request[t].amount
         IN \/ pc[t] = 0 /\ a.record = Till(t) /\ a.field = "year_to_date" /\ a.n = n
            \/ pc[t] = 1 /\ a.record = Branch(t) /\ a.field = "year_to_date" /\ a.n = n
            \/ pc[t] = 2 /\ a.record = Payer(t) /\ a.field = "balance" /\ a.n = - n
            \/ pc[t] = 3 /\ a.record = Payer(t) /\ a.field = "year_to_date_payment" /\ a.n = n
            \/ pc[t] = 4 /\ a.record = Payer(t) /\ a.field = "payment_count"
<1> DEFINE r == Request[t]  e == Execute[t]
<1>1. e = PaymentTxn(r)
  BY DEF Execute, IsPayment
<1>2. /\ Len(e) = 5
      /\ e[1] = Add(WarehouseY(r), "year_to_date", r.amount)
      /\ e[2] = Add(DistrictY(r), "year_to_date", r.amount)
      /\ e[3] = Add(Customer(r), "balance", - r.amount)
      /\ e[4] = Add(Customer(r), "year_to_date_payment", r.amount)
      /\ e[5] = Add(Customer(r), "payment_count", 1)
  BY <1>1 DEF PaymentTxn
<1>3. Record(Customer(r)) = Payer(t)
  BY DEF Record, Customer, Payer
<1>4. pc[t] \in {0, 1, 2, 3, 4}
  BY <1>2 DEF Places
<1>5. NextAssignment(t) = e[pc[t] + 1]
  BY DEF NextAssignment
<1> HIDE DEF e
<1>6. CASE pc[t] = 0
  BY <1>2, <1>5, <1>6 DEF Add, Assignment, Till
<1>7. CASE pc[t] = 1
  BY <1>2, <1>5, <1>7 DEF Add, Assignment, Branch
<1>8. CASE pc[t] = 2
  BY <1>2, <1>3, <1>5, <1>8 DEF Add, Assignment
<1>9. CASE pc[t] = 3
  BY <1>2, <1>3, <1>5, <1>9 DEF Add, Assignment
<1>10. CASE pc[t] = 4
  BY <1>2, <1>3, <1>5, <1>10 DEF Add, Assignment
<1>11. QED
  BY <1>4, <1>6, <1>7, <1>8, <1>9, <1>10

LEMMA OrdersKeepBooks ==
  ASSUME NEW t \in Txn, IsOrder(t), NEW a, Sound(t, a)
  PROVE  <<a.record[1], a.field>> \notin BookFields
<1>1. \A k \in ReadWriteSet(t) : k[1] \in {"d", "s"}
  BY DEF IsOrder, ReadWriteSet, District, Stock
<1>2. CASE <<a.record[1], a.field>> \in BookFields
  <2>1. Guard(a.record, a.field)[1] \in {"wy", "dy", "c"}
    BY <1>2 DEF Guard, BookFields
  <2>2. QED
    BY <1>1, <2>1 DEF Sound
<1>3. QED
  BY <1>2

(* What a store adds to the fields of the books.                           *)
Entry(t, place) == IF IsPayment(t) /\ pc[t] = place THEN Request[t].amount ELSE 0

LEMMA BookEntries ==
  ASSUME TPCCInv, NEW t \in Txn, Store(t), NEW l \in Records
  PROVE  /\ l[1] = "w" => /\ data[l].year_to_date \in Int
                          /\ data'[l].year_to_date =
                               data[l].year_to_date + (IF l = Till(t) THEN Entry(t, 0) ELSE 0)
         /\ l[1] = "d" => /\ data[l].year_to_date \in Int
                          /\ data'[l].year_to_date =
                               data[l].year_to_date + (IF l = Branch(t) THEN Entry(t, 1) ELSE 0)
         /\ l[1] = "c" => /\ data[l].balance \in Int
                          /\ data'[l].balance =
                               data[l].balance + (IF l = Payer(t) THEN - Entry(t, 2) ELSE 0)
                          /\ data[l].year_to_date_payment \in Int
                          /\ data'[l].year_to_date_payment =
                               data[l].year_to_date_payment + (IF l = Payer(t) THEN Entry(t, 3) ELSE 0)
<1> DEFINE a == NextAssignment(t)
           changes(field) == l = a.record /\ field = a.field
<1>1. /\ pc[t] < Len(Execute[t]) /\ Sound(t, a)
      /\ l # a.record => data'[l] = data[l]
      /\ l = a.record => data'[l] = [data[l] EXCEPT ![a.field] = Assigned(data[l][a.field], a)]
  BY StoreEffect, StoreElsewhere
<1>2. data[l] \in RecordType(l)
  BY DEF TPCCInv, DataTypes
<1>3. a.record = l /\ l[1] # "s" => a.op = "add" /\ a.n \in Int
  BY <1>1 DEF Sound
<1>4. ASSUME NEW field \in DOMAIN data[l], l[1] # "s", data[l][field] \in Int
      PROVE  data'[l][field] = data[l][field] + (IF changes(field) THEN a.n ELSE 0)
  <2> HIDE DEF a
  <2>1. CASE l # a.record
    BY <1>1, <1>4, <2>1
  <2>2. CASE l = a.record /\ field # a.field
    BY <1>1, <1>4, <2>2
  <2>3. CASE l = a.record /\ field = a.field
    <3>1. data'[l][field] = Assigned(data[l][field], a)
      BY <1>1, <1>4, <2>3
    <3>2. Assigned(data[l][field], a) = data[l][field] + a.n
      BY <1>3, <1>4, <2>3 DEF Assigned
    <3>3. QED
      BY <2>3, <3>1, <3>2
  <2>4. QED
    BY <2>1, <2>2, <2>3
<1> DEFINE entry(field) == IF changes(field) THEN a.n ELSE 0
<1>5. /\ l[1] = "w" => entry("year_to_date") = IF l = Till(t) THEN Entry(t, 0) ELSE 0
      /\ l[1] = "d" => entry("year_to_date") = IF l = Branch(t) THEN Entry(t, 1) ELSE 0
      /\ l[1] = "c" =>
           /\ entry("balance") = IF l = Payer(t) THEN - Entry(t, 2) ELSE 0
           /\ entry("year_to_date_payment") = IF l = Payer(t) THEN Entry(t, 3) ELSE 0
  <2>1. CASE IsPayment(t)
    <3> DEFINE n == Request[t].amount
    <3>1. \/ pc[t] = 0 /\ a.record = Till(t) /\ a.field = "year_to_date" /\ a.n = n
          \/ pc[t] = 1 /\ a.record = Branch(t) /\ a.field = "year_to_date" /\ a.n = n
          \/ pc[t] = 2 /\ a.record = Payer(t) /\ a.field = "balance" /\ a.n = - n
          \/ pc[t] = 3 /\ a.record = Payer(t) /\ a.field = "year_to_date_payment" /\ a.n = n
          \/ pc[t] = 4 /\ a.record = Payer(t) /\ a.field = "payment_count"
      BY <1>1, <2>1, PaymentNext DEF TPCCInv
    <3>2. Till(t)[1] = "w" /\ Branch(t)[1] = "d" /\ Payer(t)[1] = "c" /\ n \in Int
      BY <2>1, PaymentRecords
    <3>3. \A p : Entry(t, p) = IF pc[t] = p THEN n ELSE 0
      BY <2>1 DEF Entry
    <3> HIDE DEF a, n
    <3>4. QED
      BY <3>1, <3>2, <3>3
  <2>2. CASE IsOrder(t)
    <3>1. \A p : Entry(t, p) = 0
      BY <2>2 DEF Entry, IsOrder, IsPayment
    <3>2. <<a.record[1], a.field>> \notin BookFields
      BY <1>1, <2>2, OrdersKeepBooks
    <3> HIDE DEF a
    <3>3. QED
      BY <3>1, <3>2 DEF BookFields
  <2>3. IsPayment(t) \/ IsOrder(t)
    <3>1. Execute[t] # <<>>
      BY <1>1, AssignmentsSound DEF TPCCInv, Places
    <3>2. QED
      BY <3>1, TPCCAssumption DEF Execute, IsPayment, IsOrder
  <2>4. QED
    BY <2>1, <2>2, <2>3
<1>6. /\ l[1] = "w" => "year_to_date" \in DOMAIN data[l] /\ data[l].year_to_date \in Int
      /\ l[1] = "d" => "year_to_date" \in DOMAIN data[l] /\ data[l].year_to_date \in Int
      /\ l[1] = "c" => /\ "balance" \in DOMAIN data[l] /\ data[l].balance \in Int
                       /\ "year_to_date_payment" \in DOMAIN data[l]
                       /\ data[l].year_to_date_payment \in Int
  BY <1>2 DEF RecordType
<1>7. \A field \in DOMAIN data[l] :
        l[1] # "s" /\ data[l][field] \in Int => data'[l][field] = data[l][field] + entry(field)
  BY <1>4
<1> HIDE DEF entry
<1>8. QED
  BY <1>5, <1>6, <1>7

(* How a store changes the three differences.                              *)
LEMMA DifferencesChange ==
  ASSUME TPCCInv, NEW t \in Txn, Store(t), NEW k \in Records
  PROVE  /\ k[1] = "w" =>
              /\ Total(data, "year_to_date", Districts(k)) \in Int
              /\ Total(data', "year_to_date", Districts(k)) =
                   Total(data, "year_to_date", Districts(k)) + (IF k = Till(t) THEN Entry(t, 1) ELSE 0)
         /\ k[1] = "d" =>
              /\ Total(data, "balance", Customers(k)) \in Int
              /\ Total(data', "balance", Customers(k)) =
                   Total(data, "balance", Customers(k)) + (IF k = Branch(t) THEN - Entry(t, 2) ELSE 0)
              /\ Total(data, "year_to_date_payment", Customers(k)) \in Int
              /\ Total(data', "year_to_date_payment", Customers(k)) =
                   Total(data, "year_to_date_payment", Customers(k))
                     + (IF k = Branch(t) THEN Entry(t, 3) ELSE 0)
<1>1. \A p : Entry(t, p) \in Int /\ - Entry(t, p) \in Int
  BY PaymentRecords DEF Entry
<1>2. IsFiniteSet(Districts(k)) /\ IsFiniteSet(Customers(k))
  BY RecordsFinite, FS_Subset DEF Districts, Customers
<1>3. ASSUME k[1] = "w"
      PROVE  /\ Total(data, "year_to_date", Districts(k)) \in Int
             /\ Total(data', "year_to_date", Districts(k)) =
                  Total(data, "year_to_date", Districts(k)) + (IF k = Till(t) THEN Entry(t, 1) ELSE 0)
  <2>1. \A d \in Districts(k) :
          /\ data[d].year_to_date \in Int
          /\ data'[d].year_to_date = data[d].year_to_date + (IF d = Branch(t) THEN Entry(t, 1) ELSE 0)
    BY BookEntries DEF Districts
  <2>2. /\ Total(data, "year_to_date", Districts(k)) \in Int
        /\ Total(data', "year_to_date", Districts(k)) =
             Total(data, "year_to_date", Districts(k))
               + (IF Branch(t) \in Districts(k) THEN Entry(t, 1) ELSE 0)
    <3> DEFINE S == Districts(k)  l == Branch(t)  n == Entry(t, 1)  field == "year_to_date"
    <3>1. Moved(data, data', field, S, l, n)
      BY <2>1 DEF Moved
    <3>2. IsFiniteSet(S) /\ n \in Int
      BY <1>1, <1>2
    <3> HIDE DEF S, l, n, field
    <3>3. /\ Total(data, field, S) \in Int
          /\ Total(data', field, S) = Total(data, field, S) + (IF l \in S THEN n ELSE 0)
      BY <3>1, <3>2, TotalChanges
    <3>4. QED
      BY <3>3 DEF S, l, n, field
  <2>3. IsPayment(t) => (Branch(t) \in Districts(k) <=> k = Till(t))
    BY <1>3, PaymentRecords
  <2>4. ~ IsPayment(t) => Entry(t, 1) = 0
    BY DEF Entry
  <2>5. QED
    BY <2>2, <2>3, <2>4
<1>4. ASSUME k[1] = "d"
      PROVE  /\ Total(data, "balance", Customers(k)) \in Int
             /\ Total(data', "balance", Customers(k)) =
                  Total(data, "balance", Customers(k)) + (IF k = Branch(t) THEN - Entry(t, 2) ELSE 0)
             /\ Total(data, "year_to_date_payment", Customers(k)) \in Int
             /\ Total(data', "year_to_date_payment", Customers(k)) =
                  Total(data, "year_to_date_payment", Customers(k))
                    + (IF k = Branch(t) THEN Entry(t, 3) ELSE 0)
  <2>1. \A c \in Customers(k) :
          /\ data[c].balance \in Int
          /\ data'[c].balance = data[c].balance + (IF c = Payer(t) THEN - Entry(t, 2) ELSE 0)
          /\ data[c].year_to_date_payment \in Int
          /\ data'[c].year_to_date_payment =
               data[c].year_to_date_payment + (IF c = Payer(t) THEN Entry(t, 3) ELSE 0)
    BY BookEntries DEF Customers
  <2>2. /\ Total(data, "balance", Customers(k)) \in Int
        /\ Total(data', "balance", Customers(k)) =
             Total(data, "balance", Customers(k))
               + (IF Payer(t) \in Customers(k) THEN - Entry(t, 2) ELSE 0)
    <3> DEFINE S == Customers(k)  l == Payer(t)  n == - Entry(t, 2)  field == "balance"
    <3>1. Moved(data, data', field, S, l, n)
      BY <2>1 DEF Moved
    <3>2. IsFiniteSet(S) /\ n \in Int
      BY <1>1, <1>2
    <3> HIDE DEF S, l, n, field
    <3>3. /\ Total(data, field, S) \in Int
          /\ Total(data', field, S) = Total(data, field, S) + (IF l \in S THEN n ELSE 0)
      BY <3>1, <3>2, TotalChanges
    <3>4. QED
      BY <3>3 DEF S, l, n, field
  <2>3. /\ Total(data, "year_to_date_payment", Customers(k)) \in Int
        /\ Total(data', "year_to_date_payment", Customers(k)) =
             Total(data, "year_to_date_payment", Customers(k))
               + (IF Payer(t) \in Customers(k) THEN Entry(t, 3) ELSE 0)
    <3> DEFINE S == Customers(k)  l == Payer(t)  n == Entry(t, 3)  field == "year_to_date_payment"
    <3>1. Moved(data, data', field, S, l, n)
      BY <2>1 DEF Moved
    <3>2. IsFiniteSet(S) /\ n \in Int
      BY <1>1, <1>2
    <3> HIDE DEF S, l, n, field
    <3>3. /\ Total(data, field, S) \in Int
          /\ Total(data', field, S) = Total(data, field, S) + (IF l \in S THEN n ELSE 0)
      BY <3>1, <3>2, TotalChanges
    <3>4. QED
      BY <3>3 DEF S, l, n, field
  <2>4. IsPayment(t) => (Payer(t) \in Customers(k) <=> k = Branch(t))
    BY <1>4, PaymentRecords
  <2>5. ~ IsPayment(t) => Entry(t, 2) = 0 /\ Entry(t, 3) = 0
    BY DEF Entry
  <2>6. QED
    BY <2>2, <2>3, <2>4, <2>5
<1>5. QED
  BY <1>3, <1>4

LEMMA TotalsAreNumbers ==
  ASSUME TPCCInv, NEW k \in Records
  PROVE  /\ k[1] \in {"w", "d"} => data[k].year_to_date \in Int
         /\ Total(data, "year_to_date", Districts(k)) \in Int
         /\ Total(data, "year_to_date_payment", Customers(k)) \in Int
         /\ Total(data, "balance", Customers(k)) \in Int
<1>1. \A l \in Records : data[l] \in RecordType(l)
  BY DEF TPCCInv, DataTypes
<1>2. IsFiniteSet(Districts(k)) /\ IsFiniteSet(Customers(k))
  BY RecordsFinite, FS_Subset DEF Districts, Customers
<1>3. Moved(data, data, "year_to_date", Districts(k), k, 0)
  <2>1. \A d \in Districts(k) : data[d]["year_to_date"] \in Int
    BY <1>1 DEF Districts, RecordType
  <2>2. QED
    BY <2>1 DEF Moved
<1>4. /\ Moved(data, data, "year_to_date_payment", Customers(k), k, 0)
      /\ Moved(data, data, "balance", Customers(k), k, 0)
  <2>1. \A c \in Customers(k) :
          data[c]["year_to_date_payment"] \in Int /\ data[c]["balance"] \in Int
    BY <1>1 DEF Customers, RecordType
  <2>2. QED
    BY <2>1 DEF Moved
<1>5. 0 \in Int
  OBVIOUS
<1>6. k[1] \in {"w", "d"} => data[k].year_to_date \in Int
  BY <1>1 DEF RecordType
<1>7. QED
  BY <1>2, <1>3, <1>4, <1>5, <1>6, TotalChanges

(* Only one payment at a time is late at a warehouse or a district.        *)
LEMMA OneLate ==
  ASSUME TPCCInv, NEW t \in Txn, IsPayment(t), status[t] = "running",
         NEW u \in Txn, u # t, NEW k \in {Till(t), Branch(t)},
         NEW places \in SUBSET {1, 2, 3}
  PROVE  ~ Late(u, k, places)
<1> SUFFICES ASSUME Late(u, k, places) PROVE FALSE
  OBVIOUS
<1>1. IsPayment(u) /\ pc[u] \in {1, 2, 3} /\ k \in {Till(u), Branch(u)}
  BY DEF Late
<1>2. Len(Execute[u]) = 5
  BY <1>1 DEF Execute, PaymentTxn, IsPayment
<1>3. status[u] = "running"
  <2>1. pc[u] # 0 /\ pc[u] # 5
    BY <1>1
  <2>2. QED
    BY <1>2, <2>1 DEF TPCCInv, Places
<1>4. WarehouseY(Request[t]) = WarehouseY(Request[u])
  BY <1>1 DEF Till, Branch, WarehouseY, DistrictY, Record
<1>5. WarehouseY(Request[t]) \in ReadWriteSet(t) /\ WarehouseY(Request[u]) \in ReadWriteSet(u)
  BY <1>1 DEF ReadWriteSet, IsPayment
<1>6. <<t, u>> \in Conflict
  BY <1>4, <1>5 DEF Conflict, Conflicting
<1>7. QED
  BY <1>3, <1>6, RunningApart DEF TPCCInv

(* What the next store of t adds to a difference.                          *)
Shift(t, k, places) ==
  IF IsPayment(t) /\ k \in {Till(t), Branch(t)}
  THEN (IF pc[t] + 1 \in places THEN Request[t].amount ELSE 0)
         - (IF pc[t] \in places THEN Request[t].amount ELSE 0)
  ELSE 0

LEMMA OffMoves ==
  ASSUME TPCCInv, NEW t \in Txn, Store(t), NEW k, NEW places \in SUBSET {1, 2, 3},
         NEW x \in Int, NEW y, Off(k, places, x), y = x + Shift(t, k, places)
  PROVE  /\ \A u \in Txn : Late(u, k, places)' => y = Request[u].amount
         /\ (\A u \in Txn : ~ Late(u, k, places)') => y = 0
<1> DEFINE mine == IsPayment(t) /\ k \in {Till(t), Branch(t)}
           n == Request[t].amount
<1>1. /\ pc[t] \in Nat /\ pc'[t] = pc[t] + 1 /\ status[t] = "running"
      /\ \A u \in Txn \ {t} : pc'[u] = pc[u]
  BY StoreKeepsPlaces, StoreEffect DEF TPCCInv, Places
<1>2. \A u \in Txn \ {t} : Late(u, k, places)' <=> Late(u, k, places)
  BY <1>1 DEF Late, Till, Branch
<1>3. CASE ~ mine
  <2>1. ~ Late(t, k, places)' /\ ~ Late(t, k, places)
    BY <1>3 DEF Late
  <2>2. \A u \in Txn : Late(u, k, places)' <=> Late(u, k, places)
    BY <1>2, <2>1
  <2>3. y = x
    BY <1>3 DEF Shift
  <2>4. QED
    BY <2>2, <2>3 DEF Off
<1>4. CASE mine
  <2>1. \A u \in Txn \ {t} : ~ Late(u, k, places)' /\ ~ Late(u, k, places)
    BY <1>1, <1>2, <1>4, OneLate
  <2>2. (Late(t, k, places) <=> pc[t] \in places) /\ (Late(t, k, places)' <=> pc[t] + 1 \in places)
    BY <1>1, <1>4 DEF Late, Till, Branch
  <2>3. n \in Int
    BY <1>4, PaymentRecords
  <2>4. x = IF pc[t] \in places THEN n ELSE 0
    BY <2>1, <2>2 DEF Off
  <2>5. y = IF pc[t] + 1 \in places THEN n ELSE 0
    <3>1. y = x + ((IF pc[t] + 1 \in places THEN n ELSE 0) - (IF pc[t] \in places THEN n ELSE 0))
      BY <1>4 DEF Shift
    <3> HIDE DEF n
    <3>2. QED
      BY <2>3, <2>4, <3>1
  <2>6. QED
    BY <2>1, <2>2, <2>5
<1>5. QED
  BY <1>3, <1>4

LEMMA StoreShifts ==
  ASSUME TPCCInv, NEW t \in Txn, Store(t), NEW k \in Records
  PROVE  /\ k[1] = "w" => TillOff(k) \in Int /\ TillOff(k)' = TillOff(k) + Shift(t, k, {1})
         /\ k[1] = "d" =>
              /\ PaidOff(k) \in Int /\ PaidOff(k)' = PaidOff(k) + Shift(t, k, {2, 3})
              /\ OwedOff(k) \in Int /\ OwedOff(k)' = OwedOff(k) + Shift(t, k, {2})
<1> DEFINE n == Request[t].amount
<1>1. pc[t] \in Nat /\ (IsPayment(t) => n \in Int /\ Till(t)[1] = "w" /\ Branch(t)[1] = "d")
  BY PaymentRecords DEF TPCCInv, Places
<1>2. ASSUME NEW a \in Int, NEW b \in Int, NEW c \in Int, NEW d \in Int
      PROVE  /\ a - b \in Int /\ (a + c) - (b + d) = (a - b) + (c - d)
             /\ a + b \in Int /\ (a + c) + (b + d) = (a + b) + (c + d)
  OBVIOUS
<1>3. ASSUME k[1] = "w"
      PROVE  TillOff(k) \in Int /\ TillOff(k)' = TillOff(k) + Shift(t, k, {1})
  <2> DEFINE a == data[k].year_to_date
             b == Total(data, "year_to_date", Districts(k))
             c == IF k = Till(t) THEN Entry(t, 0) ELSE 0
             d == IF k = Till(t) THEN Entry(t, 1) ELSE 0
  <2>1. /\ a \in Int /\ data'[k].year_to_date = a + c
        /\ b \in Int /\ Total(data', "year_to_date", Districts(k)) = b + d
    BY <1>3, BookEntries, DifferencesChange
  <2>2. c \in Int /\ d \in Int /\ c - d = Shift(t, k, {1})
    BY <1>1, <1>3 DEF Entry, Shift
  <2>3. TillOff(k) = a - b /\ TillOff(k)' = (a + c) - (b + d)
    BY <2>1 DEF TillOff
  <2> HIDE DEF a, b, c, d
  <2>4. QED
    BY <1>2, <2>1, <2>2, <2>3
<1>4. ASSUME k[1] = "d"
      PROVE  PaidOff(k) \in Int /\ PaidOff(k)' = PaidOff(k) + Shift(t, k, {2, 3})
  <2> DEFINE a == data[k].year_to_date
             b == Total(data, "year_to_date_payment", Customers(k))
             c == IF k = Branch(t) THEN Entry(t, 1) ELSE 0
             d == IF k = Branch(t) THEN Entry(t, 3) ELSE 0
  <2>1. /\ a \in Int /\ data'[k].year_to_date = a + c
        /\ b \in Int /\ Total(data', "year_to_date_payment", Customers(k)) = b + d
    BY <1>4, BookEntries, DifferencesChange
  <2>2. c \in Int /\ d \in Int /\ c - d = Shift(t, k, {2, 3})
    BY <1>1, <1>4 DEF Entry, Shift
  <2>3. PaidOff(k) = a - b /\ PaidOff(k)' = (a + c) - (b + d)
    BY <2>1 DEF PaidOff
  <2> HIDE DEF a, b, c, d
  <2>4. QED
    BY <1>2, <2>1, <2>2, <2>3
<1>5. ASSUME k[1] = "d"
      PROVE  OwedOff(k) \in Int /\ OwedOff(k)' = OwedOff(k) + Shift(t, k, {2})
  <2> DEFINE a == data[k].year_to_date
             b == Total(data, "balance", Customers(k))
             c == IF k = Branch(t) THEN Entry(t, 1) ELSE 0
             d == IF k = Branch(t) THEN - Entry(t, 2) ELSE 0
  <2>1. /\ a \in Int /\ data'[k].year_to_date = a + c
        /\ b \in Int /\ Total(data', "balance", Customers(k)) = b + d
    BY <1>5, BookEntries, DifferencesChange
  <2>2. c \in Int /\ d \in Int /\ c + d = Shift(t, k, {2})
    BY <1>1, <1>5 DEF Entry, Shift
  <2>3. OwedOff(k) = a + b /\ OwedOff(k)' = (a + c) + (b + d)
    BY <2>1 DEF OwedOff
  <2> HIDE DEF a, b, c, d
  <2>4. QED
    BY <1>2, <2>1, <2>2, <2>3
<1>6. QED
  BY <1>3, <1>4, <1>5

LEMMA StoreKeepsBooks ==
  ASSUME TPCCInv, BooksExact, NEW t \in Txn, Store(t)
  PROVE  BooksExact'
<1> SUFFICES ASSUME NEW k \in Records
             PROVE  /\ k[1] = "w" => Off(k, {1}, TillOff(k))'
                    /\ k[1] = "d" => Off(k, {2, 3}, PaidOff(k))' /\ Off(k, {2}, OwedOff(k))'
  BY DEF BooksExact
<1>1. ASSUME k[1] = "w" PROVE Off(k, {1}, TillOff(k))'
  <2>1. /\ TillOff(k) \in Int /\ TillOff(k)' = TillOff(k) + Shift(t, k, {1})
        /\ Off(k, {1}, TillOff(k))
    BY <1>1, StoreShifts DEF BooksExact
  <2>2. {1} \in SUBSET {1, 2, 3}
    OBVIOUS
  <2>3. QED
    BY <2>1, <2>2, OffMoves DEF Off
<1>2. ASSUME k[1] = "d" PROVE Off(k, {2, 3}, PaidOff(k))'
  <2>1. /\ PaidOff(k) \in Int /\ PaidOff(k)' = PaidOff(k) + Shift(t, k, {2, 3})
        /\ Off(k, {2, 3}, PaidOff(k))
    BY <1>2, StoreShifts DEF BooksExact
  <2>2. {2, 3} \in SUBSET {1, 2, 3}
    OBVIOUS
  <2>3. QED
    BY <2>1, <2>2, OffMoves DEF Off
<1>3. ASSUME k[1] = "d" PROVE Off(k, {2}, OwedOff(k))'
  <2>1. /\ OwedOff(k) \in Int /\ OwedOff(k)' = OwedOff(k) + Shift(t, k, {2})
        /\ Off(k, {2}, OwedOff(k))
    BY <1>3, StoreShifts DEF BooksExact
  <2>2. {2} \in SUBSET {1, 2, 3}
    OBVIOUS
  <2>3. QED
    BY <2>1, <2>2, OffMoves DEF Off
<1>4. QED
  BY <1>1, <1>2, <1>3

LEMMA InitBooks == Init => BooksExact
<1> SUFFICES ASSUME Init, NEW k \in Records
             PROVE  /\ k[1] = "w" => Off(k, {1}, TillOff(k))
                    /\ k[1] = "d" => Off(k, {2, 3}, PaidOff(k)) /\ Off(k, {2}, OwedOff(k))
  BY DEF BooksExact
<1>1. \A l \in Records : data[l] = Created(l)
  BY DEF Init, Loaded
<1>2. pc = [t \in Txn |-> 0]
  BY DEF Init
<1>3. IsFiniteSet(Districts(k)) /\ IsFiniteSet(Customers(k))
  BY RecordsFinite, FS_Subset DEF Districts, Customers
<1>4. \A d \in Districts(k) : data[d]["year_to_date"] = 0
  BY <1>1 DEF Districts, Created
<1>5. \A c \in Customers(k) : data[c]["year_to_date_payment"] = 0 /\ data[c]["balance"] = 0
  BY <1>1 DEF Customers, Created
<1>6. /\ Total(data, "year_to_date", Districts(k)) = 0
      /\ Total(data, "year_to_date_payment", Customers(k)) = 0
      /\ Total(data, "balance", Customers(k)) = 0
  BY <1>3, <1>4, <1>5, TotalOfZeros
<1>7. k[1] \in {"w", "d"} => data[k].year_to_date = 0
  BY <1>1 DEF Created
<1>8. \A t \in Txn : \A places \in {{1}, {2}, {2, 3}} : ~ Late(t, k, places)
  BY <1>2 DEF Late
<1>9. QED
  BY <1>6, <1>7, <1>8 DEF Off, TillOff, PaidOff, OwedOff

LEMMA NextBooks == TPCCInv /\ BooksExact /\ [Next]_vars => BooksExact'
<1> SUFFICES ASSUME TPCCInv, BooksExact, [Next]_vars PROVE BooksExact'
  OBVIOUS
<1>1. CASE UNCHANGED <<data, pc>>
  BY <1>1 DEF BooksExact, Off, Late, TillOff, PaidOff, OwedOff, Till, Branch
<1>2. CASE ~ UNCHANGED <<data, pc>>
  <2>1. PICK t \in Txn : Store(t)
    BY <1>2 DEF Next, vars, Submit, Start, Load, Return
  <2>2. QED
    BY <2>1, StoreKeepsBooks
<1>3. QED
  BY <1>1, <1>2

(* payment.cc:46-67: when nobody is running, a warehouse has taken what    *)
(* its districts have, and a district what its customers have paid and no  *)
(* longer owe, whatever payments and orders run side by side; and a        *)
(* district's next order id counts its orders.                             *)
THEOREM BooksAlwaysBalance == Spec => []BooksBalance
<1>1. TPCCInv /\ BooksExact => BooksBalance
  <2> SUFFICES ASSUME TPCCInv, BooksExact, Running = {}
               PROVE  /\ \A k \in Records : k[1] = "w" =>
                           data[k].year_to_date = Total(data, "year_to_date", Districts(k))
                      /\ \A k \in Records : k[1] = "d" =>
                           /\ data[k].year_to_date = Total(data, "year_to_date_payment", Customers(k))
                           /\ data[k].year_to_date = - Total(data, "balance", Customers(k))
                           /\ data[k].next_order_id =
                                1 + Cardinality({t \in Done("NEW_ORDER") : District(Request[t]) = k})
    BY DEF BooksBalance
  <2>1. ASSUME NEW t \in Txn, NEW k, NEW places \in SUBSET {1, 2, 3}, Late(t, k, places)
        PROVE  FALSE
    <3>1. IsPayment(t) /\ pc[t] \in {1, 2, 3}
      BY <2>1 DEF Late
    <3>2. Len(Execute[t]) = 5
      BY <3>1 DEF Execute, PaymentTxn, IsPayment
    <3>3. status[t] # "running"
      BY DEF Running
    <3>4. /\ status[t] \notin {"running", "done"} => pc[t] = 0
          /\ status[t] = "done" => pc[t] = Len(Execute[t])
      BY DEF TPCCInv, Places
    <3>5. QED
      BY <3>1, <3>2, <3>3, <3>4
  <2>2. {1} \in SUBSET {1, 2, 3} /\ {2} \in SUBSET {1, 2, 3} /\ {2, 3} \in SUBSET {1, 2, 3}
    OBVIOUS
  <2>3. ASSUME NEW k \in Records
        PROVE  /\ k[1] = "w" => TillOff(k) = 0
               /\ k[1] = "d" => PaidOff(k) = 0 /\ OwedOff(k) = 0
    BY <2>1, <2>2 DEF BooksExact, Off
  <2>4. ASSUME NEW k \in Records
        PROVE  /\ k[1] = "w" => data[k].year_to_date = Total(data, "year_to_date", Districts(k))
               /\ k[1] = "d" => /\ data[k].year_to_date = Total(data, "year_to_date_payment", Customers(k))
                                /\ data[k].year_to_date = - Total(data, "balance", Customers(k))
    BY <2>3, TotalsAreNumbers DEF TillOff, PaidOff, OwedOff
  <2>5. OrderIdsExact
    BY OrderIdsFollow
  <2>6. QED
    BY <2>4, <2>5 DEF OrderIdsExact
<1>2. Spec => []BooksExact
  BY InitBooks, NextBooks, AlwaysTPCC, PTL DEF Spec
<1>3. QED
  BY <1>1, <1>2, AlwaysTPCC, PTL

-----------------------------------------------------------------------------
(***************************************************************************)
(* Folds: what is reached by applying one thing after the other.           *)
(***************************************************************************)

LEMMA GreatestOf ==
  ASSUME NEW n \in Nat, NEW S \in SUBSET (1..n), S # {}
  PROVE  /\ Max(S) \in S /\ \A x \in S : x <= Max(S)
         /\ \A m \in 0..(n - 1) : S \in SUBSET (1..(m + 1)) => S \ {Max(S)} \in SUBSET (1..m)
<1>1. \E x \in S : \A y \in S : y <= x
  <2> DEFINE G == {m \in 0..n : \A U \in SUBSET (1..m) : U # {} => \E x \in U : \A y \in U : y <= x}
  <2>1. 0 \in G
    <3>1. 1..0 = {} /\ 0 \in 0..n
      OBVIOUS
    <3>2. QED
      BY <3>1
  <2>2. ASSUME NEW m \in 0..(n - 1), m \in G
        PROVE  m + 1 \in G
    <3>1. ASSUME NEW U \in SUBSET (1..(m + 1)), U # {}
          PROVE  \E x \in U : \A y \in U : y <= x
      <4>1. CASE m + 1 \in U
        BY <4>1
      <4>2. CASE m + 1 \notin U
        <5>1. U \in SUBSET (1..m)
          BY <4>2
        <5>2. QED
          BY <2>2, <3>1, <5>1
      <4>3. QED
        BY <4>1, <4>2
    <3>2. QED
      BY <3>1
  <2> HIDE DEF G
  <2>3. n \in G
    BY <2>1, <2>2, UpTo
  <2>4. QED
    BY <2>3 DEF G
<1>2. Max(S) \in S /\ \A x \in S : x <= Max(S)
  BY <1>1 DEF Max
<1>3. ASSUME NEW m \in 0..(n - 1), S \in SUBSET (1..(m + 1)), NEW x \in S \ {Max(S)}
      PROVE  x \in 1..m
  <2> DEFINE y == Max(S)
  <2>1. x \in 1..(m + 1) /\ y \in 1..(m + 1) /\ x <= y /\ x # y
    BY <1>2, <1>3
  <2> HIDE DEF y
  <2>2. QED
    BY <2>1
<1>4. QED
  BY <1>2, <1>3

LEMMA GreatestUpTo ==
  ASSUME NEW n \in Nat, n # 0
  PROVE  Max(1..n) = n /\ (1..n) \ {n} = 1..(n - 1)
<1>1. 1..n \in SUBSET (1..n) /\ n \in 1..n
  OBVIOUS
<1>2. Max(1..n) \in 1..n /\ n <= Max(1..n)
  BY <1>1, GreatestOf
<1>3. QED
  BY <1>2

(* The recursive function behind FoldLeft.                                 *)
Applies(f, d, s, n) ==
  f = [S \in SUBSET (1..n) |->
         IF S = {} THEN d ELSE Applied(f[S \ {Max(S)}], s[Max(S)])]

LEMMA AppliesExists ==
  ASSUME NEW d, NEW s, NEW n \in Nat
  PROVE  \E f : Applies(f, d, s, n)
<1> DEFINE step(f) == [S \in SUBSET (1..n) |->
                         IF S = {} THEN d ELSE Applied(f[S \ {Max(S)}], s[Max(S)])]
           right(m) == \E f : \A S \in SUBSET (1..m) : f[S] = step(f)[S]
           G == {m \in 0..n : right(m)}
<1>1. 0 \in G
  <2> DEFINE f == [S \in SUBSET (1..n) |-> d]
  <2>1. \A S \in SUBSET (1..0) : S = {}
    OBVIOUS
  <2>2. \A S \in SUBSET (1..0) : f[S] = step(f)[S]
    BY <2>1
  <2> HIDE DEF f, step
  <2>3. right(0)
    BY <2>2
  <2>4. 0 \in 0..n
    OBVIOUS
  <2> HIDE DEF right
  <2>5. QED
    BY <2>3, <2>4
<1>2. ASSUME NEW m \in 0..(n - 1), m \in G
      PROVE  m + 1 \in G
  <2>1. PICK f : \A S \in SUBSET (1..m) : f[S] = step(f)[S]
    BY <1>2
  <2> DEFINE g == step(f)
  <2>2. ASSUME NEW S \in SUBSET (1..(m + 1))
        PROVE  g[S] = step(g)[S]
    <3>1. S \in SUBSET (1..n)
      OBVIOUS
    <3>2. CASE S = {}
      BY <3>2
    <3>3. CASE S # {}
      <4> DEFINE rest == S \ {Max(S)}
      <4>1. rest \in SUBSET (1..m)
        BY <3>1, <3>3, GreatestOf
      <4>2. f[rest] = g[rest]
        BY <2>1, <4>1
      <4>3. g[S] = Applied(f[rest], s[Max(S)]) /\ step(g)[S] = Applied(g[rest], s[Max(S)])
        BY <3>1, <3>3
      <4>4. QED
        BY <4>2, <4>3
    <3>4. QED
      BY <3>2, <3>3
  <2> HIDE DEF g
  <2>3. right(m + 1)
    BY <2>2
  <2> HIDE DEF right
  <2>4. QED
    BY <2>3
<1> HIDE DEF G
<1>3. n \in G
  BY <1>1, <1>2, UpTo
<1>4. PICK f : \A S \in SUBSET (1..n) : f[S] = step(f)[S]
  BY <1>3 DEF G
<1> DEFINE g == step(f)
<1>5. \A S \in SUBSET (1..n) : S \ {Max(S)} \in SUBSET (1..n)
  OBVIOUS
<1>6. \A S \in SUBSET (1..n) : g[S] = f[S]
  BY <1>4
<1>7. g = step(g)
  BY <1>5, <1>6
<1>8. QED
  BY <1>7 DEF Applies

(* T is what d goes through as the assignments of s are made.              *)
Assigning(T, d, s, n) == T[0] = d /\ \A i \in 1..n : T[i] = Applied(T[i - 1], s[i])

LEMMA FoldOfAssignments ==
  ASSUME NEW d, NEW n \in Nat, NEW s, DOMAIN s = 1..n, NEW T, Assigning(T, d, s, n)
  PROVE  FoldLeft(Applied, d, s) = T[n]
<1> DEFINE f == CHOOSE g : Applies(g, d, s, n)
           G == {i \in 0..n : f[1..i] = T[i]}
<1>1. Applies(f, d, s, n)
  BY AppliesExists
<1>2. FoldLeft(Applied, d, s) = f[1..n]
  BY DEF FoldLeft, MapThenFoldSet, Applies
<1> HIDE DEF f
<1>3. 0 \in G
  <2>1. 1..0 = {} /\ {} \in SUBSET (1..n)
    OBVIOUS
  <2>2. QED
    BY <1>1, <2>1 DEF Applies, Assigning
<1>4. ASSUME NEW i \in 0..(n - 1), i \in G
      PROVE  i + 1 \in G
  <2> DEFINE j == i + 1
  <2>1. j \in Nat /\ j # 0 /\ j \in 1..n /\ j - 1 = i
    OBVIOUS
  <2>2. Max(1..j) = j /\ (1..j) \ {j} = 1..i
    BY <2>1, GreatestUpTo
  <2>3. 1..j \in SUBSET (1..n) /\ 1..j # {}
    <3>1. j \in 1..j
      BY <2>1
    <3>2. \A x \in 1..j : x \in 1..n
      BY <2>1
    <3>3. QED
      BY <3>1, <3>2
  <2> HIDE DEF j
  <2>4. f[1..j] = Applied(f[1..i], s[j])
    BY <1>1, <2>2, <2>3 DEF Applies
  <2>5. T[j] = Applied(T[i], s[j])
    BY <2>1 DEF Assigning
  <2>6. f[1..j] = T[j]
    BY <1>4, <2>4, <2>5
  <2>7. QED
    BY <2>1, <2>6 DEF j
<1> HIDE DEF G
<1>5. n \in G
  <2>1. 0..n \subseteq G
    BY <1>3, <1>4, UpTo
  <2>2. QED
    BY <2>1
<1>6. QED
  BY <1>2, <1>5 DEF G

(* The same for the transactions of an order.                              *)
Runs(f, d, s, n) ==
  f = [S \in SUBSET (1..n) |->
         IF S = {} THEN d ELSE After(f[S \ {Max(S)}], s[Max(S)])]

LEMMA RunsExist ==
  ASSUME NEW d, NEW s, NEW n \in Nat
  PROVE  \E f : Runs(f, d, s, n)
<1> DEFINE step(f) == [S \in SUBSET (1..n) |->
                         IF S = {} THEN d ELSE After(f[S \ {Max(S)}], s[Max(S)])]
           right(m) == \E f : \A S \in SUBSET (1..m) : f[S] = step(f)[S]
           G == {m \in 0..n : right(m)}
<1>1. 0 \in G
  <2> DEFINE f == [S \in SUBSET (1..n) |-> d]
  <2>1. \A S \in SUBSET (1..0) : S = {}
    OBVIOUS
  <2>2. \A S \in SUBSET (1..0) : f[S] = step(f)[S]
    BY <2>1
  <2> HIDE DEF f, step
  <2>3. right(0)
    BY <2>2
  <2>4. 0 \in 0..n
    OBVIOUS
  <2> HIDE DEF right
  <2>5. QED
    BY <2>3, <2>4
<1>2. ASSUME NEW m \in 0..(n - 1), m \in G
      PROVE  m + 1 \in G
  <2>1. PICK f : \A S \in SUBSET (1..m) : f[S] = step(f)[S]
    BY <1>2
  <2> DEFINE g == step(f)
  <2>2. ASSUME NEW S \in SUBSET (1..(m + 1))
        PROVE  g[S] = step(g)[S]
    <3>1. S \in SUBSET (1..n)
      OBVIOUS
    <3>2. CASE S = {}
      BY <3>2
    <3>3. CASE S # {}
      <4> DEFINE rest == S \ {Max(S)}
      <4>1. rest \in SUBSET (1..m)
        BY <3>1, <3>3, GreatestOf
      <4>2. f[rest] = g[rest]
        BY <2>1, <4>1
      <4>3. g[S] = After(f[rest], s[Max(S)]) /\ step(g)[S] = After(g[rest], s[Max(S)])
        BY <3>1, <3>3
      <4>4. QED
        BY <4>2, <4>3
    <3>4. QED
      BY <3>2, <3>3
  <2> HIDE DEF g
  <2>3. right(m + 1)
    BY <2>2
  <2> HIDE DEF right
  <2>4. QED
    BY <2>3
<1> HIDE DEF G
<1>3. n \in G
  BY <1>1, <1>2, UpTo
<1>4. PICK f : \A S \in SUBSET (1..n) : f[S] = step(f)[S]
  BY <1>3 DEF G
<1> DEFINE g == step(f)
<1>5. \A S \in SUBSET (1..n) : S \ {Max(S)} \in SUBSET (1..n)
  OBVIOUS
<1>6. \A S \in SUBSET (1..n) : g[S] = f[S]
  BY <1>4
<1>7. g = step(g)
  BY <1>5, <1>6
<1>8. QED
  BY <1>7 DEF Runs

(* T is what d goes through as the transactions of s run.                  *)
Passing(T, d, s, n) == T[0] = d /\ \A i \in 1..n : T[i] = After(T[i - 1], s[i])

LEMMA FoldOfTransactions ==
  ASSUME NEW d, NEW n \in Nat, NEW s, DOMAIN s = 1..n, NEW T, Passing(T, d, s, n)
  PROVE  FoldLeft(After, d, s) = T[n]
<1> DEFINE f == CHOOSE g : Runs(g, d, s, n)
           G == {i \in 0..n : f[1..i] = T[i]}
<1>1. Runs(f, d, s, n)
  BY RunsExist
<1>2. FoldLeft(After, d, s) = f[1..n]
  BY DEF FoldLeft, MapThenFoldSet, Runs
<1> HIDE DEF f
<1>3. 0 \in G
  <2>1. 1..0 = {} /\ {} \in SUBSET (1..n)
    OBVIOUS
  <2>2. QED
    BY <1>1, <2>1 DEF Runs, Passing
<1>4. ASSUME NEW i \in 0..(n - 1), i \in G
      PROVE  i + 1 \in G
  <2> DEFINE j == i + 1
  <2>1. j \in Nat /\ j # 0 /\ j \in 1..n /\ j - 1 = i
    OBVIOUS
  <2>2. Max(1..j) = j /\ (1..j) \ {j} = 1..i
    BY <2>1, GreatestUpTo
  <2>3. 1..j \in SUBSET (1..n) /\ 1..j # {}
    <3>1. j \in 1..j
      BY <2>1
    <3>2. \A x \in 1..j : x \in 1..n
      BY <2>1
    <3>3. QED
      BY <3>1, <3>2
  <2> HIDE DEF j
  <2>4. f[1..j] = After(f[1..i], s[j])
    BY <1>1, <2>2, <2>3 DEF Runs
  <2>5. T[j] = After(T[i], s[j])
    BY <2>1 DEF Passing
  <2>6. f[1..j] = T[j]
    BY <1>4, <2>4, <2>5
  <2>7. QED
    BY <2>1, <2>6 DEF j
<1> HIDE DEF G
<1>5. n \in G
  <2>1. 0..n \subseteq G
    BY <1>3, <1>4, UpTo
  <2>2. QED
    BY <2>1
<1>6. QED
  BY <1>2, <1>5 DEF G

-----------------------------------------------------------------------------
(***************************************************************************)
(* The serial execution.                                                   *)
(***************************************************************************)

(* Assignments to different fields can change places.                      *)
LEMMA AssignmentsCommute ==
  ASSUME NEW d, NEW a, NEW b, ~ (a.record = b.record /\ a.field = b.field)
  PROVE  Applied(Applied(d, a), b) = Applied(Applied(d, b), a)
<1> DEFINE k == a.record  l == b.record
           changed(e, x, c) == [e[x] EXCEPT ![c.field] = Assigned(@, c)]
<1>1. ASSUME NEW e, NEW c
      PROVE  Applied(e, c) = [x \in DOMAIN e |-> IF x = c.record THEN changed(e, x, c) ELSE e[x]]
  BY DEF Applied
<1> HIDE DEF k, l
<1> DEFINE da == Applied(d, a)  db == Applied(d, b)
<1>2. DOMAIN da = DOMAIN d /\ DOMAIN db = DOMAIN d
  BY <1>1
<1>3. ASSUME NEW x \in DOMAIN d
      PROVE  /\ da[x] = IF x = k THEN changed(d, x, a) ELSE d[x]
             /\ db[x] = IF x = l THEN changed(d, x, b) ELSE d[x]
  BY <1>1 DEF k, l
<1> HIDE DEF da, db
<1>4. ASSUME NEW x \in DOMAIN d
      PROVE  (IF x = l THEN changed(da, x, b) ELSE da[x]) = (IF x = k THEN changed(db, x, a) ELSE db[x])
  <2>1. CASE x = k /\ x = l
    <3>1. a.field # b.field
      BY <2>1 DEF k, l
    <3>2. da[x] = changed(d, x, a) /\ db[x] = changed(d, x, b)
      BY <1>3, <2>1
    <3> DEFINE both == [y \in DOMAIN d[x] |-> IF y = a.field THEN Assigned(d[x][y], a)
                                             ELSE IF y = b.field THEN Assigned(d[x][y], b)
                                             ELSE d[x][y]]
    <3>3. changed(da, x, b) = both
      BY <3>1, <3>2
    <3>4. changed(db, x, a) = both
      BY <3>1, <3>2
    <3>5. QED
      BY <2>1, <3>3, <3>4
  <2>2. CASE x # k \/ x # l
    BY <1>3, <2>2
  <2>3. QED
    BY <2>1, <2>2
<1>5. /\ Applied(da, b) = [x \in DOMAIN d |-> IF x = l THEN changed(da, x, b) ELSE da[x]]
      /\ Applied(db, a) = [x \in DOMAIN d |-> IF x = k THEN changed(db, x, a) ELSE db[x]]
  BY <1>1, <1>2 DEF k, l
<1> HIDE DEF changed
<1>6. Applied(da, b) = Applied(db, a)
  BY <1>4, <1>5
<1>7. QED
  BY <1>6 DEF da, db

(* Every transaction submitted has its place in the order, and has started *)
(* only if all conflicting ones before it have finished.                   *)
InOrder ==
  /\ order \in Seq(Txn) /\ IsInjective(order)
  /\ ToSet(order) = {t \in Txn : status[t] # "new"}
  /\ \A i, j \in DOMAIN order :
       i < j /\ <<order[i], order[j]>> \in Conflict =>
         status[order[i]] = "done" \/ order[i] \in blockers[order[j]]
  /\ \A t \in Txn : status[t] \in {"running", "done"} => blockers[t] = {}

(* A serial execution of what has been assigned so far: T is what the      *)
(* transactions leave one after the other, and U what each goes through.   *)
SerialRun(T, U) ==
  /\ T[0] = Loaded
  /\ \A i \in DOMAIN order :
       LET t == order[i] IN
       /\ U[i][0] = T[i - 1] /\ U[i][pc[t]] = T[i]
       /\ \A n \in 1..pc[t] : U[i][n] = Applied(U[i][n - 1], Execute[t][n])
  /\ data = T[Len(order)]

Replayed == \E T, U : SerialRun(T, U)

LEMMA ReplayedIsSerial ==
  ASSUME TPCCInv, InOrder, Replayed
  PROVE  RecordsSerial
<1>1. PICK T, U : SerialRun(T, U)
  BY DEF Replayed
<1> DEFINE L == Len(order)
<1>2. L \in Nat /\ DOMAIN order = 1..L
  BY DEF InOrder
<1>3. ASSUME NEW i \in 1..L
      PROVE  T[i] = After(T[i - 1], order[i])
  <2> DEFINE t == order[i]  s == SubSeq(Execute[t], 1, pc[t])  p == pc[t]
  <2>1. t \in Txn
    BY <1>2 DEF InOrder
  <2>2. p \in Nat /\ p <= Len(Execute[t]) /\ Len(Execute[t]) \in Nat
    BY <2>1, AssignmentsSound DEF TPCCInv, Places
  <2>3. DOMAIN s = 1..p /\ \A n \in 1..p : s[n] = Execute[t][n]
    BY <2>2
  <2>4. U[i][0] = T[i - 1] /\ U[i][p] = T[i] /\ \A n \in 1..p : U[i][n] = Applied(U[i][n - 1], Execute[t][n])
    BY <1>1, <1>2 DEF SerialRun
  <2> HIDE DEF s, p
  <2>5. Assigning(U[i], T[i - 1], s, p)
    BY <2>3, <2>4 DEF Assigning
  <2>6. FoldLeft(Applied, T[i - 1], s) = U[i][p]
    BY <2>2, <2>3, <2>5, FoldOfAssignments
  <2>7. QED
    BY <2>4, <2>6 DEF After, s, p
<1>4. FoldLeft(After, Loaded, order) = T[L]
  <2>1. T[0] = Loaded
    BY <1>1 DEF SerialRun
  <2> HIDE DEF L
  <2>2. Passing(T, Loaded, order, L)
    BY <1>3, <2>1 DEF Passing
  <2>3. QED
    BY <1>2, <2>2, FoldOfTransactions
<1>5. QED
  BY <1>1, <1>4 DEF SerialRun, RecordsSerial

(* order is a list without repetition of those that are not new.           *)
LEMMA SubmitKeepsOrder ==
  ASSUME TPCCInv, InOrder, NEW t \in Txn, Submit(t)
  PROVE  InOrder'
<1> DEFINE L == Len(order)
<1>1. /\ order' = Append(order, t) /\ status[t] = "new" /\ status'[t] \in {"ready", "waiting"}
      /\ \A u \in Txn \ {t} : status'[u] = status[u] /\ blockers'[u] = blockers[u]
      /\ blockers'[t] = {s \in Locks!Outstanding : <<s, t>> \in Conflict}
  BY DEF TPCCInv, Submit, Locks!Submit, LockingInv, Locks!TypeOK
<1>2. /\ L \in Nat /\ DOMAIN order = 1..L /\ \A i \in 1..L : order[i] \in Txn /\ status[order[i]] # "new"
      /\ order \in Seq(Txn)
  BY DEF InOrder, ToSet
<1>3. /\ order' \in Seq(Txn) /\ DOMAIN order' = 1..(L + 1)
      /\ order'[L + 1] = t /\ \A i \in 1..L : order'[i] = order[i] /\ order[i] # t
  BY <1>1, <1>2
<1>4. IsInjective(order')
  <2>1. \A i, j \in 1..(L + 1) : order'[i] = order'[j] => i = j
    <3>1. \A i, j \in 1..L : order[i] = order[j] => i = j
      BY <1>2 DEF InOrder, IsInjective
    <3>2. QED
      BY <1>2, <1>3, <3>1
  <2>2. QED
    BY <1>3, <2>1 DEF IsInjective
<1>5. ToSet(order') = {u \in Txn : status'[u] # "new"}
  <2>1. ToSet(order') = ToSet(order) \cup {t}
    BY <1>2, <1>3 DEF ToSet
  <2>2. ToSet(order) = {u \in Txn : status[u] # "new"}
    BY DEF InOrder
  <2>3. QED
    BY <1>1, <2>1, <2>2
<1>6. ASSUME NEW i \in DOMAIN order', NEW j \in DOMAIN order', i < j, <<order'[i], order'[j]>> \in Conflict
      PROVE  status'[order'[i]] = "done" \/ order'[i] \in blockers'[order'[j]]
  <2>1. i \in 1..L /\ order'[i] = order[i] /\ order[i] \in Txn \ {t}
    BY <1>2, <1>3, <1>6
  <2>2. CASE j \in 1..L
    BY <1>1, <1>2, <1>3, <1>6, <2>1, <2>2 DEF InOrder
  <2>3. CASE j = L + 1
    <3>1. order[i] \in Locks!Outstanding \/ status[order[i]] = "done"
      BY <1>2, <2>1 DEF TPCCInv, LockingInv, Locks!TypeOK, Locks!Outstanding
    <3>2. QED
      BY <1>1, <1>3, <1>6, <2>1, <2>3, <3>1
  <2>4. QED
    BY <1>3, <2>2, <2>3
<1>7. \A u \in Txn : status'[u] \in {"running", "done"} => blockers'[u] = {}
  BY <1>1 DEF InOrder
<1>8. QED
  BY <1>3, <1>4, <1>5, <1>6, <1>7 DEF InOrder

LEMMA StartKeepsOrder ==
  ASSUME TPCCInv, InOrder, NEW t \in Txn, Start(t)
  PROVE  InOrder'
<1>1. /\ order' = order /\ blockers' = blockers /\ status[t] = "ready" /\ status'[t] = "running"
      /\ blockers[t] = {} /\ \A u \in Txn \ {t} : status'[u] = status[u]
  BY DEF TPCCInv, Start, Locks!Start, LockingInv, Locks!TypeOK, Locks!Ordered
<1>2. {u \in Txn : status'[u] # "new"} = {u \in Txn : status[u] # "new"}
  BY <1>1
<1>3. \A u \in Txn : status[u] = "done" => status'[u] = "done"
  BY <1>1
<1>4. \A u \in Txn : status'[u] \in {"running", "done"} => blockers'[u] = {}
  BY <1>1 DEF InOrder
<1>5. \A i \in DOMAIN order : order[i] \in Txn
  BY DEF InOrder
<1>6. QED
  BY <1>1, <1>2, <1>3, <1>4, <1>5 DEF InOrder

LEMMA ReturnKeepsOrder ==
  ASSUME TPCCInv, InOrder, NEW t \in Txn, Return(t)
  PROVE  InOrder'
<1>1. /\ order' = order /\ status[t] = "running" /\ status'[t] = "done"
      /\ \A u \in Txn : blockers'[u] = IF u = t THEN {} ELSE blockers[u] \ {t}
      /\ \A u \in Txn \ {t} :
           status'[u] = status[u] \/ (status[u] = "waiting" /\ status'[u] = "ready")
  BY DEF TPCCInv, Return, Locks!Finish, LockingInv, Locks!TypeOK
<1>2. blockers[t] = {}
  BY <1>1 DEF InOrder
<1>3. {u \in Txn : status'[u] # "new"} = {u \in Txn : status[u] # "new"}
  BY <1>1
<1>4. \A u \in Txn : status'[u] \in {"running", "done"} => blockers'[u] = {}
  BY <1>1 DEF InOrder
<1>5. \A i \in DOMAIN order : order[i] \in Txn
  BY DEF InOrder
<1>6. ASSUME NEW i \in DOMAIN order, NEW j \in DOMAIN order, i < j, <<order[i], order[j]>> \in Conflict
      PROVE  status'[order[i]] = "done" \/ order[i] \in blockers'[order[j]]
  <2>1. status[order[i]] = "done" \/ order[i] \in blockers[order[j]]
    BY <1>6 DEF InOrder
  <2>2. QED
    BY <1>1, <1>2, <1>5, <2>1
<1>7. QED
  BY <1>1, <1>3, <1>4, <1>6 DEF InOrder

LEMMA InitInOrder == Init => InOrder /\ Replayed
<1> SUFFICES ASSUME Init PROVE InOrder /\ Replayed
  OBVIOUS
<1>1. order = <<>> /\ data = Loaded /\ status = [t \in Txn |-> "new"] /\ blockers = [t \in Txn |-> {}]
  BY DEF Init, Locks!Init
<1>2. InOrder
  BY <1>1 DEF InOrder, IsInjective, ToSet
<1>3. Replayed
  <2> DEFINE T == [i \in {0} |-> Loaded]
  <2>1. SerialRun(T, T)
    BY <1>1 DEF SerialRun
  <2> HIDE DEF T
  <2>2. QED
    BY <2>1 DEF Replayed
<1>4. QED
  BY <1>2, <1>3

(* A transaction that joins the order has assigned nothing yet.            *)
LEMMA SubmitKeepsReplay ==
  ASSUME TPCCInv, InOrder, Replayed, NEW t \in Txn, Submit(t)
  PROVE  Replayed'
<1>1. PICK T, U : SerialRun(T, U)
  BY DEF Replayed
<1> DEFINE L == Len(order)
           T2 == [i \in 0..(L + 1) |-> IF i <= L THEN T[i] ELSE T[L]]
           U2 == [i \in 1..(L + 1) |-> IF i <= L THEN U[i] ELSE [n \in {0} |-> T[L]]]
<1>2. L \in Nat /\ DOMAIN order = 1..L /\ order \in Seq(Txn)
  BY DEF InOrder
<1>3. /\ order' = Append(order, t) /\ data' = data /\ pc' = pc /\ status[t] = "new"
  BY DEF Submit, Locks!Submit
<1>4. /\ Len(order') = L + 1 /\ DOMAIN order' = 1..(L + 1)
      /\ order'[L + 1] = t /\ \A i \in 1..L : order'[i] = order[i]
  BY <1>2, <1>3
<1>5. pc[t] = 0
  BY <1>3 DEF TPCCInv, Places
<1>6. /\ T[0] = Loaded /\ data = T[L]
      /\ \A i \in 1..L :
           LET u == order[i] IN
           /\ U[i][0] = T[i - 1] /\ U[i][pc[u]] = T[i]
           /\ \A n \in 1..pc[u] : U[i][n] = Applied(U[i][n - 1], Execute[u][n])
  BY <1>1, <1>2 DEF SerialRun
<1>7. /\ \A i \in 0..L : T2[i] = T[i]
      /\ T2[L + 1] = T[L]
      /\ \A i \in 1..L : U2[i] = U[i]
      /\ U2[L + 1][0] = T[L]
  BY <1>2
<1> HIDE DEF L, T2, U2
<1>8. T2[0] = Loaded /\ data' = T2[L + 1]
  BY <1>2, <1>3, <1>6, <1>7
<1>9. ASSUME NEW i \in 1..L
      PROVE  LET u == order[i] IN
             /\ U2[i][0] = T2[i - 1] /\ U2[i][pc[u]] = T2[i]
             /\ \A n \in 1..pc[u] : U2[i][n] = Applied(U2[i][n - 1], Execute[u][n])
  <2>1. i \in 0..L /\ i - 1 \in 0..L
    BY <1>2
  <2>2. T2[i] = T[i] /\ T2[i - 1] = T[i - 1] /\ U2[i] = U[i]
    BY <1>7, <2>1
  <2>3. QED
    BY <1>6, <2>2
<1>10. /\ U2[L + 1][0] = T2[(L + 1) - 1] /\ U2[L + 1][pc[t]] = T2[L + 1]
       /\ 1..pc[t] = {}
  <2>1. (L + 1) - 1 = L /\ L \in 0..L
    BY <1>2
  <2>2. QED
    BY <1>5, <1>7, <2>1
<1>11. PICK X, Y : X = T2 /\ Y = U2
  OBVIOUS
<1>12. SerialRun(X, Y)'
  <2>1. ASSUME NEW i \in 1..(L + 1)
        PROVE  LET u == order'[i] IN
               /\ U2[i][0] = T2[i - 1] /\ U2[i][pc[u]] = T2[i]
               /\ \A n \in 1..pc[u] : U2[i][n] = Applied(U2[i][n - 1], Execute[u][n])
    <3>1. CASE i = L + 1
      BY <1>4, <1>10, <3>1
    <3>2. CASE i \in 1..L
      BY <1>4, <1>9, <3>2
    <3>3. QED
      BY <1>2, <3>1, <3>2
  <2>2. QED
    BY <1>3, <1>4, <1>8, <1>11, <2>1 DEF SerialRun
<1>13. QED
  BY <1>12 DEF Replayed

(* The place of a transaction that has started; who comes after it and has *)
(* assigned something does not conflict with it.                           *)
LEMMA LaterApart ==
  ASSUME TPCCInv, InOrder, NEW t \in Txn, status[t] = "running"
  PROVE  \E m \in DOMAIN order :
           /\ order[m] = t
           /\ \A i \in DOMAIN order : i # m => order[i] # t
           /\ \A i \in DOMAIN order :
                i > m /\ pc[order[i]] # 0 => <<t, order[i]>> \notin Conflict
<1>1. PICK m \in DOMAIN order : order[m] = t
  BY DEF InOrder, ToSet
<1>2. \A i \in DOMAIN order : i # m => order[i] # t
  BY <1>1 DEF InOrder, IsInjective
<1>3. ASSUME NEW i \in DOMAIN order, i > m, pc[order[i]] # 0, <<t, order[i]>> \in Conflict
      PROVE  FALSE
  <2>1. order[i] \in Txn /\ m < i
    BY <1>3 DEF InOrder
  <2>2. blockers[order[i]] = {}
    BY <1>3, <2>1 DEF TPCCInv, Places, InOrder
  <2>3. status[t] = "done" \/ t \in blockers[order[i]]
    BY <1>1, <1>3, <2>1 DEF InOrder
  <2>4. QED
    BY <2>2, <2>3
<1>4. QED
  BY <1>1, <1>2, <1>3

(* What t assigns now could as well have been assigned before everything   *)
(* that those after it in the order have assigned.                         *)
LEMMA StoreKeepsReplay ==
  ASSUME TPCCInv, InOrder, Replayed, NEW t \in Txn, Store(t)
  PROVE  Replayed'
<1> DEFINE a == NextAssignment(t)  L == Len(order)  p == pc[t]
<1>1. PICK T, U : SerialRun(T, U)
  BY DEF Replayed
<1>2. L \in Nat /\ DOMAIN order = 1..L /\ order \in Seq(Txn) /\ \A i \in 1..L : order[i] \in Txn
  BY DEF InOrder
<1>3. /\ status[t] = "running" /\ p < Len(Execute[t]) /\ Sound(t, a) /\ order' = order
  BY StoreEffect
<1>4. /\ p \in Nat /\ pc'[t] = p + 1 /\ \A u \in Txn \ {t} : pc'[u] = pc[u] /\ pc[u] \in Nat
  BY StoreKeepsPlaces DEF TPCCInv, Places
<1>5. data' = Applied(data, a)
  <2>1. register[t] = <<data[a.record][a.field]>>
    BY DEF Store, TPCCInv, LoadsFresh
  <2>2. data' = [data EXCEPT ![a.record][a.field] = Assigned(register[t][1], a)]
    BY DEF Store
  <2> HIDE DEF a
  <2>3. QED
    BY <2>1, <2>2 DEF Applied
<1>6. PICK m \in 1..L :
        /\ order[m] = t
        /\ \A i \in 1..L : i # m => order[i] # t
        /\ \A i \in 1..L : i > m /\ pc[order[i]] # 0 => <<t, order[i]>> \notin Conflict
  BY <1>2, <1>3, LaterApart
<1>7. /\ T[0] = Loaded /\ data = T[L]
      /\ \A i \in 1..L :
           LET u == order[i] IN
           /\ U[i][0] = T[i - 1] /\ U[i][pc[u]] = T[i]
           /\ \A n \in 1..pc[u] : U[i][n] = Applied(U[i][n - 1], Execute[u][n])
  BY <1>1, <1>2 DEF SerialRun
<1>8. a = Execute[t][p + 1]
  BY DEF NextAssignment
<1> DEFINE longer == [n \in 0..(p + 1) |-> IF n <= p THEN U[m][n] ELSE Applied(U[m][p], a)]
           shifted(i) == [n \in 0..pc[order[i]] |-> Applied(U[i][n], a)]
           T2 == [i \in 0..L |-> IF i < m THEN T[i] ELSE Applied(T[i], a)]
           U2 == [i \in 1..L |-> IF i < m THEN U[i] ELSE IF i = m THEN longer ELSE shifted(i)]
<1>9. /\ \A i \in 0..L : i < m => T2[i] = T[i]
      /\ \A i \in 0..L : i >= m => T2[i] = Applied(T[i], a)
      /\ \A i \in 1..L : i < m => U2[i] = U[i]
      /\ \A i \in 1..L : i > m => U2[i] = shifted(i)
      /\ U2[m] = longer
  BY <1>2
<1>10. /\ \A n \in 0..p : longer[n] = U[m][n]
       /\ longer[p + 1] = Applied(U[m][p], a)
  BY <1>4
<1> HIDE DEF a, L, p, T2, U2, longer
<1> DEFINE Part(i, q) == /\ U2[i][0] = T2[i - 1] /\ U2[i][q] = T2[i]
                         /\ \A n \in 1..q : U2[i][n] = Applied(U2[i][n - 1], Execute[order[i]][n])
<1>11. ASSUME NEW i \in 1..L, i < m
       PROVE  Part(i, pc[order[i]])
  <2>1. i \in 0..L /\ i - 1 \in 0..L /\ i - 1 < m
    BY <1>2, <1>11
  <2>2. T2[i] = T[i] /\ T2[i - 1] = T[i - 1] /\ U2[i] = U[i]
    BY <1>9, <1>11, <2>1
  <2>3. QED
    BY <1>7, <2>2
<1>12. Part(m, p + 1)
  <2>1. m \in 0..L /\ m - 1 \in 0..L /\ m - 1 < m /\ m >= m /\ 0 \in 0..p /\ p \in 0..p
    BY <1>2, <1>4
  <2>2. T2[m - 1] = T[m - 1] /\ T2[m] = Applied(T[m], a)
    BY <1>9, <2>1
  <2>3. U[m][0] = T[m - 1] /\ U[m][p] = T[m]
    BY <1>6, <1>7 DEF p
  <2>4. longer[0] = T2[m - 1] /\ longer[p + 1] = T2[m]
    BY <1>10, <2>1, <2>2, <2>3
  <2>5. ASSUME NEW n \in 1..(p + 1)
        PROVE  longer[n] = Applied(longer[n - 1], Execute[t][n])
    <3>1. CASE n = p + 1
      <4>1. n - 1 = p
        BY <1>4, <3>1
      <4>2. QED
        BY <1>8, <1>10, <2>1, <3>1, <4>1
    <3>2. CASE n \in 1..p
      <4>1. n \in 0..p /\ n - 1 \in 0..p
        BY <1>4, <3>2
      <4>2. U[m][n] = Applied(U[m][n - 1], Execute[t][n])
        BY <1>6, <1>7, <3>2 DEF p
      <4>3. QED
        BY <1>10, <4>1, <4>2
    <3>3. QED
      BY <1>4, <3>1, <3>2
  <2>6. QED
    BY <1>6, <1>9, <2>4, <2>5
<1>13. ASSUME NEW i \in 1..L, i > m
       PROVE  Part(i, pc[order[i]])
  <2> DEFINE u == order[i]  q == pc[order[i]]
  <2>1. i \in 0..L /\ i - 1 \in 0..L /\ i - 1 >= m /\ i >= m
    BY <1>2, <1>13
  <2>2. u \in Txn \ {t} /\ q \in Nat
    BY <1>2, <1>4, <1>6, <1>13
  <2>3. T2[i] = Applied(T[i], a) /\ T2[i - 1] = Applied(T[i - 1], a)
    BY <1>9, <2>1
  <2>4. \A n \in 0..q : U2[i][n] = Applied(U[i][n], a)
    <3>1. U2[i] = [n \in 0..q |-> Applied(U[i][n], a)]
      BY <1>9, <1>13
    <3> HIDE DEF q, U2
    <3>2. QED
      BY <3>1
  <2>5. /\ U[i][0] = T[i - 1] /\ U[i][q] = T[i]
        /\ \A n \in 1..q : U[i][n] = Applied(U[i][n - 1], Execute[u][n])
    BY <1>7
  <2>6. ASSUME NEW n \in 1..q
        PROVE  U2[i][n] = Applied(U2[i][n - 1], Execute[u][n])
    <3> DEFINE b == Execute[u][n]
    <3>1. n \in 0..q /\ n - 1 \in 0..q /\ q # 0
      BY <2>2
    <3>2. Sound(u, b)
      <4>1. q <= Len(Execute[u]) /\ Len(Execute[u]) \in Nat
        BY <2>2, AssignmentsSound DEF TPCCInv, Places
      <4>2. n \in 1..Len(Execute[u])
        BY <2>2, <4>1
      <4>3. QED
        BY <2>2, <4>2, AssignmentsSound
    <3>3. <<t, u>> \notin Conflict
      BY <1>6, <1>13, <3>1
    <3>4. ~ (b.record = a.record /\ b.field = a.field)
      BY <1>3, <2>2, <3>2, <3>3, SameFieldConflicts
    <3> HIDE DEF b, u, q
    <3>5. Applied(Applied(U[i][n - 1], b), a) = Applied(Applied(U[i][n - 1], a), b)
      BY <3>4, AssignmentsCommute
    <3>6. U[i][n] = Applied(U[i][n - 1], b)
      BY <2>5 DEF b
    <3>7. U2[i][n] = Applied(U2[i][n - 1], b)
      BY <2>4, <3>1, <3>5, <3>6
    <3>8. QED
      BY <3>7 DEF b
  <2>7. 0 \in 0..q /\ q \in 0..q
    BY <2>2
  <2> HIDE DEF u, q
  <2>8. U2[i][0] = T2[i - 1] /\ U2[i][q] = T2[i]
    BY <2>3, <2>4, <2>5, <2>7
  <2>9. QED
    BY <2>6, <2>8 DEF u, q
<1>14. T2[0] = Loaded /\ data' = T2[L]
  <2>1. 0 \in 0..L /\ 0 < m /\ L \in 0..L /\ L >= m
    BY <1>2
  <2>2. QED
    BY <1>5, <1>7, <1>9, <2>1
<1>15. ASSUME NEW i \in 1..L
       PROVE  Part(i, pc'[order[i]])
  <2>1. CASE i = m
    BY <1>4, <1>6, <1>12, <2>1
  <2>2. CASE i < m
    <3>1. order[i] \in Txn \ {t}
      BY <1>2, <1>6, <2>2
    <3>2. QED
      BY <1>4, <1>11, <2>2, <3>1
  <2>3. CASE i > m
    <3>1. order[i] \in Txn \ {t}
      BY <1>2, <1>6, <2>3
    <3>2. QED
      BY <1>4, <1>13, <2>3, <3>1
  <2>4. QED
    BY <1>2, <2>1, <2>2, <2>3
<1>16. PICK X, Y : X = T2 /\ Y = U2
  OBVIOUS
<1>17. SerialRun(X, Y)'
  <2>1. /\ \A i \in 1..L :
             /\ Y[i][0] = X[i - 1] /\ Y[i][pc'[order[i]]] = X[i]
             /\ \A n \in 1..pc'[order[i]] : Y[i][n] = Applied(Y[i][n - 1], Execute[order[i]][n])
        /\ X[0] = Loaded /\ data' = X[L]
    BY <1>14, <1>15, <1>16
  <2>2. DOMAIN order' = 1..L /\ Len(order') = L
    BY <1>2, <1>3 DEF L
  <2>3. QED
    BY <1>3, <2>1, <2>2 DEF SerialRun
<1>18. QED
  BY <1>17 DEF Replayed

LEMMA NextReplay == TPCCInv /\ InOrder /\ Replayed /\ [Next]_vars => InOrder' /\ Replayed'
<1> SUFFICES ASSUME TPCCInv, InOrder, Replayed, [Next]_vars PROVE InOrder' /\ Replayed'
  OBVIOUS
<1>1. ASSUME UNCHANGED <<order, status, blockers>> PROVE InOrder'
  BY <1>1 DEF InOrder
<1>2. ASSUME UNCHANGED <<order, pc, data>> PROVE Replayed'
  BY <1>2 DEF Replayed, SerialRun
<1>3. CASE UNCHANGED vars
  BY <1>1, <1>2, <1>3 DEF vars, locking
<1>4. ASSUME NEW t \in Txn, Submit(t) PROVE InOrder' /\ Replayed'
  BY <1>4, SubmitKeepsOrder, SubmitKeepsReplay
<1>5. ASSUME NEW t \in Txn, Start(t) PROVE InOrder' /\ Replayed'
  BY <1>2, <1>5, StartKeepsOrder DEF Start
<1>6. ASSUME NEW t \in Txn, Load(t) PROVE InOrder' /\ Replayed'
  BY <1>1, <1>2, <1>6 DEF Load, locking
<1>7. ASSUME NEW t \in Txn, Store(t) PROVE InOrder' /\ Replayed'
  BY <1>1, <1>7, StoreEffect, StoreKeepsReplay
<1>8. ASSUME NEW t \in Txn, Return(t) PROVE InOrder' /\ Replayed'
  BY <1>2, <1>8, ReturnKeepsOrder DEF Return
<1>9. QED
  BY <1>3, <1>4, <1>5, <1>6, <1>7, <1>8 DEF Next

(* README: "a pre-determined serial ordering of transactions to which      *)
(* every node must guarantee equivalence".                                 *)
THEOREM ExecutionIsSerial == Spec => []RecordsSerial
<1>1. Spec => [](InOrder /\ Replayed)
  BY InitInOrder, NextReplay, AlwaysTPCC, PTL DEF Spec
<1>2. TPCCInv /\ InOrder /\ Replayed => RecordsSerial
  BY ReplayedIsSerial
<1>3. QED
  BY <1>1, <1>2, AlwaysTPCC, PTL
=============================================================================
