-------------------------------- MODULE TPCC --------------------------------
(***************************************************************************)
(* The TPC-C application (stored_procedures/tpcc/): what NewTxn puts into  *)
(* a transaction's read, read-write and write sets, and what Execute does  *)
(* with them, on worker threads that run side by side as far as            *)
(* DeterministicLocking lets them.                                         *)
(*                                                                         *)
(* Records are changed in place, through GetMutable, one assignment after  *)
(* the other; an assignment such as                                        *)
(*     warehouse->year_to_date += amount                                   *)
(* is a load and a store.  A transaction is local to one warehouse         *)
(* (multipartition is false), so one node runs it.                         *)
(***************************************************************************)
EXTENDS Integers, Sequences, SequencesExt, FiniteSetsExt

CONSTANTS
  Txn,         \* the ids of the transactions of the run
  Request,     \* what NewTxn has chosen for each
  Quantity     \* how many of each item the warehouses have at the start

Line == [item : Nat \cup {-1}, quantity : 1..10]

(* CreateStock begins with 100 to 199; earlier orders have left the rest.  *)
ASSUME TPCCAssumption ==
  /\ IsFiniteSet(Txn) /\ Quantity \in 10..199
  /\ \A t \in Txn :
       /\ Request[t].type \in {"NEW_ORDER", "PAYMENT", "ORDER_STATUS"}
       /\ Request[t].type = "NEW_ORDER" =>
            /\ Request[t].lines \in Seq(Line)
            /\ \A i \in DOMAIN Request[t].lines :
                 Request[t].lines[i].item = -1 => i = Len(Request[t].lines)
       /\ Request[t].type = "PAYMENT" => Request[t].amount \in Int

VARIABLES
  order,       \* the transactions submitted to the lock manager, in order
  status,      \* of each transaction: new, waiting, ready, running, done
  blockers,    \* (see DeterministicLocking)
  data,        \* the records
  pc,          \* how many assignments each transaction has made
  register,    \* what it has loaded for the next, <<>> if nothing
  rows         \* the rows added, in order

locking == <<status, blockers>>
vars == <<order, locking, data, pc, register, rows>>

-----------------------------------------------------------------------------
(* Keys are tuples that begin with the kind of record.                     *)
Warehouse(r) == <<"w", r.warehouse>>
District(r) == <<"d", r.warehouse, r.district>>
Customer(r) == <<"c", r.warehouse, r.district, r.customer>>
Stock(r, item) == <<"s", r.warehouse, item>>

(* Payments use keys of their own ("w0y", "w0d0y") for warehouse and       *)
(* district, which InitializeStorage puts with the same record.            *)
WarehouseY(r) == <<"wy", r.warehouse>>
DistrictY(r) == <<"dy", r.warehouse, r.district>>

(* Variant of History without the id.                                      *)
History_PerWarehouse(r, id) == <<"h", r.warehouse>>

(* Rows that a transaction adds have its id in their key.                  *)
NewOrder(r, id) == <<"no", r.warehouse, r.district, id>>
Order(r, id) == <<"o", r.warehouse, r.district, r.customer, id>>
History(r, id) == <<"h", r.warehouse, id>>

(* NewTxn: an order has its lines, the last of which may be of item -1.    *)
Items(r) == {r.lines[i].item : i \in DOMAIN r.lines}

ReadSet(t) == LET r == Request[t] IN
  IF r.type = "NEW_ORDER" THEN {Warehouse(r), Customer(r)} ELSE {}

(* Variant of ReadWriteSet: payments without the keys with a y.            *)
ReadWriteSet_NoY(t) == LET r == Request[t] IN
  IF r.type = "NEW_ORDER"
  THEN {District(r)} \cup {Stock(r, item) : item \in Items(r)}
  ELSE {Customer(r)}

ReadWriteSet(t) == LET r == Request[t] IN
  CASE r.type = "NEW_ORDER" ->
         {District(r)} \cup {Stock(r, item) : item \in Items(r)}
    [] r.type = "PAYMENT" -> {WarehouseY(r), DistrictY(r), Customer(r)}
    [] r.type = "ORDER_STATUS" -> {Customer(r)}

(* Nothing locks the keys of the write sets.                               *)
Conflicting(s, t) ==
  \/ ReadWriteSet(s) \cap (ReadSet(t) \cup ReadWriteSet(t)) # {}
  \/ ReadWriteSet(t) \cap ReadSet(s) # {}

Conflict == {p \in Txn \X Txn : p[1] # p[2] /\ Conflicting(p[1], p[2])}

Locks == INSTANCE DeterministicLocking

(* The record a key leads to, and what InitializeStorage puts there.       *)
Record(k) ==
  CASE k[1] = "wy" -> <<"w", k[2]>>
    [] k[1] = "dy" -> <<"d", k[2], k[3]>>
    [] OTHER -> k

Created(k) ==
  CASE k[1] = "w" -> [year_to_date |-> 0]
    [] k[1] = "d" -> [year_to_date |-> 0, next_order_id |-> 1]
    [] k[1] = "c" -> [balance |-> 0, year_to_date_payment |-> 0, payment_count |-> 0]
    [] k[1] = "s" -> [quantity |-> Quantity, year_to_date |-> 0, order_count |-> 0]

(* There is no stock of item -1.                                           *)
Records ==
  {Record(k) : k \in UNION {ReadSet(t) \cup ReadWriteSet(t) : t \in Txn}}
    \ {Stock(Request[t], -1) : t \in Txn}

Loaded == [k \in Records |-> Created(k)]

-----------------------------------------------------------------------------
(* What Execute does, as the assignments it makes one after the other:     *)
(* record, field, and what is made of the field's value.                   *)
Assignment(k, field, op, n) == [record |-> Record(k), field |-> field, op |-> op, n |-> n]
Add(k, field, n) == Assignment(k, field, "add", n)

(* Variant of Restocked that refills when it is too late.                  *)
Restocked_Late(quantity, n) ==
  IF quantity >= n THEN quantity - n ELSE quantity - (n - 91)

(* new_order.cc: if (stock->quantity >= quantity + 10) ...                 *)
Restocked(quantity, n) ==
  IF quantity >= n + 10 THEN quantity - n ELSE quantity - (n - 91)

Assigned(value, a) ==
  IF a.op = "add" THEN value + a.n ELSE Restocked(value, a.n)

(* An order line of an item there is not ends the transaction.             *)
Valid(r) == -1 \notin Items(r)
ValidLines(r) == IF Valid(r) THEN r.lines ELSE Front(r.lines)

OrderLine(r, line) ==
  LET k == Stock(r, line.item) IN
  << Add(k, "year_to_date", line.quantity),
     Add(k, "order_count", -1),
     Assignment(k, "quantity", "restock", line.quantity) >>

NewOrderTxn(r) ==
  <<Add(District(r), "next_order_id", 1)>> \o
  [i \in 1..(3 * Len(ValidLines(r))) |->
     OrderLine(r, ValidLines(r)[((i - 1) \div 3) + 1])[((i - 1) % 3) + 1]]

(* Variant of PaymentTxn that forgets the district.                        *)
PaymentTxn_NoDistrict(r) ==
  << Add(WarehouseY(r), "year_to_date", r.amount),
     Add(Customer(r), "balance", - r.amount),
     Add(Customer(r), "year_to_date_payment", r.amount),
     Add(Customer(r), "payment_count", 1) >>

PaymentTxn(r) ==
  << Add(WarehouseY(r), "year_to_date", r.amount),
     Add(DistrictY(r), "year_to_date", r.amount),
     Add(Customer(r), "balance", - r.amount),
     Add(Customer(r), "year_to_date_payment", r.amount),
     Add(Customer(r), "payment_count", 1) >>

(* Execute returns FAILURE at once for the other types.                    *)
Execute == [t \in Txn |-> LET r == Request[t] IN
  CASE r.type = "NEW_ORDER" -> NewOrderTxn(r)
    [] r.type = "PAYMENT" -> PaymentTxn(r)
    [] OTHER -> <<>>]

(* What is put at the end, after the assignments.                          *)
Added(t) == LET r == Request[t] IN
  CASE r.type = "NEW_ORDER" /\ Valid(r) -> <<NewOrder(r, t), Order(r, t)>>
    [] r.type = "PAYMENT" -> <<History(r, t)>>
    [] OTHER -> <<>>

-----------------------------------------------------------------------------
Init ==
  /\ Locks!Init
  /\ order = <<>>
  /\ data = Loaded
  /\ pc = [t \in Txn |-> 0]
  /\ register = [t \in Txn |-> <<>>]
  /\ rows = <<>>

(* The main loop asks for the locks of the next transaction.               *)
Submit(t) ==
  /\ Locks!Submit(t)
  /\ order' = Append(order, t)
  /\ UNCHANGED <<data, pc, register, rows>>

(* A worker thread takes a transaction that has its locks.                 *)
Start(t) ==
  /\ Locks!Start(t)
  /\ UNCHANGED <<order, data, pc, register, rows>>

NextAssignment(t) == Execute[t][pc[t] + 1]

Load(t) ==
  /\ status[t] = "running" /\ register[t] = <<>> /\ pc[t] < Len(Execute[t])
  /\ register' = [register EXCEPT ![t] =
                    <<data[NextAssignment(t).record][NextAssignment(t).field]>>]
  /\ UNCHANGED <<order, locking, data, pc, rows>>

Store(t) ==
  LET a == NextAssignment(t) IN
  /\ register[t] # <<>>
  /\ data' = [data EXCEPT ![a.record][a.field] = Assigned(register[t][1], a)]
  /\ register' = [register EXCEPT ![t] = <<>>]
  /\ pc' = [pc EXCEPT ![t] = @ + 1]
  /\ UNCHANGED <<order, locking, rows>>

(* The rows are put, Execute returns, and whatever it returns the worker   *)
(* hands the transaction back for its locks to be released.                *)
Return(t) ==
  /\ status[t] = "running" /\ register[t] = <<>> /\ pc[t] = Len(Execute[t])
  /\ Locks!Finish(t)
  /\ rows' = rows \o Added(t)
  /\ UNCHANGED <<order, data, pc, register>>

Next == \E t \in Txn : Submit(t) \/ Start(t) \/ Load(t) \/ Store(t) \/ Return(t)

Spec == Init /\ [][Next]_vars

-----------------------------------------------------------------------------
Running == {t \in Txn : status[t] = "running"}
Done(type) == {t \in Txn : status[t] = "done" /\ Request[t].type = type}

Applied(d, a) == [d EXCEPT ![a.record][a.field] = Assigned(@, a)]

(* What the assignments that t has made so far make of the records d.      *)
After(d, t) == FoldLeft(Applied, d, SubSeq(Execute[t], 1, pc[t]))

(* README: "a pre-determined serial ordering of transactions to which      *)
(* every node must guarantee equivalence".  At every moment every field    *)
(* has the value that the same assignments leave when the transactions run *)
(* alone, in the order they were submitted: no update is lost between a    *)
(* load and a store, although payments and orders of a district share its  *)
(* record and no lock.                                                     *)
RecordsSerial == data = FoldLeft(After, Loaded, order)

Districts(k) == {d \in Records : d[1] = "d" /\ d[2] = k[2]}
Customers(k) == {c \in Records : c[1] = "c" /\ c[2] = k[2] /\ c[3] = k[3]}

Total(d, field, S) == MapThenSumSet(LAMBDA k : d[k][field], S)

(* When nobody is running the books balance: a warehouse has taken what    *)
(* its districts have, a district what its customers have paid and what    *)
(* they no longer owe, and a district's next order id counts its orders.   *)
BooksBalance ==
  Running = {} =>
    /\ \A k \in Records : k[1] = "w" =>
         data[k].year_to_date = Total(data, "year_to_date", Districts(k))
    /\ \A k \in Records : k[1] = "d" =>
         /\ data[k].year_to_date = Total(data, "year_to_date_payment", Customers(k))
         /\ data[k].year_to_date = - Total(data, "balance", Customers(k))
         /\ data[k].next_order_id =
              1 + Cardinality({t \in Done("NEW_ORDER") : District(Request[t]) = k})

(* A stock is refilled in time, by 91, and never runs out: it never falls  *)
(* below 10, and what was sold is what is missing.                         *)
StockHeld ==
  \A k \in Records : k[1] = "s" =>
    /\ data[k].quantity \in 10..199
    /\ Running = {} =>
         (data[k].quantity + data[k].year_to_date - Quantity) % 91 = 0

(* The keys of write sets are not locked (lock_manager.cc:31-37): each row *)
(* is put once, by its own transaction, and by one that succeeds.          *)
RowsExact ==
  /\ IsInjective(rows)
  /\ ToSet(rows) = UNION {ToSet(Added(t)) : t \in {u \in Txn : status[u] = "done"}}

(* new_order.cc:14-15: "This follows the TPC-C standard", in which an      *)
(* order of an unused item is rolled back: a district's order ids are then *)
(* those of the orders there are.  The code returns and leaves what it has *)
(* changed.                                                                *)
FailuresUndone ==
  Running = {} =>
    \A k \in Records : k[1] = "d" =>
      data[k].next_order_id =
        1 + Cardinality({i \in DOMAIN rows : SubSeq(rows[i], 1, 3) = <<"no", k[2], k[3]>>})
=============================================================================
