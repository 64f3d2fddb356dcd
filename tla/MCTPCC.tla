------------------------------- MODULE MCTPCC -------------------------------
(***************************************************************************)
(* An instance of TPCC for TLC: one warehouse with two districts.          *)
(***************************************************************************)
EXTENDS TPCC

OfItem(item, quantity) == [item |-> item, quantity |-> quantity]
Order0(d, c, lines) ==
  [type |-> "NEW_ORDER", warehouse |-> 0, district |-> d, customer |-> c, lines |-> lines]
Payment0(d, c, amount) ==
  [type |-> "PAYMENT", warehouse |-> 0, district |-> d, customer |-> c, amount |-> amount]
OrderStatus0(d, c) ==
  [type |-> "ORDER_STATUS", warehouse |-> 0, district |-> d, customer |-> c]

(* 1 and 2 sell the same item, 2 fails on its last line; 3 and 4 pay in    *)
(* different districts; 3 shares a district with 1, 4 its customer with 2  *)
(* and 5.                                                                  *)
MCRequest ==
  << Order0(0, 0, <<OfItem(1, 5), OfItem(2, 10)>>),
     Order0(1, 0, <<OfItem(1, 10), OfItem(-1, 3)>>),
     Payment0(0, 1, 3),
     Payment0(1, 0, 4),
     OrderStatus0(1, 0) >>
=============================================================================
