------------------------------ MODULE MCHttp ------------------------------
(* Values for model checking Http: a merchant with one payment, which one     *)
(* request would refund beyond the ceiling.                                   *)
EXTENDS Http

CONSTANTS t1, t2

MCCustomers == [c1 |-> [opted_out |-> FALSE, created |-> 0]]

MCPayments ==
  [p1 |-> [customer |-> "c1", amount |-> 900000, status |-> "captured", failure |-> None,
           created |-> 0, method |-> "card"]]

Nothing == [x \in {} |-> None]

LargeRefund ==
  {[id |-> "r3", action |-> "issue_refund", customer |-> "c1", invoice |-> None,
    payment |-> "p1", settlement |-> None, amount |-> 600000, claimed |-> None,
    instructs |-> FALSE, key |-> "k3"]}
=============================================================================
