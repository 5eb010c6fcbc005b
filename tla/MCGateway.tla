----------------------------- MODULE MCGateway -----------------------------
(* Values for model checking Gateway: one merchant's records and the sets of *)
(* requests the runs are about.  Hours count from midnight of the first day; *)
(* amounts are paise.                                                        *)
EXTENDS Gateway, TLC

CONSTANTS t1, t2

Sides == Permutations({t1, t2})

MCCustomers == [c1 |-> [opted_out |-> FALSE, created |-> 0]]

MCInvoices == [i1 |-> [amount |-> 1900, due |-> 0, status |-> "overdue", memo_instructs |-> FALSE]]

Payment(amount, status, failure) ==
  [customer |-> "c1", amount |-> amount, status |-> status, failure |-> failure,
   created |-> 0, method |-> "card"]

MCPayments ==
  [p1 |-> Payment(900000, "captured", None), p2 |-> Payment(10000, "failed", "bank_down")]

MCSettlements == [s1 |-> [amount |-> 909900, fee |-> 100, payments |-> <<"p1", "p2">>]]

Request(id, action, invoice, payment, amount, key) ==
  [id |-> id, action |-> action, customer |-> "c1", invoice |-> invoice,
   payment |-> payment, settlement |-> None, amount |-> amount,
   claimed |-> None, instructs |-> FALSE, key |-> key]

\* Two agents refund under one key; a third refund needs a signature, and the
\* payment does not cover all of them.
Refunding ==
  {Request("r1", "issue_refund", None, "p1", 400000, "k1"),
   Request("r2", "issue_refund", None, "p1", 400000, "k1"),
   Request("r3", "issue_refund", None, "p1", 600000, None)}

\* One customer is chased for one invoice, by message and by charging the card
\* again, written to about nothing in particular, and refunded.
Chasing ==
  {Request("r1", "send_sms", "i1", None, 0, None),
   Request("r2", "retry_charge", "i1", "p2", 0, None),
   Request("r3", "send_email", None, None, 0, None),
   Request("r4", "issue_refund", None, "p1", 400000, "k1")}
=============================================================================
