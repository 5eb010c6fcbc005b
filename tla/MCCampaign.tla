----------------------------- MODULE MCCampaign -----------------------------
(* Values for model checking Campaign: one customer with three overdue       *)
(* invoices, from one too small to hand over to one that skips the email,    *)
(* so that the contact window and the daily order matter.  Amounts in paise. *)
EXTENDS Campaign

Declined(why, amount) ==
  [customer |-> "c1", amount |-> amount, status |-> "failed", failure |-> why,
   created |-> 0, method |-> "upi"]

Invoice(amount) ==
  [customer |-> "c1", amount |-> amount, due |-> 0, status |-> "overdue", memo_instructs |-> FALSE]

MCCustomers == [c1 |-> [opted_out |-> FALSE, created |-> 0]]
MCInvoices  == [i1 |-> Invoice(6000), i2 |-> Invoice(150000), i3 |-> Invoice(600000)]
MCPayments  == [p1 |-> Declined("bank_down", 150000), p2 |-> Declined("expired_card", 600000),
                p3 |-> Declined("expired_card", 150000)]
MCBook      == <<"i1", "i2", "i3">>

\* One payment per invoice at most, and a book in which a second attempt on an
\* invoice fails for a different reason than the first.
MCPaymentsFor == [i1 |-> <<>>, i2 |-> <<"p1">>, i3 |-> <<"p2">>]
TwoDeclines   == [i1 |-> <<>>, i2 |-> <<"p1", "p3">>, i3 |-> <<"p2">>]

Truth(anyway, contacted, needed, draws, on) ==
  [would_pay_anyway |-> anyway, pays_if_contacted |-> contacted, contacts_needed |-> needed,
   retry_lands |-> draws, escalation_closes |-> draws, settles_on |-> on]

\* The first day beyond the window.
Never == 7

\* Never pays; pays anyway, on a day or not in this window; pays after one
\* contact or two, a retry landing or not.
MCFacts ==
  {Truth(FALSE, FALSE, 0, TRUE, Never), Truth(TRUE, FALSE, 0, FALSE, 3),
   Truth(TRUE, FALSE, 0, TRUE, Never),
   Truth(FALSE, TRUE, 1, FALSE, Never), Truth(FALSE, TRUE, 2, TRUE, Never)}
=============================================================================
