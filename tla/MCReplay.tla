------------------------------ MODULE MCReplay ------------------------------
(* Values for model checking Replay: three days, one overdue invoice with a   *)
(* young customer behind it, whose burst of declines is followed by captured  *)
(* payments that are blocked, reviewed or fine; and a bank that credits them  *)
(* in six batches, of which three would agree with the records.  In paise.     *)
EXTENDS Replay

Attempt(customer, invoice, amount, status, failure, created) ==
  [customer |-> customer, invoice |-> invoice, amount |-> amount, status |-> status,
   failure |-> failure, created |-> created, method |-> "card"]

MCCustomers == [c1 |-> [opted_out |-> FALSE, created |-> 0]]

\* The second invoice is disputed, and not the recovery agent's business.
MCInvoices ==
  [i1 |-> [customer |-> "c1", amount |-> 150000, due |-> 0, status |-> "overdue",
           memo_instructs |-> FALSE],
   i2 |-> [customer |-> "c1", amount |-> 150000, due |-> 0, status |-> "disputed",
           memo_instructs |-> FALSE]]
MCBook        == <<"i1">>
MCPaymentsFor == [i1 |-> <<"f1", "k3">>]

\* k0 looks like anybody's.  k1 and k2 follow a burst of declines: one is above
\* the ceiling for blocks, one is on the disputed invoice, k5 is neither.  k3 is
\* worth a review, on an invoice that may be chased to its limit by then.
MCPayments ==
  [f1 |-> Attempt("c1", "i1", 150000, "failed", "incorrect_otp", 10),
   f2 |-> Attempt("c1", None, 20000, "failed", "do_not_honour", 11),
   f3 |-> Attempt("c1", None, 20000, "failed", "bank_down", 11),
   k0 |-> Attempt("c1", None, 20000, "captured", None, 8),
   k1 |-> Attempt("c1", None, 3000000, "captured", None, 11),
   k2 |-> Attempt("c1", "i2", 150000, "captured", None, 11),
   k3 |-> Attempt("c1", "i1", 20000, "captured", None, 34),
   k4 |-> Attempt("c9", None, 20000, "captured", None, 12),
   k5 |-> Attempt("c1", None, 20000, "captured", None, 11)]
MCPaymentOrder == <<"f1", "f2", "f3", "k0", "k1", "k2", "k3", "k4", "k5">>

Batch(payments, amount, credited) ==
  [payments |-> payments, amount |-> amount, fee |-> 1000, credited |-> credited]

\* Clean; clean but for its payment, which is the first batch's; with an unknown payment;
\* a rupee and a paisa short; a rupee short, which is let pass; after the run.
MCSettlements ==
  [s1 |-> Batch(<<"k0", "k1">>, 3019000, 17),
   s2 |-> Batch(<<"k1">>, 2999000, 41),
   s3 |-> Batch(<<"k2", "x9">>, 149000, 40),
   s4 |-> Batch(<<"k5">>, 18899, 65),
   s5 |-> Batch(<<"k3">>, 18900, 66),
   s6 |-> Batch(<<"k0">>, 19000, 200)]
MCSettlementOrder == <<"s1", "s2", "s3", "s4", "s5", "s6">>

Fate(fraud, right, catches) ==
  [is_fraud |-> fraud, analyst_right |-> right, review_catches |-> catches]

\* The large block, and a smaller block together with a review; the others are
\* as good as they look.
Large == {Fate(TRUE, TRUE, FALSE), Fate(TRUE, FALSE, FALSE), Fate(FALSE, TRUE, FALSE),
          Fate(FALSE, FALSE, FALSE)}

MCFates ==
  {[p \in PaymentSet |->
      CASE p = "k1" -> large
        [] p = "k5" -> Fate(caught, TRUE, FALSE)
        [] p = "k3" -> Fate(TRUE, TRUE, caught)
        [] OTHER    -> Fate(FALSE, TRUE, FALSE)] : large \in Large, caught \in BOOLEAN}

Truth(anyway, contacted, needed, draws, on) ==
  [would_pay_anyway |-> anyway, pays_if_contacted |-> contacted, contacts_needed |-> needed,
   retry_lands |-> draws, escalation_closes |-> draws, settles_on |-> on]

\* Never pays, pays by itself on the third day, pays after the second contact.
MCFacts ==
  {Truth(FALSE, FALSE, 0, TRUE, 99), Truth(TRUE, FALSE, 0, FALSE, 3),
   Truth(FALSE, TRUE, 2, FALSE, 99)}
=============================================================================
