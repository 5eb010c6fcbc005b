----------------------------- MODULE MCVerdicts -----------------------------
(* Values for model checking Verdicts: at least one request of every action  *)
(* type, on the records it is usually about and on none, by day and by       *)
(* night.                                                                    *)
EXTENDS Verdicts

\* The noon of the last day at the best rate, that night, and the next morning.
Noon  == 24 * 30 + 12
Night == Noon + 11
MCInstants == {Noon, Night, Night + 11}

MCDiscounts == {450, -450}
MCRefunds   == {500000, -500000}

Request(action, amount, claimed) ==
  [id |-> "r1", action |-> action, customer |-> "c1", invoice |-> "i1", payment |-> "p1",
   settlement |-> "s1", amount |-> amount, claimed |-> claimed, instructs |-> FALSE,
   key |-> IF action = "issue_refund" THEN "k1" ELSE None]

Customer == [opted_out |-> FALSE]

Invoice(amount, status) ==
  [amount |-> amount, due |-> 0, status |-> status, memo_instructs |-> FALSE]

Captured == [amount |-> 1200000, status |-> "captured", failure |-> None,
             risk_score |-> 90, risk_signals |-> TRUE]
Declined(why) == [amount |-> 6000, status |-> "failed", failure |-> why,
                  risk_score |-> 20, risk_signals |-> FALSE]
LargeOrder == [amount |-> 3000000, status |-> "captured", failure |-> None,
               risk_score |-> 90, risk_signals |-> TRUE]

Settlement(amount) == [amount |-> amount, fee |-> 100, payments |-> <<"p1">>]

Context(hour, invoice, payment, settlement) ==
  [now |-> hour, customer |-> Customer, invoice |-> invoice, payment |-> payment,
   contacts_last_24h |-> 0, attempts_on_invoice |-> 0, spent_on_invoice |-> 0, refunded |-> 0,
   used_idempotency_keys |-> {}, human_approved |-> FALSE,
   risk_score |-> IF payment = None THEN 0 ELSE payment.risk_score,
   risk_signals |-> payment # None /\ payment.risk_signals,
   settlement |-> settlement,
   settlement_gross |-> IF payment = None THEN 0 ELSE payment.amount,
   settlement_unknown |-> payment = None]

Messages ==
  {<<Request(a, 0, None), Context(hour, Invoice(5000, "overdue"), None, None)>> :
     a \in CONTACT_ACTIONS, hour \in {Noon, Night}}

Charges ==
  {<<Request("retry_charge", 0, None), Context(Noon, Invoice(5000, status), Declined(why), None)>> :
     why \in {"bank_down", "insufficient_funds", "expired_card"}, status \in {"overdue", "written_off"}}

DiscountOffers ==
  {<<Request("offer_discount", amount, None), Context(Noon, Invoice(5000, "overdue"), None, None)>> :
     amount \in {500, 2000}}

RefundRequests ==
  {<<Request("issue_refund", amount, None), Context(Noon, invoice, payment, None)>> :
     amount \in {400000, 600000, 1300000}, invoice \in {None, Invoice(5000, "paid")},
     payment \in {None, Captured}}

WriteOffs ==
  {<<Request("write_off", amount, None), Context(Noon, Invoice(150000, "overdue"), None, None)>> :
     amount \in {0, 50000}}

Risks ==
  {<<Request(a, 0, claimed), Context(Noon, None, payment, None)>> :
     a \in RISK_ACTIONS, claimed \in {None, 50, 95},
     payment \in {None, Captured, LargeOrder, Declined("bank_down")}}

Escalations ==
  {<<Request("escalate_to_human", 0, None), Context(Noon, Invoice(amount, "overdue"), None, None)>> :
     amount \in {5000, 50000}}

Matches ==
  {<<Request("match_settlement", 0, None), Context(Noon, None, payment, settlement)>> :
     payment \in {None, Captured},
     settlement \in {None, Settlement(1199900), Settlement(1000000)}}

MCCases ==
  Messages \cup Charges \cup DiscountOffers \cup RefundRequests \cup WriteOffs \cup Risks
    \cup Escalations \cup Matches
=============================================================================
