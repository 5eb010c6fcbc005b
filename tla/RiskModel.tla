----------------------------- MODULE RiskModel -----------------------------
(***************************************************************************)
(* engine/risk_model.py: how likely a payment is to be fraud, from what    *)
(* its customer had tried by then.  Six signals, each a count, an age or a *)
(* comparison, carry a weight each in hundredths; the score is their sum,  *)
(* capped.  The table of payments is a parameter: what a score makes of a  *)
(* dataset that ends earlier is a property's business.                     *)
(***************************************************************************)
EXTENDS Rulebook, FiniteSetsExt

CONSTANTS
  Customers,    \* the merchant's records: id -> record
  Payments

YOUNG_ACCOUNT_DAYS    == 30
BURST_DECLINES        == 3
BURST_WINDOW          == 1
VELOCITY_ATTEMPTS     == 5
VELOCITY_WINDOW       == 24
HARD_DECLINES         == {"do_not_honour", "limit_exceeded", "incorrect_otp"}
HARD_DECLINE_COUNT    == 2
OUTSIZED_MULTIPLE     == 4
OUTSIZED_FLOOR_PAISE  == 200000

WEIGHTS ==
  [decline_burst |-> 35, young_account |-> 22, hard_declines |-> 20, outsized_ticket |-> 18,
   velocity |-> 15, card_on_young_account |-> 10]

\* Mutant: everything the customer ever tried, later attempts included.
PriorAndLater(table, p) ==
  {q \in DOMAIN table \ {p} : table[q].customer = table[p].customer}

\* The customer's other attempts up to the moment of this one.
Prior(table, p) ==
  {q \in DOMAIN table \ {p} :
     table[q].customer = table[p].customer /\ table[q].created <= table[p].created}

Within(table, p, hours) ==
  {q \in Prior(table, p) : table[q].created >= table[p].created - hours}

\* sorted(amounts)[len(amounts) // 2]
Median(table, ps) ==
  CHOOSE amount \in {table[q].amount : q \in ps} :
    /\ Cardinality({q \in ps : table[q].amount < amount}) <= Cardinality(ps) \div 2
    /\ Cardinality({q \in ps : table[q].amount <= amount}) > Cardinality(ps) \div 2

Burst(table, p) ==
  Cardinality({q \in Within(table, p, BURST_WINDOW) : table[q].status = "failed"}) >= BURST_DECLINES

Young(table, p) ==
  /\ table[p].customer \in DOMAIN Customers
  /\ (table[p].created - Customers[table[p].customer].created) \div 24 <= YOUNG_ACCOUNT_DAYS

HardDeclined(table, p) ==
  Cardinality({q \in Prior(table, p) : table[q].failure \in HARD_DECLINES}) >= HARD_DECLINE_COUNT

Outsized(table, p) ==
  /\ Prior(table, p) # {}
  /\ LET median == Median(table, Prior(table, p))
     IN  /\ median > 0
         /\ table[p].amount >= OUTSIZED_FLOOR_PAISE
         /\ table[p].amount >= median * OUTSIZED_MULTIPLE

signals_for(table, p) ==
  {name \in DOMAIN WEIGHTS :
     CASE name = "decline_burst"         -> Burst(table, p)
       [] name = "young_account"         -> Young(table, p)
       [] name = "hard_declines"         -> HardDeclined(table, p)
       [] name = "outsized_ticket"       -> Outsized(table, p)
       [] name = "velocity"              ->
            Cardinality(Within(table, p, VELOCITY_WINDOW)) >= VELOCITY_ATTEMPTS
       [] name = "card_on_young_account" -> Young(table, p) /\ table[p].method = "card"}

\* What the signals that hold weigh together, capped.
Points(signals) == Min({100, MapThenSumSet(LAMBDA name : WEIGHTS[name], signals)})

score(table, p) == Points(signals_for(table, p))
=============================================================================
