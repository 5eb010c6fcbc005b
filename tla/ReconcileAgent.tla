--------------------------- MODULE ReconcileAgent ---------------------------
(***************************************************************************)
(* agents/reconcile.py: each of the bank's batches against the merchant's  *)
(* own payments, then one sweep for the payments that are in no batch.     *)
(* The agent's state is a record: which batch first claimed each payment,  *)
(* the exceptions in the order they were found, and the batches it saw.    *)
(* Its sum is Bookkeeping's Gross, which the gateway computes for itself.  *)
(***************************************************************************)
EXTENDS Bookkeeping

TOLERANCE_PAISE == 100
UNSETTLED_AFTER == 72

NewReconciler == [claimed_by |-> <<>>, exceptions |-> <<>>, seen |-> {}]

Listed(s) == {Settlements[s].payments[k] : k \in DOMAIN Settlements[s].payments}

Unknown(s) == Listed(s) \ DOMAIN Payments

Duplicates(agent, s) ==
  {p \in Listed(s) \cap DOMAIN agent.claimed_by : agent.claimed_by[p] # s}

\* Mutant: a new batch starts a new list.
ClaimAfresh(agent, s) == [p \in Listed(s) \cap DOMAIN Payments |-> s]

\* Mutant: an unknown payment is claimed like any other.
ClaimUnknown(agent, s) ==
  [p \in DOMAIN agent.claimed_by \cup Listed(s) |->
     IF p \in DOMAIN agent.claimed_by THEN agent.claimed_by[p] ELSE s]

\* examine(): who comes first keeps the claim.
Claim(agent, s) ==
  [p \in DOMAIN agent.claimed_by \cup (Listed(s) \cap DOMAIN Payments) |->
     IF p \in DOMAIN agent.claimed_by THEN agent.claimed_by[p] ELSE s]

\* Mutant: the fee is left out.
GapBeforeFee(s) == Settlements[s].amount - Gross(Settlements[s])

Gap(s) == Settlements[s].amount - (Gross(Settlements[s]) - Settlements[s].fee)

\* The first thing found wrong with a batch.
Problem(agent, s) ==
  IF Unknown(s) # {} THEN "unknown_payment"
  ELSE IF Duplicates(agent, s) # {} THEN "duplicate_payment"
  ELSE IF Distance(Gap(s), 0) > TOLERANCE_PAISE THEN "amount_mismatch"
  ELSE None

\* abs(gap) or gross
AtStake(s) == IF Gap(s) # 0 THEN Distance(Gap(s), 0) ELSE Gross(Settlements[s])

BatchRequest(s, action) ==
  [id |-> <<s, "batch">>, action |-> action, customer |-> "merchant", invoice |-> None,
   payment |-> None, settlement |-> s, amount |-> 0, claimed |-> None, instructs |-> FALSE,
   key |-> <<s, action>>]

\* work(): what the agent knows after a batch, and what it asks.
Examined(agent, s) ==
  [claimed_by |-> Claim(agent, s),
   seen       |-> agent.seen \cup {s},
   exceptions |->
     IF Problem(agent, s) = None THEN agent.exceptions
     ELSE Append(agent.exceptions,
                 [kind |-> Problem(agent, s), reference |-> s, amount |-> AtStake(s)])]

Request(agent, s) ==
  BatchRequest(s, IF Problem(agent, s) = None THEN "match_settlement" ELSE "escalate_to_human")

\* Mutant: three days exactly still count as in flight.
InFlightOnTheDot(p, at) == at - Payments[p].created <= UNSETTLED_AFTER

InFlight(p, at) == at - Payments[p].created < UNSETTLED_AFTER

\* sweep_unsettled(): captured long enough ago and in no batch, whatever the
\* batch's date.
Swept(agent, captured, at) ==
  LET unsettled == Without(captured, {p \in DOMAIN Payments :
                     InFlight(p, at) \/ \E s \in DOMAIN Settlements : p \in Listed(s)})
  IN  [agent EXCEPT !.exceptions = @ \o
         [k \in DOMAIN unsettled |->
            [kind |-> "unsettled", reference |-> unsettled[k],
             amount |-> Payments[unsettled[k]].amount]]]
=============================================================================
