----------------------------- MODULE RiskAgent -----------------------------
(***************************************************************************)
(* agents/risk.py, which turns a score into a request to block a payment   *)
(* or to have it reviewed, and the two people and the simulator of         *)
(* harness/outcomes.py that know what the payment really was.  A fate is   *)
(* what the ground truth and the draws seeded on the payment say of it.    *)
(***************************************************************************)
EXTENDS Bookkeeping

BLOCK_THRESHOLD == 70
FLAG_THRESHOLD  == 45

\* What the agent makes of a score.
Reaction(points) ==
  IF points >= BLOCK_THRESHOLD THEN "block_order"
  ELSE IF points >= FLAG_THRESHOLD THEN "flag_for_review"
  ELSE None

\* work(), with the table for all the history there is; an action of None is no
\* request, and most payments get none.
RiskRequest(table, p) ==
  LET points == score(table, p)
      action == Reaction(points)
  IN  [id |-> <<p, "risk">>, action |-> action, customer |-> Payments[p].customer,
       invoice |-> Payments[p].invoice, payment |-> p, settlement |-> None,
       amount |-> Payments[p].amount, claimed |-> points, instructs |-> FALSE,
       key |-> <<p, action>>]

\* HumanReviewer: right or wrong about a payment, once and for all.
approves_block(fate, req) ==
  IF fate[req.payment].analyst_right THEN fate[req.payment].is_fraud
                                     ELSE ~fate[req.payment].is_fraud

-----------------------------------------------------------------------------
(* RiskOutcomeSimulator.                                                     *)

NewRiskSim == [prevented |-> 0, lost_sale |-> 0, judged |-> {}, stopped |-> {}]

\* A block stops a fraud, and so does a review in which somebody sees it.
Stops(fate, req) ==
  /\ fate[req.payment].is_fraud
  /\ req.action = "block_order" \/ fate[req.payment].review_catches

\* Mutant: a refused block or review is priced as if it had happened.
OutcomeAnyway(row) == row.req.action \in RISK_ACTIONS

\* observe() returns early on a refusal.
HasOutcome(row) == Allowed(row) /\ row.req.action \in RISK_ACTIONS

\* observe(): only a block can cost a sale.
ObserveRisk(rsim, fate, row) ==
  LET req   == row.req
      stops == Stops(fate, req)
  IN  IF ~HasOutcome(row) THEN rsim
      ELSE [prevented |-> rsim.prevented + (IF stops THEN req.amount ELSE 0),
            lost_sale |-> rsim.lost_sale
                            + (IF ~stops /\ req.action = "block_order" THEN req.amount ELSE 0),
            judged    |-> rsim.judged \cup {req.payment},
            stopped   |-> rsim.stopped \cup (IF stops THEN {req.payment} ELSE {})]

\* The outcome row that goes with it, if there is one.
RiskOutcome(fate, row) ==
  IF HasOutcome(row)
    THEN <<[type |-> "outcome", id |-> row.req.id,
            amount |-> IF Stops(fate, row.req) THEN row.req.amount ELSE 0]>>
    ELSE <<>>
=============================================================================
