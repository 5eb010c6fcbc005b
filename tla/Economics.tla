----------------------------- MODULE Economics ------------------------------
(***************************************************************************)
(* engine/economics.py: the gate that runs after the rulebook has allowed  *)
(* a request and can only make the answer stricter.  Probabilities are     *)
(* hundredths; where the code multiplies floats and truncates once, the    *)
(* decay is truncated to a paisa at every factor so that it stays within   *)
(* TLC's integers.  Every other amount is the code's to the paisa.         *)
(***************************************************************************)
EXTENDS Rulebook

CHANNEL_BASE_RATE ==
  [a \in CONTACT_ACTIONS |->
    CASE a = "send_email" -> 6 [] a = "send_sms" -> 11
      [] a = "send_whatsapp" -> 18 [] a = "place_call" -> 28]

RETRY_SUCCESS_RATE ==
  [f \in RETRYABLE_FAILURES |->
    CASE f = "network_timeout" -> 62 [] f = "bank_down" -> 55
      [] f = "incorrect_otp" -> 40 [] f = "insufficient_funds" -> 22]

DISCOUNT_BASE_RATE      == 42
ESCALATION_SUCCESS_RATE == 50
ATTEMPT_DECAY           == 55

NO_OPINION == {"match_settlement", "write_off", "issue_refund"}

AgeModifier(due, now) ==
  LET days == IF now < due THEN 0 ELSE (now - due) \div 24
  IN  IF days <= 30 THEN 100 ELSE IF days <= 60 THEN 70 ELSE IF days <= 90 THEN 45 ELSE 25

base_rate(req, ctx) ==
  CASE Contacts(req)                    -> CHANNEL_BASE_RATE[req.action]
    [] req.action = "retry_charge"      ->
         IF ctx.payment # None /\ ctx.payment.failure \in RETRYABLE_FAILURES
           THEN RETRY_SUCCESS_RATE[ctx.payment.failure] ELSE 5
    [] req.action = "offer_discount"    -> DISCOUNT_BASE_RATE
    [] req.action = "escalate_to_human" -> ESCALATION_SUCCESS_RATE
    [] OTHER                            -> 0

\* What is left of a prospect after so many attempts.
Decayed(fresh, attempts) ==
  LET decayed[n \in 0 .. attempts] ==
        IF n = 0 THEN fresh ELSE (decayed[n - 1] * ATTEMPT_DECAY) \div 100
  IN  decayed[attempts]

\* The amount an attempt is expected to bring in.
ExpectedRecovery(req, ctx) ==
  LET discount == IF req.action = "offer_discount" THEN req.amount ELSE 0
      fresh    == ((ctx.invoice.amount - discount) * base_rate(req, ctx)) \div 100
  IN  (Decayed(fresh, ctx.attempts_on_invoice) * AgeModifier(ctx.invoice.due, ctx.now)) \div 100

\* MARGIN = 1.25 and MAX_SPEND_FRACTION = 0.20, in whole numbers.
ClearsMargin(expected, cost) == 4 * expected >= 5 * cost
Budget(invoice) == invoice.amount \div 5

Priced(worth) == IF worth THEN "allow" ELSE "deny"

\* LOST_SALE_MULTIPLIER = 1.6 and REVIEW_CATCH_RATE = 0.80.
assess_risk(req, ctx) ==
  IF ctx.payment = None THEN "abstain"
  ELSE LET p         == ctx.risk_score
           value     == ctx.payment.amount
           prevented == (p * value) \div 100
           lost_sale == ((100 - p) * 4 * value) \div 250
           caught    == (p * 4 * value) \div 500
       IN  IF req.action = "block_order"
             THEN Priced(prevented > lost_sale)
             ELSE Priced(ClearsMargin(caught, ACTION_COST_PAISE["flag_for_review"]))

\* Mutant: the budget looks at this attempt only.
AssessWithoutSpend(req, ctx) ==
  IF req.action \in RISK_ACTIONS THEN assess_risk(req, ctx)
  ELSE IF req.action \in NO_OPINION \/ ctx.invoice = None THEN "abstain"
  ELSE Priced(/\ ClearsMargin(ExpectedRecovery(req, ctx), CostOf(req))
              /\ CostOf(req) <= Budget(ctx.invoice))

\* The gate's opinion; it abstains where it is not applicable.
assess(req, ctx) ==
  IF req.action \in RISK_ACTIONS THEN assess_risk(req, ctx)
  ELSE IF req.action \in NO_OPINION \/ ctx.invoice = None THEN "abstain"
  ELSE Priced(/\ ClearsMargin(ExpectedRecovery(req, ctx), CostOf(req))
              /\ ctx.spent_on_invoice + CostOf(req) <= Budget(ctx.invoice))

\* Gateway._submit_locked: the rulebook, then the money check, which is made
\* only of what the rulebook allows.
Judgement(req, ctx) ==
  LET ruling == decide(req, ctx)
  IN  IF ruling = "allow" THEN Strictest({assess(req, ctx)}) ELSE ruling
=============================================================================
