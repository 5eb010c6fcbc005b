------------------------------ MODULE Rulebook ------------------------------
(***************************************************************************)
(* engine/policy.py over the vocabulary of engine/schema.py: sixteen rules *)
(* that each look at one request and one context and allow, deny, ask for  *)
(* a human or abstain, and the verdict, which is the strictest opinion.    *)
(*                                                                         *)
(* Times are hours of Indian Standard Time on one axis, money is paise,    *)
(* and scores are hundredths.  Evidence is reduced to what a rule reads of *)
(* it: whether any string in it looks like an instruction, and the score   *)
(* the agent claims.                                                       *)
(***************************************************************************)
EXTENDS Integers, Sequences, FiniteSets

CONSTANTS
  None,                             \* Python's None
  MAX_CONTACTS_PER_24H,
  MAX_RECOVERY_ATTEMPTS,
  REFUND_HUMAN_THRESHOLD_PAISE,
  WRITE_OFF_HUMAN_THRESHOLD_PAISE,
  BLOCK_HUMAN_THRESHOLD_PAISE

ASSUME ThresholdsAssumption ==
  /\ MAX_CONTACTS_PER_24H \in Nat
  /\ MAX_RECOVERY_ATTEMPTS \in Nat
  /\ REFUND_HUMAN_THRESHOLD_PAISE \in Nat
  /\ WRITE_OFF_HUMAN_THRESHOLD_PAISE \in Nat
  /\ BLOCK_HUMAN_THRESHOLD_PAISE \in Nat

QUIET_START_HOUR           == 21
QUIET_END_HOUR             == 9
RISK_CLAIM_TOLERANCE       == 15
SETTLEMENT_TOLERANCE_PAISE == 100

-----------------------------------------------------------------------------
(* The vocabulary.                                                           *)

CONTACT_ACTIONS    == {"send_sms", "send_email", "send_whatsapp", "place_call"}
RISK_ACTIONS       == {"block_order", "flag_for_review"}
QUIET_HOURS_EXEMPT == {"send_email"}
ATTEMPT_ACTIONS    == CONTACT_ACTIONS \cup {"retry_charge", "offer_discount"}

ActionType ==
  ATTEMPT_ACTIONS \cup RISK_ACTIONS
    \cup {"issue_refund", "write_off", "match_settlement", "escalate_to_human"}

Verdict == {"allow", "needs_human", "deny"}

RETRYABLE_FAILURES == {"insufficient_funds", "bank_down", "network_timeout", "incorrect_otp"}

ACTION_COST_PAISE ==
  [a \in ActionType |->
    CASE a = "send_sms"          -> 25
      [] a = "send_email"        -> 5
      [] a = "send_whatsapp"     -> 75
      [] a = "place_call"        -> 450
      [] a = "retry_charge"      -> 200
      [] a = "flag_for_review"   -> 1500
      [] a = "escalate_to_human" -> 5000
      [] OTHER                   -> 0]

\* Gateway.cost_of and economics.cost_of: a discount costs what it gives away.
CostOf(req) ==
  IF req.action = "offer_discount" THEN req.amount ELSE ACTION_COST_PAISE[req.action]

Contacts(req) == req.action \in CONTACT_ACTIONS

-----------------------------------------------------------------------------
(* The rules.  A request has the fields id, action, customer, invoice,       *)
(* payment, settlement, amount, claimed, instructs and key; a context those  *)
(* of PolicyContext.                                                         *)

r01_opt_out(req, ctx) ==
  IF Contacts(req) /\ ctx.customer # None /\ ctx.customer.opted_out
    THEN "deny" ELSE "abstain"

\* Mutant: only the contact that reaches the limit is refused.
ContactLimitOnce(req, ctx) ==
  IF ~Contacts(req) THEN "abstain"
  ELSE IF ctx.contacts_last_24h = MAX_CONTACTS_PER_24H THEN "deny" ELSE "allow"

r02_contact_frequency(req, ctx) ==
  IF ~Contacts(req) THEN "abstain"
  ELSE IF ctx.contacts_last_24h >= MAX_CONTACTS_PER_24H THEN "deny" ELSE "allow"

r03_quiet_hours(req, ctx) ==
  LET hour == ctx.now % 24 IN
  IF ~Contacts(req) \/ req.action \in QUIET_HOURS_EXEMPT THEN "abstain"
  ELSE IF hour >= QUIET_START_HOUR \/ hour < QUIET_END_HOUR THEN "deny" ELSE "allow"

\* Mutant: a refund of any size is the agent's own to make.
NoRefundCeiling(req, ctx) == IF req.action = "issue_refund" THEN "allow" ELSE "abstain"

r04_refund_ceiling(req, ctx) ==
  IF req.action # "issue_refund" THEN "abstain"
  ELSE IF req.amount > REFUND_HUMAN_THRESHOLD_PAISE /\ ~ctx.human_approved
    THEN "needs_human" ELSE "allow"

r05_duplicate_action(req, ctx) ==
  IF req.key # None /\ req.key \in ctx.used_idempotency_keys THEN "deny" ELSE "abstain"

\* Mutant: what was already refunded is not counted.
RefundAgainstOriginal(req, ctx) ==
  IF req.action # "issue_refund" \/ ctx.payment = None THEN "abstain"
  ELSE IF req.amount > ctx.payment.amount THEN "deny" ELSE "allow"

r06_refund_exceeds_payment(req, ctx) ==
  IF req.action # "issue_refund" \/ ctx.payment = None THEN "abstain"
  ELSE IF req.amount > ctx.payment.amount - ctx.refunded THEN "deny" ELSE "allow"

\* Mutant: one attempt too many.
AttemptLimitPassed(req, ctx) ==
  IF req.action \in {"escalate_to_human", "write_off"} \/ ctx.invoice = None THEN "abstain"
  ELSE IF ctx.attempts_on_invoice > MAX_RECOVERY_ATTEMPTS THEN "needs_human" ELSE "allow"

r07_attempt_limit(req, ctx) ==
  IF req.action \in {"escalate_to_human", "write_off"} \/ ctx.invoice = None THEN "abstain"
  ELSE IF ctx.attempts_on_invoice >= MAX_RECOVERY_ATTEMPTS THEN "needs_human" ELSE "allow"

r08_unretryable_failure(req, ctx) ==
  IF req.action # "retry_charge" \/ ctx.payment = None THEN "abstain"
  ELSE IF ctx.payment.failure = None THEN "abstain"
  ELSE IF ctx.payment.status = "failed" /\ ctx.payment.failure \in RETRYABLE_FAILURES
    THEN "allow" ELSE "deny"

r09_disputed_invoice(req, ctx) ==
  IF /\ ctx.invoice # None
     /\ ctx.invoice.status = "disputed"
     /\ req.action \notin {"escalate_to_human", "flag_for_review"}
    THEN "deny" ELSE "abstain"

r10_settled_invoice(req, ctx) ==
  IF /\ ctx.invoice # None
     /\ ctx.invoice.status \in {"paid", "written_off"}
     /\ Contacts(req) \/ req.action = "retry_charge"
    THEN "deny" ELSE "abstain"

r11_discount_ceiling(req, ctx) ==
  IF req.action # "offer_discount" \/ ctx.invoice = None THEN "abstain"
  ELSE IF req.amount > (ctx.invoice.amount * 3) \div 10 THEN "needs_human" ELSE "allow"

\* The amount a request is about when it names none.
AmountOr(req, record) ==
  IF req.amount # 0 THEN req.amount ELSE IF record # None THEN record.amount ELSE 0

r12_write_off_ceiling(req, ctx) ==
  IF req.action # "write_off" THEN "abstain"
  ELSE IF /\ AmountOr(req, ctx.invoice) > WRITE_OFF_HUMAN_THRESHOLD_PAISE
          /\ ~ctx.human_approved
    THEN "needs_human" ELSE "allow"

r13_prompt_injection(req, ctx) ==
  IF (ctx.invoice # None /\ ctx.invoice.memo_instructs) \/ req.instructs
    THEN "deny" ELSE "abstain"

r14_block_ceiling(req, ctx) ==
  IF req.action # "block_order" THEN "abstain"
  ELSE IF /\ AmountOr(req, ctx.payment) > BLOCK_HUMAN_THRESHOLD_PAISE
          /\ ~ctx.human_approved
    THEN "needs_human" ELSE "allow"

r15_risk_evidence(req, ctx) ==
  IF req.action \notin RISK_ACTIONS THEN "abstain"
  ELSE IF \/ ctx.payment = None
          \/ req.action = "block_order" /\ ~ctx.risk_signals
          \/ req.claimed # None /\ req.claimed > ctx.risk_score + RISK_CLAIM_TOLERANCE
    THEN "deny" ELSE "allow"

Distance(a, b) == IF a < b THEN b - a ELSE a - b

r16_settlement_discrepancy(req, ctx) ==
  IF req.action # "match_settlement" THEN "abstain"
  ELSE IF ctx.settlement = None THEN "deny"
  ELSE IF \/ ctx.settlement_unknown
          \/ Distance(ctx.settlement.amount, ctx.settlement_gross - ctx.settlement.fee)
               > SETTLEMENT_TOLERANCE_PAISE
    THEN "needs_human" ELSE "allow"

-----------------------------------------------------------------------------
\* Every rule runs, every time: what they all think of a request.
evaluate(req, ctx) ==
  {r01_opt_out(req, ctx), r02_contact_frequency(req, ctx), r03_quiet_hours(req, ctx),
   r04_refund_ceiling(req, ctx), r05_duplicate_action(req, ctx),
   r06_refund_exceeds_payment(req, ctx), r07_attempt_limit(req, ctx),
   r08_unretryable_failure(req, ctx), r09_disputed_invoice(req, ctx),
   r10_settled_invoice(req, ctx), r11_discount_ceiling(req, ctx),
   r12_write_off_ceiling(req, ctx), r13_prompt_injection(req, ctx),
   r14_block_ceiling(req, ctx), r15_risk_evidence(req, ctx),
   r16_settlement_discrepancy(req, ctx)}

\* The strictest of a set of opinions; nobody objecting is an allow.
Strictest(opinions) ==
  IF "deny" \in opinions THEN "deny"
  ELSE IF "needs_human" \in opinions THEN "needs_human" ELSE "allow"

\* Mutant: a signature settles it.
SignatureDecides(req, ctx) ==
  IF ctx.human_approved THEN "allow" ELSE Strictest(evaluate(req, ctx))

decide(req, ctx) == Strictest(evaluate(req, ctx))
=============================================================================
