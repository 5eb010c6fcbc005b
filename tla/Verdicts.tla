------------------------------ MODULE Verdicts ------------------------------
(***************************************************************************)
(* One request, judged again and again while the world around it moves: a  *)
(* person signs for it, other requests are allowed and move the counters   *)
(* it is judged on (up, and down where an amount is below zero), time      *)
(* passes and the merchant's records change before a restart.              *)
(* The state is what Gateway.build_context hands to the rulebook and to    *)
(* the money check; the properties say how their joint answer may move.    *)
(***************************************************************************)
EXTENDS Economics

CONSTANTS
  Cases,        \* <<request, context>>: what a judgement may start from
  OtherActions, \* bound: the actions others are allowed on the invoice
  Discounts,    \* bound: what they discount; the schema allows any sign
  Refunds,      \* bound: what they refund; the schema allows any sign
  Instants,     \* bound: the hours at which the request may be made
  MaxSpent      \* bound: paise other requests spend on the invoice, or win back

\* PolicyContext, as the rules read it.
ContextFields ==
  {"now", "customer", "invoice", "payment", "contacts_last_24h", "attempts_on_invoice",
   "spent_on_invoice", "refunded", "used_idempotency_keys", "human_approved", "risk_score",
   "risk_signals", "settlement", "settlement_gross", "settlement_unknown"}

IsContext(c) == DOMAIN c = ContextFields /\ c = [field \in ContextFields |-> c[field]]

InvoiceStatus == {"open", "paid", "overdue", "disputed", "written_off"}

CustomerRecord == [opted_out : BOOLEAN]

InvoiceRecord == [amount : Int, due : Int, status : InvoiceStatus, memo_instructs : BOOLEAN]

\* What pydantic makes of a request and its context, counters and all.
ASSUME CasesAssumption == \A case \in Cases :
  LET r == case[1]
      c == case[2]
  IN  /\ r.action \in ActionType /\ r.amount \in Int
      /\ IsContext(c) /\ c.now \in Int
      /\ c.contacts_last_24h \in Nat /\ c.attempts_on_invoice \in Nat
      /\ c.spent_on_invoice \in Int /\ c.refunded \in Int
      /\ c.customer \in CustomerRecord \cup {None}
      /\ c.invoice \in InvoiceRecord \cup {None}
      /\ c.payment # None => c.payment.amount \in Int

\* None is no record.
ASSUME NoRecordAssumption == None \notin CustomerRecord /\ None \notin InvoiceRecord

ASSUME MovesAssumption ==
  /\ MaxSpent \in Nat /\ OtherActions \subseteq ActionType
  /\ Discounts \subseteq Int /\ Refunds \subseteq Int /\ Instants \subseteq Int

VARIABLES req, ctx

vars == <<req, ctx>>

Init == \E case \in Cases : req = case[1] /\ ctx = case[2]

Ruling == decide(req, ctx)
Answer == Judgement(req, ctx)

\* Gateway.approve for this request id.
Sign ==
  /\ ~ctx.human_approved
  /\ ctx' = [ctx EXCEPT !.human_approved = TRUE]
  /\ UNCHANGED req

\* Gateway._apply_allowed for another request that shares the customer, the
\* invoice, the payment or the key with this one.
Contacted ==
  /\ ctx.contacts_last_24h < MAX_CONTACTS_PER_24H + 1
  /\ ctx' = [ctx EXCEPT !.contacts_last_24h = @ + 1]
  /\ UNCHANGED req

\* A discount costs what it gives away.
Charged(action, discount) ==
  LET attempts == IF action \in ATTEMPT_ACTIONS THEN 1 ELSE 0
      cost     == CostOf([action |-> action, amount |-> discount])
  IN  /\ ctx.invoice # None
      /\ ctx.attempts_on_invoice + attempts <= MAX_RECOVERY_ATTEMPTS + 1
      /\ ctx.spent_on_invoice + cost \in -MaxSpent .. MaxSpent
      /\ ctx' = [ctx EXCEPT !.attempts_on_invoice = @ + attempts, !.spent_on_invoice = @ + cost]
      /\ UNCHANGED req

Refunded(amount) ==
  /\ ctx.payment # None
  /\ amount <= ctx.payment.amount - ctx.refunded
  /\ ctx.refunded + amount >= -ctx.payment.amount
  /\ ctx' = [ctx EXCEPT !.refunded = @ + amount]
  /\ UNCHANGED req

KeyUsed ==
  /\ req.key \notin ctx.used_idempotency_keys \cup {None}
  /\ ctx' = [ctx EXCEPT !.used_idempotency_keys = @ \cup {req.key}]
  /\ UNCHANGED req

Counted ==
  \/ Contacted
  \/ \E action \in OtherActions, discount \in Discounts : Charged(action, discount)
  \/ \E amount \in Refunds : Refunded(amount)
  \/ KeyUsed

\* The request is made again later, and some of the contacts have left the window.
Waited(later, gone) ==
  /\ later > ctx.now
  /\ gone <= ctx.contacts_last_24h
  /\ ctx' = [ctx EXCEPT !.now = later, !.contacts_last_24h = @ - gone]
  /\ UNCHANGED req

\* The records as the next start of the process may load them.
ConsentBecomes(opted_out) ==
  /\ ctx.customer # None
  /\ ctx' = [ctx EXCEPT !.customer.opted_out = opted_out]
  /\ UNCHANGED req

StatusBecomes(status) ==
  /\ ctx.invoice # None
  /\ ctx' = [ctx EXCEPT !.invoice.status = status]
  /\ UNCHANGED req

MemoBecomes(instructs) ==
  /\ ctx.invoice # None
  /\ ctx' = [ctx EXCEPT !.invoice.memo_instructs = instructs]
  /\ UNCHANGED req

Records ==
  \/ \E opted_out \in BOOLEAN : ConsentBecomes(opted_out)
  \/ \E status \in InvoiceStatus : StatusBecomes(status)
  \/ \E instructs \in BOOLEAN : MemoBecomes(instructs)

Next ==
  \/ Sign
  \/ Counted
  \/ \E later \in Instants, gone \in 0 .. MAX_CONTACTS_PER_24H + 1 : Waited(later, gone)
  \/ Records

Spec == Init /\ [][Next]_vars

-----------------------------------------------------------------------------
(* Properties.                                                               *)

\* "A human's signature raises a ceiling; it never bypasses the rulebook"
\* (gateway.py:321-324): it turns an escalation into an allow, where one of the
\* three ceilings was all that stood in the way, and moves no other ruling.
OverCeiling ==
  "needs_human" \in {r04_refund_ceiling(req, ctx), r12_write_off_ceiling(req, ctx),
                     r14_block_ceiling(req, ctx)}

SignatureRaisesCeiling ==
  [][Sign /\ Ruling' # Ruling =>
       OverCeiling /\ Ruling = "needs_human" /\ Ruling' = "allow"]_vars

Objects(opinion) == opinion \in {"deny", "needs_human"}

Opinions(r, c) ==
  [r01 |-> r01_opt_out(r, c),                r02 |-> r02_contact_frequency(r, c),
   r03 |-> r03_quiet_hours(r, c),            r04 |-> r04_refund_ceiling(r, c),
   r05 |-> r05_duplicate_action(r, c),       r06 |-> r06_refund_exceeds_payment(r, c),
   r07 |-> r07_attempt_limit(r, c),          r08 |-> r08_unretryable_failure(r, c),
   r09 |-> r09_disputed_invoice(r, c),       r10 |-> r10_settled_invoice(r, c),
   r11 |-> r11_discount_ceiling(r, c),       r12 |-> r12_write_off_ceiling(r, c),
   r13 |-> r13_prompt_injection(r, c),       r14 |-> r14_block_ceiling(r, c),
   r15 |-> r15_risk_evidence(r, c),          r16 |-> r16_settlement_discrepancy(r, c)]

\* Who stands in the way of a request: rules, or else the money check.
Objections(r, c) ==
  IF decide(r, c) = "allow"
    THEN {o \in {"money"} : Objects(assess(r, c))}
    ELSE {rule \in DOMAIN Opinions(r, c) : Objects(Opinions(r, c)[rule])}

\* Whose objections the move from context c to context d answers.
Answered(c, d) ==
  {rule \in {"r02", "r03"} : d.now > c.now}
    \cup {rule \in {"r06"} : d.refunded < c.refunded}
    \cup {rule \in {"money"} : d.spent_on_invoice < c.spent_on_invoice}
    \cup {rule \in {"r01"} : c.customer # None /\ c.customer.opted_out /\ ~d.customer.opted_out}
    \cup {rule \in {"r09"} : c.invoice # None /\ c.invoice.status = "disputed"
                            /\ d.invoice.status # "disputed"}
    \cup {rule \in {"r10"} :
            c.invoice # None /\ c.invoice.status \in {"paid", "written_off"}
              /\ d.invoice.status \notin {"paid", "written_off"}}
    \cup {rule \in {"r13"} :
            c.invoice # None /\ c.invoice.memo_instructs /\ ~d.invoice.memo_instructs}

\* Without a signature a refusal turns into an allow only by a move that answers
\* every objection there was: time answers the contact limit and the quiet hours,
\* a refund below zero what was left of the payment, a discount below zero the
\* budget, a record the rule that read it, and nothing answers anything else.
\* So whatever is done for others, an attempt limit stands, a used key stays used,
\* and no wait and no count makes a bad bargain a good one (policy.evaluate,
\* economics.assess, gateway.py:136-164).
OnlyAnswersLoosen ==
  [][~Sign /\ Answer' = "allow" => Objections(req, ctx) \subseteq Answered(ctx, ctx')]_vars
=============================================================================
