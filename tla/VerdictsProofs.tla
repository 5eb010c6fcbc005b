--------------------------- MODULE VerdictsProofs ---------------------------
(***************************************************************************)
(* What a signature can do to a ruling, for every request, every context   *)
(* and every threshold: the thirteen rules that do not read human_approved *)
(* keep their opinions, the three ceilings go from needs_human to allow or *)
(* stay, and the strictest opinion moves only if a ceiling was the         *)
(* strictest there was.  And what the world can do to one: a move of the   *)
(* context (`Moved') leaves every rule that objects objecting, unless it   *)
(* answers the objection, and leaves a bad bargain bad, unless it gives    *)
(* back some of the budget.                                                *)
(***************************************************************************)
EXTENDS Verdicts, RulebookProofs

ContextOK == IsContext(ctx)

Signed(c) == [c EXCEPT !.human_approved = TRUE]

\* Every judgement is of a whole context: no step of the world adds a field to
\* PolicyContext or takes one away.
LEMMA ContextKept == Spec => []ContextOK
<1>1. Init => ContextOK
  BY CasesAssumption DEF Init, ContextOK
<1>2. ContextOK /\ [Next]_vars => ContextOK'
  <2> SUFFICES ASSUME IsContext(ctx), [Next]_vars
               PROVE  IsContext(ctx')
    BY DEF ContextOK
  <2>1. ASSUME NEW field \in ContextFields, NEW value, ctx' = [ctx EXCEPT ![field] = value]
        PROVE  IsContext(ctx')
    BY <2>1 DEF IsContext
  <2>2. CASE Sign
    BY <2>1, <2>2 DEF Sign, ContextFields
  <2>3. CASE Contacted
    BY <2>3 DEF Contacted, IsContext
  <2>4. ASSUME NEW action, NEW discount, Charged(action, discount)
        PROVE  IsContext(ctx')
    BY <2>4 DEF Charged, IsContext
  <2>5. ASSUME NEW amount, Refunded(amount)
        PROVE  IsContext(ctx')
    BY <2>5 DEF Refunded, IsContext
  <2>6. CASE KeyUsed
    BY <2>6 DEF KeyUsed, IsContext
  <2>7. CASE Records
    BY <2>7 DEF Records, ConsentBecomes, StatusBecomes, MemoBecomes, IsContext
  <2>8. ASSUME NEW later, NEW gone, Waited(later, gone)
        PROVE  IsContext(ctx')
    BY <2>8 DEF Waited, IsContext
  <2>9. CASE UNCHANGED vars
    BY <2>9 DEF vars
  <2> QED
    BY <2>2, <2>3, <2>4, <2>5, <2>6, <2>7, <2>8, <2>9 DEF Next, Counted
<1> QED
  BY <1>1, <1>2, PTL DEF Spec

\* Thirteen rules do not read the signature.
LEMMA OthersUnmoved ==
  ASSUME NEW r, NEW c, IsContext(c)
  PROVE  Others(r, Signed(c)) = Others(r, c)
<1>1. /\ Signed(c).now = c.now
      /\ Signed(c).customer = c.customer
      /\ Signed(c).invoice = c.invoice
      /\ Signed(c).payment = c.payment
      /\ Signed(c).contacts_last_24h = c.contacts_last_24h
      /\ Signed(c).attempts_on_invoice = c.attempts_on_invoice
      /\ Signed(c).refunded = c.refunded
      /\ Signed(c).used_idempotency_keys = c.used_idempotency_keys
      /\ Signed(c).risk_score = c.risk_score
      /\ Signed(c).risk_signals = c.risk_signals
      /\ Signed(c).settlement = c.settlement
      /\ Signed(c).settlement_gross = c.settlement_gross
      /\ Signed(c).settlement_unknown = c.settlement_unknown
  BY DEF Signed, IsContext, ContextFields
<1> DEFINE d == Signed(c)
<1> HIDE DEF d
<1>2. /\ r01_opt_out(r, d) = r01_opt_out(r, c)
      /\ r02_contact_frequency(r, d) = r02_contact_frequency(r, c)
      /\ r03_quiet_hours(r, d) = r03_quiet_hours(r, c)
      /\ r05_duplicate_action(r, d) = r05_duplicate_action(r, c)
      /\ r06_refund_exceeds_payment(r, d) = r06_refund_exceeds_payment(r, c)
      /\ r07_attempt_limit(r, d) = r07_attempt_limit(r, c)
  BY <1>1 DEF d, r01_opt_out, r02_contact_frequency, r03_quiet_hours, r05_duplicate_action,
              r06_refund_exceeds_payment, r07_attempt_limit
<1>3. /\ r08_unretryable_failure(r, d) = r08_unretryable_failure(r, c)
      /\ r09_disputed_invoice(r, d) = r09_disputed_invoice(r, c)
      /\ r10_settled_invoice(r, d) = r10_settled_invoice(r, c)
      /\ r11_discount_ceiling(r, d) = r11_discount_ceiling(r, c)
      /\ r13_prompt_injection(r, d) = r13_prompt_injection(r, c)
  BY <1>1 DEF d, r08_unretryable_failure, r09_disputed_invoice, r10_settled_invoice,
              r11_discount_ceiling, r13_prompt_injection
<1>4. /\ r15_risk_evidence(r, d) = r15_risk_evidence(r, c)
      /\ r16_settlement_discrepancy(r, d) = r16_settlement_discrepancy(r, c)
  BY <1>1 DEF d, r15_risk_evidence, r16_settlement_discrepancy
<1> QED
  BY <1>2, <1>3, <1>4 DEF d, Others

\* The three that do have no objection left, and never deny.
LEMMA CeilingsLifted ==
  ASSUME NEW r, NEW c, IsContext(c)
  PROVE  /\ Ceilings(r, Signed(c)) \subseteq {"allow", "abstain"}
         /\ Ceilings(r, c) \subseteq {"allow", "abstain", "needs_human"}
<1>1. Signed(c).human_approved
  BY DEF Signed, IsContext, ContextFields
<1>2. Ceilings(r, Signed(c)) \subseteq {"allow", "abstain"}
  BY <1>1 DEF Ceilings, r04_refund_ceiling, r12_write_off_ceiling, r14_block_ceiling
<1>3. Ceilings(r, c) \subseteq {"allow", "abstain", "needs_human"}
  BY DEF Ceilings, r04_refund_ceiling, r12_write_off_ceiling, r14_block_ceiling
<1> QED
  BY <1>2, <1>3

\* A person's signature raises a ceiling and bypasses nothing: SignatureRaisesCeiling
\* holds whatever the thresholds, the records and the counters are
\* (Gateway.approve, policy.decide).
THEOREM SignatureOnlyRaisesCeilings == Spec => SignatureRaisesCeiling
<1>1. ContextOK /\ Sign /\ Ruling' # Ruling
        => OverCeiling /\ Ruling = "needs_human" /\ Ruling' = "allow"
  <2> SUFFICES ASSUME IsContext(ctx), Sign, Ruling' # Ruling
               PROVE  OverCeiling /\ Ruling = "needs_human" /\ Ruling' = "allow"
    BY DEF ContextOK
  <2>1. ctx' = Signed(ctx) /\ req' = req
    BY DEF Sign, Signed
  <2>2. Ruling = Strictest(Ceilings(req, ctx) \cup Others(req, ctx))
    BY DecideSplits DEF Ruling
  <2>3. Ruling' = decide(req, Signed(ctx))
    BY <2>1 DEF Ruling
  <2>4. Ruling' = Strictest(Ceilings(req, Signed(ctx)) \cup Others(req, ctx))
    BY <2>3, DecideSplits, OthersUnmoved
  <2>5. "needs_human" \in Ceilings(req, ctx) /\ Ruling = "needs_human" /\ Ruling' = "allow"
    BY <2>2, <2>4, CeilingsLifted DEF Strictest
  <2> QED
    BY <2>5 DEF OverCeiling, Ceilings
<1>2. ContextOK /\ [Next]_vars
        => [Sign /\ Ruling' # Ruling
              => OverCeiling /\ Ruling = "needs_human" /\ Ruling' = "allow"]_vars
  BY <1>1
<1> QED
  BY <1>2, ContextKept, PTL DEF Spec, SignatureRaisesCeiling
-----------------------------------------------------------------------------
(* The decay of a prospect.                                                  *)

Decays(f, fresh, attempts) ==
  /\ f \in [0 .. attempts -> Int]
  /\ f[0] = fresh
  /\ \A n \in 1 .. attempts : f[n] = (f[n - 1] * ATTEMPT_DECAY) \div 100

LEMMA DecayedIs ==
  ASSUME NEW fresh \in Int, NEW N \in Nat
  PROVE  \E f : Decays(f, fresh, N) /\ Decayed(fresh, N) = f[N]
<1> DEFINE step == [q \in (1 .. N) \X Int |-> (q[2] * ATTEMPT_DECAY) \div 100]
           body(g) == [n \in 0 .. N |-> IF n = 0 THEN fresh ELSE (g[n - 1] * ATTEMPT_DECAY) \div 100]
<1>1. step \in [(1 .. N) \X Int -> Int]
  BY DEF ATTEMPT_DECAY
<1>2. PICK g \in [0 .. N -> Int] : Stepwise(g, N, fresh, step)
  <2> HIDE DEF step, body
  <2>1. PICK T : T = Int
    OBVIOUS
  <2>2. fresh \in T /\ step \in [(1 .. N) \X T -> T]
    BY <1>1, <2>1
  <2>3. \E g \in [0 .. N -> T] : Stepwise(g, N, fresh, step)
    BY <2>2, Recursion
  <2> QED
    BY <2>1, <2>3
<1>3. Decays(g, fresh, N)
  <2>1. ASSUME NEW n \in 1 .. N
        PROVE  g[n] = (g[n - 1] * ATTEMPT_DECAY) \div 100
    <3>1. n - 1 \in 0 .. N
      OBVIOUS
    <3>2. g[n - 1] \in Int
      BY <3>1
    <3>3. step[<<n, g[n - 1]>>] = (g[n - 1] * ATTEMPT_DECAY) \div 100
      BY <3>2
    <3> QED
      BY <1>2, <3>3 DEF Stepwise
  <2> QED
    BY <1>2, <2>1 DEF Decays, Stepwise
<1>4. \A f : f = body(f) => f[N] = g[N]
  <2> SUFFICES ASSUME NEW f, f = body(f)
               PROVE  f[N] = g[N]
    OBVIOUS
  <2> DEFINE right == {n \in 0 .. N : f[n] = g[n]}
  <2>1. 0 \in right
    BY <1>3 DEF Decays
  <2>2. ASSUME NEW n \in 0 .. N - 1, n \in right
        PROVE  n + 1 \in right
    <3>1. n + 1 \in 1 .. N /\ n + 1 \in 0 .. N /\ (n + 1) - 1 = n /\ n + 1 # 0
      OBVIOUS
    <3>2. f[n + 1] = (f[n] * ATTEMPT_DECAY) \div 100
      BY <3>1
    <3>3. g[n + 1] = (g[n] * ATTEMPT_DECAY) \div 100
      BY <1>3, <3>1 DEF Decays
    <3> QED
      BY <2>2, <3>1, <3>2, <3>3
  <2> HIDE DEF right
  <2>3. N \in right
    <3>1. 0 .. N \subseteq right
      BY <2>1, <2>2, UpTo
    <3> QED
      BY <3>1
  <2> QED
    BY <2>3 DEF right
<1>5. g = body(g)
  <2>1. \A n \in 0 .. N : n = 0 \/ n \in 1 .. N
    OBVIOUS
  <2>2. \A n \in 0 .. N : g[n] = body(g)[n]
    BY <1>3, <2>1 DEF Decays
  <2>3. g = [n \in 0 .. N |-> g[n]] /\ body(g) = [n \in 0 .. N |-> body(g)[n]]
    OBVIOUS
  <2> HIDE DEF body
  <2> QED
    BY <2>2, <2>3
<1> DEFINE decayed == CHOOSE f : f = body(f)
<1>6. decayed = body(decayed)
  BY <1>5
<1>7. Decayed(fresh, N) = decayed[N]
  BY DEF Decayed
<1> HIDE DEF decayed, body
<1>8. Decayed(fresh, N) = g[N]
  BY <1>4, <1>6, <1>7
<1> QED
  BY <1>3, <1>8

\* An attempt more takes something away from what is positive, and what is not
\* stays so and grows no larger.
LEMMA DecayedShrinks ==
  ASSUME NEW fresh \in Int, NEW N \in Nat
  PROVE  /\ Decayed(fresh, N) \in Int
         /\ fresh >= 0 => Decayed(fresh, N) >= 0 /\ Decayed(fresh, N + 1) <= Decayed(fresh, N)
         /\ fresh <= 0 => Decayed(fresh, N) <= 0 /\ Decayed(fresh, N) >= fresh
         /\ Decayed(fresh, N + 1) \in Int
<1>1. PICK f : Decays(f, fresh, N) /\ Decayed(fresh, N) = f[N]
  BY DecayedIs
<1>2. PICK g : Decays(g, fresh, N + 1) /\ Decayed(fresh, N + 1) = g[N + 1]
  BY DecayedIs
<1> DEFINE right == {n \in 0 .. N : /\ f[n] = g[n]
                                    /\ fresh >= 0 => f[n] >= 0
                                    /\ fresh <= 0 => f[n] <= 0 /\ f[n] >= fresh}
<1>3. 0 \in right
  BY <1>1, <1>2 DEF Decays
<1>4. ASSUME NEW n \in 0 .. N - 1, n \in right
      PROVE  n + 1 \in right
  <2>1. /\ n + 1 \in 1 .. N /\ n + 1 \in 1 .. N + 1 /\ n + 1 \in 0 .. N /\ (n + 1) - 1 = n
        /\ n \in 0 .. N
    OBVIOUS
  <2>2. f[n + 1] = (f[n] * 55) \div 100 /\ g[n + 1] = (g[n] * 55) \div 100 /\ f[n] \in Int
    BY <1>1, <1>2, <2>1 DEF Decays, ATTEMPT_DECAY
  <2>3. \A x \in Int : (x >= 0 => (x * 55) \div 100 >= 0) /\ (x <= 0 => (x * 55) \div 100 <= 0 /\ (x * 55) \div 100 >= x)
    OBVIOUS
  <2> QED
    BY <1>4, <2>1, <2>2, <2>3
<1> HIDE DEF right
<1>5. N \in right
  <2>1. 0 .. N \subseteq right
    BY <1>3, <1>4, UpTo
  <2> QED
    BY <2>1
<1>6. f[N] = g[N] /\ (fresh >= 0 => f[N] >= 0) /\ (fresh <= 0 => f[N] <= 0 /\ f[N] >= fresh)
      /\ f[N] \in Int
  BY <1>1, <1>5 DEF right, Decays
<1>7. g[N + 1] = (g[N] * 55) \div 100
  <2>1. N + 1 \in 1 .. N + 1 /\ (N + 1) - 1 = N
    OBVIOUS
  <2> QED
    BY <1>2, <2>1 DEF Decays, ATTEMPT_DECAY
<1>8. \A x \in Int : (x >= 0 => (x * 55) \div 100 <= x) /\ (x * 55) \div 100 \in Int
  OBVIOUS
<1> QED
  BY <1>1, <1>2, <1>6, <1>7, <1>8
-----------------------------------------------------------------------------
(* How the world may move for a request.                                     *)

Sensible(r, c) ==
  /\ r.action \in ActionType /\ r.amount \in Int
  /\ IsContext(c) /\ c.now \in Int
  /\ c.contacts_last_24h \in Nat /\ c.attempts_on_invoice \in Nat
  /\ c.spent_on_invoice \in Int /\ c.refunded \in Int
  /\ c.customer \in CustomerRecord \cup {None}
  /\ c.invoice \in InvoiceRecord \cup {None}
  /\ c.payment # None => c.payment.amount \in Int

\* d is a context that c may have become without a signature.
Moved(c, d) ==
  /\ d.payment = c.payment /\ d.human_approved = c.human_approved
  /\ d.risk_score = c.risk_score /\ d.risk_signals = c.risk_signals
  /\ d.settlement = c.settlement /\ d.settlement_gross = c.settlement_gross
  /\ d.settlement_unknown = c.settlement_unknown
  /\ \/ d.now > c.now
     \/ d.now = c.now /\ d.contacts_last_24h >= c.contacts_last_24h
  /\ d.attempts_on_invoice = c.attempts_on_invoice
       \/ d.attempts_on_invoice = c.attempts_on_invoice + 1
  /\ c.used_idempotency_keys \subseteq d.used_idempotency_keys
  /\ d.customer = None <=> c.customer = None
  /\ d.invoice = None <=> c.invoice = None
  /\ c.invoice # None => d.invoice.amount = c.invoice.amount /\ d.invoice.due = c.invoice.due

\* What a step of the world leaves as it was.
Besides(c, d, changed) ==
  IsContext(d) /\ \A other \in ContextFields \ changed : d[other] = c[other]

LEMMA OneField ==
  ASSUME NEW c, IsContext(c), NEW field \in ContextFields, NEW value
  PROVE  Besides(c, [c EXCEPT ![field] = value], {field}) /\ [c EXCEPT ![field] = value][field] = value
BY DEF IsContext, Besides

LEMMA FieldNames ==
  /\ "customer" \in ContextFields /\ "invoice" \in ContextFields
  /\ "contacts_last_24h" \in ContextFields /\ "attempts_on_invoice" \in ContextFields
  /\ "spent_on_invoice" \in ContextFields /\ "refunded" \in ContextFields
  /\ "used_idempotency_keys" \in ContextFields /\ "human_approved" \in ContextFields
  /\ "now" \in ContextFields
BY DEF ContextFields

\* What the world changes of a record is not what the money check reads of it.
LEMMA RecordChanged ==
  /\ \A k \in CustomerRecord, b \in BOOLEAN :
       [k EXCEPT !.opted_out = b] \in CustomerRecord
  /\ \A i \in InvoiceRecord, status \in InvoiceStatus :
       LET j == [i EXCEPT !.status = status]
       IN  j \in InvoiceRecord /\ j.amount = i.amount /\ j.due = i.due
  /\ \A i \in InvoiceRecord, b \in BOOLEAN :
       LET j == [i EXCEPT !.memo_instructs = b]
       IN  j \in InvoiceRecord /\ j.amount = i.amount /\ j.due = i.due
BY DEF CustomerRecord, InvoiceRecord

LEMMA CostsKnown ==
  ASSUME NEW r, r.action \in ActionType, r.amount \in Int
  PROVE  CostOf(r) \in Int
<1>1. \A a \in ActionType : ACTION_COST_PAISE[a] \in Int
  BY DEF ACTION_COST_PAISE
<1> QED
  BY <1>1 DEF CostOf

LEMMA WorldStep ==
  ASSUME Sensible(req, ctx), [Next]_vars
  PROVE  Sensible(req', ctx') /\ (~Sign => req' = req /\ Moved(ctx, ctx'))
<1>0. IsContext(ctx)
  BY DEF Sensible
<1>1. CASE Sign
  <2>1. ctx' = [ctx EXCEPT !["human_approved"] = TRUE] /\ req' = req
    BY <1>1 DEF Sign
  <2>2. Besides(ctx, ctx', {"human_approved"})
    BY <1>0, <2>1, OneField, FieldNames
  <2> QED
    BY <1>1, <2>1, <2>2 DEF Sensible, Besides, ContextFields
<1>2. CASE Contacted
  <2>1. ctx' = [ctx EXCEPT !["contacts_last_24h"] = ctx.contacts_last_24h + 1] /\ req' = req
    BY <1>2 DEF Contacted
  <2>2. Besides(ctx, ctx', {"contacts_last_24h"})
        /\ ctx'.contacts_last_24h = ctx.contacts_last_24h + 1
    BY <1>0, <2>1, OneField, FieldNames
  <2> QED
    BY <2>1, <2>2 DEF Sensible, Moved, Besides, ContextFields
<1>3. ASSUME NEW action \in OtherActions, NEW discount \in Discounts, Charged(action, discount)
      PROVE  Sensible(req', ctx') /\ req' = req /\ Moved(ctx, ctx')
  <2>1. PICK attempts \in {0, 1}, cost \in Int :
          /\ ctx' = [[ctx EXCEPT !["attempts_on_invoice"] = ctx.attempts_on_invoice + attempts]
                       EXCEPT !["spent_on_invoice"] = ctx.spent_on_invoice + cost]
          /\ req' = req
    <3> DEFINE other == [action |-> action, amount |-> discount]
    <3>1. other.action \in ActionType /\ other.amount \in Int
      BY <1>3, MovesAssumption
    <3>2. CostOf(other) \in Int
      BY <3>1, CostsKnown
    <3> QED
      BY <1>0, <1>3, <3>2 DEF Charged, IsContext
  <2>2. PICK tried, spent : /\ tried = ctx.attempts_on_invoice + attempts
                            /\ spent = ctx.spent_on_invoice + cost
    OBVIOUS
  <2>3. /\ Besides(ctx, ctx', {"attempts_on_invoice", "spent_on_invoice"})
        /\ ctx'.attempts_on_invoice = tried /\ ctx'.spent_on_invoice = spent
    <3>1. ctx' = [[ctx EXCEPT !["attempts_on_invoice"] = tried] EXCEPT !["spent_on_invoice"] = spent]
      BY <2>1, <2>2
    <3>2. PICK c : c = [ctx EXCEPT !["attempts_on_invoice"] = tried]
      OBVIOUS
    <3>3. Besides(ctx, c, {"attempts_on_invoice"}) /\ c.attempts_on_invoice = tried
      BY <1>0, <3>2, OneField, FieldNames
    <3>4. IsContext(c) /\ ctx' = [c EXCEPT !["spent_on_invoice"] = spent]
      BY <3>1, <3>2, <3>3 DEF Besides
    <3>5. Besides(c, ctx', {"spent_on_invoice"}) /\ ctx'.spent_on_invoice = spent
      BY <3>4, OneField, FieldNames
    <3> QED
      BY <3>3, <3>5 DEF Besides, ContextFields
  <2>4. spent \in Int /\ tried \in Nat
        /\ (tried = ctx.attempts_on_invoice \/ tried = ctx.attempts_on_invoice + 1)
    BY <2>1, <2>2 DEF Sensible
  <2> QED
    <3>1. /\ ctx'.now = ctx.now /\ ctx'.contacts_last_24h = ctx.contacts_last_24h
          /\ ctx'.refunded = ctx.refunded /\ ctx'.customer = ctx.customer
          /\ ctx'.invoice = ctx.invoice /\ ctx'.payment = ctx.payment
          /\ ctx'.used_idempotency_keys = ctx.used_idempotency_keys
      BY <2>3 DEF Besides, ContextFields
    <3>2. Sensible(req', ctx')
      BY <2>1, <2>3, <2>4, <3>1 DEF Sensible, Besides
    <3>3. /\ ctx'.now \in Int /\ ctx'.now = ctx.now
          /\ ctx'.contacts_last_24h \in Nat /\ ctx'.contacts_last_24h = ctx.contacts_last_24h
      BY <3>1 DEF Sensible
    <3>4. Moved(ctx, ctx')
      <4>1. /\ ctx'.human_approved = ctx.human_approved
            /\ ctx'.risk_score = ctx.risk_score /\ ctx'.risk_signals = ctx.risk_signals
            /\ ctx'.settlement = ctx.settlement /\ ctx'.settlement_gross = ctx.settlement_gross
            /\ ctx'.settlement_unknown = ctx.settlement_unknown
        BY <2>3 DEF Besides, ContextFields
      <4>2. ctx'.now = ctx.now /\ ctx'.contacts_last_24h >= ctx.contacts_last_24h
        BY <3>3
      <4> QED
        BY <2>3, <2>4, <3>1, <4>1, <4>2 DEF Moved
    <3> QED
      BY <2>1, <3>2, <3>4
<1>4. ASSUME NEW amount \in Refunds, Refunded(amount)
      PROVE  Sensible(req', ctx') /\ req' = req /\ Moved(ctx, ctx')
  <2>1. ctx' = [ctx EXCEPT !["refunded"] = ctx.refunded + amount] /\ req' = req /\ amount \in Int
    BY <1>4, MovesAssumption DEF Refunded
  <2>2. Besides(ctx, ctx', {"refunded"}) /\ ctx'.refunded = ctx.refunded + amount
    BY <1>0, <2>1, OneField, FieldNames
  <2> QED
    BY <2>1, <2>2 DEF Sensible, Moved, Besides, ContextFields
<1>5. CASE KeyUsed
  <2>1. /\ ctx' = [ctx EXCEPT !["used_idempotency_keys"] = ctx.used_idempotency_keys \cup {req.key}]
        /\ req' = req
    BY <1>5 DEF KeyUsed
  <2>2. Besides(ctx, ctx', {"used_idempotency_keys"})
        /\ ctx'.used_idempotency_keys = ctx.used_idempotency_keys \cup {req.key}
    BY <1>0, <2>1, OneField, FieldNames
  <2> QED
    BY <2>1, <2>2 DEF Sensible, Moved, Besides, ContextFields
<1>6. ASSUME NEW later \in Instants, NEW gone \in 0 .. MAX_CONTACTS_PER_24H + 1,
             Waited(later, gone)
      PROVE  Sensible(req', ctx') /\ req' = req /\ Moved(ctx, ctx')
  <2>1. PICK contacts : contacts = ctx.contacts_last_24h - gone
    OBVIOUS
  <2>2. /\ ctx' = [[ctx EXCEPT !["now"] = later] EXCEPT !["contacts_last_24h"] = contacts]
        /\ req' = req /\ later > ctx.now /\ later \in Int /\ contacts \in Nat
    <3>1. contacts \in Nat /\ later \in Int
      <4>1. gone <= ctx.contacts_last_24h /\ gone \in Nat /\ later \in Int
        BY <1>6, MovesAssumption, ThresholdsAssumption DEF Waited
      <4>2. ctx.contacts_last_24h \in Nat
        BY DEF Sensible
      <4> QED
        BY <2>1, <4>1, <4>2
    <3> QED
      BY <1>6, <2>1, <3>1 DEF Waited
  <2>3. /\ Besides(ctx, ctx', {"now", "contacts_last_24h"})
        /\ ctx'.now = later /\ ctx'.contacts_last_24h = contacts
    <3>1. PICK c : c = [ctx EXCEPT !["now"] = later]
      OBVIOUS
    <3>2. Besides(ctx, c, {"now"}) /\ c.now = later
      BY <1>0, <3>1, OneField, FieldNames
    <3>3. IsContext(c) /\ ctx' = [c EXCEPT !["contacts_last_24h"] = contacts]
      BY <2>2, <3>1, <3>2 DEF Besides
    <3>4. Besides(c, ctx', {"contacts_last_24h"}) /\ ctx'.contacts_last_24h = contacts
      BY <3>3, OneField, FieldNames
    <3> QED
      BY <3>2, <3>4 DEF Besides, ContextFields
  <2> QED
    BY <2>2, <2>3 DEF Sensible, Moved, Besides, ContextFields
<1>7. ASSUME NEW opted_out \in BOOLEAN, ConsentBecomes(opted_out)
      PROVE  Sensible(req', ctx') /\ req' = req /\ Moved(ctx, ctx')
  <2>1. PICK customer : customer = [ctx.customer EXCEPT !.opted_out = opted_out]
    OBVIOUS
  <2>2. customer \in CustomerRecord /\ customer # None /\ ctx.customer # None
    BY <1>7, <2>1, RecordChanged, NoRecordAssumption DEF Sensible, ConsentBecomes
  <2>3. ctx' = [ctx EXCEPT !["customer"] = customer] /\ req' = req
    BY <1>7, <2>1 DEF ConsentBecomes
  <2>4. Besides(ctx, ctx', {"customer"}) /\ ctx'.customer = customer
    BY <1>0, <2>3, OneField, FieldNames
  <2> QED
    BY <2>2, <2>3, <2>4 DEF Sensible, Moved, Besides, ContextFields
<1>8. ASSUME \/ \E status \in InvoiceStatus : StatusBecomes(status)
             \/ \E instructs \in BOOLEAN : MemoBecomes(instructs)
      PROVE  Sensible(req', ctx') /\ req' = req /\ Moved(ctx, ctx')
  <2>1. ctx.invoice \in InvoiceRecord /\ ctx.invoice # None
    BY <1>8 DEF Sensible, StatusBecomes, MemoBecomes
  <2>2. PICK invoice :
          /\ ctx' = [ctx EXCEPT !["invoice"] = invoice] /\ req' = req
          /\ \/ \E status \in InvoiceStatus : invoice = [ctx.invoice EXCEPT !.status = status]
             \/ \E instructs \in BOOLEAN : invoice = [ctx.invoice EXCEPT !.memo_instructs = instructs]
    BY <1>8 DEF StatusBecomes, MemoBecomes
  <2>3. /\ invoice \in InvoiceRecord /\ invoice # None
        /\ invoice.amount = ctx.invoice.amount /\ invoice.due = ctx.invoice.due
    <3>1. CASE \E status \in InvoiceStatus : invoice = [ctx.invoice EXCEPT !.status = status]
      BY <2>1, <3>1, RecordChanged, NoRecordAssumption
    <3>2. CASE \E instructs \in BOOLEAN : invoice = [ctx.invoice EXCEPT !.memo_instructs = instructs]
      BY <2>1, <3>2, RecordChanged, NoRecordAssumption
    <3> QED
      BY <2>2, <3>1, <3>2
  <2>4. Besides(ctx, ctx', {"invoice"}) /\ ctx'.invoice = invoice
    BY <1>0, <2>2, OneField, FieldNames
  <2> QED
    BY <2>1, <2>2, <2>3, <2>4 DEF Sensible, Moved, Besides, ContextFields
<1>9. CASE UNCHANGED vars
  BY <1>9 DEF vars, Sensible, Moved
<1>10. CASE Counted
  <2>1. \/ Contacted
        \/ \E action \in OtherActions, discount \in Discounts : Charged(action, discount)
        \/ \E amount \in Refunds : Refunded(amount)
        \/ KeyUsed
    BY <1>10 DEF Counted
  <2> QED
    BY <1>2, <1>3, <1>4, <1>5, <2>1
<1>11. CASE Records
  BY <1>7, <1>8, <1>11 DEF Records
<1> QED
  BY <1>1, <1>6, <1>9, <1>10, <1>11 DEF Next
-----------------------------------------------------------------------------
(* Who objects goes on objecting, unless answered.                           *)

Rules == {"r01", "r02", "r03", "r04", "r05", "r06", "r07", "r08",
          "r09", "r10", "r11", "r12", "r13", "r14", "r15", "r16"}

\* A rule that objects to r in context c is answered by d or objects in d too.
Stays(rule, before, after, c, d) == Objects(before) => Objects(after) \/ rule \in Answered(c, d)

LEMMA RulesObject ==
  ASSUME NEW r, NEW c, NEW d, Sensible(r, c), Sensible(r, d), Moved(c, d)
  PROVE  \A rule \in Rules :
           Stays(rule, Opinions(r, c)[rule], Opinions(r, d)[rule], c, d)
<1>1. Stays("r01", r01_opt_out(r, c), r01_opt_out(r, d), c, d)
  BY DEF Moved, Stays, Answered, Objects, r01_opt_out
<1>2. Stays("r02", r02_contact_frequency(r, c), r02_contact_frequency(r, d), c, d)
  BY ThresholdsAssumption
  DEF Sensible, Moved, Stays, Answered, Objects, r02_contact_frequency
<1>3. Stays("r03", r03_quiet_hours(r, c), r03_quiet_hours(r, d), c, d)
  BY DEF Moved, Stays, Answered, Objects, r03_quiet_hours
<1>4. r04_refund_ceiling(r, d) = r04_refund_ceiling(r, c)
  BY DEF Moved, r04_refund_ceiling
<1>5. Stays("r05", r05_duplicate_action(r, c), r05_duplicate_action(r, d), c, d)
  BY DEF Moved, Stays, Objects, r05_duplicate_action
<1>6. Stays("r06", r06_refund_exceeds_payment(r, c), r06_refund_exceeds_payment(r, d), c, d)
  BY DEF Sensible, Moved, Stays, Answered, Objects, r06_refund_exceeds_payment
<1>7. Stays("r07", r07_attempt_limit(r, c), r07_attempt_limit(r, d), c, d)
  BY ThresholdsAssumption DEF Sensible, Moved, Stays, Objects, r07_attempt_limit
<1>8. r08_unretryable_failure(r, d) = r08_unretryable_failure(r, c)
  BY DEF Moved, r08_unretryable_failure
<1>9. Stays("r09", r09_disputed_invoice(r, c), r09_disputed_invoice(r, d), c, d)
  BY DEF Moved, Stays, Answered, Objects, r09_disputed_invoice
<1>10. Stays("r10", r10_settled_invoice(r, c), r10_settled_invoice(r, d), c, d)
  BY DEF Moved, Stays, Answered, Objects, r10_settled_invoice
<1>11. r11_discount_ceiling(r, d) = r11_discount_ceiling(r, c)
  BY DEF Moved, r11_discount_ceiling
<1>12. r12_write_off_ceiling(r, d) = r12_write_off_ceiling(r, c)
  BY DEF Moved, AmountOr, r12_write_off_ceiling
<1>13. Stays("r13", r13_prompt_injection(r, c), r13_prompt_injection(r, d), c, d)
  BY DEF Moved, Stays, Answered, Objects, r13_prompt_injection
<1>14. r14_block_ceiling(r, d) = r14_block_ceiling(r, c)
  BY DEF Moved, r14_block_ceiling
<1>15. r15_risk_evidence(r, d) = r15_risk_evidence(r, c)
  BY DEF Moved, r15_risk_evidence
<1>16. r16_settlement_discrepancy(r, d) = r16_settlement_discrepancy(r, c)
  BY DEF Moved, r16_settlement_discrepancy
<1> QED
  BY <1>1, <1>2, <1>3, <1>4, <1>5, <1>6, <1>7, <1>8, <1>9, <1>10, <1>11, <1>12, <1>13,
     <1>14, <1>15, <1>16 DEF Rules, Opinions, Stays

\* Nobody objects to what the rulebook allows.
LEMMA NobodyObjects ==
  ASSUME NEW r, NEW c
  PROVE  /\ DOMAIN Opinions(r, c) = Rules
         /\ decide(r, c) = "allow" <=> \A rule \in Rules : ~Objects(Opinions(r, c)[rule])
<1>1. evaluate(r, c) = {Opinions(r, c)[rule] : rule \in Rules}
  BY DEF evaluate, Opinions, Rules
<1>2. DOMAIN Opinions(r, c) = Rules
  BY DEF Opinions, Rules
<1>3. \A opinions : Strictest(opinions) = "allow" <=> \A o \in opinions : ~Objects(o)
  BY DEF Strictest, Objects
<1> QED
  BY <1>1, <1>2, <1>3 DEF decide
-----------------------------------------------------------------------------
(* What is not worth its cost does not become so.                            *)

LEMMA AgesAre == \A due, now : AgeModifier(due, now) \in {100, 70, 45, 25}
BY DEF AgeModifier

\* An invoice that is older is worth no more.
LEMMA AgesFall ==
  ASSUME NEW due \in Int, NEW now \in Int, NEW later \in Int, later >= now
  PROVE  AgeModifier(due, later) <= AgeModifier(due, now)
<1> DEFINE days(t) == IF t < due THEN 0 ELSE (t - due) \div 24
           rate(n) == IF n <= 30 THEN 100 ELSE IF n <= 60 THEN 70 ELSE IF n <= 90 THEN 45 ELSE 25
<1>1. days(now) \in Nat /\ days(later) \in Nat /\ days(now) <= days(later)
  OBVIOUS
<1>2. \A m, n \in Nat : m <= n => rate(n) <= rate(m)
  OBVIOUS
<1>3. AgeModifier(due, later) = rate(days(later)) /\ AgeModifier(due, now) = rate(days(now))
  BY DEF AgeModifier
<1> HIDE DEF days, rate
<1> QED
  BY <1>1, <1>2, <1>3

LEMMA RatesAre ==
  ASSUME NEW r, NEW c
  PROVE  /\ r.action = "offer_discount" => base_rate(r, c) = 42
         /\ base_rate(r, c) \in Nat
<1>1. \A a \in CONTACT_ACTIONS : CHANNEL_BASE_RATE[a] \in Nat
  BY DEF CHANNEL_BASE_RATE, CONTACT_ACTIONS
<1>2. \A f \in RETRYABLE_FAILURES : RETRY_SUCCESS_RATE[f] \in Nat
  BY DEF RETRY_SUCCESS_RATE, RETRYABLE_FAILURES
<1>3. CASE Contacts(r)
  <2>1. base_rate(r, c) = CHANNEL_BASE_RATE[r.action] /\ r.action # "offer_discount"
    BY <1>3 DEF base_rate, Contacts, CONTACT_ACTIONS
  <2> QED
    BY <1>1, <1>3, <2>1 DEF Contacts
<1>4. CASE ~Contacts(r)
  BY <1>2, <1>4 DEF base_rate, DISCOUNT_BASE_RATE, ESCALATION_SUCCESS_RATE
<1> QED
  BY <1>3, <1>4

\* The margin is cleared by what has decayed less, or by what costs less than nothing.
Worthwhile(fresh, attempts, age, cost) ==
  ClearsMargin((Decayed(fresh, attempts) * age) \div 100, cost)

LEMMA Aged ==
  ASSUME NEW age \in {100, 70, 45, 25}, NEW x \in Int
  PROVE  /\ (x * age) \div 100 \in Int
         /\ x <= 0 => (x * age) \div 100 <= 0 /\ (x * age) \div 100 >= x
         /\ \A y \in Int : y <= x => (y * age) \div 100 <= (x * age) \div 100
<1>1. CASE age = 100
  BY <1>1
<1>2. CASE age = 70
  BY <1>2
<1>3. CASE age = 45
  BY <1>3
<1>4. CASE age = 25
  BY <1>4
<1> QED
  BY <1>1, <1>2, <1>3, <1>4

LEMMA WorthLess ==
  ASSUME NEW fresh \in Int, NEW N \in Nat, NEW age \in {100, 70, 45, 25}, NEW cost \in Int,
         fresh >= 0 \/ cost > 0 \/ 4 * fresh >= 5 * cost, Worthwhile(fresh, N + 1, age, cost)
  PROVE  Worthwhile(fresh, N, age, cost)
<1>1. PICK x \in Int, y \in Int : x = Decayed(fresh, N) /\ y = Decayed(fresh, N + 1)
  BY DecayedShrinks
<1>2. PICK e \in Int, f \in Int : e = (x * age) \div 100 /\ f = (y * age) \div 100
  BY Aged
<1>3. 4 * f >= 5 * cost
  BY <1>1, <1>2 DEF Worthwhile, ClearsMargin
<1>4. SUFFICES 4 * e >= 5 * cost
  BY <1>1, <1>2 DEF Worthwhile, ClearsMargin
<1>5. CASE fresh >= 0
  <2>1. y <= x
    BY <1>1, <1>5, DecayedShrinks
  <2>2. f <= e
    BY <1>2, <2>1, Aged
  <2> QED
    BY <1>3, <2>2
<1>6. CASE fresh < 0 /\ cost > 0
  <2>1. y <= 0
    <3>1. N + 1 \in Nat /\ fresh <= 0
      BY <1>6
    <3> QED
      BY <1>1, <3>1, DecayedShrinks
  <2>2. f <= 0
    BY <1>2, <2>1, Aged
  <2> QED
    BY <1>3, <1>6, <2>2
<1>7. CASE fresh < 0 /\ 4 * fresh >= 5 * cost
  <2>1. x <= 0 /\ x >= fresh
    <3>1. fresh <= 0
      BY <1>7
    <3> QED
      BY <1>1, <3>1, DecayedShrinks
  <2>2. e >= x
    BY <1>2, <2>1, Aged
  <2> QED
    BY <1>7, <2>1, <2>2
<1> QED
  BY <1>5, <1>6, <1>7

LEMMA WorthLessLater ==
  ASSUME NEW fresh \in Int, NEW N \in Nat, NEW age \in {100, 70, 45, 25},
         NEW older \in {100, 70, 45, 25}, older <= age, NEW cost \in Int,
         fresh >= 0 \/ cost > 0 \/ 4 * fresh >= 5 * cost, Worthwhile(fresh, N, older, cost)
  PROVE  Worthwhile(fresh, N, age, cost)
<1>1. PICK x \in Int : x = Decayed(fresh, N)
  BY DecayedShrinks
<1>2. PICK e \in Int, f \in Int : e = (x * age) \div 100 /\ f = (x * older) \div 100
  BY Aged
<1>3. 4 * f >= 5 * cost
  BY <1>1, <1>2 DEF Worthwhile, ClearsMargin
<1>4. SUFFICES 4 * e >= 5 * cost
  BY <1>1, <1>2 DEF Worthwhile, ClearsMargin
<1>5. CASE fresh >= 0
  <2>1. x >= 0
    BY <1>1, <1>5, DecayedShrinks
  <2>2. x * older <= x * age
    BY <2>1
  <2>3. f <= e
    BY <1>2, <2>2
  <2> QED
    BY <1>3, <2>3
<1>6. CASE fresh < 0
  <2>1. fresh <= 0
    BY <1>6
  <2>2. x <= 0 /\ x >= fresh
    BY <1>1, <2>1, DecayedShrinks
  <2>3. f <= 0 /\ e >= x
    BY <1>2, <2>2, Aged
  <2> QED
    BY <1>3, <1>6, <2>2, <2>3
<1> QED
  BY <1>5, <1>6

\* What is not yet a loss decays.  An invoice below zero can only be made worth it
\* by a discount below zero, and the ceiling on discounts keeps that one large.
LEMMA MarginHolds ==
  ASSUME NEW r, NEW c, NEW d, Sensible(r, c), Sensible(r, d), Moved(c, d),
         r.action \notin RISK_ACTIONS, r.action \notin NO_OPINION, c.invoice # None,
         ~Objects(r11_discount_ceiling(r, c)),
         ClearsMargin(ExpectedRecovery(r, d), CostOf(r))
  PROVE  ClearsMargin(ExpectedRecovery(r, c), CostOf(r))
<1> DEFINE discount == IF r.action = "offer_discount" THEN r.amount ELSE 0
           fresh == ((c.invoice.amount - discount) * base_rate(r, c)) \div 100
           age == AgeModifier(c.invoice.due, c.now)
           older == AgeModifier(c.invoice.due, d.now)
           N == c.attempts_on_invoice
<1>1. /\ d.invoice.amount = c.invoice.amount /\ d.invoice.due = c.invoice.due
      /\ d.payment = c.payment
      /\ d.attempts_on_invoice = N \/ d.attempts_on_invoice = N + 1
  BY DEF Moved
<1>2. base_rate(r, d) = base_rate(r, c)
  BY <1>1 DEF base_rate
<1>3. /\ ExpectedRecovery(r, c) = (Decayed(fresh, N) * age) \div 100
      /\ ExpectedRecovery(r, d) = (Decayed(fresh, d.attempts_on_invoice) * older) \div 100
  BY <1>1, <1>2 DEF ExpectedRecovery
<1>4. c.invoice.amount \in Int /\ r.amount \in Int /\ N \in Nat /\ r.action \in ActionType
  BY DEF Sensible, InvoiceRecord
<1>5. fresh \in Int /\ (fresh >= 0 \/ CostOf(r) > 0 \/ 4 * fresh >= 5 * CostOf(r))
  <2>1. CASE r.action = "offer_discount"
    <3>1. fresh = ((c.invoice.amount - r.amount) * 42) \div 100 /\ CostOf(r) = r.amount
      BY <2>1, RatesAre DEF CostOf
    <3>2. r.amount <= (c.invoice.amount * 3) \div 10
      BY <1>4, <2>1 DEF r11_discount_ceiling, Objects
    <3>3. PICK a \in Int, off \in Int : a = c.invoice.amount /\ off = r.amount
      BY <1>4
    <3>4. 10 * off <= 3 * a
      BY <3>2, <3>3
    <3>5. PICK y \in Int : y = ((a - off) * 42) \div 100 /\ 100 * y <= 42 * a - 42 * off
                           /\ 42 * a - 42 * off <= 100 * y + 99
      OBVIOUS
    <3>6. y >= 0 \/ off > 0 \/ 4 * y >= 5 * off
      BY <3>4, <3>5
    <3> HIDE DEF fresh
    <3> QED
      BY <3>1, <3>3, <3>5, <3>6
  <2>2. CASE r.action # "offer_discount"
    <3>1. CostOf(r) > 0
      BY <1>4, <2>2 DEF CostOf, ACTION_COST_PAISE, ActionType, ATTEMPT_ACTIONS, CONTACT_ACTIONS,
                        RISK_ACTIONS, NO_OPINION
    <3>2. PICK rate \in Int : rate = base_rate(r, c)
      BY RatesAre
    <3>3. c.invoice.amount * rate \in Int
      BY <1>4
    <3>4. (c.invoice.amount * rate) \div 100 \in Int
      BY <3>3
    <3>5. fresh = (c.invoice.amount * rate) \div 100
      BY <1>4, <2>2, <3>2
    <3> QED
      BY <3>1, <3>4, <3>5
  <2> QED
    BY <2>1, <2>2
<1>6. /\ age \in {100, 70, 45, 25} /\ older \in {100, 70, 45, 25} /\ older <= age
      /\ CostOf(r) \in Int /\ d.attempts_on_invoice \in Nat
  <2>1. c.now \in Int /\ d.now \in Int /\ d.now >= c.now /\ c.invoice.due \in Int
    BY DEF Sensible, Moved, InvoiceRecord
  <2>2. older <= age
    BY <2>1, AgesFall
  <2> QED
    BY <1>4, <2>2, AgesAre, CostsKnown DEF Sensible
<1> HIDE DEF fresh, age, older, N
<1>7. Worthwhile(fresh, d.attempts_on_invoice, age, CostOf(r))
  <2>1. Worthwhile(fresh, d.attempts_on_invoice, older, CostOf(r))
    BY <1>3 DEF Worthwhile
  <2>2. PICK n \in Nat, cost \in Int : n = d.attempts_on_invoice /\ cost = CostOf(r)
    BY <1>6
  <2>3. Worthwhile(fresh, n, older, cost) /\ (fresh >= 0 \/ cost > 0 \/ 4 * fresh >= 5 * cost)
    BY <1>5, <2>1, <2>2
  <2>4. Worthwhile(fresh, n, age, cost)
    BY <1>5, <1>6, <2>3, WorthLessLater
  <2> QED
    BY <2>2, <2>4
<1>8. Worthwhile(fresh, N, age, CostOf(r))
  <2>1. CASE d.attempts_on_invoice = N
    BY <1>7, <2>1
  <2>2. CASE d.attempts_on_invoice = N + 1
    <3>1. Worthwhile(fresh, N + 1, age, CostOf(r))
      BY <1>7, <2>2
    <3>2. PICK n \in Nat, cost \in Int : n = N /\ cost = CostOf(r)
      BY <1>4, <1>6 DEF N
    <3>3. /\ Worthwhile(fresh, n + 1, age, cost)
          /\ fresh >= 0 \/ cost > 0 \/ 4 * fresh >= 5 * cost
      BY <1>5, <3>1, <3>2
    <3>4. Worthwhile(fresh, n, age, cost)
      BY <1>5, <1>6, <3>3, WorthLess
    <3> QED
      BY <3>2, <3>4
  <2> QED
    BY <1>1, <2>1, <2>2
<1> QED
  BY <1>3, <1>8 DEF Worthwhile

LEMMA MoneyHolds ==
  ASSUME NEW r, NEW c, NEW d, Sensible(r, c), Sensible(r, d), Moved(c, d),
         decide(r, c) = "allow", ~Objects(assess(r, d)),
         d.spent_on_invoice >= c.spent_on_invoice
  PROVE  ~Objects(assess(r, c))
<1>1. CASE r.action \in RISK_ACTIONS
  <2>1. assess_risk(r, d) = assess_risk(r, c)
    BY DEF Moved, assess_risk
  <2> QED
    BY <1>1, <2>1 DEF assess
<1>2. CASE r.action \notin RISK_ACTIONS /\ (r.action \in NO_OPINION \/ c.invoice = None)
  BY <1>2 DEF assess, Objects
<1>3. CASE r.action \notin RISK_ACTIONS /\ r.action \notin NO_OPINION /\ c.invoice # None
  <2>1. d.invoice # None /\ d.invoice.amount = c.invoice.amount
    BY <1>3 DEF Moved
  <2>2. /\ ClearsMargin(ExpectedRecovery(r, d), CostOf(r))
        /\ d.spent_on_invoice + CostOf(r) <= Budget(d.invoice)
    BY <1>3, <2>1 DEF assess, Priced, Objects
  <2>3. ClearsMargin(ExpectedRecovery(r, c), CostOf(r))
    <3>1. "r11" \in Rules /\ Opinions(r, c)["r11"] = r11_discount_ceiling(r, c)
      BY DEF Rules, Opinions
    <3>2. ~Objects(r11_discount_ceiling(r, c))
      BY <3>1, NobodyObjects
    <3> QED
      BY <1>3, <2>2, <3>2, MarginHolds
  <2>4. c.spent_on_invoice + CostOf(r) <= Budget(c.invoice)
    <3>1. Budget(d.invoice) = Budget(c.invoice) /\ Budget(c.invoice) \in Int
      BY <1>3, <2>1 DEF Budget, Sensible, InvoiceRecord
    <3>2. c.spent_on_invoice \in Int /\ d.spent_on_invoice \in Int /\ CostOf(r) \in Int
      BY CostsKnown DEF Sensible
    <3> QED
      BY <2>2, <3>1, <3>2
  <2> QED
    BY <1>3, <2>3, <2>4 DEF assess, Priced, Objects
<1> QED
  BY <1>1, <1>2, <1>3

LEMMA AnswerHolds ==
  ASSUME NEW r, NEW c, NEW d, Sensible(r, c), Sensible(r, d), Moved(c, d),
         Judgement(r, d) = "allow"
  PROVE  Objections(r, c) \subseteq Answered(c, d)
<1>1. \A opinion : Strictest({opinion}) = "allow" <=> ~Objects(opinion)
  BY DEF Strictest, Objects
<1>2. decide(r, d) = "allow" /\ ~Objects(assess(r, d))
  BY <1>1 DEF Judgement
<1>3. CASE decide(r, c) = "allow"
  <2>1. CASE d.spent_on_invoice >= c.spent_on_invoice
    BY <1>2, <1>3, <2>1, MoneyHolds DEF Objections
  <2>2. CASE d.spent_on_invoice < c.spent_on_invoice
    BY <1>3, <2>2 DEF Objections, Answered
  <2> QED
    BY <2>1, <2>2 DEF Sensible
<1>4. CASE decide(r, c) # "allow"
  <2>1. \A rule \in Rules : ~Objects(Opinions(r, d)[rule])
    BY <1>2, NobodyObjects
  <2>2. \A rule \in Rules : Objects(Opinions(r, c)[rule]) => rule \in Answered(c, d)
    BY <2>1, RulesObject DEF Stays
  <2> QED
    BY <1>4, <2>2, NobodyObjects DEF Objections
<1> QED
  BY <1>3, <1>4

\* Nobody gets what was refused unless every objection there was is answered by
\* the very move: for all thresholds, records and counters, and for refunds and
\* discounts of either sign (policy.evaluate, economics.assess, gateway.py:136-164).
THEOREM RefusalsStand == Spec => OnlyAnswersLoosen
<1>1. Init => Sensible(req, ctx)
  BY CasesAssumption DEF Init, Sensible
<1>2. Sensible(req, ctx) /\ [Next]_vars
        => (Sensible(req, ctx))'
  BY WorldStep
<1>3. Sensible(req, ctx) /\ [Next]_vars
        => [~Sign /\ Answer' = "allow" => Objections(req, ctx) \subseteq Answered(ctx, ctx')]_vars
  <2> SUFFICES ASSUME Sensible(req, ctx), [Next]_vars, ~Sign, Answer' = "allow"
               PROVE  Objections(req, ctx) \subseteq Answered(ctx, ctx')
    OBVIOUS
  <2>1. PICK r, d : r = req' /\ d = ctx'
    OBVIOUS
  <2>2. Sensible(r, d) /\ Moved(ctx, d) /\ r = req
    BY <2>1, WorldStep
  <2>3. Judgement(r, d) = "allow"
    BY <2>1 DEF Answer
  <2>4. Objections(r, ctx) \subseteq Answered(ctx, d)
    BY <2>2, <2>3, AnswerHolds
  <2> QED
    BY <2>1, <2>2, <2>4
<1> QED
  BY <1>1, <1>2, <1>3, PTL DEF Spec, OnlyAnswersLoosen
=============================================================================
