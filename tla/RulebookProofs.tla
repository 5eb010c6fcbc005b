--------------------------- MODULE RulebookProofs ---------------------------
(***************************************************************************)
(* decide() looked at from outside: what its verdict says about the        *)
(* opinion of a single rule, for every request, context and threshold; and *)
(* the induction on a number that loops over rows and lists need.  All the *)
(* proofs about what stands on the rulebook cite these facts.              *)
(***************************************************************************)
EXTENDS Economics, WellFoundedInduction, TLAPS

-----------------------------------------------------------------------------
(* From one number to the next.                                              *)

Below == {p \in Nat \X Nat : p[1] < p[2]}

LEMMA BelowWellFounded == IsWellFoundedOn(Below, Nat)
BY NatLessThanWellFounded, Zenon DEF OpToRel, Below

\* Whatever holds of nothing and of one element more holds of all elements.
LEMMA UpTo ==
  ASSUME NEW N \in Nat, NEW S, 0 \in S, \A k \in 0 .. N - 1 : k \in S => k + 1 \in S
  PROVE  0 .. N \subseteq S
<1> DEFINE missing == {k \in 0 .. N : k \notin S}
<1> SUFFICES ASSUME missing # {}
             PROVE  FALSE
  OBVIOUS
<1>1. missing \in SUBSET Nat
  OBVIOUS
<1>2. PICK least \in missing : \A other \in missing : ~ (<<other, least>> \in Below)
  BY <1>1, WFMin, BelowWellFounded, Zenon
<1>3. least \in 0 .. N /\ least \notin S
  BY <1>2
<1>4. least # 0
  BY <1>3
<1>5. least - 1 \in 0 .. N - 1 /\ least - 1 \in Nat /\ least \in Nat /\ least - 1 < least
      /\ least - 1 \in 0 .. N /\ (least - 1) + 1 = least
  BY <1>3, <1>4
<1>6. least - 1 \notin missing
  BY <1>2, <1>5 DEF Below
<1> QED
  BY <1>3, <1>5, <1>6

\* A function that is computed from its first value, one step at a time.
Stepwise(g, N, start, step) ==
  g[0] = start /\ \A n \in 1 .. N : g[n] = step[<<n, g[n - 1]>>]

LEMMA Recursion ==
  ASSUME NEW N \in Nat, NEW T, NEW start \in T, NEW step \in [(1 .. N) \X T -> T]
  PROVE  \E g \in [0 .. N -> T] : Stepwise(g, N, start, step)
<1> DEFINE
      steps(g, k) == g[0] = start /\ \A n \in 1 .. k : g[n] = step[<<n, g[n - 1]>>]
      reached == {k \in 0 .. N : \E g \in [0 .. k -> T] : steps(g, k)}
<1>1. 0 \in reached
  <2> DEFINE g == [n \in 0 .. 0 |-> start]
  <2>1. g \in [0 .. 0 -> T] /\ steps(g, 0) /\ 0 \in 0 .. N
    OBVIOUS
  <2> HIDE DEF g, steps
  <2> QED
    BY <2>1
<1>2. ASSUME NEW k \in 0 .. N - 1, k \in reached
      PROVE  k + 1 \in reached
  <2>1. PICK g \in [0 .. k -> T] : steps(g, k)
    BY <1>2
  <2>2. /\ k + 1 \in 1 .. N /\ k + 1 \in 0 .. N /\ k \in 0 .. k /\ 0 \in 0 .. k
        /\ (k + 1) - 1 = k
        /\ \A n \in 1 .. k : n \in 0 .. k /\ n - 1 \in 0 .. k
        /\ \A n \in 1 .. k + 1 : n \in 1 .. k \/ n = k + 1
        /\ k + 1 \notin 0 .. k /\ k + 1 \in 0 .. k + 1
        /\ \A n \in 0 .. k + 1 : n \in 0 .. k \/ n = k + 1
        /\ \A n \in 0 .. k : n \in 0 .. k + 1
    OBVIOUS
  <2> DEFINE last == step[<<k + 1, g[k]>>]
  <2>3. last \in T
    BY <2>2
  <2> HIDE DEF last
  <2> DEFINE h == [n \in 0 .. k + 1 |-> IF n \in 0 .. k THEN g[n] ELSE last]
  <2>4. h \in [0 .. k + 1 -> T]
    BY <2>2, <2>3
  <2>5. (\A n \in 0 .. k : h[n] = g[n]) /\ h[k + 1] = last
    BY <2>2
  <2> HIDE DEF h
  <2>6. h[0] = start
    BY <2>1, <2>2, <2>5
  <2>7. \A n \in 1 .. k : h[n] = step[<<n, h[n - 1]>>]
    BY <2>1, <2>2, <2>5
  <2>8. h[k + 1] = step[<<k + 1, h[(k + 1) - 1]>>]
    BY <2>2, <2>5 DEF last
  <2>9. steps(h, k + 1)
    BY <2>2, <2>6, <2>7, <2>8
  <2> HIDE DEF steps
  <2> QED
    BY <2>2, <2>4, <2>9
<1>3. N \in reached
  <2> HIDE DEF reached
  <2> QED
    BY <1>1, <1>2, UpTo
<1> QED
  BY <1>3 DEF Stepwise

-----------------------------------------------------------------------------
(* The verdict.                                                              *)

Ceilings(r, c) ==
  {r04_refund_ceiling(r, c), r12_write_off_ceiling(r, c), r14_block_ceiling(r, c)}

Others(r, c) ==
  {r01_opt_out(r, c), r02_contact_frequency(r, c), r03_quiet_hours(r, c),
   r05_duplicate_action(r, c), r06_refund_exceeds_payment(r, c), r07_attempt_limit(r, c),
   r08_unretryable_failure(r, c), r09_disputed_invoice(r, c), r10_settled_invoice(r, c),
   r11_discount_ceiling(r, c), r13_prompt_injection(r, c), r15_risk_evidence(r, c),
   r16_settlement_discrepancy(r, c)}

\* Whatever is asked, and in whatever context, the answer is a verdict.
LEMMA VerdictTyped ==
  ASSUME NEW r, NEW c
  PROVE  Judgement(r, c) \in Verdict
<1>1. \A opinions : Strictest(opinions) \in Verdict
  BY DEF Strictest, Verdict
<1> QED
  BY <1>1 DEF Judgement, decide

\* decide() is the strictest of the ceilings' opinions and the others'.
LEMMA DecideSplits ==
  ASSUME NEW r, NEW c
  PROVE  decide(r, c) = Strictest(Ceilings(r, c) \cup Others(r, c))
<1>1. evaluate(r, c) = Ceilings(r, c) \cup Others(r, c)
  BY DEF evaluate, Ceilings, Others
<1> QED
  BY <1>1 DEF decide

\* An allow, with the money check behind it, means that no rule objected: no
\* ceiling asks for a person, the key has not been used, and no limit on
\* contacts, attempts or refunds is reached.
LEMMA AllowMeansNobodyObjects ==
  ASSUME NEW r, NEW c, Judgement(r, c) = "allow"
  PROVE  /\ r04_refund_ceiling(r, c) # "needs_human"
         /\ r12_write_off_ceiling(r, c) # "needs_human"
         /\ r14_block_ceiling(r, c) # "needs_human"
         /\ r05_duplicate_action(r, c) # "deny"
         /\ r02_contact_frequency(r, c) # "deny"
         /\ r06_refund_exceeds_payment(r, c) # "deny"
         /\ r07_attempt_limit(r, c) # "needs_human"
<1>1. decide(r, c) = "allow"
  BY DEF Judgement
<1>2. {"needs_human", "deny"} \cap (Ceilings(r, c) \cup Others(r, c)) = {}
  BY <1>1, DecideSplits DEF Strictest
<1> QED
  BY <1>2 DEF Ceilings, Others
=============================================================================
