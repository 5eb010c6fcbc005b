------------------------------- MODULE Replay -------------------------------
(***************************************************************************)
(* harness/replay.py: a month on one gateway.  Every day yesterday's fraud *)
(* queue is worked, money arrives by itself, the recovery agent works the  *)
(* treated invoices (Campaign), the risk agent screens the day's captured  *)
(* payments and the reconciler checks the day's batches; a sweep and the   *)
(* scorecard end the run.  One thread drives all of it: what the three     *)
(* agents share is the gateway, its counters and its log.                  *)
(***************************************************************************)
EXTENDS Campaign, RiskAgent, ReconcileAgent

CONSTANTS
  PaymentOrder,     \* ids of the payments, in the dataset's order
  SettlementOrder,  \* ids of the batches, in the dataset's order
  Fates             \* what the ground truth may say of the captured payments

ASSUME ReplayAssumption == Harness = "replay"

\* The dataset lists its own payments and batches, and nothing it names is None:
\* no id, no kind of exception and no key of the risk agent's.
ASSUME ListsAssumption ==
  /\ PaymentOrder \in Seq(DOMAIN Payments)
  /\ SettlementOrder \in Seq(DOMAIN Settlements)
  /\ None \notin DOMAIN Settlements \cup DOMAIN Invoices
  /\ None \notin {"unknown_payment", "duplicate_payment", "amount_mismatch"}
  /\ None \notin (DOMAIN Payments) \X RISK_ACTIONS

\* Amounts and hours are whole numbers, and a batch lists its payments.
ASSUME BankAssumption ==
  /\ \A p \in DOMAIN Payments : Payments[p].created \in Int /\ Payments[p].amount \in Int
  /\ \A s \in DOMAIN Settlements :
       /\ Settlements[s] # None
       /\ Settlements[s].amount \in Int /\ Settlements[s].fee \in Int
       /\ Len(Settlements[s].payments) \in Nat
       /\ DOMAIN Settlements[s].payments = 1 .. Len(Settlements[s].payments)

VARIABLES
  fate,         \* the ground truth's payments, and the draws seeded on them
  screen,       \* payments the risk agent has still to judge today
  judged,       \* today's risk decisions whose outcome has not been resolved
  blocks,       \* pending_blocks: what the risk agent's escalated, a review included
  seen,         \* payments the risk agent has judged
  rsim,         \* RiskOutcomeSimulator
  batches,      \* settlements still to be checked today
  reconcile,    \* ReconcileAgent
  tally         \* the scorecard's own counters

replayVars ==
  <<vars, fate, screen, judged, blocks, seen, rsim, batches, reconcile, tally>>

riskVars      == <<screen, judged, blocks, seen, rsim>>
reconcileVars == <<batches, reconcile>>

captured_payments ==
  Without(PaymentOrder, {p \in DOMAIN Payments : Payments[p].status # "captured"})
PaymentSet == {captured_payments[k] : k \in DOMAIN captured_payments}

TodaysPayments(date) ==
  Without(captured_payments, {p \in PaymentSet : Date(Payments[p].created) # date})

\* sorted(): each batch goes behind those that are not credited later than it.
OldestFirst(s) ==
  LET upto[n \in 0 .. Len(s)] ==
        IF n = 0 THEN <<>>
        ELSE LET later == {b \in DOMAIN Settlements :
                             Settlements[b].credited > Settlements[s[n]].credited}
             IN  Without(upto[n - 1], later)
                   \o <<s[n]>> \o Without(upto[n - 1], DOMAIN Settlements \ later)
  IN  upto[Len(s)]

settlements_on(date) ==
  OldestFirst(Without(SettlementOrder,
                      {s \in DOMAIN Settlements : Date(Settlements[s].credited) # date}))

\* What the risk agent has to say of each payment; None is nothing.
Opinion == [p \in PaymentSet |-> RiskRequest(Payments, p)]

-----------------------------------------------------------------------------
ReplayInit ==
  /\ Init
  /\ fate \in Fates
  /\ screen = <<>> /\ judged = <<>> /\ blocks = <<>>
  /\ seen = {}
  /\ rsim = NewRiskSim
  /\ batches = <<>>
  /\ reconcile = NewReconciler
  /\ tally = [requests |-> 0, pending_recovery |-> 0, approved |-> 0, rejected |-> 0]

RecoveryDone == todo = <<>> /\ asked = <<>>
RiskDone     == RecoveryDone /\ screen = <<>> /\ judged = <<>>
DayDone      == RiskDone /\ batches = <<>>

\* One more request that the scorecard reports.
OneMore(t) == [t EXCEPT !.requests = @ + 1]

\* Mutant: the signed block is judged at the hour it was first asked for.
SameHour == Now

\* The hour of the day about to begin.
Tomorrow == Now + 24

\* Mutant: the resubmission is not counted as a request.
SignedOnly(t) == [t EXCEPT !.approved = @ + 1]

Signed(t) == OneMore([t EXCEPT !.approved = @ + 1])

\* The fraud queue, a block the analyst signs: approve(), submit() and the
\* outcome.  Whatever the rulebook says now, the block leaves this queue.
SignBlock ==
  /\ DayDone /\ day < Days /\ blocks # <<>>
  /\ approves_block(fate, Head(blocks))
  /\ LET req == Head(blocks)
         row == Decided(Sign(mem, req.id), books, req, Tomorrow)
     IN  /\ log' = log \o <<HumanRow("human_approval", req.id), RequestRow(req), row>>
                       \o RiskOutcome(fate, row)
         /\ mem' = Count(Sign(mem, req.id), row)
         /\ rsim' = ObserveRisk(rsim, fate, row)
  /\ blocks' = Tail(blocks)
  /\ tally' = Signed(tally)
  /\ UNCHANGED <<truth, holdout, order, day, todo, asked, books, agent, sim, scorecards>>
  /\ UNCHANGED <<fate, screen, judged, seen, reconcileVars>>

\* The fraud queue, a block the analyst declines: nobody tells the gateway.
DeclineBlock ==
  /\ DayDone /\ day < Days /\ blocks # <<>>
  /\ ~approves_block(fate, Head(blocks))
  /\ blocks' = Tail(blocks)
  /\ tally' = [tally EXCEPT !.rejected = @ + 1]
  /\ UNCHANGED <<vars, fate, screen, judged, seen, rsim, reconcileVars>>

\* The day begins once the queue is empty: spontaneous money, the books of the day.
BeginReplayDay ==
  /\ DayDone /\ blocks = <<>>
  /\ BeginDay
  /\ screen' = TodaysPayments(day)
  /\ batches' = settlements_on(day)
  /\ UNCHANGED <<fate, judged, blocks, seen, rsim, reconcile, tally>>

\* recovery.run, which asks about the whole book before anything is resolved.
WorkInvoice == (LeaveAlone \/ Ask) /\ UNCHANGED <<fate, riskVars, reconcileVars, tally>>

\* The loop over its answers.
ResolveInvoice ==
  /\ Overlook \/ Resolve
  /\ tally' = [OneMore(tally) EXCEPT !.pending_recovery =
                 IF Head(asked).verdict = "needs_human" THEN @ + 1 ELSE @]
  /\ UNCHANGED <<fate, riskVars, reconcileVars>>

\* risk.run on a payment it was shown before, or one that is fine: most are.
PassOver ==
  /\ RecoveryDone /\ screen # <<>>
  /\ Head(screen) \in seen \/ Opinion[Head(screen)].action = None
  /\ seen' = seen \cup {Head(screen)}
  /\ screen' = Tail(screen)
  /\ UNCHANGED <<vars, fate, judged, blocks, rsim, reconcileVars, tally>>

\* risk.run on one that smells, submit() and all.
Screen ==
  /\ RecoveryDone /\ screen # <<>>
  /\ Head(screen) \notin seen /\ Opinion[Head(screen)].action # None
  /\ LET req == Opinion[Head(screen)]
         row == Decided(mem, books, req, Now)
     IN  /\ log' = log \o <<RequestRow(req), row>>
         /\ mem' = Count(mem, row)
         /\ judged' = Append(judged, row)
  /\ seen' = seen \cup {Head(screen)}
  /\ screen' = Tail(screen)
  /\ UNCHANGED <<truth, holdout, order, day, todo, asked, books, agent, sim, scorecards>>
  /\ UNCHANGED <<fate, blocks, rsim, reconcileVars, tally>>

\* The loop over its answers: what needs a person waits for tomorrow.
ResolvePayment ==
  /\ RecoveryDone /\ screen = <<>> /\ judged # <<>>
  /\ LET row == Head(judged)
     IN  /\ blocks' = IF row.verdict = "needs_human" THEN Append(blocks, row.req) ELSE blocks
         /\ rsim' = ObserveRisk(rsim, fate, row)
         /\ log' = log \o RiskOutcome(fate, row)
  /\ judged' = Tail(judged)
  /\ tally' = OneMore(tally)
  /\ UNCHANGED <<truth, holdout, order, day, todo, asked, mem, books, agent, sim, scorecards>>
  /\ UNCHANGED <<fate, screen, seen, reconcileVars>>

\* reconcile.run on one batch; it is credited on one day and comes once.
CheckBatch ==
  /\ RiskDone /\ batches # <<>>
  /\ Head(batches) \notin reconcile.seen
  /\ LET req == Request(reconcile, Head(batches))
         row == Decided(mem, books, req, Now)
     IN  /\ log' = log \o <<RequestRow(req), row>>
         /\ mem' = Count(mem, row)
  /\ reconcile' = Examined(reconcile, Head(batches))
  /\ batches' = Tail(batches)
  /\ tally' = OneMore(tally)
  /\ UNCHANGED <<truth, holdout, order, day, todo, asked, books, agent, sim, scorecards>>
  /\ UNCHANGED <<fate, riskVars>>

\* The sweep, at start + days, and the scorecard; the fraud queue of the last
\* day is not worked any more.
Close ==
  /\ DayDone
  /\ Finish
  /\ reconcile' = Swept(reconcile, captured_payments, Tomorrow)
  /\ UNCHANGED <<fate, riskVars, batches, tally>>

ReplayNext ==
  \/ SignBlock \/ DeclineBlock \/ BeginReplayDay
  \/ WorkInvoice \/ ResolveInvoice
  \/ PassOver \/ Screen \/ ResolvePayment \/ CheckBatch \/ Close

ReplaySpec == ReplayInit /\ [][ReplayNext]_replayVars
-----------------------------------------------------------------------------
(* Properties.                                                               *)

\* The shape of every variable.
ReplayTypeOK ==
  /\ TypeOK
  /\ fate \in Fates
  /\ screen \in Seq(PaymentSet)
  /\ \A k \in DOMAIN judged : judged[k].type = "decision" /\ judged[k].req.payment \in PaymentSet
  /\ \A k \in DOMAIN blocks : blocks[k].action \in RISK_ACTIONS /\ blocks[k].payment \in PaymentSet
  /\ seen \subseteq PaymentSet
  /\ rsim \in [prevented : Nat, lost_sale : Nat, judged : SUBSET seen, stopped : SUBSET seen]
  /\ batches \in Seq(DOMAIN Settlements)
  /\ DOMAIN reconcile.claimed_by \subseteq DOMAIN Payments
  /\ reconcile.seen \subseteq DOMAIN Settlements
  /\ tally \in [requests : Nat, pending_recovery : Nat, approved : Nat, rejected : Nat]

Decisions(verdict) == {k \in DOMAIN log : log[k].type = "decision" /\ log[k].verdict = verdict}
OnRisk(rows)       == {k \in rows : log[k].req.action \in RISK_ACTIONS}
ByRecovery(rows)   == {k \in rows : log[k].req.settlement = None} \ OnRisk(rows)

SignatureBefore(k) == \E j \in 1 .. k - 1 : log[j] = HumanRow("human_approval", log[k].req.id)

\* The scorecard's numbers, counted in four loops and in the gateway, are those
\* of the log at the end of every day: each request was judged once and counted
\* once, a block that went through the queue twice, and every escalation is on
\* one of the lists or was answered by the analyst (replay.py:213-273, 333-365).
ScorecardAddsUp ==
  DayDone =>
    /\ tally.requests = Cardinality(RequestRows)
    /\ \A verdict \in Verdict : mem.verdict_counts[verdict] = Cardinality(Decisions(verdict))
    /\ tally.requests = Cardinality(UNION {Decisions(verdict) : verdict \in Verdict})
    /\ tally.pending_recovery = Cardinality(ByRecovery(Decisions("needs_human")))
    /\ tally.approved = Cardinality({k \in DOMAIN log : log[k].type = "human_approval"})
    /\ tally.approved + tally.rejected + Len(blocks) =
         Cardinality({k \in OnRisk(Decisions("needs_human")) : ~SignatureBefore(k)})

\* The money a block or a review saved or cost is that of the decisions the
\* gateway allowed, each payment once, with an outcome row for each: neither a
\* refused block nor one still in the queue is priced (outcomes.py:270-322).
FraudFigures ==
  LET acted     == OnRisk(Decisions("allow"))
      saving    == {k \in acted : Stops(fate, log[k].req)}
      costing   == {k \in acted : log[k].req.action = "block_order"} \ saving
      Sum(rows) == Total([k \in DOMAIN log |-> IF k \in rows THEN log[k].req.amount ELSE 0])
  IN  DayDone =>
        /\ \A j, k \in acted : log[j].req.payment = log[k].req.payment => j = k
        /\ rsim.prevented = Sum(saving)
        /\ rsim.lost_sale = Sum(costing)
        /\ \A k \in acted : \E j \in k + 1 .. Len(log) :
             log[j] = Reported(log[k].req, IF k \in saving THEN log[k].req.amount ELSE 0)

\* "A scorer allowed to see the rest of the month would be reading the future"
\* (agents/risk.py:24-29): each request about a payment is the one that would
\* have been made had the records ended with it, whatever is in the dataset.
NoHindsight ==
  DayDone => \A k \in OnRisk(RequestRows) :
    LET p    == log[k].req.payment
        then == {q \in DOMAIN Payments : Payments[q].created <= Payments[p].created}
    IN  log[k].req = RiskRequest([q \in then |-> Payments[q]], p)

\* A large block waits for the night: it is allowed the day after it was
\* escalated, on a signature of an analyst who would give it, and never on the
\* day it was asked for (replay.py:220-235, outcomes.py:336-348).
BlocksWaitANight ==
  DayDone => \A k \in OnRisk(Decisions("allow")) :
    log[k].req.action = "block_order" /\ log[k].req.amount > BLOCK_HUMAN_THRESHOLD_PAISE =>
      /\ approves_block(fate, log[k].req)
      /\ SignatureBefore(k)
      /\ \E j \in Decisions("needs_human") :
           log[j].req = log[k].req /\ log[j].at = log[k].at - 24

MatchRows == {k \in Decisions("allow") : log[k].req.action = "match_settlement"}

\* No payment is matched to two of the bank's batches.  Only the agent's memory
\* sees to that: the rulebook checks each batch for itself (reconcile.py:110-135).
NoPaymentMatchedTwice ==
  DayDone => \A j, k \in MatchRows :
    Listed(log[j].req.settlement) \cap Listed(log[k].req.settlement) # {} => j = k

\* Two sums that must agree before the books move (reconcile.py:7-18): the agent
\* asks to match what the rulebook accepts, and hands over, with one exception
\* written down, what it would not, or what another batch has claimed.
Accepted(s) ==
  LET req == BatchRequest(s, "match_settlement")
  IN  Judgement(req, build_context(Unused, Invoices, req, 0)) = "allow"

Excepted(reference, kinds) ==
  \E k \in DOMAIN reconcile.exceptions :
    reconcile.exceptions[k].reference = reference /\ reconcile.exceptions[k].kind \in kinds

ReconcilerAgrees ==
  DayDone => \A s \in reconcile.seen :
    LET matched == \E k \in MatchRows : log[k].req.settlement = s
        handed  == \E k \in Decisions("allow") : log[k].req = BatchRequest(s, "escalate_to_human")
    IN  /\ matched # handed
        /\ matched => Accepted(s)
        /\ handed => ~Accepted(s) \/ Excepted(s, {"duplicate_payment"})
        /\ handed <=> Excepted(s, {"unknown_payment", "duplicate_payment", "amount_mismatch"})

\* At the end no captured money is simply forgotten: a payment three days old is
\* in a batch that was matched or is under exception, or it is itself reported
\* unsettled, or the bank's list has it in a batch dated outside the run.
MoneyAccounted ==
  day = Days + 1 =>
    \A p \in PaymentSet : Payments[p].created + UNSETTLED_AFTER <= Now =>
      \/ Excepted(p, {"unsettled"})
      \/ \E s \in DOMAIN Settlements : p \in Listed(s) /\ s \notin reconcile.seen
      \/ \E s \in reconcile.seen :
           /\ p \in Listed(s)
           /\ (\E k \in MatchRows : log[k].req.settlement = s)
                \/ Excepted(s, {"unknown_payment", "duplicate_payment", "amount_mismatch"})
=============================================================================
