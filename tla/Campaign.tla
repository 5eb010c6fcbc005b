------------------------------ MODULE Campaign ------------------------------
(***************************************************************************)
(* The recovery agent at work on a book of invoices, day after day:        *)
(* agents/recovery.py asks, the gateway (Bookkeeping) judges and counts,   *)
(* harness/outcomes.py decides what came of it, and the loop of            *)
(* harness/batch.py, which is also the recovery half of harness/replay.py, *)
(* drives the three and reports the outcomes back into the ledger.         *)
(*                                                                         *)
(* A day has two passes: the agent asks about every open invoice, and only *)
(* then are the answers resolved.  What the ground truth says and what the *)
(* draws seeded on an invoice id come to is fixed for all runs (truth); in *)
(* which order a run visits the book is not always (WorkOrders).           *)
(***************************************************************************)
EXTENDS Bookkeeping

CONSTANTS
  Invoices,     \* the dataset: id -> record
  Book,         \* ids of the collectable invoices, in the dataset's order
  PaymentsFor,  \* id -> ids of the payments made on it, in the dataset's order
  Facts,        \* what the ground truth may say of one invoice
  Planner,      \* "rule", or "gemini" for a language model in its place
  Offers,       \* the amounts a language model names
  Harness,      \* "replay" or "batch"
  Days,         \* bound: days of one run
  MaxRuns       \* bound: runs of the same command

ASSUME HarnessAssumption == Harness \in {"replay", "batch"}
\* None is the answer of a planner with nothing to say, and no action.
ASSUME PlannerAssumption ==
  /\ Planner \in {"rule", "gemini"}
  /\ Offers \subseteq Int
  /\ None \notin ActionType
ASSUME RunsAssumption == Days \in Nat \ {0} /\ MaxRuns \in Nat \ {0}

\* collectable(): invoices of the dataset that are still owed, each once.
ASSUME BookAssumption ==
  /\ Book \in Seq(DOMAIN Invoices)
  /\ \A j, k \in DOMAIN Book : Book[j] = Book[k] => j = k
  /\ \A k \in DOMAIN Book :
       /\ {"amount", "status", "due"} \subseteq DOMAIN Invoices[Book[k]]
       /\ Invoices[Book[k]].amount \in Int
       /\ Invoices[Book[k]].status \in {"open", "overdue"}
       /\ Invoices[Book[k]] # None

\* Days are counted from one; an invoice that does not pay by itself within the
\* run settles on a day beyond it.
ASSUME FactsAssumption == \A facts \in Facts : facts.settles_on \in Nat \ {0}

VARIABLES
  truth,        \* ground_truth.json and the seeded draws
  holdout,      \* the invoices kept back from the agent
  order,        \* the order in which this run visits the others
  day,          \* days begun; Days + 1 once the run is over
  todo,         \* invoices the agent has still to look at today
  asked,        \* today's decisions whose outcome has not been resolved
  log,
  mem,
  books,        \* the DataStore's invoices, which the simulator marks paid
  agent,        \* RecoveryAgent: its tally, and the invoices it is done with
  sim,          \* OutcomeSimulator: contacts delivered, money recovered
  scorecards    \* what the finished runs reported

vars == <<truth, holdout, order, day, todo, asked, log, mem, books, agent, sim, scorecards>>

Targets == {Book[k] : k \in DOMAIN Book}

\* START is noon; every day is worked at the same hour.
Now == 24 * (day - 1) + 12

-----------------------------------------------------------------------------
(* RulePlanner.                                                              *)

CHANNEL_LADDER == <<"send_email", "send_sms", "send_whatsapp", "place_call">>
CALL_WORTH_IT_PAISE == 50000
HIGH_VALUE_PAISE    == 500000

Failed(payment)    == payment.status = "failed"
Retryable(payment) == Failed(payment) /\ payment.failure \in RETRYABLE_FAILURES

FailedOn(i)    == SelectSeq(PaymentsFor[i], LAMBDA p : Failed(Payments[p]))
RetryableOn(i) == SelectSeq(PaymentsFor[i], LAMBDA p : Retryable(Payments[p]))

\* The rung of the ladder after so many tries, counted from the bottom.
Rung(i, tries) ==
  LET outreach == IF RetryableOn(i) = <<>> THEN tries ELSE Max({0, tries - 1})
  IN  outreach + (IF books[i].amount >= HIGH_VALUE_PAISE THEN 2 ELSE 1)

plan(i, tries) ==
  LET rung == Rung(i, tries)
  IN  IF books[i].status \notin {"open", "overdue"} \/ Now <= books[i].due THEN None
      ELSE IF tries = 0 /\ RetryableOn(i) # <<>> THEN "retry_charge"
      ELSE IF rung > Len(CHANNEL_LADDER) THEN "escalate_to_human"
      ELSE IF CHANNEL_LADDER[rung] = "place_call" /\ books[i].amount < CALL_WORTH_IT_PAISE
        THEN "escalate_to_human"
      ELSE CHANNEL_LADDER[rung]

\* GeminiPlanner: any action its tool offers, with any amount, whatever the
\* invoice; the rule planner's answer when the call fails or names no tool.
\* That the model keeps to the enum it was given is the API's doing: the agent
\* takes whatever names an ActionType.  None is a planner with nothing to say.
ToolActions ==
  CONTACT_ACTIONS \cup {"retry_charge", "offer_discount", "escalate_to_human", "write_off"}

Planned(i, tries) ==
  {<<plan(i, tries), 0>>} \cup (IF Planner = "gemini" THEN ToolActions \X Offers ELSE {})

-----------------------------------------------------------------------------
(* RecoveryAgent.                                                            *)

\* A retry names the newest payment that failed, for whatever reason.
Charged(i, action) ==
  LET failed == FailedOn(i)
  IN  IF action = "retry_charge" /\ failed # <<>> THEN failed[Len(failed)] ELSE None

Proposal(i, action, amount) ==
  [id |-> <<i, agent.tried[i]>>, action |-> action, customer |-> books[i].customer,
   invoice |-> i, payment |-> Charged(i, action), settlement |-> None,
   amount |-> amount, claimed |-> None, instructs |-> books[i].memo_instructs,
   key |-> <<i, agent.tried[i], action>>]

\* Mutant: only what was allowed counts as a try.
TriedIfAllowed(a, row) ==
  [tried  |-> IF Allowed(row) THEN [a.tried EXCEPT ![row.req.invoice] = @ + 1] ELSE a.tried,
   closed |-> IF Allowed(row) /\ row.req.action \in {"escalate_to_human", "write_off"}
                THEN a.closed \cup {row.req.invoice} ELSE a.closed]

\* Mutant: a handover closes the invoice although it was refused.
ClosedAnyway(a, row) ==
  [tried  |-> [a.tried EXCEPT ![row.req.invoice] = @ + 1],
   closed |-> IF row.req.action \in {"escalate_to_human", "write_off"}
                THEN a.closed \cup {row.req.invoice} ELSE a.closed]

\* Mutant: a handover closes nothing.
NeverClosed(a, row) == [a EXCEPT !.tried[row.req.invoice] = @ + 1]

\* Mutant: a refusal is counted on top of the turn.
RefusalCounted(a, row) ==
  [a EXCEPT !.tried[row.req.invoice] = IF Allowed(row) THEN @ + 1 ELSE @ + 2]

\* The agent counts what it tried; a granted handover ends its involvement.
Learn(a, row) ==
  [tried  |-> [a.tried EXCEPT ![row.req.invoice] = @ + 1],
   closed |-> IF Allowed(row) /\ row.req.action \in {"escalate_to_human", "write_off"}
                THEN a.closed \cup {row.req.invoice} ELSE a.closed]

-----------------------------------------------------------------------------
(* OutcomeSimulator.                                                         *)

Recovered == DOMAIN sim.recovered

\* recovered[...] = (amount_paise - minus, why)
Credit(invoices, minus, why) ==
  [i \in Recovered \cup invoices |->
     IF i \in invoices THEN [amount |-> books[i].amount - minus, why |-> why]
                       ELSE sim.recovered[i]]

\* Mutant: a refused action has an outcome as well.
HappenedAnyway(row) == row.req.invoice \notin Recovered

\* Refused actions have no outcome, and an invoice pays once.
Happened(row) == Allowed(row) /\ row.req.invoice \notin Recovered

\* What an action on an invoice brings in, if it lands.
Lands(req) ==
  LET facts == truth[req.invoice]
      pays  == facts.would_pay_anyway \/ facts.pays_if_contacted
  IN  CASE Contacts(req) ->
             /\ facts.pays_if_contacted
             /\ sim.delivered[req.invoice] + 1 >= facts.contacts_needed
        [] req.action = "retry_charge"      -> pays /\ facts.retry_lands
        [] req.action = "escalate_to_human" -> pays /\ facts.escalation_closes
        [] req.action = "offer_discount"    -> pays
        [] OTHER                            -> FALSE

Minus(req) == IF req.action = "offer_discount" THEN req.amount ELSE 0

\* settle_spontaneously: who pays on that day with nobody doing anything.
Spontaneous(d) ==
  {i \in Targets :
     /\ books[i].status \in {"open", "overdue"}
     /\ i \notin Recovered
     /\ truth[i].would_pay_anyway
     /\ truth[i].settles_on = d}

MarkPaid(invoices) ==
  [i \in DOMAIN books |->
     IF i \in invoices THEN [books[i] EXCEPT !.status = "paid"] ELSE books[i]]

-----------------------------------------------------------------------------
(* The run.                                                                  *)

Worked == Without(Book, holdout)

Rearranged(s) ==
  {r \in [DOMAIN s -> {s[k] : k \in DOMAIN s}] : \A j, k \in DOMAIN s : r[j] = r[k] => j = k}

\* Mutant: the treated invoices are iterated as a set.
TreatedAsSet == Rearranged(Worked)

\* replay.py keeps the dataset's order; batch.py iterates a set of strings, in
\* an order that changes from process to process and not within one.
WorkOrders == IF Harness = "replay" THEN {Worked} ELSE Rearranged(Worked)

NewAgent == [tried |-> [i \in Targets |-> 0], closed |-> {}]
NewSim   == [delivered |-> [i \in Targets |-> 0], recovered |-> <<>>]
Unused   == NoCounts({Invoices[i].customer : i \in Targets}, DOMAIN Invoices, DOMAIN Payments)

Init ==
  /\ truth \in [Targets -> Facts]
  /\ holdout \in IF Harness = "replay" THEN SUBSET Targets ELSE {{}}
  /\ order \in WorkOrders
  /\ day = 0
  /\ todo = <<>>
  /\ asked = <<>>
  /\ log = <<>>
  /\ mem = Unused
  /\ books = Invoices
  /\ agent = NewAgent
  /\ sim = NewSim
  /\ scorecards = <<>>

\* Mutant: the simulator's scope is the treated group.
SettleTreated(d) == {i \in Spontaneous(d) : i \notin holdout}

Settle(d) == Spontaneous(d)

\* A day begins: money arrives by itself, and what is left is worked.
BeginDay ==
  /\ day < Days
  /\ todo = <<>> /\ asked = <<>>
  /\ LET paid == Settle(day + 1) IN
     /\ books' = MarkPaid(paid)
     /\ sim' = [sim EXCEPT !.recovered = Credit(paid, 0, "spontaneous")]
     /\ todo' = Without(order, Recovered \cup paid)
  /\ day' = day + 1
  /\ UNCHANGED <<truth, holdout, order, asked, log, mem, agent, scorecards>>

\* The requests an invoice may lead to today.
Proposals(i) ==
  {Proposal(i, p[1], p[2]) : p \in {q \in Planned(i, agent.tried[i]) : q[1] # None}}

\* RecoveryAgent.work on an invoice it leaves alone.
LeaveAlone ==
  /\ todo # <<>>
  /\ \/ Head(todo) \in agent.closed
     \/ plan(Head(todo), agent.tried[Head(todo)]) = None
  /\ todo' = Tail(todo)
  /\ UNCHANGED <<truth, holdout, order, day, asked, log, mem, books, agent, sim, scorecards>>

\* RecoveryAgent.work on one it asks about, submit() and all.
Ask ==
  /\ todo # <<>>
  /\ Head(todo) \notin agent.closed
  /\ \E req \in Proposals(Head(todo)) :
       LET row == Decided(mem, books, req, Now)
       IN  /\ log' = log \o <<RequestRow(req), row>>
           /\ mem' = Count(mem, row)
           /\ agent' = Learn(agent, row)
           /\ asked' = Append(asked, row)
  /\ todo' = Tail(todo)
  /\ UNCHANGED <<truth, holdout, order, day, books, sim, scorecards>>

\* observe() on a decision that comes to nothing: no outcome, no row.
Overlook ==
  /\ todo = <<>> /\ asked # <<>>
  /\ ~Happened(Head(asked))
  /\ asked' = Tail(asked)
  /\ UNCHANGED <<truth, holdout, order, day, todo, log, mem, books, agent, sim, scorecards>>

Reported(req, amount) == [type |-> "outcome", id |-> req.id, amount |-> amount]

\* observe() and report_outcome() on one that was allowed.
Resolve ==
  /\ todo = <<>> /\ asked # <<>>
  /\ Happened(Head(asked))
  /\ LET req      == Head(asked).req
         paid     == IF Lands(req) THEN {req.invoice} ELSE {}
         credited == Credit(paid, Minus(req), "chased")
         received == IF Lands(req) THEN credited[req.invoice].amount ELSE 0
     IN  /\ books' = MarkPaid(paid)
         /\ sim' = [sim EXCEPT !.recovered = credited,
                               !.delivered[req.invoice] = IF Contacts(req) THEN @ + 1 ELSE @]
         /\ log' = Append(log, Reported(req, received))
  /\ asked' = Tail(asked)
  /\ UNCHANGED <<truth, holdout, order, day, todo, mem, agent, scorecards>>

RequestRows == {k \in DOMAIN log : log[k].type = "request"}

Scorecard ==
  [requests |-> Cardinality(RequestRows), verdicts |-> mem.verdict_counts,
   spend |-> mem.spend, recovered |-> sim.recovered]

\* The run returns its numbers.
Finish ==
  /\ day = Days
  /\ todo = <<>> /\ asked = <<>>
  /\ scorecards' = Append(scorecards, Scorecard)
  /\ day' = Days + 1
  /\ UNCHANGED <<truth, holdout, order, todo, asked, log, mem, books, agent, sim>>

\* The same command again: the old database is unlinked, the dataset loaded anew.
Rerun ==
  /\ day = Days + 1
  /\ Len(scorecards) < MaxRuns
  /\ order' \in WorkOrders
  /\ day' = 0
  /\ log' = <<>>
  /\ mem' = Unused
  /\ books' = Invoices
  /\ agent' = NewAgent
  /\ sim' = NewSim
  /\ UNCHANGED <<truth, holdout, todo, asked, scorecards>>

Next == BeginDay \/ LeaveAlone \/ Ask \/ Overlook \/ Resolve \/ Finish \/ Rerun

Spec == Init /\ [][Next]_vars

-----------------------------------------------------------------------------
(* Properties.                                                               *)

\* The shape of every variable, log rows and counters apart (see Gateway).
TypeOK ==
  /\ truth \in [Targets -> Facts]
  /\ holdout \subseteq Targets
  /\ order \in WorkOrders
  /\ day \in 0 .. Days + 1
  /\ todo \in Seq(Targets) /\ Len(todo) <= Len(order)
  /\ \A k \in DOMAIN asked : asked[k].type = "decision" /\ asked[k].req.invoice \in Targets
  /\ DOMAIN books = DOMAIN Invoices
  /\ agent \in [tried : [Targets -> 0 .. Days], closed : SUBSET Targets]
  /\ sim.delivered \in [Targets -> Nat]
  /\ Recovered \subseteq Targets
  /\ Len(scorecards) <= MaxRuns

\* "A rerun of the same batch produces the same outcomes and the scorecard is
\* reproducible" (outcomes.py:18-19).
Reproducible == \A a, b \in DOMAIN scorecards : scorecards[a] = scorecards[b]

Requests(i) == {k \in RequestRows : log[k].req.invoice = i}
Permitted(i) == {k \in DOMAIN log : Allowed(log[k]) /\ log[k].req.invoice = i}

\* The chase escalates: on one invoice every request is a step up from the one
\* before, a retry first, then one channel after the other and then a person,
\* whatever the gateway answered in between; only the handover may be asked
\* for twice (recovery.py:52, 390-392).
Height(action) ==
  CASE action = "retry_charge"      -> 0
    [] action = "escalate_to_human" -> Len(CHANNEL_LADDER) + 1
    [] OTHER -> CHOOSE k \in DOMAIN CHANNEL_LADDER : CHANNEL_LADDER[k] = action

LadderClimbs ==
  \A i \in Targets : \A j, k \in Requests(i) :
    j < k => \/ Height(log[j].req.action) < Height(log[k].req.action)
             \/ log[j].req.action = "escalate_to_human" /\ log[k].req.action = "escalate_to_human"

\* A handover that was granted ends the chase: the agent does not buy it again
\* every day after, nor anything else on that invoice (recovery.py:342-346, 394).
HandedOverIsOver ==
  \A i \in Targets : \A j \in Permitted(i), k \in Requests(i) :
    log[j].req.action = "escalate_to_human" => k < j

\* No invoice drops out of the chase otherwise: at the end of a day each one
\* that is overdue, unpaid and not granted a handover was asked about that day,
\* one whose handover was refused included (recovery.py:395).
NobodyForgotten ==
  day \in 1 .. Days /\ todo = <<>> =>
    \A k \in DOMAIN order :
      LET i == order[k] IN
      \/ i \in Recovered
      \/ \E row \in Permitted(i) : log[row].req.action = "escalate_to_human"
      \/ Now <= books[i].due
      \/ \E row \in DOMAIN log : log[row].type = "decision" /\ log[row].req.invoice = i
                                  /\ log[row].at = Now

Chases(i) == {k \in Permitted(i) : log[k].req.action \in ATTEMPT_ACTIONS}

Reaching(customer, from, to) ==
  {k \in DOMAIN log :
     /\ Allowed(log[k]) /\ Contacts(log[k].req)
     /\ log[k].req.customer = customer /\ log[k].at \in from .. to}

\* Nobody is hounded: however many invoices of one customer are chased side by
\* side, and whatever the planner comes up with day after day, MAX_CONTACTS_PER_24H
\* contacts at most reach the customer within 24 hours (noon today and noon
\* tomorrow are within them), and an invoice that goes on being asked about is
\* chased MAX_RECOVERY_ATTEMPTS times at most (gateway.py:162, recovery.py:18-24).
NobodyHounded ==
  /\ \A i \in Targets : Cardinality(Chases(i)) <= MAX_RECOVERY_ATTEMPTS
  /\ \A k \in DOMAIN log : Allowed(log[k]) /\ Contacts(log[k].req) =>
       Cardinality(Reaching(log[k].req.customer, log[k].at - CONTACT_WINDOW, log[k].at))
         <= MAX_CONTACTS_PER_24H

\* Nothing comes of what was refused: between two days the simulator has
\* delivered exactly the contacts the ledger allows, and every paisa it credits
\* to the chase has an allowed decision and, later, an outcome row behind it.
NothingWithoutPermission ==
  todo = <<>> /\ asked = <<>> =>
    \A i \in Targets :
      /\ sim.delivered[i] = Cardinality({k \in Permitted(i) : Contacts(log[k].req)})
      /\ i \in Recovered /\ sim.recovered[i].why = "chased" =>
           \E j \in Permitted(i) : \E k \in j + 1 .. Len(log) :
             /\ log[k].type = "outcome"
             /\ log[k].id = log[j].req.id
             /\ log[k].amount = sim.recovered[i].amount

\* The days that have begun; Finish is not one of them.
Elapsed == IF day <= Days THEN day ELSE Days

\* The holdout is the counterfactual: nobody asks about its invoices, and they
\* pay exactly what they would have paid with no agent in the world
\* (replay.py:199-201, 242).
HoldoutIsTheCounterfactual ==
  \A i \in holdout :
    /\ Requests(i) = {}
    /\ i \in Recovered <=> truth[i].would_pay_anyway /\ truth[i].settles_on <= Elapsed
    /\ i \in Recovered => sim.recovered[i] = [amount |-> Invoices[i].amount, why |-> "spontaneous"]

\* A card whose decline was a hard one is not charged again: "Retrying is
\* guaranteed to fail, so the planner should go straight to outreach"
\* (tests/test_recovery.py:55-59).
RetriesAreRetryable ==
  \A k \in RequestRows :
    log[k].req.action = "retry_charge" => Retryable(Payments[log[k].req.payment])
=============================================================================
