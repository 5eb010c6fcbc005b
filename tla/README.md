# Checkpost in TLA+

Checkpost is a checkpoint between AI agents and money.  An agent asks for an
action (charge a card again, send an SMS, refund a payment, block an order);
the gateway writes the ask down, judges it by sixteen rules and an economic
test, writes the verdict down and only then lets anything happen.  A person may
be asked to sign.  The ledger, a hash-chained SQLite table, is the only durable
state: every counter in memory is rebuilt from it at the start.

This directory models that machine in TLA+, checks it with TLC on small
instances and proves part of it with TLAPS for instances of every size.  Paths
below are relative to `src/`.

## 1. Inventory

| Component | State it keeps | Operations | Module |
|---|---|---|---|
| ledger (`engine/ledger.py`) | table of rows `seq, payload, prev_hash, entry_hash`; one RLock per `Ledger` | `append`, `head`, `verify`, `entries`, `tail` | `Ledger`, `AppendLog` |
| rulebook (`engine/policy.py`, vocabulary in `engine/schema.py`) | none | `r01` ... `r16`, `evaluate`, `decide` | `Rulebook` |
| economics (`engine/economics.py`) | none | `assess`, `assess_risk` | `Economics` |
| risk model (`engine/risk_model.py`) | none | `signals_for`, `score` | `RiskModel` |
| gateway (`engine/gateway.py`) | contact times, attempts, spend, refunds, used keys, approvals, the pending queue, verdict counts; one RLock | `submit`, `approve`, `reject`, `resubmit`, `report_outcome`, rebuild in the constructor, readers | `Bookkeeping`, `Gateway`, `Verdicts`; what it promises in `Checkpost` |
| HTTP API (`engine/api.py`, `main.py`) | which database it serves | handlers, `_require_pending`, `lifespan`, `pick_db` | `Http`; `/v1/ledger/verify` in `Ledger` |
| data store (`engine/store.py`) | customers, invoices, payments, settlements | lookups, lists by day and status | constants and operators; invoices' status in `Campaign` |
| recovery agent (`agents/recovery.py`) | tries per invoice, closed invoices | `plan` (rules or a language model), `work`, `run` | `Campaign` |
| risk agent (`agents/risk.py`) | payments it has seen | `work`, `run` | `RiskAgent`, `Replay` |
| reconcile agent (`agents/reconcile.py`) | which batch claimed each payment, exceptions, batches seen | `examine`, `work`, `run`, `sweep_unsettled` | `ReconcileAgent`, `Replay` |
| outcome simulator (`harness/outcomes.py`) | contacts delivered, money recovered; fraud prevented, sales lost; the analyst | `observe`, `settle_spontaneously`, `approves_block` | `Campaign`, `RiskAgent` |
| batch (`harness/batch.py`) | loop over days | `run` | `Campaign` |
| replay (`harness/replay.py`) | the same, a holdout, the fraud queue, the scorecard's counters | `run`, `assign_holdout` | `Replay` over `Campaign` |
| generator, red team, dashboard, console | none of the system's | test data, a list of requests, rendering | not modelled |

How they interact.  Agents and the harness call the gateway in process; the
dashboard and operators reach it over HTTP, where FastAPI runs every handler in
a thread of a pool.  The gateway reads the data store, calls the rulebook, the
risk model and the money check as pure functions, and appends to the ledger.  A
replay run is a second process that may have the same database file open as a
server; inside it one thread drives three agents that share the gateway, its
counters and its log.

What is hard, and what makes each component correct:

* **ledger**: two threads, or two processes with nothing but SQLite's
  constraints between them, must never produce a fork; an INSERT or a commit that
  raises leaves a transaction open, with or without its row; verification reads
  in two pieces; a reader who kept a head
  hash must be able to tell that history was changed.
* **rulebook and economics**: a rule may only make a verdict stricter; a
  signature lifts a ceiling and nothing else; what was refused is allowed only
  once every reason for the refusal is gone.
* **gateway**: a decision is made from counters in memory and recorded in the
  log; the two must agree after every interleaving, crash and rebuild.  From
  that follow the promises: one action per idempotency key, no refund beyond
  the payment, two contacts in any 24 hours, four attempts, a fifth of the
  invoice, no large action without a signature on record.
* **HTTP API**: handlers look first and act second, without a lock across the
  two; what a signature or a statistic rests on may have changed.
* **risk model**: a score for a payment may use what was known by then, although
  it is handed the whole month.
* **agents and harness**: the chase climbs a ladder, ends with a handover that was
  granted and not with one that was refused; nothing comes of what was
  denied; the holdout stays untouched; a block waits for its signature; no
  payment is matched twice and none is forgotten; the numbers add up to the
  log and are reproducible.

`PROJECT.json` lists every hazard at its line with the properties that watch it.

## 2. The modules

```
AppendLog  <== implemented by ==  Ledger --- MCLedger
                                    LedgerProofs

Checkpost  <== implemented by ====================+
                                                  |
Rulebook -> RiskModel ----+                       |
   |   \                  v                       |
   |    +-> Economics -> Bookkeeping ---------> Gateway ---- MCGateway
   |            |            |                    |  GatewayProofs -> TallyProofs
   |            |            |                    +-> Http -- MCHttp     |
   |            |            |                         HttpProofs <------+
   |            |            +-> Campaign -------- MCCampaign
   |            |            |     CampaignProofs -----+
   |            |            +-> RiskAgent       \     v
   |            |            +-> ReconcileAgent --+-> Replay - MCReplay
   |            |                                      ReplayProofs
   |            +-> Verdicts --- MCVerdicts
   |                  VerdictsProofs
   +-- RulebookProofs
```

**AppendLog** is what everybody above the ledger relies on: a sequence that
grows at its end by the rows of one commit.  **Ledger** is the table: `rows` is
what is committed, `draft` what the writing process has inserted since, and
`View(p)` what process `p` reads, its own uncommitted rows included.  `append` is
three steps under a process's lock: `ReadHead` (lock, SELECT the head), `Insert`
(link, hash, INSERT) and `Commit`.  Nothing in the code rolls a transaction back,
so what an exception leaves behind is SQLite's to say.  `Refuse` is an INSERT that
raises: after an IntegrityError, or an I/O error that undoes the statement alone,
the transaction is open and holds the write lock (`writer`), after "database is
locked" it is open without one.  `CommitBusy` is a commit that meets a reader:
the row stays in the open transaction, is read as the head, and the next commit
of the process takes it along.  `Lose` is a full disk or an I/O error after which
SQLite has rolled everything back.  A process with an open transaction keeps the
SHARED lock of its next SELECT (`reading`), which no commit of another process
gets past, and a commit that waits lets nobody start to read (`Pending`).
`/v1/ledger/verify` is `VerifyRows` and then
`ReportHead`.  A hash is the sequence of what was hashed, so that two hashes are
equal only if their contents are: SHA-256 without collisions.  `EditRow`,
`RehashRow`, `RemoveRow` and `RelinkRow` are raw SQL behind the triggers' back,
as in `tests/test_ledger.py:77-135`.

**Rulebook** is `decide()`: one operator per rule, on a request and on the context
record (`PolicyContext`).  **Economics** is the money check; `Judgement` is the
two together as `_submit_locked` combines them.  **RiskModel** is the scoring of a
payment from the table of all payments, which is a parameter, so that a property
can ask what the score would have been had the table ended earlier.
**Bookkeeping** is what the gateway keeps between requests and how a context is
made of it: `Count` (`_apply_allowed` and `_track_pending`), `Sign`, `Decline`,
`RebuildRow`, `build_context` (which scores the payment again), `Decided`.  It
has no variables: the gateway and the harness both use it.  What the code does in
a loop over rows or a list (`Total`, `Without`, `OldestFirst`, `Gross`) is a
recursive function here, so that a proof can follow it one element at a time.

**Gateway** is the door under concurrency.  `submit` is `Submit` (lock, clock,
request row), `LogDecision` (judge, decision row) and `ApplyDecision` (counters,
unlock).  `approve` and `reject` are `Approve`/`Reject` (lock, counters) and
`LogSignature` (row, unlock), in that order, as in the code.  Nothing at this
level asks whether the request waits for a person: only the HTTP surface does,
and callers in process sign ahead.  `Signable` is the set of ids a person answers
for in an instance.  `ReportOutcome` takes no gateway lock.  `log` is the ledger
as this process reads it; its last `open` rows are not committed.  `AppendFails`
is an append that raises and leaves no row: either nothing happens to the ledger
or SQLite rolls the open rows back.  `CommitRaises` is one whose commit raises: the
row is in the log, whichever row it is (`InHand`), the caller has an exception and
has counted nothing, and the next append commits it.  `raised` remembers which of
the two have happened since the process started, since a restart repairs both.
`Crash` loses everything but the committed rows; `Rebuild` and `Serve` are the
constructor, one row at a time.

**Checkpost** is the abstract gateway: a log and nothing else.  Asks, signatures
and outcomes arrive as rows; a decision is one step, judged on the counters that
the whole log before it adds up to (`Rebuilt`).  It has no threads, no memory and
no restarts.  `Gateway!ImplementsCheckpost` maps its constants to the gateway's
own `RebuildRow` and `Decided`, so what is claimed is that the door's memory,
lock, crashes and rebuilds are invisible in the log.

**Http** is the API in front of the gateway: `call` is the handler each thread is
in and what it has read.  `RequirePending` and `SignCleared` are the check and
the signature of `approve_action` and `reject_action`; `ReadCounters` and
`ReadLedger` are the two reads of `/v1/stats`.  The other handlers call straight
through (`Pass`).  A crash takes every call with it.

**Verdicts** is one request judged while the world moves around it: a signature
for it (`Sign`), the counters other requests move (`Contacted`, `Charged`,
`Refunded`, `KeyUsed`), up, or down where `amount_paise` is below zero, the clock
and the contacts that leave the window (`Waited`), and the records the next start
may load, a consent, a status or a memo changed either way (`Records`).  It is
where the rules are compared with each other instead of with the log.

**Campaign** composes recovery agent, bookkeeping, outcome simulator and the day
loop.  A day is `BeginDay`, one `Ask` or `LeaveAlone` per invoice, one `Resolve`
or `Overlook` per decision, then the next day or `Finish`; `Rerun` is the same
command again on the same ground truth.  `Harness` chooses between the batch,
which visits a set of ids in any order, and the replay, which sorts.  `Planner`
chooses between the rule planner and `GeminiPlanner`: a language model is any
action its tool offers with any amount of `Offers`, or the rule planner's answer
when the call fails.  What the simulator draws from a generator seeded on an
invoice id is part of `truth`, chosen once and kept for all runs.  There is one
thread, as in the code, so the gateway's three steps are one here.

**RiskAgent** and **ReconcileAgent** are the other two agents and the people and
simulators behind them, as operators on records.  A `fate` is what the ground
truth and the seeded draws say of a payment: whether it is fraud, whether the
analyst gets it right, whether a review catches it.  **Replay** is the whole
month: `SignBlock` and `DeclineBlock` work yesterday's fraud queue,
`BeginReplayDay` settles spontaneous money, `WorkInvoice` and `ResolveInvoice`
are the recovery pass (the actions of `Campaign`), `PassOver`, `Screen` and
`ResolvePayment` the risk pass, `CheckBatch` the reconciler, `Close` the sweep and
the end.  The code runs each pass to its end before it resolves the answers, and
so does the model.

### What is abstracted

* A payload in the ledger model is a model value.  In the gateway model the log
  is the sequence of payloads (`AppendLog`), so the hashing is not repeated.
* Time is hours (`Instants`, and noon of each day in the harness); a contact exactly
  24 hours old counts, as in the code's `>=`.
* Probabilities, weights and scores are hundredths, and the decay of repeated
  attempts is truncated at every factor, where the code truncates once; amounts
  are paise.
* Evidence and memos are reduced to whether they hold instruction-like text
  (`instructs`, `memo_instructs`) and to the risk score claimed.
* Invoice age and quiet hours use the same clock; time zones are left out.  A
  calendar day begins at hour 6 of the model (`Date`), where UTC midnight lies.
* A request's id is what it is about and, for an invoice, the turn, where the code
  draws a fresh uuid4; a signed block keeps its id, as in the code.

## 3. The runs

| Run | Instance | States | Time |
|---|---|---|---|
| `ledger` | 2 processes, 3 threads, 3 rows, 1 crash, 1 I/O error | 677,000 | 55 s |
| `ledger_tamper` | 1 process, 2 threads, 3 rows, 2 interventions, 1 I/O error | 2,036,000 | 90 s |
| `gateway_refunds` | 2 threads, 3 refunds of one payment, 8 rows, 2 signatures, 1 outcome, 1 crash | 571,000 | 40 s |
| `gateway_chasing` | 1 thread, 4 requests at 2 hours of 2 days, 7 rows, 1 signature, 1 crash, 1 failure, 1 row kept | 3,765,000 | 125 s |
| `gateway_unsigned` | `gateway_refunds` with 1 append that raises | violation | |
| `http` | 2 threads, 1 large refund, 5 rows, 2 signatures, 1 outcome, 1 crash, 1 failure, 1 row kept | 148,000 | 55 s |
| `http_race` | `http` without crash, failures and outcome | violation | |
| `verdicts` | every action type on records of every kind, at noon, by night and next morning | 289,000 | 60 s |
| `campaign` | 3 invoices, 6 days, 2 runs, rule planner | 34,000 | 5 s |
| `campaign_batch` | 3 invoices, 3 days, 2 runs, batch harness | violation | |
| `campaign_retry` | an invoice with a transient and a hard decline | violation | |
| `replay` | 3 days, 9 payments, 6 batches, 1 invoice under a language model | 43,000 | 50 s |

What they show.

* **ledger**: until somebody tampers the table is one unforked chain
  (`ChainIntact`), no append is refused because of its own process
  (`NoForkInProcess`), verification never raises a false alarm and names a head
  at least as new as the rows it counted (`ReportIsTrue`, the last as long as no
  I/O error rolls rows back), and the committed table implements `AppendLog`.  Three rows are enough for two racing writers behind a
  predecessor; the third thread is the other process.  Commits that meet a reader
  need no bound of their own, that on the rows limits them; one I/O error may fall on any
  INSERT or commit.  The view `Unnoted` leaves out a history variable that no step
  reads and only `HeadCommits`, of the other run, asks about.
* **ledger_tamper**: a head written down pins the history before it
  (`HeadCommits`), and one intervention on a row with a successor is named at the
  right entry (`BreakIsNamed`).  Two interventions suffice for an edit to be
  repaired by a second one, which is where `HeadCommits` is at its limit.
* **gateway_refunds**: the human queue agrees with the log at rest
  (`PendingIsOpen`), a key buys one action, no payment is
  refunded twice, nothing large goes without a signature, a decision follows
  its request with nothing but outcomes in between (`AskedFirst`), and every
  decision is the one a single reader of the log would have made
  (`ImplementsCheckpost`).  Eight rows hold three whole submissions and two
  signatures; the crash may fall between any two steps.
* **gateway_chasing**: whenever the door is open, every counter in memory is what
  the log says (`MemoryMatchesLog`): used keys, contacts from any hour on, attempts
  and spend per invoice, refunds, the total and the verdicts, after appends that
  raised and left nothing, and after a restart also where a commit raised and left
  its row; every approval in the log is in memory whatever raised.  A message, a
  charge and a refund under a key make each of these move.  The contact window
  slides (hours 33 and 57: one day and the next, exactly 24 hours apart, which the
  code counts as inside), the attempt limit (two in this instance, so that the
  third try fits the log) binds and no signature buys another try, and the attempts
  together cost a fifth of the invoice at most, appends that raise and leave
  nothing included.
* **http**: a signature over HTTP always names a request that was escalated
  before, whatever happened since the check (`SignedForEscalated`); an answer of
  `/v1/stats` never counts a decision that the ledger length it reports does not
  cover (`StatsBehindLedger`), also when the process dies and comes back; and
  the door opens again after every failure (`DoorReopens`, see Fairness).  Five
  rows hold a request, its escalation, a signature and a whole resubmission.
* **verdicts**: a signature changes a ruling only from `needs_human` to `allow`
  and only where one of the three ceilings was all that objected
  (`SignatureRaisesCeiling`).  Without one, a refusal turns into an allow only by
  a move that answers every objection there was (`OnlyAnswersLoosen`): time answers
  the contact limit and the quiet hours, a refund below zero what was left of the
  payment, a discount below zero the budget, a record the rule that reads it, and
  nothing else answers anything.  Each of these moves is in the instance, and so
  are the opposite ones; the limits are one contact and two attempts, and counters
  run one past them.
* **campaign**: the chase climbs (`LadderClimbs`), ends with a granted handover
  (`HandedOverIsOver`) and with nothing less (`NobodyForgotten`), earns nothing
  from refusals (`NothingWithoutPermission`), leaves the holdout to itself and
  counts for it the invoices that paid on an elapsed day
  (`HoldoutIsTheCounterfactual`; one that pays by itself on the first day beyond the
  window is in the instance), reaches the one customer behind all three invoices
  twice in 24 hours and no oftener (`NobodyHounded`), and two runs report the same
  (`Reproducible`).  Six days is the longest chase: a retry, four channels, a
  handover.
* **replay**: at the end of every day the counters of the scorecard, kept in four
  loops, are the numbers of the log, and every escalation is on a list or was
  answered (`ScorecardAddsUp`); the money of the fraud columns is that of the
  allowed decisions, each payment once (`FraudFigures`); each risk request is the
  one that would have been made had the data ended with its payment
  (`NoHindsight`); a large block is allowed a day after it was escalated and on
  a signature (`BlocksWaitANight`); no payment is matched to two batches
  (`NoPaymentMatchedTwice`), the agent asks to match what the rulebook accepts
  and hands over the rest with an exception (`ReconcilerAgrees`), and a payment
  three days old is matched, under exception, reported unsettled, or in a batch
  dated outside the run (`MoneyAccounted`).  `NothingWithoutPermission` is
  checked again under the language model.  The instance has a block above the
  ceiling that is signed or declined, one below it, one on a disputed invoice,
  a review that meets the attempt limit, and a batch for every kind of
  exception and for both sides of the tolerance.  Three days let a block wait, a
  batch list a payment of an earlier one, and the sweep fall on a payment
  exactly three days old.

### Where code and documents part

The four runs that end in a violation, each with the line they contradict in
`PROJECT.json`:

1. `_require_pending` and the signature are two steps (`engine/api.py:207-232`).
   Two operators who answer one request both pass the check, and the second
   signature is for a request that "is not actually waiting".  What does hold is
   `SignedForEscalated`.
2. `approve()` moves its counter before the row is appended
   (`engine/gateway.py:327`).  If the append raises, the approval stands in
   memory, and the refund it was for is allowed with no signature on record.
3. `harness/batch.py:69` iterates a set of strings, so the scorecard depends on
   the hash salt; `harness/outcomes.py:18-19` promises otherwise, and the
   replay repaired the same defect (`harness/replay.py:181-187`).
4. `agents/recovery.py:371` names the newest failed payment, whether or not it is
   the retryable one the planner saw, so a hard decline is retried and refused.

Met on the way, without a run:

* A decision whose commit raises (`engine/ledger.py:154`) is in the log, committed
  by the next append, and uncounted until a restart reads it: its caller has an
  exception, asks again under the same key, and is allowed a second time.  The
  promise of one action per key (`engine/gateway.py:60-70`) and the caps therefore
  hold as long as no such row is left (`kept = 0`).
* Two processes on one file can stop each other: one with a transaction that an
  INSERT left open keeps a SHARED lock, the other a commit that waits for it and
  the write lock the first one needs, until one of them dies or SQLite rolls one back.
* `flow.md:222-224` says the chain still catches whoever drops the triggers.  It
  does not when the newest row is removed, or edited and re-hashed: nothing
  follows that would no longer fit.  `BreakIsNamed` therefore speaks of rows with
  a successor.
* `flow.md:163` has total spend on one invoice under 20% of it; a flag for review
  or a block is assessed by `assess_risk`, which looks at no budget, while its
  cost is counted on the invoice.  `RecoveryWithinBudget` therefore speaks of
  recovery actions.
* `flow.md:134` lists `deny` as the verdict of `settlement_discrepancy`; the rule
  escalates a difference beyond the tolerance to a person
  (`engine/policy.py:541-583`).
* A block the analyst declines leaves the replay's queue and is never rejected at
  the gateway, so it stays in `pending()` (`harness/replay.py:230`).
  `ScorecardAddsUp` counts it as answered.
* A review is escalated when its invoice is at the attempt limit; it then lands in
  the queue for blocks, may be signed, and is escalated again by the same rule,
  which a signature does not lift.
* The ceiling of a write-off is compared with the amount a request names and with
  the invoice only if it names none (`engine/policy.py:394`), so a language model
  that fills in a small amount writes a large invoice off unsigned.

### Fairness

`http` is the only run with fairness: weak fairness of `Inside(t)`, a thread that
is inside the gateway keeps running (there is no blocking call inside but the
append, whose failure is `Raise`), and of `Start`, a started process reads its
log to the end.  Nothing is assumed of clients, of crashes or of failures.
Under it `DoorReopens` holds: the lock comes back and so does a process that
died.  The other runs need no fairness, and deadlock is not checked in any:
bounds, and finished campaigns, really do stop the system.

## 4. The proofs

| Theorem | For every |
|---|---|
| `LedgerTyped`, `LedgerChained`, `LedgerUnforkedInProcess` | number of processes, threads, rows, crashes, I/O errors and interventions |
| `LedgerHeadCommits`, `LedgerReportIsTrue`, `LedgerBreakIsNamed` | the same: any raw SQL, in any table of any length |
| `LedgerImplementsAppendLog` | the same, with `MaxTampers = 0` |
| `SignatureOnlyRaisesCeilings`, `RefusalsStand` | request, record (amounts of either sign), threshold and counter; what others refund and discount of either sign |
| `GatewayTyped`, `GatewayOneActionPerKey`, `GatewayAskedFirst` | set of requests (amounts of either sign), records, threads, crashes and appends that raise, leaving their row or not |
| `GatewayMemoryMatchesLog`, `GatewayMemoryIsRebuilt`, `GatewayPendingIsOpen`, `GatewayContactCap`, `GatewayAttemptCap` | the same |
| `GatewayRefundsWithinPayment`, `GatewayRecoveryWithinBudget` | the same, where no payment, and no invoice, is of a negative amount |
| `GatewaySignedAboveCeiling` | the same as `GatewayTyped`, with `MaxFailures = 0` |
| `GatewayImplementsCheckpost` | the same as `GatewayTyped`, with `MaxFailures = MaxKept = 0` |
| `HttpSignedForEscalated`, `HttpStatsBehindLedger`, `HttpImplementsGateway` | the same as `GatewayTyped`, and any interleaving of handlers |
| `CampaignTyped`, `CampaignHandedOverIsOver`, `CampaignNothingWithoutPermission`, `CampaignHoldoutIsTheCounterfactual`, `CampaignNobodyHounded` | book of invoices, ground truth, harness, planner (a language model included), number of days and runs |
| `CampaignLadderClimbs`, `CampaignNobodyForgotten` | the same, with `Planner = "rule"` |
| `CampaignReproducible` | the same, with `Planner = "rule"` and `Harness = "replay"` |
| `ReplayTyped` | dataset whose captured payments are of no negative amount, ground truth, planner and number of days |
| `ReplayScorecardAddsUp`, `ReplayNoHindsight`, `ReplayBlocksWaitANight` | dataset, ground truth, planner and number of days |
| `ReplayNoPaymentMatchedTwice`, `ReplayReconcilerAgrees`, `ReplayMoneyAccounted`, `ReplayFraudFigures`, `ReplayNothingWithoutPermission`, `ReplayNobodyHounded` | the same |

Where a statement itself makes an exception (`kept = 0`, `raised = {}`, `failures =
0`), the theorem does and no other.

*Ledger.*  `LedgerInv` is type, `LockHeld` (a linked or inserted thread holds its
process's lock), `DraftIsWriters` (uncommitted rows are of the process that holds
the write lock), `HeadsGenuine` (a head in hand is a row of what its process sees),
`ChainIntact` and `NoForkInProcess`, the last two about committed and uncommitted
rows alike.  The chain is not inductive alone: an INSERT extends it only if the
head in hand is the last row.  Inside a process the lock says so.  Between
processes it need not be, and then the primary key refuses the row: a head that is
not the last has a successor, and the successor's `seq` is taken.  A rollback takes
rows away, but only the writer's, and with them the locals of the thread that
raised or of the process that died (`RolledBack`): nobody is left with a head that
is gone.  The refinement proof adds `EntriesHonest`: what is about to be written is a payload.

*What a hash is worth.*  Two chains without a break that end in the same hash are the
same chain (`ChainsMeet`): the last rows are equal because their hashes are, and
with them the hashes before.  A head that somebody noted is that of a chain then,
and a table that verifies today under the same head is that one
(`LedgerHeadCommits`).  `LedgerBreakIsNamed` is about the other side, a table that does
not verify: before the first intervention every row is as the ledger wrote it
(`RowsHonest`), so the first break after it, which is the one `verify` names, can be
said for each kind of intervention (`Named`), and commits behind it leave it where
it is.  `LedgerReportIsTrue` is about a report in two reads: what a process sees
only grows (`ViewGrows`) unless an I/O error rolls back rows it has read, so the
head read second is at least as new as what the first read counted.

*Gateway.*  The promises are about the log and the verdict comes from the
counters, so the invariant says what the counters know.  `KeyInv`: `Exclusion`
(a busy thread holds the lock in a serving process) and `KeysKnown` (the key of an
allowed row is used, or the thread that holds the lock is about to mark it, or
the rebuild has not reached it; both while no decision was kept by a commit that
raised, since such a row is one nobody counts).  `SignatureInv`: `SignaturesKnown`, which
runs the other way (an approval in memory has its row, or the holder of the lock
is about to write it), and fails exactly when an append raises and leaves no row,
or a rollback takes it away, hence `MaxFailures = 0`; the run `gateway_unsigned` is the counterexample without
it.  `OrderInv`: `JustAsked` (a thread about to judge has its request in the
log with only outcomes behind it).

*Checkpost.*  The abstract gateway judges on `Rebuilt(log)`, a recursive function
of the log, and without induction over data nothing says that such a function
exists.  The steps of the gateway show it instead: `RebuildKnown` is that some `f`
satisfies the equation for the log as it is, that the counters are its last value,
or one row behind (a decision written and not counted) or ahead (a signature
counted and not written), and, during a rebuild, its value at the cursor.  Every
append extends the `f` of the log before it (`RebuildGrows`), and two such
functions are the same (`RebuildUnique`, by the least place where they differ).
With it `LogDecision` is the abstract `Decide`, and `JustAsked` gives its guard.
`GatewayPendingIsOpen` reads the queue off the same value: what is waiting is what was
escalated and not spoken of since.  Where an append has raised, `RebuildKnown` is
lost until the process is started again: `RebuildInv` asks for it only while
`raised` is empty, and a crash empties it, because an empty memory in front of the
rows that survived is where every rebuild begins (`RebuildBegins`).

*Tallies and caps (TallyProofs).*  `RebuildKnown` fails when an append leaves no row,
but only for the signatures and the queue: a verdict's tallies are counted after its
row and never without it.  A kept row is different, it moves no tally until a
restart, and the caps except it.  `TalliesKnown` therefore says of the tallies alone what
`RebuildKnown` says of all, and that every decision in the log was judged on the
tallies of the rows before it (`JudgedOn`).  The rest is about the log: what the
tallies of its first `n` rows are, as cardinalities and sums over those rows, row by
row, and from there what an allow at row `n` adds to them.  A sum's recursive
function exists for the reason above.  `GatewayMemoryMatchesLog` reads every counter
off the same tallies, the contacts from any hour on included, and takes the
approvals from `ApprovalsKnown`: an approval row is known in memory, or its row is
still before the cursor of the rebuild, and `approve` adds the id before it writes,
so that no exception can lose one.  The caps need no assumption on `MaxFailures`.  The
two that add money up need records that are not negative, since no refund at all
already exceeds a payment of minus one rupee; requests may be negative: such a refund
makes room for others (`engine/schema.py:327` admits it), but the total stays within
the payment.

*Http.*  `HttpInv`: what is in the queue, what a handler has found in it and what a
thread is about to sign has an escalation on record.  Committed rows stay
(`RowsLast`, `EscalationsKept`), and a decision is committed before it is counted
or queued, so the evidence outlives the check even where a rollback takes later rows
away.  `StatsInv`: the counters are behind the committed decisions
(`CountersBehind`), so those that a handler of `/v1/stats` holds count no decision
that is missing when the length is read.  Neither needs an assumption on failures.  Every step of the API
is one of the gateway or none (`HttpImplementsGateway`), so what is proved of `Spec`
holds behind HTTP.

*Verdicts.*  `ContextOK` keeps the context's fields; `DecideSplits` and
`AllowMeansNobodyObjects` (`RulebookProofs`) say what a ruling tells of the
single rules, and are used for the gateway and the reconciler too.  A signature does
not reach the thirteen rules that never read it.  `RefusalsStand` follows each
objection through one move of the world.  `Moved` says what a step that is no
signature leaves as it is (`WorldStep`): tallies that count only grow, while time
has not moved contacts do not fall, and amounts, due dates and payments stay.
`Stays` is that an objection still stands after the move or is among those the
move answers; it is shown rule by rule (`RulesObject`) and for the money check
(`MoneyHolds`).  The money check needs arithmetic: an invoice that has been tried
once more, or is older, is worth less (`AgesFall`; `DecayedShrinks`, by the least
number of attempts where it would not be; then `WorthLess` and `WorthLessLater`),
so neither a wait nor a count lets a bargain clear the margin that did not, and only
a spend that falls can bring the budget back.  Worth less fails where the prospect is
negative, which rises towards zero: an attempt that costs something does not clear
the margin on it anyway, and a discount of a negative amount clears it from the
first where r11 lets it pass (`MarginHolds`).  A ruling that had objections is an allow
only if none is left (`AnswerHolds`), so every one of them was answered.

*Campaign.*  A day is two passes over the book, and `Timetable` says where each
invoice stands between them: waiting in `todo`, or asked about and waiting in `asked`
with its decision, or done for the day, never two of these and never twice; who has
paid is in neither.  `Schedule` adds `RowsKnown`: what the log holds is about
invoices that are chased, never about the holdout.  `Untouched` (an invoice of the
holdout is recovered on the day it pays by itself, and as such) and `LastWord` (no
request about an invoice follows a granted handover, because that closes it) need no
more.  `Permission` runs from the money to the log: what was delivered and what
was recovered by a chase is backed by an allowed row, or by the answer on its way.
Under the rule planner a request's number determines its action (`Climb`), so
`OnRung` and `InTurn` turn the order of rows into the order of numbers and the ladder
is arithmetic.  For `NobodyForgotten`, `EveryoneMinded` says of each invoice of the
day's order that it has paid, is handed over, is not due, was asked about today or is
still in `todo`, and `ClosedForCause` that the agent closes nothing else.

*Two runs.*  `Reproducible` compares two scorecards that may lie a whole run apart,
and no state of the second run remembers the first.  What does not change is the
ground truth and the order, so the proof names what a run must come to: `After` is the
moment that follows a moment (the day, the lists, the log, the counters, the books,
the agent, the simulator), as a function, since the rule planner makes one proposal
and the replay keeps the dataset's order.  A run is a `Path` of it from `Opening`, a
moment that is `Reached` stands at the end of one, two paths from one start agree as
far as both go, and none goes on behind a moment that `Ends`: two runs that end, end
alike.  `Retold` is the invariant: the moment of the run under way is reached, and
every scorecard `Reports` an end.  A language model proposes what it likes, and the
batch iterates a set (3 in section 3), so neither is promised the same twice.

*Nobody hounded.*  The agent never reads a counter, so the caps rest on the gateway's,
and `InLimits` says what these know: `attempts` holds, for each invoice, the number
of allowed attempts in the log, and the hours in `contacts`, from any hour on, are as
many as the allowed contacts since then.  What an allow was
judged on were the contacts since 24 hours before it, fewer than the cap; a window of
24 hours that holds the new row, wherever it ends, holds no older ones (`WindowIn`,
`SinceIn`).  Nothing is used of the planner or the order.  In the replay the risk
agent and the reconciler leave these counters and rows as they are (`Unmoved`), a
signature does too, and so the same holds of the three together.

*Replay.*  Three agents write into one log, so each property first needs to know whose
row a row is.  `Month` is `Timetable` and the same for the risk pass (`Queues`).
`RiskRows`: a row about risk is the opinion on a payment that was screened, and an
opinion is a function of the payments up to its own (`CapturedIs`, about
`OldestFirst`), which is `ReplayNoHindsight`.  `Reconciled`: a batch once seen has
exactly one pair of rows, what the agent claims is what those rows say (`AsMatched`,
`AsHanded`), and the agent's test is the rulebook's; a payment in two matched batches
would have been claimed by both.  `SweepDone`: after the sweep that closes the month
every payment three days old that no batch lists is reported unsettled.  `Nights`: a signature is for a payment
that was screened, the fraud queue holds what was escalated at noon today
(`QueueOfToday`), so a large block that is allowed was signed for a day after it was
escalated (`LargeWaited`).  `Counted`: the scorecard's counters, plus what still
waits in `asked`, `judged` and `blocks`, are the cardinalities of their rows after every
step, and at the end of a day nothing waits.  `Booked`, `Saved`, `Lost` and `Columns`
say the same of the money: a sum over a set of payments does not depend on the order
it is taken in (`TotalIs`), grows by the amount of the payment that joins (`Grows`),
and each payment joins once, because it is judged once (`Once`) and its answer is
kept (`AnswersKept`).  `Permission` holds among three agents as it does for one: what
the other two write is never a contact that was allowed (`Silent`).

Assumptions are the ASSUMEs of the modules: thresholds and bounds are naturals, hours
are (`InstantsAssumption`), requests and records have integer amounts
(`AskAssumption`, `RecordsAssumption`, `BankAssumption`), nothing is called `None`
(`PlannerAssumption`, `ListsAssumption`), the book lists invoices that exist, each once and
each owed, and
the dataset lists its own payments and batches (`BookAssumption`,
`ListsAssumption`), and money that comes by itself comes on a day
(`FactsAssumption`); a payment's id and an action are not `None` as a pair
(`ListsAssumption`), and a single request of `Verdicts` comes with a context of the
types pydantic gives it (`CasesAssumption`, `NoRecordAssumption`, `MovesAssumption`).  TLC evaluates
each of them in a run.  Hashes are free of collisions by construction.

Only model-checked is `DoorReopens`: liveness under fairness and ENABLED are beyond
the prover.

Induction over data is out of the prover's reach, so nothing is proved of a recursive
definition for every input.  Where a proof needs one (`Rebuilt`, `Total`, `Without`,
`Decayed`), either the steps of the system build the function that satisfies its
equation, or the least place where something fails to hold leads to a contradiction
(`UpTo`, `Stepwise` and `Recursion`, in `RulebookProofs`).

## 5. Not modelled

* How a language model comes to its proposal (prompt, temperature, parsing, the
  probe): it is any proposal the tool's schema admits.  `recovery.py:272` accepts any
  `ActionType` the call returns, and it is the API that keeps an answer to the
  enum; a call that left it and, say, proposed a block would be judged like any
  other request, which `Gateway` and `Verdicts` cover for every action type, but
  `Replay` tells the agents' rows apart by their action and would count it as the
  risk agent's.
* SQLite's files and pages: what is modelled is which locks a connection holds, which
  rows it reads and which survive.  Write-ahead logging is not (`ledger.py` never
  turns it on).
* In `Verdicts`: the amount and the due date of an invoice, the payment, the settlement
  and their scores stay as they are while a request is judged again.  Contacts, attempts
  and keys only grow, apart from the contacts that leave the window.
* Choosing a database at start-up (`pick_db`), the read-only pages (`/v1/rules`,
  `/v1/scorecard`, ledger listings) and the readers that change and add up nothing
  (`denial_breakdown`, summaries, `missed`).
* The bootstrap and the uplift arithmetic of the replay (`bootstrap_uplift`, the
  group totals): arithmetic on the recovered sums, which are modelled; and an
  overridden block threshold.
* The identity and amount of outcome rows that are reported twice: no counter
  reads them.
* Requests that share an id but not their content, in the instances, and negative
  amounts (`engine/schema.py:327`) in those of the gateway.  The proofs cover both,
  and `verdicts` has negative refunds and discounts.
* The generator, the red team's list of requests, the dashboard and the console:
  test data, a test suite, or rendering.

## 6. Plan

Done: the ledger, the gateway, the HTTP surface, the single request of `Verdicts`,
the chase and the whole month, each checked and each proved about; `AppendLog`
and `Checkpost` as what the ledger and the gateway promise, with the refinements
proved.

Left:

1. `Gateway` over `Ledger` instead of `AppendLog`: two processes that each believe
   their counters, on one file.
2. Larger instances of `replay`: two invoices under the language model.
