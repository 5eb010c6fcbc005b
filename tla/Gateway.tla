------------------------------ MODULE Gateway -------------------------------
(***************************************************************************)
(* engine/gateway.py: the single door.  Threads of one process submit,     *)
(* resubmit, approve, reject and report; the process dies and is started   *)
(* again, and rebuilds every counter from the ledger.                      *)
(*                                                                         *)
(* submit() is three steps under the gateway's lock: the request is        *)
(* appended, the decision is judged and appended, the counters are moved.  *)
(* approve() and reject() move the counters first and append second.       *)
(* Between two steps the process may die, an append may raise, another     *)
(* thread may report an outcome, which takes no gateway lock, and time     *)
(* passes.  log is what this process reads of the ledger: the committed    *)
(* rows and, after a commit that raised, those still in the open           *)
(* transaction.  What happens below it is the module Ledger.               *)
(***************************************************************************)
EXTENDS Bookkeeping

CONSTANTS
  Thread,       \* threads of the serving process
  NoThread,     \* the lock is free
  Ask,          \* the requests agents make
  Signable,     \* the request ids a person's answer comes for
  Instants,     \* the hours at which anything happens
  Invoices,     \* the merchant's invoices: id -> record
  MaxLog,       \* bound: rows in the ledger
  MaxOutcomes,  \* bound: outcome rows
  MaxSigned,    \* bound: approval and rejection rows
  MaxCrashes,   \* bound: process deaths
  MaxFailures,  \* bound: appends that raise and leave no row
  MaxKept       \* bound: appends that raise and leave their row behind

ASSUME ThreadAssumption == NoThread \notin Thread
ASSUME BoundsAssumption ==
  /\ MaxLog \in Nat
  /\ MaxOutcomes \in Nat
  /\ MaxSigned \in Nat
  /\ MaxCrashes \in Nat
  /\ MaxFailures \in Nat
  /\ MaxKept \in Nat
ASSUME SignableAssumption == Signable \subseteq {req.id : req \in Ask}
ASSUME InstantsAssumption == Instants \subseteq Nat
\* What pydantic lets through: a known action and an integer, of either sign.
ASSUME AskAssumption == \A req \in Ask : req.action \in ActionType /\ req.amount \in Int
\* An invoice and a payment the store has are records, with an integer amount.
ASSUME RecordsAssumption ==
  /\ \A id \in DOMAIN Invoices : Invoices[id] # None /\ Invoices[id].amount \in Int
  /\ \A id \in DOMAIN Payments : Payments[id] # None /\ Payments[id].amount \in Int

VARIABLES
  log,          \* the ledger as this process reads it, a sequence of payloads
  open,         \* how many of its last rows are not committed
  mem,          \* the Gateway object's counters
  serving,      \* the constructor has returned
  cursor,       \* rows _rebuild_from_ledger has read
  lock,         \* Gateway._lock: the holding thread
  job,          \* where each thread is, and what it has in hand
  now,          \* the clock
  crashes,
  failures,
  kept,         \* history: appends that raised and left their row
  raised        \* history: how appends have raised since the process started

ledger  == <<log, open>>
history == <<failures, kept, raised>>
vars    == <<ledger, mem, serving, cursor, lock, job, now, crashes, history>>

-----------------------------------------------------------------------------
RequestId  == {req.id : req \in Ask}
CustomerId == {req.customer : req \in Ask}
InvoiceId  == {req.invoice : req \in Ask} \ {None}
PaymentId  == {req.payment : req \in Ask} \ {None}
Key        == {req.key : req \in Ask} \ {None}

Fresh == NoCounts(CustomerId, InvoiceId, PaymentId)

Idle           == [step |-> "idle"]
Asked(req, at) == [step |-> "asked", req |-> req, at |-> at]
Judged(row)    == [step |-> "judged", row |-> row]
Signing(row)   == [step |-> "signing", row |-> row]

Init ==
  /\ log = <<>>
  /\ open = 0
  /\ mem = Fresh
  /\ serving = TRUE
  /\ cursor = 0
  /\ lock = NoThread
  /\ job = [t \in Thread |-> Idle]
  /\ now \in Instants
  /\ crashes = 0
  /\ failures = 0
  /\ kept = 0
  /\ raised = {}

\* Mutant: the lock is taken around each counter instead of the decision.
FreeAnyway == TRUE

Free == lock = NoThread

\* Taking Gateway._lock.
Acquire(t, work) ==
  /\ serving
  /\ job[t] = Idle
  /\ Free
  /\ lock' = t
  /\ job' = [job EXCEPT ![t] = work]

\* Leaving the with block, normally or by an exception.
Release(t) ==
  /\ lock' = NoThread
  /\ job' = [job EXCEPT ![t] = Idle]

\* Ledger.append() returns: its row is committed, and with it whatever the
\* transaction still held.
Logged(row) ==
  /\ log' = Append(log, row)
  /\ open' = 0

\* The rows that survive a rollback.
Settled == Len(log) - open

\* Room for a request and its decision.
MaySubmit == Len(log) + 2 <= MaxLog

\* submit(), up to the request being on record; the clock is read first.
Submit(t, req) ==
  /\ MaySubmit
  /\ Acquire(t, Asked(req, now))
  /\ Logged(RequestRow(req))
  /\ UNCHANGED <<mem, serving, cursor, now, crashes, history>>

RequestRows(id) == {i \in DOMAIN log : log[i].type = "request" /\ log[i].req.id = id}

\* Mutant: the ask is already on record, so it is not written again.
ResubmitUnrecorded(t, id) ==
  /\ RequestRows(id) # {}
  /\ Acquire(t, Asked(log[Max(RequestRows(id))].req, now))
  /\ UNCHANGED <<ledger, mem, serving, cursor, now, crashes, history>>

\* resubmit(): the newest request row with this id, submitted again.
Resubmit(t, id) ==
  /\ RequestRows(id) # {}
  /\ Submit(t, log[Max(RequestRows(id))].req)

\* submit(), judged on the counters as they are and the decision appended.
LogDecision(t) ==
  /\ job[t].step = "asked"
  /\ LET row == Decided(mem, Invoices, job[t].req, job[t].at) IN
     /\ Logged(row)
     /\ job' = [job EXCEPT ![t] = Judged(row)]
  /\ UNCHANGED <<mem, serving, cursor, lock, now, crashes, history>>

\* submit(), the counters moved and the lock released.
ApplyDecision(t) ==
  /\ job[t].step = "judged"
  /\ mem' = Count(mem, job[t].row)
  /\ Release(t)
  /\ UNCHANGED <<ledger, serving, cursor, now, crashes, history>>

\* Room for one more row a person signs.
MayBeSigned ==
  /\ Len(log) < MaxLog
  /\ Cardinality({i \in DOMAIN log : log[i].type \in {"human_approval", "human_rejection"}}) < MaxSigned

\* approve() and reject(), the counters: they move before the row is written.
\* Nothing here asks whether the request waits for a person: the HTTP surface
\* does, callers in the process may sign ahead of the submission (api.py:207-216).
Approve(t, id) ==
  /\ MayBeSigned
  /\ Acquire(t, Signing(HumanRow("human_approval", id)))
  /\ mem' = Sign(mem, id)
  /\ UNCHANGED <<ledger, serving, cursor, now, crashes, history>>

Reject(t, id) ==
  /\ MayBeSigned
  /\ Acquire(t, Signing(HumanRow("human_rejection", id)))
  /\ mem' = Decline(mem, id)
  /\ UNCHANGED <<ledger, serving, cursor, now, crashes, history>>

\* approve() and reject(), the row appended and the lock released.
LogSignature(t) ==
  /\ job[t].step = "signing"
  /\ Logged(job[t].row)
  /\ Release(t)
  /\ UNCHANGED <<mem, serving, cursor, now, crashes, history>>

\* Mutant: an exception on the way leaves the lock taken.
FailHolding(t) ==
  /\ failures < MaxFailures
  /\ job[t].step \in {"asked", "signing"}
  /\ failures' = failures + 1
  /\ raised' = raised \cup {"lost"}
  /\ job' = [job EXCEPT ![t] = Idle]
  /\ UNCHANGED <<ledger, mem, serving, cursor, lock, now, crashes, kept>>

\* An exception from Ledger.append: it leaves the with block if the thread is
\* in one, and no counter is undone.
Leave(t) == IF job[t] = Idle THEN UNCHANGED <<lock, job>> ELSE Release(t)

RolledBack ==
  /\ log' = SubSeq(log, 1, Settled)
  /\ open' = 0

\* Ledger.append raises and leaves no row: the INSERT is refused (a locked
\* database), or a full disk stops it or the commit and SQLite rolls the whole
\* transaction back, rows an earlier commit left in it included.  Where nothing
\* was open a thread that was not inside lost its own call and nothing else.
AppendFails(t) ==
  /\ serving
  /\ failures < MaxFailures
  /\ job[t].step \in {"asked", "signing"} \/ (job[t] = Idle /\ open > 0)
  /\ failures' = failures + 1
  /\ raised' = raised \cup {"lost"}
  /\ RolledBack \/ UNCHANGED ledger
  /\ Leave(t)
  /\ UNCHANGED <<mem, serving, cursor, now, crashes, kept>>

\* Room for one more outcome.
MayReport == Cardinality({i \in DOMAIN log : log[i].type = "outcome"}) < MaxOutcomes

\* What a thread may be appending: the decision or the signature it has in
\* hand, an outcome, or the request of a submission about to begin.
InHand(t) ==
  CASE job[t].step = "asked"   -> {Decided(mem, Invoices, job[t].req, job[t].at)}
    [] job[t].step = "signing" -> {job[t].row}
    [] job[t] = Idle           -> {OutcomeRow(id) : id \in IF MayReport THEN RequestId ELSE {}}
                                    \cup {RequestRow(req) : req \in IF Free /\ MaySubmit THEN Ask ELSE {}}
    [] OTHER                   -> {}

\* Ledger.append raises at its commit because another process is reading
\* ("database is locked"): the row stays in the open transaction.  This process
\* reads it like any other, its next append commits it, and only its death or
\* a rollback takes it away.  The caller sees an exception and counts nothing.
CommitRaises(t) ==
  /\ serving
  /\ kept < MaxKept
  /\ Len(log) < MaxLog
  /\ \E row \in InHand(t) : log' = Append(log, row)
  /\ open' = open + 1
  /\ kept' = kept + 1
  /\ raised' = raised \cup {"kept"}
  /\ Leave(t)
  /\ UNCHANGED <<mem, serving, cursor, now, crashes, failures>>

\* report_outcome(): one append under the ledger's lock only, for any id, as
\* often as it is called.
ReportOutcome(t, id) ==
  /\ serving
  /\ job[t] = Idle
  /\ Len(log) < MaxLog
  /\ MayReport
  /\ Logged(OutcomeRow(id))
  /\ UNCHANGED <<mem, serving, cursor, lock, job, now, crashes, history>>

\* Mutant: the old counters are still there when the log is read into them.
CrashKeepsCounters ==
  /\ crashes < MaxCrashes
  /\ crashes' = crashes + 1
  /\ serving' = FALSE
  /\ cursor' = 0
  /\ lock' = NoThread
  /\ job' = [t \in Thread |-> Idle]
  /\ raised' = {}
  /\ RolledBack
  /\ UNCHANGED <<mem, now, failures, kept>>

\* The process dies, its open transaction is gone, and it is started again: a
\* Gateway is constructed.
Crash ==
  /\ crashes < MaxCrashes
  /\ crashes' = crashes + 1
  /\ mem' = Fresh
  /\ serving' = FALSE
  /\ cursor' = 0
  /\ lock' = NoThread
  /\ job' = [t \in Thread |-> Idle]
  /\ raised' = {}
  /\ RolledBack
  /\ UNCHANGED <<now, failures, kept>>

\* _rebuild_from_ledger, one turn of its loop.
Rebuild ==
  /\ ~serving
  /\ cursor < Len(log)
  /\ mem' = RebuildRow(mem, log[cursor + 1])
  /\ cursor' = cursor + 1
  /\ UNCHANGED <<ledger, serving, lock, job, now, crashes, history>>

\* Mutant: the door opens while the log is still being read.
ServeEarly ==
  /\ ~serving
  /\ cursor > 0 \/ log = <<>>
  /\ serving' = TRUE
  /\ cursor' = 0
  /\ UNCHANGED <<ledger, mem, lock, job, now, crashes, history>>

\* _rebuild_from_ledger returns and the constructor with it.
Serve ==
  /\ ~serving
  /\ cursor = Len(log)
  /\ serving' = TRUE
  /\ cursor' = 0
  /\ UNCHANGED <<ledger, mem, lock, job, now, crashes, history>>

\* Time passes.
Tick ==
  /\ now' \in {h \in Instants : h > now}
  /\ UNCHANGED <<ledger, mem, serving, cursor, lock, job, crashes, history>>

Finish(t) == LogDecision(t) \/ ApplyDecision(t) \/ LogSignature(t)

Step(t) ==
  \/ \E req \in Ask : Submit(t, req)
  \/ \E id \in RequestId : Resubmit(t, id) \/ ReportOutcome(t, id)
  \/ \E id \in Signable : Approve(t, id) \/ Reject(t, id)
  \/ Finish(t)
  \/ AppendFails(t)
  \/ CommitRaises(t)

Next == (\E t \in Thread : Step(t)) \/ Crash \/ Rebuild \/ Serve \/ Tick

Spec == Init /\ [][Next]_vars
-----------------------------------------------------------------------------
(* Properties.                                                               *)

DecisionRows == [type : {"decision"}, req : Ask, verdict : Verdict, cost : Int, at : Instants]
HumanRows    == [type : {"human_approval", "human_rejection"}, id : RequestId]
OutcomeRows  == [type : {"outcome"}, id : RequestId]
LogRows      == [type : {"request"}, req : Ask] \cup DecisionRows \cup HumanRows \cup OutcomeRows

Counters ==
  [contacts       : [CustomerId -> Seq(Instants)],
   attempts       : [InvoiceId -> Nat],
   spent          : [InvoiceId -> Int],
   refunded       : [PaymentId -> Int],
   used_keys      : SUBSET Key,
   approved       : SUBSET RequestId,
   pending        : SUBSET RequestId,
   verdict_counts : [Verdict -> Nat],
   spend          : Int]

Jobs ==
  [step : {"idle"}] \cup [step : {"asked"}, req : Ask, at : Instants]
    \cup [step : {"judged"}, row : DecisionRows] \cup [step : {"signing"}, row : HumanRows]

\* The shape of every variable.
TypeOK ==
  /\ log \in Seq(LogRows)
  /\ open \in 0 .. Len(log) /\ (serving \/ open = 0)
  /\ mem \in Counters
  /\ serving \in BOOLEAN
  /\ cursor \in 0 .. Settled
  /\ lock \in Thread \cup {NoThread}
  /\ job \in [Thread -> Jobs]
  /\ now \in Instants
  /\ crashes \in Nat
  /\ failures \in Nat
  /\ kept \in Nat
  /\ raised \subseteq {"lost", "kept"}

AllowedRows == {i \in DOMAIN log : Allowed(log[i])}

Cost(rows)   == Total([i \in DOMAIN log |-> IF i \in rows THEN log[i].cost ELSE 0])
Amount(rows) == Total([i \in DOMAIN log |-> IF i \in rows THEN log[i].req.amount ELSE 0])

CostOn(invoice, actions) ==
  Cost({i \in AllowedRows : log[i].req.invoice = invoice /\ log[i].req.action \in actions})

Attempts(invoice) ==
  {i \in AllowedRows : log[i].req.invoice = invoice /\ log[i].req.action \in ATTEMPT_ACTIONS}

Refunds(payment) ==
  {i \in AllowedRows : log[i].req.payment = payment /\ log[i].req.action = "issue_refund"}

\* The contacts of a customer no earlier than an hour.
ContactRows(customer, from) ==
  {i \in AllowedRows :
     Contacts(log[i].req) /\ log[i].req.customer = customer /\ log[i].at >= from}

\* "If the two ever disagreed, the in-memory copy would be the liar"
\* (gateway.py:15-19): whenever the door is open every tally in memory is what
\* the log says, whichever part of it was counted live and whichever was
\* rebuilt.  Appends that raised and left nothing make no difference to them; a
\* commit that raised and left its row does, until the next restart has read
\* that row.  Approvals move ahead of their rows: every one in the log is in
\* memory whatever raised, and one in memory alone is a signature whose append
\* failed since the process started.
TalliesMatch ==
  /\ mem.used_keys = {log[i].req.key : i \in AllowedRows} \ {None}
  /\ \A customer \in CustomerId, from \in Instants :
       Cardinality({n \in DOMAIN mem.contacts[customer] : mem.contacts[customer][n] >= from})
         = Cardinality(ContactRows(customer, from))
  /\ \A invoice \in InvoiceId :
       /\ mem.attempts[invoice] = Cardinality(Attempts(invoice))
       /\ mem.spent[invoice] = CostOn(invoice, ActionType)
  /\ \A payment \in PaymentId :
       mem.refunded[payment] = Amount(Refunds(payment))
  /\ mem.spend = Cost(AllowedRows)
  /\ \A verdict \in Verdict :
       mem.verdict_counts[verdict] =
         Cardinality({i \in DOMAIN log : log[i].type = "decision" /\ log[i].verdict = verdict})

ApprovedInLog == {log[i].id : i \in {j \in DOMAIN log : log[j].type = "human_approval"}}

MemoryMatchesLog ==
  serving /\ lock = NoThread =>
    /\ "kept" \notin raised => TalliesMatch
    /\ ApprovedInLog \subseteq mem.approved
    /\ "lost" \notin raised => mem.approved = ApprovedInLog

\* The human queue holds exactly the requests whose last word, a decision or a
\* person's, is needs_human: nothing is lost from it and nothing lingers in it,
\* across resubmissions and restarts (gateway.py:122-133, 334-344).  What an
\* append that raised left in it or kept out of it, the next restart puts right.
Speaks(i, id) ==
  \/ log[i].type = "decision" /\ log[i].req.id = id
  \/ log[i].type \in {"human_approval", "human_rejection"} /\ log[i].id = id

PendingIsOpen ==
  raised = {} /\ serving /\ lock = NoThread =>
    mem.pending =
      {id \in RequestId :
         \E i \in DOMAIN log :
           /\ Speaks(i, id)
           /\ log[i].type = "decision" /\ log[i].verdict = "needs_human"
           /\ \A j \in DOMAIN log : j > i => ~Speaks(j, id)}

\* An idempotency key buys one action, whoever presents it and however often
\* the process restarts in between (gateway.py:63-70).  Here and in the limits
\* below a decision whose commit raised is excepted: its row is not counted.
OneActionPerKey ==
  kept = 0 =>
    \A i, j \in AllowedRows :
      log[i].req.key # None /\ log[i].req.key = log[j].req.key => i = j

\* No payment is refunded beyond what was paid, in however many parts.
RefundsWithinPayment ==
  kept = 0 =>
    \A payment \in PaymentId \cap DOMAIN Payments :
      Amount(Refunds(payment)) <= Payments[payment].amount

\* A refund, a write-off or a block above its ceiling is allowed only after a
\* row of the log in which a person signed for that request id.  A write-off or
\* a block that names no amount is of its invoice's or its payment's.
AboveCeiling(req) ==
  \/ /\ req.action = "issue_refund"
     /\ req.amount > REFUND_HUMAN_THRESHOLD_PAISE
  \/ /\ req.action = "write_off"
     /\ AmountOr(req, Lookup(Invoices, req.invoice)) > WRITE_OFF_HUMAN_THRESHOLD_PAISE
  \/ /\ req.action = "block_order"
     /\ AmountOr(req, Lookup(Payments, req.payment)) > BLOCK_HUMAN_THRESHOLD_PAISE

SignedAboveCeiling ==
  \A i \in AllowedRows : AboveCeiling(log[i].req) =>
    \E j \in 1 .. i - 1 : log[j] = HumanRow("human_approval", log[i].req.id)

\* Nobody is contacted more than MAX_CONTACTS_PER_24H times within any 24
\* hours, the two ends included: the window slides, it is not a calendar day.
ContactsSince(customer, from, to) ==
  {i \in AllowedRows :
     Contacts(log[i].req) /\ log[i].req.customer = customer /\ log[i].at \in from .. to}

ContactCap ==
  kept = 0 =>
    \A i \in AllowedRows : Contacts(log[i].req) =>
      Cardinality(ContactsSince(log[i].req.customer, log[i].at - CONTACT_WINDOW, log[i].at))
        <= MAX_CONTACTS_PER_24H

\* An invoice is chased MAX_RECOVERY_ATTEMPTS times and then left to a person,
\* whose signature does not buy another attempt.
AttemptCap ==
  kept = 0 =>
    \A invoice \in InvoiceId \cap DOMAIN Invoices :
      Cardinality(Attempts(invoice)) <= MAX_RECOVERY_ATTEMPTS

\* The attempts to recover an invoice cost a fifth of it at most, together.
RecoveryWithinBudget ==
  kept = 0 =>
    \A invoice \in InvoiceId \cap DOMAIN Invoices :
      CostOn(invoice, ActionType \ RISK_ACTIONS) <= Budget(Invoices[invoice])

\* The ask is on record before it is judged, and nothing but an outcome comes
\* between the two: decisions are whole, whatever else is in flight
\* (gateway.py:11-14, 60-73).
AskedFirst ==
  \A i \in DOMAIN log : log[i].type = "decision" =>
    \E j \in 1 .. i - 1 :
      /\ log[j] = RequestRow(log[i].req)
      /\ \A k \in j + 1 .. i - 1 : log[k].type = "outcome"

\* The door keeps the promise of Checkpost: whatever the threads, the restarts
\* and the people at the queue do, every decision in the log is the one a single
\* reader would make of the rows before it ("If the two ever disagreed, the
\* in-memory copy would be the liar", gateway.py:15-19).
Verdicts(m, req, at) == Decided(m, Invoices, req, at)

Promise == INSTANCE Checkpost WITH
             Requests <- Ask, Hours <- Instants,
             Nothing <- Fresh, Counted <- RebuildRow, Ruled <- Verdicts

ImplementsCheckpost == Promise!Spec

\* Whoever is inside comes out, and a process that died comes back: the door is
\* open again after every decision, failed append and crash.
DoorReopens == (lock # NoThread \/ ~serving) ~> (lock = NoThread /\ serving)
=============================================================================
