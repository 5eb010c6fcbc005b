--------------------------- MODULE GatewayProofs ----------------------------
(***************************************************************************)
(* The gateway's promises, for every merchant, every set of requests, any  *)
(* number of threads and any length of the log.                            *)
(*                                                                         *)
(* The properties are about the log, but a verdict is made from the        *)
(* counters, so the invariant says what the counters know of the log: a    *)
(* key some allowed row consumed is in used_keys, or the thread that holds *)
(* the lock is about to put it there, or the rebuild has not reached the   *)
(* row yet.  Approvals run the other way: what is in memory has a row, or  *)
(* the thread that holds the lock is about to write it.                    *)
(*                                                                         *)
(* A commit that raises leaves a row nobody counts, and a rollback may     *)
(* take it away again.  What rests on the counters is therefore proved as  *)
(* long as none has, or none since the process started; what rests on the  *)
(* order of the rows is proved whatever raises, because a rollback takes   *)
(* rows off the end only and none that was committed.                      *)
(***************************************************************************)
EXTENDS Gateway, RulebookProofs, SequenceTheorems

USE DEF ledger, history, Logged

Exclusion == \A t \in Thread : job[t].step # "idle" => lock = t /\ serving

KeyKnown(i) ==
  \/ log[i].req.key \in mem.used_keys
  \/ ~serving /\ i > cursor
  \/ \E t \in Thread : job[t].step = "judged" /\ job[t].row = log[i]

KeysKnown == \A i \in AllowedRows : log[i].req.key # None => KeyKnown(i)

Once ==
  \A i, j \in AllowedRows :
    log[i].req.key # None /\ log[i].req.key = log[j].req.key => i = j

\* What is open is what a commit of this process left.
RaisedKnown ==
  /\ open > 0 => "kept" \in raised
  /\ "kept" \in raised => kept > 0
  /\ kept <= MaxKept
  /\ MaxFailures = 0 => "lost" \notin raised

Approval(id) == HumanRow("human_approval", id)

SignatureKnown(id) ==
  \/ \E i \in DOMAIN log : log[i] = Approval(id)
  \/ \E t \in Thread : job[t].step = "signing" /\ job[t].row = Approval(id)

SignaturesKnown == \A id \in mem.approved : SignatureKnown(id)

OnlyOutcomesAfter(j) == \A k \in j + 1 .. Len(log) : log[k].type = "outcome"

JustAsked ==
  \A t \in Thread : job[t].step = "asked" =>
    \E j \in 1 .. Settled : log[j] = RequestRow(job[t].req) /\ OnlyOutcomesAfter(j)

-----------------------------------------------------------------------------
(* What the operators on the counters return.                                *)

LEMMA CostIsInt ==
  ASSUME NEW req \in Ask
  PROVE  CostOf(req) \in Int
BY AskAssumption DEF CostOf, ACTION_COST_PAISE

LEMMA AddAtTyped ==
  ASSUME NEW S, NEW x
  PROVE  /\ \A f \in [S -> Nat], n \in Nat : AddAt(f, x, n) \in [S -> Nat]
         /\ \A f \in [S -> Int], n \in Int : AddAt(f, x, n) \in [S -> Int]
BY DEF AddAt

\* _apply_allowed keeps the counters' types, consumes the row's key and
\* touches no signature.
LEMMA ApplyAllowedTyped ==
  ASSUME NEW m \in Counters, NEW row \in DecisionRows
  PROVE  /\ ApplyAllowed(m, row) \in Counters
         /\ ApplyAllowed(m, row).used_keys = m.used_keys \cup ({row.req.key} \ {None})
         /\ ApplyAllowed(m, row).approved = m.approved
         /\ ApplyAllowed(m, row).pending = m.pending
<1>1. /\ row.req \in Ask /\ row.cost \in Int /\ row.at \in Instants
      /\ row.req.amount \in Int /\ row.req.customer \in CustomerId
      /\ {row.req.key} \ {None} \subseteq Key
  BY AskAssumption DEF DecisionRows, CustomerId, Key
<1> DEFINE
      contacts == Contacted(m.contacts, row)
      attempts == IF row.req.action \in ATTEMPT_ACTIONS
                    THEN AddAt(m.attempts, row.req.invoice, 1) ELSE m.attempts
      spent    == AddAt(m.spent, row.req.invoice, row.cost)
      refunded == IF row.req.action = "issue_refund"
                    THEN AddAt(m.refunded, row.req.payment, row.req.amount) ELSE m.refunded
      keys     == m.used_keys \cup ({row.req.key} \ {None})
<1>2. /\ m.contacts \in [CustomerId -> Seq(Instants)]
      /\ m.attempts \in [InvoiceId -> Nat]
      /\ m.spent \in [InvoiceId -> Int]
      /\ m.refunded \in [PaymentId -> Int]
      /\ m.used_keys \in SUBSET Key
  BY DEF Counters
<1>3. contacts \in [CustomerId -> Seq(Instants)]
  BY <1>1, <1>2 DEF Contacted
<1>4. /\ attempts \in [InvoiceId -> Nat]
      /\ spent \in [InvoiceId -> Int]
      /\ refunded \in [PaymentId -> Int]
  BY <1>1, <1>2, AddAtTyped
<1>5. keys \in SUBSET Key
  BY <1>1, <1>2
<1>6. ApplyAllowed(m, row) =
        [m EXCEPT !.contacts = contacts, !.attempts = attempts, !.spent = spent,
                  !.refunded = refunded, !.used_keys = keys]
  BY DEF ApplyAllowed
<1> HIDE DEF contacts, attempts, spent, refunded, keys
<1>7. /\ ApplyAllowed(m, row) \in Counters
      /\ ApplyAllowed(m, row).used_keys = keys
      /\ ApplyAllowed(m, row).approved = m.approved
      /\ ApplyAllowed(m, row).pending = m.pending
  BY <1>3, <1>4, <1>5, <1>6 DEF Counters
<1> QED
  BY <1>7 DEF keys

\* A decision row, counted live or in the rebuild.
LEMMA CountTyped ==
  ASSUME NEW m \in Counters, NEW row \in DecisionRows
  PROVE  /\ Count(m, row) \in Counters
         /\ Count(m, row).approved = m.approved
         /\ Count(m, row).pending = TrackPending(m, row).pending
         /\ m.used_keys \subseteq Count(m, row).used_keys
         /\ row.verdict = "allow" /\ row.req.key # None
              => row.req.key \in Count(m, row).used_keys
<1>1. row.req.id \in RequestId /\ row.verdict \in Verdict /\ row.cost \in Int
  BY DEF DecisionRows, RequestId
<1> DEFINE tracked == TrackPending(m, row)
           counted == [tracked EXCEPT !.verdict_counts[row.verdict] = @ + 1]
           paid    == [counted EXCEPT !.spend = @ + row.cost]
<1>2. tracked \in Counters /\ tracked.approved = m.approved /\ tracked.used_keys = m.used_keys
  BY <1>1 DEF TrackPending, Counters
<1>3. /\ counted \in Counters /\ counted.approved = m.approved /\ counted.used_keys = m.used_keys
      /\ counted.pending = tracked.pending
  <2> HIDE DEF tracked
  <2>1. [tracked.verdict_counts EXCEPT ![row.verdict] = @ + 1] \in [Verdict -> Nat]
    BY <1>1, <1>2 DEF Counters
  <2> QED
    BY <1>2, <2>1 DEF Counters
<1>4. /\ paid \in Counters /\ paid.approved = m.approved /\ paid.used_keys = m.used_keys
      /\ paid.pending = tracked.pending
  <2> HIDE DEF counted
  <2>1. counted.spend + row.cost \in Int
    BY <1>1, <1>3 DEF Counters
  <2>2. paid = [counted EXCEPT !.spend = counted.spend + row.cost]
    OBVIOUS
  <2> HIDE DEF paid
  <2> QED
    BY <1>3, <2>1, <2>2 DEF Counters
<1>5. Count(m, row) = IF row.verdict # "allow" THEN counted ELSE ApplyAllowed(paid, row)
  BY DEF Count
<1> HIDE DEF counted, paid
<1>6. CASE row.verdict # "allow"
  BY <1>3, <1>5, <1>6
<1>7. CASE row.verdict = "allow"
  BY <1>4, <1>5, <1>7, ApplyAllowedTyped
<1> QED
  BY <1>6, <1>7

LEMMA SignableKnown == Signable \subseteq RequestId
BY SignableAssumption DEF RequestId

LEMMA SignTyped ==
  ASSUME NEW m \in Counters, NEW id \in RequestId
  PROVE  /\ Sign(m, id) \in Counters
         /\ Sign(m, id).approved = m.approved \cup {id}
         /\ Sign(m, id).used_keys = m.used_keys
BY DEF Sign, Counters

LEMMA DeclineTyped ==
  ASSUME NEW m \in Counters, NEW id \in RequestId
  PROVE  /\ Decline(m, id) \in Counters
         /\ Decline(m, id).approved = m.approved
         /\ Decline(m, id).used_keys = m.used_keys
BY DEF Decline, Counters

LEMMA FreshTyped == Fresh \in Counters /\ Fresh.approved = {} /\ Fresh.used_keys = {}
BY DEF Fresh, NoCounts, Counters

LEMMA RebuildRowTyped ==
  ASSUME NEW m \in Counters, NEW row \in LogRows
  PROVE  /\ RebuildRow(m, row) \in Counters
         /\ m.used_keys \subseteq RebuildRow(m, row).used_keys
         /\ Allowed(row) /\ row.req.key # None => row.req.key \in RebuildRow(m, row).used_keys
         /\ \A id \in RebuildRow(m, row).approved : id \in m.approved \/ row = Approval(id)
         /\ m.approved \subseteq RebuildRow(m, row).approved
         /\ row.type = "human_approval" => row.id \in RebuildRow(m, row).approved
<1>1. CASE row.type = "decision"
  <2>1. row \in DecisionRows
    BY <1>1 DEF LogRows, HumanRows, OutcomeRows
  <2>2. RebuildRow(m, row) = Count(m, row)
    BY <1>1 DEF RebuildRow
  <2> QED
    BY <1>1, <2>1, <2>2, CountTyped DEF Allowed
<1>2. CASE row.type = "human_approval"
  <2>1. row \in HumanRows
    BY <1>2 DEF LogRows, DecisionRows, OutcomeRows
  <2>2. row = Approval(row.id) /\ row.id \in RequestId
    BY <1>2, <2>1 DEF HumanRows, Approval, HumanRow
  <2>3. RebuildRow(m, row) = Sign(m, row.id)
    BY <1>2 DEF RebuildRow
  <2> QED
    BY <1>2, <2>2, <2>3, SignTyped DEF Allowed
<1>3. CASE row.type = "human_rejection"
  <2>1. row.id \in RequestId
    BY <1>3 DEF LogRows, DecisionRows, OutcomeRows, HumanRows
  <2>2. RebuildRow(m, row) = Decline(m, row.id)
    BY <1>3 DEF RebuildRow
  <2> QED
    BY <1>3, <2>1, <2>2, DeclineTyped DEF Allowed
<1>4. CASE row.type \notin {"decision", "human_approval", "human_rejection"}
  <2>1. RebuildRow(m, row) = m
    BY <1>4 DEF RebuildRow
  <2> QED
    BY <1>4, <2>1 DEF Allowed
<1> QED
  BY <1>1, <1>2, <1>3, <1>4
-----------------------------------------------------------------------------
(* The newest request row exists, from the well-foundedness of <.            *)

LEMMA Greatest ==
  ASSUME NEW n \in Nat, NEW S \in SUBSET (1 .. n), S # {}
  PROVE  Max(S) \in S /\ \A j \in S : Max(S) >= j
<1> DEFINE gaps == {n - i : i \in S}
<1>1. gaps \in SUBSET Nat /\ gaps # {}
  <2>1. \A i \in S : i \in 1 .. n /\ n - i \in Nat
    BY SMT
  <2>2. PICK i \in S : TRUE
    OBVIOUS
  <2> QED
    BY <2>1, <2>2
<1>2. PICK gap \in gaps : \A other \in gaps : ~ (<<other, gap>> \in Below)
  BY <1>1, WFMin, BelowWellFounded, Zenon
<1>3. PICK i \in S : gap = n - i
  BY <1>2
<1>4. \A j \in S : n - j \in gaps
  OBVIOUS
<1> HIDE DEF gaps
<1>5. ASSUME NEW j \in S
      PROVE  i >= j
  <2>1. i \in Nat /\ j \in Nat /\ n - i \in Nat /\ n - j \in gaps /\ n - j \in Nat
    BY <1>1, <1>3, <1>4
  <2>2. ~ (n - j < n - i)
    BY <1>2, <1>3, <2>1 DEF Below
  <2> QED
    BY <2>1, <2>2
<1> QED
  BY <1>3, <1>5 DEF Max

-----------------------------------------------------------------------------
(* Types.                                                                    *)

LEMMA DecidedTyped ==
  ASSUME NEW m, NEW req \in Ask, NEW at \in Instants
  PROVE  Decided(m, Invoices, req, at) \in DecisionRows
<1> DEFINE verdict == Judgement(req, build_context(m, Invoices, req, at))
           cost    == IF verdict = "allow" THEN CostOf(req) ELSE 0
<1>1. verdict \in Verdict
  BY VerdictTyped
<1>2. cost \in Int
  BY CostIsInt
<1>3. Decided(m, Invoices, req, at) = DecisionRow(req, verdict, cost, at)
  BY DEF Decided
<1> HIDE DEF verdict, cost
<1> QED
  BY <1>1, <1>2, <1>3 DEF DecisionRow, DecisionRows

LEMMA JobsTyped ==
  /\ Idle \in Jobs
  /\ \A req \in Ask, at \in Instants : Asked(req, at) \in Jobs
  /\ \A row \in DecisionRows : Judged(row) \in Jobs
  /\ \A row \in HumanRows : Signing(row) \in Jobs
BY DEF Jobs, Idle, Asked, Judged, Signing

LEMMA JobFields ==
  ASSUME NEW work \in Jobs
  PROVE  /\ work.step = "idle" <=> work = Idle
         /\ work.step = "asked" => work.req \in Ask /\ work.at \in Instants
         /\ work.step = "judged" => work.row \in DecisionRows
         /\ work.step = "signing" => work.row \in HumanRows
         /\ work.step \in {"idle", "asked", "judged", "signing"}
BY DEF Jobs, Idle

LEMMA RowsTyped ==
  /\ \A req \in Ask : RequestRow(req) \in LogRows
  /\ \A id \in RequestId :
       /\ OutcomeRow(id) \in LogRows
       /\ HumanRow("human_approval", id) \in HumanRows
       /\ HumanRow("human_rejection", id) \in HumanRows
  /\ HumanRows \subseteq LogRows
  /\ DecisionRows \subseteq LogRows
BY DEF LogRows, HumanRows, DecisionRows, OutcomeRows, RequestRow, OutcomeRow, HumanRow

\* What Resubmit reads back is a request somebody made.
LEMMA NewestIsAsk ==
  ASSUME TypeOK, NEW id \in RequestId, RequestRows(id) # {}
  PROVE  log[Max(RequestRows(id))].req \in Ask
<1>1. Len(log) \in Nat /\ RequestRows(id) \in SUBSET (1 .. Len(log))
  BY DEF TypeOK, RequestRows
<1>2. Max(RequestRows(id)) \in RequestRows(id)
  BY <1>1, Greatest
<1> QED
  BY <1>2 DEF TypeOK, RequestRows, LogRows, DecisionRows, HumanRows, OutcomeRows

\* An append keeps every row and adds one.
LEMMA Appended ==
  ASSUME TypeOK, NEW row \in LogRows, log' = Append(log, row)
  PROVE  /\ log' \in Seq(LogRows)
         /\ Len(log) \in Nat /\ Len(log') = Len(log) + 1
         /\ DOMAIN log = 1 .. Len(log) /\ DOMAIN log' = 1 .. Len(log) + 1
         /\ \A i \in DOMAIN log : log'[i] = log[i]
         /\ log'[Len(log) + 1] = row
BY AppendProperties, LenProperties DEF TypeOK

\* A rollback keeps the committed rows; where nothing is open that is all of them.
LEMMA Truncated ==
  ASSUME TypeOK, RolledBack
  PROVE  /\ log' \in Seq(LogRows)
         /\ Len(log) \in Nat /\ Settled \in 0 .. Len(log)
         /\ Len(log') = Settled /\ Settled' = Settled /\ open' = 0
         /\ DOMAIN log = 1 .. Len(log) /\ DOMAIN log' = 1 .. Settled
         /\ \A i \in 1 .. Settled : i \in DOMAIN log /\ log'[i] = log[i]
         /\ open = 0 => log' = log
<1>1. /\ log \in Seq(LogRows) /\ Len(log) \in Nat /\ DOMAIN log = 1 .. Len(log)
      /\ open \in 0 .. Len(log)
  BY LenProperties DEF TypeOK
<1>2. Settled \in 0 .. Len(log)
  BY <1>1 DEF Settled
<1>3. log' = SubSeq(log, 1, Settled) /\ open' = 0
  BY DEF RolledBack
<1>4. /\ log' \in Seq(LogRows) /\ Len(log') = Settled
      /\ \A i \in 1 .. Settled : i \in DOMAIN log /\ log'[i] = log[i]
  BY <1>1, <1>2, <1>3
<1>5. DOMAIN log' = 1 .. Settled
  BY <1>4, LenProperties
<1>6. Settled' = Settled
  <2>1. Settled' = Len(log') - open'
    BY DEF Settled
  <2> QED
    BY <1>1, <1>2, <1>3, <1>4, <2>1
<1>7. ASSUME open = 0
      PROVE  log' = log
  BY <1>1, <1>3, <1>4, <1>7 DEF Settled
<1> QED
  BY <1>1, <1>2, <1>3, <1>4, <1>5, <1>6, <1>7

\* What a thread may be appending is a row of the log.
LEMMA InHandTyped ==
  ASSUME TypeOK, NEW t \in Thread, NEW row \in InHand(t)
  PROVE  /\ row \in LogRows
         /\ job[t].step = "asked"
              => row = Decided(mem, Invoices, job[t].req, job[t].at) /\ row \in DecisionRows
                 /\ row.req = job[t].req /\ job[t].req \in Ask
         /\ job[t].step = "signing" => row = job[t].row /\ row \in HumanRows
         /\ job[t].step = "idle"
              => row.type = "outcome" \/ (row.type = "request" /\ Free)
         /\ job[t].step \in {"asked", "signing", "idle"}
<1>1. job[t] \in Jobs
  BY DEF TypeOK
<1>2. CASE job[t].step = "asked"
  <2>1. job[t].req \in Ask /\ job[t].at \in Instants /\ job[t] # Idle
    BY <1>1, <1>2, JobFields DEF Idle
  <2>2. row = Decided(mem, Invoices, job[t].req, job[t].at)
    <3>1. InHand(t) = {Decided(mem, Invoices, job[t].req, job[t].at)}
      BY <1>2, <2>1 DEF InHand
    <3> QED
      BY <3>1
  <2>3. row \in DecisionRows /\ row.req = job[t].req
    BY <2>1, <2>2, DecidedTyped DEF Decided, DecisionRow
  <2> QED
    BY <1>2, <2>1, <2>2, <2>3, RowsTyped
<1>3. CASE job[t].step = "signing"
  <2>1. row = job[t].row
    <3>1. InHand(t) = {job[t].row}
      BY <1>3 DEF InHand, Idle
    <3> QED
      BY <3>1
  <2> QED
    BY <1>1, <1>3, <2>1, JobFields, RowsTyped
<1>4. CASE job[t].step = "idle"
  <2>1. job[t] = Idle
    BY <1>1, <1>4, JobFields
  <2>2. row \in {OutcomeRow(id) : id \in RequestId} \cup {RequestRow(req) : req \in IF Free THEN Ask ELSE {}}
    BY <1>4, <2>1 DEF InHand
  <2> QED
    BY <1>4, <2>2, RowsTyped DEF OutcomeRow, RequestRow
<1>5. CASE job[t].step = "judged"
  BY <1>1, <1>5 DEF InHand, Idle
<1> QED
  BY <1>1, <1>2, <1>3, <1>4, <1>5, JobFields

\* Leaving by an exception: a thread that was inside is outside, and nobody
\* else moves.
LEMMA LeaveTyped ==
  ASSUME TypeOK, NEW t \in Thread, Leave(t)
  PROVE  /\ lock' \in Thread \cup {NoThread} /\ job' \in [Thread -> Jobs]
         /\ job'[t] = Idle /\ \A u \in Thread \ {t} : job'[u] = job[u]
         /\ job[t].step # "idle" => Release(t)
         /\ job[t].step = "idle" => UNCHANGED <<lock, job>>
BY JobsTyped, JobFields DEF Leave, Release, TypeOK

\* An append that returns has committed everything there is.
LEMMA Committed ==
  ASSUME TypeOK, NEW row \in LogRows, Logged(row)
  PROVE  /\ log' = Append(log, row) /\ log' \in Seq(LogRows)
         /\ open' = 0 /\ open' \in 0 .. Len(log')
         /\ Settled' = Len(log') /\ Len(log') = Len(log) + 1
         /\ Settled \in 0 .. Len(log) /\ cursor \in 0 .. Settled'
<1>1. /\ log' = Append(log, row) /\ open' = 0
      /\ log' \in Seq(LogRows) /\ Len(log) \in Nat /\ Len(log') = Len(log) + 1
  BY Appended
<1>2. Settled' = Len(log') - open' /\ Settled = Len(log) - open
  BY DEF Settled
<1>3. open \in 0 .. Len(log) /\ cursor \in 0 .. Settled
  BY DEF TypeOK
<1> QED
  BY <1>1, <1>2, <1>3

\* An append whose commit raises opens one row more.
LEMMA Opened ==
  ASSUME TypeOK, NEW row \in LogRows, log' = Append(log, row), open' = open + 1
  PROVE  /\ log' \in Seq(LogRows) /\ open' \in 0 .. Len(log')
         /\ Settled' = Settled /\ Settled \in 0 .. Len(log)
<1>1. /\ log' \in Seq(LogRows) /\ Len(log) \in Nat /\ Len(log') = Len(log) + 1
  BY Appended
<1>2. Settled' = Len(log') - open' /\ Settled = Len(log) - open
  BY DEF Settled
<1>3. open \in 0 .. Len(log)
  BY DEF TypeOK
<1> QED
  BY <1>1, <1>2, <1>3

LEMMA SubmitTyped ==
  ASSUME TypeOK, NEW t \in Thread, NEW req \in Ask, Submit(t, req)
  PROVE  /\ TypeOK'
         /\ log' = Append(log, RequestRow(req)) /\ RequestRow(req) \in LogRows
<1>1. Logged(RequestRow(req)) /\ RequestRow(req) \in LogRows
  BY RowsTyped DEF Submit
<1>2. Asked(req, now) \in Jobs
  BY JobsTyped DEF TypeOK
<1>3. /\ log' \in Seq(LogRows) /\ open' = 0 /\ open' \in 0 .. Len(log')
      /\ cursor \in 0 .. Settled'
  BY <1>1, Committed
<1> QED
  BY <1>1, <1>2, <1>3 DEF Submit, Acquire, TypeOK

LEMMA TypeInit == Init => TypeOK
BY FreshTyped, JobsTyped DEF Init, TypeOK, Settled

LEMMA TypeStep == TypeOK /\ [Next]_vars => TypeOK'
<1> SUFFICES ASSUME TypeOK, [Next]_vars
             PROVE  TypeOK'
  OBVIOUS
<1>1. ASSUME NEW t \in Thread, NEW req \in Ask, Submit(t, req)
      PROVE  TypeOK'
  BY <1>1, SubmitTyped
<1>2. ASSUME NEW t \in Thread, NEW id \in RequestId, Resubmit(t, id)
      PROVE  TypeOK'
  BY <1>2, SubmitTyped, NewestIsAsk DEF Resubmit
<1>3. ASSUME NEW t \in Thread, NEW id \in RequestId, Approve(t, id)
      PROVE  TypeOK'
  <2>1. Signing(HumanRow("human_approval", id)) \in Jobs
    BY RowsTyped, JobsTyped
  <2>2. mem' \in Counters
    BY <1>3, SignTyped DEF Approve, TypeOK
  <2> QED
    BY <1>3, <2>1, <2>2 DEF Approve, Acquire, TypeOK, Settled
<1>4. ASSUME NEW t \in Thread, NEW id \in RequestId, Reject(t, id)
      PROVE  TypeOK'
  <2>1. Signing(HumanRow("human_rejection", id)) \in Jobs
    BY RowsTyped, JobsTyped
  <2>2. mem' \in Counters
    BY <1>4, DeclineTyped DEF Reject, TypeOK
  <2> QED
    BY <1>4, <2>1, <2>2 DEF Reject, Acquire, TypeOK, Settled
<1>5. ASSUME NEW t \in Thread, NEW id \in RequestId, ReportOutcome(t, id)
      PROVE  TypeOK'
  <2>1. Logged(OutcomeRow(id)) /\ OutcomeRow(id) \in LogRows
    BY <1>5, RowsTyped DEF ReportOutcome
  <2>2. /\ log' \in Seq(LogRows) /\ open' = 0 /\ open' \in 0 .. Len(log')
        /\ cursor \in 0 .. Settled'
    BY <2>1, Committed
  <2> QED
    BY <1>5, <2>2 DEF ReportOutcome, TypeOK
<1>6. ASSUME NEW t \in Thread, LogDecision(t)
      PROVE  TypeOK'
  <2>1. job[t].req \in Ask /\ job[t].at \in Instants
    BY <1>6, JobFields DEF LogDecision, TypeOK
  <2> DEFINE row == Decided(mem, Invoices, job[t].req, job[t].at)
  <2>2. row \in DecisionRows /\ row \in LogRows /\ Judged(row) \in Jobs
    BY <2>1, DecidedTyped, RowsTyped, JobsTyped
  <2>3. Logged(row) /\ job' = [job EXCEPT ![t] = Judged(row)]
        /\ UNCHANGED <<mem, serving, cursor, lock, now, crashes, history>>
    BY <1>6 DEF LogDecision
  <2> HIDE DEF row
  <2>4. /\ log' \in Seq(LogRows) /\ open' = 0 /\ open' \in 0 .. Len(log')
        /\ cursor \in 0 .. Settled'
    BY <2>2, <2>3, Committed
  <2> QED
    BY <2>2, <2>3, <2>4 DEF TypeOK
<1>7. ASSUME NEW t \in Thread, ApplyDecision(t)
      PROVE  TypeOK'
  <2>1. job[t].row \in DecisionRows
    BY <1>7, JobFields DEF ApplyDecision, TypeOK
  <2>2. mem' \in Counters
    BY <1>7, <2>1, CountTyped DEF ApplyDecision, TypeOK
  <2> QED
    BY <1>7, <2>2, JobsTyped DEF ApplyDecision, Release, TypeOK, Settled
<1>8. ASSUME NEW t \in Thread, LogSignature(t)
      PROVE  TypeOK'
  <2>1. job[t].row \in LogRows /\ Logged(job[t].row)
    BY <1>8, JobFields, RowsTyped DEF LogSignature, TypeOK
  <2>2. /\ log' \in Seq(LogRows) /\ open' = 0 /\ open' \in 0 .. Len(log')
        /\ cursor \in 0 .. Settled'
    BY <2>1, Committed
  <2> QED
    BY <1>8, <2>2, JobsTyped DEF LogSignature, Release, TypeOK
<1>9. ASSUME NEW t \in Thread, AppendFails(t)
      PROVE  TypeOK'
  <2>1. /\ serving /\ failures' = failures + 1 /\ raised' = raised \cup {"lost"}
        /\ RolledBack \/ UNCHANGED ledger
        /\ Leave(t) /\ UNCHANGED <<mem, serving, cursor, now, crashes, kept>>
    BY <1>9 DEF AppendFails
  <2>2. /\ log' \in Seq(LogRows) /\ open' \in 0 .. Len(log') /\ Settled' = Settled
    <3>1. CASE RolledBack
      BY <3>1, Truncated
    <3>2. CASE UNCHANGED ledger
      BY <3>2 DEF TypeOK, Settled
    <3> QED
      BY <2>1, <3>1, <3>2
  <2>3. lock' \in Thread \cup {NoThread} /\ job' \in [Thread -> Jobs]
    BY <2>1, LeaveTyped
  <2> QED
    BY <2>1, <2>2, <2>3 DEF TypeOK
<1>15. ASSUME NEW t \in Thread, CommitRaises(t)
       PROVE  TypeOK'
  <2>1. /\ serving /\ open' = open + 1 /\ kept' = kept + 1
        /\ raised' = raised \cup {"kept"}
        /\ Leave(t) /\ UNCHANGED <<mem, serving, cursor, now, crashes, failures>>
    BY <1>15 DEF CommitRaises
  <2>2. PICK row \in InHand(t) : log' = Append(log, row)
    BY <1>15 DEF CommitRaises
  <2>3. row \in LogRows
    BY <2>2, InHandTyped
  <2>4. log' \in Seq(LogRows) /\ open' \in 0 .. Len(log') /\ Settled' = Settled
    BY <2>1, <2>2, <2>3, Opened
  <2>5. lock' \in Thread \cup {NoThread} /\ job' \in [Thread -> Jobs]
    BY <2>1, LeaveTyped
  <2> QED
    BY <2>1, <2>4, <2>5 DEF TypeOK
<1>10. CASE Crash
  <2>1. job' \in [Thread -> Jobs]
    BY <1>10, JobsTyped DEF Crash
  <2>2. log' \in Seq(LogRows) /\ open' = 0 /\ Len(log') = Settled /\ Settled' = Settled
        /\ Settled \in Nat
    BY <1>10, Truncated DEF Crash
  <2>3. mem' \in Counters /\ serving' \in BOOLEAN /\ lock' \in Thread \cup {NoThread}
    BY <1>10, FreshTyped DEF Crash
  <2>4. /\ now' \in Instants /\ crashes' \in Nat /\ failures' \in Nat /\ kept' \in Nat
        /\ raised' = {} /\ cursor' = 0
    BY <1>10 DEF Crash, TypeOK
  <2> QED
    BY <2>1, <2>2, <2>3, <2>4 DEF TypeOK
<1>11. CASE Rebuild
  <2>1. /\ cursor + 1 \in 1 .. Len(log) /\ log[cursor + 1] \in LogRows
        /\ cursor + 1 \in 0 .. Settled /\ Settled' = Settled
    BY <1>11 DEF Rebuild, TypeOK, Settled
  <2>2. mem' \in Counters
    BY <1>11, <2>1, RebuildRowTyped DEF Rebuild, TypeOK
  <2> QED
    BY <1>11, <2>1, <2>2 DEF Rebuild, TypeOK
<1>12. CASE Serve
  <2>1. 0 \in 0 .. Settled /\ Settled' = Settled
    BY <1>12, LenProperties DEF Serve, TypeOK, Settled
  <2> QED
    BY <1>12, <2>1 DEF Serve, TypeOK
<1>13. CASE Tick
  BY <1>13 DEF Tick, TypeOK, Settled
<1>14. CASE UNCHANGED vars
  BY <1>14 DEF vars, TypeOK, Settled
<1> QED
  BY <1>1, <1>2, <1>3, <1>4, <1>5, <1>6, <1>7, <1>8, <1>9, <1>10, <1>11, <1>12, <1>13, <1>14,
     <1>15, SignableKnown
     DEF Next, Step, Finish

\* Every reachable state has the shape the code's structures have: no counter
\* for None, no key that nobody sent (Gateway.__init__, _apply_allowed).
THEOREM GatewayTyped == Spec => []TypeOK
BY TypeInit, TypeStep, PTL DEF Spec
-----------------------------------------------------------------------------
(* What a verdict of allow says about the counters it was judged on.         *)

LEMMA AllowMeansFreshKey ==
  ASSUME NEW m, NEW req, NEW at, Allowed(Decided(m, Invoices, req, at)), req.key # None
  PROVE  req.key \notin m.used_keys
<1> DEFINE ctx == build_context(m, Invoices, req, at)
<1>1. Judgement(req, ctx) = "allow"
  BY DEF Allowed, Decided, DecisionRow
<1>2. ctx.used_idempotency_keys = m.used_keys
  BY DEF build_context
<1> HIDE DEF ctx
<1>3. r05_duplicate_action(req, ctx) # "deny"
  BY <1>1, AllowMeansNobodyObjects
<1> QED
  BY <1>2, <1>3 DEF r05_duplicate_action

LEMMA AllowMeansSigned ==
  ASSUME NEW m, NEW req \in Ask, NEW at, Allowed(Decided(m, Invoices, req, at)), AboveCeiling(req)
  PROVE  req.id \in m.approved
<1> DEFINE ctx == build_context(m, Invoices, req, at)
<1>1. Judgement(req, ctx) = "allow"
  BY DEF Allowed, Decided, DecisionRow
<1>2. /\ ctx.human_approved = (req.id \in m.approved)
      /\ ctx.invoice = Lookup(Invoices, req.invoice)
      /\ ctx.payment = Lookup(Payments, req.payment)
  BY DEF build_context
<1> HIDE DEF ctx
<1>3. /\ r04_refund_ceiling(req, ctx) # "needs_human"
      /\ r12_write_off_ceiling(req, ctx) # "needs_human"
      /\ r14_block_ceiling(req, ctx) # "needs_human"
  BY <1>1, AllowMeansNobodyObjects
<1>4. CASE req.action = "issue_refund"
  BY <1>2, <1>3, <1>4 DEF AboveCeiling, r04_refund_ceiling
<1>5. CASE req.action = "write_off"
  BY <1>2, <1>3, <1>5 DEF AboveCeiling, r12_write_off_ceiling
<1>6. CASE req.action = "block_order"
  BY <1>2, <1>3, <1>6 DEF AboveCeiling, r14_block_ceiling
<1> QED
  BY <1>4, <1>5, <1>6 DEF AboveCeiling

-----------------------------------------------------------------------------
(* One thread at a time.                                                     *)

\* Whoever is inside is alone inside.
LEMMA Alone ==
  ASSUME Exclusion, NEW t \in Thread, job[t].step # "idle"
  PROVE  lock = t /\ serving /\ \A u \in Thread \ {t} : job[u].step = "idle"
BY DEF Exclusion

LEMMA Nobody ==
  ASSUME Exclusion, Free \/ ~serving
  PROVE  \A u \in Thread : job[u].step = "idle"
BY ThreadAssumption DEF Exclusion, Free

\* What entering and leaving do to the jobs.
LEMMA Entered ==
  ASSUME TypeOK, Exclusion, NEW t \in Thread, NEW work, Acquire(t, work)
  PROVE  /\ job'[t] = work /\ lock' = t /\ serving
         /\ \A u \in Thread : job[u].step = "idle"
         /\ \A u \in Thread \ {t} : job'[u] = job[u]
BY Nobody DEF Acquire, TypeOK

LEMMA Left ==
  ASSUME TypeOK, Exclusion, NEW t \in Thread, job[t].step # "idle", Release(t)
  PROVE  \A u \in Thread : job'[u].step = "idle"
BY Alone DEF Release, TypeOK, Idle

LEMMA ExclusionStep ==
  ASSUME TypeOK, Exclusion, [Next]_vars
  PROVE  Exclusion'
<1>1. ASSUME NEW t \in Thread, NEW work, Acquire(t, work), UNCHANGED serving
      PROVE  Exclusion'
  BY <1>1, Entered DEF Exclusion
<1>2. ASSUME NEW t \in Thread, job[t].step # "idle", Release(t)
      PROVE  Exclusion'
  BY <1>2, Left DEF Exclusion
<1>3. ASSUME UNCHANGED <<job, lock, serving>>
      PROVE  Exclusion'
  BY <1>3 DEF Exclusion
<1>4. ASSUME NEW t \in Thread, NEW req \in Ask, Submit(t, req)
      PROVE  Exclusion'
  BY <1>1, <1>4 DEF Submit
<1>5. ASSUME NEW t \in Thread, NEW id \in RequestId,
             Resubmit(t, id) \/ Approve(t, id) \/ Reject(t, id)
      PROVE  Exclusion'
  BY <1>1, <1>5 DEF Resubmit, Submit, Approve, Reject
<1>6. ASSUME NEW t \in Thread, LogDecision(t)
      PROVE  Exclusion'
  BY <1>6, Alone DEF LogDecision, Exclusion, TypeOK
<1>7. ASSUME NEW t \in Thread, ApplyDecision(t) \/ LogSignature(t)
      PROVE  Exclusion'
  BY <1>2, <1>7 DEF ApplyDecision, LogSignature
<1>12. ASSUME NEW t \in Thread, AppendFails(t) \/ CommitRaises(t)
       PROVE  Exclusion'
  <2>1. Leave(t) /\ UNCHANGED serving
    BY <1>12 DEF AppendFails, CommitRaises
  <2>2. CASE job[t].step = "idle"
    BY <1>3, <2>1, <2>2, LeaveTyped
  <2>3. CASE job[t].step # "idle"
    BY <1>2, <2>1, <2>3, LeaveTyped
  <2> QED
    BY <2>2, <2>3
<1>8. CASE Crash
  BY <1>8 DEF Crash, Exclusion, Idle
<1>9. CASE Serve
  BY <1>9, Nobody DEF Serve, Exclusion
<1>10. CASE Rebuild \/ Tick \/ UNCHANGED vars
  BY <1>3, <1>10 DEF Rebuild, Tick, vars
<1>11. ASSUME NEW t \in Thread, NEW id \in RequestId, ReportOutcome(t, id)
       PROVE  Exclusion'
  BY <1>3, <1>11 DEF ReportOutcome
<1> QED
  BY <1>4, <1>5, <1>6, <1>7, <1>8, <1>9, <1>10, <1>11, <1>12, SignableKnown
     DEF Next, Step, Finish

-----------------------------------------------------------------------------
(* What has been raised.                                                     *)

LEMMA RaisedInit == Init => RaisedKnown
BY BoundsAssumption DEF Init, RaisedKnown

LEMMA RaisedStep ==
  ASSUME TypeOK, RaisedKnown, [Next]_vars
  PROVE  RaisedKnown'
<1>1. ASSUME UNCHANGED history, open' = 0 \/ UNCHANGED open
      PROVE  RaisedKnown'
  BY <1>1 DEF RaisedKnown
<1>2. ASSUME NEW t \in Thread, AppendFails(t)
      PROVE  RaisedKnown'
  <2>1. /\ MaxFailures # 0 /\ raised' = raised \cup {"lost"} /\ UNCHANGED kept
        /\ open' = 0 \/ UNCHANGED open
    BY <1>2 DEF AppendFails, RolledBack, TypeOK
  <2> QED
    BY <2>1 DEF RaisedKnown
<1>3. ASSUME NEW t \in Thread, CommitRaises(t)
      PROVE  RaisedKnown'
  <2>1. kept < MaxKept /\ kept' = kept + 1 /\ raised' = raised \cup {"kept"} /\ kept \in Nat
    BY <1>3 DEF CommitRaises, TypeOK
  <2> QED
    BY <2>1, BoundsAssumption DEF RaisedKnown
<1>4. CASE Crash
  <2>1. open' = 0 /\ raised' = {} /\ UNCHANGED kept
    BY <1>4 DEF Crash, RolledBack
  <2> QED
    BY <2>1 DEF RaisedKnown
<1>5. ASSUME NEW t \in Thread, NEW req \in Ask, Submit(t, req)
      PROVE  RaisedKnown'
  BY <1>1, <1>5 DEF Submit
<1>6. ASSUME NEW t \in Thread, NEW id \in RequestId,
             Resubmit(t, id) \/ Approve(t, id) \/ Reject(t, id) \/ ReportOutcome(t, id)
      PROVE  RaisedKnown'
  BY <1>1, <1>6 DEF Resubmit, Submit, Approve, Reject, ReportOutcome
<1>7. ASSUME NEW t \in Thread, Finish(t)
      PROVE  RaisedKnown'
  BY <1>1, <1>7 DEF Finish, LogDecision, ApplyDecision, LogSignature
<1>8. CASE Rebuild \/ Serve \/ Tick \/ UNCHANGED vars
  BY <1>1, <1>8 DEF Rebuild, Serve, Tick, vars
<1> QED
  BY <1>2, <1>3, <1>4, <1>5, <1>6, <1>7, <1>8, SignableKnown DEF Next, Step

\* As long as no commit has left a row, none is open.
LEMMA NoneOpen ==
  ASSUME TypeOK, RaisedKnown, kept = 0 \/ "kept" \notin raised
  PROVE  "kept" \notin raised /\ open = 0
BY DEF TypeOK, RaisedKnown

\* Commits that left a row are counted for good.
LEMMA KeptGrows ==
  ASSUME TypeOK, [Next]_vars
  PROVE  /\ kept' = 0 => kept = 0
         /\ \A t \in Thread : CommitRaises(t) => kept' # 0 /\ "kept" \in raised'
<1>1. ASSUME NEW t \in Thread, CommitRaises(t)
      PROVE  kept' # 0 /\ "kept" \in raised'
  BY <1>1 DEF CommitRaises, TypeOK
<1>2. ASSUME NEW t \in Thread, Step(t)
      PROVE  kept' = 0 => kept = 0
  BY <1>1, <1>2 DEF Step, Finish, Submit, Resubmit, Approve, Reject, ReportOutcome,
                    LogDecision, ApplyDecision, LogSignature, AppendFails
<1>3. ASSUME Crash \/ Rebuild \/ Serve \/ Tick \/ UNCHANGED vars
      PROVE  kept' = 0 => kept = 0
  BY <1>3 DEF Crash, Rebuild, Serve, Tick, vars
<1> QED
  BY <1>1, <1>2, <1>3 DEF Next

-----------------------------------------------------------------------------
(* Keys.                                                                     *)

\* A row that allows nothing disturbs no fact about the rows that do.
LEMMA AllowedKept ==
  ASSUME TypeOK,
         \/ UNCHANGED log
         \/ \E row \in LogRows : log' = Append(log, row) /\ ~Allowed(row)
  PROVE  AllowedRows' = AllowedRows /\ \A i \in AllowedRows : log'[i] = log[i]
<1>1. CASE UNCHANGED log
  BY <1>1 DEF AllowedRows
<1>2. ASSUME NEW row \in LogRows, log' = Append(log, row), ~Allowed(row)
      PROVE  AllowedRows' = AllowedRows /\ \A i \in AllowedRows : log'[i] = log[i]
  BY <1>2, Appended DEF AllowedRows
<1> QED
  BY <1>1, <1>2

\* A step that logs no decision, forgets no key and moves no thread that has a
\* decision in hand keeps what is known.
LEMMA KeysKept ==
  ASSUME TypeOK, KeysKnown, Once,
         \/ UNCHANGED log
         \/ \E row \in LogRows : log' = Append(log, row) /\ ~Allowed(row),
         mem.used_keys \subseteq mem'.used_keys,
         UNCHANGED <<serving, cursor>>,
         \A t \in Thread : job[t].step = "judged" => job'[t] = job[t]
  PROVE  KeysKnown' /\ Once'
<1>1. AllowedRows' = AllowedRows /\ \A i \in AllowedRows : log'[i] = log[i]
  BY AllowedKept
<1>2. Once'
  BY <1>1 DEF Once
<1>3. ASSUME NEW i \in AllowedRows, log[i].req.key # None
      PROVE  KeyKnown(i)'
  BY <1>1, <1>3 DEF KeysKnown, KeyKnown
<1> QED
  BY <1>1, <1>2, <1>3 DEF KeysKnown

LEMMA KeysStep ==
  ASSUME TypeOK, Exclusion, RaisedKnown, KeysKnown, Once, [Next]_vars, kept' = 0
  PROVE  KeysKnown' /\ Once'
<1>1. ASSUME NEW t \in Thread, NEW req \in Ask, Submit(t, req)
      PROVE  KeysKnown' /\ Once'
  <2>1. ~Allowed(RequestRow(req)) /\ RequestRow(req) \in LogRows
    BY RowsTyped DEF Allowed, RequestRow
  <2>2. \A u \in Thread : job[u].step = "idle"
    BY <1>1, Entered DEF Submit
  <2> QED
    BY <1>1, <2>1, <2>2, KeysKept DEF Submit
<1>2. ASSUME NEW t \in Thread, NEW id \in RequestId, Resubmit(t, id)
      PROVE  KeysKnown' /\ Once'
  BY <1>1, <1>2, NewestIsAsk DEF Resubmit
<1>3. ASSUME NEW t \in Thread, NEW id \in RequestId, Approve(t, id) \/ Reject(t, id)
      PROVE  KeysKnown' /\ Once'
  <2>1. \A u \in Thread : job[u].step = "idle"
    BY <1>3, Entered DEF Approve, Reject
  <2>2. mem'.used_keys = mem.used_keys
    BY <1>3, SignTyped, DeclineTyped DEF Approve, Reject, TypeOK
  <2> QED
    BY <1>3, <2>1, <2>2, KeysKept DEF Approve, Reject
<1>4. ASSUME NEW t \in Thread, NEW id \in RequestId, ReportOutcome(t, id)
      PROVE  KeysKnown' /\ Once'
  <2>1. ~Allowed(OutcomeRow(id)) /\ OutcomeRow(id) \in LogRows
    BY RowsTyped DEF Allowed, OutcomeRow
  <2> QED
    BY <1>4, <2>1, KeysKept DEF ReportOutcome
<1>5. ASSUME NEW t \in Thread, LogDecision(t)
      PROVE  KeysKnown' /\ Once'
  <2> DEFINE req == job[t].req
             row == Decided(mem, Invoices, req, job[t].at)
             new == Len(log) + 1
  <2>1. req \in Ask /\ job[t].at \in Instants
    BY <1>5, JobFields DEF LogDecision, TypeOK
  <2>2. row \in LogRows /\ row.req = req
    BY <2>1, DecidedTyped, RowsTyped DEF Decided, DecisionRow
  <2>3. /\ log' = Append(log, row)
        /\ job' = [job EXCEPT ![t] = Judged(row)]
        /\ UNCHANGED <<mem, serving, cursor>>
        /\ job[t].step = "asked"
    BY <1>5 DEF LogDecision
  <2>4. serving /\ \A u \in Thread : job[u].step # "judged"
    BY <2>3, Alone
  <2>5. /\ DOMAIN log = 1 .. Len(log) /\ DOMAIN log' = 1 .. new /\ Len(log) \in Nat
        /\ \A i \in DOMAIN log : log'[i] = log[i]
        /\ log'[new] = row
    BY <2>2, <2>3, Appended
  <2>6. job'[t].step = "judged" /\ job'[t].row = row
    BY <2>3 DEF TypeOK, Judged
  <2>7. Allowed(row) /\ req.key # None => req.key \notin mem.used_keys
    BY AllowMeansFreshKey
  <2> HIDE DEF row, req, new
  <2>8. AllowedRows' \subseteq AllowedRows \cup {new} /\ (new \in AllowedRows' => Allowed(row))
        /\ AllowedRows \subseteq DOMAIN log
    BY <2>5 DEF AllowedRows, new
  <2>9. \A i \in AllowedRows : log[i].req.key # None => log[i].req.key \in mem.used_keys
    BY <2>4 DEF KeysKnown, KeyKnown
  <2>10. KeysKnown'
    <3> SUFFICES ASSUME NEW i \in AllowedRows', (log[i].req.key)' # None
                 PROVE  KeyKnown(i)'
      BY DEF KeysKnown
    <3>1. CASE i = new
      BY <2>5, <2>6, <3>1 DEF KeyKnown
    <3>2. CASE i \in AllowedRows
      BY <2>3, <2>5, <2>8, <2>9, <3>2 DEF KeyKnown
    <3> QED
      BY <2>8, <3>1, <3>2
  <2>11. Once'
    <3>1. ASSUME NEW i \in AllowedRows, new \in AllowedRows', log'[i].req.key # None
          PROVE  log'[i].req.key # log'[new].req.key
      BY <2>2, <2>5, <2>7, <2>8, <2>9, <3>1
    <3> QED
      BY <2>5, <2>8, <3>1 DEF Once
  <2> QED
    BY <2>10, <2>11
<1>6. ASSUME NEW t \in Thread, ApplyDecision(t)
      PROVE  KeysKnown' /\ Once'
  <2>1. /\ job[t].step = "judged" /\ job[t].row \in DecisionRows
        /\ mem' = Count(mem, job[t].row) /\ UNCHANGED <<log, serving, cursor>>
    BY <1>6, JobFields DEF ApplyDecision, TypeOK
  <2>2. \A u \in Thread \ {t} : job[u].step = "idle"
    BY <2>1, Alone
  <2>3. /\ mem.used_keys \subseteq mem'.used_keys
        /\ Allowed(job[t].row) /\ job[t].row.req.key # None
             => job[t].row.req.key \in mem'.used_keys
    BY <2>1, CountTyped DEF TypeOK, Allowed
  <2>4. AllowedRows' = AllowedRows /\ Once'
    BY <2>1 DEF AllowedRows, Once
  <2>5. ASSUME NEW i \in AllowedRows, log[i].req.key # None
        PROVE  KeyKnown(i)'
    <3>1. CASE log[i].req.key \in mem.used_keys \/ (~serving /\ i > cursor)
      BY <2>1, <2>3, <3>1 DEF KeyKnown
    <3>2. CASE job[t].row = log[i]
      BY <2>1, <2>3, <2>5, <3>2 DEF KeyKnown, AllowedRows
    <3> QED
      BY <2>2, <2>5, <3>1, <3>2 DEF KeysKnown, KeyKnown
  <2> QED
    BY <2>1, <2>4, <2>5 DEF KeysKnown
<1>7. ASSUME NEW t \in Thread, LogSignature(t)
      PROVE  KeysKnown' /\ Once'
  <2>1. job[t].step = "signing" /\ job[t].row \in HumanRows /\ log' = Append(log, job[t].row)
    BY <1>7, JobFields DEF LogSignature, TypeOK
  <2>2. job[t].row \in LogRows /\ ~Allowed(job[t].row)
    BY <2>1, RowsTyped DEF HumanRows, Allowed
  <2>3. \A u \in Thread : job[u].step # "judged"
    BY <2>1, Alone
  <2> QED
    BY <1>7, <2>1, <2>2, <2>3, KeysKept DEF LogSignature
<1>8. ASSUME NEW t \in Thread, AppendFails(t)
      PROVE  KeysKnown' /\ Once'
  <2>1. /\ UNCHANGED <<mem, serving, cursor>> /\ Leave(t)
        /\ RolledBack \/ UNCHANGED ledger
        /\ job[t].step # "judged"
    BY <1>8 DEF AppendFails, Idle
  <2>2. UNCHANGED log
    BY <2>1, KeptGrows, NoneOpen, Truncated
  <2>3. \A u \in Thread : job[u].step = "judged" => job'[u] = job[u]
    BY <2>1, LeaveTyped
  <2> QED
    BY <2>1, <2>2, <2>3, KeysKept
<1>13. ASSUME NEW t \in Thread, CommitRaises(t)
       PROVE  KeysKnown' /\ Once'
  BY <1>13, KeptGrows
<1>9. CASE Crash
  <2>1. UNCHANGED log /\ ~serving' /\ cursor' = 0 /\ \A i \in AllowedRows : i > 0
    BY <1>9, KeptGrows, NoneOpen, Truncated DEF Crash, AllowedRows, TypeOK
  <2>2. AllowedRows' = AllowedRows /\ Once'
    BY <2>1 DEF AllowedRows, Once
  <2> QED
    BY <2>1, <2>2 DEF KeysKnown, KeyKnown
<1>10. CASE Rebuild
  <2>1. /\ ~serving /\ UNCHANGED <<log, serving, job>> /\ cursor' = cursor + 1
        /\ cursor + 1 \in DOMAIN log /\ log[cursor + 1] \in LogRows
        /\ mem' = RebuildRow(mem, log[cursor + 1])
        /\ cursor \in Nat /\ \A i \in AllowedRows : i \in Nat
    BY <1>10 DEF Rebuild, TypeOK, AllowedRows
  <2>2. \A u \in Thread : job[u].step # "judged"
    BY <2>1, Nobody
  <2>3. AllowedRows' = AllowedRows /\ Once'
    BY <2>1 DEF AllowedRows, Once
  <2>4. /\ mem.used_keys \subseteq mem'.used_keys
        /\ cursor + 1 \in AllowedRows /\ log[cursor + 1].req.key # None
             => log[cursor + 1].req.key \in mem'.used_keys
    BY <2>1, RebuildRowTyped DEF TypeOK, AllowedRows
  <2>5. ASSUME NEW i \in AllowedRows, log[i].req.key # None
        PROVE  KeyKnown(i)'
    <3>1. i = cursor + 1 \/ i > cursor + 1 \/ ~(i > cursor)
      BY <2>1
    <3> QED
      BY <2>1, <2>2, <2>4, <2>5, <3>1 DEF KeysKnown, KeyKnown
  <2> QED
    BY <2>1, <2>3, <2>5 DEF KeysKnown
<1>11. CASE Serve
  <2>1. /\ ~serving /\ cursor = Len(log) /\ UNCHANGED <<log, mem, job>>
        /\ \A i \in AllowedRows : ~(i > cursor)
    BY <1>11 DEF Serve, TypeOK, AllowedRows
  <2>2. AllowedRows' = AllowedRows /\ Once'
    BY <2>1 DEF AllowedRows, Once
  <2> QED
    BY <2>1, <2>2 DEF KeysKnown, KeyKnown
<1>12. CASE Tick \/ UNCHANGED vars
  BY <1>12, KeysKept DEF Tick, vars
<1> QED
  BY <1>1, <1>2, <1>3, <1>4, <1>5, <1>6, <1>7, <1>8, <1>9, <1>10, <1>11, <1>12,
     <1>13, SignableKnown
     DEF Next, Step, Finish

KeyInv == TypeOK /\ Exclusion /\ RaisedKnown /\ (kept = 0 => KeysKnown /\ Once)

\* However many threads ask at once and however often the process dies and
\* rebuilds, an idempotency key is allowed once, as long as no commit that
\* raised has left a decision uncounted (Gateway._lock, r05, and
\* _rebuild_from_ledger).
THEOREM GatewayOneActionPerKey == Spec => []OneActionPerKey
<1>1. Init => KeyInv
  <2> SUFFICES ASSUME Init
               PROVE  KeyInv
    OBVIOUS
  <2>1. AllowedRows = {}
    BY DEF Init, AllowedRows
  <2> QED
    BY <2>1, TypeInit, RaisedInit DEF Init, KeyInv, Exclusion, KeysKnown, Once, Idle
<1>2. KeyInv /\ [Next]_vars => KeyInv'
  <2> SUFFICES ASSUME KeyInv, [Next]_vars
               PROVE  KeyInv'
    OBVIOUS
  <2>1. TypeOK' /\ Exclusion' /\ RaisedKnown'
    BY TypeStep, ExclusionStep, RaisedStep DEF KeyInv
  <2>2. kept' = 0 => KeysKnown' /\ Once'
    BY KeptGrows, KeysStep DEF KeyInv
  <2> QED
    BY <2>1, <2>2 DEF KeyInv
<1>3. KeyInv => OneActionPerKey
  BY DEF KeyInv, OneActionPerKey, Once
<1> QED
  BY <1>1, <1>2, <1>3, PTL DEF Spec
-----------------------------------------------------------------------------
(* Order.                                                                    *)

\* A row that is no decision comes after all the rows AskedFirst is about.
LEMMA AskedKept ==
  ASSUME TypeOK, AskedFirst,
         \/ UNCHANGED log
         \/ \E row \in LogRows : log' = Append(log, row) /\ row.type # "decision"
  PROVE  AskedFirst'
<1>1. CASE UNCHANGED log
  BY <1>1 DEF AskedFirst
<1>2. ASSUME NEW row \in LogRows, log' = Append(log, row), row.type # "decision"
      PROVE  AskedFirst'
  <2>1. /\ Len(log) \in Nat /\ DOMAIN log = 1 .. Len(log) /\ DOMAIN log' = 1 .. Len(log) + 1
        /\ \A i \in DOMAIN log : log'[i] = log[i]
        /\ log'[Len(log) + 1] = row
    BY <1>2, Appended
  <2> SUFFICES ASSUME NEW i \in DOMAIN log', log'[i].type = "decision"
               PROVE  \E j \in 1 .. i - 1 :
                        /\ log'[j] = RequestRow(log'[i].req)
                        /\ \A k \in j + 1 .. i - 1 : log'[k].type = "outcome"
    BY DEF AskedFirst
  <2>2. i \in DOMAIN log
    <3>1. i # Len(log) + 1
      BY <1>2, <2>1
    <3>2. i \in 1 .. Len(log) + 1
      BY <2>1
    <3>3. i \in 1 .. Len(log)
      BY <2>1, <3>1, <3>2
    <3> QED
      BY <2>1, <3>3
  <2>3. PICK j \in 1 .. i - 1 : /\ log[j] = RequestRow(log[i].req)
                                /\ \A k \in j + 1 .. i - 1 : log[k].type = "outcome"
    BY <2>1, <2>2 DEF AskedFirst
  <2>4. 1 .. i - 1 \subseteq DOMAIN log /\ j + 1 .. i - 1 \subseteq DOMAIN log
    BY <2>1, <2>2
  <2> QED
    BY <2>1, <2>2, <2>3, <2>4
<1> QED
  BY <1>1, <1>2

\* A rollback takes rows off the end: of what is left, every decision still has
\* all that came before it.
LEMMA AskedTruncated ==
  ASSUME TypeOK, AskedFirst, RolledBack
  PROVE  AskedFirst'
<1>1. /\ Settled \in 0 .. Len(log) /\ Len(log) \in Nat
      /\ DOMAIN log = 1 .. Len(log) /\ DOMAIN log' = 1 .. Settled
      /\ \A i \in 1 .. Settled : log'[i] = log[i]
  BY Truncated
<1> SUFFICES ASSUME NEW i \in DOMAIN log', log'[i].type = "decision"
             PROVE  \E j \in 1 .. i - 1 :
                      /\ log'[j] = RequestRow(log'[i].req)
                      /\ \A k \in j + 1 .. i - 1 : log'[k].type = "outcome"
  BY DEF AskedFirst
<1>2. i \in DOMAIN log /\ i \in 1 .. Settled /\ log'[i] = log[i]
  BY <1>1
<1>3. PICK j \in 1 .. i - 1 : /\ log[j] = RequestRow(log[i].req)
                              /\ \A k \in j + 1 .. i - 1 : log[k].type = "outcome"
  BY <1>2 DEF AskedFirst
<1>4. 1 .. i - 1 \subseteq 1 .. Settled /\ j + 1 .. i - 1 \subseteq 1 .. Settled
  BY <1>1, <1>2
<1> QED
  BY <1>1, <1>2, <1>3, <1>4

\* A decision written by the thread that asked follows its request.
LEMMA DecisionAfterAsk ==
  ASSUME TypeOK, JustAsked, AskedFirst, NEW t \in Thread, job[t].step = "asked",
         NEW row \in LogRows, row.req = job[t].req, log' = Append(log, row)
  PROVE  AskedFirst'
<1> DEFINE new == Len(log) + 1
<1>1. /\ DOMAIN log = 1 .. Len(log) /\ DOMAIN log' = 1 .. new /\ Len(log) \in Nat
      /\ \A i \in DOMAIN log : log'[i] = log[i]
      /\ log'[new] = row
  BY Appended
<1>2. Settled \in 0 .. Len(log)
  BY <1>1 DEF Settled, TypeOK
<1> SUFFICES ASSUME NEW i \in DOMAIN log', log'[i].type = "decision"
             PROVE  \E j \in 1 .. i - 1 :
                      /\ log'[j] = RequestRow(log'[i].req)
                      /\ \A k \in j + 1 .. i - 1 : log'[k].type = "outcome"
  BY DEF AskedFirst
<1>3. CASE i = new
  <2>1. PICK j \in 1 .. Settled : log[j] = RequestRow(job[t].req) /\ OnlyOutcomesAfter(j)
    BY DEF JustAsked
  <2>2. j \in DOMAIN log /\ j \in 1 .. i - 1 /\ j + 1 .. i - 1 = j + 1 .. Len(log)
        /\ j + 1 .. Len(log) \subseteq DOMAIN log
    BY <1>1, <1>2, <1>3
  <2> QED
    BY <1>1, <1>3, <2>1, <2>2 DEF OnlyOutcomesAfter
<1>4. CASE i \in DOMAIN log
  <2>1. PICK j \in 1 .. i - 1 : /\ log[j] = RequestRow(log[i].req)
                                /\ \A k \in j + 1 .. i - 1 : log[k].type = "outcome"
    BY <1>1, <1>4 DEF AskedFirst
  <2>2. 1 .. i - 1 \subseteq DOMAIN log /\ j + 1 .. i - 1 \subseteq DOMAIN log
    BY <1>1, <1>4
  <2> QED
    BY <1>1, <1>4, <2>1, <2>2
<1> QED
  BY <1>1, <1>3, <1>4

\* An outcome comes after whatever was asked, and so does one that is left open.
LEMMA OutcomeAfterAsk ==
  ASSUME TypeOK, JustAsked, NEW row \in LogRows, row.type = "outcome",
         log' = Append(log, row), UNCHANGED job, open' = 0 \/ open' = open + 1
  PROVE  JustAsked'
<1>1. /\ Len(log) \in Nat /\ DOMAIN log = 1 .. Len(log) /\ Len(log') = Len(log) + 1
      /\ \A i \in DOMAIN log : log'[i] = log[i]
      /\ log'[Len(log) + 1].type = "outcome"
  BY Appended
<1>2. Settled' = Len(log') - open' /\ Settled = Len(log) - open /\ open \in 0 .. Len(log)
  BY DEF Settled, TypeOK
<1>3. 1 .. Settled \subseteq 1 .. Settled' /\ 1 .. Settled \subseteq DOMAIN log
  BY <1>1, <1>2
<1>4. ASSUME NEW u \in Thread, job[u].step = "asked"
      PROVE  \E j \in 1 .. Settled' : log'[j] = RequestRow(job[u].req) /\ OnlyOutcomesAfter(j)'
  <2>1. PICK j \in 1 .. Settled : log[j] = RequestRow(job[u].req) /\ OnlyOutcomesAfter(j)
    BY <1>4 DEF JustAsked
  <2>2. OnlyOutcomesAfter(j)'
    <3> SUFFICES ASSUME NEW k \in j + 1 .. Len(log')
                 PROVE  log'[k].type = "outcome"
      BY DEF OnlyOutcomesAfter
    <3>1. k = Len(log) + 1 \/ (k \in j + 1 .. Len(log) /\ k \in DOMAIN log)
      BY <1>1, <1>3
    <3> QED
      BY <1>1, <2>1, <3>1 DEF OnlyOutcomesAfter
  <2> QED
    BY <1>1, <1>3, <2>1, <2>2
<1> QED
  BY <1>4 DEF JustAsked

LEMMA OrderStep ==
  ASSUME TypeOK, Exclusion, JustAsked, AskedFirst, [Next]_vars
  PROVE  JustAsked' /\ AskedFirst'
<1>1. ASSUME NEW t \in Thread, NEW req \in Ask, Submit(t, req)
      PROVE  JustAsked' /\ AskedFirst'
  <2>1. /\ RequestRow(req) \in LogRows /\ RequestRow(req).type # "decision"
        /\ log' = Append(log, RequestRow(req))
    BY <1>1, RowsTyped DEF Submit, RequestRow
  <2>2. /\ Len(log) \in Nat /\ DOMAIN log' = 1 .. Len(log) + 1
        /\ Len(log') = Len(log) + 1 /\ log'[Len(log) + 1] = RequestRow(req)
        /\ Settled' = Len(log) + 1
    BY <1>1, <2>1, Appended, Committed DEF Submit
  <2>3. /\ job'[t].req = req
        /\ \A u \in Thread \ {t} : job'[u].step = "idle"
    BY <1>1, Entered DEF Submit, Asked
  <2>4. JustAsked'
    BY <2>2, <2>3 DEF JustAsked, OnlyOutcomesAfter
  <2> QED
    BY <2>1, <2>4, AskedKept
<1>2. ASSUME NEW t \in Thread, NEW id \in RequestId, Resubmit(t, id)
      PROVE  JustAsked' /\ AskedFirst'
  BY <1>1, <1>2, NewestIsAsk DEF Resubmit
<1>3. ASSUME NEW t \in Thread, NEW id \in RequestId, Approve(t, id) \/ Reject(t, id)
      PROVE  JustAsked' /\ AskedFirst'
  <2>1. UNCHANGED log /\ \A u \in Thread : job'[u].step # "asked"
    BY <1>3, Entered DEF Approve, Reject, Signing
  <2> QED
    BY <2>1, AskedKept DEF JustAsked
<1>4. ASSUME NEW t \in Thread, NEW id \in RequestId, ReportOutcome(t, id)
      PROVE  JustAsked' /\ AskedFirst'
  <2>1. /\ OutcomeRow(id) \in LogRows /\ OutcomeRow(id).type = "outcome"
        /\ log' = Append(log, OutcomeRow(id)) /\ open' = 0 /\ UNCHANGED job
    BY <1>4, RowsTyped DEF ReportOutcome, OutcomeRow
  <2> QED
    BY <2>1, OutcomeAfterAsk, AskedKept
<1>5. ASSUME NEW t \in Thread, LogDecision(t)
      PROVE  JustAsked' /\ AskedFirst'
  <2> DEFINE row == Decided(mem, Invoices, job[t].req, job[t].at)
  <2>1. job[t].req \in Ask /\ job[t].at \in Instants
    BY <1>5, JobFields DEF LogDecision, TypeOK
  <2>2. row \in LogRows /\ row.req = job[t].req
    BY <2>1, DecidedTyped, RowsTyped DEF Decided, DecisionRow
  <2>3. /\ log' = Append(log, row) /\ job[t].step = "asked"
        /\ job' = [job EXCEPT ![t] = Judged(row)]
    BY <1>5 DEF LogDecision
  <2> HIDE DEF row
  <2>4. \A u \in Thread : job'[u].step # "asked"
    BY <2>3, Alone DEF TypeOK, Judged
  <2>5. AskedFirst'
    BY <2>2, <2>3, DecisionAfterAsk
  <2> QED
    BY <2>4, <2>5 DEF JustAsked
<1>6. ASSUME NEW t \in Thread, LogSignature(t)
      PROVE  JustAsked' /\ AskedFirst'
  <2>1. /\ job[t].step = "signing" /\ job[t].row \in HumanRows
        /\ log' = Append(log, job[t].row) /\ Release(t)
    BY <1>6, JobFields DEF LogSignature, TypeOK
  <2>2. job[t].row \in LogRows /\ job[t].row.type # "decision"
    BY <2>1, RowsTyped DEF HumanRows
  <2> QED
    BY <2>1, <2>2, Left, AskedKept DEF JustAsked
<1>7. ASSUME NEW t \in Thread, ApplyDecision(t)
      PROVE  JustAsked' /\ AskedFirst'
  BY <1>7, Left, AskedKept DEF ApplyDecision, JustAsked
<1>10. ASSUME NEW t \in Thread, AppendFails(t)
       PROVE  JustAsked' /\ AskedFirst'
  <2>1. Leave(t) /\ (RolledBack \/ UNCHANGED ledger)
    BY <1>10 DEF AppendFails
  <2>2. AskedFirst'
    BY <2>1, AskedTruncated, AskedKept
  <2>3. CASE job[t].step # "idle"
    BY <2>1, <2>2, <2>3, LeaveTyped, Left DEF JustAsked
  <2>4. CASE job[t].step = "idle"
    <3>1. UNCHANGED job
      BY <2>1, <2>4, LeaveTyped
    <3>2. CASE UNCHANGED ledger
      BY <2>2, <3>1, <3>2 DEF JustAsked, OnlyOutcomesAfter, Settled
    <3>3. CASE RolledBack
      <4>1. /\ Settled' = Settled /\ Len(log') = Settled /\ Settled \in 0 .. Len(log)
            /\ Len(log) \in Nat /\ \A i \in 1 .. Settled : log'[i] = log[i]
        BY <3>3, Truncated
      <4>2. ASSUME NEW j \in 1 .. Settled, OnlyOutcomesAfter(j)
            PROVE  OnlyOutcomesAfter(j)'
        <5> SUFFICES ASSUME NEW k \in j + 1 .. Len(log')
                     PROVE  log'[k].type = "outcome"
          BY DEF OnlyOutcomesAfter
        <5>1. k \in 1 .. Settled /\ k \in j + 1 .. Len(log)
          BY <4>1
        <5> QED
          BY <4>1, <4>2, <5>1 DEF OnlyOutcomesAfter
      <4>3. ASSUME NEW u \in Thread, job[u].step = "asked"
            PROVE  \E j \in 1 .. Settled' :
                     log'[j] = RequestRow(job[u].req) /\ OnlyOutcomesAfter(j)'
        <5>1. PICK j \in 1 .. Settled : log[j] = RequestRow(job[u].req) /\ OnlyOutcomesAfter(j)
          BY <4>3 DEF JustAsked
        <5> QED
          BY <4>1, <4>2, <5>1
      <4> QED
        BY <2>2, <3>1, <4>3 DEF JustAsked
    <3> QED
      BY <2>1, <3>2, <3>3
  <2> QED
    BY <2>3, <2>4
<1>11. ASSUME NEW t \in Thread, CommitRaises(t)
       PROVE  JustAsked' /\ AskedFirst'
  <2>1. PICK row \in InHand(t) : log' = Append(log, row)
    BY <1>11 DEF CommitRaises
  <2>2. Leave(t) /\ open' = open + 1
    BY <1>11 DEF CommitRaises
  <2>3. row \in LogRows /\ job[t].step \in {"asked", "signing", "idle"}
    BY <2>1, InHandTyped
  <2>4. CASE job[t].step = "asked"
    <3>1. row.req = job[t].req
      BY <2>1, <2>4, InHandTyped
    <3> QED
      BY <2>1, <2>2, <2>3, <2>4, <3>1, DecisionAfterAsk, LeaveTyped, Left DEF JustAsked
  <2>5. CASE job[t].step = "signing"
    <3>1. row.type # "decision"
      BY <2>1, <2>5, InHandTyped DEF HumanRows
    <3> QED
      BY <2>1, <2>2, <2>3, <2>5, <3>1, AskedKept, LeaveTyped, Left DEF JustAsked
  <2>6. CASE job[t].step = "idle"
    <3>1. row.type = "outcome" \/ (row.type = "request" /\ Free)
      BY <2>1, <2>6, InHandTyped
    <3>2. UNCHANGED job
      BY <2>2, <2>6, LeaveTyped
    <3>3. AskedFirst'
      BY <2>1, <2>3, <3>1, AskedKept
    <3>4. CASE row.type = "outcome"
      BY <2>1, <2>2, <2>3, <3>2, <3>3, <3>4, OutcomeAfterAsk
    <3>5. CASE Free
      BY <3>2, <3>3, <3>5, Nobody DEF JustAsked
    <3> QED
      BY <3>1, <3>4, <3>5
  <2> QED
    BY <2>3, <2>4, <2>5, <2>6
<1>8. CASE Crash
  <2>1. RolledBack /\ \A u \in Thread : job'[u].step # "asked"
    BY <1>8 DEF Crash, Idle
  <2> QED
    BY <2>1, AskedTruncated DEF JustAsked
<1>9. CASE Rebuild \/ Serve \/ Tick \/ UNCHANGED vars
  BY <1>9, AskedKept DEF Rebuild, Serve, Tick, vars, JustAsked, OnlyOutcomesAfter, Settled
<1> QED
  BY <1>1, <1>2, <1>3, <1>4, <1>5, <1>6, <1>7, <1>8, <1>9, <1>10, <1>11, SignableKnown
     DEF Next, Step, Finish

OrderInv == TypeOK /\ Exclusion /\ JustAsked /\ AskedFirst

\* The ask is on record before its decision and only outcomes come in between,
\* whoever else is at the door, whatever append raises and whenever the process
\* dies (Gateway._submit_locked under Gateway._lock).
THEOREM GatewayAskedFirst == Spec => []AskedFirst
<1>1. Init => OrderInv
  BY TypeInit DEF Init, OrderInv, Exclusion, JustAsked, AskedFirst, Idle
<1>2. OrderInv /\ [Next]_vars => OrderInv'
  BY TypeStep, ExclusionStep, OrderStep DEF OrderInv
<1>3. OrderInv => AskedFirst
  BY DEF OrderInv
<1> QED
  BY <1>1, <1>2, <1>3, PTL DEF Spec
-----------------------------------------------------------------------------
(* Signatures.                                                               *)

\* Rows only ever join the log, so what an earlier row is evidence of stays.
LEMMA EvidenceKept ==
  ASSUME TypeOK, SignedAboveCeiling,
         \/ UNCHANGED log
         \/ \E row \in LogRows : log' = Append(log, row) /\ ~Allowed(row)
  PROVE  SignedAboveCeiling'
<1>1. AllowedRows' = AllowedRows /\ \A i \in AllowedRows : log'[i] = log[i]
  BY AllowedKept
<1>2. \A i \in DOMAIN log : log'[i] = log[i]
  BY Appended
<1> SUFFICES ASSUME NEW i \in AllowedRows, AboveCeiling(log[i].req)
             PROVE  \E j \in 1 .. i - 1 : log'[j] = HumanRow("human_approval", log[i].req.id)
  BY <1>1 DEF SignedAboveCeiling
<1>3. PICK j \in 1 .. i - 1 : log[j] = HumanRow("human_approval", log[i].req.id)
  BY DEF SignedAboveCeiling
<1>4. j \in DOMAIN log
  BY DEF AllowedRows, TypeOK
<1> QED
  BY <1>2, <1>3, <1>4

\* A step that adds no signature to the counters and takes none out of a
\* thread's hands.
LEMMA SignaturesKept ==
  ASSUME TypeOK, SignaturesKnown,
         UNCHANGED log \/ \E row \in LogRows : log' = Append(log, row),
         mem'.approved \subseteq mem.approved,
         \A t \in Thread : job[t].step = "signing" => job'[t] = job[t]
  PROVE  SignaturesKnown'
<1>1. \A i \in DOMAIN log : i \in DOMAIN log' /\ log'[i] = log[i]
  BY Appended
<1> SUFFICES ASSUME NEW id \in mem'.approved
             PROVE  SignatureKnown(id)'
  BY DEF SignaturesKnown
<1>2. SignatureKnown(id)
  BY DEF SignaturesKnown
<1> QED
  BY <1>1, <1>2 DEF SignatureKnown, Approval, HumanRow

\* A rollback keeps the evidence for what it leaves.
LEMMA EvidenceTruncated ==
  ASSUME TypeOK, SignedAboveCeiling, RolledBack
  PROVE  SignedAboveCeiling'
<1>1. /\ Settled \in 0 .. Len(log) /\ Len(log) \in Nat
      /\ DOMAIN log = 1 .. Len(log) /\ DOMAIN log' = 1 .. Settled
      /\ \A i \in 1 .. Settled : log'[i] = log[i]
  BY Truncated
<1> SUFFICES ASSUME NEW i \in DOMAIN log', Allowed(log'[i]), AboveCeiling(log'[i].req)
             PROVE  \E j \in 1 .. i - 1 : log'[j] = HumanRow("human_approval", log'[i].req.id)
  BY DEF SignedAboveCeiling, AllowedRows
<1>2. i \in AllowedRows /\ i \in 1 .. Settled /\ log'[i] = log[i]
  BY <1>1 DEF AllowedRows
<1>3. PICK j \in 1 .. i - 1 : log[j] = HumanRow("human_approval", log[i].req.id)
  BY <1>2 DEF SignedAboveCeiling
<1>4. j \in 1 .. Settled
  BY <1>1, <1>2
<1> QED
  BY <1>1, <1>2, <1>3, <1>4

\* What is allowed above a ceiling was signed for, and the signature is written.
LEMMA DecisionSigned ==
  ASSUME TypeOK, SignaturesKnown, SignedAboveCeiling,
         \A u \in Thread : job[u].step # "signing",
         NEW req \in Ask, NEW at \in Instants,
         log' = Append(log, Decided(mem, Invoices, req, at))
  PROVE  SignedAboveCeiling'
<1> DEFINE row == Decided(mem, Invoices, req, at)
           new == Len(log) + 1
<1>1. row \in LogRows /\ row.req = req
  BY DecidedTyped, RowsTyped DEF Decided, DecisionRow
<1>2. log' = Append(log, row)
  OBVIOUS
<1>3. Allowed(row) /\ AboveCeiling(req) => req.id \in mem.approved
  BY AllowMeansSigned
<1>4. /\ DOMAIN log = 1 .. Len(log) /\ DOMAIN log' = 1 .. new /\ Len(log) \in Nat
      /\ \A i \in DOMAIN log : log'[i] = log[i]
      /\ log'[new] = row
  BY <1>1, <1>2, Appended
<1> HIDE DEF row
<1> SUFFICES ASSUME NEW i \in AllowedRows', AboveCeiling(log'[i].req)
             PROVE  \E j \in 1 .. i - 1 : log'[j] = HumanRow("human_approval", log'[i].req.id)
  BY DEF SignedAboveCeiling
<1>5. CASE i = new
  <2>1. PICK j \in DOMAIN log : log[j] = Approval(req.id)
    BY <1>1, <1>3, <1>4, <1>5 DEF AllowedRows, SignaturesKnown, SignatureKnown
  <2>2. j \in 1 .. i - 1
    BY <1>4, <1>5
  <2> QED
    BY <1>1, <1>4, <1>5, <2>1, <2>2 DEF Approval
<1>6. CASE i \in DOMAIN log
  <2>1. i \in AllowedRows
    BY <1>4, <1>6 DEF AllowedRows
  <2>2. PICK j \in 1 .. i - 1 : log[j] = HumanRow("human_approval", log[i].req.id)
    BY <1>4, <1>6, <2>1 DEF SignedAboveCeiling
  <2>3. j \in DOMAIN log
    BY <1>4, <1>6
  <2> QED
    BY <1>4, <1>6, <2>2, <2>3
<1> QED
  BY <1>4, <1>5, <1>6 DEF AllowedRows

\* The row a thread was signing, once it is in the log.
LEMMA SignatureWritten ==
  ASSUME TypeOK, Exclusion, SignaturesKnown, NEW t \in Thread, job[t].step = "signing",
         log' = Append(log, job[t].row), UNCHANGED mem
  PROVE  SignaturesKnown'
<1>1. job[t].row \in LogRows
  BY JobFields, RowsTyped DEF TypeOK
<1>2. \A u \in Thread \ {t} : job[u].step = "idle"
  BY Alone
<1>3. /\ Len(log) + 1 \in DOMAIN log' /\ log'[Len(log) + 1] = job[t].row
      /\ \A i \in DOMAIN log : i \in DOMAIN log' /\ log'[i] = log[i]
  BY <1>1, Appended
<1>4. ASSUME NEW id \in mem.approved
      PROVE  SignatureKnown(id)'
  <2>1. SignatureKnown(id)
    BY DEF SignaturesKnown
  <2>2. \/ \E i \in DOMAIN log : log[i] = Approval(id)
        \/ job[t].row = Approval(id)
    BY <1>2, <2>1 DEF SignatureKnown
  <2> QED
    BY <1>3, <2>2 DEF SignatureKnown, Approval
<1> QED
  BY <1>4 DEF SignaturesKnown

\* Until an append fails, every approval in memory has its row or is about to.
LEMMA SignatureStep ==
  ASSUME TypeOK, Exclusion, SignaturesKnown, [Next]_vars, "lost" \notin raised'
  PROVE  SignaturesKnown'
<1>1. ASSUME NEW t \in Thread, NEW req \in Ask, Submit(t, req)
      PROVE  SignaturesKnown'
  <2>1. RequestRow(req) \in LogRows
    BY RowsTyped
  <2>2. \A u \in Thread : job[u].step = "idle"
    BY <1>1, Entered DEF Submit
  <2> QED
    BY <1>1, <2>1, <2>2, SignaturesKept DEF Submit
<1>2. ASSUME NEW t \in Thread, NEW id \in RequestId, Resubmit(t, id)
      PROVE  SignaturesKnown'
  BY <1>1, <1>2, NewestIsAsk DEF Resubmit
<1>3. ASSUME NEW t \in Thread, NEW id \in RequestId, Approve(t, id)
      PROVE  SignaturesKnown'
  <2>1. /\ \A u \in Thread : job[u].step = "idle"
        /\ job'[t] = Signing(Approval(id)) /\ UNCHANGED log
    BY <1>3, Entered DEF Approve, Approval
  <2>2. mem'.approved = mem.approved \cup {id}
    BY <1>3, SignTyped DEF Approve, TypeOK
  <2>3. job'[t].step = "signing" /\ job'[t].row = Approval(id)
    BY <2>1 DEF Signing
  <2>4. ASSUME NEW other \in mem'.approved
        PROVE  SignatureKnown(other)'
    <3>1. CASE other = id
      BY <2>3, <3>1 DEF SignatureKnown, Approval
    <3>2. CASE other \in mem.approved
      BY <2>1, <3>2 DEF SignaturesKnown, SignatureKnown, Approval
    <3> QED
      BY <2>2, <3>1, <3>2
  <2> QED
    BY <2>4 DEF SignaturesKnown
<1>4. ASSUME NEW t \in Thread, NEW id \in RequestId, Reject(t, id)
      PROVE  SignaturesKnown'
  <2>1. UNCHANGED log /\ \A u \in Thread : job[u].step = "idle"
    BY <1>4, Entered DEF Reject
  <2>2. mem'.approved = mem.approved
    BY <1>4, DeclineTyped DEF Reject, TypeOK
  <2> QED
    BY <2>1, <2>2, SignaturesKept
<1>5. ASSUME NEW t \in Thread, NEW id \in RequestId, ReportOutcome(t, id)
      PROVE  SignaturesKnown'
  BY <1>5, RowsTyped, SignaturesKept DEF ReportOutcome
<1>6. ASSUME NEW t \in Thread, LogDecision(t)
      PROVE  SignaturesKnown'
  <2> DEFINE row == Decided(mem, Invoices, job[t].req, job[t].at)
  <2>1. row \in LogRows
    BY <1>6, JobFields, DecidedTyped, RowsTyped DEF LogDecision, TypeOK
  <2>2. log' = Append(log, row) /\ UNCHANGED mem /\ job[t].step = "asked"
    BY <1>6 DEF LogDecision, TypeOK
  <2> HIDE DEF row
  <2>3. \A u \in Thread : job[u].step # "signing"
    BY <2>2, Alone
  <2> QED
    BY <2>1, <2>2, <2>3, SignaturesKept
<1>7. ASSUME NEW t \in Thread, ApplyDecision(t)
      PROVE  SignaturesKnown'
  <2>1. job[t].step = "judged" /\ job[t].row \in DecisionRows
    BY <1>7, JobFields DEF ApplyDecision, TypeOK
  <2>2. mem'.approved = mem.approved
    BY <1>7, <2>1, CountTyped DEF ApplyDecision, TypeOK
  <2>3. \A u \in Thread : job[u].step # "signing"
    BY <2>1, Alone
  <2> QED
    BY <1>7, <2>2, <2>3, SignaturesKept DEF ApplyDecision
<1>8. ASSUME NEW t \in Thread, LogSignature(t)
      PROVE  SignaturesKnown'
  BY <1>8, SignatureWritten DEF LogSignature
<1>9. ASSUME NEW t \in Thread, AppendFails(t)
      PROVE  FALSE
  BY <1>9 DEF AppendFails
<1>13. ASSUME NEW t \in Thread, CommitRaises(t)
       PROVE  SignaturesKnown'
  <2>1. PICK row \in InHand(t) : log' = Append(log, row)
    BY <1>13 DEF CommitRaises
  <2>2. Leave(t) /\ UNCHANGED mem
    BY <1>13 DEF CommitRaises
  <2>3. row \in LogRows
    BY <2>1, InHandTyped
  <2>4. CASE job[t].step = "signing"
    BY <2>1, <2>2, <2>4, InHandTyped, SignatureWritten
  <2>5. CASE job[t].step # "signing"
    BY <2>1, <2>2, <2>3, <2>5, LeaveTyped, SignaturesKept
  <2> QED
    BY <2>4, <2>5
<1>10. CASE Crash
  BY <1>10, FreshTyped DEF Crash, SignaturesKnown
<1>11. CASE Rebuild
  <2>1. /\ ~serving /\ UNCHANGED <<log, job>>
        /\ cursor + 1 \in DOMAIN log /\ log[cursor + 1] \in LogRows
        /\ mem' = RebuildRow(mem, log[cursor + 1])
    BY <1>11 DEF Rebuild, TypeOK
  <2>2. \A id \in mem'.approved : id \in mem.approved \/ log[cursor + 1] = Approval(id)
    BY <2>1, RebuildRowTyped DEF TypeOK
  <2>3. \A id \in mem'.approved : SignatureKnown(id)
    BY <2>1, <2>2 DEF SignaturesKnown, SignatureKnown
  <2> QED
    BY <2>1, <2>3 DEF SignaturesKnown, SignatureKnown, Approval
<1>12. CASE Serve \/ Tick \/ UNCHANGED vars
  BY <1>12, SignaturesKept DEF Serve, Tick, vars
<1> QED
  BY <1>1, <1>2, <1>3, <1>4, <1>5, <1>6, <1>7, <1>8, <1>9, <1>10, <1>11, <1>12, <1>13,
     SignableKnown
     DEF Next, Step, Finish

LEMMA EvidenceStep ==
  ASSUME TypeOK, Exclusion, SignaturesKnown, SignedAboveCeiling, [Next]_vars
  PROVE  SignedAboveCeiling'
<1>1. ASSUME NEW t \in Thread, NEW req \in Ask, Submit(t, req)
      PROVE  SignedAboveCeiling'
  <2>1. RequestRow(req) \in LogRows /\ ~Allowed(RequestRow(req))
    BY RowsTyped DEF RequestRow, Allowed
  <2> QED
    BY <1>1, <2>1, EvidenceKept DEF Submit
<1>2. ASSUME NEW t \in Thread, NEW id \in RequestId, Resubmit(t, id)
      PROVE  SignedAboveCeiling'
  BY <1>1, <1>2, NewestIsAsk DEF Resubmit
<1>3. ASSUME NEW t \in Thread, NEW id \in RequestId, ReportOutcome(t, id)
      PROVE  SignedAboveCeiling'
  <2>1. OutcomeRow(id) \in LogRows /\ ~Allowed(OutcomeRow(id))
    BY RowsTyped DEF OutcomeRow, Allowed
  <2> QED
    BY <1>3, <2>1, EvidenceKept DEF ReportOutcome
<1>4. ASSUME NEW t \in Thread, LogDecision(t)
      PROVE  SignedAboveCeiling'
  <2>1. /\ job[t].step = "asked" /\ job[t].req \in Ask /\ job[t].at \in Instants
        /\ log' = Append(log, Decided(mem, Invoices, job[t].req, job[t].at))
    BY <1>4, JobFields DEF LogDecision, TypeOK
  <2>2. \A u \in Thread : job[u].step # "signing"
    BY <2>1, Alone
  <2> QED
    BY <2>1, <2>2, DecisionSigned
<1>5. ASSUME NEW t \in Thread, LogSignature(t)
      PROVE  SignedAboveCeiling'
  <2>1. /\ job[t].step = "signing" /\ job[t].row \in HumanRows
        /\ log' = Append(log, job[t].row)
    BY <1>5, JobFields DEF LogSignature, TypeOK
  <2>2. job[t].row \in LogRows /\ ~Allowed(job[t].row)
    BY <2>1, RowsTyped DEF HumanRows, Allowed
  <2> QED
    BY <2>1, <2>2, EvidenceKept
<1>6. ASSUME NEW t \in Thread, AppendFails(t)
      PROVE  SignedAboveCeiling'
  BY <1>6, EvidenceTruncated, EvidenceKept DEF AppendFails
<1>7. ASSUME NEW t \in Thread, CommitRaises(t)
      PROVE  SignedAboveCeiling'
  <2>1. PICK row \in InHand(t) : log' = Append(log, row)
    BY <1>7 DEF CommitRaises
  <2>2. row \in LogRows /\ job[t].step \in {"asked", "signing", "idle"}
    BY <2>1, InHandTyped
  <2>3. CASE job[t].step = "asked"
    <3>1. job[t].req \in Ask /\ job[t].at \in Instants
      BY <2>3, JobFields DEF TypeOK
    <3>2. log' = Append(log, Decided(mem, Invoices, job[t].req, job[t].at))
      BY <2>1, <2>3, InHandTyped
    <3>3. \A u \in Thread : job[u].step # "signing"
      BY <2>3, Alone
    <3> QED
      BY <3>1, <3>2, <3>3, DecisionSigned
  <2>4. CASE job[t].step # "asked"
    <3>1. ~Allowed(row)
      BY <2>1, <2>2, <2>4, InHandTyped DEF HumanRows, Allowed
    <3> QED
      BY <2>1, <2>2, <3>1, EvidenceKept
  <2> QED
    BY <2>3, <2>4
<1>8. CASE Crash
  BY <1>8, EvidenceTruncated DEF Crash
<1>9. CASE UNCHANGED log
  BY <1>9, EvidenceKept
<1> QED
  BY <1>1, <1>2, <1>3, <1>4, <1>5, <1>6, <1>7, <1>8, <1>9, SignableKnown
     DEF Next, Step, Finish, ApplyDecision, Approve, Reject, Rebuild, Serve, Tick, vars

SignatureInv ==
  /\ TypeOK /\ Exclusion /\ RaisedKnown
  /\ "lost" \notin raised => SignaturesKnown

\* What has been raised is forgotten when the process dies, and only then.
LEMMA LostGrows ==
  ASSUME [Next]_vars, ~Crash
  PROVE  raised \subseteq raised'
<1>1. ASSUME NEW t \in Thread, Step(t)
      PROVE  raised \subseteq raised'
  BY <1>1 DEF Step, Finish, Submit, Resubmit, Approve, Reject, ReportOutcome, LogDecision,
              ApplyDecision, LogSignature, AppendFails, CommitRaises
<1>2. ASSUME Rebuild \/ Serve \/ Tick \/ UNCHANGED vars
      PROVE  raised \subseteq raised'
  BY <1>2 DEF Rebuild, Serve, Tick, vars
<1> QED
  BY <1>1, <1>2 DEF Next

LEMMA SignatureAlways == Spec => []SignatureInv
<1>1. Init => SignatureInv
  <2> SUFFICES ASSUME Init
               PROVE  SignatureInv
    OBVIOUS
  <2>1. mem.approved = {}
    BY FreshTyped DEF Init
  <2> QED
    BY <2>1, TypeInit, RaisedInit DEF Init, SignatureInv, Exclusion, SignaturesKnown, Idle
<1>2. SignatureInv /\ [Next]_vars => SignatureInv'
  <2> SUFFICES ASSUME SignatureInv, [Next]_vars
               PROVE  SignatureInv'
    OBVIOUS
  <2>1. TypeOK' /\ Exclusion' /\ RaisedKnown'
    BY TypeStep, ExclusionStep, RaisedStep DEF SignatureInv
  <2>2. ASSUME "lost" \notin raised'
        PROVE  SignaturesKnown'
    <3>1. CASE Crash
      BY <3>1, FreshTyped DEF Crash, SignaturesKnown
    <3>2. CASE ~Crash
      <4>1. raised \subseteq raised'
        BY <3>2, LostGrows
      <4> QED
        BY <2>2, <4>1, SignatureStep DEF SignatureInv
    <3> QED
      BY <3>1, <3>2
  <2> QED
    BY <2>1, <2>2 DEF SignatureInv
<1> QED
  BY <1>1, <1>2, PTL DEF Spec

\* As long as no append fails, nothing above a ceiling is allowed that a person's
\* row in the log does not precede, whatever commits leave open and whenever the
\* process dies.  The assumption is needed: approve() moves the counters before it
\* writes the row (Gateway.approve, r04, r12, r14).
THEOREM GatewaySignedAboveCeiling ==
  ASSUME MaxFailures = 0
  PROVE  Spec => []SignedAboveCeiling
<1>1. Init => SignedAboveCeiling
  BY DEF Init, SignedAboveCeiling, AllowedRows
<1>2. SignatureInv /\ SignedAboveCeiling /\ [Next]_vars => SignedAboveCeiling'
  BY EvidenceStep DEF SignatureInv, RaisedKnown
<1> QED
  BY <1>1, <1>2, SignatureAlways, PTL DEF Spec

-----------------------------------------------------------------------------
(* The gateway implements Checkpost as long as no append raises.  Checkpost  *)
(* judges on Rebuilt(log), a recursive function.  The invariant says what    *)
(* the counters have to do with its values: every append extends the         *)
(* function of the log before it, and a process that starts again reads it   *)
(* from its beginning.  What an append that raised left out of the counters, *)
(* or put into them alone, is so until then.                                 *)

IsRebuild(f, rows) ==
  f = [n \in 0 .. Len(rows) |-> IF n = 0 THEN Fresh ELSE RebuildRow(f[n - 1], rows[n])]

\* What the counters are to the value of the whole log: equal to it, one row
\* behind it while a decision is written and not counted, one row ahead of it
\* while a signature is counted and not written.
MemoryKnown(told) ==
  /\ \A t \in Thread : job[t].step = "judged" => told = RebuildRow(mem, job[t].row)
  /\ \A t \in Thread : job[t].step = "signing" => mem = RebuildRow(told, job[t].row)
  /\ serving /\ (\A t \in Thread : job[t].step \notin {"judged", "signing"}) => mem = told

Follows(f) ==
  /\ IsRebuild(f, log)
  /\ MemoryKnown(f[Len(log)])
  /\ ~serving => mem = f[cursor]

RebuildKnown == \E f : Follows(f)

-----------------------------------------------------------------------------
(* The function of a log is unique, and grows with it.                       *)

LEMMA RebuildUnique ==
  ASSUME NEW rows, Len(rows) \in Nat, NEW f, NEW g, IsRebuild(f, rows), IsRebuild(g, rows)
  PROVE  f = g
<1> DEFINE different == {n \in 0 .. Len(rows) : f[n] # g[n]}
<1>1. /\ f = [n \in 0 .. Len(rows) |-> f[n]]
      /\ g = [n \in 0 .. Len(rows) |-> g[n]]
  BY DEF IsRebuild
<1>2. \A n \in 0 .. Len(rows) :
        /\ f[n] = IF n = 0 THEN Fresh ELSE RebuildRow(f[n - 1], rows[n])
        /\ g[n] = IF n = 0 THEN Fresh ELSE RebuildRow(g[n - 1], rows[n])
  BY DEF IsRebuild
<1>3. different = {}
  <2> SUFFICES ASSUME different # {}
               PROVE  FALSE
    OBVIOUS
  <2>1. different \in SUBSET Nat
    OBVIOUS
  <2>2. PICK least \in different : \A other \in different : ~ (<<other, least>> \in Below)
    BY <2>1, WFMin, BelowWellFounded, Zenon
  <2>3. least \in 0 .. Len(rows) /\ f[least] # g[least]
    BY <2>2
  <2>4. least # 0
    BY <1>2, <2>3
  <2>5. least - 1 \in 0 .. Len(rows) /\ least - 1 \in Nat /\ least \in Nat /\ least - 1 < least
    BY <2>3, <2>4
  <2>6. least - 1 \notin different
    BY <2>2, <2>5 DEF Below
  <2>7. f[least - 1] = g[least - 1]
    BY <2>5, <2>6
  <2> QED
    BY <1>2, <2>3, <2>4, <2>7
<1>4. \A n \in 0 .. Len(rows) : f[n] = g[n]
  BY <1>3
<1> HIDE DEF different
<1> QED
  BY <1>1, <1>4

LEMMA RebuiltIs ==
  ASSUME NEW rows, Len(rows) \in Nat, NEW f, IsRebuild(f, rows)
  PROVE  Promise!Rebuilt(rows) = f[Len(rows)]
<1> DEFINE upto == CHOOSE g : IsRebuild(g, rows)
<1>1. IsRebuild(upto, rows)
  OBVIOUS
<1>2. upto = f
  BY <1>1, RebuildUnique
<1>3. Promise!Rebuilt(rows) = upto[Len(rows)]
  BY DEF Promise!Rebuilt, IsRebuild
<1> QED
  BY <1>2, <1>3

LEMMA RebuildGrows ==
  ASSUME NEW rows \in Seq(LogRows), NEW row \in LogRows, NEW f, IsRebuild(f, rows)
  PROVE  \E g : /\ IsRebuild(g, Append(rows, row))
                /\ g[Len(Append(rows, row))] = RebuildRow(f[Len(rows)], row)
                /\ \A n \in 0 .. Len(rows) : g[n] = f[n]
<1> DEFINE more == Append(rows, row)
           g == [n \in 0 .. Len(more) |->
                   IF n \in 0 .. Len(rows) THEN f[n] ELSE RebuildRow(f[Len(rows)], row)]
<1>1. /\ Len(rows) \in Nat /\ Len(more) = Len(rows) + 1
      /\ \A i \in 1 .. Len(rows) : more[i] = rows[i]
      /\ more[Len(rows) + 1] = row
  BY AppendProperties, LenProperties
<1>2. \A n \in 0 .. Len(rows) :
        f[n] = IF n = 0 THEN Fresh ELSE RebuildRow(f[n - 1], rows[n])
  BY DEF IsRebuild
<1> HIDE DEF more
<1>3. \A n \in 0 .. Len(more) : g[n] = IF n = 0 THEN Fresh ELSE RebuildRow(g[n - 1], more[n])
  <2> TAKE n \in 0 .. Len(more)
  <2>1. CASE n = 0
    BY <1>1, <1>2, <2>1
  <2>2. CASE n \in 1 .. Len(rows)
    <3>1. n - 1 \in 0 .. Len(rows) /\ n \in 0 .. Len(rows) /\ n # 0 /\ n - 1 \in 0 .. Len(more)
      BY <1>1, <2>2
    <3> QED
      BY <1>1, <1>2, <2>2, <3>1
  <2>3. CASE n = Len(rows) + 1
    <3>1. n - 1 = Len(rows) /\ n \notin 0 .. Len(rows) /\ n # 0 /\ n - 1 \in 0 .. Len(rows)
          /\ n - 1 \in 0 .. Len(more)
      BY <1>1, <2>3
    <3> QED
      BY <1>1, <2>3, <3>1
  <2> QED
    BY <1>1, <2>1, <2>2, <2>3
<1>4. IsRebuild(g, more)
  BY <1>3 DEF IsRebuild
<1>5. g[Len(more)] = RebuildRow(f[Len(rows)], row)
  BY <1>1
<1>6. \A n \in 0 .. Len(rows) : g[n] = f[n]
  BY <1>1
<1> HIDE DEF g
<1> QED
  BY <1>4, <1>5, <1>6 DEF more

\* A row the rebuild does not look at changes nothing.
LEMMA PassedOver ==
  ASSUME NEW m, NEW row, row.type \in {"request", "outcome"}
  PROVE  RebuildRow(m, row) = m
BY DEF RebuildRow

\* Live and rebuilt, a row a person signed counts the same, and so does a decision.
LEMMA LiveIsRebuilt ==
  /\ \A m, id : /\ RebuildRow(m, HumanRow("human_approval", id)) = Sign(m, id)
                /\ RebuildRow(m, HumanRow("human_rejection", id)) = Decline(m, id)
  /\ \A m : \A row \in DecisionRows : RebuildRow(m, row) = Count(m, row)
BY DEF RebuildRow, HumanRow, DecisionRows

\* Every log has one.
LEMMA RebuildExists ==
  ASSUME NEW rows \in Seq(LogRows)
  PROVE  \E f : IsRebuild(f, rows)
<1> DEFINE N == Len(rows)
           step == [p \in (1 .. N) \X Counters |-> RebuildRow(p[2], rows[p[1]])]
<1>1. N \in Nat /\ \A n \in 1 .. N : rows[n] \in LogRows
  BY LenProperties
<1>2. step \in [(1 .. N) \X Counters -> Counters]
  BY <1>1, RebuildRowTyped
<1>3. \A n \in 1 .. N, m \in Counters : step[<<n, m>>] = RebuildRow(m, rows[n])
  OBVIOUS
<1> HIDE DEF step, N
<1>4. PICK g \in [0 .. N -> Counters] : Stepwise(g, N, Fresh, step)
  BY <1>1, <1>2, FreshTyped, Recursion
<1>5. \A n \in 0 .. N : g[n] = IF n = 0 THEN Fresh ELSE RebuildRow(g[n - 1], rows[n])
  <2> TAKE n \in 0 .. N
  <2>1. CASE n = 0
    BY <1>4, <2>1 DEF Stepwise
  <2>2. CASE n # 0
    <3>1. n \in 1 .. N /\ n - 1 \in 0 .. N
      BY <1>1, <2>2
    <3>2. g[n - 1] \in Counters /\ g[n] = step[<<n, g[n - 1]>>]
      BY <1>4, <3>1 DEF Stepwise
    <3> QED
      BY <1>3, <2>2, <3>1, <3>2
  <2> QED
    BY <2>1, <2>2
<1>6. g = [n \in 0 .. N |-> g[n]]
  BY <1>4
<1>7. g = [n \in 0 .. N |-> IF n = 0 THEN Fresh ELSE RebuildRow(g[n - 1], rows[n])]
  BY <1>5, <1>6
<1> QED
  BY <1>7 DEF IsRebuild, N

-----------------------------------------------------------------------------
(* Every step keeps the function.                                            *)

LEMMA RebuildStep ==
  ASSUME TypeOK, Exclusion, RebuildKnown, [Next]_vars, ~Crash, raised' = {}
  PROVE  RebuildKnown'
<1> DEFINE told(f) == f[Len(log)]
<1>0. PICK f : Follows(f)
  BY DEF RebuildKnown
<1> USE DEF Follows
\* What an append makes of the function.
<1>1. ASSUME NEW row \in LogRows, log' = Append(log, row)
      PROVE  \E g : /\ IsRebuild(g, log') /\ g[Len(log')] = RebuildRow(told(f), row)
                    /\ \A n \in 0 .. Len(log) : g[n] = f[n]
  BY <1>0, <1>1, RebuildGrows DEF TypeOK
<1>2. ASSUME NEW t \in Thread, NEW req \in Ask, Submit(t, req)
      PROVE  RebuildKnown'
  <2>1. RequestRow(req) \in LogRows /\ log' = Append(log, RequestRow(req))
    BY <1>2, SubmitTyped
  <2>2. PICK g : IsRebuild(g, log') /\ g[Len(log')] = RebuildRow(told(f), RequestRow(req))
    BY <1>1, <2>1
  <2>3. RebuildRow(told(f), RequestRow(req)) = told(f)
    BY PassedOver DEF RequestRow
  <2>4. /\ mem' = mem /\ serving' /\ serving
        /\ \A u \in Thread : job[u].step = "idle"
        /\ \A u \in Thread : job'[u].step \in {"idle", "asked"}
    BY <1>2, Entered DEF Submit, Asked
  <2>5. mem = told(f)
    BY <1>0, <2>4 DEF MemoryKnown
  <2>6. Follows(g)'
    BY <2>2, <2>3, <2>4, <2>5 DEF MemoryKnown, IsRebuild
  <2> QED
    BY <2>6 DEF RebuildKnown
<1>3. ASSUME NEW t \in Thread, NEW id \in RequestId, Resubmit(t, id)
      PROVE  RebuildKnown'
  BY <1>2, <1>3, NewestIsAsk DEF Resubmit
<1>4. ASSUME NEW t \in Thread, NEW id \in RequestId, Approve(t, id) \/ Reject(t, id)
      PROVE  RebuildKnown'
  <2> DEFINE row == job'[t].row
  <2>1. /\ job'[t].step = "signing" /\ mem' = RebuildRow(mem, row)
        /\ UNCHANGED <<log, serving, cursor>> /\ serving
        /\ \A u \in Thread : job[u].step = "idle"
        /\ \A u \in Thread \ {t} : job'[u].step = "idle"
    BY <1>4, Entered, LiveIsRebuilt DEF Approve, Reject, Signing
  <2>2. mem = told(f)
    BY <1>0, <2>1 DEF MemoryKnown
  <2>3. Follows(f)'
    BY <1>0, <2>1, <2>2 DEF MemoryKnown, IsRebuild
  <2> QED
    BY <2>3 DEF RebuildKnown
<1>5. ASSUME NEW t \in Thread, NEW id \in RequestId, ReportOutcome(t, id)
      PROVE  RebuildKnown'
  <2>1. /\ OutcomeRow(id) \in LogRows /\ log' = Append(log, OutcomeRow(id))
        /\ UNCHANGED <<mem, job, serving>> /\ serving
    BY <1>5, RowsTyped DEF ReportOutcome
  <2>2. PICK g : IsRebuild(g, log') /\ g[Len(log')] = RebuildRow(told(f), OutcomeRow(id))
    BY <1>1, <2>1
  <2>3. RebuildRow(told(f), OutcomeRow(id)) = told(f)
    BY PassedOver DEF OutcomeRow
  <2>4. Follows(g)'
    BY <1>0, <2>1, <2>2, <2>3, ZenonT(40) DEF MemoryKnown, IsRebuild
  <2> QED
    BY <2>4 DEF RebuildKnown
<1>6. ASSUME NEW t \in Thread, LogDecision(t)
      PROVE  RebuildKnown'
  <2> DEFINE row == Decided(mem, Invoices, job[t].req, job[t].at)
  <2>1. row \in DecisionRows /\ row \in LogRows
    BY <1>6, JobFields, DecidedTyped, RowsTyped DEF LogDecision, TypeOK
  <2>2. /\ log' = Append(log, row) /\ job[t].step = "asked" /\ UNCHANGED <<mem, serving>>
        /\ job' = [job EXCEPT ![t] = Judged(row)]
    BY <1>6 DEF LogDecision
  <2> HIDE DEF row
  <2>3. /\ serving /\ job'[t].step = "judged" /\ job'[t].row = row
        /\ \A u \in Thread \ {t} : job[u].step = "idle" /\ job'[u].step = "idle"
    BY <2>2, Alone DEF TypeOK, Judged
  <2>4. mem = told(f)
    BY <1>0, <2>2, <2>3 DEF MemoryKnown
  <2>5. PICK g : IsRebuild(g, log') /\ g[Len(log')] = RebuildRow(told(f), row)
    BY <1>1, <2>1, <2>2
  <2>6. Follows(g)'
    BY <2>2, <2>3, <2>4, <2>5 DEF MemoryKnown, IsRebuild
  <2> QED
    BY <2>6 DEF RebuildKnown
<1>7. ASSUME NEW t \in Thread, ApplyDecision(t)
      PROVE  RebuildKnown'
  <2>1. /\ job[t].step = "judged" /\ job[t].row \in DecisionRows
        /\ mem' = Count(mem, job[t].row) /\ Release(t) /\ UNCHANGED <<log, serving, cursor>>
    BY <1>7, JobFields DEF ApplyDecision, TypeOK
  <2>2. mem' = RebuildRow(mem, job[t].row)
    BY <2>1, LiveIsRebuilt
  <2>3. serving /\ \A u \in Thread : job'[u].step = "idle"
    BY <2>1, Left, Alone
  <2>4. mem' = told(f)
    BY <1>0, <2>1, <2>2 DEF MemoryKnown
  <2>5. Follows(f)'
    BY <1>0, <2>1, <2>3, <2>4 DEF MemoryKnown, IsRebuild
  <2> QED
    BY <2>5 DEF RebuildKnown
<1>8. ASSUME NEW t \in Thread, LogSignature(t)
      PROVE  RebuildKnown'
  <2>1. /\ job[t].step = "signing" /\ job[t].row \in LogRows
        /\ log' = Append(log, job[t].row) /\ Release(t) /\ UNCHANGED <<mem, serving>>
    BY <1>8, JobFields, RowsTyped DEF LogSignature, TypeOK
  <2>2. serving /\ \A u \in Thread : job'[u].step = "idle"
    BY <2>1, Left, Alone
  <2>3. PICK g : IsRebuild(g, log') /\ g[Len(log')] = RebuildRow(told(f), job[t].row)
    BY <1>1, <2>1
  <2>4. mem' = g[Len(log')]
    BY <1>0, <2>1, <2>3 DEF MemoryKnown
  <2>5. Follows(g)'
    BY <2>1, <2>2, <2>3, <2>4 DEF MemoryKnown, IsRebuild
  <2> QED
    BY <2>5 DEF RebuildKnown
<1>9. ASSUME NEW t \in Thread, AppendFails(t)
      PROVE  RebuildKnown'
  BY <1>9 DEF AppendFails
<1>10. ASSUME NEW t \in Thread, CommitRaises(t)
       PROVE  RebuildKnown'
  BY <1>10 DEF CommitRaises
<1>11. CASE Rebuild
  <2>1. /\ ~serving /\ cursor + 1 \in 0 .. Len(log) /\ cursor + 1 # 0 /\ (cursor + 1) - 1 = cursor
        /\ mem' = RebuildRow(mem, log[cursor + 1]) /\ cursor' = cursor + 1
        /\ UNCHANGED <<log, serving, job>>
    BY <1>11, LenProperties DEF Rebuild, TypeOK
  <2>2. f[cursor + 1] = RebuildRow(f[cursor], log[cursor + 1])
    BY <1>0, <2>1 DEF IsRebuild
  <2>3. \A u \in Thread : job[u].step = "idle"
    BY <2>1, Nobody
  <2>4. mem' = f[cursor']
    BY <1>0, <2>1, <2>2
  <2>5. Follows(f)'
    BY <1>0, <2>1, <2>3, <2>4 DEF MemoryKnown, IsRebuild
  <2> QED
    BY <2>5 DEF RebuildKnown
<1>12. CASE Serve
  <2>1. \A u \in Thread : job[u].step = "idle"
    BY <1>12, Nobody DEF Serve
  <2>2. Follows(f)'
    BY <1>0, <1>12, <2>1 DEF Serve, MemoryKnown, IsRebuild
  <2> QED
    BY <2>2 DEF RebuildKnown
<1>13. CASE Tick \/ UNCHANGED vars
  <2>1. UNCHANGED <<log, mem, serving, cursor, job>>
    BY <1>13 DEF Tick, vars
  <2>2. Follows(f)'
    BY <1>0, <2>1 DEF MemoryKnown, IsRebuild
  <2> QED
    BY <2>2 DEF RebuildKnown
<1> QED
  BY <1>2, <1>3, <1>4, <1>5, <1>6, <1>7, <1>8, <1>9, <1>10, <1>11, <1>12, <1>13, SignableKnown
  DEF Next, Step, Finish

\* A process that starts has counted nothing of its log.
LEMMA RebuildBegins ==
  ASSUME TypeOK, Crash
  PROVE  RebuildKnown'
<1>1. log' \in Seq(LogRows) /\ Len(log') \in Nat
  BY Truncated, LenProperties DEF Crash
<1>2. PICK f : IsRebuild(f, log')
  BY <1>1, RebuildExists
<1>3. f[0] = Fresh
  BY <1>1, <1>2 DEF IsRebuild
<1>4. mem' = Fresh /\ cursor' = 0 /\ ~serving' /\ \A t \in Thread : job'[t].step = "idle"
  BY DEF Crash, Idle
<1>5. Follows(f)'
  BY <1>2, <1>3, <1>4 DEF Follows, MemoryKnown, IsRebuild
<1> QED
  BY <1>5 DEF RebuildKnown

RebuildInv == TypeOK /\ Exclusion /\ RaisedKnown /\ (raised = {} => RebuildKnown)

LEMMA RebuildInit == Init => RebuildInv
<1> SUFFICES ASSUME Init
             PROVE  RebuildInv
  OBVIOUS
<1> DEFINE f == [n \in 0 .. 0 |-> Fresh]
<1>1. Len(log) = 0 /\ mem = Fresh /\ serving /\ \A t \in Thread : job[t].step = "idle"
  BY DEF Init, Idle
<1>2. f = [n \in 0 .. 0 |-> IF n = 0 THEN Fresh ELSE RebuildRow(f[n - 1], log[n])] /\ f[0] = Fresh
  OBVIOUS
<1>3. Follows(f)
  BY <1>1, <1>2 DEF Follows, IsRebuild, MemoryKnown
<1> QED
  BY <1>1, <1>3, TypeInit, RaisedInit DEF RebuildInv, RebuildKnown, Exclusion

LEMMA RebuildAlways == Spec => []RebuildInv
<1>1. RebuildInv /\ [Next]_vars => RebuildInv'
  <2> SUFFICES ASSUME RebuildInv, [Next]_vars
               PROVE  RebuildInv'
    OBVIOUS
  <2>1. TypeOK' /\ Exclusion' /\ RaisedKnown'
    BY TypeStep, ExclusionStep, RaisedStep DEF RebuildInv
  <2>2. ASSUME raised' = {}
        PROVE  RebuildKnown'
    <3>1. CASE Crash
      BY <3>1, RebuildBegins DEF RebuildInv
    <3>2. CASE ~Crash
      <4>1. raised = {}
        BY <2>2, <3>2, LostGrows
      <4> QED
        BY <2>2, <3>2, <4>1, RebuildStep DEF RebuildInv
    <3> QED
      BY <3>1, <3>2
  <2> QED
    BY <2>1, <2>2 DEF RebuildInv
<1> QED
  BY <1>1, RebuildInit, PTL DEF Spec

\* Whenever the door is open and no append has raised since the process
\* started, the counters are, field for field, what a reader would make of the
\* ledger's rows in order: live counting and the rebuild after a restart are the
\* same function, and a restart undoes whatever an append that raised has done
\* to the counters (Gateway._rebuild_from_ledger, _apply_allowed, approve and
\* reject).
MemoryIsRebuilt ==
  raised = {} /\ serving /\ lock = NoThread => mem = Promise!Rebuilt(log)

THEOREM GatewayMemoryIsRebuilt == Spec => []MemoryIsRebuilt
<1>1. RebuildInv => MemoryIsRebuilt
  <2> SUFFICES ASSUME RebuildInv, raised = {}, serving, lock = NoThread
               PROVE  mem = Promise!Rebuilt(log)
    BY DEF MemoryIsRebuilt
  <2>1. PICK f : Follows(f)
    BY DEF RebuildInv, RebuildKnown
  <2>2. \A t \in Thread : job[t].step = "idle"
    BY Nobody DEF RebuildInv, Free
  <2>3. mem = f[Len(log)]
    BY <2>1, <2>2 DEF Follows, MemoryKnown
  <2> QED
    BY <2>1, <2>3, RebuiltIs, LenProperties DEF Follows, RebuildInv, TypeOK
<1> QED
  BY <1>1, RebuildAlways, PTL

-----------------------------------------------------------------------------
(* The refinement.                                                           *)

LEMMA StepImplements ==
  ASSUME RebuildInv, JustAsked, MaxFailures = 0, MaxKept = 0, [Next]_vars
  PROVE  [Promise!Next]_log
<1> USE DEF RebuildInv
<1>0. kept = 0 /\ raised = {} /\ open = 0 /\ RebuildKnown
  BY NoneOpen DEF RaisedKnown, TypeOK
<1>1. ASSUME NEW t \in Thread, NEW req \in Ask, Submit(t, req)
      PROVE  [Promise!Next]_log
  BY <1>1 DEF Submit, RequestRow, Promise!Next, Promise!Request
<1>2. ASSUME NEW t \in Thread, NEW id \in RequestId, Resubmit(t, id)
      PROVE  [Promise!Next]_log
  BY <1>1, <1>2, NewestIsAsk DEF Resubmit
<1>3. ASSUME NEW t \in Thread, NEW id \in RequestId, ReportOutcome(t, id)
      PROVE  [Promise!Next]_log
  <2>1. PICK req \in Ask : id = req.id
    BY DEF RequestId
  <2> QED
    BY <1>3, <2>1 DEF ReportOutcome, OutcomeRow, Promise!Next, Promise!Report
<1>4. ASSUME NEW t \in Thread, LogDecision(t)
      PROVE  [Promise!Next]_log
  <2> DEFINE req == job[t].req
             at  == job[t].at
  <2>1. job[t].step = "asked" /\ req \in Ask /\ at \in Instants
        /\ log' = Append(log, Verdicts(mem, req, at))
    BY <1>4, JobFields DEF LogDecision, TypeOK, Verdicts
  <2> HIDE DEF req, at
  <2>2. serving /\ \A u \in Thread : job[u].step \notin {"judged", "signing"}
    BY <2>1, Alone
  <2>3. PICK f : Follows(f)
    BY <1>0 DEF RebuildKnown
  <2>4. mem = Promise!Rebuilt(log)
    BY <2>2, <2>3, RebuiltIs, LenProperties DEF Follows, MemoryKnown, TypeOK
  <2>5. Promise!Waiting(req)
    <3>1. PICK j \in 1 .. Settled : log[j] = RequestRow(req) /\ OnlyOutcomesAfter(j)
      BY <1>0, <2>1 DEF JustAsked, req
    <3>2. Settled = Len(log)
      BY <1>0, LenProperties DEF TypeOK, Settled
    <3>3. j \in DOMAIN log
      BY <3>1, <3>2, LenProperties DEF TypeOK
    <3> QED
      BY <3>1, <3>3 DEF OnlyOutcomesAfter, RequestRow, Promise!Waiting
  <2>6. Promise!Decide(req, at)
    BY <2>1, <2>4, <2>5 DEF Promise!Decide
  <2> QED
    BY <2>1, <2>6 DEF Promise!Next
<1>5. ASSUME NEW t \in Thread, LogSignature(t)
      PROVE  [Promise!Next]_log
  <2>1. job[t].row \in HumanRows /\ log' = Append(log, job[t].row)
    BY <1>5, JobFields DEF LogSignature, TypeOK
  <2>2. PICK req \in Ask : job[t].row.id = req.id
    BY <2>1 DEF HumanRows, RequestId
  <2> QED
    BY <2>1, <2>2 DEF HumanRows, Promise!Next, Promise!Report
<1>6. CASE UNCHANGED log
  BY <1>6
<1>7. ASSUME NEW t \in Thread, AppendFails(t) \/ CommitRaises(t)
      PROVE  FALSE
  BY <1>7, <1>0 DEF AppendFails, CommitRaises, TypeOK
<1>8. CASE Crash
  BY <1>0, <1>6, <1>8, Truncated DEF Crash
<1> QED
  BY <1>1, <1>2, <1>3, <1>4, <1>5, <1>6, <1>7, <1>8, SignableKnown
  DEF Next, Step, Finish, ApplyDecision, Approve, Reject, Rebuild, Serve, Tick, vars

\* Threads, restarts and people at the queue make no difference to a decision:
\* each is the one a single reader of the log would have made (Gateway.submit
\* under Gateway._lock, and Gateway._rebuild_from_ledger).
THEOREM GatewayImplementsCheckpost ==
  ASSUME MaxFailures = 0, MaxKept = 0
  PROVE  Spec => ImplementsCheckpost
<1>1. Init => Promise!Init
  BY DEF Init, Promise!Init
<1>2. Init => OrderInv
  BY TypeInit DEF Init, OrderInv, Exclusion, JustAsked, AskedFirst, Idle
<1>3. OrderInv /\ [Next]_vars => OrderInv'
  BY TypeStep, ExclusionStep, OrderStep DEF OrderInv
<1>4. RebuildInv /\ OrderInv /\ [Next]_vars => [Promise!Next]_log
  BY StepImplements DEF OrderInv
<1> QED
  BY <1>1, <1>2, <1>3, <1>4, RebuildAlways, PTL DEF Spec, Promise!Spec, ImplementsCheckpost
=============================================================================
