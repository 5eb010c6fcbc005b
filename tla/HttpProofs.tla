----------------------------- MODULE HttpProofs -----------------------------
(***************************************************************************)
(* Over HTTP nobody signs for a request that was not sent to a person, and *)
(* /v1/stats is never ahead of the ledger, for any number of threads,      *)
(* crashes and failing appends.  Whatever the handlers do is what the      *)
(* gateway allows, so that what is proved of it holds behind HTTP too.     *)
(*                                                                         *)
(* The queue is only a memory of the log: the invariant says that what is  *)
(* in it, what a handler has found in it and what a thread is about to     *)
(* sign has an escalation on record, in a row that is committed.  Such     *)
(* rows stay, so the evidence does, whatever happens between the check and *)
(* the signature.                                                          *)
(***************************************************************************)
EXTENDS Http, TallyProofs

USE DEF ledger, history, Logged

SentToPerson(id) == \E i \in 1 .. Settled : i \in Escalations(id)

Clears(c) == c.at \in {"approve", "reject"}

ClearedKnown ==
  /\ call = [t \in Thread |-> call[t]]
  /\ \A t \in Thread : Clears(call[t]) => call[t].id \in Signable /\ SentToPerson(call[t].id)

JudgedKnown ==
  \A t \in Thread : job[t].step = "judged" => \E i \in 1 .. Settled : log[i] = job[t].row

SigningKnown ==
  \A t \in Thread : job[t].step = "signing" => SentToPerson(job[t].row.id)

PendingKnown == \A id \in mem.pending : SentToPerson(id)

HttpInv ==
  /\ TypeOK
  /\ Exclusion
  /\ ClearedKnown
  /\ JudgedKnown
  /\ SigningKnown
  /\ PendingKnown
  /\ SignedForEscalated

-----------------------------------------------------------------------------
(* What moves the queue.                                                     *)

\* Only a verdict of needs_human puts a request into the queue, and only its own.
LEMMA CountPending ==
  ASSUME NEW m \in Counters, NEW row \in DecisionRows, NEW id \in Count(m, row).pending
  PROVE  id \in m.pending \/ (row.verdict = "needs_human" /\ row.req.id = id)
<1>1. id \in TrackPending(m, row).pending
  BY CountTyped
<1>2. TrackPending(m, row).pending =
        IF row.verdict = "needs_human" THEN m.pending \cup {row.req.id} ELSE m.pending \ {row.req.id}
  BY DEF TrackPending, Counters
<1> QED
  BY <1>1, <1>2

\* A person's word and a restart take out of the queue and put nothing in.
LEMMA SignedPending ==
  ASSUME NEW m \in Counters, NEW id
  PROVE  /\ Sign(m, id).pending \subseteq m.pending
         /\ Decline(m, id).pending \subseteq m.pending
         /\ Fresh.pending = {}
BY DEF Sign, Decline, Fresh, NoCounts, Counters

LEMMA RebuildPending ==
  ASSUME NEW m \in Counters, NEW row \in LogRows, NEW id \in RebuildRow(m, row).pending
  PROVE  \/ id \in m.pending
         \/ row.type = "decision" /\ row.verdict = "needs_human" /\ row.req.id = id
<1>1. CASE row.type = "decision"
  BY <1>1, CountPending DEF RebuildRow, LogRows, HumanRows, OutcomeRows
<1>2. CASE row.type \in {"human_approval", "human_rejection"}
  BY <1>2, SignedPending DEF RebuildRow
<1>3. CASE row.type \notin {"decision", "human_approval", "human_rejection"}
  BY <1>3 DEF RebuildRow
<1> QED
  BY <1>1, <1>2, <1>3
-----------------------------------------------------------------------------
(* Evidence stays.                                                           *)

\* No committed row goes, and none changes.
Lasting == \A i \in 1 .. Settled : i \in 1 .. Settled' /\ i \in DOMAIN log' /\ log'[i] = log[i]

LEMMA SettledKnown ==
  ASSUME TypeOK
  PROVE  /\ Len(log) \in Nat /\ Settled \in 0 .. Len(log) /\ DOMAIN log = 1 .. Len(log)
         /\ ~serving => Settled = Len(log)
<1>1. Len(log) \in Nat /\ DOMAIN log = 1 .. Len(log)
  BY LenProperties DEF TypeOK
<1>2. open \in 0 .. Len(log) /\ (~serving => open = 0)
  BY DEF TypeOK
<1>3. Settled \in 0 .. Len(log)
  BY <1>1, <1>2 DEF Settled
<1>4. ASSUME ~serving PROVE Settled = Len(log)
  BY <1>1, <1>2, <1>4 DEF Settled
<1> QED
  BY <1>1, <1>3, <1>4

LEMMA LastsUntouched ==
  ASSUME TypeOK, UNCHANGED log, UNCHANGED open
  PROVE  Lasting
<1>1. Settled' = Settled
  BY DEF Settled
<1> QED
  BY <1>1, SettledKnown DEF Lasting

LEMMA LastsLogged ==
  ASSUME TypeOK, NEW row \in LogRows, Logged(row)
  PROVE  Lasting
BY Committed, Appended DEF Lasting

\* A step of the gateway writes one row or none, and takes none that is committed.
LEMMA RowsLast == TypeOK /\ [Next]_vars => Lasting
<1> SUFFICES ASSUME TypeOK, [Next]_vars
             PROVE  Lasting
  OBVIOUS
<1>1. ASSUME NEW t \in Thread, NEW req \in Ask, Submit(t, req)
      PROVE  Lasting
  BY <1>1, RowsTyped, LastsLogged DEF Submit
<1>2. ASSUME NEW t \in Thread, NEW id \in RequestId, Resubmit(t, id)
      PROVE  Lasting
  BY <1>1, <1>2, NewestIsAsk DEF Resubmit
<1>3. ASSUME NEW t \in Thread, NEW id \in RequestId, ReportOutcome(t, id)
      PROVE  Lasting
  BY <1>3, RowsTyped, LastsLogged DEF ReportOutcome
<1>4. ASSUME NEW t \in Thread, LogDecision(t)
      PROVE  Lasting
  <2>1. Decided(mem, Invoices, job[t].req, job[t].at) \in LogRows
    BY <1>4, JobFields, DecidedTyped, RowsTyped DEF LogDecision, TypeOK
  <2> QED
    BY <1>4, <2>1, LastsLogged DEF LogDecision
<1>5. ASSUME NEW t \in Thread, LogSignature(t)
      PROVE  Lasting
  BY <1>5, JobFields, RowsTyped, LastsLogged DEF LogSignature, TypeOK
<1>6. ASSUME NEW t \in Thread, NEW id \in Signable, Approve(t, id) \/ Reject(t, id)
      PROVE  Lasting
  BY <1>6, LastsUntouched DEF Approve, Reject
<1>7. ASSUME NEW t \in Thread, ApplyDecision(t)
      PROVE  Lasting
  BY <1>7, LastsUntouched DEF ApplyDecision
<1>8. ASSUME RolledBack
      PROVE  Lasting
  BY <1>8, Truncated DEF Lasting
<1>9. ASSUME NEW t \in Thread, AppendFails(t)
      PROVE  Lasting
  BY <1>8, <1>9, LastsUntouched DEF AppendFails
<1>10. ASSUME NEW t \in Thread, CommitRaises(t)
       PROVE  Lasting
  <2>1. PICK row \in LogRows : log' = Append(log, row)
    BY <1>10, InHandTyped DEF CommitRaises
  <2>2. Settled' = Settled /\ Settled \in 0 .. Len(log)
    BY <1>10, <2>1, Opened DEF CommitRaises
  <2> QED
    BY <2>1, <2>2, Appended DEF Lasting
<1>11. CASE Crash
  BY <1>8, <1>11 DEF Crash
<1>12. CASE Rebuild \/ Serve \/ Tick \/ UNCHANGED vars
  BY <1>12, LastsUntouched DEF Rebuild, Serve, Tick, vars
<1> QED
  BY <1>1, <1>2, <1>3, <1>4, <1>5, <1>6, <1>7, <1>9, <1>10, <1>11, <1>12 DEF Next, Step, Finish

LEMMA EscalationsKept ==
  ASSUME TypeOK, Lasting
  PROVE  \A id : SentToPerson(id) => SentToPerson(id)'
<1> SUFFICES ASSUME NEW id, SentToPerson(id)
             PROVE  SentToPerson(id)'
  OBVIOUS
<1>1. PICK i \in 1 .. Settled : i \in Escalations(id)
  BY DEF SentToPerson
<1> QED
  BY <1>1 DEF Lasting, SentToPerson, Escalations

\* The signatures on record keep their evidence when rows are taken off the end,
\* or the one that joins them is nobody's signature.
LEMMA SignaturesStand ==
  ASSUME TypeOK, SignedForEscalated,
         \/ UNCHANGED log
         \/ RolledBack
         \/ \E row \in LogRows : /\ log' = Append(log, row)
                                 /\ row.type \notin {"human_approval", "human_rejection"}
  PROVE  SignedForEscalated'
<1>1. Len(log) \in Nat /\ DOMAIN log = 1 .. Len(log)
  BY SettledKnown
<1>2. ASSUME NEW N \in Nat, DOMAIN log' = 1 .. N, \A i \in Signatures' : i \in Signatures,
             \A i \in DOMAIN log \cap DOMAIN log' : log'[i] = log[i]
      PROVE  SignedForEscalated'
  <2> SUFFICES ASSUME NEW i \in Signatures'
               PROVE  \E j \in Escalations(log[i].id)' : j < i
    BY DEF SignedForEscalated
  <2>1. i \in Signatures /\ i \in DOMAIN log /\ i \in DOMAIN log' /\ log'[i] = log[i]
    BY <1>2 DEF Signatures
  <2>2. PICK j \in Escalations(log[i].id) : j < i
    BY <2>1 DEF SignedForEscalated
  <2>3. j \in DOMAIN log /\ j \in DOMAIN log'
    BY <1>1, <1>2, <2>1, <2>2 DEF Escalations
  <2> QED
    BY <1>2, <2>1, <2>2, <2>3 DEF Escalations
<1>3. CASE UNCHANGED log
  BY <1>1, <1>2, <1>3 DEF Signatures
<1>4. CASE RolledBack
  BY <1>2, <1>4, Truncated DEF Signatures
<1>5. ASSUME NEW row \in LogRows, log' = Append(log, row),
             row.type \notin {"human_approval", "human_rejection"}
      PROVE  SignedForEscalated'
  BY <1>2, <1>5, Appended DEF Signatures
<1> QED
  BY <1>3, <1>4, <1>5

\* A signature joins them that has its own evidence among the committed rows.
LEMMA SignatureJoins ==
  ASSUME TypeOK, SignedForEscalated, NEW row \in HumanRows, SentToPerson(row.id),
         log' = Append(log, row)
  PROVE  SignedForEscalated'
<1> DEFINE new == Len(log) + 1
<1>1. /\ Len(log) \in Nat /\ DOMAIN log = 1 .. Len(log) /\ DOMAIN log' = 1 .. new
      /\ \A i \in DOMAIN log : log'[i] = log[i]
      /\ log'[new] = row
  BY RowsTyped, Appended
<1>2. ASSUME NEW i \in Signatures'
      PROVE  \E j \in DOMAIN log' :
               /\ j < i /\ log'[j].type = "decision"
               /\ log'[j].req.id = log'[i].id /\ log'[j].verdict = "needs_human"
  <2>1. CASE i = new
    <3>1. PICK j : j \in Escalations(row.id)
      BY DEF SentToPerson
    <3> QED
      BY <1>1, <2>1, <3>1 DEF Escalations
  <2>2. CASE i \in DOMAIN log
    <3>1. i \in Signatures /\ log'[i] = log[i]
      BY <1>1, <1>2, <2>2 DEF Signatures
    <3>2. PICK j \in Escalations(log[i].id) : j < i
      BY <3>1 DEF SignedForEscalated
    <3> QED
      BY <1>1, <3>1, <3>2 DEF Escalations
  <2> QED
    BY <1>1, <1>2, <2>1, <2>2 DEF Signatures
<1> QED
  BY <1>2 DEF SignedForEscalated, Escalations

\* A step that fills neither the queue nor a hand.
LEMMA NothingNew ==
  ASSUME HttpInv, TypeOK', Exclusion', Lasting,
         mem'.pending \subseteq mem.pending,
         \A t \in Thread : job'[t] = job[t] \/ job'[t].step \in {"idle", "asked"},
         call' = [t \in Thread |-> call'[t]],
         \A t \in Thread : call'[t] = call[t] \/ ~Clears(call'[t]),
         SignedForEscalated'
  PROVE  HttpInv'
<1> USE DEF HttpInv
<1>1. ClearedKnown'
  BY EscalationsKept DEF ClearedKnown
<1>2. JudgedKnown'
  BY DEF JudgedKnown, Lasting
<1>3. SigningKnown'
  BY EscalationsKept DEF SigningKnown
<1>4. PendingKnown'
  BY EscalationsKept DEF PendingKnown
<1> QED
  BY <1>1, <1>2, <1>3, <1>4
-----------------------------------------------------------------------------
\* Every step of a handler is one of the gateway's, or none.
LEMMA HttpStepIsGatewayStep == ClearedKnown /\ [HttpNext]_httpVars => [Next]_vars
BY SignableKnown
   DEF HttpNext, httpVars, RequirePending, SignCleared, ReadCounters, ReadLedger, Reply, Pass,
       Inside, Raise, HttpCrash, Start, Next, Step, Finish, ClearedKnown, Clears, vars

LEMMA HttpStep == HttpInv /\ [HttpNext]_httpVars => HttpInv'
<1> SUFFICES ASSUME HttpInv, [HttpNext]_httpVars
             PROVE  HttpInv'
  OBVIOUS
<1> USE DEF HttpInv
<1>0. TypeOK' /\ Exclusion' /\ Lasting
  BY HttpStepIsGatewayStep, TypeStep, ExclusionStep, RowsLast
<1>1. ASSUME NEW t \in Thread, RequirePending(t)
      PROVE  HttpInv'
  <2>1. UNCHANGED vars /\ call' = [call EXCEPT ![t] = call'[t]]
        /\ call'[t].id \in mem.pending \cap Signable
    BY <1>1 DEF RequirePending, Cleared, Awaiting, ClearedKnown
  <2>2. Settled' = Settled
    BY <2>1 DEF vars, Settled
  <2>3. ClearedKnown'
    BY <2>1, <2>2 DEF ClearedKnown, PendingKnown, SentToPerson, Escalations, vars
  <2> QED
    BY <1>0, <2>1, <2>2, <2>3 DEF vars, JudgedKnown, SigningKnown, PendingKnown, SentToPerson,
       Escalations, SignedForEscalated, Signatures
<1>2. ASSUME NEW t \in Thread, SignCleared(t)
      PROVE  HttpInv'
  <2> DEFINE id == call[t].id
  <2>1. Clears(call[t]) /\ SentToPerson(id) /\ (Approve(t, id) \/ Reject(t, id))
    BY <1>2 DEF SignCleared, Clears, ClearedKnown
  <2>2. /\ UNCHANGED log /\ mem'.pending \subseteq mem.pending
        /\ job'[t].step = "signing" /\ job'[t].row.id = id
        /\ \A u \in Thread \ {t} : job'[u] = job[u]
    BY <2>1, SignedPending DEF Approve, Reject, Acquire, Signing, HumanRow, TypeOK
  <2>3. call' = [call EXCEPT ![t] = NoCall]
    BY <1>2 DEF SignCleared
  <2> HIDE DEF id
  <2>4. \A other : SentToPerson(other) => SentToPerson(other)'
    BY <1>0, EscalationsKept
  <2>5. JudgedKnown'
    BY <1>0, <2>2 DEF JudgedKnown, Lasting
  <2>6. ClearedKnown' /\ SigningKnown' /\ PendingKnown'
    BY <2>1, <2>2, <2>3, <2>4 DEF ClearedKnown, SigningKnown, PendingKnown, NoCall, Clears
  <2> QED
    BY <1>0, <2>2, <2>5, <2>6, SignaturesStand
<1>3. ASSUME NEW t \in Thread, ReadCounters(t) \/ ReadLedger(t) \/ Reply(t)
      PROVE  HttpInv'
  <2>1. UNCHANGED vars
    BY <1>3 DEF ReadCounters, ReadLedger, Reply
  <2>2. /\ call' = [call EXCEPT ![t] = call'[t]]
        /\ ~Clears(call'[t])
    BY <1>3 DEF ReadCounters, ReadLedger, Reply, Counted, Answer, NoCall, Clears, ClearedKnown
  <2> QED
    BY <1>0, <2>1, <2>2, NothingNew, SignaturesStand DEF vars, ClearedKnown
<1>4. ASSUME NEW t \in Thread, Pass(t)
      PROVE  HttpInv'
  <2>1. ASSUME NEW req \in Ask, Submit(t, req)
        PROVE  HttpInv'
    <3>1. /\ log' = Append(log, RequestRow(req)) /\ RequestRow(req) \in LogRows
          /\ RequestRow(req).type = "request"
      BY <2>1, SubmitTyped DEF RequestRow
    <3>2. /\ UNCHANGED mem /\ \A u \in Thread : job'[u] = job[u] \/ job'[u].step = "asked"
      BY <2>1 DEF Submit, Acquire, Asked, TypeOK
    <3> QED
      BY <1>0, <1>4, <3>1, <3>2, NothingNew, SignaturesStand DEF Pass, ClearedKnown
  <2>2. ASSUME NEW id \in RequestId, Resubmit(t, id)
        PROVE  HttpInv'
    BY <2>1, <2>2, NewestIsAsk DEF Resubmit
  <2>3. ASSUME NEW id \in RequestId, ReportOutcome(t, id)
        PROVE  HttpInv'
    <3>1. /\ log' = Append(log, OutcomeRow(id)) /\ OutcomeRow(id) \in LogRows
          /\ OutcomeRow(id).type = "outcome" /\ UNCHANGED <<mem, job>>
      BY <2>3, RowsTyped DEF ReportOutcome, OutcomeRow
    <3> QED
      BY <1>0, <1>4, <3>1, NothingNew, SignaturesStand DEF Pass, ClearedKnown
  <2> QED
    BY <1>4, <2>1, <2>2, <2>3 DEF Pass
<1>5. ASSUME NEW t \in Thread, LogDecision(t), UNCHANGED call
      PROVE  HttpInv'
  <2> DEFINE row == Decided(mem, Invoices, job[t].req, job[t].at)
  <2>1. row \in DecisionRows /\ row \in LogRows
    BY <1>5, JobFields, DecidedTyped, RowsTyped DEF LogDecision, TypeOK
  <2>2. /\ Logged(row) /\ UNCHANGED mem
        /\ job' = [job EXCEPT ![t] = Judged(row)]
    BY <1>5 DEF LogDecision
  <2> HIDE DEF row
  <2>3. Len(log) + 1 \in 1 .. Settled' /\ log'[Len(log) + 1] = row
    BY <2>1, <2>2, Committed, Appended, SettledKnown
  <2>4. row.type = "decision" /\ SignedForEscalated'
    BY <2>1, <2>2, SignaturesStand DEF DecisionRows
  <2>5. JudgedKnown'
    <3>1. \A u \in Thread \ {t} : job'[u] = job[u]
      BY <2>2
    <3>2. job'[t].row = row
      BY <2>2 DEF Judged, TypeOK
    <3> QED
      BY <1>0, <2>3, <3>1, <3>2 DEF JudgedKnown, Lasting
  <2>6. SigningKnown'
    BY <1>0, <2>2, EscalationsKept DEF SigningKnown, Judged, TypeOK
  <2>7. ClearedKnown' /\ PendingKnown'
    BY <1>0, <1>5, <2>2, EscalationsKept DEF ClearedKnown, PendingKnown
  <2> QED
    BY <1>0, <2>4, <2>5, <2>6, <2>7
<1>6. ASSUME NEW t \in Thread, ApplyDecision(t), UNCHANGED call
      PROVE  HttpInv'
  <2>1. /\ job[t].row \in DecisionRows /\ UNCHANGED <<log, open>>
        /\ mem' = Count(mem, job[t].row)
        /\ \A u \in Thread : job'[u] = job[u] \/ job'[u].step = "idle"
    BY <1>6, JobFields DEF ApplyDecision, Release, Idle, TypeOK
  <2>2. PICK i \in 1 .. Settled : log[i] = job[t].row
    BY <1>6 DEF ApplyDecision, JudgedKnown
  <2>3. \A id : SentToPerson(id) => SentToPerson(id)'
    BY <1>0, EscalationsKept
  <2>4. PendingKnown'
    <3> SUFFICES ASSUME NEW id \in mem'.pending
                 PROVE  SentToPerson(id)
      BY <2>3 DEF PendingKnown
    <3>1. id \in mem.pending \/ (job[t].row.verdict = "needs_human" /\ job[t].row.req.id = id)
      BY <2>1, CountPending DEF TypeOK
    <3>2. i \in DOMAIN log
      BY <2>2, SettledKnown
    <3> QED
      BY <2>1, <2>2, <3>1, <3>2 DEF PendingKnown, SentToPerson, Escalations, DecisionRows
  <2>5. JudgedKnown'
    BY <1>0, <2>1 DEF JudgedKnown, Lasting
  <2>6. ClearedKnown' /\ SigningKnown'
    BY <1>6, <2>1, <2>3 DEF ClearedKnown, SigningKnown
  <2> QED
    BY <1>0, <2>1, <2>4, <2>5, <2>6, SignaturesStand
<1>7. ASSUME NEW t \in Thread, LogSignature(t), UNCHANGED call
      PROVE  HttpInv'
  <2>1. /\ job[t].step = "signing" /\ job[t].row \in HumanRows
        /\ log' = Append(log, job[t].row) /\ UNCHANGED mem
        /\ \A u \in Thread : job'[u] = job[u] \/ job'[u].step = "idle"
    BY <1>7, JobFields DEF LogSignature, Release, Idle, TypeOK
  <2>2. SentToPerson(job[t].row.id)
    BY <2>1 DEF SigningKnown
  <2>3. SignedForEscalated'
    BY <2>1, <2>2, SignatureJoins
  <2> QED
    BY <1>0, <1>7, <2>1, <2>3, NothingNew DEF ClearedKnown
<1>8. ASSUME NEW t \in Thread, Raise(t)
      PROVE  HttpInv'
  <2>1. /\ UNCHANGED <<mem, call>> /\ Leave(t)
        /\ AppendFails(t) \/ CommitRaises(t)
    BY <1>8 DEF Raise, AppendFails, CommitRaises
  <2>2. \A u \in Thread : job'[u] = job[u] \/ job'[u].step = "idle"
    BY <2>1, LeaveTyped DEF Idle
  <2>3. SignedForEscalated'
    <3>1. CASE AppendFails(t)
      BY <3>1, SignaturesStand DEF AppendFails
    <3>2. CASE CommitRaises(t)
      <4>1. PICK row \in InHand(t) : log' = Append(log, row)
        BY <3>2 DEF CommitRaises
      <4>2. CASE job[t].step = "signing"
        <5>1. row = job[t].row /\ row \in HumanRows
          BY <4>1, <4>2, InHandTyped
        <5> QED
          BY <4>1, <4>2, <5>1, SignatureJoins DEF SigningKnown
      <4>3. CASE job[t].step # "signing"
        <5>1. row \in LogRows /\ row.type \notin {"human_approval", "human_rejection"}
          BY <4>1, <4>3, InHandTyped DEF DecisionRows
        <5> QED
          BY <4>1, <5>1, SignaturesStand
      <4> QED
        BY <4>2, <4>3
    <3> QED
      BY <2>1, <3>1, <3>2
  <2> QED
    BY <1>0, <2>1, <2>2, <2>3, NothingNew DEF ClearedKnown
<1>9. CASE HttpCrash
  <2>1. /\ RolledBack /\ mem'.pending = {}
        /\ \A u \in Thread : job'[u].step = "idle"
        /\ call' = [u \in Thread |-> NoCall] /\ \A u \in Thread : ~Clears(call'[u])
    BY <1>9, FreshTyped, SignedPending DEF HttpCrash, Crash, Idle, NoCall, Clears
  <2> QED
    BY <1>0, <2>1, NothingNew, SignaturesStand
<1>10. CASE Rebuild /\ UNCHANGED call
  <2> DEFINE row == log[cursor + 1]
  <2>1. /\ UNCHANGED <<log, job>> /\ cursor + 1 \in DOMAIN log /\ row \in LogRows
        /\ mem' = RebuildRow(mem, row) /\ ~serving
    BY <1>10 DEF Rebuild, TypeOK
  <2>2. \A id : SentToPerson(id) => SentToPerson(id)'
    BY <1>0, EscalationsKept
  <2>3. cursor + 1 \in 1 .. Settled
    BY <2>1, SettledKnown
  <2>4. PendingKnown'
    <3> SUFFICES ASSUME NEW id \in mem'.pending
                 PROVE  SentToPerson(id)
      BY <2>2 DEF PendingKnown
    <3>1. id \in mem.pending \/ cursor + 1 \in Escalations(id)
      BY <2>1, RebuildPending DEF TypeOK, Escalations
    <3> QED
      BY <2>3, <3>1 DEF PendingKnown, SentToPerson
  <2>5. JudgedKnown'
    BY <1>0, <2>1 DEF JudgedKnown, Lasting
  <2>6. ClearedKnown' /\ SigningKnown'
    BY <1>10, <2>1, <2>2 DEF ClearedKnown, SigningKnown
  <2> QED
    BY <1>0, <2>1, <2>4, <2>5, <2>6, SignaturesStand
<1>11. CASE (Serve /\ UNCHANGED call) \/ UNCHANGED httpVars
  <2>1. UNCHANGED <<log, mem, job, call>>
    BY <1>11 DEF Serve, httpVars, vars
  <2> QED
    BY <1>0, <2>1, NothingNew, SignaturesStand DEF ClearedKnown
<1> QED
  BY <1>1, <1>2, <1>3, <1>4, <1>5, <1>6, <1>7, <1>8, <1>9, <1>10, <1>11
     DEF HttpNext, Inside, Finish, Start

LEMMA HttpInitial == HttpInit => HttpInv
<1> SUFFICES ASSUME HttpInit
             PROVE  HttpInv
  OBVIOUS
<1>1. mem.pending = {} /\ log = <<>> /\ \A t \in Thread : job[t].step = "idle"
  BY FreshTyped, SignedPending DEF HttpInit, Init, Idle
<1>2. Signatures = {} /\ ClearedKnown
  BY <1>1 DEF HttpInit, Signatures, ClearedKnown, NoCall, Clears
<1> QED
  BY <1>1, <1>2, TypeInit
     DEF HttpInit, HttpInv, Exclusion, JudgedKnown, SigningKnown, PendingKnown,
         SignedForEscalated

LEMMA HttpAlways == HttpSpec => []HttpInv
BY HttpInitial, HttpStep, PTL DEF HttpSpec

\* Whatever threads, crashes and failing appends do between the look into the
\* queue and the signature, no signature that came over HTTP names a request
\* that was never sent to a person (api._require_pending, Gateway.approve and
\* reject).
THEOREM HttpSignedForEscalated == HttpSpec => []SignedForEscalated
BY HttpAlways, PTL DEF HttpInv

\* The API adds no behaviour to the gateway: looking, reading and answering are
\* stutters of it and every other handler is one of its operations, so the caps
\* and the budget proved of Spec hold of whatever is served over HTTP (api.py's
\* handlers).
THEOREM HttpImplementsGateway == HttpSpec => Spec
<1>1. HttpInit => Init
  BY DEF HttpInit
<1>2. HttpInv => ClearedKnown
  BY DEF HttpInv
<1> QED
  BY <1>1, <1>2, HttpAlways, HttpStepIsGatewayStep, PTL DEF HttpSpec, Spec

-----------------------------------------------------------------------------
(* The counters of an answer are never ahead of its ledger.                  *)

DecisionsIn(rows, k) == {i \in 1 .. k : rows[i].type = "decision"}

LEMMA DecisionsFinite ==
  ASSUME NEW rows, NEW k \in Nat
  PROVE  /\ IsFiniteSet(DecisionsIn(rows, k))
         /\ Cardinality(DecisionsIn(rows, k)) \in Nat
<1>1. IsFiniteSet(1 .. k)
  BY FS_Interval
<1>2. DecisionsIn(rows, k) \subseteq 1 .. k
  BY DEF DecisionsIn
<1> QED
  BY <1>1, <1>2, FS_Subset, FS_CardinalityType

\* More rows hold more decisions, and one more if the last of them is one.
LEMMA DecisionsStay ==
  ASSUME NEW rows, NEW more, NEW k \in Nat, NEW n \in Nat, k <= n,
         \A i \in 1 .. k : more[i] = rows[i]
  PROVE  /\ Cardinality(DecisionsIn(rows, k)) <= Cardinality(DecisionsIn(more, n))
         /\ k < n /\ more[n].type = "decision" =>
              Cardinality(DecisionsIn(rows, k)) + 1 <= Cardinality(DecisionsIn(more, n))
<1> DEFINE old == DecisionsIn(rows, k)
           new == DecisionsIn(more, n)
<1>1. IsFiniteSet(old) /\ IsFiniteSet(new) /\ Cardinality(old) \in Nat /\ Cardinality(new) \in Nat
  BY DecisionsFinite
<1>2. old \subseteq new
  BY DEF DecisionsIn
<1>3. ASSUME k < n, more[n].type = "decision"
      PROVE  old \cup {n} \subseteq new /\ n \notin old
  BY <1>2, <1>3 DEF DecisionsIn
<1> HIDE DEF old, new
<1>4. Cardinality(old) <= Cardinality(new)
  BY <1>1, <1>2, FS_Subset
<1>5. ASSUME k < n, more[n].type = "decision"
      PROVE  Cardinality(old) + 1 <= Cardinality(new)
  <2>1. Cardinality(old \cup {n}) = Cardinality(old) + 1
    BY <1>1, <1>3, <1>5, FS_AddElement
  <2>2. Cardinality(old \cup {n}) <= Cardinality(new)
    BY <1>1, <1>3, <1>5, FS_Subset
  <2> QED
    BY <2>1, <2>2
<1> QED
  BY <1>4, <1>5 DEF old, new

\* A decision adds one to them.
LEMMA OneMore ==
  ASSUME NEW m \in Counters, NEW row \in DecisionRows, NEW after, Moved(m, row, after)
  PROVE  /\ Decisions(m.verdict_counts) \in Nat
         /\ Decisions(after.verdict_counts) = Decisions(m.verdict_counts) + 1
<1>1. m.verdict_counts \in [Verdict -> Nat] /\ row.verdict \in Verdict
  BY DEF Counters, DecisionRows
<1>2. \A verdict \in Verdict :
        AddAt(m.verdict_counts, row.verdict, 1)[verdict] =
          m.verdict_counts[verdict] + (IF verdict = row.verdict THEN 1 ELSE 0)
  BY <1>1, AddAtValue
<1>3. after.verdict_counts = AddAt(m.verdict_counts, row.verdict, 1)
  BY DEF Moved
<1>4. /\ "allow" \in Verdict /\ "needs_human" \in Verdict /\ "deny" \in Verdict
      /\ row.verdict \in {"allow", "needs_human", "deny"}
  BY <1>1 DEF Verdict
<1> HIDE DEF Verdict
<1>5. /\ m.verdict_counts["allow"] \in Nat /\ m.verdict_counts["needs_human"] \in Nat
      /\ m.verdict_counts["deny"] \in Nat
  BY <1>1, <1>4
<1> QED
  BY <1>2, <1>3, <1>4, <1>5 DEF Decisions

\* One decision is on record and not counted while a thread has it in hand.
Ahead == IF \E t \in Thread : job[t].step = "judged" THEN 1 ELSE 0

\* The committed rows the counters may know of.
Counts == IF serving THEN Settled ELSE cursor

\* A decision is committed before it is counted.
CountersBehind ==
  Decisions(mem.verdict_counts) + Ahead <= Cardinality(DecisionsIn(log, Counts))

LEMMA CountsTyped ==
  ASSUME TypeOK
  PROVE  /\ Counts \in Nat /\ Counts <= Settled /\ Settled \in Nat
         /\ Decisions(mem.verdict_counts) \in Nat /\ Ahead \in {0, 1}
<1>1. Settled \in Nat /\ cursor \in 0 .. Settled
  BY SettledKnown DEF TypeOK
<1>2. mem.verdict_counts \in [Verdict -> Nat]
  BY DEF TypeOK, Counters
<1>3. Decisions(mem.verdict_counts) \in Nat
  BY <1>2 DEF Decisions, Verdict
<1> QED
  BY <1>1, <1>3 DEF Counts, Ahead

\* A step that counts no decision.
LEMMA NothingCounted ==
  ASSUME TypeOK, Lasting, CountersBehind, Counts' \in Nat, Counts <= Counts',
         mem'.verdict_counts = mem.verdict_counts,
         \A t \in Thread : job'[t].step = "judged" => job'[t] = job[t]
  PROVE  CountersBehind'
<1>1. \A i \in 1 .. Counts : log'[i] = log[i]
  BY CountsTyped DEF Lasting
<1>2. Cardinality(DecisionsIn(log, Counts)) <= Cardinality(DecisionsIn(log', Counts'))
  BY <1>1, CountsTyped, DecisionsStay
<1>3. /\ Cardinality(DecisionsIn(log, Counts)) \in Nat
      /\ Cardinality(DecisionsIn(log', Counts')) \in Nat
  BY CountsTyped, DecisionsFinite
<1>4. Ahead' = Ahead \/ Ahead' = 0
  BY DEF Ahead
<1>5. Decisions(mem.verdict_counts)' = Decisions(mem.verdict_counts)
  BY DEF Decisions
<1> QED
  BY <1>2, <1>3, <1>4, <1>5, CountsTyped DEF CountersBehind

LEMMA CountersStep ==
  ASSUME TypeOK, Exclusion, CountersBehind, [Next]_vars
  PROVE  CountersBehind'
<1> DEFINE counted == Decisions(mem.verdict_counts)
<1>0. Lasting /\ TypeOK'
  BY RowsLast, TypeStep
<1>1. Settled \in Nat /\ Settled' \in Nat /\ Settled <= Settled'
  <2>1. Settled \in Nat
    BY CountsTyped
  <2>2. Settled' \in Nat
    BY <1>0, LenProperties DEF TypeOK, Settled
  <2>3. Settled # 0 => Settled \in 1 .. Settled'
    BY <1>0, <2>1 DEF Lasting
  <2> QED
    BY <2>1, <2>2, <2>3
<1>2. ASSUME serving, serving', mem'.verdict_counts = mem.verdict_counts,
             \A t \in Thread : job'[t].step = "judged" => job'[t] = job[t]
      PROVE  CountersBehind'
  <2>1. Counts = Settled /\ Counts' = Settled'
    BY <1>2 DEF Counts
  <2> QED
    BY <1>0, <1>1, <1>2, <2>1, NothingCounted
<1>3. ASSUME NEW t \in Thread, NEW req \in Ask, Submit(t, req)
      PROVE  CountersBehind'
  BY <1>2, <1>3, Entered DEF Submit, Asked
<1>4. ASSUME NEW t \in Thread, NEW id \in RequestId, Resubmit(t, id)
      PROVE  CountersBehind'
  BY <1>3, <1>4, NewestIsAsk DEF Resubmit
<1>5. ASSUME NEW t \in Thread, NEW id \in RequestId, ReportOutcome(t, id)
      PROVE  CountersBehind'
  BY <1>2, <1>5 DEF ReportOutcome
<1>6. ASSUME NEW t \in Thread, NEW id \in RequestId, Approve(t, id) \/ Reject(t, id)
      PROVE  CountersBehind'
  <2>1. mem'.verdict_counts = mem.verdict_counts
    BY <1>6, SignKeepsTallies DEF Approve, Reject, SameTallies, TypeOK
  <2> QED
    BY <1>2, <1>6, <2>1, Entered DEF Approve, Reject, Signing
<1>7. ASSUME NEW t \in Thread, LogDecision(t)
      PROVE  CountersBehind'
  <2> DEFINE row == Decided(mem, Invoices, job[t].req, job[t].at)
  <2>1. row \in DecisionRows /\ row \in LogRows /\ row.type = "decision"
    BY <1>7, JobFields, DecidedTyped, RowsTyped DEF LogDecision, TypeOK, DecisionRows
  <2>2. Logged(row) /\ job[t].step = "asked" /\ UNCHANGED <<mem, serving>>
    BY <1>7 DEF LogDecision
  <2> HIDE DEF row
  <2>3. /\ serving /\ serving' /\ \A u \in Thread : job[u].step # "judged"
    BY <2>2, Alone
  <2>4. /\ Settled' = Len(log) + 1 /\ log'[Len(log) + 1] = row
        /\ Settled \in 0 .. Len(log) /\ Len(log) \in Nat
    BY <2>1, <2>2, Committed, Appended
  <2>5. \A i \in 1 .. Settled : log'[i] = log[i]
    BY <1>0 DEF Lasting
  <2>6. Cardinality(DecisionsIn(log, Settled)) + 1 <= Cardinality(DecisionsIn(log', Settled'))
    <3>1. Settled < Settled' /\ Settled <= Settled' /\ log'[Settled'].type = "decision"
      BY <1>1, <2>1, <2>4
    <3> QED
      BY <1>1, <2>5, <3>1, DecisionsStay
  <2>7. /\ Cardinality(DecisionsIn(log, Settled)) \in Nat
        /\ Cardinality(DecisionsIn(log', Settled')) \in Nat
    BY <1>1, DecisionsFinite
  <2>8. counted <= Cardinality(DecisionsIn(log, Settled))
    <3>1. Ahead = 0 /\ Counts = Settled
      BY <2>3 DEF Ahead, Counts
    <3>2. counted + 0 <= Cardinality(DecisionsIn(log, Settled))
      BY <3>1 DEF CountersBehind
    <3>3. counted \in Nat
      BY CountsTyped
    <3> QED
      BY <3>2, <3>3
  <2>9. Ahead' \in {0, 1} /\ counted' = counted /\ counted \in Nat
    BY <2>2, CountsTyped DEF Ahead
  <2> HIDE DEF counted
  <2>10. counted' + Ahead' <= Cardinality(DecisionsIn(log', Settled'))
    BY <2>6, <2>7, <2>8, <2>9
  <2> QED
    BY <2>3, <2>10 DEF CountersBehind, Counts, counted
<1>8. ASSUME NEW t \in Thread, ApplyDecision(t)
      PROVE  CountersBehind'
  <2>1. /\ job[t].step = "judged" /\ job[t].row \in DecisionRows
        /\ mem' = Count(mem, job[t].row) /\ Release(t)
        /\ UNCHANGED <<log, open, serving, cursor>>
    BY <1>8, JobFields DEF ApplyDecision, TypeOK
  <2>2. \A u \in Thread : job'[u].step = "idle"
    BY <2>1, Left
  <2>3. counted' = counted + 1
    BY <2>1, CountMoves, OneMore DEF TypeOK
  <2>4. Ahead = 1 /\ Ahead' = 0
    BY <2>1, <2>2 DEF Ahead
  <2>5. Counts' = Counts
    BY <2>1 DEF Counts, Settled
  <2>6. counted \in Nat
    BY CountsTyped
  <2>7. DecisionsIn(log', Counts') = DecisionsIn(log, Counts)
    BY <2>1, <2>5
  <2>8. counted + 1 <= Cardinality(DecisionsIn(log, Counts))
    BY <2>4 DEF CountersBehind
  <2> HIDE DEF counted
  <2>9. counted' + Ahead' <= Cardinality(DecisionsIn(log', Counts'))
    BY <2>3, <2>4, <2>6, <2>7, <2>8
  <2> QED
    BY <2>9 DEF CountersBehind, counted
<1>9. ASSUME NEW t \in Thread, LogSignature(t)
      PROVE  CountersBehind'
  <2>1. serving
    BY <1>9, Alone DEF LogSignature
  <2>2. \A u \in Thread : job'[u].step = "idle"
    BY <1>9, Left DEF LogSignature
  <2> QED
    BY <1>2, <1>9, <2>1, <2>2 DEF LogSignature
<1>10. ASSUME NEW t \in Thread, AppendFails(t) \/ CommitRaises(t)
       PROVE  CountersBehind'
  <2>1. serving /\ UNCHANGED <<mem, serving>> /\ Leave(t)
    BY <1>10 DEF AppendFails, CommitRaises
  <2>2. \A u \in Thread : job'[u] = job[u] \/ job'[u].step = "idle"
    BY <2>1, LeaveTyped DEF Idle
  <2> QED
    BY <1>2, <2>1, <2>2
<1>11. CASE Crash
  <2>1. /\ mem' = Fresh /\ ~serving' /\ cursor' = 0
        /\ \A u \in Thread : job'[u].step = "idle"
    BY <1>11 DEF Crash, Idle
  <2>2. counted' = 0 /\ Ahead' = 0 /\ Counts' = 0
    BY <2>1 DEF Fresh, NoCounts, Decisions, Verdict, Ahead, Counts
  <2>3. Cardinality(DecisionsIn(log', Counts')) \in Nat
    BY <2>2, DecisionsFinite
  <2> HIDE DEF counted
  <2>4. counted' + Ahead' <= Cardinality(DecisionsIn(log', Counts'))
    BY <2>2, <2>3
  <2> QED
    BY <2>4 DEF CountersBehind, counted
<1>12. CASE Rebuild
  <2> DEFINE row == log[cursor + 1]
  <2>1. /\ ~serving /\ ~serving' /\ UNCHANGED <<log, job>> /\ cursor \in Nat /\ cursor' = cursor + 1
        /\ row \in LogRows /\ mem' = RebuildRow(mem, row) /\ mem \in Counters
    BY <1>12, LenProperties DEF Rebuild, TypeOK, Settled
  <2>2. Counts = cursor /\ Counts' = cursor + 1
    BY <2>1 DEF Counts
  <2>3. \A u \in Thread : job[u].step = "idle"
    BY <2>1, Nobody
  <2>4. CASE row.type = "decision"
    <3>1. row \in DecisionRows
      BY <2>1, <2>4 DEF LogRows, HumanRows, OutcomeRows
    <3>2. counted' = counted + 1 /\ counted \in Nat
      BY <2>1, <3>1, CountMoves, OneMore, LiveIsRebuilt
    <3>3. Ahead = 0 /\ Ahead' = 0
      BY <2>1, <2>3 DEF Ahead
    <3>4. Cardinality(DecisionsIn(log, cursor)) + 1 <= Cardinality(DecisionsIn(log', cursor + 1))
      <4>1. cursor < cursor + 1 /\ cursor <= cursor + 1 /\ cursor + 1 \in Nat
            /\ log'[cursor + 1].type = "decision" /\ \A i \in 1 .. cursor : log'[i] = log[i]
        BY <2>1, <2>4
      <4> QED
        BY <2>1, <4>1, DecisionsStay
    <3>5. /\ Cardinality(DecisionsIn(log, cursor)) \in Nat
          /\ Cardinality(DecisionsIn(log', cursor + 1)) \in Nat
      BY <2>1, DecisionsFinite
    <3>6. counted <= Cardinality(DecisionsIn(log, cursor))
      BY <2>2, <3>2, <3>3 DEF CountersBehind
    <3> HIDE DEF counted
    <3>7. counted' + Ahead' <= Cardinality(DecisionsIn(log', cursor + 1))
      BY <3>2, <3>3, <3>4, <3>5, <3>6
    <3> QED
      BY <2>2, <3>7 DEF CountersBehind, counted
  <2>5. CASE row.type # "decision"
    <3>1. \/ mem' = Sign(mem, row.id) \/ mem' = Decline(mem, row.id) \/ mem' = mem
      BY <2>1, <2>5 DEF RebuildRow
    <3>2. mem'.verdict_counts = mem.verdict_counts
      BY <2>1, <3>1, SignKeepsTallies DEF SameTallies
    <3> QED
      BY <1>0, <2>1, <2>2, <3>2, NothingCounted
  <2> QED
    BY <2>4, <2>5
<1>13. CASE Serve
  <2>1. ~serving /\ serving' /\ cursor = Len(log) /\ UNCHANGED <<log, open, mem, job>>
    BY <1>13 DEF Serve
  <2>2. Counts' = Counts /\ Counts' \in Nat
    BY <1>1, <2>1, SettledKnown DEF Counts, Settled
  <2> QED
    BY <1>0, <2>1, <2>2, NothingCounted, CountsTyped
<1>14. CASE Tick \/ UNCHANGED vars
  <2>1. UNCHANGED <<log, open, mem, job, serving, cursor>>
    BY <1>14 DEF Tick, vars
  <2>2. Counts' = Counts
    BY <2>1 DEF Counts, Settled
  <2> QED
    BY <1>0, <2>1, <2>2, NothingCounted, CountsTyped
<1> QED
  BY <1>3, <1>4, <1>5, <1>6, <1>7, <1>8, <1>9, <1>10, <1>11, <1>12, <1>13, <1>14, SignableKnown
  DEF Next, Step, Finish

\* A handler of /v1/stats holds no more decisions than are committed, and its
\* answer no more than are committed among the entries it names.
StatsKnown ==
  /\ call = [t \in Thread |-> call[t]]
  /\ \A t \in Thread :
       /\ call[t].at = "stats" =>
            /\ call[t].decided \in Nat
            /\ call[t].decided <= Cardinality(DecisionsIn(log, Settled))
       /\ call[t].at = "answer" =>
            /\ call[t].decided \in Nat /\ call[t].entries \in Nat
            /\ \E k \in 0 .. Settled :
                 k <= call[t].entries /\ call[t].decided <= Cardinality(DecisionsIn(log, k))

StatsInv == HttpInv /\ CountersBehind /\ StatsKnown

\* What was counted stays counted while committed rows stay.
LEMMA StatsKept ==
  ASSUME TypeOK, TypeOK', Lasting, StatsKnown,
         call' = [t \in Thread |-> call'[t]],
         \A t \in Thread : call'[t] = call[t] \/ call'[t].at \notin {"stats", "answer"}
  PROVE  StatsKnown'
<1>1. Settled \in Nat /\ Settled' \in Nat /\ Settled <= Settled'
  <2>1. Settled \in Nat
    BY CountsTyped
  <2>2. Settled' \in Nat
    BY LenProperties DEF TypeOK, Settled
  <2>3. Settled # 0 => Settled \in 1 .. Settled'
    BY <2>1 DEF Lasting
  <2> QED
    BY <2>1, <2>2, <2>3
<1>2. \A i \in 1 .. Settled : log'[i] = log[i]
  BY DEF Lasting
<1>3. ASSUME NEW t \in Thread, call'[t] = call[t], call[t].at = "stats"
      PROVE  /\ call[t].decided \in Nat
             /\ call[t].decided <= Cardinality(DecisionsIn(log', Settled'))
  <2>1. Cardinality(DecisionsIn(log, Settled)) <= Cardinality(DecisionsIn(log', Settled'))
    BY <1>1, <1>2, DecisionsStay
  <2>2. /\ Cardinality(DecisionsIn(log, Settled)) \in Nat
        /\ Cardinality(DecisionsIn(log', Settled')) \in Nat
    BY <1>1, DecisionsFinite
  <2> QED
    BY <1>3, <2>1, <2>2 DEF StatsKnown
<1>4. ASSUME NEW t \in Thread, call'[t] = call[t], call[t].at = "answer"
      PROVE  \E k \in 0 .. Settled' :
               k <= call[t].entries /\ call[t].decided <= Cardinality(DecisionsIn(log', k))
  <2>1. PICK k \in 0 .. Settled :
          k <= call[t].entries /\ call[t].decided <= Cardinality(DecisionsIn(log, k))
    BY <1>4 DEF StatsKnown
  <2>2. DecisionsIn(log', k) = DecisionsIn(log, k)
    BY <1>1, <1>2 DEF DecisionsIn
  <2> QED
    BY <1>1, <2>1, <2>2
<1> QED
  BY <1>3, <1>4 DEF StatsKnown

LEMMA StatsStep == StatsInv /\ [HttpNext]_httpVars => StatsInv'
<1> SUFFICES ASSUME StatsInv, [HttpNext]_httpVars
             PROVE  StatsInv'
  OBVIOUS
<1> USE DEF StatsInv
<1>1. HttpInv' /\ [Next]_vars
  BY HttpStep, HttpStepIsGatewayStep DEF HttpInv
<1>2. TypeOK /\ TypeOK' /\ Exclusion
  BY <1>1 DEF HttpInv
<1>3. Lasting /\ CountersBehind'
  BY <1>1, <1>2, RowsLast, CountersStep
<1>4. ASSUME NEW t \in Thread, ReadCounters(t)
      PROVE  StatsKnown'
  <2>1. /\ UNCHANGED <<log, open>>
        /\ call' = [call EXCEPT ![t] = Counted(Decisions(mem.verdict_counts))]
        /\ serving
    BY <1>4 DEF ReadCounters, Spare, vars
  <2>2. /\ Decisions(mem.verdict_counts) \in Nat
        /\ Decisions(mem.verdict_counts) <= Cardinality(DecisionsIn(log, Settled))
    <3>1. Decisions(mem.verdict_counts) \in Nat /\ Ahead \in {0, 1} /\ Settled \in Nat
      BY <1>2, CountsTyped
    <3>2. Cardinality(DecisionsIn(log, Settled)) \in Nat
      BY <3>1, DecisionsFinite
    <3>3. Decisions(mem.verdict_counts) + Ahead <= Cardinality(DecisionsIn(log, Settled))
      BY <2>1 DEF CountersBehind, Counts
    <3> QED
      BY <3>1, <3>2, <3>3
  <2>3. Settled' = Settled
    BY <2>1 DEF Settled
  <2>4. /\ call'[t].at = "stats" /\ call'[t].decided = Decisions(mem.verdict_counts)
        /\ \A u \in Thread \ {t} : call'[u] = call[u]
        /\ call' = [u \in Thread |-> call'[u]]
    BY <2>1 DEF StatsKnown, Counted
  <2> QED
    BY <2>1, <2>2, <2>3, <2>4 DEF StatsKnown
<1>5. ASSUME NEW t \in Thread, ReadLedger(t)
      PROVE  StatsKnown'
  <2>1. /\ UNCHANGED <<log, open>> /\ call[t].at = "stats"
        /\ call' = [call EXCEPT ![t] = Answer(call[t].decided, Len(log))]
    BY <1>5 DEF ReadLedger, vars
  <2>2. Len(log) \in Nat /\ Settled \in 0 .. Settled /\ Settled <= Len(log)
    BY <1>2, SettledKnown
  <2>3. Settled' = Settled
    BY <2>1 DEF Settled
  <2>4. /\ call'[t].at = "answer" /\ call'[t].decided = call[t].decided
        /\ call'[t].entries = Len(log)
        /\ \A u \in Thread \ {t} : call'[u] = call[u]
        /\ call' = [u \in Thread |-> call'[u]]
    BY <2>1 DEF StatsKnown, Answer
  <2> QED
    BY <2>1, <2>2, <2>3, <2>4 DEF StatsKnown
<1>6. ASSUME call' = [t \in Thread |-> call'[t]],
             \A t \in Thread : call'[t] = call[t] \/ call'[t].at \notin {"stats", "answer"}
      PROVE  StatsKnown'
  BY <1>2, <1>3, <1>6, StatsKept
<1>7. ASSUME NEW t \in Thread, RequirePending(t) \/ SignCleared(t) \/ Reply(t)
      PROVE  StatsKnown'
  <2>1. /\ call' = [call EXCEPT ![t] = call'[t]]
        /\ call'[t].at \notin {"stats", "answer"}
    BY <1>7 DEF RequirePending, SignCleared, Reply, Cleared, NoCall, StatsKnown
  <2> QED
    BY <1>6, <2>1 DEF StatsKnown
<1>8. ASSUME UNCHANGED call
      PROVE  StatsKnown'
  BY <1>6, <1>8 DEF StatsKnown
<1>9. ASSUME HttpCrash
      PROVE  StatsKnown'
  BY <1>6, <1>9 DEF HttpCrash, NoCall
<1>10. StatsKnown'
  BY <1>4, <1>5, <1>7, <1>8, <1>9 DEF HttpNext, Pass, Inside, Raise, Start, httpVars
<1> QED
  BY <1>1, <1>3, <1>10

\* No answer of /v1/stats is ahead of the ledger it is read with, although its
\* counters and its entries are read at two moments without the gateway's lock,
\* and although a rollback may have taken rows off the ledger since: a decision is
\* committed before it is counted (api.stats, Gateway.submit).
THEOREM HttpStatsBehindLedger == HttpSpec => []StatsBehindLedger
<1>1. HttpInit => StatsInv
  <2> SUFFICES ASSUME HttpInit
               PROVE  StatsInv
    OBVIOUS
  <2>1. StatsKnown
    BY DEF HttpInit, StatsKnown, NoCall
  <2>2. HttpInv
    BY HttpInitial
  <2>3. Decisions(mem.verdict_counts) = 0 /\ Ahead = 0
    BY DEF HttpInit, Init, Idle, Fresh, NoCounts, Decisions, Verdict, Ahead
  <2>4. Cardinality(DecisionsIn(log, Counts)) \in Nat
    BY <2>2, CountsTyped, DecisionsFinite DEF HttpInv
  <2> QED
    BY <2>1, <2>2, <2>3, <2>4 DEF StatsInv, CountersBehind
<1>2. StatsInv => StatsBehindLedger
  <2> SUFFICES ASSUME StatsInv, NEW t \in Thread, call[t].at = "answer"
               PROVE  call[t].decided <=
                        Cardinality({i \in DOMAIN log :
                                       i <= call[t].entries /\ log[i].type = "decision"})
    BY DEF StatsBehindLedger
  <2> DEFINE shown == {i \in DOMAIN log : i <= call[t].entries /\ log[i].type = "decision"}
  <2>1. PICK k \in 0 .. Settled :
          k <= call[t].entries /\ call[t].decided <= Cardinality(DecisionsIn(log, k))
    BY DEF StatsInv, StatsKnown
  <2>2. /\ Len(log) \in Nat /\ Settled \in 0 .. Len(log) /\ DOMAIN log = 1 .. Len(log)
        /\ call[t].decided \in Nat /\ call[t].entries \in Nat
    BY SettledKnown DEF StatsInv, StatsKnown, HttpInv
  <2>3. DecisionsIn(log, k) \subseteq shown
    BY <2>1, <2>2 DEF DecisionsIn
  <2>4. IsFiniteSet(shown)
    <3>1. IsFiniteSet(1 .. Len(log))
      BY <2>2, FS_Interval
    <3> QED
      BY <2>2, <3>1, FS_Subset
  <2> HIDE DEF shown
  <2>5. /\ Cardinality(DecisionsIn(log, k)) <= Cardinality(shown)
        /\ Cardinality(DecisionsIn(log, k)) \in Nat /\ Cardinality(shown) \in Nat
    BY <2>2, <2>3, <2>4, FS_Subset, FS_CardinalityType, DecisionsFinite
  <2> QED
    BY <2>1, <2>2, <2>5 DEF shown
<1> QED
  BY <1>1, <1>2, StatsStep, PTL DEF HttpSpec
=============================================================================
