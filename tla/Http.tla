-------------------------------- MODULE Http --------------------------------
(***************************************************************************)
(* engine/api.py in front of the gateway: every handler runs in a thread   *)
(* of a pool.  Submitting, resubmitting and reporting go straight through. *)
(* Approving and rejecting look into the queue first and sign second, and  *)
(* /v1/stats reads counters and ledger one after the other; none of these  *)
(* readers takes the gateway's lock, so anything may happen in between.    *)
(* The clock stands still here: none of it looks at the time.              *)
(***************************************************************************)
EXTENDS Gateway

VARIABLE call   \* the handler each thread is in, and what it has read so far

httpVars == <<vars, call>>

NoCall            == [at |-> "none"]
Cleared(kind, id) == [at |-> kind, id |-> id]
Counted(decided)  == [at |-> "stats", decided |-> decided]
Answer(decided, entries) == [at |-> "answer", decided |-> decided, entries |-> entries]

HttpInit ==
  /\ Init
  /\ call = [t \in Thread |-> NoCall]

\* A thread of the pool with no request in hand.
Spare(t) == serving /\ job[t] = Idle /\ call[t] = NoCall

\* Mutant: whatever id was typed is signed for.
AnyId == RequestId

\* What pending() lists.
Awaiting == mem.pending

\* _require_pending in front of approve and of reject; a 404 changes nothing.
RequirePending(t) ==
  /\ Spare(t)
  /\ \E id \in Awaiting \cap Signable, kind \in {"approve", "reject"} :
       call' = [call EXCEPT ![t] = Cleared(kind, id)]
  /\ UNCHANGED vars

\* approve_action and reject_action, past the check.
SignCleared(t) ==
  /\ \/ call[t].at = "approve" /\ Approve(t, call[t].id)
     \/ call[t].at = "reject" /\ Reject(t, call[t].id)
  /\ call' = [call EXCEPT ![t] = NoCall]

\* What the three counters of the answer add up to.
Decisions(counts) == counts["allow"] + counts["needs_human"] + counts["deny"]

\* /v1/stats: the counters, then the length of the ledger.  The code reads the
\* counters one by one and they only grow meanwhile, so that their sum is at
\* most what it is when the last of them is read: the model reads all of them
\* at that moment.
ReadCounters(t) ==
  /\ Spare(t)
  /\ call' = [call EXCEPT ![t] = Counted(Decisions(mem.verdict_counts))]
  /\ UNCHANGED vars

ReadLedger(t) ==
  /\ call[t].at = "stats"
  /\ call' = [call EXCEPT ![t] = Answer(call[t].decided, Len(log))]
  /\ UNCHANGED vars

Reply(t) ==
  /\ call[t].at = "answer"
  /\ call' = [call EXCEPT ![t] = NoCall]
  /\ UNCHANGED vars

\* The handlers that go straight through.
Pass(t) ==
  /\ Spare(t)
  /\ \/ \E req \in Ask : Submit(t, req)
     \/ \E id \in RequestId : Resubmit(t, id) \/ ReportOutcome(t, id)
  /\ UNCHANGED call

Inside(t) == Finish(t) /\ UNCHANGED call
Raise(t)  == call[t] = NoCall /\ (AppendFails(t) \/ CommitRaises(t)) /\ UNCHANGED call

\* The process dies with every call that was under way.
HttpCrash == Crash /\ call' = [t \in Thread |-> NoCall]

\* lifespan, before the first request is taken.
Start == (Rebuild \/ Serve) /\ UNCHANGED call

HttpNext ==
  \/ \E t \in Thread :
       RequirePending(t) \/ SignCleared(t) \/ ReadCounters(t) \/ ReadLedger(t) \/ Reply(t)
         \/ Pass(t) \/ Inside(t) \/ Raise(t)
  \/ HttpCrash \/ Start

HttpSpec == HttpInit /\ [][HttpNext]_httpVars

\* A thread inside the gateway keeps running and a started process reads its
\* log to the end; nobody is obliged to ask for anything.
HttpFairSpec ==
  HttpSpec /\ (\A t \in Thread : WF_httpVars(Inside(t))) /\ WF_httpVars(Start)

-----------------------------------------------------------------------------
(* Properties.                                                               *)

Signatures == {i \in DOMAIN log : log[i].type \in {"human_approval", "human_rejection"}}
Escalations(id) ==
  {i \in DOMAIN log :
     log[i].type = "decision" /\ log[i].req.id = id /\ log[i].verdict = "needs_human"}

\* Over HTTP no signature names a request that was never sent to a person: the
\* check and the signature are two steps, but what was escalated stays on record,
\* whatever happens in between (api.py:207-218).
SignedForEscalated ==
  \A i \in Signatures : \E j \in Escalations(log[i].id) : j < i

\* The answer of /v1/stats is of two moments, and never ahead of the ledger: no
\* decision is in its counters that is not among the entries it reports, so that
\* an auditor finds all of them (gateway.py:393-405), those that a rollback took
\* out of the ledger since not among them.
StatsBehindLedger ==
  \A t \in Thread : call[t].at = "answer" =>
    call[t].decided <=
      Cardinality({i \in DOMAIN log : i <= call[t].entries /\ log[i].type = "decision"})

\* "Refuse to sign for a request that is not actually waiting" (api.py:207-208).
SignedWhileWaiting ==
  \A i \in Signatures : \E j \in Escalations(log[i].id) :
    j < i /\ \A k \in j + 1 .. i - 1 : ~Speaks(k, log[i].id)
=============================================================================
