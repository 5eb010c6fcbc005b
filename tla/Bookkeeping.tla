----------------------------- MODULE Bookkeeping ----------------------------
(***************************************************************************)
(* engine/gateway.py without its threads: the rows it writes, the counters *)
(* it keeps beside them, what one row does to the counters, live and when  *)
(* they are rebuilt, the context a request is judged on, and the decision. *)
(* Gateway drives these from several threads; Campaign from one loop.      *)
(***************************************************************************)
EXTENDS Economics, RiskModel

CONSTANT Settlements    \* the bank's batches: id -> record

\* [i for i in s if i not in gone]
Without(s, gone) ==
  LET upto[n \in 0 .. Len(s)] ==
        IF n = 0 THEN <<>>
        ELSE IF s[n] \in gone THEN upto[n - 1] ELSE Append(upto[n - 1], s[n])
  IN  upto[Len(s)]

-----------------------------------------------------------------------------
(* Rows of the ledger.                                                       *)

RequestRow(req) == [type |-> "request", req |-> req]
DecisionRow(req, verdict, cost, at) ==
  [type |-> "decision", req |-> req, verdict |-> verdict, cost |-> cost, at |-> at]
HumanRow(type, id) == [type |-> type, id |-> id]
OutcomeRow(id) == [type |-> "outcome", id |-> id]

Allowed(row) == row.type = "decision" /\ row.verdict = "allow"

-----------------------------------------------------------------------------
(* The counters.                                                             *)

NoCounts(customers, invoices, payments) ==
  [contacts       |-> [c \in customers |-> <<>>],
   attempts       |-> [i \in invoices |-> 0],
   spent          |-> [i \in invoices |-> 0],
   refunded       |-> [p \in payments |-> 0],
   used_keys      |-> {},
   approved       |-> {},
   pending        |-> {},
   verdict_counts |-> [v \in Verdict |-> 0],
   spend          |-> 0]

\* Mutant: the "if invoice_id and" dropped, so that None gets a counter too.
AddAtNone(f, x, n) ==
  [y \in DOMAIN f \cup {x} |->
     (IF y \in DOMAIN f THEN f[y] ELSE 0) + (IF y = x THEN n ELSE 0)]

AddAt(f, x, n) == IF x \in DOMAIN f THEN [f EXCEPT ![x] = @ + n] ELSE f

\* _track_pending: any verdict but needs_human takes the request out.
TrackPending(m, row) ==
  [m EXCEPT !.pending = IF row.verdict = "needs_human" THEN @ \cup {row.req.id}
                                                       ELSE @ \ {row.req.id}]

Contacted(contacts, row) ==
  IF Contacts(row.req) THEN [contacts EXCEPT ![row.req.customer] = Append(@, row.at)]
                       ELSE contacts

\* _apply_allowed
ApplyAllowed(m, row) ==
  [m EXCEPT !.contacts  = Contacted(@, row),
            !.attempts  = IF row.req.action \in ATTEMPT_ACTIONS
                            THEN AddAt(@, row.req.invoice, 1) ELSE @,
            !.spent     = AddAt(@, row.req.invoice, row.cost),
            !.refunded  = IF row.req.action = "issue_refund"
                            THEN AddAt(@, row.req.payment, row.req.amount) ELSE @,
            !.used_keys = @ \cup ({row.req.key} \ {None})]

\* What one decision row does to the counters, live and in the rebuild.
Count(m, row) ==
  LET counted == [TrackPending(m, row) EXCEPT !.verdict_counts[row.verdict] = @ + 1]
  IN  IF row.verdict # "allow" THEN counted
      ELSE ApplyAllowed([counted EXCEPT !.spend = @ + row.cost], row)

Sign(m, id)    == [m EXCEPT !.approved = @ \cup {id}, !.pending = @ \ {id}]
Decline(m, id) == [m EXCEPT !.pending = @ \ {id}]

\* Mutant: a signature is forgotten across a restart.
RebuildWithoutApprovals(m, row) ==
  CASE row.type = "human_approval"  -> Decline(m, row.id)
    [] row.type = "human_rejection" -> Decline(m, row.id)
    [] row.type = "decision"        -> Count(m, row)
    [] OTHER                        -> m

\* Mutant: a refusal is forgotten across a restart.
RebuildWithoutRejections(m, row) ==
  CASE row.type = "human_approval"  -> Sign(m, row.id)
    [] row.type = "decision"        -> Count(m, row)
    [] OTHER                        -> m

\* One turn of the loop of _rebuild_from_ledger.
RebuildRow(m, row) ==
  CASE row.type = "human_approval"  -> Sign(m, row.id)
    [] row.type = "human_rejection" -> Decline(m, row.id)
    [] row.type = "decision"        -> Count(m, row)
    [] OTHER                        -> m

-----------------------------------------------------------------------------
(* The context.                                                              *)

\* DataStore lookups: nothing asked for and nothing found are both None.
Lookup(table, id) == IF id \in DOMAIN table THEN table[id] ELSE None

\* The calendar day of an instant, in the data's own UTC: 05:30 in the morning.
Date(at) == (at - 6) \div 24

Tally(f, x) == IF x \in DOMAIN f THEN f[x] ELSE 0

CONTACT_WINDOW == 24

\* Mutant: the window is the calendar day.
ContactsToday(m, customer, at) ==
  Cardinality({i \in DOMAIN m.contacts[customer] :
                 m.contacts[customer][i] \div 24 = at \div 24})

\* Who was never contacted (a merchant's own batch) has no list at all.
contacts_in_window(m, customer, at) ==
  IF customer \notin DOMAIN m.contacts THEN 0
  ELSE Cardinality({i \in DOMAIN m.contacts[customer] :
                      m.contacts[customer][i] >= at - CONTACT_WINDOW})

\* The sum of a sequence of amounts, as a function: the proofs follow it row by row.
Total(amounts) ==
  LET upto[n \in 0 .. Len(amounts)] == IF n = 0 THEN 0 ELSE upto[n - 1] + amounts[n]
  IN  upto[Len(amounts)]

\* _settlement_facts: the gross our own records make of the bank's list.
Gross(settlement) ==
  Total([n \in DOMAIN settlement.payments |->
           IF settlement.payments[n] \in DOMAIN Payments
             THEN Payments[settlement.payments[n]].amount ELSE 0])

build_context(m, books, req, at) ==
  LET payment    == Lookup(Payments, req.payment)
      settlement == Lookup(Settlements, req.settlement)
      scored     == req.action \in RISK_ACTIONS /\ payment # None
  IN  [now                   |-> at,
       customer              |-> Lookup(Customers, req.customer),
       invoice               |-> Lookup(books, req.invoice),
       payment               |-> payment,
       contacts_last_24h     |-> contacts_in_window(m, req.customer, at),
       attempts_on_invoice   |-> Tally(m.attempts, req.invoice),
       spent_on_invoice      |-> Tally(m.spent, req.invoice),
       refunded              |-> Tally(m.refunded, req.payment),
       used_idempotency_keys |-> m.used_keys,
       human_approved        |-> req.id \in m.approved,
       risk_score            |-> IF scored THEN score(Payments, req.payment) ELSE 0,
       risk_signals          |-> scored /\ signals_for(Payments, req.payment) # {},
       settlement            |-> settlement,
       settlement_gross      |-> IF settlement = None THEN 0 ELSE Gross(settlement),
       settlement_unknown    |->
         settlement # None
           /\ \E i \in DOMAIN settlement.payments :
                settlement.payments[i] \notin DOMAIN Payments]

\* _submit_locked, judging: the verdict and what it costs.
Decided(m, books, req, at) ==
  LET verdict == Judgement(req, build_context(m, books, req, at))
  IN  DecisionRow(req, verdict, IF verdict = "allow" THEN CostOf(req) ELSE 0, at)
=============================================================================
