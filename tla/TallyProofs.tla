----------------------------- MODULE TallyProofs -----------------------------
(***************************************************************************)
(* What the counters count, for every merchant, every set of requests, any *)
(* number of threads, crashes and failing appends: the caps of the         *)
(* rulebook and the budget of the economics gate hold in the ledger as     *)
(* long as no commit that raised has left its row there uncounted.         *)
(*                                                                         *)
(* A cap is about the rows of the log, a verdict about the counters.  The  *)
(* two meet in the value of the log (Checkpost.Rebuilt): the invariant     *)
(* says that the tallies every decision was judged on, all counters but    *)
(* the signatures and the queue, are those of the rows before it.  What    *)
(* the value of a log counts is a matter of the log alone, shown row by    *)
(* row: cardinalities and sums.                                            *)
(***************************************************************************)
EXTENDS GatewayProofs, FiniteSetTheorems

USE DEF ledger, history, Logged

-----------------------------------------------------------------------------
(* Counting and adding up, row by row.                                       *)

\* A counter that starts at zero and goes up by one at every chosen row is the
\* number of chosen rows so far.
LEMMA CountsRows ==
  ASSUME NEW N \in Nat, NEW chosen \in SUBSET (1 .. N), NEW g, g[0] = 0,
         \A n \in 1 .. N : g[n] = IF n \in chosen THEN g[n - 1] + 1 ELSE g[n - 1]
  PROVE  /\ IsFiniteSet(chosen)
         /\ g[N] = Cardinality(chosen)
<1> DEFINE upto(n) == {i \in chosen : i <= n}
           right   == {n \in 0 .. N : IsFiniteSet(upto(n)) /\ g[n] = Cardinality(upto(n))}
<1>0. \A i \in chosen : i \in 1 .. N
  OBVIOUS
<1>1. 0 \in right
  <2>1. \A i \in chosen : ~ (i <= 0)
    BY <1>0
  <2>2. upto(0) = {}
    BY <2>1, Zenon
  <2> QED
    BY <2>2, FS_EmptySet
<1>2. ASSUME NEW k \in 0 .. N - 1, k \in right
      PROVE  k + 1 \in right
  <2>1. k + 1 \in 1 .. N /\ k + 1 \in 0 .. N /\ (k + 1) - 1 = k
    OBVIOUS
  <2>2. g[k + 1] = IF k + 1 \in chosen THEN g[k] + 1 ELSE g[k]
    BY <2>1
  <2>3. IsFiniteSet(upto(k)) /\ g[k] = Cardinality(upto(k)) /\ k + 1 \notin upto(k)
    BY <1>2
  <2>4. upto(k + 1) = IF k + 1 \in chosen THEN upto(k) \cup {k + 1} ELSE upto(k)
    <3>1. \A i \in chosen : i <= k + 1 <=> i <= k \/ i = k + 1
      BY <1>0
    <3> QED
      BY <3>1
  <2> HIDE DEF upto
  <2>5. IsFiniteSet(upto(k + 1)) /\ g[k + 1] = Cardinality(upto(k + 1))
    BY <2>2, <2>3, <2>4, FS_AddElement
  <2> QED
    BY <2>1, <2>5
<1> HIDE DEF right
<1>3. N \in right
  BY <1>1, <1>2, UpTo
<1>4. upto(N) = chosen
  <2>1. \A i \in chosen : i <= N
    BY <1>0
  <2> QED
    BY <2>1, Zenon
<1> QED
  BY <1>3, <1>4 DEF right

Sums(g, amounts) ==
  g = [n \in 0 .. Len(amounts) |-> IF n = 0 THEN 0 ELSE g[n - 1] + amounts[n]]

LEMMA SumsUnique ==
  ASSUME NEW amounts, Len(amounts) \in Nat, NEW f, NEW g, Sums(f, amounts), Sums(g, amounts)
  PROVE  f = g
<1> DEFINE same == {n \in 0 .. Len(amounts) : f[n] = g[n]}
<1>1. \A n \in 0 .. Len(amounts) :
        /\ f[n] = IF n = 0 THEN 0 ELSE f[n - 1] + amounts[n]
        /\ g[n] = IF n = 0 THEN 0 ELSE g[n - 1] + amounts[n]
  BY DEF Sums
<1>2. 0 \in same
  BY <1>1
<1>3. ASSUME NEW k \in 0 .. Len(amounts) - 1, k \in same
      PROVE  k + 1 \in same
  <2>1. k + 1 \in 0 .. Len(amounts) /\ k + 1 # 0 /\ (k + 1) - 1 = k
    OBVIOUS
  <2> QED
    BY <1>1, <1>3, <2>1
<1>4. 0 .. Len(amounts) \subseteq same
  <2> HIDE DEF same
  <2> QED
    BY <1>2, <1>3, UpTo
<1>5. /\ f = [n \in 0 .. Len(amounts) |-> f[n]]
      /\ g = [n \in 0 .. Len(amounts) |-> g[n]]
  BY DEF Sums
<1> QED
  BY <1>4, <1>5

\* Total is the last value of any function that adds the amounts up.
LEMMA TotalIs ==
  ASSUME NEW amounts, Len(amounts) \in Nat, NEW g, Sums(g, amounts)
  PROVE  Total(amounts) = g[Len(amounts)]
<1> DEFINE upto == CHOOSE f : Sums(f, amounts)
<1>1. Sums(upto, amounts)
  OBVIOUS
<1>2. upto = g
  BY <1>1, SumsUnique
<1>3. Total(amounts) = upto[Len(amounts)]
  BY DEF Total, Sums
<1> QED
  BY <1>2, <1>3

\* There is such a function for any amounts.
LEMMA SumsExist ==
  ASSUME NEW N \in Nat, NEW amounts \in [1 .. N -> Int]
  PROVE  \E g \in [0 .. N -> Int] :
           /\ g[0] = 0
           /\ \A n \in 1 .. N : g[n] = g[n - 1] + amounts[n]
<1> DEFINE
      adds(g, k) == g[0] = 0 /\ \A n \in 1 .. k : g[n] = g[n - 1] + amounts[n]
      reached == {k \in 0 .. N : \E g \in [0 .. k -> Int] : adds(g, k)}
<1>1. 0 \in reached
  <2> DEFINE g == [n \in 0 .. 0 |-> 0]
  <2>1. g \in [0 .. 0 -> Int] /\ adds(g, 0) /\ 0 \in 0 .. N
    OBVIOUS
  <2> HIDE DEF g, adds
  <2> QED
    BY <2>1
<1>2. ASSUME NEW k \in 0 .. N - 1, k \in reached
      PROVE  k + 1 \in reached
  <2>1. PICK g \in [0 .. k -> Int] : adds(g, k)
    BY <1>2
  <2> DEFINE h == [n \in 0 .. k + 1 |-> IF n \in 0 .. k THEN g[n] ELSE g[k] + amounts[k + 1]]
  <2>2. k + 1 \in 1 .. N /\ k + 1 \in 0 .. N /\ k \in 0 .. k /\ amounts[k + 1] \in Int
    OBVIOUS
  <2>3. h \in [0 .. k + 1 -> Int]
    BY <2>2
  <2>4. h[0] = 0
    BY <2>1
  <2>5. \A n \in 1 .. k : h[n] = h[n - 1] + amounts[n]
    BY <2>1
  <2>6. h[k + 1] = h[k] + amounts[k + 1]
    BY <2>2
  <2>7. adds(h, k + 1)
    <3> HIDE DEF h
    <3> QED
      BY <2>4, <2>5, <2>6, (k + 1) - 1 = k
  <2> QED
    BY <2>2, <2>3, <2>7
<1>3. 0 .. N \subseteq reached
  <2> HIDE DEF reached
  <2> QED
    BY <1>1, <1>2, UpTo
<1>4. N \in reached
  <2> HIDE DEF reached
  <2> QED
    BY <1>3
<1> QED
  BY <1>4

-----------------------------------------------------------------------------
(* What one row does to the counters.                                        *)

\* A decision counts its verdict; only an allowed one moves anything else.
Moved(m, row, after) ==
  /\ after.verdict_counts = AddAt(m.verdict_counts, row.verdict, 1)
  /\ after.approved = m.approved
  /\ after.pending = IF row.verdict = "needs_human" THEN m.pending \cup {row.req.id}
                                                  ELSE m.pending \ {row.req.id}
  /\ row.verdict # "allow" =>
       /\ after.contacts = m.contacts
       /\ after.attempts = m.attempts
       /\ after.spent = m.spent
       /\ after.refunded = m.refunded
       /\ after.used_keys = m.used_keys
       /\ after.spend = m.spend
  /\ row.verdict = "allow" =>
       /\ after.contacts = Contacted(m.contacts, row)
       /\ after.attempts = IF row.req.action \in ATTEMPT_ACTIONS
                             THEN AddAt(m.attempts, row.req.invoice, 1) ELSE m.attempts
       /\ after.spent = AddAt(m.spent, row.req.invoice, row.cost)
       /\ after.refunded = IF row.req.action = "issue_refund"
                             THEN AddAt(m.refunded, row.req.payment, row.req.amount) ELSE m.refunded
       /\ after.used_keys = m.used_keys \cup ({row.req.key} \ {None})
       /\ after.spend = m.spend + row.cost

LEMMA CountMoves ==
  ASSUME NEW m \in Counters, NEW row \in DecisionRows
  PROVE  Moved(m, row, Count(m, row))
<1> DEFINE
      queue   == IF row.verdict = "needs_human" THEN m.pending \cup {row.req.id}
                                               ELSE m.pending \ {row.req.id}
      counts  == AddAt(m.verdict_counts, row.verdict, 1)
      counted == [m EXCEPT !.pending = queue, !.verdict_counts = counts]
      paid    == [counted EXCEPT !.spend = m.spend + row.cost]
      tracked == [TrackPending(m, row) EXCEPT !.verdict_counts[row.verdict] = @ + 1]
<1>1. tracked = counted
  BY DEF TrackPending, Counters, AddAt, DecisionRows
<1>2. [counted EXCEPT !.spend = @ + row.cost] = paid
  BY DEF Counters
<1>3. Count(m, row) = IF row.verdict # "allow" THEN counted ELSE ApplyAllowed(paid, row)
  <2>1. Count(m, row) = IF row.verdict # "allow" THEN tracked
                        ELSE ApplyAllowed([tracked EXCEPT !.spend = @ + row.cost], row)
    BY DEF Count
  <2> HIDE DEF tracked, counted, paid
  <2> QED
    BY <1>1, <1>2, <2>1
<1>4. /\ counted.verdict_counts = counts
      /\ counted.approved = m.approved /\ counted.pending = queue
      /\ counted.contacts = m.contacts /\ counted.attempts = m.attempts
      /\ counted.spent = m.spent /\ counted.refunded = m.refunded
      /\ counted.used_keys = m.used_keys /\ counted.spend = m.spend
  BY DEF Counters
<1>5. /\ paid.verdict_counts = counts
      /\ paid.approved = m.approved /\ paid.pending = queue
      /\ paid.contacts = m.contacts /\ paid.attempts = m.attempts
      /\ paid.spent = m.spent /\ paid.refunded = m.refunded
      /\ paid.used_keys = m.used_keys /\ paid.spend = m.spend + row.cost
      /\ DOMAIN paid = DOMAIN m
  BY DEF Counters
<1> HIDE DEF paid, counted, tracked
<1>6. CASE row.verdict # "allow"
  BY <1>3, <1>4, <1>6 DEF Moved
<1>7. CASE row.verdict = "allow"
  <2>1. Count(m, row) = ApplyAllowed(paid, row)
    BY <1>3, <1>7
  <2> DEFINE done == ApplyAllowed(paid, row)
  <2>2. /\ done.contacts = Contacted(paid.contacts, row)
        /\ done.attempts = IF row.req.action \in ATTEMPT_ACTIONS
             THEN AddAt(paid.attempts, row.req.invoice, 1) ELSE paid.attempts
        /\ done.spent = AddAt(paid.spent, row.req.invoice, row.cost)
        /\ done.refunded = IF row.req.action = "issue_refund"
             THEN AddAt(paid.refunded, row.req.payment, row.req.amount) ELSE paid.refunded
        /\ done.used_keys = paid.used_keys \cup ({row.req.key} \ {None})
        /\ done.spend = paid.spend /\ done.verdict_counts = paid.verdict_counts
        /\ done.approved = paid.approved /\ done.pending = paid.pending
    BY <1>5 DEF ApplyAllowed, Counters
  <2> HIDE DEF done
  <2> QED
    BY <1>5, <1>7, <2>1, <2>2 DEF done, Moved
<1> QED
  BY <1>6, <1>7

\* A person's word moves the signatures and the queue only.
LEMMA SignFields ==
  ASSUME NEW m \in Counters, NEW id
  PROVE  /\ Sign(m, id) = [m EXCEPT !.approved = m.approved \cup {id}, !.pending = m.pending \ {id}]
         /\ Decline(m, id) = [m EXCEPT !.pending = m.pending \ {id}]
BY DEF Sign, Decline, Counters

\* The value of every part of a log has the counters' types.
LEMMA RebuildTyped ==
  ASSUME NEW rows \in Seq(LogRows), NEW f, IsRebuild(f, rows)
  PROVE  /\ f[0] = Fresh
         /\ \A n \in 1 .. Len(rows) : f[n] = RebuildRow(f[n - 1], rows[n])
         /\ \A n \in 0 .. Len(rows) : f[n] \in Counters
<1>1. Len(rows) \in Nat /\ \A n \in 1 .. Len(rows) : rows[n] \in LogRows
  BY LenProperties, ElementOfSeq
<1>2. f[0] = Fresh /\ \A n \in 1 .. Len(rows) : f[n] = RebuildRow(f[n - 1], rows[n])
  BY <1>1 DEF IsRebuild
<1> DEFINE typed == {n \in 0 .. Len(rows) : f[n] \in Counters}
<1>3. 0 \in typed
  BY <1>1, <1>2, FreshTyped
<1>4. ASSUME NEW k \in 0 .. Len(rows) - 1, k \in typed
      PROVE  k + 1 \in typed
  <2>1. k + 1 \in 1 .. Len(rows) /\ (k + 1) - 1 = k /\ k + 1 \in 0 .. Len(rows)
    BY <1>1
  <2>2. f[k + 1] = RebuildRow(f[k], rows[k + 1]) /\ rows[k + 1] \in LogRows
    BY <1>1, <1>2, <2>1
  <2> QED
    BY <1>4, <2>1, <2>2, RebuildRowTyped
<1>5. 0 .. Len(rows) \subseteq typed
  <2> HIDE DEF typed
  <2> QED
    BY <1>1, <1>3, <1>4, UpTo
<1> QED
  BY <1>2, <1>5

-----------------------------------------------------------------------------
(* The tallies: every counter but the signatures and the queue.  An append   *)
(* that fails can leave a signature in memory that no row tells of; it       *)
(* leaves no tally behind.  A commit that raises leaves a row no tally       *)
(* counts, until the process has died and read it.                           *)

SameTallies(a, b) ==
  /\ a.contacts = b.contacts
  /\ a.attempts = b.attempts
  /\ a.spent = b.spent
  /\ a.refunded = b.refunded
  /\ a.used_keys = b.used_keys
  /\ a.verdict_counts = b.verdict_counts
  /\ a.spend = b.spend

LEMMA SignKeepsTallies ==
  ASSUME NEW m \in Counters, NEW id
  PROVE  SameTallies(Sign(m, id), m) /\ SameTallies(Decline(m, id), m)
<1> DEFINE signed   == Sign(m, id)
           declined == Decline(m, id)
<1>1. /\ signed.contacts = m.contacts /\ signed.attempts = m.attempts
      /\ signed.spent = m.spent /\ signed.refunded = m.refunded
      /\ signed.used_keys = m.used_keys /\ signed.verdict_counts = m.verdict_counts
      /\ signed.spend = m.spend
  BY DEF Sign, Counters
<1>2. /\ declined.contacts = m.contacts /\ declined.attempts = m.attempts
      /\ declined.spent = m.spent /\ declined.refunded = m.refunded
      /\ declined.used_keys = m.used_keys /\ declined.verdict_counts = m.verdict_counts
      /\ declined.spend = m.spend
  BY DEF Decline, Counters
<1> QED
  BY <1>1, <1>2 DEF SameTallies

\* What a row does to the tallies depends on the tallies only.
LEMMA TalliesDecide ==
  ASSUME NEW a \in Counters, NEW b \in Counters, NEW row \in LogRows, SameTallies(a, b)
  PROVE  SameTallies(RebuildRow(a, row), RebuildRow(b, row))
<1>1. CASE row.type = "decision"
  <2>1. row \in DecisionRows
    BY <1>1 DEF LogRows, HumanRows, OutcomeRows
  <2>2. RebuildRow(a, row) = Count(a, row) /\ RebuildRow(b, row) = Count(b, row)
    BY <2>1, LiveIsRebuilt
  <2>3. Moved(a, row, Count(a, row)) /\ Moved(b, row, Count(b, row))
    BY <2>1, CountMoves
  <2>4. SameTallies(Count(a, row), Count(b, row))
    BY <2>3 DEF SameTallies, Moved
  <2> QED
    BY <2>2, <2>4
<1>2. CASE row.type # "decision"
  <2>1. /\ RebuildRow(a, row) = Sign(a, row.id) \/ RebuildRow(a, row) = Decline(a, row.id)
             \/ RebuildRow(a, row) = a
        /\ RebuildRow(b, row) = Sign(b, row.id) \/ RebuildRow(b, row) = Decline(b, row.id)
             \/ RebuildRow(b, row) = b
    BY <1>2 DEF RebuildRow
  <2>2. SameTallies(RebuildRow(a, row), a) /\ SameTallies(RebuildRow(b, row), b)
    BY <2>1, SignKeepsTallies DEF SameTallies
  <2> QED
    BY <2>2 DEF SameTallies
<1> QED
  BY <1>1, <1>2

-----------------------------------------------------------------------------
(* As long as no commit has left its row, every decision was judged on the   *)
(* tallies of the rows before it.                                            *)

JudgedOn(f) ==
  \A i \in DOMAIN log : log[i].type = "decision" =>
    \E m \in Counters :
      SameTallies(m, f[i - 1]) /\ log[i] = Decided(m, Invoices, log[i].req, log[i].at)

\* What the tallies in memory are to those of the whole log: equal, or one row
\* behind while a decision is written and not counted.
TalliesFollow(told) ==
  /\ \A t \in Thread :
       job[t].step = "judged" => SameTallies(RebuildRow(mem, job[t].row), told)
  /\ serving /\ (\A t \in Thread : job[t].step # "judged") => SameTallies(mem, told)

Tallied(f) ==
  /\ IsRebuild(f, log)
  /\ TalliesFollow(f[Len(log)])
  /\ ~serving => SameTallies(mem, f[cursor])
  /\ kept = 0 => JudgedOn(f)

TalliesKnown == \E f : Tallied(f)

LEMMA TalliesGrow ==
  ASSUME TypeOK, NEW f, Tallied(f), NEW row \in LogRows, log' = Append(log, row),
         row.type = "decision" =>
           \E m \in Counters :
             SameTallies(m, f[Len(log)]) /\ row = Decided(m, Invoices, row.req, row.at)
  PROVE  \E g : /\ IsRebuild(g, log') /\ g[Len(log')] = RebuildRow(f[Len(log)], row)
                /\ kept = 0 => JudgedOn(g)'
<1>1. PICK g : /\ IsRebuild(g, log') /\ g[Len(log')] = RebuildRow(f[Len(log)], row)
               /\ \A n \in 0 .. Len(log) : g[n] = f[n]
  BY RebuildGrows DEF Tallied, TypeOK
<1>2. /\ Len(log) \in Nat /\ DOMAIN log = 1 .. Len(log) /\ DOMAIN log' = 1 .. Len(log) + 1
      /\ \A i \in DOMAIN log : log'[i] = log[i]
      /\ log'[Len(log) + 1] = row
  BY Appended
<1>3. ASSUME kept = 0, NEW i \in DOMAIN log', log'[i].type = "decision"
      PROVE  \E m \in Counters :
               SameTallies(m, g[i - 1]) /\ log'[i] = Decided(m, Invoices, log'[i].req, log'[i].at)
  <2>1. CASE i \in DOMAIN log
    <3>1. i - 1 \in 0 .. Len(log) /\ log'[i] = log[i]
      BY <1>2, <2>1
    <3>2. g[i - 1] = f[i - 1]
      BY <1>1, <3>1
    <3> QED
      BY <1>3, <2>1, <3>1, <3>2 DEF Tallied, JudgedOn
  <2>2. CASE i = Len(log) + 1
    <3>1. i - 1 = Len(log) /\ log'[i] = row /\ i - 1 \in 0 .. Len(log)
      BY <1>2, <2>2
    <3>2. g[i - 1] = f[Len(log)]
      BY <1>1, <3>1
    <3> QED
      BY <1>3, <3>1, <3>2
  <2> QED
    BY <1>2, <2>1, <2>2
<1>4. kept = 0 => JudgedOn(g)'
  BY <1>3 DEF JudgedOn
<1> QED
  BY <1>1, <1>4

LEMMA TalliesStep ==
  ASSUME TypeOK, Exclusion, RaisedKnown, TalliesKnown, [Next]_vars,
         "kept" \notin raised, "kept" \notin raised'
  PROVE  TalliesKnown'
<1> DEFINE told(f) == f[Len(log)]
<1>0. PICK f : Tallied(f)
  BY DEF TalliesKnown
<1>k. open = 0 /\ (kept' = 0 => kept = 0)
  BY NoneOpen, KeptGrows
<1>t. told(f) \in Counters /\ mem \in Counters
  BY <1>0, RebuildTyped, LenProperties DEF Tallied, TypeOK
\* A row that is no decision and moves no tally.
<1>1. ASSUME NEW row \in LogRows, row.type # "decision", log' = Append(log, row)
      PROVE  \E g : IsRebuild(g, log') /\ SameTallies(g[Len(log')], told(f))
                   /\ (kept = 0 => JudgedOn(g)')
  <2>1. PICK g : /\ IsRebuild(g, log') /\ g[Len(log')] = RebuildRow(told(f), row)
                 /\ kept = 0 => JudgedOn(g)'
    BY <1>0, <1>1, TalliesGrow
  <2>2. \/ RebuildRow(told(f), row) = Sign(told(f), row.id)
        \/ RebuildRow(told(f), row) = Decline(told(f), row.id)
        \/ RebuildRow(told(f), row) = told(f)
    BY <1>1 DEF RebuildRow
  <2>3. SameTallies(RebuildRow(told(f), row), told(f))
    BY <1>t, <2>2, SignKeepsTallies DEF SameTallies
  <2> QED
    BY <2>1, <2>3
<1>2. ASSUME NEW t \in Thread, NEW req \in Ask, Submit(t, req)
      PROVE  TalliesKnown'
  <2>1. /\ RequestRow(req) \in LogRows /\ log' = Append(log, RequestRow(req))
        /\ RequestRow(req).type # "decision"
    BY <1>2, SubmitTyped DEF RequestRow
  <2>2. PICK g : IsRebuild(g, log') /\ SameTallies(g[Len(log')], told(f))
                 /\ (kept = 0 => JudgedOn(g)')
    BY <1>1, <2>1
  <2>3. /\ mem' = mem /\ serving' /\ serving
        /\ \A u \in Thread : job[u].step = "idle"
        /\ \A u \in Thread : job'[u].step \in {"idle", "asked"}
    BY <1>2, Entered DEF Submit, Asked
  <2>4. SameTallies(mem, told(f))
    BY <1>0, <2>3 DEF Tallied, TalliesFollow
  <2>5. Tallied(g)'
    BY <1>k, <2>2, <2>3, <2>4 DEF Tallied, TalliesFollow, SameTallies, IsRebuild
  <2> QED
    BY <2>5 DEF TalliesKnown
<1>3. ASSUME NEW t \in Thread, NEW id \in RequestId, Resubmit(t, id)
      PROVE  TalliesKnown'
  BY <1>2, <1>3, NewestIsAsk DEF Resubmit
<1>4. ASSUME NEW t \in Thread, NEW id \in RequestId, Approve(t, id) \/ Reject(t, id)
      PROVE  TalliesKnown'
  <2>1. /\ UNCHANGED <<log, serving, cursor>> /\ serving
        /\ mem' = Sign(mem, id) \/ mem' = Decline(mem, id)
        /\ \A u \in Thread : job[u].step = "idle"
        /\ \A u \in Thread : job'[u].step \in {"idle", "signing"}
    BY <1>4, Entered DEF Approve, Reject, Signing
  <2>2. SameTallies(mem', mem) /\ SameTallies(mem, told(f))
    BY <1>0, <1>t, <2>1, SignKeepsTallies DEF Tallied, TalliesFollow
  <2>3. Tallied(f)'
    BY <1>k, <1>0, <2>1, <2>2 DEF Tallied, TalliesFollow, SameTallies, IsRebuild, JudgedOn
  <2> QED
    BY <2>3 DEF TalliesKnown
<1>5. ASSUME NEW t \in Thread, NEW id \in RequestId, ReportOutcome(t, id)
      PROVE  TalliesKnown'
  <2>1. /\ OutcomeRow(id) \in LogRows /\ log' = Append(log, OutcomeRow(id))
        /\ OutcomeRow(id).type # "decision"
        /\ UNCHANGED <<mem, job, serving>> /\ serving
    BY <1>5, RowsTyped DEF ReportOutcome, OutcomeRow
  <2>2. PICK g : IsRebuild(g, log') /\ SameTallies(g[Len(log')], told(f))
                 /\ (kept = 0 => JudgedOn(g)')
    BY <1>1, <2>1
  <2>3. TalliesFollow(told(f))
    BY <1>0 DEF Tallied
  <2>4. TalliesFollow(g[Len(log)])'
    BY <2>1, <2>2, <2>3 DEF TalliesFollow, SameTallies
  <2>5. Tallied(g)'
    BY <1>k, <2>1, <2>2, <2>4 DEF Tallied, IsRebuild
  <2> QED
    BY <2>5 DEF TalliesKnown
<1>6. ASSUME NEW t \in Thread, LogDecision(t)
      PROVE  TalliesKnown'
  <2> DEFINE row == Decided(mem, Invoices, job[t].req, job[t].at)
  <2>1. row \in DecisionRows /\ row \in LogRows
    BY <1>6, JobFields, DecidedTyped, RowsTyped DEF LogDecision, TypeOK
  <2>2. row.req = job[t].req /\ row.at = job[t].at
    BY DEF Decided, DecisionRow
  <2>3. row = Decided(mem, Invoices, row.req, row.at)
    BY <2>2
  <2>4. /\ log' = Append(log, row) /\ job[t].step = "asked" /\ UNCHANGED <<mem, serving>>
        /\ job' = [job EXCEPT ![t] = Judged(row)]
    BY <1>6 DEF LogDecision
  <2> HIDE DEF row
  <2>5. /\ serving /\ job'[t].step = "judged" /\ job'[t].row = row
        /\ \A u \in Thread \ {t} : job[u].step = "idle" /\ job'[u].step = "idle"
    BY <2>4, Alone DEF TypeOK, Judged
  <2>6. SameTallies(mem, told(f))
    BY <1>0, <2>4, <2>5 DEF Tallied, TalliesFollow
  <2>7. PICK g : /\ IsRebuild(g, log') /\ g[Len(log')] = RebuildRow(told(f), row)
                 /\ kept = 0 => JudgedOn(g)'
    BY <1>0, <1>t, <2>1, <2>3, <2>4, <2>6, TalliesGrow
  <2>8. SameTallies(RebuildRow(mem, row), RebuildRow(told(f), row))
    BY <1>t, <2>1, <2>6, TalliesDecide
  <2>9. Tallied(g)'
    BY <1>k, <2>4, <2>5, <2>7, <2>8 DEF Tallied, TalliesFollow, IsRebuild
  <2> QED
    BY <2>9 DEF TalliesKnown
<1>7. ASSUME NEW t \in Thread, ApplyDecision(t)
      PROVE  TalliesKnown'
  <2>1. /\ job[t].step = "judged" /\ job[t].row \in DecisionRows
        /\ mem' = Count(mem, job[t].row) /\ Release(t) /\ UNCHANGED <<log, serving, cursor>>
    BY <1>7, JobFields DEF ApplyDecision, TypeOK
  <2>2. mem' = RebuildRow(mem, job[t].row)
    BY <2>1, LiveIsRebuilt
  <2>3. serving /\ \A u \in Thread : job'[u].step = "idle"
    BY <2>1, Left, Alone
  <2>4. SameTallies(mem', told(f))
    BY <1>0, <2>1, <2>2 DEF Tallied, TalliesFollow
  <2>5. Tallied(f)'
    BY <1>k, <1>0, <2>1, <2>3, <2>4 DEF Tallied, TalliesFollow, IsRebuild, JudgedOn
  <2> QED
    BY <2>5 DEF TalliesKnown
<1>8. ASSUME NEW t \in Thread, LogSignature(t)
      PROVE  TalliesKnown'
  <2>1. /\ job[t].step = "signing" /\ job[t].row \in HumanRows
        /\ log' = Append(log, job[t].row) /\ Release(t) /\ UNCHANGED <<mem, serving>>
    BY <1>8, JobFields DEF LogSignature, TypeOK
  <2>2. job[t].row \in LogRows /\ job[t].row.type # "decision"
    BY <2>1, RowsTyped DEF HumanRows
  <2>3. serving /\ (\A u \in Thread : job'[u].step = "idle")
        /\ \A u \in Thread : job[u].step # "judged"
    BY <2>1, Left, Alone
  <2>4. PICK g : IsRebuild(g, log') /\ SameTallies(g[Len(log')], told(f))
                 /\ (kept = 0 => JudgedOn(g)')
    BY <1>1, <2>1, <2>2
  <2>5. SameTallies(mem, told(f))
    BY <1>0, <2>3 DEF Tallied, TalliesFollow
  <2>6. Tallied(g)'
    BY <1>k, <2>1, <2>3, <2>4, <2>5 DEF Tallied, TalliesFollow, SameTallies, IsRebuild
  <2> QED
    BY <2>6 DEF TalliesKnown
\* An exception leaves a decision unwritten or a signature uncounted for.
<1>9. ASSUME NEW t \in Thread, AppendFails(t)
      PROVE  TalliesKnown'
  <2>1. /\ job[t].step \in {"asked", "signing"} /\ Leave(t)
        /\ UNCHANGED <<mem, serving, cursor>> /\ (RolledBack \/ UNCHANGED log)
    BY <1>9, <1>k DEF AppendFails
  <2>r. Release(t) /\ log' = log
    BY <1>k, <2>1, LeaveTyped, Truncated
  <2>2. serving /\ (\A u \in Thread : job'[u].step = "idle")
        /\ \A u \in Thread : job[u].step # "judged"
    BY <2>1, <2>r, Left, Alone
  <2>3. Tallied(f)'
    BY <1>k, <1>0, <2>1, <2>r, <2>2 DEF Tallied, TalliesFollow, IsRebuild, JudgedOn
  <2> QED
    BY <2>3 DEF TalliesKnown
<1>10. CASE Crash
  <2>1. f[0] = Fresh
    BY <1>0, RebuildTyped DEF Tallied, TypeOK
  <2>2. /\ mem' = f[0] /\ cursor' = 0 /\ ~serving' /\ log' = log
        /\ \A u \in Thread : job'[u].step = "idle"
    BY <1>10, <1>k, <2>1, Truncated DEF Crash, Idle
  <2>3. Tallied(f)'
    BY <1>k, <1>0, <2>2 DEF Tallied, TalliesFollow, IsRebuild, JudgedOn, SameTallies
  <2> QED
    BY <2>3 DEF TalliesKnown
<1>11. CASE Rebuild
  <2>1. /\ ~serving /\ cursor \in 0 .. Len(log) /\ cursor + 1 \in 1 .. Len(log)
        /\ (cursor + 1) - 1 = cursor
        /\ mem' = RebuildRow(mem, log[cursor + 1]) /\ cursor' = cursor + 1
        /\ UNCHANGED <<log, serving, job>>
    BY <1>11, LenProperties DEF Rebuild, TypeOK
  <2>2. /\ f[cursor + 1] = RebuildRow(f[cursor], log[cursor + 1]) /\ f[cursor] \in Counters
        /\ log[cursor + 1] \in LogRows
    BY <1>0, <2>1, RebuildTyped, ElementOfSeq DEF Tallied, TypeOK
  <2>3. \A u \in Thread : job[u].step = "idle"
    BY <2>1, Nobody
  <2>4. SameTallies(mem', f[cursor'])
    BY <1>0, <1>t, <2>1, <2>2, TalliesDecide DEF Tallied
  <2>5. Tallied(f)'
    BY <1>k, <1>0, <2>1, <2>3, <2>4 DEF Tallied, TalliesFollow, IsRebuild, JudgedOn
  <2> QED
    BY <2>5 DEF TalliesKnown
<1>12. CASE Serve
  <2>1. \A u \in Thread : job[u].step = "idle"
    BY <1>12, Nobody DEF Serve
  <2>2. Tallied(f)'
    BY <1>k, <1>0, <1>12, <2>1 DEF Serve, Tallied, TalliesFollow, IsRebuild, JudgedOn
  <2> QED
    BY <2>2 DEF TalliesKnown
<1>13. CASE Tick \/ UNCHANGED vars
  <2>1. UNCHANGED <<log, mem, serving, cursor, job>>
    BY <1>13 DEF Tick, vars
  <2>2. Tallied(f)'
    BY <1>k, <1>0, <2>1 DEF Tallied, TalliesFollow, IsRebuild, JudgedOn
  <2> QED
    BY <2>2 DEF TalliesKnown
<1>14. ASSUME NEW t \in Thread, CommitRaises(t)
       PROVE  TalliesKnown'
  BY <1>14, KeptGrows
<1> QED
  BY <1>2, <1>3, <1>4, <1>5, <1>6, <1>7, <1>8, <1>9, <1>10, <1>11, <1>12, <1>13, <1>14, SignableKnown
  DEF Next, Step, Finish

\* A process that starts has counted nothing of its log, rows left by a commit
\* that raised included.
LEMMA TalliesBegin ==
  ASSUME TypeOK, Crash, kept # 0
  PROVE  TalliesKnown'
<1>1. log' \in Seq(LogRows) /\ Len(log') \in Nat
  BY Truncated, LenProperties DEF Crash
<1>2. PICK f : IsRebuild(f, log')
  BY <1>1, RebuildExists
<1>3. f[0] = Fresh
  BY <1>1, <1>2 DEF IsRebuild
<1>4. /\ mem' = Fresh /\ cursor' = 0 /\ ~serving' /\ kept' # 0
      /\ \A t \in Thread : job'[t].step = "idle"
  BY DEF Crash, Idle
<1>5. Tallied(f)'
  BY <1>2, <1>3, <1>4 DEF Tallied, TalliesFollow, SameTallies, IsRebuild
<1> QED
  BY <1>5 DEF TalliesKnown

TallyInv ==
  /\ TypeOK /\ Exclusion /\ RaisedKnown
  /\ "kept" \notin raised => TalliesKnown

LEMMA TallyInit == Init => TallyInv
<1> SUFFICES ASSUME Init
             PROVE  TallyInv
  OBVIOUS
<1> DEFINE f == [n \in 0 .. 0 |-> Fresh]
<1>1. /\ log = <<>> /\ Len(log) = 0 /\ mem = Fresh /\ serving
      /\ \A t \in Thread : job[t].step = "idle"
  BY DEF Init, Idle
<1>2. f = [n \in 0 .. 0 |-> IF n = 0 THEN Fresh ELSE RebuildRow(f[n - 1], log[n])] /\ f[0] = Fresh
  OBVIOUS
<1>3. Tallied(f)
  BY <1>1, <1>2 DEF Tallied, TalliesFollow, IsRebuild, JudgedOn, SameTallies
<1> QED
  BY <1>1, <1>3, TypeInit, RaisedInit DEF TallyInv, TalliesKnown, Exclusion

LEMMA TallyAlways == Spec => []TallyInv
<1>1. TallyInv /\ [Next]_vars => TallyInv'
  <2> SUFFICES ASSUME TallyInv, [Next]_vars
               PROVE  TallyInv'
    OBVIOUS
  <2>1. TypeOK' /\ Exclusion' /\ RaisedKnown'
    BY TypeStep, ExclusionStep, RaisedStep DEF TallyInv
  <2>2. ASSUME "kept" \notin raised'
        PROVE  TalliesKnown'
    <3>1. CASE "kept" \notin raised
      BY <2>2, <3>1, TalliesStep DEF TallyInv
    <3>2. CASE "kept" \in raised
      <4>1. Crash
        BY <2>2, <3>2, LostGrows
      <4>2. kept # 0
        BY <3>2 DEF TallyInv, RaisedKnown, TypeOK
      <4> QED
        BY <4>1, <4>2, TalliesBegin DEF TallyInv
    <3> QED
      BY <3>1, <3>2
  <2> QED
    BY <2>1, <2>2 DEF TallyInv
<1> QED
  BY <1>1, TallyInit, PTL DEF Spec

-----------------------------------------------------------------------------
(* What the value of a log counts.                                           *)

LEMMA AddAtValue ==
  ASSUME NEW S, NEW f \in [S -> Int], NEW x, NEW n \in Int, NEW y \in S
  PROVE  AddAt(f, x, n)[y] = f[y] + (IF y = x THEN n ELSE 0)
BY DEF AddAt

\* A decision moves the tallies as Count says, any other row leaves them.
LEMMA RowMoves ==
  ASSUME TypeOK, NEW f, IsRebuild(f, log), NEW n \in 1 .. Len(log)
  PROVE  /\ n - 1 \in 0 .. Len(log) /\ n \in 0 .. Len(log) /\ n \in DOMAIN log
         /\ f[n - 1] \in Counters /\ f[n] \in Counters
         /\ log[n].type = "decision" => log[n] \in DecisionRows /\ Moved(f[n - 1], log[n], f[n])
         /\ log[n].type # "decision" => SameTallies(f[n], f[n - 1])
<1>1. /\ log \in Seq(LogRows) /\ Len(log) \in Nat /\ log[n] \in LogRows
      /\ n - 1 \in 0 .. Len(log) /\ n \in 0 .. Len(log) /\ n \in DOMAIN log
  BY LenProperties, ElementOfSeq DEF TypeOK
<1>2. f[n - 1] \in Counters /\ f[n] \in Counters /\ f[n] = RebuildRow(f[n - 1], log[n])
  BY <1>1, RebuildTyped
<1>3. CASE log[n].type = "decision"
  <2>1. log[n] \in DecisionRows
    BY <1>1, <1>3 DEF LogRows, HumanRows, OutcomeRows
  <2> QED
    BY <1>1, <1>2, <1>3, <2>1, CountMoves, LiveIsRebuilt
<1>4. CASE log[n].type # "decision"
  <2>1. \/ f[n] = Sign(f[n - 1], log[n].id)
        \/ f[n] = Decline(f[n - 1], log[n].id)
        \/ f[n] = f[n - 1]
    BY <1>2, <1>4 DEF RebuildRow
  <2>2. SameTallies(f[n], f[n - 1])
    BY <1>2, <2>1, SignKeepsTallies DEF SameTallies
  <2> QED
    BY <1>1, <1>2, <1>4, <2>2
<1> QED
  BY <1>3, <1>4

\* The rows of a set that are among the first k.
Among(rows, k) == {i \in rows : i <= k}

LEMMA AttemptsCounted ==
  ASSUME TypeOK, NEW f, IsRebuild(f, log), NEW invoice \in InvoiceId, NEW k \in 0 .. Len(log)
  PROVE  /\ IsFiniteSet(Among(Attempts(invoice), k))
         /\ f[k].attempts[invoice] = Cardinality(Among(Attempts(invoice), k))
<1> DEFINE g == [n \in 0 .. k |-> f[n].attempts[invoice]]
           chosen == Among(Attempts(invoice), k)
<1>1. Len(log) \in Nat /\ DOMAIN log = 1 .. Len(log) /\ k \in Nat
  BY LenProperties DEF TypeOK
<1>2. chosen \in SUBSET (1 .. k)
  BY <1>1 DEF Among, Attempts, AllowedRows
<1>3. g[0] = 0
  BY RebuildTyped DEF TypeOK, Fresh, NoCounts
<1>4. ASSUME NEW n \in 1 .. k
      PROVE  g[n] = IF n \in chosen THEN g[n - 1] + 1 ELSE g[n - 1]
  <2>1. n \in 1 .. Len(log) /\ n - 1 \in 0 .. k /\ n \in 0 .. k /\ n <= k
    BY <1>1
  <2>2. /\ n \in DOMAIN log /\ f[n - 1] \in Counters
        /\ log[n].type = "decision" => log[n] \in DecisionRows /\ Moved(f[n - 1], log[n], f[n])
        /\ log[n].type # "decision" => SameTallies(f[n], f[n - 1])
    BY <2>1, RowMoves
  <2>3. n \in chosen <=> /\ log[n].type = "decision" /\ log[n].verdict = "allow"
                         /\ log[n].req.invoice = invoice /\ log[n].req.action \in ATTEMPT_ACTIONS
    BY <2>1, <2>2 DEF Among, Attempts, AllowedRows, Allowed
  <2>4. f[n - 1].attempts \in [InvoiceId -> Nat]
    BY <2>2 DEF Counters
  <2> HIDE DEF chosen
  <2>5. AddAt(f[n - 1].attempts, log[n].req.invoice, 1)[invoice] =
          f[n - 1].attempts[invoice] + (IF invoice = log[n].req.invoice THEN 1 ELSE 0)
    BY <2>4, AddAtValue
  <2>6. f[n].attempts[invoice] =
          f[n - 1].attempts[invoice] + (IF n \in chosen THEN 1 ELSE 0)
    BY <2>2, <2>3, <2>4, <2>5 DEF Moved, SameTallies
  <2> QED
    BY <2>1, <2>4, <2>6
<1> HIDE DEF g, chosen
<1>5. IsFiniteSet(chosen) /\ g[k] = Cardinality(chosen)
  BY <1>1, <1>2, <1>3, <1>4, CountsRows
<1> QED
  BY <1>1, <1>5 DEF g, chosen

-----------------------------------------------------------------------------
(* What a verdict of allow says about the tallies it was judged on.          *)

Chased(req)  == req.invoice \in InvoiceId \cap DOMAIN Invoices
Charged(req) == Chased(req) /\ req.action \notin RISK_ACTIONS \cup NO_OPINION
Refunding(req) == req.action = "issue_refund" /\ req.payment \in PaymentId \cap DOMAIN Payments

LEMMA AllowMeansWithinLimits ==
  ASSUME NEW m \in Counters, NEW req \in Ask, NEW at \in Instants,
         Allowed(Decided(m, Invoices, req, at))
  PROVE  /\ Decided(m, Invoices, req, at).cost = CostOf(req)
         /\ Chased(req) /\ req.action \in ATTEMPT_ACTIONS =>
              ~ (m.attempts[req.invoice] >= MAX_RECOVERY_ATTEMPTS)
         /\ Contacts(req) => ~ (contacts_in_window(m, req.customer, at) >= MAX_CONTACTS_PER_24H)
         /\ Refunding(req) =>
              ~ (req.amount > Payments[req.payment].amount - m.refunded[req.payment])
         /\ Charged(req) => m.spent[req.invoice] + CostOf(req) <= Budget(Invoices[req.invoice])
<1> DEFINE ctx == build_context(m, Invoices, req, at)
<1>1. Judgement(req, ctx) = "allow" /\ Decided(m, Invoices, req, at).cost = CostOf(req)
  BY DEF Allowed, Decided, DecisionRow
<1>2. /\ ctx.invoice = Lookup(Invoices, req.invoice)
      /\ ctx.payment = Lookup(Payments, req.payment)
      /\ ctx.contacts_last_24h = contacts_in_window(m, req.customer, at)
      /\ ctx.attempts_on_invoice = Tally(m.attempts, req.invoice)
      /\ ctx.spent_on_invoice = Tally(m.spent, req.invoice)
      /\ ctx.refunded = Tally(m.refunded, req.payment)
  BY DEF build_context
<1> HIDE DEF ctx
<1>3. /\ r02_contact_frequency(req, ctx) # "deny"
      /\ r06_refund_exceeds_payment(req, ctx) # "deny"
      /\ r07_attempt_limit(req, ctx) # "needs_human"
  BY <1>1, AllowMeansNobodyObjects
<1>4. DOMAIN m.attempts = InvoiceId /\ DOMAIN m.spent = InvoiceId /\ DOMAIN m.refunded = PaymentId
  BY DEF Counters
<1>5. Chased(req) => /\ ctx.invoice = Invoices[req.invoice] /\ ctx.invoice # None
                     /\ ctx.attempts_on_invoice = m.attempts[req.invoice]
                     /\ ctx.spent_on_invoice = m.spent[req.invoice]
  BY <1>2, <1>4, RecordsAssumption DEF Chased, Lookup, Tally
<1>6. Chased(req) /\ req.action \in ATTEMPT_ACTIONS =>
        ~ (m.attempts[req.invoice] >= MAX_RECOVERY_ATTEMPTS)
  BY <1>3, <1>5 DEF r07_attempt_limit, ATTEMPT_ACTIONS, CONTACT_ACTIONS
<1>7. Contacts(req) => ~ (contacts_in_window(m, req.customer, at) >= MAX_CONTACTS_PER_24H)
  BY <1>2, <1>3 DEF r02_contact_frequency
<1>8. Refunding(req) => ~ (req.amount > Payments[req.payment].amount - m.refunded[req.payment])
  <2>1. Refunding(req) => /\ ctx.payment = Payments[req.payment] /\ ctx.payment # None
                          /\ ctx.refunded = m.refunded[req.payment]
    BY <1>2, <1>4, RecordsAssumption DEF Refunding, Lookup, Tally
  <2> QED
    BY <1>3, <2>1 DEF Refunding, r06_refund_exceeds_payment
<1>9. Charged(req) => m.spent[req.invoice] + CostOf(req) <= Budget(Invoices[req.invoice])
  <2>1. assess(req, ctx) # "deny"
    BY <1>1 DEF Judgement, Strictest
  <2> QED
    BY <1>5, <2>1 DEF Charged, assess, Priced
<1> QED
  BY <1>1, <1>6, <1>7, <1>8, <1>9

\* Every allowed row respects the limits as the rows before it left them.
LEMMA RowsWithinLimits ==
  ASSUME TypeOK, NEW f, Tallied(f), kept = 0, NEW i \in AllowedRows
  PROVE  /\ i \in 1 .. Len(log) /\ log[i] \in DecisionRows /\ f[i - 1] \in Counters
         /\ Moved(f[i - 1], log[i], f[i])
         /\ log[i].cost = CostOf(log[i].req)
         /\ Chased(log[i].req) /\ log[i].req.action \in ATTEMPT_ACTIONS =>
              ~ (f[i - 1].attempts[log[i].req.invoice] >= MAX_RECOVERY_ATTEMPTS)
         /\ Contacts(log[i].req) =>
              ~ (contacts_in_window(f[i - 1], log[i].req.customer, log[i].at) >= MAX_CONTACTS_PER_24H)
         /\ Refunding(log[i].req) =>
              ~ (log[i].req.amount >
                   Payments[log[i].req.payment].amount - f[i - 1].refunded[log[i].req.payment])
         /\ Charged(log[i].req) =>
              f[i - 1].spent[log[i].req.invoice] + CostOf(log[i].req)
                <= Budget(Invoices[log[i].req.invoice])
<1>1. i \in 1 .. Len(log) /\ i \in DOMAIN log /\ log[i].type = "decision" /\ Allowed(log[i])
  BY LenProperties DEF AllowedRows, Allowed, TypeOK
<1>2. /\ log[i] \in DecisionRows /\ f[i - 1] \in Counters /\ Moved(f[i - 1], log[i], f[i])
  BY <1>1, RowMoves DEF Tallied
<1>3. PICK m \in Counters :
        SameTallies(m, f[i - 1]) /\ log[i] = Decided(m, Invoices, log[i].req, log[i].at)
  BY <1>1 DEF Tallied, JudgedOn
<1> DEFINE req == log[i].req
           at  == log[i].at
<1>4. req \in Ask /\ at \in Instants
  BY <1>2 DEF DecisionRows
<1>5. /\ log[i].cost = CostOf(req)
      /\ Chased(req) /\ req.action \in ATTEMPT_ACTIONS =>
           ~ (m.attempts[req.invoice] >= MAX_RECOVERY_ATTEMPTS)
      /\ Contacts(req) => ~ (contacts_in_window(m, req.customer, at) >= MAX_CONTACTS_PER_24H)
      /\ Refunding(req) =>
           ~ (req.amount > Payments[req.payment].amount - m.refunded[req.payment])
      /\ Charged(req) => m.spent[req.invoice] + CostOf(req) <= Budget(Invoices[req.invoice])
  BY <1>1, <1>3, <1>4, AllowMeansWithinLimits
<1>6. contacts_in_window(m, req.customer, at) = contacts_in_window(f[i - 1], req.customer, at)
  BY <1>3 DEF SameTallies, contacts_in_window
<1> QED
  BY <1>1, <1>2, <1>3, <1>5, <1>6 DEF SameTallies

-----------------------------------------------------------------------------
(* The caps.                                                                 *)

\* However many threads submit, however often the process restarts and
\* whichever appends fail, an invoice is chased MAX_RECOVERY_ATTEMPTS times at
\* most, as long as no commit that raised leaves its row (r07 on Gateway._attempts, _apply_allowed, _rebuild_from_ledger).
THEOREM GatewayAttemptCap == Spec => []AttemptCap
<1>1. TallyInv => AttemptCap
  <2> SUFFICES ASSUME TallyInv, kept = 0, NEW invoice \in InvoiceId \cap DOMAIN Invoices
               PROVE  Cardinality(Attempts(invoice)) <= MAX_RECOVERY_ATTEMPTS
    BY DEF AttemptCap
  <2>1. PICK f : Tallied(f)
    BY NoneOpen DEF TallyInv, TalliesKnown
  <2>2. TypeOK /\ IsRebuild(f, log) /\ Len(log) \in Nat /\ DOMAIN log = 1 .. Len(log)
    BY <2>1, LenProperties DEF TallyInv, Tallied, TypeOK
  <2> DEFINE within == {k \in 0 .. Len(log) : f[k].attempts[invoice] <= MAX_RECOVERY_ATTEMPTS}
  <2>3. 0 \in within
    BY <2>2, RebuildTyped, ThresholdsAssumption DEF TypeOK, Fresh, NoCounts
  <2>4. ASSUME NEW k \in 0 .. Len(log) - 1, k \in within
        PROVE  k + 1 \in within
    <3>1. k + 1 \in 1 .. Len(log) /\ (k + 1) - 1 = k /\ k + 1 \in 0 .. Len(log)
      BY <2>2
    <3>2. /\ f[k] \in Counters /\ f[k + 1] \in Counters
          /\ log[k + 1].type = "decision" => Moved(f[k], log[k + 1], f[k + 1])
          /\ log[k + 1].type # "decision" => SameTallies(f[k + 1], f[k])
      BY <2>2, <3>1, RowMoves
    <3>3. f[k].attempts \in [InvoiceId -> Nat]
      BY <3>2 DEF Counters
    <3>4. AddAt(f[k].attempts, log[k + 1].req.invoice, 1)[invoice] =
            f[k].attempts[invoice] + (IF invoice = log[k + 1].req.invoice THEN 1 ELSE 0)
      BY <3>3, AddAtValue, SMTT(20)
    <3>5. CASE k + 1 \in Attempts(invoice)
      <4>1. ~ (f[k].attempts[invoice] >= MAX_RECOVERY_ATTEMPTS) /\ log[k + 1].type = "decision"
            /\ log[k + 1].req.invoice = invoice
        BY <2>1, <2>2, <3>1, <3>5, RowsWithinLimits DEF Attempts, Chased, AllowedRows, Allowed
      <4>2. f[k + 1].attempts[invoice] \in {f[k].attempts[invoice], f[k].attempts[invoice] + 1}
        BY <3>2, <3>3, <3>4, <4>1 DEF Moved
      <4> QED
        BY <3>1, <3>3, <4>1, <4>2, ThresholdsAssumption
    <3>6. CASE k + 1 \notin Attempts(invoice)
      <4>1. f[k + 1].attempts[invoice] = f[k].attempts[invoice]
        BY <2>2, <3>1, <3>2, <3>3, <3>4, <3>6
        DEF Moved, SameTallies, Attempts, AllowedRows, Allowed
      <4> QED
        BY <2>4, <3>1, <4>1
    <3> QED
      BY <3>5, <3>6
  <2>5. 0 .. Len(log) \subseteq within
    <3> HIDE DEF within
    <3> QED
      BY <2>2, <2>3, <2>4, UpTo
  <2>6. f[Len(log)].attempts[invoice] <= MAX_RECOVERY_ATTEMPTS
    BY <2>2, <2>5
  <2>7. f[Len(log)].attempts[invoice] = Cardinality(Among(Attempts(invoice), Len(log)))
    BY <2>2, AttemptsCounted
  <2>8. Among(Attempts(invoice), Len(log)) = Attempts(invoice)
    <3>1. \A i \in Attempts(invoice) : i <= Len(log)
      BY <2>2 DEF Attempts, AllowedRows
    <3> QED
      BY <3>1, Zenon DEF Among
  <2> QED
    BY <2>6, <2>7, <2>8
<1> QED
  BY <1>1, TallyAlways, PTL

-----------------------------------------------------------------------------
(* The contact window.                                                       *)

\* What contacts_in_window counts, of any sequence of instants.
Recent(instants, from) == {i \in DOMAIN instants : instants[i] >= from}

LEMMA RecentGrows ==
  ASSUME NEW instants \in Seq(Instants), NEW at \in Instants, NEW from \in Int,
         IsFiniteSet(Recent(instants, from))
  PROVE  /\ IsFiniteSet(Recent(Append(instants, at), from))
         /\ Cardinality(Recent(Append(instants, at), from)) =
              IF at >= from THEN Cardinality(Recent(instants, from)) + 1
                            ELSE Cardinality(Recent(instants, from))
<1> DEFINE more == Append(instants, at)
           last == Len(instants) + 1
<1>1. /\ Len(instants) \in Nat /\ DOMAIN instants = 1 .. Len(instants)
      /\ DOMAIN more = 1 .. last /\ more[last] = at
      /\ \A i \in 1 .. Len(instants) : more[i] = instants[i]
  BY AppendProperties, LenProperties
<1> HIDE DEF more
<1>2. last \notin Recent(instants, from) /\ last \in 1 .. last
      /\ \A i : i \in 1 .. last <=> i \in 1 .. Len(instants) \/ i = last
  BY <1>1 DEF Recent
<1> HIDE DEF last
<1>3. CASE at >= from
  <2>1. Recent(more, from) = Recent(instants, from) \cup {last}
    BY <1>1, <1>2, <1>3 DEF Recent
  <2> QED
    BY <1>2, <1>3, <2>1, FS_AddElement DEF more
<1>4. CASE ~ (at >= from)
  <2>1. Recent(more, from) = Recent(instants, from)
    BY <1>1, <1>2, <1>4 DEF Recent
  <2> QED
    BY <1>4, <2>1 DEF more
<1> QED
  BY <1>3, <1>4

LEMMA InstantsAreHours == \A at \in Instants : at \in Nat /\ at >= at
<1>1. \A at \in Instants : at \in Nat
  BY InstantsAssumption
<1>2. \A n \in Nat : n >= n
  OBVIOUS
<1> QED
  BY <1>1, <1>2

LEMMA ContactsCounted ==
  ASSUME TypeOK, NEW f, IsRebuild(f, log), NEW customer \in CustomerId, NEW from \in Int,
         NEW k \in 0 .. Len(log)
  PROVE  /\ IsFiniteSet(Among(ContactRows(customer, from), k))
         /\ Cardinality(Recent(f[k].contacts[customer], from)) =
              Cardinality(Among(ContactRows(customer, from), k))
<1> DEFINE list(n) == f[n].contacts[customer]
           g == [n \in 0 .. k |-> Cardinality(Recent(list(n), from))]
           chosen == Among(ContactRows(customer, from), k)
           finite == {n \in 0 .. k : IsFiniteSet(Recent(list(n), from))}
<1>1. Len(log) \in Nat /\ DOMAIN log = 1 .. Len(log) /\ k \in Nat
  BY LenProperties DEF TypeOK
<1>2. chosen \in SUBSET (1 .. k)
  BY <1>1 DEF Among, ContactRows, AllowedRows
<1>3. IsFiniteSet(Recent(list(0), from)) /\ Cardinality(Recent(list(0), from)) = 0
  <2>1. list(0) = <<>>
    BY RebuildTyped DEF TypeOK, Fresh, NoCounts
  <2>2. Recent(<<>>, from) = {}
    BY DEF Recent
  <2> QED
    BY <2>1, <2>2, FS_EmptySet
<1>4. \A n \in 0 .. k : list(n) \in Seq(Instants)
  <2> TAKE n \in 0 .. k
  <2>1. n \in 0 .. Len(log)
    BY <1>1
  <2>2. f[n] \in Counters
    BY <2>1, RebuildTyped DEF TypeOK
  <2> QED
    BY <2>2 DEF Counters
\* One row more is one contact more, if it is one.
<1>5. ASSUME NEW n \in 1 .. k
      PROVE  IF n \in ContactRows(customer, log[n].at)
               THEN log[n].at \in Instants /\ list(n) = Append(list(n - 1), log[n].at)
               ELSE list(n) = list(n - 1)
  <2>1. n \in 1 .. Len(log) /\ n - 1 \in 0 .. k /\ n \in 0 .. k /\ n <= k
    BY <1>1
  <2>2. /\ n \in DOMAIN log /\ f[n - 1] \in Counters
        /\ log[n].type = "decision" => log[n] \in DecisionRows /\ Moved(f[n - 1], log[n], f[n])
        /\ log[n].type # "decision" => SameTallies(f[n], f[n - 1])
    BY <2>1, RowMoves
  <2>3. log[n].type = "decision" => log[n].at \in Instants /\ log[n].at >= log[n].at
    BY <2>2, InstantsAreHours DEF DecisionRows
  <2>4. n \in ContactRows(customer, log[n].at)
          <=> /\ log[n].type = "decision" /\ log[n].verdict = "allow"
              /\ Contacts(log[n].req) /\ log[n].req.customer = customer
    BY <2>2, <2>3 DEF ContactRows, AllowedRows, Allowed
  <2>5. f[n - 1].contacts \in [CustomerId -> Seq(Instants)]
    BY <2>2 DEF Counters
  <2>6. CASE log[n].type = "decision" /\ log[n].verdict = "allow"
    <3>1. f[n].contacts = Contacted(f[n - 1].contacts, log[n])
      BY <2>2, <2>6 DEF Moved
    <3> QED
      BY <2>3, <2>4, <2>5, <2>6, <3>1 DEF Contacted
  <2>7. CASE ~ (log[n].type = "decision" /\ log[n].verdict = "allow")
    <3>1. f[n].contacts = f[n - 1].contacts
      BY <2>2, <2>7 DEF Moved, SameTallies
    <3> QED
      BY <2>4, <2>7, <3>1
  <2> QED
    BY <2>6, <2>7
<1>6. ASSUME NEW n \in 1 .. k, n - 1 \in finite
      PROVE  n \in finite /\ g[n] = IF n \in chosen THEN g[n - 1] + 1 ELSE g[n - 1]
  <2>1. n - 1 \in 0 .. k /\ n \in 0 .. k /\ n <= k /\ IsFiniteSet(Recent(list(n - 1), from))
    BY <1>1, <1>6
  <2>2. n \in chosen <=> n \in ContactRows(customer, log[n].at) /\ log[n].at >= from
    <3>1. n \in AllowedRows => log[n].at \in Instants
      BY <1>1, RowMoves DEF AllowedRows, Allowed, DecisionRows
    <3>2. n \in AllowedRows => log[n].at >= log[n].at
      BY <3>1, InstantsAreHours
    <3> QED
      BY <2>1, <3>2 DEF Among, ContactRows
  <2>3. list(n - 1) \in Seq(Instants)
    BY <1>4, <2>1
  <2> HIDE DEF chosen, list
  <2>4. CASE n \in ContactRows(customer, log[n].at)
    <3>1. log[n].at \in Instants /\ list(n) = Append(list(n - 1), log[n].at)
      BY <1>5, <2>4
    <3> QED
      BY <2>1, <2>2, <2>3, <2>4, <3>1, RecentGrows
  <2>5. CASE n \notin ContactRows(customer, log[n].at)
    <3>1. list(n) = list(n - 1)
      BY <1>5, <2>5
    <3> QED
      BY <2>1, <2>2, <2>5, <3>1
  <2> QED
    BY <2>4, <2>5
<1>7. 0 .. k \subseteq finite
  <2>1. 0 \in finite
    BY <1>1, <1>3
  <2>2. ASSUME NEW n \in 0 .. k - 1, n \in finite
        PROVE  n + 1 \in finite
    <3>1. n + 1 \in 1 .. k /\ (n + 1) - 1 = n
      BY <1>1
    <3> QED
      BY <1>6, <2>2, <3>1
  <2> HIDE DEF finite
  <2> QED
    BY <1>1, <2>1, <2>2, UpTo
<1>8. g[0] = 0
  BY <1>1, <1>3
<1>9. \A n \in 1 .. k : g[n] = IF n \in chosen THEN g[n - 1] + 1 ELSE g[n - 1]
  <2> TAKE n \in 1 .. k
  <2>1. n - 1 \in 0 .. k
    BY <1>1
  <2>2. n - 1 \in finite
    BY <1>7, <2>1
  <2> QED
    BY <1>6, <2>2
<1> HIDE DEF g, chosen, finite
<1>10. IsFiniteSet(chosen) /\ g[k] = Cardinality(chosen)
  BY <1>1, <1>2, <1>8, <1>9, CountsRows
<1> QED
  BY <1>1, <1>10 DEF g, chosen

\* Nobody is contacted more than MAX_CONTACTS_PER_24H times within any 24 hours,
\* across threads, restarts and failing appends, as long as no commit that raised
\* leaves its row: every window has a last contact, and that one was judged on the
\* others (r02 on Gateway._contacts_last_24h, _apply_allowed,
\* _rebuild_from_ledger).
THEOREM GatewayContactCap == Spec => []ContactCap
<1>1. TallyInv => ContactCap
  <2> DEFINE customer(i) == log[i].req.customer
             window(i) == ContactsSince(customer(i), log[i].at - CONTACT_WINDOW, log[i].at)
  <2> SUFFICES ASSUME TallyInv, kept = 0, NEW i \in AllowedRows, Contacts(log[i].req)
               PROVE  Cardinality(window(i)) <= MAX_CONTACTS_PER_24H
    BY DEF ContactCap
  <2>1. PICK f : Tallied(f)
    BY NoneOpen DEF TallyInv, TalliesKnown
  <2>2. TypeOK /\ IsRebuild(f, log) /\ Len(log) \in Nat /\ DOMAIN log = 1 .. Len(log)
    BY <2>1, LenProperties DEF TallyInv, Tallied, TypeOK
  <2>3. \A j \in AllowedRows : log[j].at \in Nat
    BY <2>1, <2>2, RowsWithinLimits, InstantsAssumption DEF DecisionRows
  <2>4. i \in window(i) /\ window(i) \in SUBSET (1 .. Len(log))
    BY <2>2, <2>3 DEF ContactsSince, CONTACT_WINDOW, AllowedRows
  <2> DEFINE last == Max(window(i))
  <2>5. last \in window(i) /\ \A j \in window(i) : last >= j
    BY <2>2, <2>4, Greatest
  <2> HIDE DEF last
  <2> DEFINE from == log[last].at - CONTACT_WINDOW
             before == Among(ContactRows(customer(i), from), last - 1)
  <2>6. /\ last \in AllowedRows /\ last \in 1 .. Len(log) /\ Contacts(log[last].req)
        /\ customer(last) = customer(i)
        /\ log[last].at \in Nat /\ log[last].at <= log[i].at /\ from \in Int
        /\ last - 1 \in 0 .. Len(log)
    BY <2>2, <2>3, <2>4, <2>5 DEF ContactsSince, CONTACT_WINDOW
  <2>7. window(i) \ {last} \subseteq before
    <3> SUFFICES ASSUME NEW j \in window(i), j # last
                 PROVE  j \in before
      OBVIOUS
    <3>1. /\ j \in AllowedRows /\ Contacts(log[j].req) /\ customer(j) = customer(i)
          /\ log[j].at >= log[i].at - CONTACT_WINDOW /\ log[j].at \in Nat
          /\ j \in 1 .. Len(log) /\ last >= j
      BY <2>3, <2>4, <2>5 DEF ContactsSince
    <3>2. log[i].at \in Nat /\ log[last].at \in Nat /\ log[last].at <= log[i].at
      BY <2>3, <2>6
    <3>3. log[j].at >= from
      BY <3>1, <3>2, SMTT(20) DEF CONTACT_WINDOW
    <3>4. j <= last - 1
      BY <2>2, <2>6, <3>1
    <3> QED
      BY <3>1, <3>3, <3>4 DEF Among, ContactRows
  <2>8. /\ f[last - 1] \in Counters /\ customer(i) \in CustomerId
        /\ ~ (contacts_in_window(f[last - 1], customer(i), log[last].at) >= MAX_CONTACTS_PER_24H)
    BY <2>1, <2>2, <2>6, RowsWithinLimits DEF DecisionRows, CustomerId
  <2>9. contacts_in_window(f[last - 1], customer(i), log[last].at) =
          Cardinality(Recent(f[last - 1].contacts[customer(i)], from))
    BY <2>8 DEF contacts_in_window, Recent, Counters
  <2>10. IsFiniteSet(before) /\ Cardinality(before) \in Nat
         /\ contacts_in_window(f[last - 1], customer(i), log[last].at) = Cardinality(before)
    BY <2>2, <2>6, <2>8, <2>9, ContactsCounted, FS_CardinalityType
  <2> HIDE DEF before, window
  <2>11. /\ IsFiniteSet(window(i) \ {last})
         /\ Cardinality(window(i) \ {last}) <= Cardinality(before)
    BY <2>7, <2>10, FS_Subset
  <2>12. window(i) = (window(i) \ {last}) \cup {last}
    BY <2>5
  <2>13. Cardinality(window(i)) = Cardinality(window(i) \ {last}) + 1
         /\ Cardinality(window(i) \ {last}) \in Nat
    BY <2>11, <2>12, FS_AddElement, FS_CardinalityType
  <2> QED
    BY <2>8, <2>10, <2>11, <2>13, ThresholdsAssumption
<1> QED
  BY <1>1, TallyAlways, PTL

-----------------------------------------------------------------------------
(* The sums.                                                                 *)

LEMMA AddsUp ==
  ASSUME NEW N \in Nat, NEW amounts \in [1 .. N -> Int], NEW g, g[0] = 0,
         \A n \in 1 .. N : g[n] = g[n - 1] + amounts[n]
  PROVE  Total(amounts) = g[N]
<1> DEFINE h == [n \in 0 .. N |-> g[n]]
<1>1. amounts \in Seq(Int) /\ Len(amounts) = N
  <2>1. amounts \in Seq(Int) /\ DOMAIN amounts = 1 .. N
    BY SeqDef
  <2> QED
    BY <2>1, LenProperties
<1>2. \A n \in 0 .. N : h[n] = IF n = 0 THEN 0 ELSE h[n - 1] + amounts[n]
  <2> TAKE n \in 0 .. N
  <2>1. CASE n = 0
    BY <2>1
  <2>2. CASE n # 0
    <3>1. n \in 1 .. N /\ n - 1 \in 0 .. N
      BY <2>2
    <3> QED
      BY <2>2, <3>1
  <2> QED
    BY <2>1, <2>2
<1>3. Sums(h, amounts)
  BY <1>1, <1>2 DEF Sums
<1>4. Total(amounts) = h[Len(amounts)]
  <2> HIDE DEF h
  <2> QED
    BY <1>1, <1>3, TotalIs
<1> QED
  BY <1>1, <1>4

\* What one row adds to every tally that is a sum.
LEMMA RowAdds ==
  ASSUME TypeOK, NEW f, IsRebuild(f, log), NEW n \in 1 .. Len(log)
  PROVE  /\ \A payment \in PaymentId :
              f[n].refunded[payment] =
                f[n - 1].refunded[payment] + (IF n \in Refunds(payment) THEN log[n].req.amount ELSE 0)
         /\ \A invoice \in InvoiceId :
              f[n].spent[invoice] =
                f[n - 1].spent[invoice]
                  + (IF n \in AllowedRows /\ log[n].req.invoice = invoice THEN log[n].cost ELSE 0)
         /\ f[n].spend = f[n - 1].spend + (IF n \in AllowedRows THEN log[n].cost ELSE 0)
<1>1. /\ n \in DOMAIN log /\ f[n - 1] \in Counters
      /\ log[n].type = "decision" => log[n] \in DecisionRows /\ Moved(f[n - 1], log[n], f[n])
      /\ log[n].type # "decision" => SameTallies(f[n], f[n - 1])
  BY RowMoves
<1>2. /\ f[n - 1].refunded \in [PaymentId -> Int] /\ f[n - 1].spent \in [InvoiceId -> Int]
      /\ f[n - 1].spend \in Int
  BY <1>1 DEF Counters
<1>3. n \in AllowedRows <=> log[n].type = "decision" /\ log[n].verdict = "allow"
  BY <1>1 DEF AllowedRows, Allowed
<1>4. CASE n \in AllowedRows
  <2>1. /\ f[n].refunded = IF log[n].req.action = "issue_refund"
             THEN AddAt(f[n - 1].refunded, log[n].req.payment, log[n].req.amount)
             ELSE f[n - 1].refunded
        /\ f[n].spent = AddAt(f[n - 1].spent, log[n].req.invoice, log[n].cost)
        /\ f[n].spend = f[n - 1].spend + log[n].cost
    BY <1>1, <1>3, <1>4 DEF Moved
  <2> DEFINE amount == log[n].req.amount
  <2>2. amount \in Int /\ log[n].cost \in Int
    BY <1>1, <1>3, <1>4, AskAssumption DEF DecisionRows
  <2>3. ASSUME NEW payment \in PaymentId
        PROVE  f[n].refunded[payment] =
                 f[n - 1].refunded[payment] + (IF n \in Refunds(payment) THEN log[n].req.amount ELSE 0)
    <3>1. n \in Refunds(payment)
            <=> log[n].req.payment = payment /\ log[n].req.action = "issue_refund"
      BY <1>4 DEF Refunds
    <3>2. AddAt(f[n - 1].refunded, log[n].req.payment, amount)[payment] =
            f[n - 1].refunded[payment] + (IF payment = log[n].req.payment THEN amount ELSE 0)
      <4> HIDE DEF amount
      <4> QED
        BY <1>2, <2>2 DEF AddAt
    <3>3. f[n - 1].refunded[payment] \in Int
      BY <1>2
    <3> QED
      BY <2>1, <2>2, <3>1, <3>2, <3>3
  <2>4. ASSUME NEW invoice \in InvoiceId
        PROVE  f[n].spent[invoice] =
                 f[n - 1].spent[invoice] + (IF log[n].req.invoice = invoice THEN log[n].cost ELSE 0)
    BY <1>2, <2>1, <2>2, AddAtValue
  <2> QED
    BY <1>4, <2>1, <2>3, <2>4
<1>5. CASE n \notin AllowedRows
  <2>1. /\ f[n].refunded = f[n - 1].refunded /\ f[n].spent = f[n - 1].spent
        /\ f[n].spend = f[n - 1].spend
    BY <1>1, <1>3, <1>5 DEF Moved, SameTallies
  <2>2. \A payment : n \notin Refunds(payment)
    BY <1>5 DEF Refunds
  <2> QED
    BY <1>2, <1>5, <2>1, <2>2
<1> QED
  BY <1>4, <1>5

LEMMA RefundsSummed ==
  ASSUME TypeOK, NEW f, IsRebuild(f, log), NEW payment \in PaymentId
  PROVE  f[Len(log)].refunded[payment] = Amount(Refunds(payment))
<1> DEFINE g == [n \in 0 .. Len(log) |-> f[n].refunded[payment]]
           amounts == [i \in DOMAIN log |-> IF i \in Refunds(payment) THEN log[i].req.amount ELSE 0]
<1>1. Len(log) \in Nat /\ DOMAIN log = 1 .. Len(log)
  BY LenProperties DEF TypeOK
<1>2. amounts \in [1 .. Len(log) -> Int]
  <2>1. ASSUME NEW i \in Refunds(payment)
        PROVE  log[i].req.amount \in Int
    BY <1>1, RowMoves, AskAssumption DEF Refunds, AllowedRows, Allowed, DecisionRows
  <2> QED
    BY <1>1, <2>1
<1>3. g[0] = 0
  BY <1>1, RebuildTyped DEF TypeOK, Fresh, NoCounts
<1>4. ASSUME NEW n \in 1 .. Len(log)
      PROVE  g[n] = g[n - 1] + amounts[n]
  BY <1>1, RowAdds
<1> HIDE DEF g, amounts
<1>5. Total(amounts) = g[Len(log)]
  BY <1>1, <1>2, <1>3, <1>4, AddsUp
<1> QED
  BY <1>1, <1>5 DEF g, amounts, Amount

\* Nothing is refunded beyond what was paid, in however many parts, by however
\* many threads and across restarts, as long as no commit that raised leaves its
\* row (r06 on Gateway._refunded, _apply_allowed, _rebuild_from_ledger).  A payment is of no negative amount: the schema asks
\* for an integer only (engine/schema.py:270).
THEOREM GatewayRefundsWithinPayment ==
  ASSUME \A payment \in DOMAIN Payments : Payments[payment].amount >= 0
  PROVE  Spec => []RefundsWithinPayment
<1>1. TallyInv => RefundsWithinPayment
  <2> SUFFICES ASSUME TallyInv, kept = 0, NEW payment \in PaymentId \cap DOMAIN Payments
               PROVE  Amount(Refunds(payment)) <= Payments[payment].amount
    BY DEF RefundsWithinPayment
  <2>1. PICK f : Tallied(f)
    BY NoneOpen DEF TallyInv, TalliesKnown
  <2>2. TypeOK /\ IsRebuild(f, log) /\ Len(log) \in Nat /\ DOMAIN log = 1 .. Len(log)
    BY <2>1, LenProperties DEF TallyInv, Tallied, TypeOK
  <2>3. Payments[payment].amount \in Int /\ Payments[payment].amount >= 0
    BY RecordsAssumption
  <2> DEFINE within == {k \in 0 .. Len(log) : f[k].refunded[payment] <= Payments[payment].amount}
  <2>4. 0 \in within
    BY <2>2, <2>3, RebuildTyped DEF TypeOK, Fresh, NoCounts
  <2>5. ASSUME NEW k \in 0 .. Len(log) - 1, k \in within
        PROVE  k + 1 \in within
    <3>1. k + 1 \in 1 .. Len(log) /\ (k + 1) - 1 = k /\ k + 1 \in 0 .. Len(log)
      BY <2>2
    <3>2. f[k] \in Counters /\ f[k].refunded[payment] \in Int
      <4>1. f[k] \in Counters
        BY <2>2, <3>1, RowMoves
      <4> QED
        BY <4>1 DEF Counters
    <3>3. f[k + 1].refunded[payment] =
            f[k].refunded[payment] + (IF k + 1 \in Refunds(payment) THEN log[k + 1].req.amount ELSE 0)
      BY <2>2, <3>1, RowAdds
    <3>4. CASE k + 1 \in Refunds(payment)
      <4>1. /\ k + 1 \in AllowedRows /\ Refunding(log[k + 1].req)
            /\ log[k + 1].req.payment = payment
        BY <3>4 DEF Refunds, Refunding
      <4>2. /\ ~ (log[k + 1].req.amount > Payments[payment].amount - f[k].refunded[payment])
            /\ log[k + 1].req.amount \in Int
        BY <2>1, <2>2, <3>1, <4>1, RowsWithinLimits, AskAssumption DEF DecisionRows
      <4> QED
        BY <2>3, <3>1, <3>2, <3>3, <3>4, <4>2
    <3>5. CASE k + 1 \notin Refunds(payment)
      BY <2>5, <3>1, <3>2, <3>3, <3>5
    <3> QED
      BY <3>4, <3>5
  <2>6. 0 .. Len(log) \subseteq within
    <3> HIDE DEF within
    <3> QED
      BY <2>2, <2>4, <2>5, UpTo
  <2>7. f[Len(log)].refunded[payment] <= Payments[payment].amount
    BY <2>2, <2>6
  <2> QED
    BY <2>2, <2>7, RefundsSummed
<1> QED
  BY <1>1, TallyAlways, PTL

\* What the economics gate has no opinion on costs nothing, and a risk action
\* is never a gain.
LEMMA CostsOutsideTheGate ==
  ASSUME NEW req \in Ask
  PROVE  /\ req.action \in NO_OPINION => CostOf(req) = 0
         /\ req.action \in RISK_ACTIONS => CostOf(req) >= 0
BY AskAssumption
DEF CostOf, ACTION_COST_PAISE, NO_OPINION, RISK_ACTIONS, ActionType, ATTEMPT_ACTIONS, CONTACT_ACTIONS

\* What recovering an invoice has cost stays within a fifth of it, in however
\* many attempts, as long as no commit that raised leaves its row: the gate
\* compares with all that was spent on the invoice,
\* which is never less than what the attempts cost (economics.assess on
\* Gateway._spent).  An invoice is of no negative amount: the schema asks for
\* an integer only (engine/schema.py:251).
THEOREM GatewayRecoveryWithinBudget ==
  ASSUME \A invoice \in DOMAIN Invoices : Invoices[invoice].amount >= 0
  PROVE  Spec => []RecoveryWithinBudget
<1>1. TallyInv => RecoveryWithinBudget
  <2> DEFINE recovering == ActionType \ RISK_ACTIONS
             rows(invoice) ==
               {i \in AllowedRows : log[i].req.invoice = invoice /\ log[i].req.action \in recovering}
             amounts(invoice) == [i \in DOMAIN log |-> IF i \in rows(invoice) THEN log[i].cost ELSE 0]
  <2> SUFFICES ASSUME TallyInv, kept = 0, NEW invoice \in InvoiceId \cap DOMAIN Invoices
               PROVE  Total(amounts(invoice)) <= Budget(Invoices[invoice])
    BY DEF RecoveryWithinBudget, CostOn, Cost
  <2>1. PICK f : Tallied(f)
    BY NoneOpen DEF TallyInv, TalliesKnown
  <2>2. TypeOK /\ IsRebuild(f, log) /\ Len(log) \in Nat /\ DOMAIN log = 1 .. Len(log)
    BY <2>1, LenProperties DEF TallyInv, Tallied, TypeOK
  <2>3. ASSUME NEW i \in AllowedRows
        PROVE  /\ i \in 1 .. Len(log) /\ log[i].req \in Ask /\ log[i].cost \in Int
               /\ log[i].cost = CostOf(log[i].req)
               /\ Charged(log[i].req) =>
                    f[i - 1].spent[log[i].req.invoice] + CostOf(log[i].req)
                      <= Budget(Invoices[log[i].req.invoice])
    BY <2>1, <2>2, RowsWithinLimits DEF DecisionRows
  <2>4. amounts(invoice) \in [1 .. Len(log) -> Int]
    BY <2>2, <2>3
  <2> DEFINE amount == amounts(invoice)
             budget == Budget(Invoices[invoice])
  <2>5. budget \in Nat
    BY RecordsAssumption DEF Budget
  <2>6. PICK g \in [0 .. Len(log) -> Int] :
          g[0] = 0 /\ \A n \in 1 .. Len(log) : g[n] = g[n - 1] + amount[n]
    <3> HIDE DEF amounts
    <3> QED
      BY <2>2, <2>4, SumsExist
  <2>7. Total(amount) = g[Len(log)]
    <3> HIDE DEF amounts
    <3> QED
      BY <2>2, <2>4, <2>6, AddsUp
  <2> DEFINE within == {k \in 0 .. Len(log) : g[k] <= f[k].spent[invoice] /\ g[k] <= budget}
  <2>8. 0 \in within
    <3>1. f[0].spent[invoice] = 0
      BY <2>2, RebuildTyped DEF TypeOK, Fresh, NoCounts
    <3> QED
      BY <2>2, <2>5, <2>6, <3>1
  <2>9. ASSUME NEW k \in 0 .. Len(log) - 1, k \in within
        PROVE  k + 1 \in within
    <3> DEFINE n    == k + 1
               cost == log[n].cost
               old  == f[k].spent[invoice]
               new  == f[n].spent[invoice]
    <3>1. n \in 1 .. Len(log) /\ n - 1 = k /\ n \in 0 .. Len(log) /\ n \in DOMAIN log
      BY <2>2
    <3>2. old \in Int /\ g[k] \in Int /\ g[k] <= old /\ g[k] <= budget
      <4>1. f[k] \in Counters
        BY <2>2, <3>1, RowMoves
      <4> QED
        BY <2>6, <2>9, <4>1 DEF Counters
    <3>3. new = old + (IF n \in AllowedRows /\ log[n].req.invoice = invoice THEN cost ELSE 0)
      BY <2>2, <3>1, RowAdds
    <3>4. g[n] = g[k] + (IF n \in rows(invoice) THEN cost ELSE 0)
      BY <2>6, <3>1
    <3>5. CASE n \in AllowedRows /\ log[n].req.invoice = invoice
      <4>1. /\ log[n].req \in Ask /\ cost \in Int /\ cost = CostOf(log[n].req)
            /\ log[n].req.action \in ActionType
        BY <2>3, <3>5, AskAssumption
      <4>2. n \in rows(invoice) <=> log[n].req.action \notin RISK_ACTIONS
        BY <3>5, <4>1
      <4> HIDE DEF rows, n, cost, old, new
      <4>3. CASE log[n].req.action \in RISK_ACTIONS
        <5>1. cost >= 0
          BY <4>1, <4>3, CostsOutsideTheGate
        <5>2. g[n] = g[k] /\ new = old + cost
          BY <3>2, <3>3, <3>4, <3>5, <4>2, <4>3
        <5>3. g[n] <= new /\ g[n] <= budget
          BY <3>2, <4>1, <5>1, <5>2
        <5> QED
          BY <3>1, <5>3 DEF new, n
      <4>4. CASE log[n].req.action \in NO_OPINION
        <5>1. cost = 0
          BY <4>1, <4>4, CostsOutsideTheGate
        <5>2. g[n] = g[k] /\ new = old
          BY <3>2, <3>3, <3>4, <5>1
        <5> QED
          BY <3>1, <3>2, <5>2 DEF new, n
      <4>5. CASE log[n].req.action \notin RISK_ACTIONS \cup NO_OPINION
        <5>1. Charged(log[n].req)
          BY <3>5, <4>5 DEF Charged, Chased
        <5>2. old + cost <= budget
          BY <2>3, <3>1, <3>5, <4>1, <5>1 DEF n, cost, old
        <5>3. g[n] = g[k] + cost /\ new = old + cost
          BY <3>3, <3>4, <3>5, <4>2, <4>5
        <5>4. g[n] <= new /\ g[n] <= budget
          BY <2>5, <3>2, <4>1, <5>2, <5>3
        <5> QED
          BY <3>1, <5>4 DEF new, n
      <4> QED
        BY <4>3, <4>4, <4>5
    <3>6. CASE ~ (n \in AllowedRows /\ log[n].req.invoice = invoice)
      <4>1. n \notin rows(invoice)
        BY <3>6
      <4>2. g[n] = g[k] /\ new = old
        <5> HIDE DEF rows, n, cost, old, new
        <5> QED
          BY <3>2, <3>3, <3>4, <3>6, <4>1
      <4> QED
        BY <3>1, <3>2, <4>2
    <3> QED
      BY <3>5, <3>6
  <2>10. 0 .. Len(log) \subseteq within
    <3> HIDE DEF within
    <3> QED
      BY <2>2, <2>8, <2>9, UpTo
  <2>11. g[Len(log)] <= budget
    BY <2>2, <2>10
  <2> QED
    BY <2>7, <2>11
<1> QED
  BY <1>1, TallyAlways, PTL

-----------------------------------------------------------------------------
(* The counters and the log.                                                 *)

LEMMA KeysCollected ==
  ASSUME TypeOK, NEW f, IsRebuild(f, log)
  PROVE  f[Len(log)].used_keys = {log[i].req.key : i \in AllowedRows} \ {None}
<1> DEFINE
      keys(k) == {log[i].req.key : i \in Among(AllowedRows, k)} \ {None}
      right   == {k \in 0 .. Len(log) : f[k].used_keys = keys(k)}
<1>1. Len(log) \in Nat /\ \A i \in AllowedRows : i \in 1 .. Len(log)
  BY LenProperties DEF TypeOK, AllowedRows
<1>2. 0 \in right
  <2>1. Among(AllowedRows, 0) = {}
    <3>1. \A i \in AllowedRows : ~ (i <= 0)
      BY <1>1
    <3> QED
      BY <3>1, Zenon DEF Among
  <2>2. f[0].used_keys = {}
    BY RebuildTyped, FreshTyped DEF TypeOK
  <2> QED
    BY <1>1, <2>1, <2>2
<1>3. ASSUME NEW k \in 0 .. Len(log) - 1, k \in right
      PROVE  k + 1 \in right
  <2> DEFINE n == k + 1
  <2>1. n \in 1 .. Len(log) /\ n - 1 = k /\ n \in 0 .. Len(log) /\ n \in DOMAIN log
        /\ f[k].used_keys = keys(k)
    BY <1>1, <1>3, LenProperties DEF TypeOK
  <2>2. /\ log[n].type = "decision" => Moved(f[k], log[n], f[n])
        /\ log[n].type # "decision" => SameTallies(f[n], f[k])
    BY <2>1, RowMoves
  <2>3. \A i \in AllowedRows : i <= n <=> i <= k \/ i = n
    BY <1>1
  <2>4. n \in AllowedRows <=> log[n].type = "decision" /\ log[n].verdict = "allow"
    BY <2>1 DEF AllowedRows, Allowed
  <2> HIDE DEF n
  <2>5. CASE n \in AllowedRows
    <3>1. Among(AllowedRows, n) = Among(AllowedRows, k) \cup {n}
      BY <2>3, <2>5, n <= n, Zenon DEF Among
    <3>2. keys(n) = keys(k) \cup ({log[n].req.key} \ {None})
      BY <3>1
    <3>3. f[n].used_keys = f[k].used_keys \cup ({log[n].req.key} \ {None})
      BY <2>2, <2>4, <2>5 DEF Moved
    <3> QED
      BY <2>1, <3>2, <3>3 DEF n
  <2>6. CASE n \notin AllowedRows
    <3>1. Among(AllowedRows, n) = Among(AllowedRows, k)
      BY <2>3, <2>6, Zenon DEF Among
    <3>2. f[n].used_keys = f[k].used_keys
      BY <2>2, <2>4, <2>6 DEF Moved, SameTallies
    <3> QED
      BY <2>1, <3>1, <3>2 DEF n
  <2> QED
    BY <2>5, <2>6
<1>4. 0 .. Len(log) \subseteq right
  <2> HIDE DEF right
  <2> QED
    BY <1>1, <1>2, <1>3, UpTo
<1>5. Among(AllowedRows, Len(log)) = AllowedRows
  <2>1. \A i \in AllowedRows : i <= Len(log)
    BY <1>1
  <2> QED
    BY <2>1, Zenon DEF Among
<1>6. f[Len(log)].used_keys = keys(Len(log))
  BY <1>1, <1>4
<1> QED
  BY <1>5, <1>6

LEMMA VerdictsCounted ==
  ASSUME TypeOK, NEW f, IsRebuild(f, log), NEW verdict \in Verdict
  PROVE  LET rows == {i \in DOMAIN log : log[i].type = "decision" /\ log[i].verdict = verdict}
         IN  IsFiniteSet(rows) /\ f[Len(log)].verdict_counts[verdict] = Cardinality(rows)
<1> DEFINE rows == {i \in DOMAIN log : log[i].type = "decision" /\ log[i].verdict = verdict}
           g == [n \in 0 .. Len(log) |-> f[n].verdict_counts[verdict]]
<1>1. Len(log) \in Nat /\ DOMAIN log = 1 .. Len(log) /\ rows \in SUBSET (1 .. Len(log))
  BY LenProperties DEF TypeOK
<1>2. g[0] = 0
  BY <1>1, RebuildTyped DEF TypeOK, Fresh, NoCounts
<1>3. ASSUME NEW n \in 1 .. Len(log)
      PROVE  g[n] = IF n \in rows THEN g[n - 1] + 1 ELSE g[n - 1]
  <2>1. /\ n \in DOMAIN log /\ n - 1 \in 0 .. Len(log) /\ n \in 0 .. Len(log)
        /\ f[n - 1] \in Counters
        /\ log[n].type = "decision" => Moved(f[n - 1], log[n], f[n])
        /\ log[n].type # "decision" => SameTallies(f[n], f[n - 1])
    BY RowMoves
  <2>2. f[n - 1].verdict_counts \in [Verdict -> Nat]
    BY <2>1 DEF Counters
  <2>3. AddAt(f[n - 1].verdict_counts, log[n].verdict, 1)[verdict] =
          f[n - 1].verdict_counts[verdict] + (IF verdict = log[n].verdict THEN 1 ELSE 0)
    BY <2>2, AddAtValue
  <2>4. n \in rows <=> log[n].type = "decision" /\ log[n].verdict = verdict
    BY <2>1
  <2> HIDE DEF rows
  <2>5. f[n].verdict_counts[verdict] =
          f[n - 1].verdict_counts[verdict] + (IF n \in rows THEN 1 ELSE 0)
    BY <2>1, <2>2, <2>3, <2>4 DEF Moved, SameTallies
  <2> QED
    BY <2>1, <2>2, <2>5
<1> HIDE DEF rows, g
<1>4. IsFiniteSet(rows) /\ g[Len(log)] = Cardinality(rows)
  BY <1>1, <1>2, <1>3, CountsRows
<1> QED
  BY <1>1, <1>4 DEF rows, g

LEMMA CostsSummed ==
  ASSUME TypeOK, NEW f, IsRebuild(f, log)
  PROVE  /\ \A invoice \in InvoiceId : f[Len(log)].spent[invoice] = CostOn(invoice, ActionType)
         /\ f[Len(log)].spend = Cost(AllowedRows)
<1> DEFINE amounts(rows) == [i \in DOMAIN log |-> IF i \in rows THEN log[i].cost ELSE 0]
<1>1. Len(log) \in Nat /\ DOMAIN log = 1 .. Len(log) /\ AllowedRows \subseteq DOMAIN log
  BY LenProperties DEF TypeOK, AllowedRows
<1>2. \A i \in AllowedRows : log[i].cost \in Int /\ log[i].req.action \in ActionType
  BY <1>1, RowMoves, AskAssumption DEF AllowedRows, Allowed, DecisionRows
<1>3. \A rows \in SUBSET AllowedRows : amounts(rows) \in [1 .. Len(log) -> Int]
  BY <1>1, <1>2
<1>4. ASSUME NEW invoice \in InvoiceId
      PROVE  f[Len(log)].spent[invoice] = CostOn(invoice, ActionType)
  <2> DEFINE rows == {i \in AllowedRows :
                        log[i].req.invoice = invoice /\ log[i].req.action \in ActionType}
             g == [n \in 0 .. Len(log) |-> f[n].spent[invoice]]
             amount == amounts(rows)
  <2>1. amount \in [1 .. Len(log) -> Int]
    <3> HIDE DEF amounts
    <3> QED
      BY <1>3
  <2>2. g[0] = 0
    BY <1>1, RebuildTyped DEF TypeOK, Fresh, NoCounts
  <2>3. ASSUME NEW n \in 1 .. Len(log)
        PROVE  g[n] = g[n - 1] + amount[n]
    <3>1. f[n].spent[invoice] =
            f[n - 1].spent[invoice]
              + (IF n \in AllowedRows /\ log[n].req.invoice = invoice THEN log[n].cost ELSE 0)
      BY RowAdds
    <3>2. n \in rows <=> n \in AllowedRows /\ log[n].req.invoice = invoice
      BY <1>2
    <3> HIDE DEF rows
    <3> QED
      BY <1>1, <3>1, <3>2
  <2> HIDE DEF g, amount
  <2>4. Total(amount) = g[Len(log)]
    BY <1>1, <2>1, <2>2, <2>3, AddsUp
  <2> QED
    BY <1>1, <2>4 DEF g, amount, CostOn, Cost
<1>5. f[Len(log)].spend = Cost(AllowedRows)
  <2> DEFINE g == [n \in 0 .. Len(log) |-> f[n].spend]
             amount == amounts(AllowedRows)
  <2>1. amount \in [1 .. Len(log) -> Int]
    <3> HIDE DEF amounts
    <3> QED
      BY <1>3
  <2>2. g[0] = 0
    BY <1>1, RebuildTyped DEF TypeOK, Fresh, NoCounts
  <2>3. ASSUME NEW n \in 1 .. Len(log)
        PROVE  g[n] = g[n - 1] + amount[n]
    BY <1>1, RowAdds
  <2> HIDE DEF g, amount
  <2>4. Total(amount) = g[Len(log)]
    BY <1>1, <2>1, <2>2, <2>3, AddsUp
  <2> QED
    BY <1>1, <2>4 DEF g, amount, Cost
<1> QED
  BY <1>4, <1>5

\* What one row does to the signatures and to the queue.
LEMMA RowSigns ==
  ASSUME TypeOK, NEW f, IsRebuild(f, log), NEW n \in 1 .. Len(log)
  PROVE  /\ f[n].approved = IF log[n].type = "human_approval"
                              THEN f[n - 1].approved \cup {log[n].id} ELSE f[n - 1].approved
         /\ f[n].pending =
              CASE log[n].type \in {"human_approval", "human_rejection"} ->
                     f[n - 1].pending \ {log[n].id}
                [] log[n].type = "decision" ->
                     IF log[n].verdict = "needs_human" THEN f[n - 1].pending \cup {log[n].req.id}
                                                       ELSE f[n - 1].pending \ {log[n].req.id}
                [] OTHER -> f[n - 1].pending
<1>1. /\ f[n - 1] \in Counters /\ f[n] = RebuildRow(f[n - 1], log[n])
      /\ log[n].type = "decision" => Moved(f[n - 1], log[n], f[n])
  BY RowMoves, RebuildTyped DEF TypeOK
<1>2. CASE log[n].type = "decision"
  BY <1>1, <1>2 DEF Moved
<1>3. CASE log[n].type = "human_approval"
  <2>1. f[n] = Sign(f[n - 1], log[n].id)
    BY <1>1, <1>3 DEF RebuildRow
  <2> QED
    BY <1>1, <1>3, <2>1 DEF Sign, Counters
<1>4. CASE log[n].type = "human_rejection"
  <2>1. f[n] = Decline(f[n - 1], log[n].id)
    BY <1>1, <1>4 DEF RebuildRow
  <2> QED
    BY <1>1, <1>4, <2>1 DEF Decline, Counters
<1>5. CASE log[n].type \notin {"decision", "human_approval", "human_rejection"}
  <2>1. f[n] = f[n - 1]
    BY <1>1, <1>5 DEF RebuildRow
  <2> QED
    BY <1>5, <2>1
<1> QED
  BY <1>2, <1>3, <1>4, <1>5

-----------------------------------------------------------------------------
(* The approvals in the log.                                                 *)

\* Every approval in the log is in memory, or the rebuild has not reached its
\* row yet: the counters move before the row is written.
ApprovalKnown(i) == log[i].id \in mem.approved \/ (~serving /\ i > cursor)

SignedFirst(t) ==
  job[t].step = "signing" /\ job[t].row.type = "human_approval" => job[t].row.id \in mem.approved

ApprovalsKnown ==
  /\ \A i \in DOMAIN log : log[i].type = "human_approval" => ApprovalKnown(i)
  /\ \A t \in Thread : SignedFirst(t)

\* A step that takes no approval out of the counters and writes none that is not
\* there.
LEMMA ApprovalsKept ==
  ASSUME TypeOK, ApprovalsKnown,
         \/ UNCHANGED log
         \/ RolledBack
         \/ \E row \in LogRows : /\ log' = Append(log, row)
                                 /\ row.type = "human_approval" => row.id \in mem.approved,
         mem.approved \subseteq mem'.approved, UNCHANGED <<serving, cursor>>,
         \A t \in Thread : job'[t] = job[t] \/ SignedFirst(t)'
  PROVE  ApprovalsKnown'
<1>1. ASSUME NEW i \in DOMAIN log', log'[i].type = "human_approval"
      PROVE  ApprovalKnown(i)'
  <2>1. CASE i \in DOMAIN log /\ log'[i] = log[i]
    BY <1>1, <2>1 DEF ApprovalsKnown, ApprovalKnown
  <2>2. CASE UNCHANGED log
    BY <1>1, <2>1, <2>2
  <2>3. CASE RolledBack
    BY <1>1, <2>1, <2>3, Truncated
  <2>4. ASSUME NEW row \in LogRows, log' = Append(log, row),
               row.type = "human_approval" => row.id \in mem.approved
        PROVE  ApprovalKnown(i)'
    <3>1. (i \in DOMAIN log /\ log'[i] = log[i]) \/ log'[i] = row
      BY <2>4, Appended
    <3> QED
      BY <1>1, <2>1, <2>4, <3>1 DEF ApprovalKnown
  <2> QED
    BY <2>2, <2>3, <2>4
<1>2. ASSUME NEW t \in Thread
      PROVE  SignedFirst(t)'
  BY DEF ApprovalsKnown, SignedFirst
<1> QED
  BY <1>1, <1>2 DEF ApprovalsKnown

LEMMA ApprovalsStep ==
  ASSUME TypeOK, Exclusion, ApprovalsKnown, [Next]_vars
  PROVE  ApprovalsKnown'
<1>0. /\ \A req : RequestRow(req).type # "human_approval"
      /\ \A id : OutcomeRow(id).type # "human_approval"
      /\ \A row \in DecisionRows : row.type # "human_approval"
  BY DEF RequestRow, OutcomeRow, DecisionRows
<1>1. ASSUME NEW t \in Thread, NEW req \in Ask, Submit(t, req)
      PROVE  ApprovalsKnown'
  <2>1. \A u \in Thread : job'[u] = job[u] \/ SignedFirst(u)'
    BY <1>1, Entered DEF Submit, Asked, SignedFirst
  <2> QED
    BY <1>0, <1>1, <2>1, RowsTyped, ApprovalsKept DEF Submit
<1>2. ASSUME NEW t \in Thread, NEW id \in RequestId, Resubmit(t, id)
      PROVE  ApprovalsKnown'
  BY <1>1, <1>2, NewestIsAsk DEF Resubmit
<1>3. ASSUME NEW t \in Thread, NEW id \in RequestId, Approve(t, id)
      PROVE  ApprovalsKnown'
  <2>1. mem'.approved = mem.approved \cup {id} /\ UNCHANGED <<log, serving, cursor>>
    BY <1>3, SignTyped DEF Approve, TypeOK
  <2>2. \A u \in Thread : job'[u] = job[u] \/ SignedFirst(u)'
    BY <1>3, <2>1, Entered DEF Approve, Signing, HumanRow, SignedFirst
  <2> QED
    BY <2>1, <2>2, ApprovalsKept
<1>4. ASSUME NEW t \in Thread, NEW id \in RequestId, Reject(t, id)
      PROVE  ApprovalsKnown'
  <2>1. mem'.approved = mem.approved /\ UNCHANGED <<log, serving, cursor>>
    BY <1>4, DeclineTyped DEF Reject, TypeOK
  <2>2. \A u \in Thread : job'[u] = job[u] \/ SignedFirst(u)'
    BY <1>4, Entered DEF Reject, Signing, HumanRow, SignedFirst
  <2> QED
    BY <2>1, <2>2, ApprovalsKept
<1>5. ASSUME NEW t \in Thread, NEW id \in RequestId, ReportOutcome(t, id)
      PROVE  ApprovalsKnown'
  BY <1>0, <1>5, RowsTyped, ApprovalsKept DEF ReportOutcome
<1>6. ASSUME NEW t \in Thread, LogDecision(t)
      PROVE  ApprovalsKnown'
  <2>1. Decided(mem, Invoices, job[t].req, job[t].at) \in DecisionRows
    BY <1>6, JobFields, DecidedTyped DEF LogDecision, TypeOK
  <2>2. PICK row \in DecisionRows : log' = Append(log, row) /\ job' = [job EXCEPT ![t] = Judged(row)]
    BY <1>6, <2>1 DEF LogDecision
  <2>3. \A u \in Thread : job'[u] = job[u] \/ SignedFirst(u)'
    BY <2>2 DEF Judged, SignedFirst, TypeOK
  <2> QED
    BY <1>0, <1>6, <2>2, <2>3, RowsTyped, ApprovalsKept DEF LogDecision
<1>7. ASSUME NEW t \in Thread, ApplyDecision(t)
      PROVE  ApprovalsKnown'
  <2>1. job[t].step = "judged" /\ job[t].row \in DecisionRows
    BY <1>7, JobFields DEF ApplyDecision, TypeOK
  <2>2. mem'.approved = mem.approved
    BY <1>7, <2>1, CountTyped DEF ApplyDecision, TypeOK
  <2>3. \A u \in Thread : job'[u] = job[u] \/ SignedFirst(u)'
    BY <1>7, <2>1, Left DEF ApplyDecision, SignedFirst
  <2> QED
    BY <1>7, <2>2, <2>3, ApprovalsKept DEF ApplyDecision
<1>8. ASSUME NEW t \in Thread, LogSignature(t)
      PROVE  ApprovalsKnown'
  <2>1. job[t].step = "signing" /\ job[t].row \in LogRows
    BY <1>8, JobFields, RowsTyped DEF LogSignature, TypeOK
  <2>2. job[t].row.type = "human_approval" => job[t].row.id \in mem.approved
    BY <2>1 DEF ApprovalsKnown, SignedFirst
  <2>3. \A u \in Thread : job'[u] = job[u] \/ SignedFirst(u)'
    BY <1>8, <2>1, Left DEF LogSignature, SignedFirst
  <2> QED
    BY <1>8, <2>1, <2>2, <2>3, ApprovalsKept DEF LogSignature
<1>9. ASSUME NEW t \in Thread, AppendFails(t)
      PROVE  ApprovalsKnown'
  <2>1. Leave(t) /\ UNCHANGED <<mem, serving, cursor>> /\ (RolledBack \/ UNCHANGED log)
    BY <1>9 DEF AppendFails
  <2>2. \A u \in Thread : job'[u] = job[u] \/ SignedFirst(u)'
    BY <2>1, LeaveTyped DEF Idle, SignedFirst
  <2> QED
    BY <2>1, <2>2, ApprovalsKept
<1>10. ASSUME NEW t \in Thread, CommitRaises(t)
       PROVE  ApprovalsKnown'
  <2>1. PICK row \in InHand(t) : log' = Append(log, row)
    BY <1>10 DEF CommitRaises
  <2>2. Leave(t) /\ UNCHANGED <<mem, serving, cursor>>
    BY <1>10 DEF CommitRaises
  <2>3. row \in LogRows /\ (row.type = "human_approval" => row.id \in mem.approved)
    <3>1. job[t].step = "signing" => row = job[t].row
      BY <2>1, InHandTyped
    <3>2. job[t].step # "signing" => row.type # "human_approval"
      BY <1>0, <2>1, InHandTyped
    <3> QED
      BY <2>1, <3>1, <3>2, InHandTyped DEF ApprovalsKnown, SignedFirst
  <2>4. \A u \in Thread : job'[u] = job[u] \/ SignedFirst(u)'
    BY <2>2, LeaveTyped DEF Idle, SignedFirst
  <2> QED
    BY <2>1, <2>2, <2>3, <2>4, ApprovalsKept
\* Nothing has been read: every row is ahead of the cursor.
<1>11. CASE Crash
  <2>1. ~serving' /\ cursor' = 0 /\ \A u \in Thread : job'[u].step = "idle"
    BY <1>11 DEF Crash, Idle
  <2>2. \A i \in DOMAIN log' : i > 0
    BY <1>11, Truncated DEF Crash
  <2> QED
    BY <2>1, <2>2 DEF ApprovalsKnown, ApprovalKnown, SignedFirst
<1>12. CASE Rebuild
  <2>1. /\ ~serving /\ UNCHANGED <<log, job, serving>> /\ cursor' = cursor + 1 /\ cursor \in Nat
        /\ cursor + 1 \in DOMAIN log /\ log[cursor + 1] \in LogRows
        /\ mem' = RebuildRow(mem, log[cursor + 1]) /\ mem \in Counters
    BY <1>12, LenProperties DEF Rebuild, TypeOK, Settled
  <2>2. /\ mem.approved \subseteq mem'.approved
        /\ log[cursor + 1].type = "human_approval" => log[cursor + 1].id \in mem'.approved
    BY <2>1, RebuildRowTyped
  <2>3. ASSUME NEW i \in DOMAIN log, log[i].type = "human_approval"
        PROVE  log[i].id \in mem'.approved \/ i > cursor'
    <3>1. i \in Nat
      BY LenProperties DEF TypeOK
    <3>2. log[i].id \in mem.approved \/ i > cursor
      BY <2>3 DEF ApprovalsKnown, ApprovalKnown
    <3>3. i > cursor => i = cursor + 1 \/ i > cursor'
      BY <2>1, <3>1
    <3> QED
      BY <2>2, <2>3, <3>2, <3>3
  <2> QED
    BY <2>1, <2>2, <2>3 DEF ApprovalsKnown, ApprovalKnown, SignedFirst
<1>13. CASE Serve
  <2>1. UNCHANGED <<log, mem, job>> /\ \A i \in DOMAIN log : ~ (i > cursor)
    BY <1>13, LenProperties DEF Serve, TypeOK
  <2> QED
    BY <2>1 DEF ApprovalsKnown, ApprovalKnown, SignedFirst
<1>14. CASE Tick \/ UNCHANGED vars
  BY <1>14, ApprovalsKept DEF Tick, vars
<1> QED
  BY <1>1, <1>2, <1>3, <1>4, <1>5, <1>6, <1>7, <1>8, <1>9, <1>10, <1>11, <1>12, <1>13, <1>14,
     SignableKnown
  DEF Next, Step, Finish

LEMMA ApprovalsAlways == Spec => []ApprovalsKnown
<1>1. Init => ApprovalsKnown
  BY DEF Init, ApprovalsKnown, SignedFirst, Idle
<1>2. TallyInv /\ ApprovalsKnown /\ [Next]_vars => ApprovalsKnown'
  BY ApprovalsStep DEF TallyInv
<1> QED
  BY <1>1, <1>2, TallyAlways, PTL DEF Spec

\* Whenever the door is open every tally, the contacts within any window included,
\* is what the log says, for any number of threads and restarts and whichever
\* appends fail, until a commit that raised leaves its row, and again from the
\* next restart on; every approval in the log is in memory whatever raises, and
\* none but those is, unless an append has failed since the process started
\* (Gateway._apply_allowed, _track_pending, approve and _rebuild_from_ledger).
THEOREM GatewayMemoryMatchesLog == Spec => []MemoryMatchesLog
<1>1. TallyInv /\ "kept" \notin raised /\ serving /\ lock = NoThread => TalliesMatch
  <2> SUFFICES ASSUME TallyInv, "kept" \notin raised, serving, lock = NoThread
               PROVE  TalliesMatch
    OBVIOUS
  <2>1. PICK f : Tallied(f)
    BY DEF TallyInv, TalliesKnown
  <2>2. TypeOK /\ IsRebuild(f, log) /\ Len(log) \in Nat /\ DOMAIN log = 1 .. Len(log)
    BY <2>1, LenProperties DEF TallyInv, Tallied, TypeOK
  <2>3. \A t \in Thread : job[t].step = "idle"
    BY Nobody DEF TallyInv, Free
  <2>4. SameTallies(mem, f[Len(log)])
    BY <2>1, <2>3 DEF Tallied, TalliesFollow
  <2>5. ASSUME NEW rows \in SUBSET AllowedRows
        PROVE  Among(rows, Len(log)) = rows
    <3>1. \A i \in rows : i <= Len(log)
      BY <2>2 DEF AllowedRows
    <3> QED
      BY <3>1, Zenon DEF Among
  <2>6. mem.used_keys = {log[i].req.key : i \in AllowedRows} \ {None}
    BY <2>2, <2>4, KeysCollected DEF SameTallies
  <2>7. ASSUME NEW customer \in CustomerId, NEW from \in Instants
        PROVE  Cardinality({n \in DOMAIN mem.contacts[customer] : mem.contacts[customer][n] >= from})
                 = Cardinality(ContactRows(customer, from))
    <3>1. from \in Int /\ Len(log) \in 0 .. Len(log)
      BY <2>2, InstantsAssumption
    <3>2. Cardinality(Recent(f[Len(log)].contacts[customer], from))
            = Cardinality(Among(ContactRows(customer, from), Len(log)))
      BY <2>2, <3>1, ContactsCounted
    <3>3. Among(ContactRows(customer, from), Len(log)) = ContactRows(customer, from)
      BY <2>5 DEF ContactRows
    <3> QED
      BY <2>4, <3>2, <3>3 DEF Recent, SameTallies
  <2>8. ASSUME NEW invoice \in InvoiceId
        PROVE  mem.attempts[invoice] = Cardinality(Attempts(invoice))
    <3>1. f[Len(log)].attempts[invoice] = Cardinality(Among(Attempts(invoice), Len(log)))
      BY <2>2, AttemptsCounted
    <3>2. Among(Attempts(invoice), Len(log)) = Attempts(invoice)
      BY <2>5 DEF Attempts
    <3> QED
      BY <2>4, <3>1, <3>2 DEF SameTallies
  <2>9. \A invoice \in InvoiceId : mem.spent[invoice] = CostOn(invoice, ActionType)
    BY <2>2, <2>4, CostsSummed DEF SameTallies
  <2>10. \A payment \in PaymentId : mem.refunded[payment] = Amount(Refunds(payment))
    BY <2>2, <2>4, RefundsSummed DEF SameTallies
  <2>11. mem.spend = Cost(AllowedRows)
    BY <2>2, <2>4, CostsSummed DEF SameTallies
  <2>12. \A verdict \in Verdict :
           mem.verdict_counts[verdict] =
             Cardinality({i \in DOMAIN log : log[i].type = "decision" /\ log[i].verdict = verdict})
    BY <2>2, <2>4, VerdictsCounted, ZenonT(40) DEF SameTallies
  <2> QED
    BY <2>6, <2>7, <2>8, <2>9, <2>10, <2>11, <2>12 DEF TalliesMatch
<1>2. ApprovalsKnown /\ serving => ApprovedInLog \subseteq mem.approved
  BY DEF ApprovalsKnown, ApprovalKnown, ApprovedInLog
<1>3. TallyInv /\ SignatureInv /\ "lost" \notin raised /\ lock = NoThread
        => mem.approved \subseteq ApprovedInLog
  <2> SUFFICES ASSUME TallyInv, SignatureInv, "lost" \notin raised, lock = NoThread,
                      NEW id \in mem.approved
               PROVE  id \in ApprovedInLog
    OBVIOUS
  <2>1. \A t \in Thread : job[t].step = "idle"
    BY Nobody DEF TallyInv, Free
  <2>2. PICK i \in DOMAIN log : log[i] = Approval(id)
    BY <2>1 DEF SignatureInv, SignaturesKnown, SignatureKnown
  <2>3. log[i].type = "human_approval" /\ log[i].id = id
    BY <2>2 DEF Approval, HumanRow
  <2> QED
    BY <2>3 DEF ApprovedInLog
<1>4. TallyInv /\ ApprovalsKnown /\ SignatureInv => MemoryMatchesLog
  BY <1>1, <1>2, <1>3, Zenon DEF MemoryMatchesLog
<1> QED
  BY <1>4, TallyAlways, ApprovalsAlways, SignatureAlways, PTL

\* The requests whose last word among the first k rows is needs_human.
Open(k) ==
  {id \in RequestId :
     \E i \in 1 .. k :
       /\ Speaks(i, id)
       /\ log[i].type = "decision" /\ log[i].verdict = "needs_human"
       /\ \A j \in 1 .. k : j > i => ~ Speaks(j, id)}

LEMMA OpenFollows ==
  ASSUME TypeOK, NEW n \in 1 .. Len(log), NEW id \in RequestId
  PROVE  id \in Open(n) <=>
           IF Speaks(n, id) THEN log[n].type = "decision" /\ log[n].verdict = "needs_human"
                            ELSE id \in Open(n - 1)
<1> DEFINE asks(i) == Speaks(i, id) /\ log[i].type = "decision" /\ log[i].verdict = "needs_human"
<1>1. /\ n \in Nat /\ n - 1 \in Nat /\ n \in 1 .. n
      /\ \A j : j \in 1 .. n <=> j \in 1 .. n - 1 \/ j = n
      /\ \A j \in 1 .. n - 1 : n > j /\ ~ (j > n)
      /\ ~ (n > n)
  BY LenProperties DEF TypeOK
<1>2. \A k : id \in Open(k) <=>
        \E i \in 1 .. k : asks(i) /\ \A j \in 1 .. k : j > i => ~ Speaks(j, id)
  BY DEF Open
<1>3. asks(n) => Speaks(n, id)
  OBVIOUS
<1>4. asks(n) <=> Speaks(n, id) /\ log[n].type = "decision" /\ log[n].verdict = "needs_human"
  OBVIOUS
<1> HIDE DEF asks
<1>5. CASE Speaks(n, id)
  BY <1>1, <1>2, <1>4, <1>5
<1>6. CASE ~ Speaks(n, id)
  BY <1>1, <1>2, <1>3, <1>6
<1> QED
  BY <1>5, <1>6

LEMMA QueueCollected ==
  ASSUME TypeOK, NEW f, IsRebuild(f, log)
  PROVE  f[Len(log)].pending = Open(Len(log))
<1> DEFINE right == {k \in 0 .. Len(log) : f[k].pending = Open(k)}
<1>1. Len(log) \in Nat /\ DOMAIN log = 1 .. Len(log)
  BY LenProperties DEF TypeOK
<1>2. 0 \in right
  <2>1. f[0].pending = {}
    BY RebuildTyped DEF TypeOK, Fresh, NoCounts
  <2>2. Open(0) = {}
    BY DEF Open
  <2>3. 0 \in 0 .. Len(log) /\ f[0].pending = Open(0)
    BY <1>1, <2>1, <2>2
  <2> QED
    BY <2>3
<1>3. ASSUME NEW k \in 0 .. Len(log) - 1, k \in right
      PROVE  k + 1 \in right
  <2> DEFINE n == k + 1
  <2>1. n \in 1 .. Len(log) /\ n - 1 = k /\ n \in 0 .. Len(log) /\ f[k].pending = Open(k)
    BY <1>1, <1>3
  <2> HIDE DEF n
  <2>2. f[n].pending =
          CASE log[n].type \in {"human_approval", "human_rejection"} -> f[k].pending \ {log[n].id}
            [] log[n].type = "decision" ->
                 IF log[n].verdict = "needs_human" THEN f[k].pending \cup {log[n].req.id}
                                                   ELSE f[k].pending \ {log[n].req.id}
            [] OTHER -> f[k].pending
    <3>1. f[n - 1] = f[k]
      BY <2>1
    <3> QED
      BY <2>1, <3>1, RowSigns
  <2>3. log[n].type = "decision" => log[n].req.id \in RequestId
    BY <2>1, RowMoves DEF DecisionRows, RequestId
  <2>4. \A id : Speaks(n, id) <=>
          \/ log[n].type = "decision" /\ log[n].req.id = id
          \/ log[n].type \in {"human_approval", "human_rejection"} /\ log[n].id = id
    BY DEF Speaks
  <2>5. \A id \in RequestId :
          id \in Open(n) <=>
            IF Speaks(n, id) THEN log[n].type = "decision" /\ log[n].verdict = "needs_human"
                             ELSE id \in f[k].pending
    BY <2>1, OpenFollows
  <2>6. f[k].pending \subseteq RequestId /\ Open(n) \subseteq RequestId
    BY <2>1 DEF Open
  <2>7. f[n].pending = Open(n)
    <3>1. CASE log[n].type = "decision"
      BY <2>2, <2>3, <2>4, <2>5, <2>6, <3>1
    <3>2. CASE log[n].type \in {"human_approval", "human_rejection"}
      BY <2>2, <2>4, <2>5, <2>6, <3>2
    <3>3. CASE log[n].type \notin {"decision", "human_approval", "human_rejection"}
      BY <2>2, <2>4, <2>5, <2>6, <3>3
    <3> QED
      BY <3>1, <3>2, <3>3
  <2> QED
    BY <2>1, <2>7 DEF n
<1>4. 0 .. Len(log) \subseteq right
  <2> HIDE DEF right
  <2> QED
    BY <1>1, <1>2, <1>3, UpTo
<1> QED
  BY <1>1, <1>4

\* The human queue holds exactly the requests whose last word is needs_human:
\* no resubmission, signature, refusal or restart loses one or leaves one behind,
\* unless an append has raised since the process started (Gateway._track_pending,
\* approve, reject, _rebuild_from_ledger).
THEOREM GatewayPendingIsOpen == Spec => []PendingIsOpen
<1>1. RebuildInv => PendingIsOpen
  <2> SUFFICES ASSUME RebuildInv, raised = {}, serving, lock = NoThread
               PROVE  mem.pending =
                        {id \in RequestId :
                           \E i \in DOMAIN log :
                             /\ Speaks(i, id)
                             /\ log[i].type = "decision" /\ log[i].verdict = "needs_human"
                             /\ \A j \in DOMAIN log : j > i => ~ Speaks(j, id)}
    BY DEF PendingIsOpen
  <2>1. PICK f : Follows(f)
    BY DEF RebuildInv, RebuildKnown
  <2>2. \A t \in Thread : job[t].step = "idle"
    BY Nobody DEF RebuildInv, Free
  <2>3. mem = f[Len(log)] /\ DOMAIN log = 1 .. Len(log)
    BY <2>1, <2>2, LenProperties DEF Follows, MemoryKnown, RebuildInv, TypeOK
  <2>4. mem.pending = Open(Len(log))
    BY <2>1, <2>3, QueueCollected DEF Follows, RebuildInv
  <2> QED
    BY <2>3, <2>4, Zenon DEF Open
<1> QED
  BY <1>1, RebuildAlways, PTL

=============================================================================
