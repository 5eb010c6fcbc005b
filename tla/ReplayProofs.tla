---------------------------- MODULE ReplayProofs ----------------------------
(***************************************************************************)
(* The month on one gateway, for every dataset, every ground truth, every  *)
(* analyst and any number of days.                                         *)
(*                                                                         *)
(* Three agents write into one log and the properties are about rows that  *)
(* one of them wrote, days apart.  The invariants say whose row a row can  *)
(* be: what is about risk is the opinion of a payment that was screened,   *)
(* what is matched is a batch that was seen, what is signed was escalated. *)
(* The recovery pass keeps the timetable of CampaignProofs, which says     *)
(* nothing of rows that others wrote.                                      *)
(***************************************************************************)
EXTENDS Replay, CampaignProofs

-----------------------------------------------------------------------------
(* Sequences.                                                                *)

\* t is s and something behind it.
Grown(s, t) ==
  /\ IsSeq(s) /\ IsSeq(t)
  /\ Len(s) \in Nat /\ Len(t) \in Nat /\ Len(s) <= Len(t)
  /\ \A k \in 1 .. Len(s) : k \in 1 .. Len(t) /\ t[k] = s[k]

LEMMA SameGrown ==
  ASSUME NEW s, IsSeq(s)
  PROVE  Grown(s, s)
BY SeqShape DEF Grown

\* A request and its decision.
LEMMA PairAdded ==
  ASSUME NEW s, IsSeq(s), NEW a, NEW b
  PROVE  LET t == s \o <<a, b>>
         IN  /\ Grown(s, t)
             /\ Len(t) = Len(s) + 2
             /\ t[Len(s) + 1] = a
             /\ t[Len(s) + 2] = b
             /\ \A k \in 1 .. Len(t) : k \in 1 .. Len(s) \/ k = Len(s) + 1 \/ k = Len(s) + 2
<1> DEFINE t == s \o <<a, b>>
<1>1. /\ IsSeq(t)
      /\ Len(t) = Len(s) + 2
      /\ \A k \in 1 .. Len(s) : t[k] = s[k]
      /\ t[Len(s) + 1] = a
      /\ t[Len(s) + 2] = b
  BY TwoMoreRows
<1>2. Len(s) \in Nat
  BY SeqShape
<1> HIDE DEF t
<1>3. Grown(s, t)
  BY <1>1, <1>2 DEF Grown
<1>4. \A k \in 1 .. Len(t) : k \in 1 .. Len(s) \/ k = Len(s) + 1 \/ k = Len(s) + 2
  BY <1>1, <1>2
<1> QED
  BY <1>1, <1>3, <1>4 DEF t

LEMMA RowAdded ==
  ASSUME NEW s, IsSeq(s), NEW e
  PROVE  LET t == Append(s, e)
         IN  /\ Grown(s, t)
             /\ Len(t) = Len(s) + 1
             /\ t[Len(s) + 1] = e
             /\ \A k \in 1 .. Len(t) : k \in 1 .. Len(s) \/ k = Len(s) + 1
<1> DEFINE t == Append(s, e)
<1>1. /\ IsSeq(t)
      /\ Len(t) = Len(s) + 1
      /\ \A k \in 1 .. Len(s) : t[k] = s[k]
      /\ t[Len(s) + 1] = e
  BY OneMoreRow
<1>2. Len(s) \in Nat
  BY SeqShape
<1> HIDE DEF t
<1>3. Grown(s, t)
  BY <1>1, <1>2 DEF Grown
<1>4. \A k \in 1 .. Len(t) : k \in 1 .. Len(s) \/ k = Len(s) + 1
  BY <1>1, <1>2
<1> QED
  BY <1>1, <1>3, <1>4 DEF t

\* An outcome row, where there is one.
LEMMA OutcomeAdded ==
  ASSUME NEW s, IsSeq(s), NEW row
  PROVE  LET t == s \o RiskOutcome(fate, row)
         IN  /\ Grown(s, t)
             /\ Len(t) = IF HasOutcome(row) THEN Len(s) + 1 ELSE Len(s)
             /\ \A k \in 1 .. Len(t) :
                  \/ k \in 1 .. Len(s)
                  \/ HasOutcome(row) /\ k = Len(s) + 1 /\ <<t[k]>> = RiskOutcome(fate, row)
<1>0. Len(s) \in Nat
  BY SeqShape
<1>1. CASE HasOutcome(row)
  <2> DEFINE e == [type |-> "outcome", id |-> row.req.id,
                   amount |-> IF Stops(fate, row.req) THEN row.req.amount ELSE 0]
             t == s \o <<e>>
  <2>1. RiskOutcome(fate, row) = <<e>>
    BY <1>1 DEF RiskOutcome
  <2> HIDE DEF e
  <2>2. PICK S : s \in Seq(S)
    BY DEF IsSeq
  <2> DEFINE T == S \cup {e}
             one == <<e>>
  <2>3. s \in Seq(T) /\ e \in T
    BY <2>2, SeqMonotonic
  <2>4. one \in Seq(T) /\ Len(one) = 1 /\ one[1] = e
    BY <2>3
  <2> HIDE DEF T, one
  <2>5. /\ s \o one \in Seq(T)
        /\ Len(s \o one) = Len(s) + Len(one)
        /\ \A i \in 1 .. Len(s) + Len(one) :
             (s \o one)[i] = IF i <= Len(s) THEN s[i] ELSE one[i - Len(s)]
    BY <2>3, <2>4, ConcatProperties
  <2>6. /\ IsSeq(s \o one) /\ Len(s \o one) = Len(s) + 1
        /\ \A k \in 1 .. Len(s) : (s \o one)[k] = s[k]
        /\ (s \o one)[Len(s) + 1] = e
    <3>1. Len(s) + 1 \in 1 .. Len(s) + Len(one) /\ ~ (Len(s) + 1 <= Len(s))
          /\ (Len(s) + 1) - Len(s) = 1
      BY <1>0, <2>4
    <3>2. \A k \in 1 .. Len(s) : k \in 1 .. Len(s) + Len(one) /\ k <= Len(s)
      BY <1>0, <2>4
    <3> QED
      BY <2>4, <2>5, <3>1, <3>2 DEF IsSeq
  <2>7. /\ IsSeq(t) /\ Len(t) = Len(s) + 1
        /\ \A k \in 1 .. Len(s) : t[k] = s[k]
        /\ t[Len(s) + 1] = e
    BY <2>6 DEF one
  <2> HIDE DEF t
  <2>8. Grown(s, t)
    BY <1>0, <2>7 DEF Grown
  <2>9. \A k \in 1 .. Len(t) : k \in 1 .. Len(s) \/ k = Len(s) + 1
    BY <1>0, <2>7
  <2> QED
    BY <1>1, <2>1, <2>7, <2>8, <2>9 DEF t
<1>2. CASE ~HasOutcome(row)
  <2>1. RiskOutcome(fate, row) = <<>>
    BY <1>2 DEF RiskOutcome
  <2>2. s \o <<>> = s
    BY DEF IsSeq
  <2> QED
    BY <1>0, <1>2, <2>1, <2>2, SameGrown
<1> QED
  BY <1>1, <1>2

\* A signature, a request and its decision.
LEMMA TripleAdded ==
  ASSUME NEW s, IsSeq(s), NEW a, NEW b, NEW c
  PROVE  LET t == s \o <<a, b, c>>
         IN  /\ Grown(s, t)
             /\ Len(t) = Len(s) + 3
             /\ t[Len(s) + 1] = a
             /\ t[Len(s) + 2] = b
             /\ t[Len(s) + 3] = c
<1>0. Len(s) \in Nat
  BY SeqShape
<1>1. PICK S : s \in Seq(S)
  BY DEF IsSeq
<1> DEFINE T == S \cup {a, b, c}
           three == <<a, b, c>>
<1>2. s \in Seq(T) /\ a \in T /\ b \in T /\ c \in T
  BY <1>1, SeqMonotonic
<1>3. three \in Seq(T) /\ Len(three) = 3 /\ three[1] = a /\ three[2] = b /\ three[3] = c
  BY <1>2
<1> HIDE DEF T, three
<1>4. /\ s \o three \in Seq(T)
      /\ Len(s \o three) = Len(s) + Len(three)
      /\ \A i \in 1 .. Len(s) + Len(three) :
           (s \o three)[i] = IF i <= Len(s) THEN s[i] ELSE three[i - Len(s)]
  BY <1>2, <1>3, ConcatProperties
<1>5. \A n \in 1 .. 3 : /\ Len(s) + n \in 1 .. Len(s) + Len(three)
                        /\ ~ (Len(s) + n <= Len(s))
                        /\ (Len(s) + n) - Len(s) = n
  BY <1>0, <1>3
<1>6. \A k \in 1 .. Len(s) : k \in 1 .. Len(s) + Len(three) /\ k <= Len(s)
  BY <1>0, <1>3
<1>7. /\ (s \o three)[Len(s) + 1] = a
      /\ (s \o three)[Len(s) + 2] = b
      /\ (s \o three)[Len(s) + 3] = c
      /\ \A k \in 1 .. Len(s) : (s \o three)[k] = s[k]
  BY <1>3, <1>4, <1>5, <1>6
<1>8. Grown(s, s \o three)
  BY <1>0, <1>3, <1>4, <1>6, <1>7 DEF Grown, IsSeq
<1> QED
  BY <1>3, <1>4, <1>7, <1>8 DEF three

LEMMA GrownTwice ==
  ASSUME NEW s, NEW t, NEW u, Grown(s, t), Grown(t, u)
  PROVE  Grown(s, u)
BY DEF Grown

-----------------------------------------------------------------------------
(* Sums.                                                                     *)

\* f adds a up, one amount after the other.
Sums(f, a, N) ==
  /\ f \in [0 .. N -> Int]
  /\ f[0] = 0
  /\ \A n \in 1 .. N : f[n] = f[n - 1] + a[n]

LEMMA LenIs ==
  ASSUME NEW N \in Nat, NEW a \in [1 .. N -> Int]
  PROVE  Len(a) = N
<1>1. a \in Seq(Int)
  BY SeqDef
<1> QED
  BY <1>1, LenProperties

LEMMA TotalIs ==
  ASSUME NEW N \in Nat, NEW a \in [1 .. N -> Int]
  PROVE  \E f : Sums(f, a, N) /\ Total(a) = f[N] /\ Total(a) \in Int
<1> DEFINE step == [q \in (1 .. N) \X Int |-> q[2] + a[q[1]]]
           body(g) == [n \in 0 .. N |-> IF n = 0 THEN 0 ELSE g[n - 1] + a[n]]
<1>0. Len(a) = N /\ \A n \in 1 .. N : a[n] \in Int
  BY LenIs
<1>1. step \in [(1 .. N) \X Int -> Int]
  BY <1>0
<1>2. PICK g \in [0 .. N -> Int] : Stepwise(g, N, 0, step)
  <2> HIDE DEF step, body
  <2>1. PICK T, start : T = Int /\ start = 0
    OBVIOUS
  <2>2. start \in T /\ step \in [(1 .. N) \X T -> T]
    BY <1>1, <2>1
  <2>3. \E g \in [0 .. N -> T] : Stepwise(g, N, start, step)
    BY <2>2, Recursion
  <2> QED
    BY <2>1, <2>3
<1>3. Sums(g, a, N)
  <2>1. ASSUME NEW n \in 1 .. N
        PROVE  g[n] = g[n - 1] + a[n]
    <3>1. n - 1 \in 0 .. N
      OBVIOUS
    <3>2. g[n - 1] \in Int
      BY <3>1
    <3>3. step[<<n, g[n - 1]>>] = g[n - 1] + a[n]
      BY <3>2
    <3> QED
      BY <1>2, <3>3 DEF Stepwise
  <2> QED
    BY <1>2, <2>1 DEF Sums, Stepwise
<1>4. \A f : f = body(f) => f[N] = g[N]
  <2> SUFFICES ASSUME NEW f, f = body(f)
               PROVE  f[N] = g[N]
    OBVIOUS
  <2> DEFINE right == {n \in 0 .. N : f[n] = g[n]}
  <2>1. 0 \in right
    BY <1>3 DEF Sums
  <2>2. ASSUME NEW n \in 0 .. N - 1, n \in right
        PROVE  n + 1 \in right
    <3>1. n + 1 \in 1 .. N /\ n + 1 \in 0 .. N /\ (n + 1) - 1 = n /\ n + 1 # 0
      OBVIOUS
    <3>2. f[n + 1] = f[n] + a[n + 1]
      BY <3>1
    <3>3. g[n + 1] = g[n] + a[n + 1]
      BY <1>3, <3>1 DEF Sums
    <3> QED
      BY <2>2, <3>1, <3>2, <3>3
  <2> HIDE DEF right
  <2>3. N \in right
    <3>1. 0 .. N \subseteq right
      BY <2>1, <2>2, UpTo
    <3> QED
      BY <3>1
  <2> QED
    BY <2>3 DEF right
<1>5. g = body(g)
  <2>1. \A n \in 0 .. N : n = 0 \/ n \in 1 .. N
    OBVIOUS
  <2>2. \A n \in 0 .. N : g[n] = body(g)[n]
    BY <1>3, <2>1 DEF Sums
  <2>3. g = [n \in 0 .. N |-> g[n]] /\ body(g) = [n \in 0 .. N |-> body(g)[n]]
    OBVIOUS
  <2> HIDE DEF body
  <2> QED
    BY <2>2, <2>3
<1> DEFINE upto == CHOOSE f : f = body(f)
<1>6. upto = body(upto)
  BY <1>5
<1>7. Total(a) = upto[N]
  BY <1>0 DEF Total
<1> HIDE DEF upto, body
<1>8. Total(a) = g[N]
  BY <1>4, <1>6, <1>7
<1>9. g[N] \in Int
  OBVIOUS
<1> QED
  BY <1>3, <1>8, <1>9

\* b is a, carried on with noughts, but for x more at one place.
Grows(a, N, b, M, k, x) ==
  /\ k \in 1 .. M \/ x = 0
  /\ \A i \in 1 .. M : b[i] = (IF i \in 1 .. N THEN a[i] ELSE 0) + (IF i = k THEN x ELSE 0)

LEMMA TotalGrows ==
  ASSUME NEW N \in Nat, NEW M \in Nat, N <= M,
         NEW a \in [1 .. N -> Int], NEW b \in [1 .. M -> Int],
         NEW k \in Nat, NEW x \in Int, Grows(a, N, b, M, k, x)
  PROVE  Total(b) = Total(a) + x
<1>g. /\ k \in 1 .. M \/ x = 0
      /\ \A i \in 1 .. M : b[i] = (IF i \in 1 .. N THEN a[i] ELSE 0) + (IF i = k THEN x ELSE 0)
  BY DEF Grows
<1>1. PICK f : Sums(f, a, N) /\ Total(a) = f[N]
  BY TotalIs
<1>2. PICK g : Sums(g, b, M) /\ Total(b) = g[M]
  BY TotalIs
<1> DEFINE past(n) == k # 0 /\ k <= n
           right == {n \in 0 .. M : g[n] = f[IF n <= N THEN n ELSE N]
                                             + (IF past(n) THEN x ELSE 0)}
<1>3. \A n \in 0 .. N : f[n] \in Int
  BY <1>1 DEF Sums
<1>4. 0 \in right
  <2>1. g[0] = 0 /\ f[0] = 0 /\ ~past(0) /\ 0 <= N /\ 0 \in 0 .. M
    BY <1>1, <1>2 DEF Sums
  <2> QED
    BY <2>1
<1>5. ASSUME NEW n \in 0 .. M - 1, n \in right
      PROVE  n + 1 \in right
  <2>1. n + 1 \in 1 .. M /\ n + 1 \in 0 .. M /\ (n + 1) - 1 = n
    OBVIOUS
  <2>2. g[n + 1] = g[n] + b[n + 1]
    BY <1>2, <2>1 DEF Sums
  <2>3. g[n] = f[IF n <= N THEN n ELSE N] + (IF past(n) THEN x ELSE 0)
    BY <1>5
  <2>4. b[n + 1] = (IF n + 1 \in 1 .. N THEN a[n + 1] ELSE 0) + (IF n + 1 = k THEN x ELSE 0)
    BY <1>g, <2>1
  <2>5. (IF past(n) THEN x ELSE 0) + (IF n + 1 = k THEN x ELSE 0)
          = IF past(n + 1) THEN x ELSE 0
    <3>1. past(n + 1) <=> past(n) \/ n + 1 = k
      OBVIOUS
    <3>2. ~ (past(n) /\ n + 1 = k)
      OBVIOUS
    <3> HIDE DEF past
    <3> QED
      BY <3>1, <3>2
  <2>6. /\ f[IF n <= N THEN n ELSE N] \in Int
        /\ f[IF n + 1 <= N THEN n + 1 ELSE N]
             = f[IF n <= N THEN n ELSE N] + (IF n + 1 \in 1 .. N THEN a[n + 1] ELSE 0)
        /\ (IF n + 1 \in 1 .. N THEN a[n + 1] ELSE 0) \in Int
    <3>1. CASE n + 1 <= N
      <4>1. n <= N /\ n \in 0 .. N /\ n + 1 \in 1 .. N
        BY <3>1
      <4>2. f[n + 1] = f[n] + a[n + 1] /\ a[n + 1] \in Int
        BY <1>1, <2>1, <4>1 DEF Sums
      <4> QED
        BY <1>3, <3>1, <4>1, <4>2
    <3>2. CASE ~ (n + 1 <= N)
      <4>1. (IF n <= N THEN n ELSE N) = N /\ n + 1 \notin 1 .. N /\ N \in 0 .. N
        BY <3>2
      <4> QED
        BY <1>3, <3>2, <4>1
    <3> QED
      BY <3>1, <3>2
  <2> DEFINE base == f[IF n <= N THEN n ELSE N]
             next == f[IF n + 1 <= N THEN n + 1 ELSE N]
             more == IF n + 1 \in 1 .. N THEN a[n + 1] ELSE 0
             was  == IF past(n) THEN x ELSE 0
             is   == IF n + 1 = k THEN x ELSE 0
             be   == IF past(n + 1) THEN x ELSE 0
  <2>7. was \in Int /\ is \in Int /\ be \in Int /\ base \in Int /\ more \in Int
    BY <2>6
  <2>8. /\ g[n + 1] = g[n] + b[n + 1] /\ g[n] = base + was /\ b[n + 1] = more + is
        /\ was + is = be /\ next = base + more
    BY <2>2, <2>3, <2>4, <2>5, <2>6
  <2> HIDE DEF base, next, more, was, is, be
  <2>9. g[n + 1] = next + be
    BY <2>7, <2>8
  <2> QED
    BY <2>1, <2>9 DEF next, be
<1> HIDE DEF right
<1>6. M \in right
  <2>1. 0 .. M \subseteq right
    BY <1>4, <1>5, UpTo
  <2> QED
    BY <2>1
<1>7. g[M] = f[IF M <= N THEN M ELSE N] + (IF past(M) THEN x ELSE 0)
  BY <1>6 DEF right
<1>8. (IF M <= N THEN M ELSE N) = N /\ (IF past(M) THEN x ELSE 0) = x
  BY <1>g
<1> QED
  BY <1>1, <1>2, <1>7, <1>8

-----------------------------------------------------------------------------
(* The dataset's lists.                                                      *)

LEMMA CapturedIs ==
  /\ captured_payments \in Seq(PaymentSet)
  /\ PaymentSet \subseteq DOMAIN Payments
  /\ \A date : TodaysPayments(date) \in Seq(PaymentSet)
<1> DEFINE failed == {p \in DOMAIN Payments : Payments[p].status # "captured"}
<1>1. Kept(captured_payments, PaymentOrder, failed, DOMAIN Payments, Len(PaymentOrder))
  BY ListsAssumption, WithoutKeeps DEF captured_payments
<1>2. /\ captured_payments \in Seq(DOMAIN Payments)
      /\ DOMAIN captured_payments = 1 .. Len(captured_payments)
      /\ Len(captured_payments) \in Nat
  BY <1>1, LenProperties DEF Kept
<1> HIDE DEF captured_payments
<1>3. \A k \in 1 .. Len(captured_payments) : captured_payments[k] \in PaymentSet
  BY <1>2 DEF PaymentSet
<1>4. captured_payments \in Seq(PaymentSet)
  BY <1>2, <1>3
<1>5. ASSUME NEW date
      PROVE  TodaysPayments(date) \in Seq(PaymentSet)
  BY <1>4, WithoutKeeps DEF TodaysPayments, Kept
<1>6. PaymentSet \subseteq DOMAIN Payments
  BY <1>2, ElementOfSeq DEF PaymentSet
<1> QED
  BY <1>4, <1>5, <1>6

LEMMA OldestFirstIs ==
  ASSUME NEW s \in Seq(DOMAIN Settlements)
  PROVE  OldestFirst(s) \in Seq(DOMAIN Settlements)
<1> DEFINE B == DOMAIN Settlements
           T == Seq(B)
           later(b) == {c \in B : Settlements[c].credited > Settlements[b].credited}
           inserted(t, b) == Without(t, later(b)) \o <<b>> \o Without(t, B \ later(b))
           step == [p \in (1 .. Len(s)) \X T |-> inserted(p[2], s[p[1]])]
           body(g) == [n \in 0 .. Len(s) |-> IF n = 0 THEN <<>> ELSE inserted(g[n - 1], s[n])]
<1>0. Len(s) \in Nat /\ \A n \in 1 .. Len(s) : s[n] \in B
  BY LenProperties, ElementOfSeq
<1>1. ASSUME NEW t \in T, NEW b \in B
      PROVE  inserted(t, b) \in T
  <2>1. Without(t, later(b)) \in T /\ Without(t, B \ later(b)) \in T
    <3> HIDE DEF later
    <3> QED
      BY WithoutKeeps DEF Kept
  <2>2. <<b>> \in T
    OBVIOUS
  <2> HIDE DEF later, T
  <2> QED
    BY <2>1, <2>2, ConcatProperties DEF T
<1> HIDE DEF inserted, T
<1>2. <<>> \in T
  BY EmptySeq DEF T
<1>3. step \in [(1 .. Len(s)) \X T -> T]
  BY <1>0, <1>1
<1>4. PICK g \in [0 .. Len(s) -> T] :
        g[0] = <<>> /\ \A n \in 1 .. Len(s) : g[n] = step[<<n, g[n - 1]>>]
  <2>1. Len(s) \in Nat /\ <<>> \in T
    BY <1>0, <1>2
  <2> HIDE DEF step
  <2>2. \E g \in [0 .. Len(s) -> T] : Stepwise(g, Len(s), <<>>, step)
    BY <1>3, <2>1, Recursion
  <2> QED
    BY <2>2 DEF Stepwise
<1>5. g = body(g)
  <2>1. \A n \in 1 .. Len(s) : /\ n - 1 \in 0 .. Len(s) /\ n \in 0 .. Len(s) /\ n # 0
                               /\ step[<<n, g[n - 1]>>] = inserted(g[n - 1], s[n])
    <3> SUFFICES ASSUME NEW n \in 1 .. Len(s)
                 PROVE  /\ n - 1 \in 0 .. Len(s) /\ n \in 0 .. Len(s) /\ n # 0
                        /\ step[<<n, g[n - 1]>>] = inserted(g[n - 1], s[n])
      OBVIOUS
    <3>1. n - 1 \in 0 .. Len(s) /\ n \in 0 .. Len(s) /\ n # 0
      BY <1>0
    <3>2. g[n - 1] \in T
      BY <3>1
    <3> QED
      BY <3>1, <3>2
  <2>2. \A n \in 0 .. Len(s) : n = 0 \/ n \in 1 .. Len(s)
    BY <1>0
  <2>3. \A n \in 0 .. Len(s) : g[n] = body(g)[n]
    <3> HIDE DEF step
    <3> QED
      BY <1>4, <2>1, <2>2
  <2>4. g = [n \in 0 .. Len(s) |-> g[n]] /\ body(g) = [n \in 0 .. Len(s) |-> body(g)[n]]
    OBVIOUS
  <2> HIDE DEF body
  <2> QED
    BY <2>3, <2>4
<1> DEFINE upto == CHOOSE f : f = body(f)
<1>6. upto = body(upto)
  BY <1>5
<1>7. OldestFirst(s) = upto[Len(s)]
  BY DEF OldestFirst, inserted
<1> HIDE DEF upto
<1> DEFINE right == {n \in 0 .. Len(s) : upto[n] \in T}
<1>8. upto[0] = <<>> /\ \A n \in 1 .. Len(s) : upto[n] = inserted(upto[n - 1], s[n])
  BY <1>0, <1>6
<1>9. 0 \in right
  BY <1>0, <1>2, <1>8
<1>10. ASSUME NEW n \in 0 .. Len(s) - 1, n \in right
       PROVE  n + 1 \in right
  <2>1. n + 1 \in 1 .. Len(s) /\ n + 1 \in 0 .. Len(s) /\ (n + 1) - 1 = n
    BY <1>0
  <2>2. upto[n + 1] = inserted(upto[n], s[n + 1]) /\ s[n + 1] \in B
    BY <1>0, <1>8, <2>1
  <2> QED
    BY <1>1, <1>10, <2>1, <2>2
<1>11. Len(s) \in right
  <2> HIDE DEF right
  <2>1. 0 .. Len(s) \subseteq right
    BY <1>0, <1>9, <1>10, UpTo
  <2> QED
    BY <1>0, <2>1
<1> QED
  BY <1>7, <1>11 DEF T

LEMMA BatchesAre == \A date : settlements_on(date) \in Seq(DOMAIN Settlements)
BY ListsAssumption, WithoutKeeps, OldestFirstIs DEF settlements_on, Kept

\* What the risk agent thinks of a captured payment, and nobody else asks.
LEMMA OpinionIs ==
  ASSUME NEW p \in PaymentSet
  PROVE  /\ Opinion[p] = RiskRequest(Payments, p)
         /\ Opinion[p].id = <<p, "risk">>
         /\ Opinion[p].payment = p
         /\ Opinion[p].settlement = None
         /\ Opinion[p].key = <<p, Opinion[p].action>>
         /\ Opinion[p].action # None => Opinion[p].action \in RISK_ACTIONS
<1>1. Opinion[p] = RiskRequest(Payments, p)
  BY DEF Opinion
<1>2. Opinion[p].action = Reaction(score(Payments, p))
  BY <1>1 DEF RiskRequest
<1>3. \A points : Reaction(points) \in {None, "block_order", "flag_for_review"}
  BY DEF Reaction
<1>4. Opinion[p].action # None => Opinion[p].action \in RISK_ACTIONS
  <2> HIDE DEF Opinion
  <2> QED
    BY <1>2, <1>3 DEF RISK_ACTIONS
<1>5. \A table, q : RiskRequest(table, q).key = <<q, RiskRequest(table, q).action>>
  BY Zenon DEF RiskRequest
<1>6. Opinion[p].key = <<p, Opinion[p].action>>
  BY <1>1, <1>5
<1> QED
  BY <1>1, <1>4, <1>6 DEF RiskRequest

-----------------------------------------------------------------------------
(* Who waits where, and whose rows the log holds.                            *)

chaseVars == <<truth, holdout, order, day, todo, asked, books, agent, sim, scorecards>>

\* What the risk agent has asked for so far, or asks the gateway again.
Opinions == {Opinion[p] : p \in {q \in seen : Opinion[q].action # None}}

\* The risk agent's answers of the day.
IsRuling(row) ==
  /\ row.type = "decision"
  /\ row.req \in Opinions
  /\ row.at = Now
  /\ \E j \in 1 .. Len(log) : log[j] = row

Queues ==
  /\ screen \in Seq(PaymentSet)
  /\ seen \subseteq PaymentSet
  /\ batches \in Seq(DOMAIN Settlements)
  /\ IsSeq(judged)
  /\ \A k \in 1 .. Len(judged) : IsRuling(judged[k])
  /\ IsSeq(blocks)
  /\ \A k \in 1 .. Len(blocks) : blocks[k] \in Opinions

Month == Timetable /\ Queues /\ DOMAIN mem = CounterNames

LEMMA NowIs == Calendar => day \in Nat /\ Now \in Int /\ Tomorrow \in Int /\ Tomorrow - 24 = Now
BY DEF Calendar, Now, Tomorrow

\* Rows of the others do not disturb the chase.
LEMMA ChaseUndisturbed ==
  ASSUME Timetable, Grown(log, log'), UNCHANGED chaseVars
  PROVE  Timetable'
<1>0. /\ UNCHANGED <<truth, holdout, order, day, todo, asked, books, agent, sim, scorecards>>
      /\ Dataset /\ Calendar /\ Money /\ Tries /\ Waiting /\ Answers
  BY DEF Timetable, chaseVars
<1>1. Dataset'
  BY <1>0 DEF Dataset, WorkOrders, Worked, Rearranged, Targets
<1>2. Calendar' /\ Tries'
  BY <1>0 DEF Calendar, Tries, Elapsed, Targets
<1>3. Money' /\ Waiting'
  BY <1>0 DEF Money, Waiting, Chased, Recovered, Targets
<1>4. Answers'
  <2>1. IsSeq(log') /\ \A k \in 1 .. Len(log) : k \in 1 .. Len(log') /\ log'[k] = log[k]
    BY DEF Grown
  <2>2. Chased' = Chased /\ Recovered' = Recovered
    BY <1>0 DEF Chased, Recovered, Targets
  <2>3. \A row : IsAnswer(row) => IsAnswer(row)'
    BY <1>0, <2>1, <2>2 DEF IsAnswer
  <2> QED
    BY <1>0, <2>1, <2>3 DEF Answers
<1> QED
  BY <1>1, <1>2, <1>3, <1>4 DEF Timetable

\* The counters under a decision and under a signature.
LEMMA CountIs ==
  ASSUME NEW m, DOMAIN m = CounterNames, NEW row
  PROVE  /\ DOMAIN Count(m, row) = CounterNames
         /\ Count(m, row).approved = m.approved
         /\ Count(m, row).verdict_counts =
              [m.verdict_counts EXCEPT ![row.verdict] = m.verdict_counts[row.verdict] + 1]
         /\ Count(m, row).used_keys =
              IF row.verdict = "allow" THEN m.used_keys \cup ({row.req.key} \ {None})
                                       ELSE m.used_keys
BY DEF Count, TrackPending, ApplyAllowed, CounterNames

LEMMA SignIs ==
  ASSUME NEW m, DOMAIN m = CounterNames, NEW id
  PROVE  /\ DOMAIN Sign(m, id) = CounterNames
         /\ Sign(m, id).approved = m.approved \cup {id}
         /\ Sign(m, id).verdict_counts = m.verdict_counts
         /\ Sign(m, id).used_keys = m.used_keys
BY DEF Sign, CounterNames

\* What the recovery agent may ask for, whoever plans.
LEMMA PlannedIs ==
  ASSUME Money, NEW i \in Targets, NEW n \in Nat, NEW p \in Planned(i, n), p[1] # None
  PROVE  p[1] \in ToolActions
<1>1. CASE p = <<plan(i, n), 0>>
  <2>1. p[1] = Climb(i, n)
    BY <1>1, PlanIs
  <2>2. RungAt(i, n) \in Nat \ {0} /\ (~ForAPerson(i, n) => RungAt(i, n) \in 1 .. 4)
    BY RungIs
  <2>3. \A k \in 1 .. 4 : CHANNEL_LADDER[k] \in CONTACT_ACTIONS
    <3>1. \A k \in 1 .. 4 : k = 1 \/ k = 2 \/ k = 3 \/ k = 4
      OBVIOUS
    <3> QED
      BY <3>1 DEF CHANNEL_LADDER, CONTACT_ACTIONS
  <2> QED
    BY <2>1, <2>2, <2>3 DEF Climb, ToolActions
<1>2. CASE p \in ToolActions \X Offers
  BY <1>2
<1> QED
  BY <1>1, <1>2 DEF Planned
-----------------------------------------------------------------------------
(* What each of the agents writes.                                           *)

\* A request and its decision go to the log and into the counters.
Submitted(req, row, at) ==
  /\ row = Decided(mem, books, req, at)
  /\ row.type = "decision" /\ row.req = req /\ row.at = at
  /\ Grown(log, log')
  /\ Len(log') = Len(log) + 2
  /\ log'[Len(log) + 1] = RequestRow(req)
  /\ log'[Len(log) + 2] = row
  /\ \A k \in 1 .. Len(log') : k \in 1 .. Len(log) \/ k = Len(log) + 1 \/ k = Len(log) + 2
  /\ mem' = Count(mem, row)

LEMMA SubmittedIs ==
  ASSUME IsSeq(log), NEW req, NEW row, NEW at, row = Decided(mem, books, req, at),
         log' = log \o <<RequestRow(req), row>>, mem' = Count(mem, row)
  PROVE  Submitted(req, row, at)
<1>1. row.type = "decision" /\ row.req = req /\ row.at = at
  BY DecisionIs
<1>2. /\ Grown(log, log')
      /\ Len(log') = Len(log) + 2
      /\ log'[Len(log) + 1] = RequestRow(req)
      /\ log'[Len(log) + 2] = row
      /\ \A k \in 1 .. Len(log') : k \in 1 .. Len(log) \/ k = Len(log) + 1 \/ k = Len(log) + 2
  BY PairAdded
<1> QED
  BY <1>1, <1>2 DEF Submitted

\* The recovery agent asks, whoever plans.
ChaseAsks(req, row) ==
  /\ Submitted(req, row, Now)
  /\ req.action \in ToolActions
  /\ req.invoice \in Targets
  /\ req.settlement = None
  /\ \E i, n : req.key = <<i, n, req.action>>
  /\ asked' = Append(asked, row)
  /\ UNCHANGED <<day, books>>

LEMMA ChaseAsksIs ==
  ASSUME Timetable, Ask
  PROVE  \E req, row : ChaseAsks(req, row)
<1>0. /\ todo # <<>> /\ Money /\ Tries /\ Waiting /\ IsSeq(log)
      /\ UNCHANGED <<day, books>>
  BY DEF Ask, Timetable, Answers
<1>1. PICK req \in Proposals(Head(todo)) :
        LET row == Decided(mem, books, req, Now)
        IN  /\ log' = log \o <<RequestRow(req), row>>
            /\ mem' = Count(mem, row)
            /\ agent' = Learn(agent, row)
            /\ asked' = Append(asked, row)
  BY DEF Ask
<1>2. PICK row : row = Decided(mem, books, req, Now)
  OBVIOUS
<1>3. /\ log' = log \o <<RequestRow(req), row>>
      /\ mem' = Count(mem, row)
      /\ asked' = Append(asked, row)
  BY <1>1, <1>2
<1>4. Submitted(req, row, Now)
  BY <1>0, <1>2, <1>3, SubmittedIs
<1>5. Head(todo) \in Targets /\ agent.tried[Head(todo)] \in Nat
  <2>1. Head(todo) \in Chased
    BY <1>0, HeadGone DEF Waiting
  <2> QED
    BY <1>0, <2>1 DEF Chased, Tries
<1>6. PICK p \in Planned(Head(todo), agent.tried[Head(todo)]) :
        p[1] # None /\ req = Proposal(Head(todo), p[1], p[2])
  BY DEF Proposals
<1>7. p[1] \in ToolActions
  BY <1>0, <1>5, <1>6, PlannedIs
<1>8. /\ req.action = p[1] /\ req.invoice = Head(todo) /\ req.settlement = None
      /\ req.key = <<Head(todo), agent.tried[Head(todo)], p[1]>>
  BY <1>6 DEF Proposal
<1> QED
  BY <1>0, <1>3, <1>4, <1>5, <1>7, <1>8 DEF ChaseAsks

\* The risk agent asks about a payment it has not been shown before.
RiskAsks(p, req, row) ==
  /\ p \in PaymentSet /\ p \notin seen
  /\ seen' = seen \cup {p}
  /\ req = Opinion[p] /\ req.action # None
  /\ Submitted(req, row, Now)
  /\ judged' = Append(judged, row)
  /\ screen' = Tail(screen)
  /\ UNCHANGED chaseVars
  /\ UNCHANGED <<fate, blocks, rsim, batches, reconcile, tally>>

LEMMA RiskAsksIs ==
  ASSUME Month, Screen
  PROVE  RiskAsks(Head(screen), Opinion[Head(screen)],
                  Decided(mem, books, Opinion[Head(screen)], Now))
<1>0. IsSeq(log) /\ screen \in Seq(PaymentSet) /\ screen # <<>>
  BY DEF Month, Timetable, Answers, Queues, Screen
<1>1. Head(screen) \in PaymentSet
  BY <1>0
<1> DEFINE req == Opinion[Head(screen)]
           row == Decided(mem, books, req, Now)
<1>2. log' = log \o <<RequestRow(req), row>> /\ mem' = Count(mem, row)
  BY DEF Screen
<1>3. Submitted(req, row, Now)
  <2> HIDE DEF req
  <2> QED
    BY <1>0, <1>2, SubmittedIs
<1> QED
  BY <1>1, <1>3 DEF RiskAsks, Screen, chaseVars, reconcileVars

\* The reconciler asks about a batch it has not seen before.
ReconcilerAsks(s, req, row) ==
  /\ s \in DOMAIN Settlements /\ s \notin reconcile.seen
  /\ req = Request(reconcile, s)
  /\ Submitted(req, row, Now)
  /\ reconcile' = Examined(reconcile, s)
  /\ batches' = Tail(batches)
  /\ UNCHANGED chaseVars
  /\ UNCHANGED <<fate, screen, judged, blocks, seen, rsim>>

LEMMA ReconcilerAsksIs ==
  ASSUME Month, CheckBatch
  PROVE  ReconcilerAsks(Head(batches), Request(reconcile, Head(batches)),
                        Decided(mem, books, Request(reconcile, Head(batches)), Now))
<1>0. IsSeq(log) /\ batches \in Seq(DOMAIN Settlements) /\ batches # <<>>
  BY DEF Month, Timetable, Answers, Queues, CheckBatch
<1>1. Head(batches) \in DOMAIN Settlements
  BY <1>0
<1> DEFINE req == Request(reconcile, Head(batches))
           row == Decided(mem, books, req, Now)
<1>2. log' = log \o <<RequestRow(req), row>> /\ mem' = Count(mem, row)
  BY DEF CheckBatch
<1>3. Submitted(req, row, Now)
  <2> HIDE DEF req
  <2> QED
    BY <1>0, <1>2, SubmittedIs
<1> QED
  BY <1>1, <1>3 DEF ReconcilerAsks, CheckBatch, chaseVars, riskVars

\* The analyst signs, the block is asked for again, and something may come of it.
Resubmitted(req, row) ==
  /\ req \in Opinions /\ blocks # <<>> /\ req = Head(blocks)
  /\ day < Days
  /\ approves_block(fate, req)
  /\ row = Decided(Sign(mem, req.id), books, req, Tomorrow)
  /\ row.type = "decision" /\ row.req = req /\ row.at = Tomorrow
  /\ Grown(log, log')
  /\ log'[Len(log) + 1] = HumanRow("human_approval", req.id)
  /\ log'[Len(log) + 2] = RequestRow(req)
  /\ log'[Len(log) + 3] = row
  /\ Len(log) + 3 <= Len(log')
  /\ \A k \in 1 .. Len(log') :
       \/ k \in 1 .. Len(log)
       \/ k = Len(log) + 1 \/ k = Len(log) + 2 \/ k = Len(log) + 3
       \/ log'[k].type = "outcome"
  /\ mem' = Count(Sign(mem, req.id), row)
  /\ blocks' = Tail(blocks)
  /\ UNCHANGED chaseVars
  /\ UNCHANGED <<fate, screen, judged, seen, batches, reconcile>>

LEMMA ResubmittedIs ==
  ASSUME Month, SignBlock
  PROVE  Resubmitted(Head(blocks),
                     Decided(Sign(mem, Head(blocks).id), books, Head(blocks), Tomorrow))
<1>0. /\ IsSeq(log) /\ Len(log) \in Nat
      /\ IsSeq(blocks) /\ blocks # <<>> /\ \A k \in 1 .. Len(blocks) : blocks[k] \in Opinions
  BY SeqShape DEF Month, Timetable, Answers, Queues, SignBlock
<1>1. Head(blocks) \in Opinions
  <2>1. Head(blocks) = blocks[1] /\ 1 \in 1 .. Len(blocks)
    BY <1>0, RestOf
  <2> QED
    BY <1>0, <2>1
<1>2. PICK req : req = Head(blocks)
  OBVIOUS
<1>3. PICK row : row = Decided(Sign(mem, req.id), books, req, Tomorrow)
  OBVIOUS
<1>4. row.type = "decision" /\ row.req = req /\ row.at = Tomorrow
  BY <1>3, DecisionIs
<1>5. /\ log' = log \o <<HumanRow("human_approval", req.id), RequestRow(req), row>>
                    \o RiskOutcome(fate, row)
      /\ mem' = Count(Sign(mem, req.id), row)
  BY <1>2, <1>3 DEF SignBlock
<1>6. PICK signed : signed = log \o <<HumanRow("human_approval", req.id), RequestRow(req), row>>
  OBVIOUS
<1>7. /\ Grown(log, signed)
      /\ Len(signed) = Len(log) + 3
      /\ signed[Len(log) + 1] = HumanRow("human_approval", req.id)
      /\ signed[Len(log) + 2] = RequestRow(req)
      /\ signed[Len(log) + 3] = row
  BY <1>0, <1>6, TripleAdded
<1>8. IsSeq(signed) /\ log' = signed \o RiskOutcome(fate, row)
  BY <1>5, <1>6, <1>7 DEF Grown
<1>9. /\ Grown(signed, log')
      /\ \A k \in 1 .. Len(log') :
           k \in 1 .. Len(signed) \/ <<log'[k]>> = RiskOutcome(fate, row)
  BY <1>8, OutcomeAdded
<1>10. Grown(log, log')
  BY <1>7, <1>9, GrownTwice
<1>11. \A k \in 1 .. Len(log') :
         k \in 1 .. Len(signed) \/ log'[k].type = "outcome"
  BY <1>9 DEF RiskOutcome
<1>12. /\ Len(log) + 1 \in 1 .. Len(signed) /\ Len(log) + 2 \in 1 .. Len(signed)
       /\ Len(log) + 3 \in 1 .. Len(signed)
       /\ \A k \in 1 .. Len(signed) :
            k \in 1 .. Len(log) \/ k = Len(log) + 1 \/ k = Len(log) + 2 \/ k = Len(log) + 3
  BY <1>0, <1>7
<1>13. /\ log'[Len(log) + 1] = HumanRow("human_approval", req.id)
       /\ log'[Len(log) + 2] = RequestRow(req)
       /\ log'[Len(log) + 3] = row
       /\ Len(log) + 3 <= Len(log')
  BY <1>7, <1>9, <1>12 DEF Grown
<1>14. Resubmitted(req, row)
  BY <1>1, <1>2, <1>3, <1>4, <1>5, <1>10, <1>11, <1>12, <1>13
     DEF Resubmitted, SignBlock, chaseVars, reconcileVars
<1> QED
  BY <1>2, <1>3, <1>14

\* An outcome, or none, of an answer of the day.
Followed ==
  /\ Grown(log, log')
  /\ \A k \in 1 .. Len(log') : k \in 1 .. Len(log) \/ log'[k].type = "outcome"
  /\ UNCHANGED mem

LEMMA FollowedIs ==
  ASSUME Month,
         \/ DeclineBlock \/ BeginReplayDay \/ PassOver \/ ResolvePayment \/ Close
         \/ ResolveInvoice \/ LeaveAlone \/ UNCHANGED replayVars
  PROVE  Followed
<1>0. IsSeq(log) /\ Timetable /\ Len(log) \in Nat
  BY SeqShape DEF Month, Timetable, Answers
<1>1. CASE ResolvePayment
  <2>1. log' = log \o RiskOutcome(fate, Head(judged)) /\ mem' = mem
    BY <1>1 DEF ResolvePayment
  <2>2. \A k \in 1 .. Len(log') : \/ k \in 1 .. Len(log)
                                  \/ <<log'[k]>> = RiskOutcome(fate, Head(judged))
    BY <1>0, <2>1, OutcomeAdded
  <2>3. Grown(log, log')
    BY <1>0, <2>1, OutcomeAdded
  <2> QED
    BY <2>1, <2>2, <2>3 DEF Followed, RiskOutcome
<1>2. CASE Resolve
  <2>1. /\ IsSeq(log') /\ Len(log) \in Nat /\ Len(log') = Len(log) + 1
        /\ \A k \in 1 .. Len(log) : k \in 1 .. Len(log') /\ log'[k] = log[k]
        /\ log'[Len(log) + 1].type = "outcome"
    BY <1>0, <1>2, OutcomeIs DEF Timetable
  <2>2. Grown(log, log')
    BY <1>0, <2>1 DEF Grown
  <2>3. \A k \in 1 .. Len(log') : k \in 1 .. Len(log) \/ k = Len(log) + 1
    BY <2>1
  <2>4. mem' = mem
    BY <1>2 DEF Resolve
  <2> QED
    BY <2>1, <2>2, <2>3, <2>4 DEF Followed
<1>3. CASE log' = log /\ mem' = mem
  BY <1>0, <1>3, SameGrown DEF Followed
<1>4. DeclineBlock \/ BeginReplayDay \/ PassOver \/ Close \/ Overlook \/ LeaveAlone
        \/ UNCHANGED replayVars => log' = log /\ mem' = mem
  BY DEF DeclineBlock, BeginReplayDay, PassOver, Close, Overlook, LeaveAlone, BeginDay, Finish,
         replayVars, vars
<1> QED
  BY <1>1, <1>2, <1>3, <1>4 DEF ResolveInvoice
-----------------------------------------------------------------------------
(* The month's invariant.                                                    *)

LEMMA OpinionsStay ==
  ASSUME seen \subseteq seen'
  PROVE  Opinions \subseteq Opinions'
BY DEF Opinions

LEMMA RulingsStay ==
  ASSUME seen \subseteq seen', day' = day, Grown(log, log'), NEW row, IsRuling(row)
  PROVE  IsRuling(row)'
<1>1. Now' = Now /\ Opinions \subseteq Opinions'
  BY OpinionsStay DEF Now
<1>2. \A k \in 1 .. Len(log) : k \in 1 .. Len(log') /\ log'[k] = log[k]
  BY DEF Grown
<1> QED
  BY <1>1, <1>2 DEF IsRuling

LEMMA MonthInit == ReplayInit => Month
<1> SUFFICES ASSUME ReplayInit
             PROVE  Month
  OBVIOUS
<1>1. Timetable
  BY ScheduleInit DEF ReplayInit, Schedule
<1>2. Queues
  BY NoSeq DEF ReplayInit, Queues
<1>3. DOMAIN mem = CounterNames
  BY DEF ReplayInit, Init, Unused, NoCounts, CounterNames
<1> QED
  BY <1>1, <1>2, <1>3 DEF Month

LEMMA MonthStep == Month /\ [ReplayNext]_replayVars => Month'
<1> SUFFICES ASSUME Month, [ReplayNext]_replayVars
             PROVE  Month'
  OBVIOUS
<1>0. Timetable /\ Queues /\ DOMAIN mem = CounterNames
  BY DEF Month
<1>q. /\ screen \in Seq(PaymentSet) /\ seen \subseteq PaymentSet
      /\ batches \in Seq(DOMAIN Settlements)
      /\ IsSeq(judged) /\ \A k \in 1 .. Len(judged) : IsRuling(judged[k])
      /\ IsSeq(blocks) /\ \A k \in 1 .. Len(blocks) : blocks[k] \in Opinions
  BY <1>0 DEF Queues
\* The queues where nobody moves, while the log grows.
<1>s. ASSUME seen' = seen, day' = day, Grown(log, log')
      PROVE  /\ Opinions' = Opinions
             /\ \A row : IsRuling(row) => IsRuling(row)'
  BY <1>s, RulingsStay DEF Opinions
\* The first one gone.
<1>t. /\ blocks # <<>> => /\ IsSeq(Tail(blocks))
                          /\ \A k \in 1 .. Len(Tail(blocks)) : Tail(blocks)[k] \in Opinions
      /\ judged # <<>> => /\ IsSeq(Tail(judged)) /\ IsRuling(Head(judged))
                          /\ \A k \in 1 .. Len(Tail(judged)) : IsRuling(Tail(judged)[k])
  <2>1. ASSUME judged # <<>>
        PROVE  /\ IsSeq(Tail(judged)) /\ IsRuling(Head(judged))
               /\ \A k \in 1 .. Len(Tail(judged)) : IsRuling(Tail(judged)[k])
    <3>1. Head(judged) = judged[1] /\ 1 \in 1 .. Len(judged)
      BY <1>q, <2>1, RestOf
    <3>2. /\ IsSeq(Tail(judged))
          /\ \A k \in 1 .. Len(Tail(judged)) :
               Tail(judged)[k] = judged[k + 1] /\ k + 1 \in 1 .. Len(judged)
      BY <1>q, <2>1, RestOf
    <3> QED
      BY <1>q, <3>1, <3>2
  <2> QED
    BY <1>q, <2>1, RestOf
<1>1. CASE SignBlock
  <2>1. PICK req, row : Resubmitted(req, row)
    BY <1>1, ResubmittedIs
  <2>2. /\ blocks # <<>> /\ blocks' = Tail(blocks)
        /\ UNCHANGED <<screen, judged, seen, batches>>
        /\ Grown(log, log') /\ UNCHANGED chaseVars
        /\ mem' = Count(Sign(mem, req.id), row)
    BY <2>1 DEF Resubmitted
  <2>3. Timetable' /\ day' = day
    BY <1>0, <2>2, ChaseUndisturbed DEF chaseVars
  <2>4. Queues'
    BY <1>q, <1>s, <1>t, <2>2, <2>3 DEF Queues
  <2>5. DOMAIN mem' = CounterNames
    BY <1>0, <2>2, CountIs, SignIs
  <2> QED
    BY <2>3, <2>4, <2>5 DEF Month
<1>2. CASE Screen
  <2>1. PICK p, req, row : RiskAsks(p, req, row)
    BY <1>2, RiskAsksIs
  <2>2. /\ p \in PaymentSet /\ seen' = seen \cup {p} /\ req = Opinion[p] /\ req.action # None
        /\ screen' = Tail(screen) /\ judged' = Append(judged, row)
        /\ UNCHANGED <<batches, blocks>> /\ UNCHANGED chaseVars
        /\ Submitted(req, row, Now)
    BY <2>1 DEF RiskAsks
  <2>3. /\ row.type = "decision" /\ row.req = req /\ row.at = Now
        /\ Grown(log, log') /\ Len(log') = Len(log) + 2 /\ log'[Len(log) + 2] = row
        /\ mem' = Count(mem, row)
    BY <2>2 DEF Submitted
  <2>4. Timetable' /\ day' = day
    BY <1>0, <2>2, <2>3, ChaseUndisturbed DEF chaseVars
  <2>5. seen \subseteq seen' /\ seen' \subseteq PaymentSet /\ req \in Opinions'
    BY <1>q, <2>2 DEF Opinions
  <2>6. IsRuling(row)'
    <3>1. Now' = Now
      BY <2>4 DEF Now
    <3>2. Len(log) + 2 \in 1 .. Len(log')
      BY <2>3 DEF Grown
    <3> QED
      BY <2>3, <2>5, <3>1, <3>2 DEF IsRuling
  <2>7. IsSeq(judged') /\ \A k \in 1 .. Len(judged') : IsRuling(judged[k])'
    <3>1. /\ IsSeq(judged') /\ judged'[Len(judged) + 1] = row
          /\ \A k \in 1 .. Len(judged) : judged'[k] = judged[k]
          /\ \A k \in 1 .. Len(judged') : k \in 1 .. Len(judged) \/ k = Len(judged) + 1
      BY <1>q, <2>2, RowAdded DEF Grown
    <3>2. \A r : IsRuling(r) => IsRuling(r)'
      BY <2>3, <2>4, <2>5, RulingsStay
    <3>3. ASSUME NEW k \in 1 .. Len(judged')
          PROVE  IsRuling(judged[k])'
      <4>1. CASE k \in 1 .. Len(judged)
        <5>1. PICK r : r = judged[k]
          OBVIOUS
        <5>2. judged'[k] = r /\ IsRuling(r)'
          BY <1>q, <3>1, <3>2, <4>1, <5>1
        <5> QED
          BY <5>2 DEF IsRuling
      <4>2. CASE k = Len(judged) + 1
        BY <2>6, <3>1, <4>2 DEF IsRuling
      <4> QED
        BY <3>1, <4>1, <4>2
    <3> QED
      BY <3>1, <3>3
  <2>8. screen' \in Seq(PaymentSet)
    BY <1>2, <1>q, <2>2 DEF Screen
  <2>9. \A k \in 1 .. Len(blocks) : blocks[k] \in Opinions'
    BY <1>q, <2>5, OpinionsStay
  <2>10. Queues'
    BY <1>q, <2>2, <2>5, <2>7, <2>8, <2>9 DEF Queues, IsRuling
  <2>11. DOMAIN mem' = CounterNames
    BY <1>0, <2>3, CountIs
  <2> QED
    BY <2>4, <2>10, <2>11 DEF Month
<1>3. CASE CheckBatch
  <2>1. PICK s, req, row : ReconcilerAsks(s, req, row)
    BY <1>3, ReconcilerAsksIs
  <2>2. /\ batches' = Tail(batches) /\ UNCHANGED chaseVars
        /\ UNCHANGED <<screen, judged, blocks, seen>>
        /\ Grown(log, log') /\ mem' = Count(mem, row)
    BY <2>1 DEF ReconcilerAsks, Submitted
  <2>3. Timetable' /\ day' = day
    BY <1>0, <2>2, ChaseUndisturbed DEF chaseVars
  <2>4. batches' \in Seq(DOMAIN Settlements)
    BY <1>3, <1>q, <2>2 DEF CheckBatch
  <2>5. Queues'
    BY <1>q, <1>s, <2>2, <2>3, <2>4 DEF Queues
  <2>6. DOMAIN mem' = CounterNames
    BY <1>0, <2>2, CountIs
  <2> QED
    BY <2>3, <2>5, <2>6 DEF Month
<1>4. CASE WorkInvoice /\ Ask
  <2>1. PICK req, row : ChaseAsks(req, row)
    BY <1>0, <1>4, ChaseAsksIs
  <2>2. /\ day' = day /\ Grown(log, log') /\ mem' = Count(mem, row)
        /\ UNCHANGED <<screen, judged, blocks, seen, batches>>
    BY <1>4, <2>1 DEF ChaseAsks, Submitted, WorkInvoice, riskVars, reconcileVars
  <2>3. Timetable'
    BY <1>0, <1>4, TimetableStep DEF Next
  <2>4. Queues'
    BY <1>q, <1>s, <2>2 DEF Queues
  <2>5. DOMAIN mem' = CounterNames
    BY <1>0, <2>2, CountIs
  <2> QED
    BY <2>3, <2>4, <2>5 DEF Month
<1>5. CASE (WorkInvoice /\ LeaveAlone) \/ ResolveInvoice \/ DeclineBlock \/ UNCHANGED replayVars
  <2>1. Followed
    BY <1>5, FollowedIs
  <2>2. Grown(log, log') /\ mem' = mem
    BY <2>1 DEF Followed
  <2>3. Timetable'
    <3>1. CASE DeclineBlock \/ UNCHANGED replayVars
      BY <1>0, <2>2, <3>1, ChaseUndisturbed DEF DeclineBlock, replayVars, vars, chaseVars
    <3> QED
      BY <1>0, <1>5, <3>1, TimetableStep DEF Next, ResolveInvoice
  <2>4. /\ day' = day /\ UNCHANGED <<screen, judged, seen, batches>>
        /\ blocks' = blocks \/ (blocks # <<>> /\ blocks' = Tail(blocks))
    BY <1>5 DEF WorkInvoice, LeaveAlone, ResolveInvoice, Overlook, Resolve, DeclineBlock,
                replayVars, vars, riskVars, reconcileVars
  <2>5. Queues'
    BY <1>q, <1>s, <1>t, <2>2, <2>4 DEF Queues
  <2> QED
    BY <1>0, <2>2, <2>3, <2>5 DEF Month
<1>6. CASE BeginReplayDay \/ Close
  <2>1. mem' = mem /\ log' = log
    BY <1>6 DEF BeginReplayDay, Close, BeginDay, Finish
  <2>2. Timetable'
    BY <1>0, <1>6, TimetableStep DEF Next, BeginReplayDay, Close
  <2>3. judged = <<>> /\ judged' = <<>> /\ blocks' = blocks /\ seen' = seen
    BY <1>6 DEF BeginReplayDay, Close, DayDone, RiskDone, riskVars
  <2>4. screen' \in Seq(PaymentSet) /\ batches' \in Seq(DOMAIN Settlements)
    BY <1>6, <1>q, CapturedIs, BatchesAre DEF BeginReplayDay, Close, riskVars
  <2>5. Queues'
    BY <1>q, <2>3, <2>4, NoSeq DEF Queues, Opinions
  <2> QED
    BY <1>0, <2>1, <2>2, <2>5 DEF Month
<1>7. CASE PassOver
  <2>1. /\ screen # <<>> /\ screen' = Tail(screen) /\ seen' = seen \cup {Head(screen)}
        /\ UNCHANGED <<judged, blocks, batches>> /\ UNCHANGED chaseVars
        /\ log' = log /\ mem' = mem
    BY <1>7 DEF PassOver, vars, chaseVars, reconcileVars
  <2>2. Grown(log, log')
    BY <1>0, <2>1, SameGrown DEF Timetable, Answers
  <2>3. Timetable' /\ day' = day
    BY <1>0, <2>1, <2>2, ChaseUndisturbed DEF chaseVars
  <2>4. screen' \in Seq(PaymentSet) /\ Head(screen) \in PaymentSet
    BY <1>q, <2>1
  <2>5. seen \subseteq seen' /\ seen' \subseteq PaymentSet
    BY <1>q, <2>1, <2>4
  <2>6. \A row : IsRuling(row) => IsRuling(row)'
    BY <2>2, <2>3, <2>5, RulingsStay
  <2>7. Opinions \subseteq Opinions'
    BY <2>5, OpinionsStay
  <2>8. Queues'
    BY <1>q, <2>1, <2>4, <2>5, <2>6, <2>7 DEF Queues
  <2> QED
    BY <1>0, <2>1, <2>3, <2>8 DEF Month
<1>8. CASE ResolvePayment
  <2>1. /\ judged # <<>> /\ judged' = Tail(judged)
        /\ blocks' = IF Head(judged).verdict = "needs_human"
                       THEN Append(blocks, Head(judged).req) ELSE blocks
        /\ UNCHANGED <<screen, seen, batches>> /\ UNCHANGED chaseVars
    BY <1>8 DEF ResolvePayment, chaseVars, reconcileVars
  <2>2. Grown(log, log') /\ mem' = mem
    BY <1>8, FollowedIs DEF Followed
  <2>3. Timetable' /\ day' = day
    BY <1>0, <2>1, <2>2, ChaseUndisturbed DEF chaseVars
  <2>4. Head(judged).req \in Opinions
    BY <1>t, <2>1 DEF IsRuling
  <2>5. IsSeq(blocks') /\ \A k \in 1 .. Len(blocks') : blocks'[k] \in Opinions
    BY <1>q, <2>1, <2>4, RowAdded DEF Grown
  <2>6. Queues'
    BY <1>q, <1>s, <1>t, <2>1, <2>2, <2>3, <2>5 DEF Queues
  <2> QED
    BY <1>0, <2>2, <2>3, <2>6 DEF Month
<1> QED
  BY <1>1, <1>2, <1>3, <1>4, <1>5, <1>6, <1>7, <1>8 DEF ReplayNext, WorkInvoice
-----------------------------------------------------------------------------
(* No hindsight: what is asked about a payment is the opinion of it, and the *)
(* opinion rests on nothing later than the payment.                          *)

RiskRows ==
  \A k \in 1 .. Len(log) :
    log[k].type \in {"request", "decision"} /\ log[k].req.action \in RISK_ACTIONS
      => log[k].req \in Opinions

LEMMA RequestRowIs ==
  ASSUME NEW req
  PROVE  RequestRow(req).type = "request" /\ RequestRow(req).req = req
BY DEF RequestRow

\* Nobody else asks for a block or a review.
LEMMA OthersActions ==
  /\ \A action \in ToolActions : action \notin RISK_ACTIONS /\ action # "match_settlement"
  /\ \A a, s : /\ Request(a, s).action \in {"match_settlement", "escalate_to_human"}
               /\ Request(a, s).action \notin RISK_ACTIONS
               /\ Request(a, s).settlement = s
BY DEF ToolActions, CONTACT_ACTIONS, RISK_ACTIONS, Request, BatchRequest

LEMMA RiskRowsInit == ReplayInit => RiskRows
BY NoSeq DEF ReplayInit, Init, RiskRows

LEMMA RiskRowsStep == Month /\ RiskRows /\ [ReplayNext]_replayVars => RiskRows'
<1> SUFFICES ASSUME Month, RiskRows, [ReplayNext]_replayVars
             PROVE  RiskRows'
  OBVIOUS
<1>0. Timetable
  BY DEF Month
<1>1. Opinions \subseteq Opinions'
  <2>1. seen \subseteq seen'
    BY DEF ReplayNext, SignBlock, DeclineBlock, BeginReplayDay, WorkInvoice, ResolveInvoice,
           PassOver, Screen, ResolvePayment, CheckBatch, Close, replayVars, riskVars
  <2> QED
    BY <2>1, OpinionsStay
\* Old rows stay what they were; new ones are looked at by whom they come from.
<1>2. ASSUME Grown(log, log'),
             \A k \in 1 .. Len(log') :
               \/ k \in 1 .. Len(log)
               \/ log'[k].type \notin {"request", "decision"}
               \/ log'[k].req.action \notin RISK_ACTIONS
               \/ log'[k].req \in Opinions'
      PROVE  RiskRows'
  BY <1>1, <1>2 DEF RiskRows, Grown
<1>3. CASE Followed
  BY <1>2, <1>3 DEF Followed
<1>4. CASE SignBlock
  <2>1. PICK req, row : Resubmitted(req, row)
    BY <1>4, ResubmittedIs
  <2>2. /\ req \in Opinions' /\ row.req = req /\ Grown(log, log')
        /\ log'[Len(log) + 1].type = "human_approval"
        /\ log'[Len(log) + 2].req = req /\ log'[Len(log) + 3].req = req
        /\ \A k \in 1 .. Len(log') :
             \/ k \in 1 .. Len(log)
             \/ k = Len(log) + 1 \/ k = Len(log) + 2 \/ k = Len(log) + 3
             \/ log'[k].type = "outcome"
    BY <1>1, <2>1, RequestRowIs DEF Resubmitted, HumanRow
  <2> QED
    BY <1>2, <2>2
<1>5. CASE Screen
  <2>1. PICK p, req, row : RiskAsks(p, req, row)
    BY <1>5, RiskAsksIs
  <2>2. req \in Opinions'
    BY <2>1 DEF RiskAsks, Opinions
  <2>3. /\ Grown(log, log') /\ log'[Len(log) + 1].req = req /\ log'[Len(log) + 2].req = req
        /\ \A k \in 1 .. Len(log') :
             k \in 1 .. Len(log) \/ k = Len(log) + 1 \/ k = Len(log) + 2
    BY <2>1, RequestRowIs DEF RiskAsks, Submitted
  <2> QED
    BY <1>2, <2>2, <2>3
<1>6. ASSUME NEW req, NEW row, Submitted(req, row, Now), req.action \notin RISK_ACTIONS
      PROVE  RiskRows'
  <2>1. /\ Grown(log, log') /\ log'[Len(log) + 1].req = req /\ log'[Len(log) + 2].req = req
        /\ \A k \in 1 .. Len(log') :
             k \in 1 .. Len(log) \/ k = Len(log) + 1 \/ k = Len(log) + 2
    BY <1>6, RequestRowIs DEF Submitted
  <2> QED
    BY <1>2, <1>6, <2>1
<1>7. CASE Ask
  <2>1. PICK req, row : ChaseAsks(req, row)
    BY <1>0, <1>7, ChaseAsksIs
  <2> QED
    BY <1>6, <2>1, OthersActions DEF ChaseAsks
<1>8. CASE CheckBatch
  <2>1. PICK s, req, row : ReconcilerAsks(s, req, row)
    BY <1>8, ReconcilerAsksIs
  <2> QED
    BY <1>6, <2>1, OthersActions DEF ReconcilerAsks
<1> QED
  BY <1>3, <1>4, <1>5, <1>7, <1>8, FollowedIs DEF ReplayNext, WorkInvoice

\* The opinion of a payment rests on nothing later than the payment.
LEMMA OpinionRestsOnThePast ==
  ASSUME NEW p \in DOMAIN Payments
  PROVE  LET then == {q \in DOMAIN Payments : Payments[q].created <= Payments[p].created}
         IN  RiskRequest(Payments, p) = RiskRequest([q \in then |-> Payments[q]], p)
<1> DEFINE then == {q \in DOMAIN Payments : Payments[q].created <= Payments[p].created}
           past == [q \in then |-> Payments[q]]
<1>1. p \in then
  BY BankAssumption
<1>2. DOMAIN past = then /\ then \subseteq DOMAIN Payments /\ past[p] = Payments[p]
      /\ \A q \in then : past[q] = Payments[q]
  BY <1>1
<1>3. \A q \in DOMAIN Payments : q \in then <=> Payments[q].created <= Payments[p].created
  OBVIOUS
<1> HIDE DEF then, past
<1>4. Prior(past, p) = Prior(Payments, p) /\ Prior(past, p) \subseteq then
  BY <1>2, <1>3 DEF Prior
<1>5. \A h : Within(past, p, h) = Within(Payments, p, h) /\ Within(past, p, h) \subseteq then
  BY <1>2, <1>4 DEF Within
<1>6. Median(past, Prior(past, p)) = Median(Payments, Prior(Payments, p))
  <2> DEFINE ps == Prior(Payments, p)
  <2>1. \A q \in ps : past[q] = Payments[q]
    BY <1>2, <1>4
  <2> HIDE DEF ps
  <2>2. {past[q].amount : q \in ps} = {Payments[q].amount : q \in ps}
    BY <2>1
  <2>3. \A amount : /\ {q \in ps : past[q].amount < amount} = {q \in ps : Payments[q].amount < amount}
                    /\ {q \in ps : past[q].amount <= amount} = {q \in ps : Payments[q].amount <= amount}
    BY <2>1
  <2>4. Median(past, ps) = Median(Payments, ps)
    BY <2>2, <2>3, Zenon DEF Median
  <2> QED
    BY <1>4, <2>4 DEF ps
<1>7. Burst(past, p) = Burst(Payments, p)
  <2>1. {q \in Within(past, p, BURST_WINDOW) : past[q].status = "failed"} =
          {q \in Within(Payments, p, BURST_WINDOW) : Payments[q].status = "failed"}
    BY <1>2, <1>5
  <2> QED
    BY <2>1, Zenon DEF Burst
<1>8. Young(past, p) = Young(Payments, p)
  BY <1>2, Zenon DEF Young
<1>9. HardDeclined(past, p) = HardDeclined(Payments, p)
  <2>1. {q \in Prior(past, p) : past[q].failure \in HARD_DECLINES} =
          {q \in Prior(Payments, p) : Payments[q].failure \in HARD_DECLINES}
    BY <1>2, <1>4
  <2> QED
    BY <2>1, Zenon DEF HardDeclined
<1>10. Outsized(past, p) = Outsized(Payments, p)
  BY <1>2, <1>4, <1>6, Zenon DEF Outsized
<1>11. Cardinality(Within(past, p, VELOCITY_WINDOW)) = Cardinality(Within(Payments, p, VELOCITY_WINDOW))
  BY <1>5
<1>12. signals_for(past, p) = signals_for(Payments, p)
  BY <1>2, <1>7, <1>8, <1>9, <1>10, <1>11, Zenon DEF signals_for
<1>13. score(past, p) = score(Payments, p)
  BY <1>12 DEF score
<1>14. RiskRequest(Payments, p) = RiskRequest(past, p)
  BY <1>13 DEF RiskRequest
<1> QED
  BY <1>14 DEF then, past

\* "A scorer allowed to see the rest of the month would be reading the future":
\* for every dataset, each request about a payment is the one that would have
\* been made had the records ended with it (agents/risk.py:24-29).
THEOREM ReplayNoHindsight == ReplaySpec => []NoHindsight
<1>1. Month /\ RiskRows => NoHindsight
  <2> SUFFICES ASSUME Month, RiskRows, NEW k \in OnRisk(RequestRows)
               PROVE  LET p    == log[k].req.payment
                          then == {q \in DOMAIN Payments :
                                     Payments[q].created <= Payments[p].created}
                      IN  log[k].req = RiskRequest([q \in then |-> Payments[q]], p)
    BY DEF NoHindsight
  <2>1. k \in 1 .. Len(log) /\ log[k].type = "request" /\ log[k].req.action \in RISK_ACTIONS
    BY SeqShape DEF OnRisk, RequestRows, Month, Timetable, Answers
  <2>2. PICK p \in seen : log[k].req = Opinion[p]
    BY <2>1 DEF RiskRows, Opinions
  <2>3. p \in PaymentSet /\ p \in DOMAIN Payments
    BY <2>2, CapturedIs DEF Month, Queues
  <2>4. log[k].req.payment = p /\ log[k].req = RiskRequest(Payments, p)
    BY <2>2, <2>3, OpinionIs
  <2> QED
    BY <2>3, <2>4, OpinionRestsOnThePast
<1> QED
  BY <1>1, MonthInit, MonthStep, RiskRowsInit, RiskRowsStep, PTL DEF ReplaySpec
-----------------------------------------------------------------------------
(* The reconciler: one row for each batch, and what it says.                 *)

BatchKinds == {"unknown_payment", "duplicate_payment", "amount_mismatch"}

\* The batch agrees with the merchant's own records.
Fits(s) == Unknown(s) = {} /\ ~ (Distance(Gap(s), 0) > TOLERANCE_PAISE)

LEMMA GrossIs ==
  ASSUME NEW s \in DOMAIN Settlements
  PROVE  Gross(Settlements[s]) \in Int
<1> DEFINE ps == Settlements[s].payments
           worth == [n \in DOMAIN ps |-> IF ps[n] \in DOMAIN Payments
                                           THEN Payments[ps[n]].amount ELSE 0]
<1>1. Len(ps) \in Nat /\ DOMAIN ps = 1 .. Len(ps)
  BY BankAssumption
<1>2. worth \in [1 .. Len(ps) -> Int]
  BY <1>1, BankAssumption
<1>3. Gross(Settlements[s]) = Total(worth)
  BY DEF Gross
<1> HIDE DEF ps, worth
<1>4. Total(worth) \in Int
  BY <1>1, <1>2, TotalIs DEF Sums
<1> QED
  BY <1>3, <1>4

BatchVerdict(s, action, m, b, at) ==
  LET req == BatchRequest(s, action) IN Judgement(req, build_context(m, b, req, at))

\* What the gateway, which sums for itself, says of a batch: unless it has
\* been asked before, a handover is allowed and a match is if the batch fits.
LEMMA BatchJudgement ==
  ASSUME NEW s \in DOMAIN Settlements, NEW m, NEW b, None \notin DOMAIN b, NEW at,
         NEW action \in {"match_settlement", "escalate_to_human"},
         <<s, action>> \notin m.used_keys
  PROVE  /\ action = "escalate_to_human" => BatchVerdict(s, action, m, b, at) = "allow"
         /\ action = "match_settlement" =>
              (BatchVerdict(s, action, m, b, at) = "allow" <=> Fits(s))
<1> DEFINE req == BatchRequest(s, action)
           ctx == build_context(m, b, req, at)
<1>1. /\ req.action = action /\ req.key = <<s, action>> /\ req.instructs = FALSE
      /\ req.invoice = None /\ req.settlement = s
  BY DEF BatchRequest
<1> HIDE DEF req
<1>2. /\ ctx.invoice = None
      /\ ctx.used_idempotency_keys = m.used_keys
      /\ ctx.settlement = Settlements[s]
      /\ ctx.settlement_gross = Gross(Settlements[s])
      /\ ctx.settlement_unknown <=> Unknown(s) # {}
  BY <1>1, BankAssumption DEF build_context, Lookup, Unknown, Listed
<1> HIDE DEF ctx
<1>3. /\ action \notin CONTACT_ACTIONS /\ ~Contacts(req) /\ action \notin RISK_ACTIONS
      /\ action \notin {"issue_refund", "retry_charge", "offer_discount", "write_off"}
  BY <1>1 DEF Contacts, CONTACT_ACTIONS, RISK_ACTIONS
<1>4. Ceilings(req, ctx) = {"abstain"}
  BY <1>1, <1>3 DEF Ceilings, r04_refund_ceiling, r12_write_off_ceiling, r14_block_ceiling,
                    RISK_ACTIONS
<1>5. Others(req, ctx) = {"abstain", r16_settlement_discrepancy(req, ctx)}
  <2>1. r01_opt_out(req, ctx) = "abstain" /\ r02_contact_frequency(req, ctx) = "abstain"
        /\ r03_quiet_hours(req, ctx) = "abstain"
    BY <1>3 DEF r01_opt_out, r02_contact_frequency, r03_quiet_hours
  <2>2. r05_duplicate_action(req, ctx) = "abstain"
    BY <1>1, <1>2 DEF r05_duplicate_action
  <2>3. r06_refund_exceeds_payment(req, ctx) = "abstain" /\ r07_attempt_limit(req, ctx) = "abstain"
        /\ r08_unretryable_failure(req, ctx) = "abstain"
        /\ r09_disputed_invoice(req, ctx) = "abstain" /\ r10_settled_invoice(req, ctx) = "abstain"
        /\ r11_discount_ceiling(req, ctx) = "abstain"
    BY <1>1, <1>2, <1>3 DEF r06_refund_exceeds_payment, r07_attempt_limit,
       r08_unretryable_failure, r09_disputed_invoice, r10_settled_invoice, r11_discount_ceiling
  <2>4. r13_prompt_injection(req, ctx) = "abstain" /\ r15_risk_evidence(req, ctx) = "abstain"
    BY <1>1, <1>2, <1>3 DEF r13_prompt_injection, r15_risk_evidence
  <2> QED
    BY <2>1, <2>2, <2>3, <2>4 DEF Others
<1>6. decide(req, ctx) = Strictest({"abstain", r16_settlement_discrepancy(req, ctx)})
  BY <1>4, <1>5, DecideSplits
<1>7. assess(req, ctx) = "abstain"
  BY <1>1, <1>2, <1>3 DEF assess
<1>8. Judgement(req, ctx) = "allow" <=>
        r16_settlement_discrepancy(req, ctx) \notin {"deny", "needs_human"}
  BY <1>6, <1>7 DEF Judgement, Strictest
<1>0. BatchVerdict(s, action, m, b, at) = Judgement(req, ctx)
  BY DEF BatchVerdict, req, ctx
<1>9. CASE action = "escalate_to_human"
  BY <1>0, <1>1, <1>8, <1>9 DEF r16_settlement_discrepancy
<1>10. CASE action = "match_settlement"
  <2>1. /\ Gross(Settlements[s]) \in Int
        /\ Settlements[s].amount \in Int /\ Settlements[s].fee \in Int
        /\ Settlements[s] # None
    BY GrossIs, BankAssumption
  <2>2. Distance(Gap(s), 0) =
          Distance(Settlements[s].amount, Gross(Settlements[s]) - Settlements[s].fee)
    BY <2>1 DEF Distance, Gap
  <2>3. Fits(s) <=> r16_settlement_discrepancy(req, ctx) \notin {"deny", "needs_human"}
    BY <1>1, <1>2, <1>10, <2>1, <2>2
       DEF r16_settlement_discrepancy, Fits, TOLERANCE_PAISE, SETTLEMENT_TOLERANCE_PAISE
  <2> QED
    BY <1>0, <1>8, <1>10, <2>3
<1> QED
  BY <1>9, <1>10

LEMMA AcceptedIs ==
  ASSUME NEW s \in DOMAIN Settlements
  PROVE  Accepted(s) <=> Fits(s)
<1>1. Unused.used_keys = {} /\ None \notin DOMAIN Invoices
  BY ListsAssumption DEF Unused, NoCounts
<1>2. BatchVerdict(s, "match_settlement", Unused, Invoices, 0) = "allow" <=> Fits(s)
  <2>1. <<s, "match_settlement">> \notin Unused.used_keys
    BY <1>1
  <2> HIDE DEF Unused
  <2> QED
    BY <1>1, <2>1, BatchJudgement
<1> QED
  BY <1>2 DEF Accepted, BatchVerdict
AgentShape ==
  /\ reconcile = [claimed_by |-> reconcile.claimed_by, exceptions |-> reconcile.exceptions,
                  seen |-> reconcile.seen]
  /\ reconcile.seen \subseteq DOMAIN Settlements
  /\ DOMAIN reconcile.claimed_by \subseteq DOMAIN Payments
  /\ IsSeq(reconcile.exceptions)
  /\ \A k \in 1 .. Len(reconcile.exceptions) :
       reconcile.exceptions[k].kind \in BatchKinds => reconcile.exceptions[k].reference \in reconcile.seen

\* A key of the reconciler's has been used only for a batch that it saw.
KeysKnown ==
  \A s \in DOMAIN Settlements, action \in {"match_settlement", "escalate_to_human"} :
    <<s, action>> \in mem.used_keys => s \in reconcile.seen

\* Decisions about a batch are the reconciler's, one for each batch it saw.
BatchRows ==
  \A k \in 1 .. Len(log) : log[k].type = "decision" =>
    \/ log[k].req.settlement = None /\ log[k].req.action # "match_settlement"
    \/ log[k].req.settlement \in reconcile.seen

OncePerBatch ==
  \A j, k \in 1 .. Len(log) :
    /\ log[j].type = "decision" /\ log[k].type = "decision"
    /\ log[j].req.settlement # None
    /\ log[j].req.settlement = log[k].req.settlement
    => j = k

ClaimedBy(s) ==
  \A p \in Listed(s) : p \in DOMAIN reconcile.claimed_by /\ reconcile.claimed_by[p] = s

AsMatched(s, k) ==
  /\ log[k].type = "decision" /\ log[k].verdict = "allow"
  /\ log[k].req = BatchRequest(s, "match_settlement")
  /\ Fits(s) /\ ClaimedBy(s) /\ ~Excepted(s, BatchKinds)

AsHanded(s, k) ==
  /\ log[k].type = "decision" /\ log[k].verdict = "allow"
  /\ log[k].req = BatchRequest(s, "escalate_to_human")
  /\ Excepted(s, BatchKinds)
  /\ ~Fits(s) \/ Excepted(s, {"duplicate_payment"})

Checked == \A s \in reconcile.seen : \E k \in 1 .. Len(log) : AsMatched(s, k) \/ AsHanded(s, k)

Reconciled == AgentShape /\ KeysKnown /\ BatchRows /\ OncePerBatch /\ Checked

LEMMA ReconciledInit == ReplayInit => Reconciled
<1> SUFFICES ASSUME ReplayInit
             PROVE  Reconciled
  OBVIOUS
<1>1. reconcile = [claimed_by |-> <<>>, exceptions |-> <<>>, seen |-> {}]
  BY DEF ReplayInit, NewReconciler
<1>2. mem.used_keys = {} /\ Len(log) = 0
  BY NoSeq DEF ReplayInit, Init, Unused, NoCounts
<1>3. AgentShape
  BY <1>1, NoSeq DEF AgentShape
<1>4. KeysKnown /\ BatchRows /\ OncePerBatch /\ Checked
  BY <1>1, <1>2 DEF KeysKnown, BatchRows, OncePerBatch, Checked
<1> QED
  BY <1>3, <1>4 DEF Reconciled

\* Rows of others leave the reconciler's books as they are.
LEMMA ReconcilerUndisturbed ==
  ASSUME Reconciled, Grown(log, log'), reconcile' = reconcile,
         \A k \in 1 .. Len(log') :
           \/ k \in 1 .. Len(log)
           \/ log'[k].type # "decision"
           \/ log'[k].req.settlement = None /\ log'[k].req.action # "match_settlement",
         \A s \in DOMAIN Settlements, action \in {"match_settlement", "escalate_to_human"} :
           <<s, action>> \in mem'.used_keys => <<s, action>> \in mem.used_keys
  PROVE  Reconciled'
<1>1. \A k \in 1 .. Len(log) : k \in 1 .. Len(log') /\ log'[k] = log[k]
  BY DEF Grown
<1>2. AgentShape'
  BY DEF Reconciled, AgentShape
<1>3. KeysKnown'
  BY DEF Reconciled, KeysKnown
<1>4. BatchRows'
  BY <1>1 DEF Reconciled, BatchRows
<1>5. OncePerBatch'
  BY <1>1 DEF Reconciled, OncePerBatch
<1>6. Checked'
  <2> SUFFICES ASSUME NEW s \in reconcile.seen
               PROVE  \E k \in 1 .. Len(log') : AsMatched(s, k)' \/ AsHanded(s, k)'
    BY DEF Checked
  <2>1. PICK k \in 1 .. Len(log) : AsMatched(s, k) \/ AsHanded(s, k)
    BY DEF Reconciled, Checked
  <2>2. k \in 1 .. Len(log') /\ log'[k] = log[k]
    BY <1>1
  <2>3. \A kinds : Excepted(s, kinds)' <=> Excepted(s, kinds)
    BY DEF Excepted
  <2>4. AsMatched(s, k)' \/ AsHanded(s, k)'
    BY <2>1, <2>2, <2>3 DEF AsMatched, AsHanded, ClaimedBy
  <2> QED
    BY <2>2, <2>4
<1> QED
  BY <1>2, <1>3, <1>4, <1>5, <1>6 DEF Reconciled

\* Exceptions are only ever added.
LEMMA ExceptedStays ==
  ASSUME Grown(reconcile.exceptions, reconcile.exceptions'), NEW reference, NEW kinds,
         Excepted(reference, kinds)
  PROVE  Excepted(reference, kinds)'
<1>1. /\ IsSeq(reconcile.exceptions) /\ IsSeq(reconcile.exceptions')
      /\ \A k \in 1 .. Len(reconcile.exceptions) :
           k \in 1 .. Len(reconcile.exceptions') /\ reconcile.exceptions'[k] = reconcile.exceptions[k]
  BY DEF Grown
<1>2. /\ DOMAIN reconcile.exceptions = 1 .. Len(reconcile.exceptions)
      /\ DOMAIN reconcile.exceptions' = 1 .. Len(reconcile.exceptions')
  BY <1>1, SeqShape
<1> QED
  BY <1>1, <1>2 DEF Excepted
\* What an opinion looks like.
LEMMA OpinionsAre ==
  ASSUME seen \subseteq PaymentSet, NEW req \in Opinions
  PROVE  /\ req.payment \in seen /\ req = Opinion[req.payment]
         /\ req.action \in RISK_ACTIONS /\ req.action # None
         /\ req.settlement = None
         /\ req.id = <<req.payment, "risk">>
         /\ req.key = <<req.payment, req.action>>
<1>1. PICK p \in seen : req = Opinion[p] /\ Opinion[p].action # None
  BY DEF Opinions
<1>2. p \in PaymentSet
  BY <1>1
<1> QED
  BY <1>1, <1>2, OpinionIs

\* One exception more, or none, about the batch that is examined.
LEMMA ExaminedIs ==
  ASSUME AgentShape, NEW s \in DOMAIN Settlements, s \notin reconcile.seen,
         reconcile' = Examined(reconcile, s)
  PROVE  /\ AgentShape'
         /\ reconcile.seen' = reconcile.seen \cup {s}
         /\ Grown(reconcile.exceptions, reconcile.exceptions')
         /\ \A kinds : \A b \in reconcile.seen : Excepted(b, kinds)' <=> Excepted(b, kinds)
         /\ \A kinds \in SUBSET BatchKinds :
              Excepted(s, kinds)' <=> Problem(reconcile, s) \in kinds
         /\ \A b : ClaimedBy(b) => ClaimedBy(b)'
         /\ Problem(reconcile, s) = None => Fits(s) /\ ClaimedBy(s)'
         /\ Problem(reconcile, s) # None =>
              /\ Problem(reconcile, s) \in BatchKinds
              /\ ~Fits(s) \/ Problem(reconcile, s) = "duplicate_payment"
<1> DEFINE problem == Problem(reconcile, s)
<1>1. /\ reconcile.claimed_by' = Claim(reconcile, s)
      /\ reconcile.seen' = reconcile.seen \cup {s}
      /\ reconcile.exceptions' =
           IF problem = None THEN reconcile.exceptions
           ELSE Append(reconcile.exceptions,
                       [kind |-> problem, reference |-> s, amount |-> AtStake(s)])
      /\ reconcile' = [claimed_by |-> reconcile.claimed_by', exceptions |-> reconcile.exceptions',
                       seen |-> reconcile.seen']
  BY DEF Examined
<1>2. problem \in BatchKinds \cup {None} /\ None \notin BatchKinds
  BY ListsAssumption DEF Problem, BatchKinds
<1>3. problem = None => Fits(s) /\ Duplicates(reconcile, s) = {}
  BY <1>2 DEF Problem, Fits, BatchKinds
<1>4. problem # None => ~Fits(s) \/ problem = "duplicate_payment"
  BY DEF Problem, Fits
<1> HIDE DEF problem
<1>5. IsSeq(reconcile.exceptions)
  BY DEF AgentShape
<1>6. /\ Grown(reconcile.exceptions, reconcile.exceptions')
      /\ \A k \in 1 .. Len(reconcile.exceptions') :
           \/ k \in 1 .. Len(reconcile.exceptions)
           \/ /\ problem # None
              /\ reconcile.exceptions'[k] = [kind |-> problem, reference |-> s, amount |-> AtStake(s)]
      /\ problem # None =>
           /\ Len(reconcile.exceptions) + 1 \in 1 .. Len(reconcile.exceptions')
           /\ reconcile.exceptions'[Len(reconcile.exceptions) + 1] =
                [kind |-> problem, reference |-> s, amount |-> AtStake(s)]
  <2>1. CASE problem = None
    BY <1>1, <1>5, <2>1, SameGrown
  <2>2. CASE problem # None
    <3>1. PICK e : e = [kind |-> problem, reference |-> s, amount |-> AtStake(s)]
      OBVIOUS
    <3>2. reconcile.exceptions' = Append(reconcile.exceptions, e)
      BY <1>1, <2>2, <3>1
    <3>3. /\ Grown(reconcile.exceptions, reconcile.exceptions')
          /\ Len(reconcile.exceptions') = Len(reconcile.exceptions) + 1
          /\ reconcile.exceptions'[Len(reconcile.exceptions) + 1] = e
          /\ \A k \in 1 .. Len(reconcile.exceptions') :
               k \in 1 .. Len(reconcile.exceptions) \/ k = Len(reconcile.exceptions) + 1
      BY <1>5, <3>2, RowAdded
    <3>4. Len(reconcile.exceptions) + 1 \in 1 .. Len(reconcile.exceptions')
      BY <3>3 DEF Grown
    <3> QED
      BY <2>2, <3>1, <3>3, <3>4
  <2> QED
    BY <2>1, <2>2
<1>7. /\ IsSeq(reconcile.exceptions')
      /\ \A k \in 1 .. Len(reconcile.exceptions) :
           k \in 1 .. Len(reconcile.exceptions') /\ reconcile.exceptions'[k] = reconcile.exceptions[k]
      /\ DOMAIN reconcile.exceptions = 1 .. Len(reconcile.exceptions)
      /\ DOMAIN reconcile.exceptions' = 1 .. Len(reconcile.exceptions')
  BY <1>6, SeqShape DEF Grown
<1>8. DOMAIN reconcile.claimed_by' \subseteq DOMAIN Payments
  BY <1>1 DEF AgentShape, Claim
<1>9. \A k \in 1 .. Len(reconcile.exceptions') :
        reconcile.exceptions'[k].kind \in BatchKinds => reconcile.exceptions'[k].reference \in reconcile.seen'
  BY <1>1, <1>6, <1>7 DEF AgentShape
<1>10. AgentShape'
  BY <1>1, <1>7, <1>8, <1>9 DEF AgentShape
<1>11. \A kinds : \A b \in reconcile.seen : Excepted(b, kinds)' <=> Excepted(b, kinds)
  BY <1>6, <1>7 DEF Excepted
<1>12. ASSUME NEW kinds \in SUBSET BatchKinds
       PROVE  Excepted(s, kinds)' <=> problem \in kinds
  <2>1. \A k \in 1 .. Len(reconcile.exceptions) :
          ~ (reconcile.exceptions[k].reference = s /\ reconcile.exceptions[k].kind \in kinds)
    BY DEF AgentShape
  <2>2. problem \in kinds => problem # None
    BY <1>2
  <2> QED
    BY <1>6, <1>7, <2>1, <2>2 DEF Excepted
<1>13. \A b : ClaimedBy(b) => ClaimedBy(b)'
  BY <1>1 DEF ClaimedBy, Claim
<1>14. ASSUME problem = None
       PROVE  ClaimedBy(s)'
  <2>1. Listed(s) \subseteq DOMAIN Payments
    BY <1>3, <1>14 DEF Fits, Unknown
  <2>2. \A p \in Listed(s) : p \in DOMAIN reconcile.claimed_by => reconcile.claimed_by[p] = s
    BY <1>3, <1>14 DEF Duplicates
  <2> QED
    BY <1>1, <2>1, <2>2 DEF ClaimedBy, Claim
<1> QED
  BY <1>1, <1>2, <1>3, <1>4, <1>6, <1>10, <1>11, <1>12, <1>13, <1>14 DEF problem

\* A batch that was not seen before is checked.
LEMMA BatchChecked ==
  ASSUME Month, Reconciled, NEW s, NEW req, NEW row, ReconcilerAsks(s, req, row)
  PROVE  Reconciled'
<1>0. /\ AgentShape /\ KeysKnown /\ BatchRows /\ OncePerBatch /\ Checked
      /\ Money /\ DOMAIN mem = CounterNames
  BY DEF Reconciled, Month, Timetable
<1>1. /\ s \in DOMAIN Settlements /\ s \notin reconcile.seen /\ s # None
      /\ reconcile' = Examined(reconcile, s)
      /\ row = Decided(mem, books, req, Now) /\ row.type = "decision" /\ row.req = req
      /\ Grown(log, log') /\ Len(log') = Len(log) + 2
      /\ log'[Len(log) + 1] = RequestRow(req) /\ log'[Len(log) + 2] = row
      /\ \A k \in 1 .. Len(log') : k \in 1 .. Len(log) \/ k = Len(log) + 1 \/ k = Len(log) + 2
      /\ mem' = Count(mem, row)
  BY ListsAssumption DEF ReconcilerAsks, Submitted
<1>2. PICK problem : problem = Problem(reconcile, s)
  OBVIOUS
<1>3. PICK action \in {"match_settlement", "escalate_to_human"} :
        /\ action = IF problem = None THEN "match_settlement" ELSE "escalate_to_human"
        /\ req = BatchRequest(s, action)
  BY <1>1, <1>2 DEF ReconcilerAsks, Request
<1>4. /\ AgentShape'
      /\ reconcile.seen' = reconcile.seen \cup {s}
      /\ Grown(reconcile.exceptions, reconcile.exceptions')
      /\ \A kinds : \A b \in reconcile.seen : Excepted(b, kinds)' <=> Excepted(b, kinds)
      /\ \A kinds \in SUBSET BatchKinds : Excepted(s, kinds)' <=> problem \in kinds
      /\ \A b : ClaimedBy(b) => ClaimedBy(b)'
      /\ problem = None => Fits(s) /\ ClaimedBy(s)'
      /\ problem # None => problem \in BatchKinds /\ (~Fits(s) \/ problem = "duplicate_payment")
  BY <1>0, <1>1, <1>2, ExaminedIs
<1>5. req.settlement = s /\ req.action = action /\ req.key = <<s, action>>
  BY <1>3 DEF BatchRequest
<1>6. row.verdict = "allow"
  <2>1. row.verdict = Judgement(req, build_context(mem, books, req, Now))
    BY <1>1 DEF Decided, DecisionRow
  <2>2. <<s, action>> \notin mem.used_keys
    BY <1>0, <1>1 DEF KeysKnown
  <2>3. None \notin DOMAIN books
    BY <1>0, ListsAssumption DEF Money
  <2>4. /\ action = "escalate_to_human" => BatchVerdict(s, action, mem, books, Now) = "allow"
        /\ action = "match_settlement" =>
             (BatchVerdict(s, action, mem, books, Now) = "allow" <=> Fits(s))
    <3>1. /\ s \in DOMAIN Settlements
          /\ action \in {"match_settlement", "escalate_to_human"}
      BY <1>1, <1>3
    <3> QED
      BY <2>2, <2>3, <3>1, BatchJudgement
  <2>5. row.verdict = BatchVerdict(s, action, mem, books, Now)
    BY <1>3, <2>1 DEF BatchVerdict
  <2> QED
    BY <1>3, <1>4, <2>4, <2>5
<1>7. /\ \A k \in 1 .. Len(log) : k \in 1 .. Len(log') /\ log'[k] = log[k]
      /\ Len(log) + 2 \in 1 .. Len(log')
      /\ log'[Len(log) + 1].type = "request"
  BY <1>1, RequestRowIs DEF Grown
<1>8. KeysKnown'
  <2>1. Count(mem, row).used_keys = mem.used_keys \cup ({row.req.key} \ {None})
    BY <1>0, <1>6, CountIs
  <2>2. mem'.used_keys \subseteq mem.used_keys \cup {<<s, action>>}
    BY <1>1, <1>5, <2>1
  <2>3. \A b, a : <<b, a>> = <<s, action>> => b = s
    OBVIOUS
  <2> QED
    BY <1>0, <1>4, <2>2, <2>3 DEF KeysKnown
<1>9. BatchRows'
  BY <1>0, <1>1, <1>4, <1>5, <1>7 DEF BatchRows
<1>10. OncePerBatch'
  <2>1. \A k \in 1 .. Len(log) : log[k].type = "decision" => log[k].req.settlement # s
    BY <1>0, <1>1 DEF BatchRows
  <2>2. ASSUME NEW j \in 1 .. Len(log'), NEW k \in 1 .. Len(log'),
               log'[j].type = "decision", log'[k].type = "decision",
               log'[j].req.settlement # None,
               log'[j].req.settlement = log'[k].req.settlement
        PROVE  j = k
    <3>1. /\ j \in 1 .. Len(log) \/ j = Len(log) + 2
          /\ k \in 1 .. Len(log) \/ k = Len(log) + 2
      BY <1>1, <1>7, <2>2
    <3>2. j \in 1 .. Len(log) <=> k \in 1 .. Len(log)
      BY <1>1, <1>5, <1>7, <2>1, <2>2, <3>1
    <3>3. CASE j \in 1 .. Len(log)
      BY <1>0, <1>7, <2>2, <3>2, <3>3 DEF OncePerBatch
    <3> QED
      BY <3>1, <3>2, <3>3
  <2> QED
    BY <2>2 DEF OncePerBatch
<1>11. Checked'
  <2> SUFFICES ASSUME NEW b \in reconcile.seen'
               PROVE  \E k \in 1 .. Len(log') : AsMatched(b, k)' \/ AsHanded(b, k)'
    BY DEF Checked
  <2>1. CASE b \in reconcile.seen
    <3>1. PICK k \in 1 .. Len(log) : AsMatched(b, k) \/ AsHanded(b, k)
      BY <1>0, <2>1 DEF Checked
    <3>2. AsMatched(b, k)' \/ AsHanded(b, k)'
      BY <1>4, <1>7, <2>1, <3>1 DEF AsMatched, AsHanded
    <3> QED
      BY <1>7, <3>2
  <2>3. PICK last : /\ last = Len(log) + 2 /\ last \in 1 .. Len(log')
                    /\ log'[last] = row /\ row.type = "decision" /\ row.req = req
    BY <1>1, <1>7
  <2>2. CASE b = s
    <3>1. CASE problem = None
      <4>1. problem \notin BatchKinds
        BY <3>1, ListsAssumption DEF BatchKinds
      <4>2. AsMatched(s, last)'
        BY <1>3, <1>4, <1>6, <2>3, <3>1, <4>1 DEF AsMatched
      <4> QED
        BY <2>2, <2>3, <4>2 DEF AsMatched
    <3>2. CASE problem # None
      <4>1. {"duplicate_payment"} \in SUBSET BatchKinds /\ problem \in BatchKinds
        BY <1>4, <3>2 DEF BatchKinds
      <4>2. Excepted(s, BatchKinds)' /\ (~Fits(s) \/ Excepted(s, {"duplicate_payment"})')
        BY <1>4, <3>2, <4>1
      <4>3. AsHanded(s, last)'
        BY <1>3, <1>6, <2>3, <3>2, <4>2 DEF AsHanded
      <4> QED
        BY <2>2, <2>3, <4>3 DEF AsHanded
    <3> QED
      BY <3>1, <3>2
  <2> QED
    BY <1>4, <2>1, <2>2
<1> QED
  BY <1>4, <1>8, <1>9, <1>10, <1>11 DEF Reconciled
\* The sweep adds what is unsettled, and touches nothing else.
LEMMA SweptIs ==
  ASSUME AgentShape, NEW at, reconcile' = Swept(reconcile, captured_payments, at)
  PROVE  /\ AgentShape'
         /\ reconcile.seen' = reconcile.seen /\ reconcile.claimed_by' = reconcile.claimed_by
         /\ Grown(reconcile.exceptions, reconcile.exceptions')
         /\ \A kinds \in SUBSET BatchKinds : \A b : Excepted(b, kinds)' <=> Excepted(b, kinds)
         /\ \A p \in PaymentSet :
              ~InFlight(p, at) /\ (\A s \in DOMAIN Settlements : p \notin Listed(s))
                => Excepted(p, {"unsettled"})'
<1> DEFINE gone == {p \in DOMAIN Payments :
                      InFlight(p, at) \/ \E s \in DOMAIN Settlements : p \in Listed(s)}
           unsettled == Without(captured_payments, gone)
           found == [k \in DOMAIN unsettled |->
                       [kind |-> "unsettled", reference |-> unsettled[k],
                        amount |-> Payments[unsettled[k]].amount]]
<1>0. /\ reconcile.seen' = reconcile.seen /\ reconcile.claimed_by' = reconcile.claimed_by
      /\ reconcile.exceptions' = reconcile.exceptions \o found
      /\ reconcile' = [claimed_by |-> reconcile.claimed_by', exceptions |-> reconcile.exceptions',
                       seen |-> reconcile.seen']
  BY DEF Swept, AgentShape
<1>1. Kept(unsettled, captured_payments, gone, PaymentSet, Len(captured_payments))
  <2> HIDE DEF gone
  <2> QED
    BY CapturedIs, WithoutKeeps
<1>2. /\ unsettled \in Seq(PaymentSet) /\ Len(unsettled) \in Nat
      /\ DOMAIN unsettled = 1 .. Len(unsettled)
      /\ \A k \in 1 .. Len(captured_payments) :
           captured_payments[k] \notin gone =>
             \E j \in 1 .. Len(unsettled) : unsettled[j] = captured_payments[k]
  <2> HIDE DEF unsettled, gone
  <2> QED
    BY <1>1, LenProperties DEF Kept
<1>3. \A p : p \in PaymentSet /\ ~InFlight(p, at)
             /\ (\A s \in DOMAIN Settlements : p \notin Listed(s)) => p \notin gone
  OBVIOUS
<1> HIDE DEF gone, unsettled
<1> DEFINE Found == {found[k] : k \in 1 .. Len(unsettled)}
<1>4. /\ found \in Seq(Found) /\ Len(found) = Len(unsettled)
      /\ \A k \in 1 .. Len(unsettled) : /\ found[k].kind = "unsettled"
                                        /\ found[k].reference = unsettled[k]
  BY <1>2
<1>5. PICK S : reconcile.exceptions \in Seq(S)
  BY DEF AgentShape, IsSeq
<1> DEFINE T == S \cup Found
<1>6. reconcile.exceptions \in Seq(T) /\ found \in Seq(T)
  <2> HIDE DEF found, Found
  <2> QED
    BY <1>4, <1>5, SeqMonotonic
<1> HIDE DEF T, found
<1>7. PICK n, all : n = Len(reconcile.exceptions) /\ all = reconcile.exceptions'
  OBVIOUS
<1>8. /\ all \in Seq(T) /\ n \in Nat /\ Len(all) = n + Len(unsettled)
      /\ \A k \in 1 .. n + Len(unsettled) :
           all[k] = IF k <= n THEN reconcile.exceptions[k] ELSE found[k - n]
  <2>1. PICK old : old = reconcile.exceptions
    OBVIOUS
  <2>2. old \in Seq(T) /\ n = Len(old) /\ all = old \o found
    BY <1>0, <1>6, <1>7, <2>1
  <2>3. old \o found \in Seq(T) /\ Len(old \o found) = Len(old) + Len(found)
    BY <1>6, <2>2, ConcatProperties
  <2>4. \A k \in 1 .. Len(old) + Len(found) :
          (old \o found)[k] = IF k <= Len(old) THEN old[k] ELSE found[k - Len(old)]
    BY <1>6, <2>2, ConcatProperties
  <2>5. n \in Nat
    BY <2>2, LenProperties
  <2> QED
    BY <1>4, <2>1, <2>2, <2>3, <2>4, <2>5
<1>9. /\ \A k \in 1 .. n : k \in 1 .. Len(all) /\ all[k] = reconcile.exceptions[k]
      /\ \A k \in 1 .. Len(all) : k \in 1 .. n \/ (k - n \in 1 .. Len(unsettled) /\ all[k] = found[k - n])
      /\ \A j \in 1 .. Len(unsettled) : n + j \in 1 .. Len(all) /\ all[n + j] = found[j]
  <2>1. \A k \in 1 .. n : k \in 1 .. n + Len(unsettled) /\ k <= n
    BY <1>2, <1>8
  <2>2. \A k \in 1 .. n + Len(unsettled) :
          k \in 1 .. n \/ (k - n \in 1 .. Len(unsettled) /\ ~ (k <= n))
    BY <1>2, <1>8
  <2>3. \A j \in 1 .. Len(unsettled) :
          n + j \in 1 .. n + Len(unsettled) /\ ~ (n + j <= n) /\ (n + j) - n = j
    BY <1>2, <1>8
  <2> QED
    BY <1>8, <2>1, <2>2, <2>3
<1>10. /\ IsSeq(all) /\ DOMAIN all = 1 .. Len(all) /\ Len(all) \in Nat /\ n <= Len(all)
       /\ DOMAIN reconcile.exceptions = 1 .. n
  BY <1>2, <1>5, <1>7, <1>8, LenProperties DEF IsSeq
<1>11. Grown(reconcile.exceptions, reconcile.exceptions')
  BY <1>7, <1>8, <1>9, <1>10 DEF Grown, AgentShape
<1> HIDE DEF Found
<1>12. ASSUME NEW k \in 1 .. Len(all), k \notin 1 .. n
       PROVE  all[k].kind = "unsettled"
  <2>1. PICK j : j = k - n
    OBVIOUS
  <2>2. j \in 1 .. Len(unsettled) /\ all[k] = found[j]
    BY <1>9, <1>12, <2>1
  <2> QED
    BY <1>4, <2>2
<1>13. "unsettled" \notin BatchKinds
  BY DEF BatchKinds
<1>14. AgentShape'
  BY <1>0, <1>7, <1>9, <1>10, <1>12, <1>13, SMTT(30) DEF AgentShape
<1>15. \A kinds \in SUBSET BatchKinds : \A b : Excepted(b, kinds)' <=> Excepted(b, kinds)
  BY <1>7, <1>9, <1>10, <1>12, <1>13, SMTT(30) DEF Excepted
<1>16. ASSUME NEW p \in PaymentSet, p \notin gone
       PROVE  Excepted(p, {"unsettled"})'
  <2>1. PICK k \in 1 .. Len(captured_payments) : captured_payments[k] = p
    BY CapturedIs, LenProperties DEF PaymentSet
  <2>2. PICK j \in 1 .. Len(unsettled) : unsettled[j] = p
    BY <1>2, <1>16, <2>1
  <2>3. all[n + j].kind = "unsettled" /\ all[n + j].reference = p /\ n + j \in DOMAIN all
    BY <1>4, <1>9, <1>10, <2>2
  <2> QED
    BY <1>7, <2>3 DEF Excepted
<1> QED
  BY <1>0, <1>3, <1>11, <1>14, <1>15, <1>16

LEMMA ReconciledStep == Month /\ Reconciled /\ [ReplayNext]_replayVars => Reconciled'
<1> SUFFICES ASSUME Month, Reconciled, [ReplayNext]_replayVars
             PROVE  Reconciled'
  OBVIOUS
<1>0. /\ AgentShape /\ KeysKnown /\ BatchRows /\ OncePerBatch /\ Checked
      /\ Timetable /\ DOMAIN mem = CounterNames /\ seen \subseteq PaymentSet
  BY DEF Reconciled, Month, Queues
<1>1. CASE CheckBatch
  <2>1. PICK s, req, row : ReconcilerAsks(s, req, row)
    BY <1>1, ReconcilerAsksIs
  <2> QED
    BY <2>1, BatchChecked
<1>2. CASE Close
  <2>1. log' = log /\ mem' = mem /\ reconcile' = Swept(reconcile, captured_payments, Tomorrow)
    BY <1>2 DEF Close, Finish
  <2>2. /\ AgentShape'
        /\ reconcile.seen' = reconcile.seen /\ reconcile.claimed_by' = reconcile.claimed_by
        /\ Grown(reconcile.exceptions, reconcile.exceptions')
        /\ \A kinds \in SUBSET BatchKinds : \A b : Excepted(b, kinds)' <=> Excepted(b, kinds)
    BY <1>0, <2>1, SweptIs
  <2>3. KeysKnown' /\ BatchRows' /\ OncePerBatch'
    BY <1>0, <2>1, <2>2 DEF KeysKnown, BatchRows, OncePerBatch
  <2>4. {"duplicate_payment"} \in SUBSET BatchKinds /\ BatchKinds \in SUBSET BatchKinds
    BY DEF BatchKinds
  <2>5. \A s, k : AsMatched(s, k) \/ AsHanded(s, k) => AsMatched(s, k)' \/ AsHanded(s, k)'
    BY <2>1, <2>2, <2>4 DEF AsMatched, AsHanded, ClaimedBy
  <2>6. Checked'
    BY <1>0, <2>1, <2>2, <2>5 DEF Checked
  <2> QED
    BY <2>2, <2>3, <2>6 DEF Reconciled
\* One request of somebody else's, and its decision.
<1>3. ASSUME NEW req, NEW row, NEW m, DOMAIN m = CounterNames, m.used_keys = mem.used_keys,
             mem' = Count(m, row), row.req = req,
             Grown(log, log'), reconcile' = reconcile,
             \A k \in 1 .. Len(log') :
               k \in 1 .. Len(log) \/ log'[k].type # "decision" \/ log'[k] = row,
             req.settlement = None, req.action # "match_settlement",
             \A s \in DOMAIN Settlements, action \in {"match_settlement", "escalate_to_human"} :
               req.key # <<s, action>>
      PROVE  Reconciled'
  <2>0. Count(m, row).used_keys =
          IF row.verdict = "allow" THEN m.used_keys \cup ({row.req.key} \ {None}) ELSE m.used_keys
    BY <1>3, CountIs
  <2>1. mem'.used_keys \subseteq mem.used_keys \cup {req.key}
    BY <1>3, <2>0
  <2>2. \A s \in DOMAIN Settlements, action \in {"match_settlement", "escalate_to_human"} :
          <<s, action>> \in mem'.used_keys => <<s, action>> \in mem.used_keys
    BY <1>3, <2>1
  <2>3. \A k \in 1 .. Len(log') :
          \/ k \in 1 .. Len(log)
          \/ log'[k].type # "decision"
          \/ log'[k].req.settlement = None /\ log'[k].req.action # "match_settlement"
    BY <1>3
  <2> QED
    BY <1>3, <2>2, <2>3, ReconcilerUndisturbed
<1>4. CASE Ask /\ WorkInvoice
  <2>1. PICK req, row : ChaseAsks(req, row)
    BY <1>0, <1>4, ChaseAsksIs
  <2>2. PICK i, n : req.key = <<i, n, req.action>>
    BY <2>1 DEF ChaseAsks
  <2>3. \A s, action : req.key # <<s, action>>
    BY <2>2
  <2>4. /\ mem' = Count(mem, row) /\ row.req = req /\ Grown(log, log') /\ req.settlement = None
        /\ req.action # "match_settlement"
        /\ reconcile' = reconcile
        /\ \A k \in 1 .. Len(log') :
             k \in 1 .. Len(log) \/ log'[k].type # "decision" \/ log'[k] = row
    BY <1>4, <2>1, RequestRowIs, OthersActions DEF ChaseAsks, Submitted, WorkInvoice, reconcileVars
  <2> QED
    BY <1>0, <1>3, <2>3, <2>4
<1>5. \A action : action \in RISK_ACTIONS =>
        action \notin {"match_settlement", "escalate_to_human"}
  BY DEF RISK_ACTIONS
<1>6. CASE Screen
  <2>1. PICK p, req, row : RiskAsks(p, req, row)
    BY <1>6, RiskAsksIs
  <2>2. /\ p \in PaymentSet /\ req = Opinion[p] /\ req.action # None /\ reconcile' = reconcile
        /\ mem' = Count(mem, row) /\ row.req = req /\ Grown(log, log')
        /\ \A k \in 1 .. Len(log') :
             k \in 1 .. Len(log) \/ log'[k].type # "decision" \/ log'[k] = row
    BY <2>1, RequestRowIs DEF RiskAsks, Submitted
  <2>3. /\ req.settlement = None /\ req.action \in RISK_ACTIONS
        /\ req.key = <<p, req.action>>
    BY <2>2, OpinionIs
  <2>4. \A s, action : req.key = <<s, action>> => req.action = action
    BY <2>3
  <2> QED
    BY <1>0, <1>3, <1>5, <2>2, <2>3, <2>4
<1>7. CASE SignBlock
  <2>1. PICK req, row : Resubmitted(req, row)
    BY <1>7, ResubmittedIs
  <2>2. PICK m : m = Sign(mem, req.id)
    OBVIOUS
  <2>3. DOMAIN m = CounterNames /\ m.used_keys = mem.used_keys
    BY <1>0, <2>2, SignIs
  <2>4. /\ req \in Opinions /\ reconcile' = reconcile
        /\ mem' = Count(m, row) /\ row.req = req /\ Grown(log, log')
        /\ \A k \in 1 .. Len(log') :
             k \in 1 .. Len(log) \/ log'[k].type # "decision" \/ log'[k] = row
    BY <2>1, <2>2, RequestRowIs DEF Resubmitted, HumanRow
  <2>5. /\ req.settlement = None /\ req.action \in RISK_ACTIONS
        /\ req.key = <<req.payment, req.action>>
    BY <1>0, <2>4, OpinionsAre
  <2>6. \A s, action : req.key = <<s, action>> => req.action = action
    BY <2>5
  <2> QED
    BY <1>3, <1>5, <2>3, <2>4, <2>5, <2>6
<1>8. CASE Followed /\ reconcile' = reconcile
  BY <1>8, ReconcilerUndisturbed DEF Followed
<1>9. ((DeclineBlock \/ BeginReplayDay \/ PassOver \/ ResolvePayment \/ ResolveInvoice)
         \/ (WorkInvoice /\ LeaveAlone) \/ UNCHANGED replayVars)
        => Followed /\ reconcile' = reconcile
  BY FollowedIs DEF DeclineBlock, BeginReplayDay, PassOver, ResolvePayment, ResolveInvoice,
     WorkInvoice, replayVars, reconcileVars
<1>10. WorkInvoice => (Ask /\ WorkInvoice) \/ (WorkInvoice /\ LeaveAlone)
  BY DEF WorkInvoice
<1>11. \/ SignBlock \/ (Ask /\ WorkInvoice) \/ Screen \/ CheckBatch \/ Close
       \/ (Followed /\ reconcile' = reconcile)
  <2>1. CASE ReplayNext
    BY <1>9, <1>10, <2>1 DEF ReplayNext
  <2>2. CASE UNCHANGED replayVars
    BY <1>9, <2>2
  <2> QED
    BY <2>1, <2>2
<1> QED
  BY <1>1, <1>2, <1>4, <1>6, <1>7, <1>8, <1>11

\* A decision about a batch is the one the agent's books speak of.
LEMMA RowOfBatch ==
  ASSUME Month, Reconciled, NEW k \in DOMAIN log, log[k].type = "decision",
         log[k].req.settlement # None
  PROVE  /\ log[k].req.settlement \in reconcile.seen
         /\ AsMatched(log[k].req.settlement, k) \/ AsHanded(log[k].req.settlement, k)
<1>1. k \in 1 .. Len(log)
  BY SeqShape DEF Month, Timetable, Answers
<1>2. PICK s : s = log[k].req.settlement
  OBVIOUS
<1>3. s \in reconcile.seen
  BY <1>1, <1>2 DEF Reconciled, BatchRows
<1>4. PICK j \in 1 .. Len(log) : AsMatched(s, j) \/ AsHanded(s, j)
  BY <1>3 DEF Reconciled, Checked
<1>5. log[j].type = "decision" /\ log[j].req.settlement = s
  BY <1>4 DEF AsMatched, AsHanded, BatchRequest
<1>6. j = k
  BY <1>1, <1>2, <1>5 DEF Reconciled, OncePerBatch
<1> QED
  BY <1>2, <1>3, <1>4, <1>6

\* A row that books a batch is about one, and it is the row of that batch.
LEMMA MatchRowIs ==
  ASSUME Month, Reconciled, NEW k \in MatchRows
  PROVE  /\ k \in 1 .. Len(log)
         /\ log[k].req.settlement \in reconcile.seen
         /\ AsMatched(log[k].req.settlement, k)
<1>1. /\ k \in DOMAIN log /\ log[k].type = "decision"
      /\ log[k].req.action = "match_settlement"
  BY DEF MatchRows, Decisions
<1>2. k \in 1 .. Len(log)
  BY <1>1, SeqShape DEF Month, Timetable, Answers
<1>3. log[k].req.settlement # None
  <2>1. log[k].req.settlement \in reconcile.seen \/ log[k].req.action # "match_settlement"
    BY <1>1, <1>2 DEF Reconciled, BatchRows
  <2> QED
    BY <1>1, <2>1, ListsAssumption DEF Reconciled, AgentShape
<1>4. /\ log[k].req.settlement \in reconcile.seen
      /\ AsMatched(log[k].req.settlement, k) \/ AsHanded(log[k].req.settlement, k)
  BY <1>1, <1>3, RowOfBatch
<1>5. ~AsHanded(log[k].req.settlement, k)
  BY <1>1 DEF AsHanded, BatchRequest
<1> QED
  BY <1>2, <1>4, <1>5

\* No payment is matched to two of the bank's batches, whatever their order and
\* whatever they list: only the agent's claims see to it (reconcile.py:110-135).
THEOREM ReplayNoPaymentMatchedTwice == ReplaySpec => []NoPaymentMatchedTwice
<1>1. Month /\ Reconciled => NoPaymentMatchedTwice
  <2> SUFFICES ASSUME Month, Reconciled, NEW j \in MatchRows, NEW k \in MatchRows,
                      Listed(log[j].req.settlement) \cap Listed(log[k].req.settlement) # {}
               PROVE  j = k
    BY DEF NoPaymentMatchedTwice
  <2>1. PICK s, t : s = log[j].req.settlement /\ t = log[k].req.settlement
    OBVIOUS
  <2>2. /\ j \in 1 .. Len(log) /\ s \in reconcile.seen /\ AsMatched(s, j)
        /\ k \in 1 .. Len(log) /\ t \in reconcile.seen /\ AsMatched(t, k)
    BY <2>1, MatchRowIs
  <2>3. PICK p : p \in Listed(s) /\ p \in Listed(t)
    BY <2>1
  <2>4. s = t
    BY <2>2, <2>3 DEF AsMatched, ClaimedBy
  <2>5. /\ log[j].type = "decision" /\ log[k].type = "decision" /\ s # None
        /\ log[j].req.settlement = log[k].req.settlement
    BY <2>1, <2>2, <2>4, ListsAssumption DEF AsMatched, Reconciled, AgentShape
  <2> QED
    BY <2>1, <2>2, <2>5 DEF Reconciled, OncePerBatch
<1> QED
  BY <1>1, MonthInit, MonthStep, ReconciledInit, ReconciledStep, PTL DEF ReplaySpec

\* The agent asks to match what the rulebook, which sums for itself, accepts, and
\* hands over with one exception what it would not or what is claimed already:
\* the two sums agree for every record of the bank's (reconcile.py:7-18).
THEOREM ReplayReconcilerAgrees == ReplaySpec => []ReconcilerAgrees
<1>1. Month /\ Reconciled => ReconcilerAgrees
  <2> SUFFICES ASSUME Month, Reconciled, NEW s \in reconcile.seen
               PROVE  LET matched == \E k \in MatchRows : log[k].req.settlement = s
                          handed  == \E k \in Decisions("allow") :
                                       log[k].req = BatchRequest(s, "escalate_to_human")
                      IN  /\ matched # handed
                          /\ matched => Accepted(s)
                          /\ handed => ~Accepted(s) \/ Excepted(s, {"duplicate_payment"})
                          /\ handed <=> Excepted(s, {"unknown_payment", "duplicate_payment",
                                                     "amount_mismatch"})
    BY DEF ReconcilerAgrees
  <2> DEFINE matched == \E k \in MatchRows : log[k].req.settlement = s
             handed  == \E k \in Decisions("allow") : log[k].req = BatchRequest(s, "escalate_to_human")
  <2>1. s \in DOMAIN Settlements /\ s # None
    BY ListsAssumption DEF Reconciled, AgentShape
  <2>2. Accepted(s) <=> Fits(s)
    BY <2>1, AcceptedIs
  <2>3. PICK k \in 1 .. Len(log) : AsMatched(s, k) \/ AsHanded(s, k)
    BY DEF Reconciled, Checked
  <2>4. /\ k \in DOMAIN log /\ log[k].type = "decision" /\ log[k].verdict = "allow"
        /\ log[k].req.settlement = s
    BY <2>3, SeqShape DEF AsMatched, AsHanded, BatchRequest, Month, Timetable, Answers
  <2>5. \A j \in Decisions("allow") : log[j].req.settlement = s => j = k
    <3>1. \A j \in Decisions("allow") : j \in 1 .. Len(log) /\ log[j].type = "decision"
      BY SeqShape DEF Decisions, Month, Timetable, Answers
    <3> QED
      BY <2>1, <2>4, <3>1 DEF Reconciled, OncePerBatch
  <2>6. \A action : BatchRequest(s, action).settlement = s /\ BatchRequest(s, action).action = action
    BY DEF BatchRequest
  <2>7. MatchRows \subseteq Decisions("allow")
    BY DEF MatchRows
  <2>8. k \in Decisions("allow")
    BY <2>4 DEF Decisions
  <2>9. CASE AsMatched(s, k)
    <3>1. log[k].req.action = "match_settlement" /\ Fits(s) /\ ~Excepted(s, BatchKinds)
      BY <2>6, <2>9 DEF AsMatched
    <3>2. matched
      BY <2>4, <2>8, <3>1 DEF MatchRows
    <3>3. ~handed
      BY <2>5, <2>6, <3>1
    <3> QED
      BY <2>2, <3>1, <3>2, <3>3 DEF BatchKinds
  <2>10. CASE AsHanded(s, k)
    <3>1. /\ log[k].req = BatchRequest(s, "escalate_to_human")
          /\ log[k].req.action = "escalate_to_human" /\ Excepted(s, BatchKinds)
          /\ ~Fits(s) \/ Excepted(s, {"duplicate_payment"})
      BY <2>6, <2>10 DEF AsHanded
    <3>2. handed
      BY <2>8, <3>1
    <3>3. ~matched
      BY <2>5, <2>7, <3>1 DEF MatchRows
    <3> QED
      BY <2>2, <3>1, <3>2, <3>3 DEF BatchKinds
  <2> QED
    BY <2>3, <2>9, <2>10
<1> QED
  BY <1>1, MonthInit, MonthStep, ReconciledInit, ReconciledStep, PTL DEF ReplaySpec
-----------------------------------------------------------------------------
(* The sweep: what is in no batch is reported.                               *)

Unbatched(p) == \A s \in DOMAIN Settlements : p \notin Listed(s)

SweepDone ==
  day = Days + 1 =>
    \A p \in PaymentSet :
      Payments[p].created + UNSETTLED_AFTER <= Now /\ Unbatched(p) => Excepted(p, {"unsettled"})

\* The list of exceptions only grows, and the day passes only at the two ends.
LEMMA ExceptionsGrow ==
  ASSUME Month, Reconciled, ReplayNext, ~Close
  PROVE  /\ Grown(reconcile.exceptions, reconcile.exceptions')
         /\ day' = day \/ (day < Days /\ day' = day + 1)
<1>1. IsSeq(reconcile.exceptions)
  BY DEF Reconciled, AgentShape
<1>2. CASE CheckBatch
  <2>1. PICK s, req, row : ReconcilerAsks(s, req, row)
    BY <1>2, ReconcilerAsksIs
  <2>2. /\ AgentShape /\ s \in DOMAIN Settlements /\ s \notin reconcile.seen
        /\ reconcile' = Examined(reconcile, s) /\ day' = day
    BY <2>1 DEF ReconcilerAsks, chaseVars, Reconciled
  <2>3. Grown(reconcile.exceptions, reconcile.exceptions')
    BY <2>2, ExaminedIs
  <2> QED
    BY <2>2, <2>3
<1>3. CASE BeginReplayDay
  <2>1. reconcile' = reconcile /\ day < Days /\ day' = day + 1
    BY <1>3 DEF BeginReplayDay, BeginDay
  <2> QED
    BY <1>1, <2>1, SameGrown
<1>4. CASE ~CheckBatch /\ ~BeginReplayDay
  <2>1. reconcile' = reconcile /\ day' = day
    BY <1>4 DEF ReplayNext, SignBlock, DeclineBlock, WorkInvoice, ResolveInvoice, PassOver, Screen,
       ResolvePayment, reconcileVars, vars, LeaveAlone, Ask, Overlook, Resolve
  <2> QED
    BY <1>1, <2>1, SameGrown
<1> QED
  BY <1>2, <1>3, <1>4

LEMMA SweepInit == ReplayInit => SweepDone
<1>1. Days \in Nat
  BY RunsAssumption
<1> QED
  BY <1>1 DEF ReplayInit, Init, SweepDone

LEMMA SweepStep == Month /\ Reconciled /\ SweepDone /\ [ReplayNext]_replayVars => SweepDone'
<1> SUFFICES ASSUME Month, Reconciled, SweepDone, [ReplayNext]_replayVars
             PROVE  SweepDone'
  OBVIOUS
<1>0. Days \in Nat /\ day \in Nat
  BY RunsAssumption DEF Month, Timetable, Calendar
<1>1. CASE Close
  <2>1. /\ AgentShape /\ reconcile' = Swept(reconcile, captured_payments, Tomorrow)
        /\ day = Days /\ day' = Days + 1
    BY <1>1 DEF Close, Finish, Reconciled
  <2>2. Now' = Tomorrow /\ Tomorrow \in Int
    BY <1>0, <2>1 DEF Now, Tomorrow
  <2>3. ASSUME NEW p \in PaymentSet, Payments[p].created + UNSETTLED_AFTER <= Tomorrow, Unbatched(p)
        PROVE  Excepted(p, {"unsettled"})'
    <3>1. Payments[p].created \in Int
      BY CapturedIs, BankAssumption
    <3>2. ~InFlight(p, Tomorrow)
      BY <2>2, <2>3, <3>1 DEF InFlight, UNSETTLED_AFTER
    <3> QED
      BY <2>1, <2>3, <3>2, SweptIs DEF Unbatched
  <2> QED
    BY <2>2, <2>3 DEF SweepDone
<1>2. CASE ReplayNext /\ ~Close
  <2>1. /\ Grown(reconcile.exceptions, reconcile.exceptions')
        /\ day' = day \/ (day < Days /\ day' = day + 1)
    BY <1>2, ExceptionsGrow
  <2>2. day' = Days + 1 => day = Days + 1 /\ Now' = Now
    BY <1>0, <2>1 DEF Now
  <2> QED
    BY <2>1, <2>2, ExceptedStays DEF SweepDone
<1>3. CASE UNCHANGED replayVars
  <2>1. day' = day /\ reconcile' = reconcile
    BY <1>3 DEF replayVars, vars
  <2> QED
    BY <2>1 DEF SweepDone, Excepted, Now
<1> QED
  BY <1>1, <1>2, <1>3

\* At the end no captured money is simply forgotten, for every dataset, every
\* ground truth and any number of days: a payment three days old is in a batch
\* that was matched or handed over, or is reported unsettled, or the bank's list
\* has it in a batch dated outside the run (reconcile.py:200-226).
THEOREM ReplayMoneyAccounted == ReplaySpec => []MoneyAccounted
<1>1. Month /\ Reconciled /\ SweepDone => MoneyAccounted
  <2> SUFFICES ASSUME Month, Reconciled, SweepDone, day = Days + 1, NEW p \in PaymentSet,
                      Payments[p].created + UNSETTLED_AFTER <= Now,
                      NEW s \in DOMAIN Settlements, p \in Listed(s), s \in reconcile.seen
               PROVE  \/ \E k \in MatchRows : log[k].req.settlement = s
                      \/ Excepted(s, {"unknown_payment", "duplicate_payment", "amount_mismatch"})
    BY DEF MoneyAccounted, SweepDone, Unbatched
  <2>1. PICK k \in 1 .. Len(log) : AsMatched(s, k) \/ AsHanded(s, k)
    BY DEF Reconciled, Checked
  <2>2. DOMAIN log = 1 .. Len(log)
    BY SeqShape DEF Month, Timetable, Answers
  <2>3. AsMatched(s, k) => k \in MatchRows /\ log[k].req.settlement = s
    BY <2>2 DEF AsMatched, MatchRows, Decisions, BatchRequest
  <2>4. AsHanded(s, k) =>
          Excepted(s, {"unknown_payment", "duplicate_payment", "amount_mismatch"})
    BY DEF AsHanded, BatchKinds
  <2> QED
    BY <2>1, <2>3, <2>4
<1> QED
  BY <1>1, MonthInit, MonthStep, ReconciledInit, ReconciledStep, SweepInit, SweepStep, PTL
     DEF ReplaySpec
-----------------------------------------------------------------------------
(* A night between the escalation of a large block and its permission.       *)

Escalated(req, at) ==
  \E j \in 1 .. Len(log) :
    /\ log[j].type = "decision" /\ log[j].verdict = "needs_human"
    /\ log[j].req = req /\ log[j].at = at

IsLarge(row) ==
  /\ row.type = "decision" /\ row.verdict = "allow"
  /\ row.req.action = "block_order" /\ row.req.amount > BLOCK_HUMAN_THRESHOLD_PAISE

Waited(k) ==
  /\ approves_block(fate, log[k].req)
  /\ SignatureBefore(k)
  /\ Escalated(log[k].req, log[k].at - 24)

\* Who was signed for had been judged before, and the queue is of one day.
SignedWereSeen == \A id \in mem.approved : \E p \in seen : id = <<p, "risk">>

QueueOfToday == day <= Days => \A k \in 1 .. Len(blocks) : Escalated(blocks[k], Now)

LargeWaited == \A k \in 1 .. Len(log) : IsLarge(log[k]) => Waited(k)

Nights == SignedWereSeen /\ QueueOfToday /\ LargeWaited

\* Without a signature a large block is not allowed, whatever else is known.
LEMMA LargeIsSigned ==
  ASSUME NEW m, NEW b, NEW req, NEW at, IsLarge(Decided(m, b, req, at))
  PROVE  req.id \in m.approved
<1> DEFINE ctx == build_context(m, b, req, at)
<1>1. /\ Decided(m, b, req, at).req = req
      /\ Decided(m, b, req, at).verdict = Judgement(req, ctx)
  BY DEF Decided, DecisionRow
<1>2. ctx.human_approved <=> req.id \in m.approved
  BY DEF build_context
<1> HIDE DEF ctx
<1>3. /\ Judgement(req, ctx) = "allow"
      /\ req.action = "block_order" /\ req.amount > BLOCK_HUMAN_THRESHOLD_PAISE
  BY <1>1 DEF IsLarge
<1>4. r14_block_ceiling(req, ctx) # "needs_human"
  BY <1>3, AllowMeansNobodyObjects
<1>5. req.amount # 0
  BY <1>3, ThresholdsAssumption
<1>6. AmountOr(req, ctx.payment) > BLOCK_HUMAN_THRESHOLD_PAISE
  BY <1>3, <1>5 DEF AmountOr
<1> QED
  BY <1>2, <1>3, <1>4, <1>6 DEF r14_block_ceiling

LEMMA EscalatedStays ==
  ASSUME Grown(log, log'), NEW req, NEW at, Escalated(req, at)
  PROVE  Escalated(req, at)'
BY DEF Escalated, Grown

\* Old rows have waited as long as they had; new ones are to be looked at.
LEMMA WaitedStays ==
  ASSUME LargeWaited, Grown(log, log'), fate' = fate,
         \A k \in 1 .. Len(log') : k \in 1 .. Len(log) \/ ~IsLarge(log'[k]) \/ Waited(k)'
  PROVE  LargeWaited'
<1>0. Len(log) \in Nat /\ \A k \in 1 .. Len(log) : k \in 1 .. Len(log') /\ log'[k] = log[k]
  BY DEF Grown
<1>1. ASSUME NEW k \in 1 .. Len(log), IsLarge(log'[k])
      PROVE  Waited(k)'
  <2>1. log'[k] = log[k] /\ Waited(k)
    BY <1>0, <1>1 DEF LargeWaited
  <2>2. PICK j \in 1 .. k - 1 : log[j] = HumanRow("human_approval", log[k].req.id)
    BY <2>1 DEF Waited, SignatureBefore
  <2>3. j \in 1 .. Len(log)
    BY <1>0
  <2>4. SignatureBefore(k)'
    BY <1>0, <2>1, <2>2, <2>3 DEF SignatureBefore
  <2>5. PICK at : at = log[k].at - 24 /\ Escalated(log[k].req, at)
    BY <2>1 DEF Waited
  <2>6. Escalated(log[k].req, log[k].at - 24)'
    BY <2>1, <2>5, <1>0, EscalatedStays DEF Escalated
  <2> QED
    BY <2>1, <2>4, <2>6 DEF Waited
<1> QED
  BY <1>1 DEF LargeWaited, IsLarge

LEMMA NightsInit == ReplayInit => Nights
<1> SUFFICES ASSUME ReplayInit
             PROVE  Nights
  OBVIOUS
<1>1. Len(log) = 0 /\ Len(blocks) = 0 /\ mem.approved = {}
  BY NoSeq DEF ReplayInit, Init, Unused, NoCounts
<1> QED
  BY <1>1 DEF Nights, SignedWereSeen, QueueOfToday, LargeWaited

LEMMA NightsStep == Month /\ Nights /\ [ReplayNext]_replayVars => Nights'
<1> SUFFICES ASSUME Month, Nights, [ReplayNext]_replayVars
             PROVE  Nights'
  OBVIOUS
<1>0. /\ Timetable /\ DOMAIN mem = CounterNames /\ seen \subseteq PaymentSet
      /\ IsSeq(judged) /\ (\A k \in 1 .. Len(judged) : IsRuling(judged[k]))
      /\ IsSeq(blocks) /\ (\A k \in 1 .. Len(blocks) : blocks[k] \in Opinions)
      /\ SignedWereSeen /\ QueueOfToday /\ LargeWaited
      /\ day \in Nat /\ Days \in Nat /\ Tomorrow - 24 = Now
  BY NowIs, RunsAssumption DEF Month, Queues, Nights, Timetable, Calendar
<1>f. fate' = fate /\ seen \subseteq seen'
  BY DEF ReplayNext, SignBlock, DeclineBlock, BeginReplayDay, WorkInvoice, ResolveInvoice,
         PassOver, Screen, ResolvePayment, CheckBatch, Close, replayVars, riskVars
<1>s. mem'.approved \subseteq mem.approved => SignedWereSeen'
  BY <1>0, <1>f DEF SignedWereSeen
\* The queue as it was, or without its first.
<1>q. ASSUME Grown(log, log'), day' = day,
             blocks' = blocks \/ (blocks # <<>> /\ blocks' = Tail(blocks))
      PROVE  QueueOfToday'
  <2>1. \A k \in 1 .. Len(blocks') : \E j \in 1 .. Len(blocks) : blocks'[k] = blocks[j]
    <3>1. CASE blocks' = blocks
      BY <3>1
    <3>2. CASE blocks # <<>> /\ blocks' = Tail(blocks)
      <4>1. \A k \in 1 .. Len(Tail(blocks)) :
              Tail(blocks)[k] = blocks[k + 1] /\ k + 1 \in 1 .. Len(blocks)
        BY <1>0, <3>2, RestOf
      <4> QED
        BY <3>2, <4>1
    <3> QED
      BY <1>q, <3>1, <3>2
  <2>2. Now' = Now
    BY <1>q DEF Now
  <2>3. ASSUME day <= Days, NEW k \in 1 .. Len(blocks')
        PROVE  Escalated(blocks[k], Now)'
    <3>1. PICK req : req = blocks'[k]
      OBVIOUS
    <3>2. Escalated(req, Now)
      BY <1>0, <2>1, <2>3, <3>1 DEF QueueOfToday
    <3>3. PICK at : at = Now
      OBVIOUS
    <3>4. Escalated(req, at)'
      BY <1>q, <3>2, <3>3, EscalatedStays
    <3> QED
      BY <2>2, <3>1, <3>3, <3>4 DEF Escalated
  <2> QED
    BY <1>q, <2>3 DEF QueueOfToday
<1>1. CASE SignBlock
  <2>1. PICK req, row : Resubmitted(req, row)
    BY <1>1, ResubmittedIs
  <2>2. /\ req \in Opinions /\ blocks # <<>> /\ req = Head(blocks) /\ blocks' = Tail(blocks)
        /\ day < Days /\ day' = day /\ approves_block(fate, req)
        /\ Grown(log, log')
        /\ mem' = Count(Sign(mem, req.id), row)
        /\ row.req = req /\ row.at = Tomorrow
    BY <2>1 DEF Resubmitted, chaseVars
  <2>3. SignedWereSeen'
    <3>1. mem'.approved = mem.approved \cup {req.id}
      <4>1. PICK m : m = Sign(mem, req.id)
        OBVIOUS
      <4>2. DOMAIN m = CounterNames /\ m.approved = mem.approved \cup {req.id}
        BY <1>0, <4>1, SignIs
      <4>3. Count(m, row).approved = m.approved
        BY <4>2, CountIs
      <4> QED
        BY <2>2, <4>1, <4>2, <4>3
    <3>2. req.payment \in seen /\ req.id = <<req.payment, "risk">>
      BY <1>0, <2>2, OpinionsAre
    <3> QED
      BY <1>0, <1>f, <3>1, <3>2 DEF SignedWereSeen
  <2>4. Escalated(req, Now)
    <3>1. Head(blocks) = blocks[1] /\ 1 \in 1 .. Len(blocks)
      BY <1>0, <2>2, RestOf
    <3>2. day <= Days
      BY <1>0, <2>2
    <3> QED
      BY <1>0, <2>2, <3>1, <3>2 DEF QueueOfToday
  <2>5. PICK last : last = Len(log) + 3
    OBVIOUS
  <2>6. Len(log) \in Nat
    BY <2>2 DEF Grown
  <2>7. /\ log'[last] = row
        /\ Len(log) + 1 \in 1 .. last - 1
        /\ log'[Len(log) + 1] = HumanRow("human_approval", req.id)
    BY <2>1, <2>5, <2>6 DEF Resubmitted
  <2>8. Waited(last)'
    <3>1. SignatureBefore(last)'
      BY <2>2, <2>7 DEF SignatureBefore
    <3>2. PICK at : at = Now
      OBVIOUS
    <3>3. Escalated(req, at)' /\ log'[last].at - 24 = at
      BY <1>0, <2>2, <2>4, <2>7, <3>2, EscalatedStays
    <3>4. Escalated(log[last].req, log[last].at - 24)'
      BY <2>2, <2>7, <3>3 DEF Escalated
    <3> QED
      BY <1>f, <2>2, <2>7, <3>1, <3>4 DEF Waited
  <2>9. \A k \in 1 .. Len(log') : k \in 1 .. Len(log) \/ ~IsLarge(log'[k]) \/ Waited(k)'
    <3>1. ASSUME NEW k \in 1 .. Len(log'), k \notin 1 .. Len(log), k # last
          PROVE  ~IsLarge(log'[k])
      <4>1. log'[k].type # "decision"
        BY <2>1, <2>5, <3>1 DEF Resubmitted, HumanRow, RequestRow
      <4> QED
        BY <4>1 DEF IsLarge
    <3> QED
      BY <2>8, <3>1
  <2> QED
    BY <1>0, <1>f, <1>q, <2>2, <2>3, <2>9, WaitedStays DEF Nights
<1>2. CASE Screen
  <2>1. PICK p, req, row : RiskAsks(p, req, row)
    BY <1>2, RiskAsksIs
  <2>2. /\ p \in PaymentSet /\ p \notin seen /\ req = Opinion[p] /\ day' = day /\ blocks' = blocks
        /\ row = Decided(mem, books, req, Now)
        /\ row.req = req /\ Grown(log, log') /\ mem' = Count(mem, row)
        /\ log'[Len(log) + 1] = RequestRow(req) /\ log'[Len(log) + 2] = row
        /\ \A k \in 1 .. Len(log') : k \in 1 .. Len(log) \/ k = Len(log) + 1 \/ k = Len(log) + 2
    BY <2>1 DEF RiskAsks, Submitted, chaseVars
  <2>3. ~IsLarge(row)
    <3>1. req.id = <<p, "risk">>
      BY <2>2, OpinionIs
    <3>2. req.id \notin mem.approved
      BY <1>0, <2>2, <3>1 DEF SignedWereSeen
    <3> QED
      BY <2>2, <3>2, LargeIsSigned
  <2>4. ~IsLarge(RequestRow(req))
    BY DEF IsLarge, RequestRow
  <2>5. \A k \in 1 .. Len(log') : k \in 1 .. Len(log) \/ ~IsLarge(log'[k])
    BY <2>2, <2>3, <2>4
  <2>6. mem'.approved = mem.approved
    BY <1>0, <2>2, CountIs
  <2> QED
    BY <1>0, <1>f, <1>q, <1>s, <2>2, <2>5, <2>6, WaitedStays DEF Nights
<1>3. ASSUME NEW req, NEW row, Submitted(req, row, Now), req.action \notin RISK_ACTIONS,
             blocks' = blocks, day' = day
      PROVE  Nights'
  <2>1. /\ row.req = req /\ Grown(log, log') /\ mem' = Count(mem, row)
        /\ log'[Len(log) + 1] = RequestRow(req) /\ log'[Len(log) + 2] = row
        /\ \A k \in 1 .. Len(log') : k \in 1 .. Len(log) \/ k = Len(log) + 1 \/ k = Len(log) + 2
    BY <1>3 DEF Submitted
  <2>2. ~IsLarge(row) /\ ~IsLarge(RequestRow(req))
    BY <1>3, <2>1 DEF IsLarge, RequestRow, RISK_ACTIONS
  <2>3. \A k \in 1 .. Len(log') : k \in 1 .. Len(log) \/ ~IsLarge(log'[k])
    BY <2>1, <2>2
  <2>4. mem'.approved = mem.approved
    BY <1>0, <2>1, CountIs
  <2> QED
    BY <1>0, <1>3, <1>f, <1>q, <1>s, <2>1, <2>3, <2>4, WaitedStays DEF Nights
<1>4. CASE WorkInvoice /\ Ask
  <2>1. PICK req, row : ChaseAsks(req, row)
    BY <1>0, <1>4, ChaseAsksIs
  <2> QED
    BY <1>3, <1>4, <2>1, OthersActions DEF ChaseAsks, WorkInvoice, riskVars
<1>5. CASE CheckBatch
  <2>1. PICK s, req, row : ReconcilerAsks(s, req, row)
    BY <1>5, ReconcilerAsksIs
  <2> QED
    BY <1>3, <2>1, OthersActions DEF ReconcilerAsks, chaseVars
<1>6. ASSUME Followed, QueueOfToday'
      PROVE  Nights'
  <2>1. \A k \in 1 .. Len(log') : k \in 1 .. Len(log) \/ ~IsLarge(log'[k])
    BY <1>6 DEF Followed, IsLarge
  <2>2. Grown(log, log') /\ mem'.approved = mem.approved
    BY <1>6 DEF Followed
  <2> QED
    BY <1>0, <1>6, <1>f, <1>s, <2>1, <2>2, WaitedStays DEF Nights
<1>7. CASE (WorkInvoice /\ LeaveAlone) \/ ResolveInvoice \/ DeclineBlock \/ PassOver
             \/ UNCHANGED replayVars
  <2>1. Followed
    BY <1>7, FollowedIs
  <2>2. /\ day' = day
        /\ blocks' = blocks \/ (blocks # <<>> /\ blocks' = Tail(blocks))
    BY <1>7 DEF WorkInvoice, LeaveAlone, ResolveInvoice, Overlook, Resolve, DeclineBlock, PassOver,
                replayVars, vars, riskVars, reconcileVars
  <2> QED
    BY <1>6, <1>q, <2>1, <2>2 DEF Followed
<1>8. CASE BeginReplayDay \/ Close
  <2>1. Followed
    BY <1>8, FollowedIs
  <2>2. Len(blocks') = 0 \/ ~ (day' <= Days)
    BY <1>0, <1>8, NoSeq DEF BeginReplayDay, Close, Finish
  <2>3. QueueOfToday'
    BY <2>2 DEF QueueOfToday
  <2> QED
    BY <1>6, <2>1, <2>3
<1>9. CASE ResolvePayment
  <2>1. /\ judged # <<>>
        /\ blocks' = IF Head(judged).verdict = "needs_human"
                       THEN Append(blocks, Head(judged).req) ELSE blocks
        /\ day' = day
    BY <1>9 DEF ResolvePayment
  <2>2. Followed
    BY <1>9, FollowedIs
  <2>3. CASE Head(judged).verdict = "needs_human"
    <3>1. PICK row : row = Head(judged)
      OBVIOUS
    <3>2. IsRuling(row) /\ row.verdict = "needs_human" /\ blocks' = Append(blocks, row.req)
      BY <1>0, <2>1, <2>3, <3>1, RestOf
    <3>3. Escalated(row.req, Now)
      BY <3>2 DEF IsRuling, Escalated
    <3>4. /\ \A k \in 1 .. Len(blocks) : blocks'[k] = blocks[k]
          /\ blocks'[Len(blocks) + 1] = row.req
          /\ \A k \in 1 .. Len(blocks') : k \in 1 .. Len(blocks) \/ k = Len(blocks) + 1
      BY <1>0, <3>2, RowAdded DEF Grown
    <3>5. PICK at : at = Now
      OBVIOUS
    <3>6. ASSUME day <= Days, NEW k \in 1 .. Len(blocks')
          PROVE  Escalated(blocks[k], Now)'
      <4>1. PICK req : req = blocks'[k]
        OBVIOUS
      <4>2. Escalated(req, at)
        BY <1>0, <3>3, <3>4, <3>5, <3>6, <4>1 DEF QueueOfToday
      <4>3. Escalated(req, at)'
        BY <2>2, <4>2, EscalatedStays DEF Followed
      <4>4. Now' = at
        BY <2>1, <3>5 DEF Now
      <4> QED
        BY <4>1, <4>3, <4>4 DEF Escalated
    <3>7. QueueOfToday'
      BY <2>1, <3>6 DEF QueueOfToday
    <3> QED
      BY <1>6, <2>2, <3>7
  <2>4. CASE Head(judged).verdict # "needs_human"
    BY <1>6, <1>q, <2>1, <2>2, <2>4 DEF Followed
  <2> QED
    BY <2>3, <2>4
<1>10. WorkInvoice => (WorkInvoice /\ Ask) \/ (WorkInvoice /\ LeaveAlone)
  BY DEF WorkInvoice
<1> QED
  BY <1>1, <1>2, <1>4, <1>5, <1>7, <1>8, <1>9, <1>10 DEF ReplayNext

\* A large block waits for the night, for every ground truth, every analyst and
\* every dataset: it is allowed the day after it was escalated, on a signature of
\* an analyst who would give it (replay.py:220-235, outcomes.py:336-348).
THEOREM ReplayBlocksWaitANight == ReplaySpec => []BlocksWaitANight
<1>1. Month /\ Nights => BlocksWaitANight
  <2> SUFFICES ASSUME Month, Nights, NEW k \in OnRisk(Decisions("allow")),
                      log[k].req.action = "block_order",
                      log[k].req.amount > BLOCK_HUMAN_THRESHOLD_PAISE
               PROVE  /\ approves_block(fate, log[k].req)
                      /\ SignatureBefore(k)
                      /\ \E j \in Decisions("needs_human") :
                           log[j].req = log[k].req /\ log[j].at = log[k].at - 24
    BY DEF BlocksWaitANight
  <2>1. DOMAIN log = 1 .. Len(log)
    BY SeqShape DEF Month, Timetable, Answers
  <2>2. k \in 1 .. Len(log) /\ IsLarge(log[k])
    BY <2>1 DEF OnRisk, Decisions, IsLarge
  <2>3. Waited(k)
    BY <2>2 DEF Nights, LargeWaited
  <2> QED
    BY <2>1, <2>3 DEF Waited, Escalated, Decisions
<1> QED
  BY <1>1, MonthInit, MonthStep, NightsInit, NightsStep, PTL DEF ReplaySpec
-----------------------------------------------------------------------------
(* The shape of the state.                                                   *)

RiskBooks(payments) ==
  [prevented : Nat, lost_sale : Nat, judged : SUBSET payments, stopped : SUBSET payments]

TallyBooks == [requests : Nat, pending_recovery : Nat, approved : Nat, rejected : Nat]

Shapes == fate \in Fates /\ rsim \in RiskBooks(seen) /\ tally \in TallyBooks

LEMMA ObserveRiskIs ==
  ASSUME NEW payments, NEW r \in RiskBooks(payments), NEW row,
         row.req.payment \in payments, row.req.amount \in Nat, NEW f
  PROVE  ObserveRisk(r, f, row) \in RiskBooks(payments)
<1>1. PICK p, a : p = row.req.payment /\ a = row.req.amount
  OBVIOUS
<1>2. PICK stops \in BOOLEAN : stops <=> Stops(f, row.req)
  OBVIOUS
<1>3. CASE ~HasOutcome(row)
  BY <1>3 DEF ObserveRisk
<1>4. CASE HasOutcome(row)
  <2>1. ObserveRisk(r, f, row) =
          [prevented |-> r.prevented + (IF stops THEN a ELSE 0),
           lost_sale |-> r.lost_sale + (IF ~stops /\ row.req.action = "block_order" THEN a ELSE 0),
           judged    |-> r.judged \cup {p},
           stopped   |-> r.stopped \cup (IF stops THEN {p} ELSE {})]
    BY <1>1, <1>2, <1>4 DEF ObserveRisk
  <2>2. r.judged \cup {p} \in SUBSET payments
        /\ r.stopped \cup (IF stops THEN {p} ELSE {}) \in SUBSET payments
    BY <1>1 DEF RiskBooks
  <2>3. r.prevented + (IF stops THEN a ELSE 0) \in Nat
        /\ r.lost_sale + (IF ~stops /\ row.req.action = "block_order" THEN a ELSE 0) \in Nat
    BY <1>1 DEF RiskBooks
  <2> QED
    BY <2>1, <2>2, <2>3 DEF RiskBooks
<1> QED
  BY <1>3, <1>4

\* A request of the risk agent's carries the payment's own amount.
LEMMA OpinionsAmount ==
  ASSUME seen \subseteq PaymentSet, NEW req \in Opinions
  PROVE  req.amount = Payments[req.payment].amount
<1>1. req.payment \in PaymentSet /\ req = Opinion[req.payment]
  BY OpinionsAre
<1>2. req = RiskRequest(Payments, req.payment)
  BY <1>1, OpinionIs
<1> QED
  BY <1>2 DEF RiskRequest

LEMMA ShapesInit == ReplayInit => Shapes
BY DEF ReplayInit, Shapes, NewRiskSim, RiskBooks, TallyBooks

LEMMA TallyIs ==
  ASSUME NEW t \in TallyBooks
  PROVE  /\ OneMore(t) \in TallyBooks
         /\ OneMore(t) = [requests |-> t.requests + 1, pending_recovery |-> t.pending_recovery,
                          approved |-> t.approved, rejected |-> t.rejected]
         /\ Signed(t) \in TallyBooks
         /\ Signed(t) = [requests |-> t.requests + 1, pending_recovery |-> t.pending_recovery,
                         approved |-> t.approved + 1, rejected |-> t.rejected]
         /\ [OneMore(t) EXCEPT !.pending_recovery = t.pending_recovery + 1] \in TallyBooks
         /\ [t EXCEPT !.rejected = t.rejected + 1] \in TallyBooks
<1>1. /\ t = [requests |-> t.requests, pending_recovery |-> t.pending_recovery,
               approved |-> t.approved, rejected |-> t.rejected]
      /\ t.requests \in Nat /\ t.pending_recovery \in Nat
      /\ t.approved \in Nat /\ t.rejected \in Nat
  BY DEF TallyBooks
<1>2. OneMore(t) = [requests |-> t.requests + 1, pending_recovery |-> t.pending_recovery,
                    approved |-> t.approved, rejected |-> t.rejected]
  BY <1>1 DEF OneMore
<1>3. [t EXCEPT !.approved = t.approved + 1]
        = [requests |-> t.requests, pending_recovery |-> t.pending_recovery,
           approved |-> t.approved + 1, rejected |-> t.rejected]
  BY <1>1
<1>4. Signed(t) = [requests |-> t.requests + 1, pending_recovery |-> t.pending_recovery,
                   approved |-> t.approved + 1, rejected |-> t.rejected]
  <2> DEFINE signed == [t EXCEPT !.approved = t.approved + 1]
  <2>1. signed = [requests |-> t.requests, pending_recovery |-> t.pending_recovery,
                  approved |-> t.approved + 1, rejected |-> t.rejected]
    BY <1>3
  <2>2. Signed(t) = [signed EXCEPT !.requests = signed.requests + 1]
    BY DEF Signed, OneMore
  <2> HIDE DEF signed
  <2> QED
    BY <2>1, <2>2
<1>5. [OneMore(t) EXCEPT !.pending_recovery = t.pending_recovery + 1]
        = [requests |-> t.requests + 1, pending_recovery |-> t.pending_recovery + 1,
           approved |-> t.approved, rejected |-> t.rejected]
  BY <1>2
<1>6. [t EXCEPT !.rejected = t.rejected + 1]
        = [requests |-> t.requests, pending_recovery |-> t.pending_recovery,
           approved |-> t.approved, rejected |-> t.rejected + 1]
  BY <1>1
<1> QED
  BY <1>1, <1>2, <1>4, <1>5, <1>6 DEF TallyBooks

LEMMA TallyFields ==
  ASSUME NEW t \in TallyBooks
  PROVE  /\ OneMore(t).requests = t.requests + 1
         /\ OneMore(t).pending_recovery = t.pending_recovery
         /\ OneMore(t).approved = t.approved /\ OneMore(t).rejected = t.rejected
         /\ Signed(t).requests = t.requests + 1
         /\ Signed(t).pending_recovery = t.pending_recovery
         /\ Signed(t).approved = t.approved + 1 /\ Signed(t).rejected = t.rejected
<1>1. OneMore(t) = [requests |-> t.requests + 1, pending_recovery |-> t.pending_recovery,
                    approved |-> t.approved, rejected |-> t.rejected]
  BY TallyIs
<1>2. Signed(t) = [requests |-> t.requests + 1, pending_recovery |-> t.pending_recovery,
                   approved |-> t.approved + 1, rejected |-> t.rejected]
  BY TallyIs
<1> QED
  BY <1>1, <1>2

LEMMA TallyStep == tally \in TallyBooks /\ [ReplayNext]_replayVars => tally' \in TallyBooks
<1> SUFFICES ASSUME tally \in TallyBooks, [ReplayNext]_replayVars
             PROVE  tally' \in TallyBooks
  OBVIOUS
<1>1. CASE SignBlock \/ ResolvePayment \/ CheckBatch
  BY <1>1, TallyIs DEF SignBlock, ResolvePayment, CheckBatch
<1>2. CASE ResolveInvoice
  BY <1>2, TallyIs DEF ResolveInvoice, OneMore, TallyBooks
<1>3. CASE DeclineBlock
  BY <1>3, TallyIs DEF DeclineBlock
<1>4. CASE BeginReplayDay \/ WorkInvoice \/ PassOver \/ Screen \/ Close \/ UNCHANGED replayVars
  BY <1>4 DEF BeginReplayDay, WorkInvoice, PassOver, Screen, Close, replayVars
<1> QED
  BY <1>1, <1>2, <1>3, <1>4 DEF ReplayNext

LEMMA ShapesStep ==
  ASSUME \A p \in PaymentSet : Payments[p].amount \in Nat
  PROVE  Month /\ Shapes /\ [ReplayNext]_replayVars => Shapes'
<1> SUFFICES ASSUME Month, Shapes, [ReplayNext]_replayVars
             PROVE  Shapes'
  OBVIOUS
<1>0. /\ fate \in Fates /\ rsim \in RiskBooks(seen) /\ tally \in TallyBooks
      /\ seen \subseteq PaymentSet
      /\ IsSeq(judged) /\ (\A k \in 1 .. Len(judged) : IsRuling(judged[k]))
      /\ IsSeq(blocks) /\ (\A k \in 1 .. Len(blocks) : blocks[k] \in Opinions)
  BY DEF Month, Queues, Shapes
<1>f. fate' = fate /\ seen \subseteq seen'
  BY DEF ReplayNext, SignBlock, DeclineBlock, BeginReplayDay, WorkInvoice, ResolveInvoice,
         PassOver, Screen, ResolvePayment, CheckBatch, Close, replayVars, riskVars
<1>1. ASSUME NEW row, row.req \in Opinions
      PROVE  ObserveRisk(rsim, fate, row) \in RiskBooks(seen)
  <2>1. row.req.payment \in seen /\ row.req.amount = Payments[row.req.payment].amount
    BY <1>0, <1>1, OpinionsAre, OpinionsAmount
  <2>2. row.req.amount \in Nat
    BY <1>0, <2>1
  <2> QED
    BY <1>0, <2>1, <2>2, ObserveRiskIs
<1>2. rsim' \in RiskBooks(seen)
  <2>1. CASE SignBlock
    <3>1. Head(blocks) \in Opinions
      BY <1>0, <2>1, RestOf DEF SignBlock
    <3>2. PICK req, row : /\ req = Head(blocks)
                          /\ row = Decided(Sign(mem, req.id), books, req, Tomorrow)
      OBVIOUS
    <3>3. row.req = req
      BY <3>2, DecisionIs
    <3>4. rsim' = ObserveRisk(rsim, fate, row)
      BY <2>1, <3>2 DEF SignBlock
    <3> QED
      BY <1>1, <3>1, <3>2, <3>3, <3>4
  <2>2. CASE ResolvePayment
    <3>1. rsim' = ObserveRisk(rsim, fate, Head(judged)) /\ IsRuling(Head(judged))
      BY <1>0, <2>2, RestOf DEF ResolvePayment
    <3> QED
      BY <1>1, <3>1 DEF IsRuling
  <2>3. CASE ~SignBlock /\ ~ResolvePayment
    <3>1. rsim' = rsim
      BY <2>3 DEF ReplayNext, DeclineBlock, BeginReplayDay, WorkInvoice, ResolveInvoice,
         PassOver, Screen, CheckBatch, Close, replayVars, riskVars
    <3> QED
      BY <1>0, <3>1
  <2> QED
    BY <2>1, <2>2, <2>3
<1>3. rsim' \in RiskBooks(seen')
  BY <1>2, <1>f DEF RiskBooks
<1>4. tally' \in TallyBooks
  BY <1>0, TallyStep
<1> QED
  BY <1>0, <1>f, <1>3, <1>4 DEF Shapes

\* Every variable keeps its shape, for every dataset whose payments are not
\* negative: what is judged has been screened, and who claims a payment of a
\* batch claims one of the merchant's own.
THEOREM ReplayTyped ==
  ASSUME \A p \in PaymentSet : Payments[p].amount \in Nat
  PROVE  ReplaySpec => []ReplayTypeOK
<1>1. Month /\ Reconciled /\ Shapes => ReplayTypeOK
  <2> SUFFICES ASSUME Month, Reconciled, Shapes
               PROVE  ReplayTypeOK
    OBVIOUS
  <2>0. Timetable /\ Queues /\ AgentShape
    BY DEF Month, Reconciled
  <2>1. TypeOK
    BY <2>0, TimetableTypes
  <2>2. DOMAIN judged = 1 .. Len(judged) /\ DOMAIN blocks = 1 .. Len(blocks)
    BY <2>0, SeqShape DEF Queues
  <2>3. \A req \in Opinions : req.action \in RISK_ACTIONS /\ req.payment \in PaymentSet
    BY <2>0, OpinionsAre DEF Queues
  <2> QED
    BY <2>0, <2>1, <2>2, <2>3 DEF Queues, IsRuling, AgentShape, Shapes, RiskBooks, TallyBooks,
       ReplayTypeOK
<1>2. Month /\ Shapes /\ [ReplayNext]_replayVars => Shapes'
  BY ShapesStep
<1> QED
  BY <1>1, <1>2, MonthInit, MonthStep, ReconciledInit, ReconciledStep, ShapesInit, PTL
     DEF ReplaySpec
-----------------------------------------------------------------------------
(* The scorecard: four loops and the gateway count what is in the log.       *)

LEMMA OneMoreIndex ==
  ASSUME NEW n \in Nat, NEW S \in SUBSET (1 .. n), NEW x, x \notin 1 .. n
  PROVE  /\ Cardinality(S) \in Nat
         /\ Cardinality(S \cup {x}) = Cardinality(S) + 1
<1>1. IsFiniteSet(1 .. n)
  BY FS_Interval
<1>2. IsFiniteSet(S) /\ x \notin S
  BY <1>1, FS_Subset
<1> QED
  BY <1>2, FS_AddElement, FS_CardinalityType

\* How many of a queue's answers ask for a person.
HandUps(s) == Cardinality({k \in 1 .. Len(s) : s[k].verdict = "needs_human"})

LEMMA NoHandUps == HandUps(<<>>) = 0
BY NoSeq, FS_EmptySet DEF HandUps

LEMMA HandUpsAppended ==
  ASSUME NEW s, IsSeq(s), NEW row
  PROVE  /\ HandUps(s) \in Nat
         /\ HandUps(Append(s, row)) = HandUps(s) + (IF row.verdict = "needs_human" THEN 1 ELSE 0)
<1> DEFINE t == Append(s, row)
           S == {k \in 1 .. Len(s) : s[k].verdict = "needs_human"}
           T == {k \in 1 .. Len(t) : t[k].verdict = "needs_human"}
           n == Len(s)
<1>1. /\ n \in Nat
      /\ Len(t) = n + 1 /\ t[n + 1] = row
      /\ \A k \in 1 .. n : k \in 1 .. Len(t) /\ t[k] = s[k]
      /\ \A k \in 1 .. Len(t) : k \in 1 .. n \/ k = n + 1
  BY RowAdded DEF Grown
<1>2. T = IF row.verdict = "needs_human" THEN S \cup {n + 1} ELSE S
  <2>1. n + 1 \in 1 .. Len(t)
    BY <1>1
  <2> HIDE DEF t
  <2> QED
    BY <1>1, <2>1
<1>3. n + 1 \notin 1 .. n /\ S \in SUBSET (1 .. n)
  BY <1>1
<1>4. Cardinality(S) \in Nat /\ Cardinality(S \cup {n + 1}) = Cardinality(S) + 1
  <2> HIDE DEF S, n
  <2> QED
    BY <1>1, <1>3, OneMoreIndex
<1>5. HandUps(s) = Cardinality(S) /\ HandUps(Append(s, row)) = Cardinality(T)
  BY DEF HandUps
<1> HIDE DEF S, T
<1>6. Cardinality(T) = Cardinality(S) + (IF row.verdict = "needs_human" THEN 1 ELSE 0)
  <2>1. CASE row.verdict = "needs_human"
    BY <1>2, <1>4, <2>1
  <2>2. CASE row.verdict # "needs_human"
    BY <1>2, <1>4, <2>2
  <2> QED
    BY <2>1, <2>2
<1> QED
  BY <1>4, <1>5, <1>6

LEMMA HandUpsTaken ==
  ASSUME NEW s, IsSeq(s), s # <<>>
  PROVE  /\ HandUps(Tail(s)) \in Nat
         /\ HandUps(s) = HandUps(Tail(s)) + (IF Head(s).verdict = "needs_human" THEN 1 ELSE 0)
<1> DEFINE t == Tail(s)
           S == {k \in 1 .. Len(s) : s[k].verdict = "needs_human"}
           T == {k \in 1 .. Len(t) : t[k].verdict = "needs_human"}
           R == {k \in 2 .. Len(s) : s[k].verdict = "needs_human"}
<1>1. /\ Len(s) \in Nat /\ Len(s) >= 1 /\ Head(s) = s[1] /\ Len(t) = Len(s) - 1
      /\ \A k \in 1 .. Len(t) : t[k] = s[k + 1] /\ k + 1 \in 1 .. Len(s)
  BY RestOf
<1>2. T \in SUBSET (1 .. Len(t)) /\ R \in SUBSET (1 .. Len(s)) /\ 1 \notin R
  BY <1>1
<1>3. IsFiniteSet(T) /\ IsFiniteSet(R)
  <2> HIDE DEF R, T
  <2>1. 1 \in Int /\ Len(s) \in Int /\ Len(t) \in Int
    BY <1>1
  <2>2. IsFiniteSet(1 .. Len(t)) /\ IsFiniteSet(1 .. Len(s))
    BY <2>1, FS_Interval
  <2> QED
    BY <1>2, <2>2, FS_Subset
<1>4. Cardinality(R) = Cardinality(T)
  <2> DEFINE f == [k \in T |-> k + 1]
  <2>1. \A k \in T : k + 1 \in R /\ k \in Int
    BY <1>1
  <2>2. \A k \in R : k - 1 \in T /\ (k - 1) + 1 = k
    <3>1. \A k \in R : k - 1 \in 1 .. Len(t) /\ (k - 1) + 1 = k /\ s[k].verdict = "needs_human"
      BY <1>1
    <3> QED
      BY <1>1, <3>1
  <2> HIDE DEF R, T
  <2>3. f \in Bijection(T, R)
    BY <2>1, <2>2 DEF Bijection, Injection, Surjection, IsInjective
  <2>4. ExistsBijection(T, R)
    BY <2>3 DEF ExistsBijection
  <2> QED
    BY <1>3, <2>4, FS_Bijection
<1>5. S = IF Head(s).verdict = "needs_human" THEN R \cup {1} ELSE R
  <2>1. \A k \in 1 .. Len(s) : k = 1 \/ k \in 2 .. Len(s)
    BY <1>1
  <2>2. 1 \in 1 .. Len(s) /\ \A k \in 2 .. Len(s) : k \in 1 .. Len(s)
    BY <1>1
  <2> QED
    BY <1>1, <2>1, <2>2
<1>6. Cardinality(T) \in Nat /\ Cardinality(R \cup {1}) = Cardinality(R) + 1
  BY <1>2, <1>3, FS_AddElement, FS_CardinalityType
<1>7. HandUps(s) = Cardinality(S) /\ HandUps(Tail(s)) = Cardinality(T)
  BY DEF HandUps
<1> HIDE DEF R, S, T
<1>8. Cardinality(S) = Cardinality(T) + (IF Head(s).verdict = "needs_human" THEN 1 ELSE 0)
  <2>1. CASE Head(s).verdict = "needs_human"
    BY <1>4, <1>5, <1>6, <2>1
  <2>2. CASE Head(s).verdict # "needs_human"
    BY <1>4, <1>5, <1>6, <2>2
  <2> QED
    BY <2>1, <2>2
<1> QED
  BY <1>6, <1>7, <1>8

\* The rows that are counted.
RequestsIn(s)     == {k \in 1 .. Len(s) : s[k].type = "request"}
DecisionsIn(s)    == {k \in 1 .. Len(s) : s[k].type = "decision"}
VerdictsIn(s, v)  == {k \in 1 .. Len(s) : s[k].type = "decision" /\ s[k].verdict = v}
ApprovalsIn(s)    == {k \in 1 .. Len(s) : s[k].type = "human_approval"}

IsHandUp(row) ==
  /\ row.type = "decision" /\ row.verdict = "needs_human"
  /\ row.req.settlement = None /\ row.req.action \notin RISK_ACTIONS

HandUpsIn(s) == {k \in 1 .. Len(s) : IsHandUp(s[k])}

IsEscalation(row) ==
  row.type = "decision" /\ row.verdict = "needs_human" /\ row.req.action \in RISK_ACTIONS

SignedIn(s, k)   == \E j \in 1 .. k - 1 : s[j] = HumanRow("human_approval", s[k].req.id)
EscalationsIn(s) == {k \in 1 .. Len(s) : IsEscalation(s[k]) /\ ~SignedIn(s, k)}

\* Old rows are counted as they were.
LEMMA OldRowsCounted ==
  ASSUME NEW s, NEW t, Grown(s, t), NEW k \in 1 .. Len(s)
  PROVE  /\ k \in RequestsIn(t) <=> k \in RequestsIn(s)
         /\ k \in DecisionsIn(t) <=> k \in DecisionsIn(s)
         /\ \A v : k \in VerdictsIn(t, v) <=> k \in VerdictsIn(s, v)
         /\ k \in ApprovalsIn(t) <=> k \in ApprovalsIn(s)
         /\ k \in HandUpsIn(t) <=> k \in HandUpsIn(s)
         /\ k \in EscalationsIn(t) <=> k \in EscalationsIn(s)
<1>1. k \in 1 .. Len(t) /\ t[k] = s[k]
  BY DEF Grown
<1>2. SignedIn(t, k) <=> SignedIn(s, k)
  <2>1. \A j \in 1 .. k - 1 : j \in 1 .. Len(s) /\ t[j] = s[j]
    BY DEF Grown
  <2> QED
    BY <1>1, <2>1 DEF SignedIn
<1> QED
  BY <1>1, <1>2 DEF RequestsIn, DecisionsIn, VerdictsIn, ApprovalsIn, HandUpsIn, EscalationsIn

Some(b) == IF b THEN 1 ELSE 0

\* Of the rows up to n those of S, and of the later ones at most x.
OneMay(n, S, T, x) ==
  /\ n \in Nat /\ S \in SUBSET (1 .. n) /\ x \notin 1 .. n
  /\ \A k \in 1 .. n : k \in T <=> k \in S
  /\ \A k \in T : k \in 1 .. n \/ k = x

LEMMA OneCounted ==
  ASSUME NEW n, NEW S, NEW T, NEW x, OneMay(n, S, T, x)
  PROVE  /\ Cardinality(S) \in Nat
         /\ x \in T => Cardinality(T) = Cardinality(S) + 1
         /\ x \notin T => Cardinality(T) = Cardinality(S)
<1>0. /\ n \in Nat /\ S \in SUBSET (1 .. n) /\ x \notin 1 .. n
      /\ \A k \in 1 .. n : k \in T <=> k \in S
      /\ \A k \in T : k \in 1 .. n \/ k = x
  BY DEF OneMay
<1>1. Cardinality(S) \in Nat /\ Cardinality(S \cup {x}) = Cardinality(S) + 1
  BY <1>0, OneMoreIndex
<1>2. CASE x \in T
  <2>1. T = S \cup {x}
    BY <1>0, <1>2
  <2> QED
    BY <1>1, <1>2, <2>1
<1>3. CASE x \notin T
  <2>1. T = S
    BY <1>0, <1>3
  <2> QED
    BY <1>1, <1>3, <2>1
<1> QED
  BY <1>2, <1>3

\* A request and its decision.
LEMMA PairCounted ==
  ASSUME NEW s, NEW t, Grown(s, t), NEW req, NEW row, row.type = "decision", row.req = req,
         Len(t) = Len(s) + 2, t[Len(s) + 1] = RequestRow(req), t[Len(s) + 2] = row
  PROVE  /\ Cardinality(RequestsIn(t)) = Cardinality(RequestsIn(s)) + 1
         /\ Cardinality(DecisionsIn(t)) = Cardinality(DecisionsIn(s)) + 1
         /\ \A v : Cardinality(VerdictsIn(t, v)) =
                     Cardinality(VerdictsIn(s, v)) + Some(row.verdict = v)
         /\ Cardinality(ApprovalsIn(t)) = Cardinality(ApprovalsIn(s))
         /\ Cardinality(HandUpsIn(t)) = Cardinality(HandUpsIn(s)) + Some(IsHandUp(row))
         /\ Cardinality(EscalationsIn(t)) =
              Cardinality(EscalationsIn(s)) + Some(IsEscalation(row) /\ ~SignedIn(t, Len(s) + 2))
<1> DEFINE n == Len(s)
           asking == n + 1
           answer == n + 2
<1>1. /\ n \in Nat /\ asking \notin 1 .. n /\ answer \notin 1 .. n /\ asking # answer
      /\ asking \in 1 .. Len(t) /\ answer \in 1 .. Len(t)
      /\ \A k \in 1 .. Len(t) : k \in 1 .. n \/ k = asking \/ k = answer
  BY DEF Grown
<1>2. /\ t[asking].type = "request" /\ t[answer].type = "decision"
      /\ t[answer].req = req
  BY DEF RequestRow
<1>3. /\ RequestsIn(s) \in SUBSET (1 .. n) /\ DecisionsIn(s) \in SUBSET (1 .. n)
      /\ ApprovalsIn(s) \in SUBSET (1 .. n) /\ HandUpsIn(s) \in SUBSET (1 .. n)
      /\ EscalationsIn(s) \in SUBSET (1 .. n)
      /\ \A v : VerdictsIn(s, v) \in SUBSET (1 .. n)
  BY DEF RequestsIn, DecisionsIn, ApprovalsIn, HandUpsIn, EscalationsIn, VerdictsIn
<1>4. t[answer] = row
  OBVIOUS
<1> HIDE DEF n, asking, answer
<1>5. Cardinality(RequestsIn(t)) = Cardinality(RequestsIn(s)) + 1
  <2>1. /\ \A k \in 1 .. n : k \in RequestsIn(t) <=> k \in RequestsIn(s)
        /\ asking \in RequestsIn(t)
        /\ \A k \in RequestsIn(t) : k \in 1 .. n \/ k = asking
    BY <1>1, <1>2, OldRowsCounted DEF n, RequestsIn
  <2>2. OneMay(n, RequestsIn(s), RequestsIn(t), asking)
    BY <1>1, <1>3, <2>1 DEF OneMay
  <2> QED
    BY <2>1, <2>2, OneCounted
<1>6. Cardinality(DecisionsIn(t)) = Cardinality(DecisionsIn(s)) + 1
  <2>1. /\ \A k \in 1 .. n : k \in DecisionsIn(t) <=> k \in DecisionsIn(s)
        /\ answer \in DecisionsIn(t)
        /\ \A k \in DecisionsIn(t) : k \in 1 .. n \/ k = answer
    BY <1>1, <1>2, OldRowsCounted DEF n, DecisionsIn
  <2>2. OneMay(n, DecisionsIn(s), DecisionsIn(t), answer)
    BY <1>1, <1>3, <2>1 DEF OneMay
  <2> QED
    BY <2>1, <2>2, OneCounted
<1>7. ASSUME NEW v
      PROVE  Cardinality(VerdictsIn(t, v)) = Cardinality(VerdictsIn(s, v)) + Some(row.verdict = v)
  <2>1. /\ \A k \in 1 .. n : k \in VerdictsIn(t, v) <=> k \in VerdictsIn(s, v)
        /\ answer \in VerdictsIn(t, v) <=> row.verdict = v
        /\ \A k \in VerdictsIn(t, v) : k \in 1 .. n \/ k = answer
    <3>1. \A k \in 1 .. n : k \in VerdictsIn(t, v) <=> k \in VerdictsIn(s, v)
      BY OldRowsCounted DEF n
    <3> QED
      BY <1>1, <1>2, <1>4, <3>1 DEF VerdictsIn
  <2>2. OneMay(n, VerdictsIn(s, v), VerdictsIn(t, v), answer)
    BY <1>1, <1>3, <2>1 DEF OneMay
  <2>3. /\ Cardinality(VerdictsIn(s, v)) \in Nat
        /\ answer \in VerdictsIn(t, v) => Cardinality(VerdictsIn(t, v)) = Cardinality(VerdictsIn(s, v)) + 1
        /\ answer \notin VerdictsIn(t, v) => Cardinality(VerdictsIn(t, v)) = Cardinality(VerdictsIn(s, v))
    BY <2>2, OneCounted
  <2>4. CASE row.verdict = v
    BY <2>1, <2>3, <2>4 DEF Some
  <2>5. CASE ~(row.verdict = v)
    BY <2>1, <2>3, <2>5 DEF Some
  <2> QED
    BY <2>4, <2>5
<1>8. Cardinality(ApprovalsIn(t)) = Cardinality(ApprovalsIn(s))
  <2>1. ApprovalsIn(t) = ApprovalsIn(s)
    <3>1. \A k \in 1 .. n : k \in ApprovalsIn(t) <=> k \in ApprovalsIn(s)
      BY OldRowsCounted DEF n
    <3>2. \A k \in ApprovalsIn(t) : k \in 1 .. n
      BY <1>1, <1>2 DEF ApprovalsIn
    <3> QED
      BY <1>3, <3>1, <3>2
  <2> QED
    BY <2>1
<1>9. Cardinality(HandUpsIn(t)) = Cardinality(HandUpsIn(s)) + Some(IsHandUp(row))
  <2>1. /\ \A k \in 1 .. n : k \in HandUpsIn(t) <=> k \in HandUpsIn(s)
        /\ answer \in HandUpsIn(t) <=> IsHandUp(row)
        /\ \A k \in HandUpsIn(t) : k \in 1 .. n \/ k = answer
    <3>1. ~IsHandUp(t[asking])
      BY <1>2 DEF IsHandUp
    <3> QED
      BY <1>1, <1>4, <3>1, OldRowsCounted DEF n, HandUpsIn
  <2>2. OneMay(n, HandUpsIn(s), HandUpsIn(t), answer)
    BY <1>1, <1>3, <2>1 DEF OneMay
  <2>3. /\ Cardinality(HandUpsIn(s)) \in Nat
        /\ answer \in HandUpsIn(t) => Cardinality(HandUpsIn(t)) = Cardinality(HandUpsIn(s)) + 1
        /\ answer \notin HandUpsIn(t) => Cardinality(HandUpsIn(t)) = Cardinality(HandUpsIn(s))
    BY <2>2, OneCounted
  <2>4. CASE IsHandUp(row)
    BY <2>1, <2>3, <2>4 DEF Some
  <2>5. CASE ~(IsHandUp(row))
    BY <2>1, <2>3, <2>5 DEF Some
  <2> QED
    BY <2>4, <2>5
<1>10. Cardinality(EscalationsIn(t)) =
         Cardinality(EscalationsIn(s)) + Some(IsEscalation(row) /\ ~SignedIn(t, answer))
  <2>1. /\ \A k \in 1 .. n : k \in EscalationsIn(t) <=> k \in EscalationsIn(s)
        /\ answer \in EscalationsIn(t) <=> IsEscalation(row) /\ ~SignedIn(t, answer)
        /\ \A k \in EscalationsIn(t) : k \in 1 .. n \/ k = answer
    <3>1. ~IsEscalation(t[asking])
      BY <1>2 DEF IsEscalation
    <3> QED
      BY <1>1, <1>4, <3>1, OldRowsCounted DEF n, EscalationsIn
  <2>2. OneMay(n, EscalationsIn(s), EscalationsIn(t), answer)
    BY <1>1, <1>3, <2>1 DEF OneMay
  <2>3. /\ Cardinality(EscalationsIn(s)) \in Nat
        /\ answer \in EscalationsIn(t) => Cardinality(EscalationsIn(t)) = Cardinality(EscalationsIn(s)) + 1
        /\ answer \notin EscalationsIn(t) => Cardinality(EscalationsIn(t)) = Cardinality(EscalationsIn(s))
    BY <2>2, OneCounted
  <2>4. CASE IsEscalation(row) /\ ~SignedIn(t, answer)
    BY <2>1, <2>3, <2>4 DEF Some
  <2>5. CASE ~(IsEscalation(row) /\ ~SignedIn(t, answer))
    BY <2>1, <2>3, <2>5 DEF Some
  <2> QED
    BY <2>4, <2>5
<1> QED
  BY <1>5, <1>6, <1>7, <1>8, <1>9, <1>10 DEF n, answer

\* Rows of other kinds are not counted.
LEMMA NothingCounted ==
  ASSUME NEW s, NEW t, Grown(s, t),
         \A k \in 1 .. Len(t) : k \in 1 .. Len(s) \/ t[k].type = "outcome"
  PROVE  /\ RequestsIn(t) = RequestsIn(s) /\ DecisionsIn(t) = DecisionsIn(s)
         /\ \A v : VerdictsIn(t, v) = VerdictsIn(s, v)
         /\ ApprovalsIn(t) = ApprovalsIn(s) /\ HandUpsIn(t) = HandUpsIn(s)
         /\ EscalationsIn(t) = EscalationsIn(s)
<1>1. \A k \in 1 .. Len(t) : k \notin 1 .. Len(s) =>
        /\ k \notin RequestsIn(t) /\ k \notin DecisionsIn(t) /\ k \notin ApprovalsIn(t)
        /\ k \notin HandUpsIn(t) /\ k \notin EscalationsIn(t) /\ \A v : k \notin VerdictsIn(t, v)
  BY DEF RequestsIn, DecisionsIn, ApprovalsIn, HandUpsIn, EscalationsIn, VerdictsIn, IsHandUp,
         IsEscalation
<1>2. /\ RequestsIn(s) \subseteq 1 .. Len(s) /\ RequestsIn(t) \subseteq 1 .. Len(t)
      /\ DecisionsIn(s) \subseteq 1 .. Len(s) /\ DecisionsIn(t) \subseteq 1 .. Len(t)
      /\ ApprovalsIn(s) \subseteq 1 .. Len(s) /\ ApprovalsIn(t) \subseteq 1 .. Len(t)
      /\ HandUpsIn(s) \subseteq 1 .. Len(s) /\ HandUpsIn(t) \subseteq 1 .. Len(t)
      /\ EscalationsIn(s) \subseteq 1 .. Len(s) /\ EscalationsIn(t) \subseteq 1 .. Len(t)
      /\ \A v : VerdictsIn(s, v) \subseteq 1 .. Len(s) /\ VerdictsIn(t, v) \subseteq 1 .. Len(t)
  BY DEF RequestsIn, DecisionsIn, ApprovalsIn, HandUpsIn, EscalationsIn, VerdictsIn
<1>3. \A k \in 1 .. Len(s) :
        /\ k \in RequestsIn(t) <=> k \in RequestsIn(s)
        /\ k \in DecisionsIn(t) <=> k \in DecisionsIn(s)
        /\ \A v : k \in VerdictsIn(t, v) <=> k \in VerdictsIn(s, v)
        /\ k \in ApprovalsIn(t) <=> k \in ApprovalsIn(s)
        /\ k \in HandUpsIn(t) <=> k \in HandUpsIn(s)
        /\ k \in EscalationsIn(t) <=> k \in EscalationsIn(s)
  BY OldRowsCounted
<1> QED
  BY <1>1, <1>2, <1>3

\* A signature, on what nobody had signed for, is counted as one and nothing else.
LEMMA SignatureCounted ==
  ASSUME NEW s, NEW t, Grown(s, t), NEW id, Len(t) = Len(s) + 1,
         t[Len(s) + 1] = HumanRow("human_approval", id)
  PROVE  /\ RequestsIn(t) = RequestsIn(s) /\ DecisionsIn(t) = DecisionsIn(s)
         /\ \A v : VerdictsIn(t, v) = VerdictsIn(s, v)
         /\ Cardinality(ApprovalsIn(t)) = Cardinality(ApprovalsIn(s)) + 1
         /\ HandUpsIn(t) = HandUpsIn(s) /\ EscalationsIn(t) = EscalationsIn(s)
<1>1. /\ Len(s) \in Nat /\ Len(s) + 1 \notin 1 .. Len(s) /\ Len(s) + 1 \in 1 .. Len(t)
      /\ \A k \in 1 .. Len(t) : k \in 1 .. Len(s) \/ k = Len(s) + 1
  BY DEF Grown
<1>2. t[Len(s) + 1].type = "human_approval"
  BY DEF HumanRow
<1>3. LET k == Len(s) + 1 IN
        /\ k \notin RequestsIn(t) /\ k \notin DecisionsIn(t) /\ k \in ApprovalsIn(t)
        /\ k \notin HandUpsIn(t) /\ k \notin EscalationsIn(t) /\ \A v : k \notin VerdictsIn(t, v)
  BY <1>1, <1>2 DEF RequestsIn, DecisionsIn, ApprovalsIn, HandUpsIn, EscalationsIn, VerdictsIn,
     IsHandUp, IsEscalation
<1>4. /\ RequestsIn(s) \subseteq 1 .. Len(s) /\ RequestsIn(t) \subseteq 1 .. Len(t)
      /\ DecisionsIn(s) \subseteq 1 .. Len(s) /\ DecisionsIn(t) \subseteq 1 .. Len(t)
      /\ ApprovalsIn(s) \subseteq 1 .. Len(s) /\ ApprovalsIn(t) \subseteq 1 .. Len(t)
      /\ HandUpsIn(s) \subseteq 1 .. Len(s) /\ HandUpsIn(t) \subseteq 1 .. Len(t)
      /\ EscalationsIn(s) \subseteq 1 .. Len(s) /\ EscalationsIn(t) \subseteq 1 .. Len(t)
      /\ \A v : VerdictsIn(s, v) \subseteq 1 .. Len(s) /\ VerdictsIn(t, v) \subseteq 1 .. Len(t)
  BY DEF RequestsIn, DecisionsIn, ApprovalsIn, HandUpsIn, EscalationsIn, VerdictsIn
<1>5. \A k \in 1 .. Len(s) :
        /\ k \in RequestsIn(t) <=> k \in RequestsIn(s)
        /\ k \in DecisionsIn(t) <=> k \in DecisionsIn(s)
        /\ \A v : k \in VerdictsIn(t, v) <=> k \in VerdictsIn(s, v)
        /\ k \in ApprovalsIn(t) <=> k \in ApprovalsIn(s)
        /\ k \in HandUpsIn(t) <=> k \in HandUpsIn(s)
        /\ k \in EscalationsIn(t) <=> k \in EscalationsIn(s)
  BY OldRowsCounted
<1>6. Cardinality(ApprovalsIn(t)) = Cardinality(ApprovalsIn(s)) + 1
  <2>1. \A k \in ApprovalsIn(t) : k \in 1 .. Len(s) \/ k = Len(s) + 1
    BY <1>1, <1>4
  <2>2. OneMay(Len(s), ApprovalsIn(s), ApprovalsIn(t), Len(s) + 1)
    BY <1>1, <1>4, <1>5, <2>1 DEF OneMay
  <2> QED
    BY <1>3, <2>2, OneCounted
<1>7. /\ RequestsIn(t) = RequestsIn(s) /\ DecisionsIn(t) = DecisionsIn(s)
      /\ HandUpsIn(t) = HandUpsIn(s) /\ EscalationsIn(t) = EscalationsIn(s)
  BY <1>1, <1>3, <1>4, <1>5
<1>8. ASSUME NEW v
      PROVE  VerdictsIn(t, v) = VerdictsIn(s, v)
  <2>1. /\ Len(s) + 1 \notin VerdictsIn(t, v)
        /\ VerdictsIn(s, v) \subseteq 1 .. Len(s) /\ VerdictsIn(t, v) \subseteq 1 .. Len(t)
        /\ \A k \in 1 .. Len(s) : k \in VerdictsIn(t, v) <=> k \in VerdictsIn(s, v)
    BY <1>3, <1>4, <1>5, Zenon
  <2> QED
    BY <1>1, <2>1
<1> QED
  BY <1>6, <1>7, <1>8 DEF Some

\* The numbers of the scorecard, while answers wait to be looked at.
CountsAgree ==
  /\ tally.requests + Len(asked) + Len(judged) = Cardinality(RequestsIn(log))
  /\ Cardinality(DecisionsIn(log)) = Cardinality(RequestsIn(log))
  /\ DOMAIN mem.verdict_counts = Verdict
  /\ \A v \in Verdict : mem.verdict_counts[v] = Cardinality(VerdictsIn(log, v))
  /\ \A k \in DecisionsIn(log) : log[k].verdict \in Verdict
  /\ tally.pending_recovery + HandUps(asked) = Cardinality(HandUpsIn(log))
  /\ tally.approved = Cardinality(ApprovalsIn(log))
  /\ tally.approved + tally.rejected + Len(blocks) + HandUps(judged) =
       Cardinality(EscalationsIn(log))

\* A signature is for somebody who had been judged.
ApprovalsKnown ==
  \A k \in ApprovalsIn(log) : \E p \in seen : log[k] = HumanRow("human_approval", <<p, "risk">>)

Counted == tally \in TallyBooks /\ CountsAgree /\ ApprovalsKnown

LEMMA CountedInit == ReplayInit => Counted
<1> SUFFICES ASSUME ReplayInit
             PROVE  Counted
  OBVIOUS
<1>1. /\ log = <<>> /\ asked = <<>> /\ judged = <<>> /\ blocks = <<>>
      /\ tally = [requests |-> 0, pending_recovery |-> 0, approved |-> 0, rejected |-> 0]
      /\ mem.verdict_counts = [v \in Verdict |-> 0]
  BY DEF ReplayInit, Init, Unused, NoCounts
<1>2. /\ RequestsIn(log) = {} /\ DecisionsIn(log) = {} /\ ApprovalsIn(log) = {}
      /\ HandUpsIn(log) = {} /\ EscalationsIn(log) = {} /\ \A v : VerdictsIn(log, v) = {}
  BY <1>1, NoSeq DEF RequestsIn, DecisionsIn, ApprovalsIn, HandUpsIn, EscalationsIn, VerdictsIn
<1>3. Cardinality({}) = 0 /\ HandUps(<<>>) = 0 /\ Len(<<>>) = 0
  BY NoSeq, NoHandUps, FS_EmptySet
<1>4. tally \in TallyBooks
  BY <1>1 DEF TallyBooks
<1>5. CountsAgree
  <2>1. /\ tally.requests = 0 /\ tally.pending_recovery = 0
        /\ tally.approved = 0 /\ tally.rejected = 0
        /\ Len(asked) = 0 /\ Len(judged) = 0 /\ Len(blocks) = 0
        /\ HandUps(asked) = 0 /\ HandUps(judged) = 0
    BY <1>1, <1>3
  <2>2. /\ Cardinality(RequestsIn(log)) = 0 /\ Cardinality(DecisionsIn(log)) = 0
        /\ Cardinality(ApprovalsIn(log)) = 0 /\ Cardinality(HandUpsIn(log)) = 0
        /\ Cardinality(EscalationsIn(log)) = 0
        /\ \A v : Cardinality(VerdictsIn(log, v)) = 0
    BY <1>2, <1>3
  <2>3. /\ DOMAIN mem.verdict_counts = Verdict
        /\ \A v \in Verdict : mem.verdict_counts[v] = 0
    BY <1>1
  <2> QED
    BY <1>2, <2>1, <2>2, <2>3 DEF CountsAgree
<1> QED
  BY <1>2, <1>4, <1>5 DEF Counted, ApprovalsKnown

\* The first rows of a log.
LEMMA PrefixIs ==
  ASSUME NEW t, IsSeq(t), NEW n \in 0 .. Len(t)
  PROVE  LET s == [k \in 1 .. n |-> t[k]]
         IN  Grown(s, t) /\ Len(s) = n /\ \A k \in 1 .. n : s[k] = t[k]
<1> DEFINE s == [k \in 1 .. n |-> t[k]]
<1>1. Len(t) \in Nat
  BY SeqShape
<1>2. PICK S : t \in Seq(S)
  BY DEF IsSeq
<1>3. \A k \in 1 .. n : k \in 1 .. Len(t) /\ t[k] \in S
  BY <1>1, <1>2, ElementOfSeq
<1>4. s \in Seq(S) /\ Len(s) = n
  BY <1>1, <1>3
<1>5. \A k \in 1 .. n : s[k] = t[k]
  OBVIOUS
<1> HIDE DEF s
<1>6. IsSeq(s)
  BY <1>4 DEF IsSeq
<1>7. Grown(s, t)
  BY <1>1, <1>3, <1>4, <1>5, <1>6 DEF Grown
<1> QED
  BY <1>4, <1>5, <1>7 DEF s

\* A signed resubmission is one request, one decision and one signature, and
\* never an escalation of its own: the signature stands before it.
LEMMA ResubmissionCounted ==
  ASSUME NEW req, NEW row, Resubmitted(req, row), req.action \in RISK_ACTIONS
  PROVE  /\ Cardinality(RequestsIn(log')) = Cardinality(RequestsIn(log)) + 1
         /\ Cardinality(DecisionsIn(log')) = Cardinality(DecisionsIn(log)) + 1
         /\ \A v : Cardinality(VerdictsIn(log', v)) =
                     Cardinality(VerdictsIn(log, v)) + Some(row.verdict = v)
         /\ Cardinality(ApprovalsIn(log')) = Cardinality(ApprovalsIn(log)) + 1
         /\ Cardinality(HandUpsIn(log')) = Cardinality(HandUpsIn(log))
         /\ Cardinality(EscalationsIn(log')) = Cardinality(EscalationsIn(log))
<1>1. PICK n, t : n = Len(log) /\ t = log'
  OBVIOUS
<1>2. /\ Grown(log, t) /\ IsSeq(t) /\ n \in Nat /\ Len(t) \in Nat /\ n + 3 <= Len(t)
      /\ t[n + 1] = HumanRow("human_approval", req.id)
      /\ t[n + 2] = RequestRow(req)
      /\ t[n + 3] = row /\ row.type = "decision" /\ row.req = req
      /\ \A k \in 1 .. Len(t) :
           k \in 1 .. n \/ k = n + 1 \/ k = n + 2 \/ k = n + 3 \/ t[k].type = "outcome"
  BY <1>1 DEF Resubmitted, Grown
<1>3. PICK a : a = [k \in 1 .. n + 1 |-> t[k]]
  OBVIOUS
<1>4. PICK b : b = [k \in 1 .. n + 3 |-> t[k]]
  OBVIOUS
<1>5. n + 1 \in 0 .. Len(t) /\ n + 3 \in 0 .. Len(t)
  BY <1>2
<1>6. /\ Grown(a, t) /\ Len(a) = n + 1 /\ \A k \in 1 .. n + 1 : a[k] = t[k]
  BY <1>2, <1>3, <1>5, PrefixIs
<1>7. /\ Grown(b, t) /\ Len(b) = n + 3 /\ \A k \in 1 .. n + 3 : b[k] = t[k]
  BY <1>2, <1>4, <1>5, PrefixIs
<1>8. Grown(log, a)
  <2>1. \A k \in 1 .. n : k \in 1 .. n + 1 /\ k \in 1 .. Len(t) /\ t[k] = log[k]
    BY <1>1, <1>2 DEF Grown
  <2>2. Len(log) \in Nat /\ Len(a) \in Nat /\ Len(log) <= Len(a)
    BY <1>1, <1>2, <1>6
  <2> QED
    BY <1>1, <1>2, <1>6, <2>1, <2>2 DEF Grown
<1>9. Grown(a, b)
  <2>1. \A k \in 1 .. n + 1 : k \in 1 .. n + 3
    BY <1>2
  <2>2. Len(a) \in Nat /\ Len(b) \in Nat /\ Len(a) <= Len(b)
    BY <1>2, <1>6, <1>7
  <2> QED
    BY <1>6, <1>7, <2>1, <2>2 DEF Grown
<1>10. /\ Len(a) = Len(log) + 1 /\ a[Len(log) + 1] = HumanRow("human_approval", req.id)
       /\ Len(b) = Len(a) + 2
       /\ b[Len(a) + 1] = RequestRow(req) /\ b[Len(a) + 2] = row
       /\ SignedIn(b, Len(a) + 2)
  <2>1. /\ n + 1 \in 1 .. n + 1 /\ n + 1 \in 1 .. n + 3 /\ n + 2 \in 1 .. n + 3 /\ n + 3 \in 1 .. n + 3
        /\ (n + 1) + 1 = n + 2 /\ (n + 1) + 2 = n + 3 /\ n + 1 \in 1 .. (n + 3) - 1
    BY <1>2
  <2>2. b[n + 1] = HumanRow("human_approval", b[n + 3].req.id)
    BY <1>2, <1>7, <2>1
  <2>3. SignedIn(b, n + 3)
    BY <2>1, <2>2 DEF SignedIn
  <2> QED
    BY <1>1, <1>2, <1>6, <1>7, <2>1, <2>3
<1>11. \A k \in 1 .. Len(t) : k \in 1 .. Len(b) \/ t[k].type = "outcome"
  <2>1. \A k \in 1 .. n : k \in 1 .. n + 3
    BY <1>2
  <2>2. n + 1 \in 1 .. n + 3 /\ n + 2 \in 1 .. n + 3 /\ n + 3 \in 1 .. n + 3
    BY <1>2
  <2> QED
    BY <1>2, <1>7, <2>1, <2>2
<1>12. /\ RequestsIn(a) = RequestsIn(log) /\ DecisionsIn(a) = DecisionsIn(log)
       /\ \A v : VerdictsIn(a, v) = VerdictsIn(log, v)
       /\ Cardinality(ApprovalsIn(a)) = Cardinality(ApprovalsIn(log)) + 1
       /\ HandUpsIn(a) = HandUpsIn(log) /\ EscalationsIn(a) = EscalationsIn(log)
  BY <1>8, <1>10, SignatureCounted
<1>13. /\ Cardinality(RequestsIn(b)) = Cardinality(RequestsIn(a)) + 1
       /\ Cardinality(DecisionsIn(b)) = Cardinality(DecisionsIn(a)) + 1
       /\ \A v : Cardinality(VerdictsIn(b, v)) =
                   Cardinality(VerdictsIn(a, v)) + Some(row.verdict = v)
       /\ Cardinality(ApprovalsIn(b)) = Cardinality(ApprovalsIn(a))
       /\ Cardinality(HandUpsIn(b)) = Cardinality(HandUpsIn(a)) + Some(IsHandUp(row))
       /\ Cardinality(EscalationsIn(b)) =
            Cardinality(EscalationsIn(a)) + Some(IsEscalation(row) /\ ~SignedIn(b, Len(a) + 2))
  BY <1>2, <1>9, <1>10, PairCounted
<1>14. ~IsHandUp(row)
  BY <1>2 DEF IsHandUp
<1>15. /\ Cardinality(HandUpsIn(b)) = Cardinality(HandUpsIn(a))
       /\ Cardinality(EscalationsIn(b)) = Cardinality(EscalationsIn(a))
  <2>1. /\ Cardinality(HandUpsIn(a)) \in Nat /\ Cardinality(EscalationsIn(a)) \in Nat
    <3>1. /\ HandUpsIn(a) \in SUBSET (1 .. n + 1) /\ EscalationsIn(a) \in SUBSET (1 .. n + 1)
      BY <1>6 DEF HandUpsIn, EscalationsIn
    <3>2. n + 1 \in Nat /\ n + 2 \notin 1 .. n + 1
      BY <1>2
    <3> QED
      BY <3>1, <3>2, OneMoreIndex
  <2> QED
    BY <1>10, <1>13, <1>14, <2>1 DEF Some
<1>16. /\ RequestsIn(t) = RequestsIn(b) /\ DecisionsIn(t) = DecisionsIn(b)
       /\ \A v : VerdictsIn(t, v) = VerdictsIn(b, v)
       /\ ApprovalsIn(t) = ApprovalsIn(b) /\ HandUpsIn(t) = HandUpsIn(b)
       /\ EscalationsIn(t) = EscalationsIn(b)
  BY <1>7, <1>11, NothingCounted
<1> QED
  BY <1>1, <1>12, <1>13, <1>15, <1>16

LEMMA CardsAre ==
  ASSUME NEW s, IsSeq(s)
  PROVE  /\ Cardinality(RequestsIn(s)) \in Nat /\ Cardinality(DecisionsIn(s)) \in Nat
         /\ \A v : Cardinality(VerdictsIn(s, v)) \in Nat
         /\ Cardinality(ApprovalsIn(s)) \in Nat /\ Cardinality(HandUpsIn(s)) \in Nat
         /\ Cardinality(EscalationsIn(s)) \in Nat
<1>1. Len(s) \in Nat /\ Len(s) + 1 \notin 1 .. Len(s)
  BY SeqShape
<1>2. /\ RequestsIn(s) \in SUBSET (1 .. Len(s)) /\ DecisionsIn(s) \in SUBSET (1 .. Len(s))
      /\ ApprovalsIn(s) \in SUBSET (1 .. Len(s)) /\ HandUpsIn(s) \in SUBSET (1 .. Len(s))
      /\ EscalationsIn(s) \in SUBSET (1 .. Len(s))
      /\ \A v : VerdictsIn(s, v) \in SUBSET (1 .. Len(s))
  BY DEF RequestsIn, DecisionsIn, ApprovalsIn, HandUpsIn, EscalationsIn, VerdictsIn
<1> QED
  BY <1>1, <1>2, OneMoreIndex

\* One decision more, in the counters and in the log.
LEMMA VerdictsCounted ==
  ASSUME Month, CountsAgree, NEW m, DOMAIN m = CounterNames,
         m.verdict_counts = mem.verdict_counts,
         NEW row, row.verdict \in Verdict, mem' = Count(m, row),
         \A v : Cardinality(VerdictsIn(log', v)) =
                  Cardinality(VerdictsIn(log, v)) + Some(row.verdict = v)
  PROVE  /\ DOMAIN mem'.verdict_counts = Verdict
         /\ \A v \in Verdict : mem'.verdict_counts[v] = Cardinality(VerdictsIn(log', v))
<1>1. PICK c, verdict : c = mem.verdict_counts /\ verdict = row.verdict
  OBVIOUS
<1>2. mem'.verdict_counts = [c EXCEPT ![verdict] = c[verdict] + 1]
  <2>1. Count(m, row).verdict_counts =
          [m.verdict_counts EXCEPT ![row.verdict] = m.verdict_counts[row.verdict] + 1]
    BY CountIs, ZenonT(40)
  <2>2. m.verdict_counts = c
    BY <1>1
  <2> QED
    BY <1>1, <2>1, <2>2, Zenon
<1>3. /\ DOMAIN c = Verdict /\ verdict \in Verdict
      /\ \A v \in Verdict : c[v] = Cardinality(VerdictsIn(log, v))
  BY <1>1 DEF CountsAgree
<1>4. \A v : Cardinality(VerdictsIn(log, v)) \in Nat
  BY CardsAre DEF Month, Timetable, Answers
<1>5. ASSUME NEW v \in Verdict
      PROVE  mem'.verdict_counts[v] = Cardinality(VerdictsIn(log', v))
  <2>1. Cardinality(VerdictsIn(log', v)) = Cardinality(VerdictsIn(log, v)) + Some(verdict = v)
    BY <1>1
  <2>2. mem'.verdict_counts[v] = IF verdict = v THEN c[v] + 1 ELSE c[v]
    BY <1>2, <1>3
  <2> QED
    BY <1>3, <1>4, <2>1, <2>2 DEF Some
<1> QED
  BY <1>2, <1>3, <1>5

LEMMA DecidedIsVerdict ==
  ASSUME NEW m, NEW b, NEW req, NEW at
  PROVE  Decided(m, b, req, at).verdict \in Verdict
BY VerdictTyped DEF Decided, DecisionRow

\* What every submission does to the counts, whoever submits.
LEMMA SubmissionCounted ==
  ASSUME Month, Counted, NEW req, NEW row, NEW at, Submitted(req, row, at), seen \subseteq seen'
  PROVE  /\ Cardinality(RequestsIn(log')) = Cardinality(RequestsIn(log)) + 1
         /\ Cardinality(DecisionsIn(log')) = Cardinality(RequestsIn(log'))
         /\ DOMAIN mem'.verdict_counts = Verdict
         /\ \A v \in Verdict : mem'.verdict_counts[v] = Cardinality(VerdictsIn(log', v))
         /\ \A k \in DecisionsIn(log') : log'[k].verdict \in Verdict
         /\ Cardinality(ApprovalsIn(log')) = Cardinality(ApprovalsIn(log))
         /\ Cardinality(HandUpsIn(log')) = Cardinality(HandUpsIn(log)) + Some(IsHandUp(row))
         /\ Cardinality(EscalationsIn(log')) =
              Cardinality(EscalationsIn(log))
                + Some(IsEscalation(row) /\ ~SignedIn(log', Len(log) + 2))
         /\ ApprovalsKnown'
<1>1. /\ Grown(log, log') /\ row.type = "decision" /\ row.req = req
      /\ Len(log') = Len(log) + 2
      /\ log'[Len(log) + 1] = RequestRow(req) /\ log'[Len(log) + 2] = row
      /\ \A k \in 1 .. Len(log') : k \in 1 .. Len(log) \/ k = Len(log) + 1 \/ k = Len(log) + 2
      /\ mem' = Count(mem, row)
      /\ row.verdict \in Verdict
  BY DecidedIsVerdict DEF Submitted
<1>2. PICK t : t = log'
  OBVIOUS
<1>3. /\ Cardinality(RequestsIn(t)) = Cardinality(RequestsIn(log)) + 1
      /\ Cardinality(DecisionsIn(t)) = Cardinality(DecisionsIn(log)) + 1
      /\ \A v : Cardinality(VerdictsIn(t, v)) =
                  Cardinality(VerdictsIn(log, v)) + Some(row.verdict = v)
      /\ Cardinality(ApprovalsIn(t)) = Cardinality(ApprovalsIn(log))
      /\ Cardinality(HandUpsIn(t)) = Cardinality(HandUpsIn(log)) + Some(IsHandUp(row))
      /\ Cardinality(EscalationsIn(t)) =
           Cardinality(EscalationsIn(log)) + Some(IsEscalation(row) /\ ~SignedIn(t, Len(log) + 2))
  BY <1>1, <1>2, PairCounted
<1>4. DOMAIN mem = CounterNames /\ CountsAgree /\ ApprovalsKnown
  BY DEF Month, Counted
<1>5. /\ DOMAIN mem'.verdict_counts = Verdict
      /\ \A v \in Verdict : mem'.verdict_counts[v] = Cardinality(VerdictsIn(log', v))
  BY <1>1, <1>2, <1>3, <1>4, VerdictsCounted
<1>6. \A k \in 1 .. Len(log) : k \in 1 .. Len(log') /\ log'[k] = log[k]
  BY <1>1 DEF Grown
<1>7. \A k \in DecisionsIn(log') : log'[k].verdict \in Verdict
  <2> SUFFICES ASSUME NEW k \in DecisionsIn(log')
               PROVE  log'[k].verdict \in Verdict
    OBVIOUS
  <2>1. k \in 1 .. Len(log') /\ log'[k].type = "decision"
    BY DEF DecisionsIn
  <2>2. k \in 1 .. Len(log) => k \in DecisionsIn(log) /\ log'[k] = log[k]
    BY <1>6, <2>1 DEF DecisionsIn
  <2>3. log'[Len(log) + 1].type # "decision"
    BY <1>1 DEF RequestRow
  <2> QED
    BY <1>1, <1>4, <2>1, <2>2, <2>3 DEF CountsAgree
<1>8. ApprovalsKnown'
  <2> SUFFICES ASSUME NEW k \in ApprovalsIn(log')
               PROVE  \E p \in seen' : log'[k] = HumanRow("human_approval", <<p, "risk">>)
    BY DEF ApprovalsKnown
  <2>1. k \in 1 .. Len(log') /\ log'[k].type = "human_approval"
    BY DEF ApprovalsIn
  <2>2. k \in 1 .. Len(log)
    BY <1>1, <2>1 DEF RequestRow
  <2>3. k \in ApprovalsIn(log) /\ log'[k] = log[k]
    BY <1>6, <2>1, <2>2 DEF ApprovalsIn
  <2> QED
    BY <1>4, <2>3 DEF ApprovalsKnown
<1> QED
  BY <1>2, <1>3, <1>4, <1>5, <1>7, <1>8 DEF CountsAgree

\* Nothing of that when no request is made.
LEMMA FollowedCounted ==
  ASSUME Month, Counted, Followed, seen \subseteq seen'
  PROVE  /\ Cardinality(RequestsIn(log')) = Cardinality(RequestsIn(log))
         /\ Cardinality(DecisionsIn(log')) = Cardinality(RequestsIn(log'))
         /\ DOMAIN mem'.verdict_counts = Verdict
         /\ \A v \in Verdict : mem'.verdict_counts[v] = Cardinality(VerdictsIn(log', v))
         /\ \A k \in DecisionsIn(log') : log'[k].verdict \in Verdict
         /\ Cardinality(ApprovalsIn(log')) = Cardinality(ApprovalsIn(log))
         /\ Cardinality(HandUpsIn(log')) = Cardinality(HandUpsIn(log))
         /\ Cardinality(EscalationsIn(log')) = Cardinality(EscalationsIn(log))
         /\ ApprovalsKnown'
<1>1. PICK t : t = log'
  OBVIOUS
<1>2. /\ RequestsIn(t) = RequestsIn(log) /\ DecisionsIn(t) = DecisionsIn(log)
      /\ \A v : VerdictsIn(t, v) = VerdictsIn(log, v)
      /\ ApprovalsIn(t) = ApprovalsIn(log) /\ HandUpsIn(t) = HandUpsIn(log)
      /\ EscalationsIn(t) = EscalationsIn(log)
  BY <1>1, NothingCounted DEF Followed
<1>3. \A k \in 1 .. Len(log) : t[k] = log[k]
  BY <1>1 DEF Followed, Grown
<1>4. (\A k \in DecisionsIn(log) : t[k] = log[k]) /\ (\A k \in ApprovalsIn(log) : t[k] = log[k])
  BY <1>3 DEF DecisionsIn, ApprovalsIn
<1>5. mem' = mem
  BY DEF Followed
<1> QED
  BY <1>1, <1>2, <1>4, <1>5 DEF Counted, CountsAgree, ApprovalsKnown

LEMMA CountedStep == Month /\ Counted /\ [ReplayNext]_replayVars => Counted'
<1> SUFFICES ASSUME Month, Counted, [ReplayNext]_replayVars
             PROVE  Counted'
  OBVIOUS
<1>0. /\ Timetable /\ CountsAgree /\ ApprovalsKnown /\ tally \in TallyBooks
      /\ seen \subseteq PaymentSet
      /\ IsSeq(log) /\ IsSeq(asked) /\ IsSeq(judged) /\ IsSeq(blocks)
      /\ \A k \in 1 .. Len(blocks) : blocks[k] \in Opinions
  BY DEF Month, Timetable, Answers, Queues, Counted
<1>t. tally' \in TallyBooks
  BY <1>0, TallyStep
<1>f. seen \subseteq seen'
  BY DEF ReplayNext, SignBlock, DeclineBlock, BeginReplayDay, WorkInvoice, ResolveInvoice,
         PassOver, Screen, ResolvePayment, CheckBatch, Close, replayVars, riskVars
<1>n. /\ tally.requests \in Nat /\ tally.pending_recovery \in Nat
      /\ tally.approved \in Nat /\ tally.rejected \in Nat
      /\ Len(asked) \in Nat /\ Len(judged) \in Nat /\ Len(blocks) \in Nat
      /\ HandUps(asked) \in Nat /\ HandUps(judged) \in Nat
      /\ Cardinality(RequestsIn(log)) \in Nat /\ Cardinality(ApprovalsIn(log)) \in Nat
      /\ Cardinality(HandUpsIn(log)) \in Nat /\ Cardinality(EscalationsIn(log)) \in Nat
  BY <1>0, SeqShape, CardsAre, HandUpsAppended DEF TallyBooks
<1>c. /\ tally.requests + Len(asked) + Len(judged) = Cardinality(RequestsIn(log))
      /\ tally.pending_recovery + HandUps(asked) = Cardinality(HandUpsIn(log))
      /\ tally.approved = Cardinality(ApprovalsIn(log))
      /\ tally.approved + tally.rejected + Len(blocks) + HandUps(judged) =
           Cardinality(EscalationsIn(log))
  BY <1>0 DEF CountsAgree
\* The numbers that a request and its decision, whoever submits them, leave.
<1>1. ASSUME NEW req, NEW row, Submitted(req, row, Now),
             tally'.requests + Len(asked') + Len(judged') = tally.requests + Len(asked) + Len(judged) + 1,
             tally'.pending_recovery + HandUps(asked') =
               tally.pending_recovery + HandUps(asked) + Some(IsHandUp(row)),
             tally'.approved = tally.approved,
             tally'.approved + tally'.rejected + Len(blocks') + HandUps(judged') =
               tally.approved + tally.rejected + Len(blocks) + HandUps(judged)
                 + Some(IsEscalation(row) /\ ~SignedIn(log', Len(log) + 2))
      PROVE  Counted'
  <2>1. /\ Cardinality(RequestsIn(log')) = Cardinality(RequestsIn(log)) + 1
        /\ Cardinality(DecisionsIn(log')) = Cardinality(RequestsIn(log'))
        /\ DOMAIN mem'.verdict_counts = Verdict
        /\ \A v \in Verdict : mem'.verdict_counts[v] = Cardinality(VerdictsIn(log', v))
        /\ \A k \in DecisionsIn(log') : log'[k].verdict \in Verdict
        /\ Cardinality(ApprovalsIn(log')) = Cardinality(ApprovalsIn(log))
        /\ Cardinality(HandUpsIn(log')) = Cardinality(HandUpsIn(log)) + Some(IsHandUp(row))
        /\ Cardinality(EscalationsIn(log')) =
             Cardinality(EscalationsIn(log))
               + Some(IsEscalation(row) /\ ~SignedIn(log', Len(log) + 2))
        /\ ApprovalsKnown'
    BY <1>1, <1>f, SubmissionCounted
  <2> QED
    BY <1>1, <1>c, <1>t, <2>1 DEF Counted, CountsAgree
\* And those that are left when nothing is asked.
<1>2. ASSUME Followed,
             tally'.requests + Len(asked') + Len(judged') = tally.requests + Len(asked) + Len(judged),
             tally'.pending_recovery + HandUps(asked') = tally.pending_recovery + HandUps(asked),
             tally'.approved = tally.approved,
             tally'.approved + tally'.rejected + Len(blocks') + HandUps(judged') =
               tally.approved + tally.rejected + Len(blocks) + HandUps(judged)
      PROVE  Counted'
  <2>1. /\ Cardinality(RequestsIn(log')) = Cardinality(RequestsIn(log))
        /\ Cardinality(DecisionsIn(log')) = Cardinality(RequestsIn(log'))
        /\ DOMAIN mem'.verdict_counts = Verdict
        /\ \A v \in Verdict : mem'.verdict_counts[v] = Cardinality(VerdictsIn(log', v))
        /\ \A k \in DecisionsIn(log') : log'[k].verdict \in Verdict
        /\ Cardinality(ApprovalsIn(log')) = Cardinality(ApprovalsIn(log))
        /\ Cardinality(HandUpsIn(log')) = Cardinality(HandUpsIn(log))
        /\ Cardinality(EscalationsIn(log')) = Cardinality(EscalationsIn(log))
        /\ ApprovalsKnown'
    BY <1>2, <1>f, FollowedCounted
  <2> QED
    BY <1>2, <1>c, <1>t, <2>1 DEF Counted, CountsAgree
<1>3. CASE WorkInvoice /\ Ask
  <2>1. PICK req, row : ChaseAsks(req, row)
    BY <1>0, <1>3, ChaseAsksIs
  <2>2. /\ Submitted(req, row, Now) /\ asked' = Append(asked, row)
        /\ UNCHANGED <<tally, judged, blocks>>
        /\ req.settlement = None /\ req.action \notin RISK_ACTIONS
        /\ row.type = "decision" /\ row.req = req
    BY <1>3, <2>1, OthersActions DEF ChaseAsks, Submitted, WorkInvoice, riskVars
  <2>3. Len(asked') = Len(asked) + 1
    BY <1>0, <2>2, RowAdded
  <2>4. HandUps(asked') = HandUps(asked) + (IF row.verdict = "needs_human" THEN 1 ELSE 0)
    BY <1>0, <2>2, HandUpsAppended
  <2>5. (IsHandUp(row) <=> row.verdict = "needs_human") /\ ~IsEscalation(row)
    BY <2>2 DEF IsHandUp, IsEscalation
  <2>6. /\ HandUps(asked') = HandUps(asked) + Some(IsHandUp(row))
        /\ Some(IsHandUp(row)) \in Nat
        /\ Some(IsEscalation(row) /\ ~SignedIn(log', Len(log) + 2)) = 0
    BY <2>4, <2>5 DEF Some
  <2>7. /\ tally'.requests = tally.requests /\ tally'.pending_recovery = tally.pending_recovery
        /\ tally'.approved = tally.approved /\ tally'.rejected = tally.rejected
        /\ Len(judged') = Len(judged) /\ Len(blocks') = Len(blocks)
        /\ HandUps(judged') = HandUps(judged)
    BY <2>2
  <2>8. tally'.requests + Len(asked') + Len(judged') =
          tally.requests + Len(asked) + Len(judged) + 1
    <3> DEFINE r == tally.requests
               a == Len(asked)
               j == Len(judged)
    <3>1. r \in Nat /\ a \in Nat /\ j \in Nat
      BY <1>n
    <3>2. tally'.requests = r /\ Len(asked') = a + 1 /\ Len(judged') = j
      BY <2>3, <2>7
    <3> HIDE DEF r, a, j
    <3>3. r + (a + 1) + j = r + a + j + 1
      BY <3>1
    <3>4. tally'.requests + Len(asked') + Len(judged') = r + a + j + 1
      BY <3>2, <3>3, Zenon
    <3> QED
      BY <3>4, Zenon DEF r, a, j
  <2>9. tally'.pending_recovery + HandUps(asked') =
          tally.pending_recovery + HandUps(asked) + Some(IsHandUp(row))
    BY <1>n, <2>3, <2>6, <2>7
  <2>10. tally'.approved = tally.approved
    BY <1>n, <2>3, <2>6, <2>7
  <2>11. tally'.approved + tally'.rejected + Len(blocks') + HandUps(judged') =
          tally.approved + tally.rejected + Len(blocks) + HandUps(judged)
            + Some(IsEscalation(row) /\ ~SignedIn(log', Len(log) + 2))
    <3> DEFINE n == tally.approved + tally.rejected + Len(blocks) + HandUps(judged)
    <3>1. n \in Nat /\ tally'.approved + tally'.rejected + Len(blocks') + HandUps(judged') = n
      BY <1>n, <2>7, SMTT(30)
    <3> HIDE DEF n
    <3>2. tally'.approved + tally'.rejected + Len(blocks') + HandUps(judged') = n + 0
      BY <3>1
    <3> QED
      BY <2>6, <3>2, Zenon DEF n
  <2> QED
    BY <1>1, <2>2, <2>8, <2>9, <2>10, <2>11
<1>4. CASE Screen
  <2>1. PICK p, req, row : RiskAsks(p, req, row)
    BY <1>4, RiskAsksIs
  <2>2. /\ Submitted(req, row, Now) /\ judged' = Append(judged, row)
        /\ UNCHANGED <<tally, asked, blocks>>
        /\ p \in PaymentSet /\ p \notin seen /\ req = Opinion[p] /\ req.action # None
        /\ row.type = "decision" /\ row.req = req
    BY <2>1 DEF RiskAsks, Submitted, chaseVars
  <2>3. req.action \in RISK_ACTIONS /\ req.id = <<p, "risk">>
    BY <2>2, OpinionIs
  <2>4. Len(judged') = Len(judged) + 1
    BY <1>0, <2>2, RowAdded
  <2>5. HandUps(judged') = HandUps(judged) + (IF row.verdict = "needs_human" THEN 1 ELSE 0)
    BY <1>0, <2>2, HandUpsAppended
  <2>6. (IsEscalation(row) <=> row.verdict = "needs_human") /\ ~IsHandUp(row)
    BY <2>2, <2>3 DEF IsHandUp, IsEscalation
  <2>7. ~SignedIn(log', Len(log) + 2)
    <3> SUFFICES ASSUME NEW j \in 1 .. (Len(log) + 2) - 1,
                        log'[j] = HumanRow("human_approval", req.id)
                 PROVE  FALSE
      BY <2>2 DEF SignedIn, Submitted
    <3>1. j \in 1 .. Len(log) \/ j = Len(log) + 1
      BY <1>0, SeqShape
    <3>2. log'[j].type = "human_approval"
      BY DEF HumanRow
    <3>3. j \in 1 .. Len(log)
      BY <2>2, <3>1, <3>2 DEF Submitted, RequestRow
    <3>4. log'[j] = log[j] /\ j \in ApprovalsIn(log)
      BY <2>2, <3>2, <3>3 DEF Submitted, Grown, ApprovalsIn
    <3>5. PICK q \in seen : log[j] = HumanRow("human_approval", <<q, "risk">>)
      BY <1>0, <3>4 DEF ApprovalsKnown
    <3>6. <<q, "risk">> = <<p, "risk">>
      BY <2>3, <3>4, <3>5 DEF HumanRow
    <3> QED
      BY <2>2, <3>6
  <2>8. /\ HandUps(judged') = HandUps(judged)
               + Some(IsEscalation(row) /\ ~SignedIn(log', Len(log) + 2))
        /\ Some(IsEscalation(row) /\ ~SignedIn(log', Len(log) + 2)) \in Nat
        /\ Some(IsHandUp(row)) = 0
    BY <2>5, <2>6, <2>7 DEF Some
  <2>9. /\ tally'.requests = tally.requests /\ tally'.pending_recovery = tally.pending_recovery
        /\ tally'.approved = tally.approved /\ tally'.rejected = tally.rejected
        /\ Len(asked') = Len(asked) /\ Len(blocks') = Len(blocks)
        /\ HandUps(asked') = HandUps(asked)
    BY <2>2
  <2>10. tally'.requests + Len(asked') + Len(judged') =
          tally.requests + Len(asked) + Len(judged) + 1
    <3> DEFINE r == tally.requests
               a == Len(asked)
               j == Len(judged)
    <3>1. r \in Nat /\ a \in Nat /\ j \in Nat
      BY <1>n
    <3>2. tally'.requests = r /\ Len(asked') = a /\ Len(judged') = j + 1
      BY <2>4, <2>9
    <3> HIDE DEF r, a, j
    <3>3. r + a + (j + 1) = r + a + j + 1
      BY <3>1
    <3>4. tally'.requests + Len(asked') + Len(judged') = r + a + j + 1
      BY <3>2, <3>3, Zenon
    <3> QED
      BY <3>4, Zenon DEF r, a, j
  <2>11. tally'.pending_recovery + HandUps(asked') =
          tally.pending_recovery + HandUps(asked) + Some(IsHandUp(row))
    BY <1>n, <2>4, <2>8, <2>9
  <2>12. tally'.approved = tally.approved
    BY <1>n, <2>4, <2>8, <2>9
  <2>13. tally'.approved + tally'.rejected + Len(blocks') + HandUps(judged') =
          tally.approved + tally.rejected + Len(blocks) + HandUps(judged)
            + Some(IsEscalation(row) /\ ~SignedIn(log', Len(log) + 2))
    <3>1. PICK d \in Nat : d = Some(IsEscalation(row) /\ ~SignedIn(log', Len(log) + 2))
      BY <2>8
    <3> DEFINE g == tally.approved
               r == tally.rejected
               b == Len(blocks)
               h == HandUps(judged)
    <3>2. g \in Nat /\ r \in Nat /\ b \in Nat /\ h \in Nat
      BY <1>n
    <3>3. /\ tally'.approved = g /\ tally'.rejected = r /\ Len(blocks') = b
          /\ HandUps(judged') = h + d
      BY <2>8, <2>9, <3>1, Zenon
    <3> HIDE DEF g, r, b, h
    <3>4. g + r + b + (h + d) = g + r + b + h + d
      BY <3>2
    <3>5. tally'.approved + tally'.rejected + Len(blocks') + HandUps(judged') = g + r + b + h + d
      BY <3>3, <3>4, Zenon
    <3> QED
      BY <3>1, <3>5, Zenon DEF g, r, b, h
  <2> QED
    BY <1>1, <2>2, <2>10, <2>11, <2>12, <2>13
<1>5. CASE CheckBatch
  <2>1. PICK s, req, row : ReconcilerAsks(s, req, row)
    BY <1>5, ReconcilerAsksIs
  <2>2. /\ Submitted(req, row, Now) /\ UNCHANGED <<asked, judged, blocks>>
        /\ s \in DOMAIN Settlements /\ req = Request(reconcile, s)
        /\ row.type = "decision" /\ row.req = req
        /\ tally' = OneMore(tally)
    BY <1>5, <2>1 DEF ReconcilerAsks, Submitted, CheckBatch, riskVars
  <2>3. req.settlement # None /\ req.action \notin RISK_ACTIONS
    BY <2>2, OthersActions, ListsAssumption
  <2>4. ~IsHandUp(row) /\ ~IsEscalation(row)
    BY <2>2, <2>3 DEF IsHandUp, IsEscalation
  <2>5. Some(IsHandUp(row)) = 0 /\ Some(IsEscalation(row) /\ ~SignedIn(log', Len(log) + 2)) = 0
    BY <2>4 DEF Some
  <2>6. /\ tally'.requests = tally.requests + 1 /\ tally'.pending_recovery = tally.pending_recovery
        /\ tally'.approved = tally.approved /\ tally'.rejected = tally.rejected
    BY <1>0, <2>2, TallyFields
  <2>7. tally'.requests + Len(asked') + Len(judged') =
          tally.requests + Len(asked) + Len(judged) + 1
    BY <1>n, <2>2, <2>5, <2>6
  <2>8. tally'.pending_recovery + HandUps(asked') =
          tally.pending_recovery + HandUps(asked) + Some(IsHandUp(row))
    BY <1>n, <2>2, <2>5, <2>6
  <2>9. tally'.approved = tally.approved
    BY <1>n, <2>2, <2>5, <2>6
  <2>10. tally'.approved + tally'.rejected + Len(blocks') + HandUps(judged') =
          tally.approved + tally.rejected + Len(blocks) + HandUps(judged)
            + Some(IsEscalation(row) /\ ~SignedIn(log', Len(log) + 2))
    BY <1>n, <2>2, <2>5, <2>6
  <2> QED
    BY <1>1, <2>2, <2>7, <2>8, <2>9, <2>10
<1>6. CASE SignBlock
  <2>1. PICK req, row : Resubmitted(req, row)
    BY <1>6, ResubmittedIs
  <2>2. /\ req \in Opinions /\ blocks # <<>> /\ blocks' = Tail(blocks)
        /\ UNCHANGED <<asked, judged>> /\ tally' = Signed(tally)
        /\ mem' = Count(Sign(mem, req.id), row) /\ row.verdict \in Verdict
        /\ Grown(log, log')
    BY <1>6, <2>1, DecidedIsVerdict DEF Resubmitted, SignBlock, chaseVars
  <2>3. req.action \in RISK_ACTIONS /\ req.payment \in seen /\ req.id = <<req.payment, "risk">>
    BY <1>0, <2>2, OpinionsAre
  <2>4. /\ Cardinality(RequestsIn(log')) = Cardinality(RequestsIn(log)) + 1
        /\ Cardinality(DecisionsIn(log')) = Cardinality(DecisionsIn(log)) + 1
        /\ \A v : Cardinality(VerdictsIn(log', v)) =
                    Cardinality(VerdictsIn(log, v)) + Some(row.verdict = v)
        /\ Cardinality(ApprovalsIn(log')) = Cardinality(ApprovalsIn(log)) + 1
        /\ Cardinality(HandUpsIn(log')) = Cardinality(HandUpsIn(log))
        /\ Cardinality(EscalationsIn(log')) = Cardinality(EscalationsIn(log))
    BY <2>1, <2>3, ResubmissionCounted
  <2>5. /\ tally'.requests = tally.requests + 1 /\ tally'.pending_recovery = tally.pending_recovery
        /\ tally'.approved = tally.approved + 1 /\ tally'.rejected = tally.rejected
    BY <1>0, <2>2, TallyFields
  <2>6. Len(blocks) = Len(blocks') + 1
    BY <1>0, <2>2, RestOf
  <2>7. PICK m : m = Sign(mem, req.id)
    OBVIOUS
  <2>8. DOMAIN m = CounterNames /\ m.verdict_counts = mem.verdict_counts
    BY <2>7, SignIs DEF Month
  <2>9. /\ DOMAIN mem'.verdict_counts = Verdict
        /\ \A v \in Verdict : mem'.verdict_counts[v] = Cardinality(VerdictsIn(log', v))
    BY <1>0, <2>2, <2>4, <2>7, <2>8, VerdictsCounted
  <2>10. \A k \in 1 .. Len(log) : k \in 1 .. Len(log') /\ log'[k] = log[k]
    BY <2>2 DEF Grown
  <2>11. \A k \in DecisionsIn(log') : log'[k].verdict \in Verdict
    <3> SUFFICES ASSUME NEW k \in DecisionsIn(log')
                 PROVE  log'[k].verdict \in Verdict
      OBVIOUS
    <3>1. k \in 1 .. Len(log') /\ log'[k].type = "decision"
      BY DEF DecisionsIn
    <3>2. k \in 1 .. Len(log) \/ log'[k] = row
      BY <2>1, <3>1 DEF Resubmitted, HumanRow, RequestRow
    <3>3. k \in 1 .. Len(log) => k \in DecisionsIn(log) /\ log'[k] = log[k]
      BY <2>10, <3>1 DEF DecisionsIn
    <3> QED
      BY <1>0, <2>2, <3>2, <3>3 DEF CountsAgree
  <2>12. ApprovalsKnown'
    <3> SUFFICES ASSUME NEW k \in ApprovalsIn(log')
                 PROVE  \E p \in seen' : log'[k] = HumanRow("human_approval", <<p, "risk">>)
      BY DEF ApprovalsKnown
    <3>1. k \in 1 .. Len(log') /\ log'[k].type = "human_approval"
      BY DEF ApprovalsIn
    <3>2. k \in 1 .. Len(log) \/ log'[k] = HumanRow("human_approval", req.id)
      BY <2>1, <3>1 DEF Resubmitted, RequestRow
    <3>3. k \in 1 .. Len(log) => k \in ApprovalsIn(log) /\ log'[k] = log[k]
      BY <2>10, <3>1 DEF ApprovalsIn
    <3> QED
      BY <1>0, <1>f, <2>3, <3>2, <3>3 DEF ApprovalsKnown
  <2>13. CountsAgree'
    <3>1. Cardinality(DecisionsIn(log')) = Cardinality(RequestsIn(log'))
      BY <1>0, <2>4 DEF CountsAgree
    <3>2. /\ Len(asked') = Len(asked) /\ Len(judged') = Len(judged)
          /\ HandUps(asked') = HandUps(asked) /\ HandUps(judged') = HandUps(judged)
      BY <2>2
    <3>3. /\ Cardinality(RequestsIn(log')) = Cardinality(RequestsIn(log)) + 1
          /\ Cardinality(ApprovalsIn(log')) = Cardinality(ApprovalsIn(log)) + 1
          /\ Cardinality(HandUpsIn(log')) = Cardinality(HandUpsIn(log))
          /\ Cardinality(EscalationsIn(log')) = Cardinality(EscalationsIn(log))
      BY <2>4
    <3>4. tally'.requests + Len(asked') + Len(judged') = Cardinality(RequestsIn(log'))
      <4> DEFINE r == tally.requests
                 a == Len(asked)
                 j == Len(judged)
      <4>1. r \in Nat /\ a \in Nat /\ j \in Nat /\ Cardinality(RequestsIn(log)) = r + a + j
        BY <1>c, <1>n
      <4>2. /\ tally'.requests = r + 1 /\ Len(asked') = a /\ Len(judged') = j
            /\ Cardinality(RequestsIn(log')) = (r + a + j) + 1
        BY <2>5, <3>2, <3>3, <4>1
      <4> HIDE DEF r, a, j
      <4>3. (r + 1) + a + j = (r + a + j) + 1
        BY <4>1
      <4> QED
        BY <4>2, <4>3, Zenon
    <3>5. tally'.pending_recovery + HandUps(asked') = Cardinality(HandUpsIn(log'))
      BY <1>c, <1>n, <2>5, <3>2, <3>3
    <3>6. tally'.approved = Cardinality(ApprovalsIn(log'))
      BY <1>c, <1>n, <2>5, <3>3
    <3>7. tally'.approved + tally'.rejected + Len(blocks') + HandUps(judged') =
            Cardinality(EscalationsIn(log'))
      <4>1. Len(blocks') \in Nat
        BY <1>0, <2>2, RestOf, SeqShape
      <4> QED
        <5> DEFINE p == tally.approved
                   r == tally.rejected
                   b == Len(blocks')
                   h == HandUps(judged)
        <5>1. /\ p \in Nat /\ r \in Nat /\ b \in Nat /\ h \in Nat
              /\ Cardinality(EscalationsIn(log)) = p + r + (b + 1) + h
          BY <1>c, <1>n, <2>6, <4>1
        <5>2. /\ tally'.approved = p + 1 /\ tally'.rejected = r /\ Len(blocks') = b
              /\ HandUps(judged') = h
              /\ Cardinality(EscalationsIn(log')) = p + r + (b + 1) + h
          BY <2>5, <3>2, <3>3, <5>1
        <5> HIDE DEF p, r, b, h
        <5>3. (p + 1) + r + b + h = p + r + (b + 1) + h
          BY <5>1
        <5> QED
          BY <5>2, <5>3, Zenon
    <3> QED
      BY <2>9, <2>11, <3>1, <3>4, <3>5, <3>6, <3>7 DEF CountsAgree
  <2> QED
    BY <1>t, <2>12, <2>13 DEF Counted
<1>7. CASE ResolveInvoice
  <2>1. /\ Followed /\ asked # <<>> /\ asked' = Tail(asked) /\ UNCHANGED <<judged, blocks>>
    BY <1>7, FollowedIs DEF ResolveInvoice, Overlook, Resolve, riskVars
  <2>2. Len(asked) = Len(asked') + 1 /\ Len(asked') \in Nat
    BY <1>0, <2>1, RestOf, SeqShape
  <2>3. /\ HandUps(asked') \in Nat
        /\ HandUps(asked) = HandUps(asked') + (IF Head(asked).verdict = "needs_human" THEN 1 ELSE 0)
    BY <1>0, <2>1, HandUpsTaken
  <2>4. /\ tally'.requests = tally.requests + 1
        /\ tally'.pending_recovery =
             tally.pending_recovery + (IF Head(asked).verdict = "needs_human" THEN 1 ELSE 0)
        /\ tally'.approved = tally.approved /\ tally'.rejected = tally.rejected
    <3> DEFINE more == OneMore(tally)
    <3>1. /\ more = [requests |-> tally.requests + 1, pending_recovery |-> tally.pending_recovery,
                     approved |-> tally.approved, rejected |-> tally.rejected]
          /\ tally.pending_recovery \in Nat
      BY <1>0, TallyIs DEF TallyBooks
    <3>2. tally' = [more EXCEPT !.pending_recovery =
                      IF Head(asked).verdict = "needs_human"
                        THEN more.pending_recovery + 1 ELSE more.pending_recovery]
      BY <1>7 DEF ResolveInvoice
    <3> HIDE DEF more
    <3>3. CASE Head(asked).verdict = "needs_human"
      <4>1. tally' = [requests |-> tally.requests + 1,
                      pending_recovery |-> tally.pending_recovery + 1,
                      approved |-> tally.approved, rejected |-> tally.rejected]
        BY <3>1, <3>2, <3>3
      <4> QED
        BY <3>3, <4>1
    <3>4. CASE Head(asked).verdict # "needs_human"
      <4>1. tally' = [requests |-> tally.requests + 1,
                      pending_recovery |-> tally.pending_recovery,
                      approved |-> tally.approved, rejected |-> tally.rejected]
        BY <3>1, <3>2, <3>4
      <4> QED
        BY <1>n, <3>4, <4>1
    <3> QED
      BY <3>3, <3>4
  <2>5. /\ Len(judged') = Len(judged) /\ Len(blocks') = Len(blocks)
        /\ HandUps(judged') = HandUps(judged)
    BY <2>1
  <2>6. tally'.requests + Len(asked') + Len(judged') =
          tally.requests + Len(asked) + Len(judged)
    <3> DEFINE r == tally.requests
               a == Len(asked')
               j == Len(judged)
    <3>1. r \in Nat /\ a \in Nat /\ j \in Nat
      BY <1>n, <2>2
    <3>2. tally'.requests = r + 1 /\ Len(asked) = a + 1 /\ Len(judged') = j
      BY <2>2, <2>4, <2>5
    <3> HIDE DEF r, a, j
    <3>3. (r + 1) + a + j = r + (a + 1) + j
      BY <3>1
    <3>4. tally'.requests + a + Len(judged') = r + Len(asked) + j
      BY <3>2, <3>3, Zenon
    <3> QED
      BY <3>4, Zenon DEF r, a, j
  <2>7. tally'.pending_recovery + HandUps(asked') =
          tally.pending_recovery + HandUps(asked)
    <3> DEFINE p == tally.pending_recovery
               h == HandUps(asked')
    <3>1. PICK d \in {0, 1} : d = IF Head(asked).verdict = "needs_human" THEN 1 ELSE 0
      OBVIOUS
    <3>2. p \in Nat /\ h \in Nat
      BY <1>n, <2>3
    <3>3. tally'.pending_recovery = p + d /\ HandUps(asked) = h + d
      BY <2>3, <2>4, <3>1
    <3> HIDE DEF p, h
    <3>4. (p + d) + h = p + (h + d)
      BY <3>2
    <3>5. tally'.pending_recovery + h = p + HandUps(asked)
      BY <3>3, <3>4, Zenon
    <3> QED
      BY <3>5, Zenon DEF p, h
  <2>8. tally'.approved = tally.approved
    BY <1>n, <2>2, <2>3, <2>4, <2>5
  <2>9. tally'.approved + tally'.rejected + Len(blocks') + HandUps(judged') =
          tally.approved + tally.rejected + Len(blocks) + HandUps(judged)
    BY <1>n, <2>2, <2>3, <2>4, <2>5
  <2> QED
    BY <1>2, <2>1, <2>6, <2>7, <2>8, <2>9
<1>8. CASE ResolvePayment
  <2>1. /\ Followed /\ judged # <<>> /\ judged' = Tail(judged) /\ asked' = asked
        /\ tally' = OneMore(tally)
        /\ blocks' = IF Head(judged).verdict = "needs_human"
                       THEN Append(blocks, Head(judged).req) ELSE blocks
    BY <1>8, FollowedIs DEF ResolvePayment
  <2>2. Len(judged) = Len(judged') + 1 /\ Len(judged') \in Nat
    BY <1>0, <2>1, RestOf, SeqShape
  <2>3. /\ HandUps(judged') \in Nat
        /\ HandUps(judged) = HandUps(judged') + (IF Head(judged).verdict = "needs_human" THEN 1 ELSE 0)
    BY <1>0, <2>1, HandUpsTaken
  <2>4. Len(blocks') = Len(blocks) + (IF Head(judged).verdict = "needs_human" THEN 1 ELSE 0)
    <3>1. \A e : Len(Append(blocks, e)) = Len(blocks) + 1
      BY <1>0, RowAdded
    <3> QED
      BY <1>n, <2>1, <3>1
  <2>5. /\ tally'.requests = tally.requests + 1 /\ tally'.pending_recovery = tally.pending_recovery
        /\ tally'.approved = tally.approved /\ tally'.rejected = tally.rejected
    BY <1>0, <2>1, TallyFields
  <2>6. tally'.requests + Len(asked') + Len(judged') =
          tally.requests + Len(asked) + Len(judged)
    <3> DEFINE r == tally.requests
               a == Len(asked)
               j == Len(judged')
    <3>1. r \in Nat /\ a \in Nat /\ j \in Nat
      BY <1>n, <2>2
    <3>2. tally'.requests = r + 1 /\ Len(asked') = a /\ Len(judged) = j + 1
      BY <2>1, <2>2, <2>5
    <3> HIDE DEF r, a, j
    <3>3. (r + 1) + a + j = r + a + (j + 1)
      BY <3>1
    <3>4. tally'.requests + Len(asked') + j = r + a + Len(judged)
      BY <3>2, <3>3, Zenon
    <3> QED
      BY <3>4, Zenon DEF r, a, j
  <2>7. tally'.pending_recovery + HandUps(asked') =
          tally.pending_recovery + HandUps(asked)
    BY <1>n, <2>1, <2>2, <2>3, <2>4, <2>5
  <2>8. tally'.approved = tally.approved
    BY <1>n, <2>1, <2>2, <2>3, <2>4, <2>5
  <2>9. tally'.approved + tally'.rejected + Len(blocks') + HandUps(judged') =
          tally.approved + tally.rejected + Len(blocks) + HandUps(judged)
    <3> DEFINE p == tally.approved
               r == tally.rejected
               b == Len(blocks)
               h == HandUps(judged')
    <3>1. PICK d \in {0, 1} : d = IF Head(judged).verdict = "needs_human" THEN 1 ELSE 0
      OBVIOUS
    <3>2. p \in Nat /\ r \in Nat /\ b \in Nat /\ h \in Nat
      BY <1>n, <2>3
    <3>3. /\ tally'.approved = p /\ tally'.rejected = r /\ Len(blocks') = b + d
          /\ HandUps(judged) = h + d
      BY <2>3, <2>4, <2>5, <3>1
    <3> HIDE DEF p, r, b, h
    <3>4. p + r + (b + d) + h = p + r + b + (h + d)
      BY <3>2
    <3>5. tally'.approved + tally'.rejected + Len(blocks') + h = p + r + b + HandUps(judged)
      BY <3>3, <3>4, Zenon
    <3> QED
      BY <3>5, Zenon DEF p, r, b, h
  <2> QED
    BY <1>2, <2>1, <2>6, <2>7, <2>8, <2>9
<1>9. CASE DeclineBlock
  <2>1. /\ Followed /\ blocks # <<>> /\ blocks' = Tail(blocks) /\ UNCHANGED <<asked, judged>>
        /\ tally' = [tally EXCEPT !.rejected = tally.rejected + 1]
    BY <1>9, FollowedIs DEF DeclineBlock, vars
  <2>2. Len(blocks) = Len(blocks') + 1 /\ Len(blocks') \in Nat
    BY <1>0, <2>1, RestOf, SeqShape
  <2>3. /\ tally'.requests = tally.requests /\ tally'.pending_recovery = tally.pending_recovery
        /\ tally'.approved = tally.approved /\ tally'.rejected = tally.rejected + 1
    BY <1>0, <2>1 DEF TallyBooks
  <2>4. /\ Len(asked') = Len(asked) /\ Len(judged') = Len(judged)
        /\ HandUps(asked') = HandUps(asked) /\ HandUps(judged') = HandUps(judged)
    BY <2>1
  <2>5. tally'.requests + Len(asked') + Len(judged') =
          tally.requests + Len(asked) + Len(judged)
    BY <1>n, <2>2, <2>3, <2>4
  <2>6. tally'.pending_recovery + HandUps(asked') =
          tally.pending_recovery + HandUps(asked)
    BY <1>n, <2>2, <2>3, <2>4
  <2>7. tally'.approved = tally.approved
    BY <1>n, <2>2, <2>3, <2>4
  <2>8. tally'.approved + tally'.rejected + Len(blocks') + HandUps(judged') =
          tally.approved + tally.rejected + Len(blocks) + HandUps(judged)
    <3> DEFINE p == tally.approved
               r == tally.rejected
               b == Len(blocks')
               h == HandUps(judged)
    <3>1. p \in Nat /\ r \in Nat /\ b \in Nat /\ h \in Nat
      BY <1>n, <2>2
    <3>2. /\ tally'.approved = p /\ tally'.rejected = r + 1 /\ Len(blocks) = b + 1
          /\ HandUps(judged') = h
      BY <2>2, <2>3, <2>4
    <3> HIDE DEF p, r, b, h
    <3>3. p + (r + 1) + b + h = p + r + (b + 1) + h
      BY <3>1
    <3>4. tally'.approved + tally'.rejected + b + HandUps(judged') = p + r + Len(blocks) + h
      BY <3>2, <3>3, Zenon
    <3> QED
      BY <3>4, Zenon DEF p, r, b, h
  <2> QED
    BY <1>2, <2>1, <2>5, <2>6, <2>7, <2>8
<1>10. CASE BeginReplayDay \/ (WorkInvoice /\ LeaveAlone) \/ PassOver \/ Close
              \/ UNCHANGED replayVars
  <2>1. Followed
    BY <1>10, FollowedIs
  <2>2. UNCHANGED <<asked, judged, blocks, tally>>
    BY <1>10 DEF BeginReplayDay, BeginDay, WorkInvoice, LeaveAlone, PassOver, Close, Finish,
       replayVars, vars, riskVars
  <2> QED
    BY <1>2, <2>1, <2>2
<1>11. WorkInvoice => (WorkInvoice /\ Ask) \/ (WorkInvoice /\ LeaveAlone)
  BY DEF WorkInvoice
<1> QED
  BY <1>3, <1>4, <1>5, <1>6, <1>7, <1>8, <1>9, <1>10, <1>11 DEF ReplayNext

\* The scorecard's numbers, counted in four loops and in the gateway, are those
\* of the log at the end of every day, for every dataset, every ground truth and
\* any number of days (replay.py:213-273, 333-365).
THEOREM ReplayScorecardAddsUp == ReplaySpec => []ScorecardAddsUp
<1>1. Month /\ Counted => ScorecardAddsUp
  <2> SUFFICES ASSUME Month, Counted, DayDone
               PROVE  /\ tally.requests = Cardinality(RequestRows)
                      /\ \A verdict \in Verdict :
                           mem.verdict_counts[verdict] = Cardinality(Decisions(verdict))
                      /\ tally.requests =
                           Cardinality(UNION {Decisions(verdict) : verdict \in Verdict})
                      /\ tally.pending_recovery = Cardinality(ByRecovery(Decisions("needs_human")))
                      /\ tally.approved =
                           Cardinality({k \in DOMAIN log : log[k].type = "human_approval"})
                      /\ tally.approved + tally.rejected + Len(blocks) =
                           Cardinality({k \in OnRisk(Decisions("needs_human")) :
                                          ~SignatureBefore(k)})
    BY DEF ScorecardAddsUp
  <2>0. IsSeq(log) /\ IsSeq(blocks) /\ DOMAIN log = 1 .. Len(log)
    BY SeqShape DEF Month, Timetable, Answers, Queues
  <2>1. RequestRows = RequestsIn(log)
    BY <2>0 DEF RequestRows, RequestsIn
  <2>2. \A v : Decisions(v) = VerdictsIn(log, v)
    BY <2>0 DEF Decisions, VerdictsIn
  <2>3. UNION {Decisions(verdict) : verdict \in Verdict} = DecisionsIn(log)
    <3>1. \A k \in DecisionsIn(log) : log[k].verdict \in Verdict /\ k \in Decisions(log[k].verdict)
      BY <2>0 DEF Counted, CountsAgree, DecisionsIn, Decisions
    <3>2. \A v : Decisions(v) \subseteq DecisionsIn(log)
      BY <2>0 DEF Decisions, DecisionsIn
    <3> QED
      BY <3>1, <3>2
  <2>4. ByRecovery(Decisions("needs_human")) = HandUpsIn(log)
    BY <2>0 DEF ByRecovery, OnRisk, Decisions, HandUpsIn, IsHandUp
  <2>5. {k \in DOMAIN log : log[k].type = "human_approval"} = ApprovalsIn(log)
    BY <2>0 DEF ApprovalsIn
  <2>6. {k \in OnRisk(Decisions("needs_human")) : ~SignatureBefore(k)} = EscalationsIn(log)
    BY <2>0 DEF OnRisk, Decisions, SignatureBefore, EscalationsIn, IsEscalation, SignedIn
  <2>7. asked = <<>> /\ judged = <<>>
    BY DEF DayDone, RiskDone, RecoveryDone
  <2>8. Len(asked) = 0 /\ Len(judged) = 0 /\ HandUps(asked) = 0 /\ HandUps(judged) = 0
    BY <2>7, NoSeq, NoHandUps
  <2>9. /\ tally.requests \in Nat /\ tally.pending_recovery \in Nat
        /\ tally.approved \in Nat /\ tally.rejected \in Nat /\ Len(blocks) \in Nat
    BY <2>0, SeqShape DEF Counted, TallyBooks
  <2>10. /\ tally.requests = Cardinality(RequestsIn(log))
         /\ tally.requests = Cardinality(DecisionsIn(log))
         /\ tally.pending_recovery = Cardinality(HandUpsIn(log))
         /\ tally.approved = Cardinality(ApprovalsIn(log))
         /\ tally.approved + tally.rejected + Len(blocks) = Cardinality(EscalationsIn(log))
    BY <2>8, <2>9 DEF Counted, CountsAgree
  <2> QED
    BY <2>1, <2>2, <2>3, <2>4, <2>5, <2>6, <2>10 DEF Counted, CountsAgree
<1> QED
  BY <1>1, MonthInit, MonthStep, CountedInit, CountedStep, PTL DEF ReplaySpec
-----------------------------------------------------------------------------
(* The money of the fraud columns: each allowed decision is priced once.     *)

NoneTwice ==
  \A m, n \in 1 .. Len(judged) : judged[m].req.payment = judged[n].req.payment => m = n

\* No two allowed rows about one payment, whose key is used up by the first,
\* and no payment twice among the day's answers.
Once ==
  /\ \A k \in 1 .. Len(log) : HasOutcome(log[k]) => log[k].req.key \in mem.used_keys
  /\ \A j, k \in 1 .. Len(log) :
       HasOutcome(log[j]) /\ HasOutcome(log[k]) /\ log[j].req.payment = log[k].req.payment => j = k
  /\ NoneTwice

\* What the ground truth makes of an allowed row.
Worth(row) == IF Stops(fate, row.req) THEN row.req.amount ELSE 0

ReportedOn(k) == \E j \in k + 1 .. Len(log) : log[j] = Reported(log[k].req, Worth(log[k]))

\* Who has been priced was allowed, and an outcome was reported; who was allowed
\* has been priced or is among the day's answers.
Accounted ==
  /\ \A p \in rsim.judged : \E k \in 1 .. Len(log) : HasOutcome(log[k]) /\ log[k].req.payment = p
  /\ \A n \in 1 .. Len(judged) :
       HasOutcome(judged[n]) => judged[n].req.payment \notin rsim.judged
  /\ \A k \in 1 .. Len(log) : HasOutcome(log[k]) =>
       IF log[k].req.payment \in rsim.judged
         THEN ReportedOn(k)
         ELSE \E n \in 1 .. Len(judged) : judged[n] = log[k]

Booked(row, priced) == HasOutcome(row) /\ row.req.payment \in priced

Saved(row, f, priced) == IF Booked(row, priced) /\ Stops(f, row.req) THEN row.req.amount ELSE 0

Lost(row, f, priced) ==
  IF Booked(row, priced) /\ ~Stops(f, row.req) /\ row.req.action = "block_order"
    THEN row.req.amount ELSE 0

Columns ==
  /\ rsim.prevented = Total([k \in 1 .. Len(log) |-> Saved(log[k], fate, rsim.judged)])
  /\ rsim.lost_sale = Total([k \in 1 .. Len(log) |-> Lost(log[k], fate, rsim.judged)])

LEMMA FreshKey ==
  ASSUME NEW m, NEW b, NEW req, NEW at, Allowed(Decided(m, b, req, at)), req.key # None
  PROVE  req.key \notin m.used_keys
<1> DEFINE ctx == build_context(m, b, req, at)
<1>1. Judgement(req, ctx) = "allow"
  BY DEF Allowed, Decided, DecisionRow
<1>2. ctx.used_idempotency_keys = m.used_keys
  BY DEF build_context
<1> HIDE DEF ctx
<1>3. r05_duplicate_action(req, ctx) # "deny"
  BY <1>1, AllowMeansNobodyObjects
<1> QED
  BY <1>2, <1>3 DEF r05_duplicate_action

\* What is about a payment has the one key that belongs to it.
LEMMA OpinionKey ==
  ASSUME NEW p \in PaymentSet, Opinion[p].action # None
  PROVE  Opinion[p].key # None /\ Opinion[p].amount \in Int
<1>1. p \in DOMAIN Payments
  BY CapturedIs
<1>2. PICK req : req = Opinion[p]
  OBVIOUS
<1>3. req = RiskRequest(Payments, p) /\ req.key = <<p, req.action>> /\ req.action \in RISK_ACTIONS
  BY <1>2, OpinionIs
<1>4. req.amount = Payments[p].amount
  BY <1>3 DEF RiskRequest
<1>5. req.key \in (DOMAIN Payments) \X RISK_ACTIONS
  BY <1>1, <1>3
<1> QED
  BY <1>1, <1>2, <1>4, <1>5, BankAssumption, ListsAssumption

\* An allowed row of the log is about a payment that was screened.
LEMMA ActedIs ==
  ASSUME Month, RiskRows, NEW k \in 1 .. Len(log), HasOutcome(log[k])
  PROVE  log[k].req \in Opinions
BY DEF HasOutcome, Allowed, RiskRows

LEMMA OnceInit == ReplayInit => Once
BY NoSeq DEF ReplayInit, Init, Once, NoneTwice

\* A decision is the only new row that can be an allow, and its key is new.
NewKey(keys, row) ==
  mem'.used_keys = IF row.verdict = "allow" THEN keys \cup ({row.req.key} \ {None}) ELSE keys

OnlyNew(row, place) ==
  \A k \in 1 .. Len(log') : HasOutcome(log'[k]) =>
    k \in 1 .. Len(log) \/ (k = place /\ log'[k] = row)

LEMMA OnceDecided ==
  ASSUME Month, RiskRows, Once, seen \subseteq seen', seen' \subseteq PaymentSet,
         Grown(log, log'), NEW m, NEW b, NEW req, NEW at, NEW row, NEW place,
         row = Decided(m, b, req, at), m.used_keys = mem.used_keys,
         HasOutcome(row) => req \in Opinions',
         NewKey(mem.used_keys, row), OnlyNew(row, place), NoneTwice'
  PROVE  Once'
<1>1. row.req = req
  BY DecisionIs
<1>2. mem.used_keys \subseteq mem'.used_keys
  BY DEF NewKey
<1>3. \A k \in 1 .. Len(log) : k \in 1 .. Len(log') /\ log'[k] = log[k]
  BY DEF Grown
<1>4. ASSUME HasOutcome(row)
      PROVE  /\ req.key \in mem'.used_keys
             /\ \A j \in 1 .. Len(log) :
                  HasOutcome(log[j]) => log[j].req.payment # req.payment
  <2>1. Allowed(row) /\ row.verdict = "allow"
    BY <1>4 DEF HasOutcome, Allowed
  <2>2. PICK p \in PaymentSet : req = Opinion[p] /\ Opinion[p].action # None
    BY <1>4 DEF Opinions
  <2>k. req.key # None /\ req.payment = p
    BY <2>2, OpinionKey, OpinionIs
  <2>3. req.key \notin mem.used_keys
    BY <2>1, <2>k, FreshKey
  <2>4. ASSUME NEW j \in 1 .. Len(log), HasOutcome(log[j]), log[j].req.payment = req.payment
        PROVE  FALSE
    <3>1. log[j].req \in Opinions /\ log[j].req.key \in mem.used_keys
      BY <2>4, ActedIs DEF Once
    <3>2. PICK q \in PaymentSet : log[j].req = Opinion[q]
      BY <3>1 DEF Opinions
    <3>3. log[j].req = req
      BY <2>2, <2>k, <2>4, <3>2, OpinionIs
    <3> QED
      BY <2>3, <3>1, <3>3
  <2> QED
    BY <1>1, <2>1, <2>k, <2>4 DEF NewKey
<1>5. \A k \in 1 .. Len(log') : HasOutcome(log'[k]) => log'[k].req.key \in mem'.used_keys
  BY <1>1, <1>2, <1>3, <1>4 DEF Once, OnlyNew
<1>6. ASSUME NEW j \in 1 .. Len(log'), NEW k \in 1 .. Len(log'),
             HasOutcome(log'[j]), HasOutcome(log'[k]),
             log'[j].req.payment = log'[k].req.payment
      PROVE  j = k
  <2>1. CASE j \in 1 .. Len(log) /\ k \in 1 .. Len(log)
    BY <1>3, <1>6, <2>1 DEF Once
  <2>2. CASE j \in 1 .. Len(log) /\ k \notin 1 .. Len(log)
    <3>1. log'[j] = log[j] /\ log'[k] = row
      BY <1>3, <1>6, <2>2 DEF OnlyNew
    <3> QED
      BY <1>1, <1>4, <1>6, <2>2, <3>1
  <2>3. CASE j \notin 1 .. Len(log) /\ k \in 1 .. Len(log)
    <3>1. log'[k] = log[k] /\ log'[j] = row
      BY <1>3, <1>6, <2>3 DEF OnlyNew
    <3> QED
      BY <1>1, <1>4, <1>6, <2>3, <3>1
  <2>4. CASE j \notin 1 .. Len(log) /\ k \notin 1 .. Len(log)
    BY <1>6, <2>4 DEF OnlyNew
  <2> QED
    BY <2>1, <2>2, <2>3, <2>4
<1> QED
  BY <1>5, <1>6 DEF Once

LEMMA OnceStep == Month /\ RiskRows /\ Once /\ [ReplayNext]_replayVars => Once'
<1> SUFFICES ASSUME Month, RiskRows, Once, [ReplayNext]_replayVars
             PROVE  Once'
  OBVIOUS
<1>m. Month'
  BY MonthStep
<1>0. /\ Timetable /\ seen \subseteq PaymentSet /\ seen' \subseteq PaymentSet
      /\ IsSeq(judged) /\ (\A k \in 1 .. Len(judged) : IsRuling(judged[k]))
      /\ DOMAIN mem = CounterNames /\ seen \subseteq seen'
  <2>1. seen \subseteq seen'
    BY DEF ReplayNext, SignBlock, DeclineBlock, BeginReplayDay, WorkInvoice, ResolveInvoice,
           PassOver, Screen, ResolvePayment, CheckBatch, Close, replayVars, riskVars
  <2> QED
    BY <1>m, <2>1 DEF Month, Queues
<1>1. CASE Followed
  <2>1. /\ Grown(log, log') /\ mem' = mem
        /\ \A k \in 1 .. Len(log') : HasOutcome(log'[k]) => k \in 1 .. Len(log)
    BY <1>1 DEF Followed, HasOutcome, Allowed
  <2>2. \/ judged' = judged
        \/ judged # <<>> /\ judged' = Tail(judged)
        \/ Screen
    BY DEF ReplayNext, SignBlock, DeclineBlock, BeginReplayDay, WorkInvoice, ResolveInvoice,
           PassOver, ResolvePayment, CheckBatch, Close, replayVars, riskVars
  <2>3. ~Screen
    <3>1. SUFFICES ASSUME Screen
                   PROVE  FALSE
      OBVIOUS
    <3>2. PICK p, req, row : RiskAsks(p, req, row)
      BY <3>1, RiskAsksIs
    <3>3. /\ Len(log') = Len(log) + 2 /\ log'[Len(log) + 2].type = "decision"
          /\ Len(log) \in Nat
      BY <3>2 DEF RiskAsks, Submitted, Grown
    <3>4. Len(log) + 2 \in 1 .. Len(log') /\ Len(log) + 2 \notin 1 .. Len(log)
      BY <3>3
    <3> QED
      BY <1>1, <3>3, <3>4 DEF Followed
  <2>4. NoneTwice'
    <3>1. CASE judged' = judged
      BY <3>1 DEF Once, NoneTwice
    <3>2. CASE judged # <<>> /\ judged' = Tail(judged)
      <4>1. \A n \in 1 .. Len(judged') : judged'[n] = judged[n + 1] /\ n + 1 \in 1 .. Len(judged)
        BY <1>0, <3>2, RestOf
      <4>2. \A m, n \in 1 .. Len(judged') : m + 1 = n + 1 => m = n
        OBVIOUS
      <4> QED
        BY <4>1, <4>2 DEF Once, NoneTwice
    <3> QED
      BY <2>2, <2>3, <3>1, <3>2
  <2>5. \A k \in 1 .. Len(log') : HasOutcome(log'[k]) => log'[k] = log[k]
    BY <2>1 DEF Grown
  <2> QED
    BY <2>1, <2>4, <2>5 DEF Once
<1>2. CASE SignBlock
  <2>1. PICK req, row : Resubmitted(req, row)
    BY <1>2, ResubmittedIs
  <2>2. PICK m : m = Sign(mem, req.id)
    OBVIOUS
  <2>3. /\ req \in Opinions /\ row = Decided(m, books, req, Tomorrow)
        /\ Grown(log, log') /\ Len(log) \in Nat
        /\ log'[Len(log) + 1] = HumanRow("human_approval", req.id)
        /\ log'[Len(log) + 2] = RequestRow(req)
        /\ log'[Len(log) + 3] = row
        /\ \A k \in 1 .. Len(log') :
             \/ k \in 1 .. Len(log)
             \/ k = Len(log) + 1 \/ k = Len(log) + 2 \/ k = Len(log) + 3
             \/ log'[k].type = "outcome"
        /\ mem' = Count(m, row) /\ judged' = judged
    BY <2>1, <2>2 DEF Resubmitted, Grown
  <2>4. DOMAIN m = CounterNames /\ m.used_keys = mem.used_keys
    BY <1>0, <2>2, SignIs
  <2>5. NewKey(mem.used_keys, row)
    <3>1. Count(m, row).used_keys =
            IF row.verdict = "allow" THEN m.used_keys \cup ({row.req.key} \ {None})
                                     ELSE m.used_keys
      BY <2>4, CountIs
    <3>2. mem' = Count(m, row) /\ m.used_keys = mem.used_keys
      BY <2>3, <2>4
    <3> QED
      BY <3>1, <3>2 DEF NewKey
  <2>6. OnlyNew(row, Len(log) + 3)
    BY <2>3, RequestRowIs DEF OnlyNew, HasOutcome, Allowed, HumanRow
  <2>7. req \in Opinions'
    BY <1>0, <2>3, OpinionsStay
  <2>8. NoneTwice'
    BY <2>3 DEF Once, NoneTwice
  <2> QED
    BY <1>0, <2>3, <2>4, <2>5, <2>6, <2>7, <2>8, OnceDecided
<1>3. ASSUME NEW req, NEW row, Submitted(req, row, Now), HasOutcome(row) => req \in Opinions',
             NoneTwice'
      PROVE  Once'
  <2>1. /\ row = Decided(mem, books, req, Now) /\ Grown(log, log')
        /\ log'[Len(log) + 1] = RequestRow(req)
        /\ log'[Len(log) + 2] = row
        /\ \A k \in 1 .. Len(log') : k \in 1 .. Len(log) \/ k = Len(log) + 1 \/ k = Len(log) + 2
        /\ mem' = Count(mem, row)
    BY <1>3 DEF Submitted
  <2>2. NewKey(mem.used_keys, row)
    BY <1>0, <2>1, CountIs DEF NewKey
  <2>3. OnlyNew(row, Len(log) + 2)
    BY <2>1, RequestRowIs DEF OnlyNew, HasOutcome, Allowed
  <2> QED
    BY <1>0, <1>3, <2>1, <2>2, <2>3, OnceDecided
<1>4. CASE Screen
  <2>1. PICK p, req, row : RiskAsks(p, req, row)
    BY <1>4, RiskAsksIs
  <2>2. /\ p \notin seen /\ req = Opinion[p] /\ p \in PaymentSet /\ req.action # None
        /\ seen' = seen \cup {p} /\ Submitted(req, row, Now) /\ judged' = Append(judged, row)
        /\ row.req = req
    BY <2>1 DEF RiskAsks, Submitted
  <2>3. req \in Opinions' /\ req.payment = p
    BY <2>2, OpinionIs DEF Opinions
  <2>4. \A n \in 1 .. Len(judged) : judged[n].req.payment \in seen
    BY <1>0, OpinionsAre DEF IsRuling
  <2>5. /\ judged'[Len(judged) + 1] = row
        /\ \A k \in 1 .. Len(judged) : judged'[k] = judged[k]
        /\ \A k \in 1 .. Len(judged') : k \in 1 .. Len(judged) \/ k = Len(judged) + 1
    BY <1>0, <2>2, RowAdded DEF Grown
  <2>6. NoneTwice'
    BY <2>2, <2>3, <2>4, <2>5 DEF Once, NoneTwice
  <2> QED
    BY <1>3, <2>2, <2>3, <2>6
<1>5. CASE WorkInvoice /\ Ask
  <2>1. PICK req, row : ChaseAsks(req, row)
    BY <1>0, <1>5, ChaseAsksIs
  <2>2. judged' = judged /\ row.req = req
    BY <1>5, <2>1 DEF WorkInvoice, riskVars, ChaseAsks, Submitted
  <2>3. ~HasOutcome(row)
    BY <2>1, <2>2, OthersActions DEF ChaseAsks, HasOutcome
  <2> QED
    BY <1>3, <2>1, <2>2, <2>3 DEF ChaseAsks, Once, NoneTwice
<1>6. CASE CheckBatch
  <2>1. PICK s, req, row : ReconcilerAsks(s, req, row)
    BY <1>6, ReconcilerAsksIs
  <2>2. judged' = judged /\ row.req = req
    BY <2>1 DEF ReconcilerAsks, Submitted
  <2>3. ~HasOutcome(row)
    BY <2>1, <2>2, OthersActions DEF ReconcilerAsks, HasOutcome
  <2> QED
    BY <1>3, <2>1, <2>2, <2>3 DEF ReconcilerAsks, Once, NoneTwice
<1> QED
  BY <1>1, <1>2, <1>4, <1>5, <1>6, FollowedIs DEF ReplayNext, WorkInvoice
-----------------------------------------------------------------------------
(* Nothing is priced, or one allowed row is.                                 *)

\* What is allowed meanwhile is about a payment nobody has screened before.
Spares ==
  /\ Grown(log, log') /\ fate' = fate /\ rsim' = rsim
  /\ \A k \in 1 .. Len(log') : HasOutcome(log'[k]) =>
       k \in 1 .. Len(log) \/ log'[k].req.payment \notin seen

Prices(row, k) ==
  /\ Grown(log, log') /\ fate' = fate
  /\ HasOutcome(row) /\ k \in 1 .. Len(log') /\ log'[k] = row
  /\ row.req.payment \notin rsim.judged
  /\ rsim' = ObserveRisk(rsim, fate, row)
  /\ \E j \in k + 1 .. Len(log') : log'[j] = Reported(row.req, Worth(row))
  /\ \A i \in 1 .. Len(log') : HasOutcome(log'[i]) => i \in 1 .. Len(log) \/ i = k

LEMMA ObservedIs ==
  ASSUME NEW r, NEW f, NEW row, HasOutcome(row)
  PROVE  LET o == ObserveRisk(r, f, row)
         IN  /\ o.judged = r.judged \cup {row.req.payment}
             /\ o.prevented = r.prevented + (IF Stops(f, row.req) THEN row.req.amount ELSE 0)
             /\ o.lost_sale = r.lost_sale
                  + (IF ~Stops(f, row.req) /\ row.req.action = "block_order"
                       THEN row.req.amount ELSE 0)
<1>1. ObserveRisk(r, f, row) =
        [prevented |-> r.prevented + (IF Stops(f, row.req) THEN row.req.amount ELSE 0),
         lost_sale |-> r.lost_sale
                         + (IF ~Stops(f, row.req) /\ row.req.action = "block_order"
                              THEN row.req.amount ELSE 0),
         judged    |-> r.judged \cup {row.req.payment},
         stopped   |-> r.stopped \cup (IF Stops(f, row.req) THEN {row.req.payment} ELSE {})]
  BY Zenon DEF ObserveRisk
<1> DEFINE o == ObserveRisk(r, f, row)
           prevented == r.prevented + (IF Stops(f, row.req) THEN row.req.amount ELSE 0)
           lost == r.lost_sale + (IF ~Stops(f, row.req) /\ row.req.action = "block_order"
                                    THEN row.req.amount ELSE 0)
           payments == r.judged \cup {row.req.payment}
           stopped == r.stopped \cup (IF Stops(f, row.req) THEN {row.req.payment} ELSE {})
<1>2. o = [prevented |-> prevented, lost_sale |-> lost, judged |-> payments, stopped |-> stopped]
  BY <1>1
<1> HIDE DEF o, prevented, lost, payments, stopped
<1>3. o.judged = payments /\ o.prevented = prevented /\ o.lost_sale = lost
  BY <1>2
<1> QED
  BY <1>3 DEF o, payments, prevented, lost

\* An answer without an outcome changes nothing, one with an outcome is priced.
LEMMA PricedOrNot ==
  ASSUME Month, RiskRows, Once, Accounted, [ReplayNext]_replayVars
  PROVE  Spares \/ \E row, k : Prices(row, k)
<1>0. /\ Timetable /\ seen \subseteq PaymentSet
      /\ IsSeq(judged) /\ (\A k \in 1 .. Len(judged) : IsRuling(judged[k]))
      /\ IsSeq(log) /\ Len(log) \in Nat
      /\ fate' = fate
  <2>1. fate' = fate
    BY DEF ReplayNext, SignBlock, DeclineBlock, BeginReplayDay, WorkInvoice, ResolveInvoice,
           PassOver, Screen, ResolvePayment, CheckBatch, Close, replayVars, riskVars
  <2> QED
    BY <2>1, SeqShape DEF Month, Queues, Timetable, Answers
<1>1. CASE ResolvePayment
  <2>1. PICK row : row = Head(judged)
    OBVIOUS
  <2>2. /\ judged # <<>> /\ rsim' = ObserveRisk(rsim, fate, row)
        /\ log' = log \o RiskOutcome(fate, row)
    BY <1>1, <2>1 DEF ResolvePayment
  <2>3. IsRuling(row) /\ \E n \in 1 .. Len(judged) : judged[n] = row
    BY <1>0, <2>1, <2>2, RestOf
  <2>4. /\ Grown(log, log')
        /\ Len(log') = IF HasOutcome(row) THEN Len(log) + 1 ELSE Len(log)
        /\ \A k \in 1 .. Len(log') :
             \/ k \in 1 .. Len(log)
             \/ HasOutcome(row) /\ k = Len(log) + 1 /\ <<log'[k]>> = RiskOutcome(fate, row)
    BY <1>0, <2>2, OutcomeAdded
  <2>5. CASE ~HasOutcome(row)
    <3>1. rsim' = rsim
      BY <2>2, <2>5 DEF ObserveRisk
    <3> QED
      BY <1>0, <2>4, <2>5, <3>1 DEF Spares
  <2>6. CASE HasOutcome(row)
    <3>1. PICK k \in 1 .. Len(log) : log[k] = row
      BY <2>3 DEF IsRuling
    <3>2. k \in 1 .. Len(log') /\ log'[k] = row
      BY <2>4, <3>1 DEF Grown
    <3>3. row.req.payment \notin rsim.judged
      BY <2>3, <2>6 DEF Accounted
    <3>4. Len(log) + 1 \in k + 1 .. Len(log') /\ Len(log) + 1 \in 1 .. Len(log')
          /\ Len(log) + 1 \notin 1 .. Len(log)
      BY <1>0, <2>4, <2>6, <3>1
    <3>5. RiskOutcome(fate, row) = <<Reported(row.req, Worth(row))>>
      BY <2>6 DEF RiskOutcome, Reported, Worth
    <3>6. log'[Len(log) + 1] = Reported(row.req, Worth(row))
      <4>1. <<log'[Len(log) + 1]>> = <<Reported(row.req, Worth(row))>>
        BY <2>4, <3>4, <3>5
      <4> QED
        BY <4>1
    <3>7. ~HasOutcome(log'[Len(log) + 1])
      BY <3>6 DEF HasOutcome, Allowed, Reported
    <3>8. \A i \in 1 .. Len(log') : HasOutcome(log'[i]) => i \in 1 .. Len(log) \/ i = k
      BY <2>4, <3>7
    <3>9. Prices(row, k)
      BY <1>0, <2>2, <2>4, <2>6, <3>2, <3>3, <3>4, <3>6, <3>8 DEF Prices
    <3> QED
      BY <3>9
  <2> QED
    BY <2>5, <2>6
<1>2. CASE SignBlock
  <2>1. PICK req, row : req = Head(blocks) /\ row = Decided(Sign(mem, req.id), books, req, Tomorrow)
    OBVIOUS
  <2>2. /\ rsim' = ObserveRisk(rsim, fate, row)
        /\ log' = log \o <<HumanRow("human_approval", req.id), RequestRow(req), row>>
                      \o RiskOutcome(fate, row)
    BY <1>2, <2>1 DEF SignBlock
  <2>3. PICK signed : signed = log \o <<HumanRow("human_approval", req.id), RequestRow(req), row>>
    OBVIOUS
  <2>4. /\ Grown(log, signed) /\ Len(signed) = Len(log) + 3
        /\ signed[Len(log) + 1] = HumanRow("human_approval", req.id)
        /\ signed[Len(log) + 2] = RequestRow(req)
        /\ signed[Len(log) + 3] = row
    BY <1>0, <2>3, TripleAdded
  <2>5. log' = signed \o RiskOutcome(fate, row) /\ IsSeq(signed)
    BY <2>2, <2>3, <2>4 DEF Grown
  <2>6. /\ Grown(signed, log')
        /\ Len(log') = IF HasOutcome(row) THEN Len(signed) + 1 ELSE Len(signed)
        /\ \A k \in 1 .. Len(log') :
             \/ k \in 1 .. Len(signed)
             \/ HasOutcome(row) /\ k = Len(signed) + 1 /\ <<log'[k]>> = RiskOutcome(fate, row)
    BY <2>5, OutcomeAdded
  <2>7. Grown(log, log')
    BY <2>4, <2>6, GrownTwice
  <2> DEFINE k == Len(log) + 3
  <2>8. /\ k \in 1 .. Len(signed)
        /\ \A i \in 1 .. Len(signed) :
             i \in 1 .. Len(log) \/ i = Len(log) + 1 \/ i = Len(log) + 2 \/ i = k
        /\ Len(log) + 1 \in 1 .. Len(signed) /\ Len(log) + 2 \in 1 .. Len(signed)
        /\ k = Len(signed)
    BY <1>0, <2>4
  <2>9. /\ k \in 1 .. Len(log') /\ log'[k] = row
        /\ ~HasOutcome(log'[Len(log) + 1]) /\ ~HasOutcome(log'[Len(log) + 2])
    BY <2>4, <2>6, <2>8, RequestRowIs DEF Grown, HumanRow, HasOutcome, Allowed
  <2>10. ASSUME HasOutcome(row)
         PROVE  /\ log'[k + 1] = Reported(row.req, Worth(row))
                /\ k + 1 \in k + 1 .. Len(log') /\ k + 1 \in 1 .. Len(log')
                /\ ~HasOutcome(log'[k + 1])
    <3>1. k + 1 \in k + 1 .. Len(log') /\ k + 1 \in 1 .. Len(log') /\ k + 1 \notin 1 .. Len(signed)
      BY <1>0, <2>4, <2>6, <2>10
    <3>2. RiskOutcome(fate, row) = <<Reported(row.req, Worth(row))>>
      BY <2>10 DEF RiskOutcome, Reported, Worth
    <3>3. <<log'[k + 1]>> = <<Reported(row.req, Worth(row))>>
      BY <2>6, <3>1, <3>2
    <3>4. log'[k + 1] = Reported(row.req, Worth(row))
      BY <3>3
    <3>5. ~HasOutcome(log'[k + 1])
      BY <3>4 DEF HasOutcome, Allowed, Reported
    <3> QED
      BY <3>1, <3>4, <3>5
  <2>11. \A i \in 1 .. Len(log') : HasOutcome(log'[i]) => i \in 1 .. Len(log) \/ i = k
    BY <2>6, <2>8, <2>9, <2>10
  <2>12. CASE ~HasOutcome(row)
    <3>1. rsim' = rsim
      BY <2>2, <2>12 DEF ObserveRisk
    <3>2. \A i \in 1 .. Len(log') : HasOutcome(log'[i]) => i \in 1 .. Len(log)
      BY <2>9, <2>11, <2>12
    <3> QED
      BY <1>0, <2>7, <3>1, <3>2 DEF Spares
  <2>13. CASE HasOutcome(row)
\* A payment that was priced has used its key up, and would not be allowed again.
    <3>1. row.req.payment \notin rsim.judged
      <4>1. SUFFICES ASSUME row.req.payment \in rsim.judged
                     PROVE  FALSE
        OBVIOUS
      <4>2. PICK j \in 1 .. Len(log) : HasOutcome(log[j]) /\ log[j].req.payment = row.req.payment
        BY <4>1 DEF Accounted
      <4>3. j \in 1 .. Len(log') /\ log'[j] = log[j] /\ j # k
        BY <1>0, <2>7 DEF Grown
      <4>4. Once'
        BY OnceStep
      <4> QED
        BY <2>9, <2>13, <4>2, <4>3, <4>4 DEF Once
    <3>2. Prices(row, k)
      BY <1>0, <2>2, <2>7, <2>9, <2>10, <2>11, <2>13, <3>1 DEF Prices
    <3> QED
      BY <3>2
  <2> QED
    BY <2>12, <2>13
<1>3. CASE Screen
  <2>1. PICK p, req, row : RiskAsks(p, req, row)
    BY <1>3, RiskAsksIs
  <2>2. /\ Grown(log, log') /\ rsim' = rsim /\ p \notin seen /\ req = Opinion[p]
        /\ p \in PaymentSet /\ row.req = req
        /\ log'[Len(log) + 1] = RequestRow(req) /\ log'[Len(log) + 2] = row
        /\ \A k \in 1 .. Len(log') : k \in 1 .. Len(log) \/ k = Len(log) + 1 \/ k = Len(log) + 2
    BY <2>1 DEF RiskAsks, Submitted
  <2>3. req.payment = p
    BY <2>2, OpinionIs
  <2>4. \A k \in 1 .. Len(log') : HasOutcome(log'[k]) =>
          k \in 1 .. Len(log) \/ log'[k].req.payment \notin seen
    BY <2>2, <2>3, RequestRowIs DEF HasOutcome, Allowed
  <2> QED
    BY <1>0, <2>2, <2>4 DEF Spares
<1>4. ASSUME NEW req, NEW row, Submitted(req, row, Now), req.action \notin RISK_ACTIONS, rsim' = rsim
      PROVE  Spares
  <2>1. /\ Grown(log, log') /\ row.req = req
        /\ log'[Len(log) + 1] = RequestRow(req) /\ log'[Len(log) + 2] = row
        /\ \A k \in 1 .. Len(log') : k \in 1 .. Len(log) \/ k = Len(log) + 1 \/ k = Len(log) + 2
    BY <1>4 DEF Submitted
  <2>2. \A k \in 1 .. Len(log') : HasOutcome(log'[k]) => k \in 1 .. Len(log)
    BY <1>4, <2>1, RequestRowIs DEF HasOutcome, Allowed
  <2> QED
    BY <1>0, <1>4, <2>1, <2>2 DEF Spares
<1>5. CASE WorkInvoice /\ Ask
  <2>1. PICK req, row : ChaseAsks(req, row)
    BY <1>0, <1>5, ChaseAsksIs
  <2>2. rsim' = rsim
    BY <1>5 DEF WorkInvoice, riskVars
  <2> QED
    BY <1>4, <2>1, <2>2, OthersActions DEF ChaseAsks
<1>6. CASE CheckBatch
  <2>1. PICK s, req, row : ReconcilerAsks(s, req, row)
    BY <1>6, ReconcilerAsksIs
  <2> QED
    BY <1>4, <2>1, OthersActions DEF ReconcilerAsks
<1>7. CASE \/ DeclineBlock \/ BeginReplayDay \/ PassOver \/ Close \/ ResolveInvoice
           \/ (WorkInvoice /\ LeaveAlone) \/ UNCHANGED replayVars
  <2>1. Followed
    BY <1>7, FollowedIs
  <2>2. rsim' = rsim
    BY <1>7 DEF DeclineBlock, BeginReplayDay, PassOver, Close, ResolveInvoice, WorkInvoice,
                replayVars, riskVars
  <2> QED
    BY <1>0, <2>1, <2>2 DEF Followed, Spares, HasOutcome, Allowed
<1> QED
  BY <1>1, <1>2, <1>3, <1>5, <1>6, <1>7 DEF ReplayNext, WorkInvoice

\* The figures are of payments that were screened.
LEMMA JudgedWereSeen ==
  ASSUME Month, RiskRows, Accounted
  PROVE  rsim.judged \subseteq seen
<1> SUFFICES ASSUME NEW p \in rsim.judged
             PROVE  p \in seen
  OBVIOUS
<1>1. PICK k \in 1 .. Len(log) : HasOutcome(log[k]) /\ log[k].req.payment = p
  BY DEF Accounted
<1>2. log[k].req \in Opinions /\ seen \subseteq PaymentSet
  BY <1>1, ActedIs DEF Month, Queues
<1> QED
  BY <1>1, <1>2, OpinionsAre

\* Who passes a payment over has nothing to ask about it.
LEMMA NewOpinions ==
  ASSUME [ReplayNext]_replayVars, ~Screen
  PROVE  Opinions' \subseteq Opinions
<1>1. CASE PassOver
  <2>1. PICK p : p = Head(screen)
    OBVIOUS
  <2>2. seen' = seen \cup {p} /\ (p \in seen \/ Opinion[p].action = None)
    BY <1>1, <2>1 DEF PassOver
  <2> QED
    BY <2>2 DEF Opinions
<1>2. CASE ~PassOver
  <2>1. seen' = seen
    BY <1>2 DEF ReplayNext, SignBlock, DeclineBlock, BeginReplayDay, WorkInvoice, ResolveInvoice,
                ResolvePayment, CheckBatch, Close, replayVars, riskVars
  <2> QED
    BY <2>1 DEF Opinions
<1> QED
  BY <1>1, <1>2

\* An allowed answer of the day waits, unpriced, until it is priced.
AnswersKept ==
  /\ \A n \in 1 .. Len(judged) : HasOutcome(judged[n]) =>
       \/ judged[n].req.payment \in rsim'.judged
       \/ \E m \in 1 .. Len(judged') : judged'[m] = judged[n]
  /\ \A m \in 1 .. Len(judged') : HasOutcome(judged'[m]) =>
       judged'[m].req.payment \notin rsim'.judged
  /\ \A k \in 1 .. Len(log') : HasOutcome(log'[k]) =>
       \/ k \in 1 .. Len(log)
       \/ log'[k].req.payment \in rsim'.judged
       \/ \E m \in 1 .. Len(judged') : judged'[m] = log'[k]

LEMMA AnswersKeptStep ==
  ASSUME Month, RiskRows, Once, Accounted, [ReplayNext]_replayVars
  PROVE  AnswersKept
<1>0. /\ Timetable /\ seen \subseteq PaymentSet
      /\ IsSeq(judged) /\ (\A k \in 1 .. Len(judged) : IsRuling(judged[k]))
  BY DEF Month, Queues
<1>1. CASE Screen
  <2>1. PICK p, req, row : RiskAsks(p, req, row)
    BY <1>1, RiskAsksIs
  <2>2. /\ rsim' = rsim /\ p \notin seen /\ req = Opinion[p] /\ p \in PaymentSet /\ row.req = req
        /\ judged' = Append(judged, row)
        /\ log'[Len(log) + 1] = RequestRow(req) /\ log'[Len(log) + 2] = row
        /\ \A k \in 1 .. Len(log') : k \in 1 .. Len(log) \/ k = Len(log) + 1 \/ k = Len(log) + 2
    BY <2>1 DEF RiskAsks, Submitted
  <2>3. req.payment \notin rsim.judged
    BY <2>2, OpinionIs, JudgedWereSeen
  <2>4. /\ judged'[Len(judged) + 1] = row /\ Len(judged) + 1 \in 1 .. Len(judged')
        /\ \A k \in 1 .. Len(judged) : k \in 1 .. Len(judged') /\ judged'[k] = judged[k]
        /\ \A k \in 1 .. Len(judged') : k \in 1 .. Len(judged) \/ k = Len(judged) + 1
    <3>1. Len(judged) \in Nat
      BY <1>0, SeqShape
    <3> QED
      BY <1>0, <2>2, <3>1, RowAdded DEF Grown
  <2>5. \A k \in 1 .. Len(log') : HasOutcome(log'[k]) => k \in 1 .. Len(log) \/ log'[k] = row
    BY <2>2, RequestRowIs DEF HasOutcome, Allowed
  <2> QED
    BY <2>2, <2>3, <2>4, <2>5 DEF AnswersKept, Accounted
<1>2. ASSUME ~Screen
      PROVE  \A k \in 1 .. Len(log') : HasOutcome(log'[k]) =>
               k \in 1 .. Len(log) \/ log'[k].req.payment \in rsim'.judged
  <2>1. CASE Spares
    <3>1. ASSUME NEW k \in 1 .. Len(log'), HasOutcome(log'[k]), k \notin 1 .. Len(log)
          PROVE  FALSE
      <4>1. log'[k].req \in Opinions'
        BY <3>1, RiskRowsStep DEF RiskRows, HasOutcome, Allowed
      <4>2. log'[k].req \in Opinions
        BY <1>2, <4>1, NewOpinions
      <4>3. PICK req : req = log'[k].req
        OBVIOUS
      <4>4. req.payment \in seen
        BY <1>0, <4>2, <4>3, OpinionsAre
      <4> QED
        BY <2>1, <3>1, <4>3, <4>4 DEF Spares
    <3> QED
      BY <3>1
  <2>2. ASSUME NEW row, NEW k, Prices(row, k)
        PROVE  \A i \in 1 .. Len(log') : HasOutcome(log'[i]) =>
                 i \in 1 .. Len(log) \/ log'[i].req.payment \in rsim'.judged
    <3>1. row.req.payment \in rsim'.judged
      BY <2>2, ObservedIs DEF Prices
    <3> QED
      BY <2>2, <3>1 DEF Prices
  <2> QED
    BY <2>1, <2>2, PricedOrNot
<1>3. CASE ResolvePayment
  <2>1. PICK row : row = Head(judged)
    OBVIOUS
  <2>2. judged # <<>> /\ rsim' = ObserveRisk(rsim, fate, row) /\ judged' = Tail(judged) /\ ~Screen
    BY <1>3, <2>1 DEF ResolvePayment, Screen
  <2>3. /\ row = judged[1] /\ 1 \in 1 .. Len(judged)
        /\ \A n \in 1 .. Len(judged') : judged'[n] = judged[n + 1] /\ n + 1 \in 1 .. Len(judged)
        /\ \A n \in 1 .. Len(judged) : n = 1 \/ (n - 1 \in 1 .. Len(judged') /\ (n - 1) + 1 = n)
    BY <1>0, <2>1, <2>2, RestOf, SeqShape
  <2>4. rsim'.judged = IF HasOutcome(row) THEN rsim.judged \cup {row.req.payment} ELSE rsim.judged
    <3>1. CASE HasOutcome(row)
      BY <2>2, <3>1, ObservedIs
    <3>2. CASE ~HasOutcome(row)
      BY <2>2, <3>2 DEF ObserveRisk
    <3> QED
      BY <3>1, <3>2
  <2>5. ASSUME NEW m \in 1 .. Len(judged')
        PROVE  HasOutcome(judged'[m]) => judged'[m].req.payment \notin rsim'.judged
    <3>1. PICK n : n = m + 1
      OBVIOUS
    <3>2. n \in 1 .. Len(judged) /\ judged'[m] = judged[n] /\ n # 1
      BY <2>3, <3>1
    <3>3. judged[n].req.payment # row.req.payment
      BY <2>3, <3>2 DEF Once, NoneTwice
    <3>4. HasOutcome(judged[n]) => judged[n].req.payment \notin rsim.judged
      BY <3>2 DEF Accounted
    <3> QED
      BY <2>4, <3>2, <3>3, <3>4
  <2>6. \A m \in 1 .. Len(judged') : HasOutcome(judged'[m]) =>
          judged'[m].req.payment \notin rsim'.judged
    BY <2>5
  <2>7. \A n \in 1 .. Len(judged) : HasOutcome(judged[n]) =>
          \/ judged[n].req.payment \in rsim'.judged
          \/ \E m \in 1 .. Len(judged') : judged'[m] = judged[n]
    BY <2>3, <2>4
  <2> QED
    BY <1>2, <2>2, <2>6, <2>7 DEF AnswersKept
<1>4. CASE ~Screen /\ ~ResolvePayment /\ judged = <<>> /\ judged' = <<>>
  <2>1. \A n : n \notin 1 .. Len(judged) /\ n \notin 1 .. Len(judged')
    BY <1>4, NoSeq
  <2> QED
    BY <1>2, <1>4, <2>1 DEF AnswersKept
<1>5. CASE ~Screen /\ judged' = judged /\ rsim' = rsim
  <2>1. \A n \in 1 .. Len(judged) : n \in 1 .. Len(judged') /\ judged'[n] = judged[n]
    BY <1>5
  <2> QED
    BY <1>2, <1>5, <2>1 DEF AnswersKept, Accounted
<1>6. \/ Screen \/ ResolvePayment
      \/ judged = <<>> /\ judged' = <<>>
      \/ judged' = judged /\ rsim' = rsim
  BY DEF ReplayNext, SignBlock, DeclineBlock, BeginReplayDay, WorkInvoice, ResolveInvoice,
         PassOver, CheckBatch, Close, replayVars, riskVars, DayDone, RiskDone
<1> QED
  BY <1>1, <1>3, <1>4, <1>5, <1>6
-----------------------------------------------------------------------------
(* What was allowed is priced, or is waiting for it.                         *)

LEMMA AccountedInit == ReplayInit => Accounted
BY NoSeq DEF ReplayInit, Init, Accounted, NewRiskSim

LEMMA ReportStays ==
  ASSUME NEW k \in 1 .. Len(log), ReportedOn(k), Grown(log, log'), fate' = fate
  PROVE  ReportedOn(k)'
<1>1. PICK j \in k + 1 .. Len(log) : log[j] = Reported(log[k].req, Worth(log[k]))
  BY DEF ReportedOn
<1>2. log'[k] = log[k]
  BY DEF Grown
<1>3. Worth(log[k])' = Worth(log[k])
  BY <1>2 DEF Worth, Stops
<1>4. Len(log) \in Nat /\ Len(log') \in Nat /\ Len(log) <= Len(log')
  BY DEF Grown
<1>5. j \in 1 .. Len(log) /\ j \in k + 1 .. Len(log')
  BY <1>1, <1>4
<1>6. log'[j] = log[j]
  BY <1>5 DEF Grown
<1> QED
  BY <1>1, <1>2, <1>3, <1>5, <1>6 DEF ReportedOn

LEMMA PricedIsReported ==
  ASSUME NEW row, NEW k, Prices(row, k)
  PROVE  ReportedOn(k)'
<1>1. log'[k] = row /\ fate' = fate
  BY DEF Prices
<1>2. Worth(log[k])' = Worth(row)
  BY <1>1 DEF Worth, Stops
<1> QED
  BY <1>1, <1>2 DEF Prices, ReportedOn

LEMMA AccountedStep ==
  Month /\ RiskRows /\ Once /\ Accounted /\ [ReplayNext]_replayVars => Accounted'
<1> SUFFICES ASSUME Month, RiskRows, Once, Accounted, [ReplayNext]_replayVars
             PROVE  Accounted'
  OBVIOUS
<1>0. Once' /\ AnswersKept /\ rsim.judged \subseteq seen
  BY OnceStep, AnswersKeptStep, JudgedWereSeen
<1>1. /\ Grown(log, log') /\ fate' = fate
      /\ \A k \in 1 .. Len(log) : k \in 1 .. Len(log') /\ log'[k] = log[k]
      /\ rsim.judged \subseteq rsim'.judged
  <2>1. CASE Spares
    BY <2>1 DEF Spares, Grown
  <2>2. ASSUME NEW row, NEW k, Prices(row, k)
        PROVE  /\ Grown(log, log') /\ fate' = fate
               /\ \A i \in 1 .. Len(log) : i \in 1 .. Len(log') /\ log'[i] = log[i]
               /\ rsim.judged \subseteq rsim'.judged
    BY <2>2, ObservedIs DEF Prices, Grown
  <2> QED
    BY <2>1, <2>2, PricedOrNot
<1>2. ASSUME NEW p \in rsim'.judged
      PROVE  \E k \in 1 .. Len(log') : HasOutcome(log'[k]) /\ log'[k].req.payment = p
  <2>1. CASE p \in rsim.judged
    BY <1>1, <2>1 DEF Accounted
  <2>2. ASSUME NEW row, NEW k, Prices(row, k), p \notin rsim.judged
        PROVE  k \in 1 .. Len(log') /\ HasOutcome(log'[k]) /\ log'[k].req.payment = p
    BY <1>2, <2>2, ObservedIs DEF Prices
  <2> QED
    BY <1>2, <2>1, <2>2, PricedOrNot DEF Spares
<1>3. ASSUME NEW k \in 1 .. Len(log'), HasOutcome(log'[k]), log'[k].req.payment \in rsim'.judged
      PROVE  ReportedOn(k)'
  <2>1. CASE k \in 1 .. Len(log) /\ log'[k].req.payment \in rsim.judged
    BY <1>1, <1>3, <2>1, ReportStays DEF Accounted
  <2>2. CASE Spares
    <3>1. k \in 1 .. Len(log)
      BY <1>0, <1>3, <2>2 DEF Spares
    <3> QED
      BY <1>3, <2>1, <2>2, <3>1 DEF Spares
  <2>3. ASSUME NEW row, NEW i, Prices(row, i),
               ~ (k \in 1 .. Len(log) /\ log'[k].req.payment \in rsim.judged)
        PROVE  ReportedOn(k)'
    <3>1. i \in 1 .. Len(log') /\ HasOutcome(log'[i]) /\ log'[i] = row
      BY <2>3 DEF Prices
    <3>2. rsim'.judged = rsim.judged \cup {row.req.payment}
      BY <2>3, ObservedIs DEF Prices
    <3>3. k = i
      <4>1. CASE k \in 1 .. Len(log)
        <5>1. log'[k].req.payment = row.req.payment
          BY <1>3, <2>3, <3>2, <4>1
        <5> QED
          BY <1>0, <1>3, <3>1, <5>1 DEF Once
      <4>2. CASE k \notin 1 .. Len(log)
        BY <1>3, <2>3, <4>2 DEF Prices
      <4> QED
        BY <4>1, <4>2
    <3> QED
      BY <2>3, <3>3, PricedIsReported
  <2> QED
    BY <2>1, <2>2, <2>3, PricedOrNot
<1>4. ASSUME NEW k \in 1 .. Len(log'), HasOutcome(log'[k]), log'[k].req.payment \notin rsim'.judged
      PROVE  \E n \in 1 .. Len(judged') : judged'[n] = log'[k]
  <2>1. CASE k \in 1 .. Len(log)
    <3>1. log'[k] = log[k] /\ log[k].req.payment \notin rsim.judged
      BY <1>1, <1>4, <2>1
    <3>2. PICK n \in 1 .. Len(judged) : judged[n] = log[k]
      BY <1>4, <2>1, <3>1 DEF Accounted
    <3> QED
      BY <1>0, <1>4, <3>1, <3>2 DEF AnswersKept
  <2> QED
    BY <1>0, <1>4, <2>1 DEF AnswersKept
<1>5. \A m \in 1 .. Len(judged') :
        HasOutcome(judged'[m]) => judged'[m].req.payment \notin rsim'.judged
  BY <1>0 DEF AnswersKept
<1> QED
  BY <1>2, <1>3, <1>4, <1>5 DEF Accounted
-----------------------------------------------------------------------------
(* The columns are the sums over what is booked.                             *)

LEMMA AmountsAre ==
  ASSUME NEW row, NEW f, NEW priced, HasOutcome(row) => row.req.amount \in Int
  PROVE  Saved(row, f, priced) \in Int /\ Lost(row, f, priced) \in Int
BY DEF Saved, Lost, Booked

LEMMA OutcomeAmounts ==
  ASSUME Month, RiskRows
  PROVE  \A k \in 1 .. Len(log) : HasOutcome(log[k]) => log[k].req.amount \in Int
<1> SUFFICES ASSUME NEW k \in 1 .. Len(log), HasOutcome(log[k])
             PROVE  log[k].req.amount \in Int
  OBVIOUS
<1>1. PICK p \in seen : log[k].req = Opinion[p] /\ Opinion[p].action # None
  BY ActedIs DEF Opinions
<1>2. p \in PaymentSet
  BY DEF Month, Queues
<1> QED
  BY <1>1, <1>2, OpinionKey

\* A row is booked when its outcome is observed, and stays booked.
NewlyBooked(k, row) ==
  \/ k = 0 /\ rsim' = rsim
  \/ /\ k \in 1 .. Len(log') /\ log'[k] = row /\ HasOutcome(row)
     /\ rsim' = ObserveRisk(rsim, fate, row)

BookedNow(k) ==
  \A i \in 1 .. Len(log') :
    /\ Booked(log'[i], rsim'.judged) <=>
         (i \in 1 .. Len(log) /\ Booked(log[i], rsim.judged)) \/ i = k
    /\ ~ (i \in 1 .. Len(log) /\ Booked(log[i], rsim.judged) /\ i = k)
    /\ i \in 1 .. Len(log) => log'[i] = log[i]

LEMMA BookedStep ==
  ASSUME Month, RiskRows, Once, Accounted, [ReplayNext]_replayVars
  PROVE  /\ fate' = fate
         /\ Len(log) \in Nat /\ Len(log') \in Nat /\ Len(log) <= Len(log')
         /\ \E k, row : k \in Nat /\ NewlyBooked(k, row) /\ BookedNow(k)
<1>0. Once' /\ rsim.judged \subseteq seen
  BY OnceStep, JudgedWereSeen
<1>1. CASE Spares
  <2>1. Grown(log, log') /\ fate' = fate /\ rsim' = rsim
    BY <1>1 DEF Spares
  <2>2. \A i \in 1 .. Len(log') :
          Booked(log'[i], rsim'.judged) => i \in 1 .. Len(log)
    BY <1>0, <1>1 DEF Spares, Booked
  <2>3. \A i \in 1 .. Len(log') : i # 0
    OBVIOUS
  <2>4. BookedNow(0)
    BY <2>1, <2>2, <2>3 DEF BookedNow, Grown
  <2>5. NewlyBooked(0, 0)
    BY <2>1 DEF NewlyBooked
  <2> QED
    BY <2>1, <2>4, <2>5 DEF Grown
<1>2. ASSUME NEW row, NEW k, Prices(row, k)
      PROVE  /\ fate' = fate
             /\ Len(log) \in Nat /\ Len(log') \in Nat /\ Len(log) <= Len(log')
             /\ k \in Nat /\ NewlyBooked(k, row) /\ BookedNow(k)
  <2>1. /\ Grown(log, log') /\ fate' = fate /\ k \in 1 .. Len(log') /\ log'[k] = row
        /\ HasOutcome(row) /\ rsim' = ObserveRisk(rsim, fate, row)
        /\ row.req.payment \notin rsim.judged
        /\ \A i \in 1 .. Len(log') : HasOutcome(log'[i]) => i \in 1 .. Len(log) \/ i = k
    BY <1>2 DEF Prices
  <2>2. rsim'.judged = rsim.judged \cup {row.req.payment}
    BY <2>1, ObservedIs
  <2>3. ASSUME NEW i \in 1 .. Len(log')
        PROVE  /\ Booked(log'[i], rsim'.judged) <=>
                    (i \in 1 .. Len(log) /\ Booked(log[i], rsim.judged)) \/ i = k
               /\ ~ (i \in 1 .. Len(log) /\ Booked(log[i], rsim.judged) /\ i = k)
               /\ i \in 1 .. Len(log) => log'[i] = log[i]
    <3>1. i \in 1 .. Len(log) => log'[i] = log[i]
      BY <2>1 DEF Grown
    <3>2. ~ (i \in 1 .. Len(log) /\ Booked(log[i], rsim.judged) /\ i = k)
      BY <2>1, <3>1 DEF Booked
    <3>3. i = k => Booked(log'[i], rsim'.judged)
      BY <2>1, <2>2 DEF Booked
    <3>4. i \in 1 .. Len(log) /\ Booked(log[i], rsim.judged) => Booked(log'[i], rsim'.judged)
      BY <2>2, <3>1 DEF Booked
    <3>5. ASSUME Booked(log'[i], rsim'.judged), i # k
          PROVE  i \in 1 .. Len(log) /\ Booked(log[i], rsim.judged)
      <4>1. HasOutcome(log'[i]) /\ i \in 1 .. Len(log)
        BY <2>1, <3>5 DEF Booked
      <4>2. log'[i].req.payment # row.req.payment
        BY <1>0, <2>1, <3>5, <4>1 DEF Once
      <4> QED
        BY <2>2, <3>1, <3>5, <4>1, <4>2 DEF Booked
    <3> QED
      BY <3>1, <3>2, <3>3, <3>4, <3>5
  <2>4. BookedNow(k)
    BY <2>3 DEF BookedNow
  <2>5. NewlyBooked(k, row)
    BY <2>1 DEF NewlyBooked
  <2> QED
    BY <2>1, <2>4, <2>5 DEF Grown
<1> QED
  BY <1>1, <1>2, PricedOrNot

\* What the newly booked row adds to a column.
Gain(k, row)   == IF k # 0 /\ Stops(fate, row.req) THEN row.req.amount ELSE 0
Damage(k, row) ==
  IF k # 0 /\ ~Stops(fate, row.req) /\ row.req.action = "block_order" THEN row.req.amount ELSE 0

LEMMA ColumnsInit == ReplayInit => Columns
<1> SUFFICES ASSUME ReplayInit
             PROVE  Columns
  OBVIOUS
<1>1. log = <<>> /\ Len(log) = 0 /\ rsim.prevented = 0 /\ rsim.lost_sale = 0
  BY NoSeq DEF ReplayInit, Init, NewRiskSim
<1>2. ASSUME NEW a \in [1 .. 0 -> Int]
      PROVE  Total(a) = 0
  <2>1. PICK f : Sums(f, a, 0) /\ Total(a) = f[0]
    BY TotalIs
  <2> QED
    BY <2>1 DEF Sums
<1>3. [k \in 1 .. 0 |-> Saved(log[k], fate, rsim.judged)] \in [1 .. 0 -> Int]
  OBVIOUS
<1>4. [k \in 1 .. 0 |-> Lost(log[k], fate, rsim.judged)] \in [1 .. 0 -> Int]
  OBVIOUS
<1> QED
  BY <1>1, <1>2, <1>3, <1>4 DEF Columns

LEMMA ColumnsStep ==
  Month /\ RiskRows /\ Once /\ Accounted /\ Columns /\ [ReplayNext]_replayVars => Columns'
<1> SUFFICES ASSUME Month, RiskRows, Once, Accounted, Columns, [ReplayNext]_replayVars
             PROVE  Columns'
  OBVIOUS
<1>1. /\ fate' = fate
      /\ Len(log) \in Nat /\ Len(log') \in Nat /\ Len(log) <= Len(log')
      /\ \E k, row : k \in Nat /\ NewlyBooked(k, row) /\ BookedNow(k)
  BY BookedStep
<1>2. PICK k, row : k \in Nat /\ NewlyBooked(k, row) /\ BookedNow(k)
  BY <1>1
<1> DEFINE N == Len(log)
           M == Len(log')
           saved == [i \in 1 .. N |-> Saved(log[i], fate, rsim.judged)]
           lost  == [i \in 1 .. N |-> Lost(log[i], fate, rsim.judged)]
           savedNow == [i \in 1 .. M |-> Saved(log'[i], fate, rsim'.judged)]
           lostNow  == [i \in 1 .. M |-> Lost(log'[i], fate, rsim'.judged)]
           gain == Gain(k, row)
           damage == Damage(k, row)
<1>3. (Month /\ RiskRows)'
  BY MonthStep, RiskRowsStep
<1>4. /\ \A i \in 1 .. N : HasOutcome(log[i]) => log[i].req.amount \in Int
      /\ \A i \in 1 .. M : HasOutcome(log'[i]) => log'[i].req.amount \in Int
  <2>1. \A i \in 1 .. N : HasOutcome(log[i]) => log[i].req.amount \in Int
    BY OutcomeAmounts
  <2>2. \A i \in 1 .. M : HasOutcome(log'[i]) => log'[i].req.amount \in Int
    <3> SUFFICES ASSUME NEW i \in 1 .. M, HasOutcome(log'[i])
                 PROVE  log'[i].req.amount \in Int
      OBVIOUS
    <3>1. log'[i].req \in Opinions'
      BY <1>3 DEF RiskRows, HasOutcome, Allowed
    <3>2. PICK p \in seen' : log'[i].req = Opinion[p] /\ Opinion[p].action # None
      BY <3>1 DEF Opinions
    <3>3. p \in PaymentSet
      BY <1>3 DEF Month, Queues
    <3> QED
      BY <3>2, <3>3, OpinionKey
  <2> QED
    BY <2>1, <2>2
<1>5. /\ saved \in [1 .. N -> Int] /\ lost \in [1 .. N -> Int]
      /\ savedNow \in [1 .. M -> Int] /\ lostNow \in [1 .. M -> Int]
  BY <1>4, AmountsAre
<1>6. gain \in Int /\ damage \in Int /\ (k \in 1 .. M \/ (gain = 0 /\ damage = 0))
  BY <1>2, <1>4 DEF NewlyBooked, Gain, Damage
<1>7. /\ rsim.prevented \in Int /\ rsim.lost_sale \in Int
      /\ rsim'.prevented = rsim.prevented + gain /\ rsim'.lost_sale = rsim.lost_sale + damage
  <2>1. rsim.prevented \in Int /\ rsim.lost_sale \in Int
    <3>1. Total(saved) \in Int /\ Total(lost) \in Int
      BY <1>1, <1>5, TotalIs
    <3> QED
      BY <3>1 DEF Columns
  <2>2. CASE k = 0 /\ rsim' = rsim
    BY <2>1, <2>2 DEF Gain, Damage
  <2>3. CASE /\ k \in 1 .. Len(log') /\ log'[k] = row /\ HasOutcome(row)
             /\ rsim' = ObserveRisk(rsim, fate, row)
    <3>1. k # 0
      BY <2>3
    <3>2. /\ rsim'.prevented = rsim.prevented + (IF Stops(fate, row.req) THEN row.req.amount ELSE 0)
          /\ rsim'.lost_sale = rsim.lost_sale
               + (IF ~Stops(fate, row.req) /\ row.req.action = "block_order"
                    THEN row.req.amount ELSE 0)
      BY <2>3, ObservedIs
    <3>3. /\ gain = IF Stops(fate, row.req) THEN row.req.amount ELSE 0
          /\ damage = IF ~Stops(fate, row.req) /\ row.req.action = "block_order"
                        THEN row.req.amount ELSE 0
      BY <3>1 DEF Gain, Damage
    <3> QED
      BY <2>1, <3>2, <3>3
  <2> QED
    BY <1>2, <2>2, <2>3 DEF NewlyBooked
<1>8. ASSUME NEW i \in 1 .. M
      PROVE  /\ savedNow[i] = (IF i \in 1 .. N THEN saved[i] ELSE 0) + (IF i = k THEN gain ELSE 0)
             /\ lostNow[i] = (IF i \in 1 .. N THEN lost[i] ELSE 0) + (IF i = k THEN damage ELSE 0)
  <2>1. /\ Booked(log'[i], rsim'.judged) <=>
             (i \in 1 .. N /\ Booked(log[i], rsim.judged)) \/ i = k
        /\ ~ (i \in 1 .. N /\ Booked(log[i], rsim.judged) /\ i = k)
        /\ i \in 1 .. N => log'[i] = log[i]
    BY <1>2 DEF BookedNow
  <2>2. CASE i = k
    <3>1. i # 0 /\ log'[i] = row /\ Booked(log'[i], rsim'.judged)
      BY <1>2, <2>1, <2>2 DEF NewlyBooked
    <3>2. savedNow[i] = gain /\ lostNow[i] = damage
      BY <2>2, <3>1 DEF Saved, Lost, Gain, Damage
    <3>3. i \in 1 .. N => saved[i] = 0 /\ lost[i] = 0
      BY <2>1, <2>2 DEF Saved, Lost
    <3> QED
      BY <1>6, <2>2, <3>2, <3>3
  <2>3. CASE i # k /\ i \in 1 .. N
    <3>1. savedNow[i] = saved[i] /\ lostNow[i] = lost[i]
      BY <2>1, <2>3 DEF Saved, Lost
    <3>2. saved[i] \in Int /\ lost[i] \in Int
      BY <1>5, <2>3
    <3> QED
      BY <2>3, <3>1, <3>2
  <2>4. CASE i # k /\ i \notin 1 .. N
    <3>1. savedNow[i] = 0 /\ lostNow[i] = 0
      BY <2>1, <2>4 DEF Saved, Lost
    <3> QED
      BY <2>4, <3>1
  <2> QED
    BY <2>2, <2>3, <2>4
<1>9. rsim.prevented = Total(saved) /\ rsim.lost_sale = Total(lost)
  BY DEF Columns
<1>10. Total(savedNow) = Total(saved) + gain /\ Total(lostNow) = Total(lost) + damage
  <2> HIDE DEF N, M, saved, lost, savedNow, lostNow, gain, damage
  <2>1. N \in Nat /\ M \in Nat /\ N <= M
    BY <1>1 DEF N, M
  <2>g. Grows(saved, N, savedNow, M, k, gain) /\ Grows(lost, N, lostNow, M, k, damage)
    BY <1>6, <1>8 DEF Grows
  <2>2. Total(savedNow) = Total(saved) + gain
    <3>1. PICK n \in Nat, m \in Nat : n = N /\ m = M /\ n <= m
      BY <2>1
    <3>2. PICK a \in [1 .. n -> Int], b \in [1 .. m -> Int], x \in Int :
            a = saved /\ b = savedNow /\ x = gain
      BY <1>5, <1>6, <3>1
    <3>3. k \in Nat /\ Grows(a, n, b, m, k, x)
      BY <1>2, <2>g, <3>1, <3>2
    <3>4. Total(b) = Total(a) + x
      BY <3>1, <3>3, TotalGrows
    <3> QED
      BY <3>2, <3>4
  <2>3. Total(lostNow) = Total(lost) + damage
    <3>1. PICK n \in Nat, m \in Nat : n = N /\ m = M /\ n <= m
      BY <2>1
    <3>2. PICK a \in [1 .. n -> Int], b \in [1 .. m -> Int], x \in Int :
            a = lost /\ b = lostNow /\ x = damage
      BY <1>5, <1>6, <3>1
    <3>3. k \in Nat /\ Grows(a, n, b, m, k, x)
      BY <1>2, <2>g, <3>1, <3>2
    <3>4. Total(b) = Total(a) + x
      BY <3>1, <3>3, TotalGrows
    <3> QED
      BY <3>2, <3>4
  <2> QED
    BY <2>2, <2>3
<1>11. rsim'.prevented = Total(savedNow) /\ rsim'.lost_sale = Total(lostNow)
  BY <1>7, <1>9, <1>10
<1> QED
  BY <1>1, <1>11 DEF Columns

LEMMA DayIsBooked ==
  ASSUME Month, Once, Accounted, Columns
  PROVE  FraudFigures
<1> SUFFICES ASSUME DayDone
             PROVE  FraudFigures
  BY DEF FraudFigures
<1> DEFINE acted   == OnRisk(Decisions("allow"))
           saving  == {k \in acted : Stops(fate, log[k].req)}
           costing == {k \in acted : log[k].req.action = "block_order"} \ saving
<1>1. DOMAIN log = 1 .. Len(log)
  BY SeqShape DEF Month, Timetable, Answers
<1>2. \A k : k \in acted <=> k \in 1 .. Len(log) /\ HasOutcome(log[k])
  BY <1>1 DEF OnRisk, Decisions, HasOutcome, Allowed
<1>3. \A k \in acted : log[k].req.payment \in rsim.judged /\ ReportedOn(k)
  <2>1. judged = <<>>
    BY DEF DayDone, RiskDone
  <2>2. \A n : n \notin 1 .. Len(judged)
    BY <2>1, NoSeq
  <2> QED
    BY <1>2, <2>2 DEF Accounted
<1>4. \A k \in 1 .. Len(log) : Booked(log[k], rsim.judged) <=> k \in acted
  BY <1>2, <1>3 DEF Booked
<1> HIDE DEF acted
<1>5. \A j, k \in acted : log[j].req.payment = log[k].req.payment => j = k
  BY <1>2 DEF Once
<1>6. rsim.prevented = Total([k \in DOMAIN log |-> IF k \in saving THEN log[k].req.amount ELSE 0])
  <2>1. \A k \in 1 .. Len(log) :
          Saved(log[k], fate, rsim.judged) = IF k \in saving THEN log[k].req.amount ELSE 0
    BY <1>4 DEF Saved
  <2>2. [k \in 1 .. Len(log) |-> Saved(log[k], fate, rsim.judged)]
          = [k \in DOMAIN log |-> IF k \in saving THEN log[k].req.amount ELSE 0]
    <3> HIDE DEF saving
    <3> QED
      BY <1>1, <2>1
  <2> QED
    BY <2>2 DEF Columns
<1>7. rsim.lost_sale = Total([k \in DOMAIN log |-> IF k \in costing THEN log[k].req.amount ELSE 0])
  <2>1. \A k \in 1 .. Len(log) :
          Lost(log[k], fate, rsim.judged) = IF k \in costing THEN log[k].req.amount ELSE 0
    BY <1>4 DEF Lost
  <2>2. [k \in 1 .. Len(log) |-> Lost(log[k], fate, rsim.judged)]
          = [k \in DOMAIN log |-> IF k \in costing THEN log[k].req.amount ELSE 0]
    <3> HIDE DEF costing
    <3> QED
      BY <1>1, <2>1
  <2> QED
    BY <2>2 DEF Columns
<1>8. \A k \in acted : \E j \in k + 1 .. Len(log) :
        log[j] = Reported(log[k].req, IF k \in saving THEN log[k].req.amount ELSE 0)
  <2> SUFFICES ASSUME NEW k \in acted
               PROVE  \E j \in k + 1 .. Len(log) :
                        log[j] = Reported(log[k].req, IF k \in saving THEN log[k].req.amount ELSE 0)
    OBVIOUS
  <2>1. Worth(log[k]) = IF k \in saving THEN log[k].req.amount ELSE 0
    BY DEF Worth
  <2> QED
    BY <1>3, <2>1 DEF ReportedOn
<1> HIDE DEF saving, costing
<1> QED
  BY <1>5, <1>6, <1>7, <1>8 DEF FraudFigures, acted, saving, costing

\* The fraud columns are the money of what the gateway let the risk agent do,
\* each payment once, and each decision of theirs has its outcome in the log
\* (outcomes.py:270-322, replay.py:213-273).
THEOREM ReplayFraudFigures == ReplaySpec => []FraudFigures
<1>1. Month /\ Once /\ Accounted /\ Columns => FraudFigures
  BY DayIsBooked
<1> QED
  BY <1>1, MonthInit, MonthStep, RiskRowsInit, RiskRowsStep, OnceInit, OnceStep,
     AccountedInit, AccountedStep, ColumnsInit, ColumnsStep, PTL DEF ReplaySpec


-----------------------------------------------------------------------------
(* The chase among the others: no row of theirs is a contact that was        *)
(* granted.                                                                  *)

\* A row that delivers nothing to anybody.
Silent(row) == ~Allowed(row) \/ ~Contacts(row.req)

LEMMA PermissionUndisturbed ==
  ASSUME Timetable, Permission, Grown(log, log'), UNCHANGED chaseVars,
         \A k \in 1 .. Len(log') : k \in 1 .. Len(log) \/ Silent(log'[k])
  PROVE  Permission'
<1>0. /\ asked' = asked /\ sim' = sim /\ Recovered' = Recovered
      /\ DeliveriesAllowed /\ MoneyBacked
  BY DEF Permission, chaseVars, Recovered
<1>1. /\ Len(log) \in Nat /\ Len(log') \in Nat /\ Len(log) <= Len(log')
      /\ \A k \in 1 .. Len(log) : k \in 1 .. Len(log') /\ log'[k] = log[k]
  BY DEF Grown
<1>2. ASSUME NEW i
      PROVE  ContactRows(i)' = ContactRows(i)
  <2>1. ASSUME NEW k, k \in ContactRows(i)'
        PROVE  k \in ContactRows(i)
    BY <1>1, <2>1 DEF ContactRows, Silent
  <2>2. ASSUME NEW k, k \in ContactRows(i)
        PROVE  k \in ContactRows(i)'
    BY <1>1, <2>2 DEF ContactRows
  <2> QED
    BY <2>1, <2>2
<1>3. DeliveriesAllowed'
  <2>1. \A i : OnItsWay(i)' <=> OnItsWay(i)
    BY <1>0 DEF OnItsWay
  <2> QED
    BY <1>0, <1>2, <2>1 DEF DeliveriesAllowed, Targets
<1>4. ASSUME NEW i \in Targets, i \in Recovered', sim.recovered'[i].why = "chased"
      PROVE  \E j \in 1 .. Len(log') : \E k \in j + 1 .. Len(log') : Backing(i, j, k)'
  <2>1. sim.recovered'[i] = sim.recovered[i]
    BY <1>0
  <2>2. \E j \in 1 .. Len(log) : \E k \in j + 1 .. Len(log) : Backing(i, j, k)
    BY <1>0, <1>4 DEF MoneyBacked
  <2> QED
    BY <1>1, <2>1, <2>2, StaysBacked
<1> QED
  BY <1>3, <1>4 DEF Permission, MoneyBacked, Targets

\* What two of the agents ask for contacts nobody, and only a decision allows.
LEMMA OthersAreSilent ==
  ASSUME NEW row
  PROVE  /\ row.type # "decision" => Silent(row)
         /\ row.req.action \in RISK_ACTIONS \cup {"match_settlement", "escalate_to_human"}
              => Silent(row)
BY DEF Silent, Allowed, Contacts, CONTACT_ACTIONS, RISK_ACTIONS

LEMMA PermissionReplayed ==
  Month /\ Permission /\ [ReplayNext]_replayVars => Permission'
<1> SUFFICES ASSUME Month, Permission, [ReplayNext]_replayVars
             PROVE  Permission'
  OBVIOUS
<1>0. Timetable /\ IsSeq(log) /\ Len(log) \in Nat /\ seen \subseteq PaymentSet
  BY SeqShape DEF Month, Timetable, Answers, Queues
\* The steps of the chase itself.
<1>1. CASE [Next]_vars
  BY <1>0, <1>1, PermissionStep
\* A request of somebody else, and its answer.
<1>2. ASSUME NEW req, NEW row, Submitted(req, row, Now), UNCHANGED chaseVars,
             req.action \in RISK_ACTIONS \cup {"match_settlement", "escalate_to_human"}
      PROVE  Permission'
  <2>1. /\ Grown(log, log') /\ row.req = req
        /\ log'[Len(log) + 1] = RequestRow(req) /\ log'[Len(log) + 2] = row
        /\ \A k \in 1 .. Len(log') : k \in 1 .. Len(log) \/ k = Len(log) + 1 \/ k = Len(log) + 2
    BY <1>0, <1>2 DEF Submitted
  <2>2. Silent(RequestRow(req)) /\ Silent(row)
    BY <1>2, <2>1, OthersAreSilent DEF RequestRow
  <2> QED
    BY <1>0, <1>2, <2>1, <2>2, PermissionUndisturbed
<1>3. CASE Screen
  <2>1. PICK p, req, row : RiskAsks(p, req, row)
    BY <1>3, RiskAsksIs
  <2>2. p \in PaymentSet /\ req = Opinion[p] /\ req.action # None
        /\ Submitted(req, row, Now) /\ UNCHANGED chaseVars
    BY <2>1 DEF RiskAsks
  <2>3. req.action \in RISK_ACTIONS
    BY <2>2, OpinionIs
  <2> QED
    BY <1>2, <2>2, <2>3
<1>4. CASE CheckBatch
  <2>1. PICK s, req, row : ReconcilerAsks(s, req, row)
    BY <1>4, ReconcilerAsksIs
  <2>2. req = Request(reconcile, s) /\ Submitted(req, row, Now) /\ UNCHANGED chaseVars
    BY <2>1 DEF ReconcilerAsks
  <2>3. req.action \in {"match_settlement", "escalate_to_human"}
    BY <2>2 DEF Request, BatchRequest
  <2> QED
    BY <1>2, <2>2, <2>3
<1>5. CASE SignBlock
  <2>1. PICK req, row : Resubmitted(req, row)
    BY <1>5, ResubmittedIs
  <2>2. /\ req \in Opinions /\ row.req = req /\ Grown(log, log') /\ UNCHANGED chaseVars
        /\ log'[Len(log) + 1] = HumanRow("human_approval", req.id)
        /\ log'[Len(log) + 2] = RequestRow(req)
        /\ log'[Len(log) + 3] = row
        /\ \A k \in 1 .. Len(log') :
             \/ k \in 1 .. Len(log)
             \/ k = Len(log) + 1 \/ k = Len(log) + 2 \/ k = Len(log) + 3
             \/ log'[k].type = "outcome"
    BY <2>1 DEF Resubmitted
  <2>3. req.action \in RISK_ACTIONS
    BY <1>0, <2>2, OpinionsAre
  <2>4. /\ Silent(HumanRow("human_approval", req.id)) /\ Silent(RequestRow(req)) /\ Silent(row)
        /\ \A k \in 1 .. Len(log') : log'[k].type = "outcome" => Silent(log'[k])
    BY <2>2, <2>3, OthersAreSilent DEF HumanRow, RequestRow
  <2>5. \A k \in 1 .. Len(log') : k \in 1 .. Len(log) \/ Silent(log'[k])
    BY <2>2, <2>4
  <2> QED
    BY <1>0, <2>2, <2>5, PermissionUndisturbed
<1>6. CASE ResolvePayment
  <2>1. Followed
    BY <1>6, FollowedIs
  <2>2. \A k \in 1 .. Len(log') : k \in 1 .. Len(log) \/ Silent(log'[k])
    BY <2>1, OthersAreSilent DEF Followed
  <2>3. UNCHANGED chaseVars
    BY <1>6 DEF ResolvePayment, chaseVars
  <2> QED
    BY <1>0, <2>1, <2>2, <2>3, PermissionUndisturbed DEF Followed
<1> QED
  BY <1>1, <1>3, <1>4, <1>5, <1>6
     DEF ReplayNext, DeclineBlock, BeginReplayDay, WorkInvoice, ResolveInvoice, PassOver, Close,
         Next, replayVars

\* Three agents write into one log and nothing comes of what was refused all the
\* same: the contacts delivered on an invoice are those the ledger allows, one by
\* one, and money credited to the chase has an allowed decision and a later
\* outcome row of that amount behind it (replay.py:213-273, outcomes.py:215-262).
THEOREM ReplayNothingWithoutPermission == ReplaySpec => []NothingWithoutPermission
<1>1. ReplayInit => Permission
  BY PermissionInit DEF ReplayInit
<1>2. Month /\ Permission => NothingWithoutPermission
  BY PermissionTold DEF Month
<1> QED
  BY <1>1, <1>2, MonthInit, MonthStep, PermissionReplayed, PTL DEF ReplaySpec

-----------------------------------------------------------------------------
(* The limits hold with three agents behind one gateway: what the others are *)
(* allowed is neither a contact nor an attempt, and the counters know it.    *)

\* The actions of the two others are of neither kind.
LEMMA OthersAreUnmoved ==
  ASSUME NEW row
  PROVE  /\ row.type # "decision" => Unmoved(row)
         /\ row.req.action \in RISK_ACTIONS \cup {"match_settlement", "escalate_to_human"}
              => Unmoved(row)
BY DEF Unmoved, Allowed, Contacts, ATTEMPT_ACTIONS, CONTACT_ACTIONS, RISK_ACTIONS

LEMMA CountUnmoved ==
  ASSUME NEW m, DOMAIN m = CounterNames, NEW row, row.type = "decision", Unmoved(row)
  PROVE  /\ DOMAIN Count(m, row) = CounterNames
         /\ Count(m, row).attempts = m.attempts
         /\ Count(m, row).contacts = m.contacts
BY CountChase, Zenon DEF Unmoved, Contacted

LEMMA LimitsUndisturbed ==
  ASSUME LimitsKept, IsSeq(log'), Grown(log, log'), DOMAIN mem' = CounterNames,
         mem'.attempts = mem.attempts, mem'.contacts = mem.contacts,
         \A k \in 1 .. Len(log') : k \in 1 .. Len(log) \/ Unmoved(log'[k])
  PROVE  LimitsKept'
<1>1. /\ InLimits(mem, log) /\ Len(log) <= Len(log') /\ Len(log) \in Nat /\ Len(log') \in Nat
      /\ \A k \in 1 .. Len(log) : log'[k] = log[k]
  BY DEF LimitsKept, Grown
<1>2. InLimits(mem', log')
  BY <1>1, WithinQuiet
<1> QED
  BY <1>2 DEF LimitsKept

LEMMA LimitsReplayed ==
  Month /\ LimitsKept /\ [ReplayNext]_replayVars => LimitsKept'
<1> SUFFICES ASSUME Month, LimitsKept, [ReplayNext]_replayVars
             PROVE  LimitsKept'
  OBVIOUS
<1>0. /\ Timetable /\ IsSeq(log) /\ Len(log) \in Nat /\ seen \subseteq PaymentSet
      /\ DOMAIN mem = CounterNames
  BY SeqShape DEF Month, Timetable, Answers, Queues
\* The steps of the chase itself.
<1>1. CASE [Next]_vars
  BY <1>0, <1>1, LimitsStay
\* A request of somebody else, and its answer.
<1>2. ASSUME NEW req, NEW row, Submitted(req, row, Now),
             req.action \in RISK_ACTIONS \cup {"match_settlement", "escalate_to_human"}
      PROVE  LimitsKept'
  <2>1. /\ Grown(log, log') /\ row.req = req /\ row.type = "decision" /\ mem' = Count(mem, row)
        /\ log'[Len(log) + 1] = RequestRow(req) /\ log'[Len(log) + 2] = row
        /\ \A k \in 1 .. Len(log') : k \in 1 .. Len(log) \/ k = Len(log) + 1 \/ k = Len(log) + 2
    BY <1>0, <1>2 DEF Submitted
  <2>2. Unmoved(RequestRow(req)) /\ Unmoved(row)
    BY <1>2, <2>1, OthersAreUnmoved DEF RequestRow
  <2>3. /\ DOMAIN mem' = CounterNames
        /\ mem'.attempts = mem.attempts /\ mem'.contacts = mem.contacts
    BY <1>0, <2>1, <2>2, CountUnmoved
  <2>4. IsSeq(log') /\ \A k \in 1 .. Len(log') : k \in 1 .. Len(log) \/ Unmoved(log'[k])
    BY <2>1, <2>2 DEF Grown
  <2> QED
    BY <2>1, <2>3, <2>4, LimitsUndisturbed
<1>3. CASE Screen
  <2>1. PICK p, req, row : RiskAsks(p, req, row)
    BY <1>3, RiskAsksIs
  <2>2. p \in PaymentSet /\ req = Opinion[p] /\ req.action # None /\ Submitted(req, row, Now)
    BY <2>1 DEF RiskAsks
  <2>3. req.action \in RISK_ACTIONS
    BY <2>2, OpinionIs
  <2> QED
    BY <1>2, <2>2, <2>3
<1>4. CASE CheckBatch
  <2>1. PICK s, req, row : ReconcilerAsks(s, req, row)
    BY <1>4, ReconcilerAsksIs
  <2>2. req = Request(reconcile, s) /\ Submitted(req, row, Now)
    BY <2>1 DEF ReconcilerAsks
  <2>3. req.action \in {"match_settlement", "escalate_to_human"}
    BY <2>2 DEF Request, BatchRequest
  <2> QED
    BY <1>2, <2>2, <2>3
<1>5. CASE SignBlock
  <2>1. PICK req, row : Resubmitted(req, row)
    BY <1>5, ResubmittedIs
  <2>2. /\ req \in Opinions /\ row.req = req /\ row.type = "decision" /\ Grown(log, log')
        /\ mem' = Count(Sign(mem, req.id), row)
        /\ log'[Len(log) + 1] = HumanRow("human_approval", req.id)
        /\ log'[Len(log) + 2] = RequestRow(req)
        /\ log'[Len(log) + 3] = row
        /\ \A k \in 1 .. Len(log') :
             \/ k \in 1 .. Len(log)
             \/ k = Len(log) + 1 \/ k = Len(log) + 2 \/ k = Len(log) + 3
             \/ log'[k].type = "outcome"
    BY <2>1 DEF Resubmitted
  <2>3. req.action \in RISK_ACTIONS
    BY <1>0, <2>2, OpinionsAre
  <2>4. /\ Unmoved(HumanRow("human_approval", req.id)) /\ Unmoved(RequestRow(req)) /\ Unmoved(row)
        /\ \A k \in 1 .. Len(log') : log'[k].type = "outcome" => Unmoved(log'[k])
    BY <2>2, <2>3, OthersAreUnmoved DEF HumanRow, RequestRow
  <2>5. IsSeq(log') /\ \A k \in 1 .. Len(log') : k \in 1 .. Len(log) \/ Unmoved(log'[k])
    BY <2>2, <2>4 DEF Grown
  <2>6. PICK m : m = Sign(mem, req.id)
    OBVIOUS
  <2>7. DOMAIN m = CounterNames /\ m.attempts = mem.attempts /\ m.contacts = mem.contacts
    BY <1>0, <2>6 DEF Sign, CounterNames
  <2>8. /\ DOMAIN mem' = CounterNames
        /\ mem'.attempts = mem.attempts /\ mem'.contacts = mem.contacts
    BY <2>2, <2>4, <2>6, <2>7, CountUnmoved
  <2> QED
    BY <2>2, <2>5, <2>8, LimitsUndisturbed
<1>6. CASE ResolvePayment
  <2>1. Followed
    BY <1>6, FollowedIs
  <2>2. IsSeq(log') /\ \A k \in 1 .. Len(log') : k \in 1 .. Len(log) \/ Unmoved(log'[k])
    BY <2>1, OthersAreUnmoved DEF Followed, Grown
  <2> QED
    BY <1>0, <2>1, <2>2, LimitsUndisturbed DEF Followed
<1> QED
  BY <1>1, <1>3, <1>4, <1>5, <1>6
     DEF ReplayNext, DeclineBlock, BeginReplayDay, WorkInvoice, ResolveInvoice, PassOver, Close,
         Next, replayVars

\* Nobody is hounded with the risk agent and the reconciler at the same gateway
\* either: what they are allowed takes no contact from the chase and gives it
\* none (replay.py:213-273, gateway.py:162).
THEOREM ReplayNobodyHounded == ReplaySpec => []NobodyHounded
<1>1. ReplayInit => LimitsKept
  BY WithinStart DEF ReplayInit, Init, LimitsKept
<1>2. LimitsKept => NobodyHounded
  BY LimitsMeanNobodyHounded
<1> QED
  BY <1>1, <1>2, MonthInit, MonthStep, LimitsReplayed, PTL DEF ReplaySpec
=============================================================================
