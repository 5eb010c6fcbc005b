--------------------------- MODULE CampaignProofs ---------------------------
(***************************************************************************)
(* The chase, for every book of invoices, every ground truth, every        *)
(* planner and any number of days and runs.                                *)
(*                                                                         *)
(* A day is two passes over the book, and what a property says of an       *)
(* invoice is settled between them: the invariant says where each invoice  *)
(* stands.  It is waiting in todo, or asked about and waiting in asked, or *)
(* done for the day, never two of these and never twice; an invoice that   *)
(* has paid is in neither.  The number in a request's id is what ties the  *)
(* log to the ladder.                                                      *)
(***************************************************************************)
EXTENDS Campaign, RulebookProofs, FiniteSetTheorems, SequenceTheorems

-----------------------------------------------------------------------------
(* Sequences of anything.                                                    *)

IsSeq(s) == \E S : s \in Seq(S)

\* No element occurs twice.
Distinct(s) == \A j, k \in 1 .. Len(s) : s[j] = s[k] => j = k

LEMMA SeqShape ==
  ASSUME NEW s, IsSeq(s)
  PROVE  Len(s) \in Nat /\ DOMAIN s = 1 .. Len(s)
BY LenProperties DEF IsSeq

LEMMA NoSeq == IsSeq(<<>>) /\ Len(<<>>) = 0 /\ DOMAIN <<>> = {}
<1>1. <<>> \in Seq({}) /\ Len(<<>>) = 0
  BY EmptySeq
<1> QED
  BY <1>1, LenProperties DEF IsSeq

LEMMA OneMoreRow ==
  ASSUME NEW s, IsSeq(s), NEW e
  PROVE  /\ IsSeq(Append(s, e))
         /\ Len(Append(s, e)) = Len(s) + 1
         /\ \A k \in 1 .. Len(s) : Append(s, e)[k] = s[k]
         /\ Append(s, e)[Len(s) + 1] = e
<1>1. PICK S : s \in Seq(S)
  BY DEF IsSeq
<1> DEFINE T == S \cup {e}
<1>2. s \in Seq(T) /\ e \in T
  BY <1>1, SeqMonotonic
<1> HIDE DEF T
<1> QED
  BY <1>2, AppendProperties DEF IsSeq

LEMMA TwoMoreRows ==
  ASSUME NEW s, IsSeq(s), NEW a, NEW b
  PROVE  LET t == s \o <<a, b>>
         IN  /\ IsSeq(t)
             /\ Len(t) = Len(s) + 2
             /\ \A k \in 1 .. Len(s) : t[k] = s[k]
             /\ t[Len(s) + 1] = a
             /\ t[Len(s) + 2] = b
<1>1. PICK S : s \in Seq(S)
  BY DEF IsSeq
<1> DEFINE T == S \cup {a, b}
           two == <<a, b>>
<1>2. s \in Seq(T) /\ a \in T /\ b \in T
  BY <1>1, SeqMonotonic
<1>3. two \in Seq(T) /\ Len(two) = 2 /\ two[1] = a /\ two[2] = b
  BY <1>2
<1> HIDE DEF T, two
<1>4. /\ s \o two \in Seq(T)
      /\ Len(s \o two) = Len(s) + Len(two)
      /\ \A i \in 1 .. Len(s) + Len(two) :
           (s \o two)[i] = IF i <= Len(s) THEN s[i] ELSE two[i - Len(s)]
  BY <1>2, <1>3, ConcatProperties
<1>5. Len(s) \in Nat
  BY <1>2, LenProperties
<1>6. /\ \A k \in 1 .. Len(s) : (s \o two)[k] = s[k]
      /\ (s \o two)[Len(s) + 1] = two[1]
      /\ (s \o two)[Len(s) + 2] = two[2]
  <2>1. Len(s) + 1 \in 1 .. Len(s) + Len(two) /\ Len(s) + 2 \in 1 .. Len(s) + Len(two)
    BY <1>3, <1>5
  <2>2. /\ ~ (Len(s) + 1 <= Len(s)) /\ (Len(s) + 1) - Len(s) = 1
        /\ ~ (Len(s) + 2 <= Len(s)) /\ (Len(s) + 2) - Len(s) = 2
    BY <1>5
  <2>3. \A k \in 1 .. Len(s) : k \in 1 .. Len(s) + Len(two) /\ k <= Len(s)
    BY <1>3, <1>5
  <2> QED
    BY <1>4, <2>1, <2>2, <2>3
<1> QED
  BY <1>3, <1>4, <1>6 DEF two, IsSeq

LEMMA RestOf ==
  ASSUME NEW s, IsSeq(s), s # <<>>
  PROVE  /\ IsSeq(Tail(s))
         /\ Len(s) \in Nat /\ Len(s) >= 1
         /\ Head(s) = s[1]
         /\ Len(Tail(s)) = Len(s) - 1
         /\ \A k \in 1 .. Len(Tail(s)) : Tail(s)[k] = s[k + 1] /\ k + 1 \in 1 .. Len(s)
<1>1. PICK S : s \in Seq(S)
  BY DEF IsSeq
<1>2. /\ Tail(s) \in Seq(S)
      /\ Len(Tail(s)) = Len(s) - 1
      /\ \A k \in 1 .. Len(Tail(s)) : Tail(s)[k] = s[k + 1]
  BY <1>1, HeadTailProperties
<1>3. Len(s) \in Nat \ {0}
  BY <1>1, EmptySeq
<1>4. Head(s) = s[1]
  BY <1>1
<1> QED
  BY <1>2, <1>3, <1>4 DEF IsSeq

-----------------------------------------------------------------------------
(* The list comprehension.                                                   *)

Filters(g, s, gone) ==
  g = [n \in 0 .. Len(s) |->
         IF n = 0 THEN <<>>
         ELSE IF s[n] \in gone THEN g[n - 1] ELSE Append(g[n - 1], s[n])]

\* What has been kept of the first n elements.
Kept(t, s, gone, S, n) ==
  /\ t \in Seq(S)
  /\ Len(t) <= n
  /\ \A j \in 1 .. Len(t) : t[j] \notin gone
  /\ \A k \in 1 .. n : s[k] \notin gone => \E j \in 1 .. Len(t) : t[j] = s[k]
  /\ \A j \in 1 .. Len(t) : \E k \in 1 .. n : t[j] = s[k]
  /\ Distinct(s) => Distinct(t)

LEMMA KeptOneMore ==
  ASSUME NEW S, NEW s \in Seq(S), NEW gone, NEW n \in 0 .. Len(s) - 1, NEW t,
         Kept(t, s, gone, S, n)
  PROVE  Kept(IF s[n + 1] \in gone THEN t ELSE Append(t, s[n + 1]), s, gone, S, n + 1)
<1>0. /\ Len(s) \in Nat /\ n \in Nat /\ n + 1 \in 1 .. Len(s) /\ s[n + 1] \in S
      /\ \A k \in 1 .. n + 1 : k \in 1 .. n \/ k = n + 1
      /\ \A k \in 1 .. n : k \in 1 .. n + 1 /\ k \in 1 .. Len(s) /\ k # n + 1
      /\ n + 1 \in 1 .. n + 1
  BY LenProperties, ElementOfSeq
<1>1. /\ t \in Seq(S) /\ Len(t) \in Nat
      /\ Len(t) <= n
      /\ \A j \in 1 .. Len(t) : t[j] \notin gone
      /\ \A k \in 1 .. n : s[k] \notin gone => \E j \in 1 .. Len(t) : t[j] = s[k]
      /\ \A j \in 1 .. Len(t) : \E k \in 1 .. n : t[j] = s[k]
      /\ Distinct(s) => Distinct(t)
  BY LenProperties DEF Kept
<1>2. CASE s[n + 1] \in gone
  BY <1>0, <1>1, <1>2 DEF Kept
<1>3. CASE s[n + 1] \notin gone
  <2> DEFINE u == Append(t, s[n + 1])
  <2>1. /\ u \in Seq(S) /\ Len(u) = Len(t) + 1
        /\ \A j \in 1 .. Len(t) : u[j] = t[j]
        /\ u[Len(t) + 1] = s[n + 1]
    BY <1>0, <1>1, AppendProperties
  <2> HIDE DEF u
  <2>2. /\ \A j \in 1 .. Len(u) : j \in 1 .. Len(t) \/ j = Len(t) + 1
        /\ \A j \in 1 .. Len(t) : j \in 1 .. Len(u)
        /\ Len(t) + 1 \in 1 .. Len(u)
        /\ Len(u) <= n + 1
    BY <1>0, <1>1, <2>1
  <2>3. \A j \in 1 .. Len(u) : u[j] \notin gone
    BY <1>1, <1>3, <2>1, <2>2
  <2>4. \A k \in 1 .. n + 1 : s[k] \notin gone => \E j \in 1 .. Len(u) : u[j] = s[k]
    BY <1>0, <1>1, <2>1, <2>2
  <2>5. \A j \in 1 .. Len(u) : \E k \in 1 .. n + 1 : u[j] = s[k]
    BY <1>0, <1>1, <2>1, <2>2
  <2>6. ASSUME Distinct(s)
        PROVE  Distinct(u)
    <3>1. \A j \in 1 .. Len(t) : t[j] # s[n + 1]
      BY <1>0, <1>1, <2>6 DEF Distinct
    <3> QED
      BY <1>1, <2>1, <2>2, <2>6, <3>1 DEF Distinct
  <2>7. Kept(u, s, gone, S, n + 1)
    BY <2>1, <2>2, <2>3, <2>4, <2>5, <2>6 DEF Kept
  <2> QED
    BY <1>3, <2>7 DEF u
<1> QED
  BY <1>2, <1>3

LEMMA FiltersExist ==
  ASSUME NEW S, NEW s \in Seq(S), NEW gone
  PROVE  \E g : Filters(g, s, gone)
<1> DEFINE
      next(g, n) == IF s[n] \in gone THEN g[n - 1] ELSE Append(g[n - 1], s[n])
      filters(g, k) == g[0] = <<>> /\ \A n \in 1 .. k : g[n] = next(g, n)
      reached == {k \in 0 .. Len(s) : \E g \in [0 .. k -> Seq(S)] : filters(g, k)}
<1>0. Len(s) \in Nat
  BY LenProperties
<1>1. 0 \in reached
  <2> DEFINE g == [n \in 0 .. 0 |-> <<>>]
  <2>1. g \in [0 .. 0 -> Seq(S)] /\ filters(g, 0) /\ 0 \in 0 .. Len(s)
    BY <1>0, EmptySeq
  <2> HIDE DEF g, filters
  <2> QED
    BY <2>1
<1>2. ASSUME NEW k \in 0 .. Len(s) - 1, k \in reached
      PROVE  k + 1 \in reached
  <2>1. PICK g \in [0 .. k -> Seq(S)] : filters(g, k)
    BY <1>2
  <2>2. /\ k + 1 \in 1 .. Len(s) /\ k + 1 \in 0 .. Len(s) /\ k \in 0 .. k
        /\ g[k] \in Seq(S) /\ s[k + 1] \in S /\ (k + 1) - 1 = k /\ 0 \in 0 .. k
        /\ \A n \in 1 .. k : n \in 0 .. k /\ n - 1 \in 0 .. k
        /\ \A n \in 1 .. k + 1 : n \in 1 .. k \/ n = k + 1
        /\ k + 1 \notin 0 .. k
        /\ \A n \in 0 .. k + 1 : n \in 0 .. k \/ n = k + 1
        /\ \A n \in 0 .. k : n \in 0 .. k + 1
        /\ k + 1 \in 0 .. k + 1
    BY <1>0, ElementOfSeq
  <2> DEFINE e == next(g, k + 1)
             last == IF s[k + 1] \in gone THEN g[k] ELSE Append(g[k], s[k + 1])
  <2>3. last \in Seq(S)
    BY <2>2, AppendProperties
  <2> HIDE DEF last
  <2> DEFINE h == [n \in 0 .. k + 1 |-> IF n \in 0 .. k THEN g[n] ELSE last]
  <2>4. h \in [0 .. k + 1 -> Seq(S)]
    BY <2>2, <2>3
  <2>5. (\A n \in 0 .. k : h[n] = g[n]) /\ h[k + 1] = last
    BY <2>2
  <2> HIDE DEF h
  <2>6. h[0] = <<>>
    BY <2>1, <2>2, <2>5
  <2>7. \A n \in 1 .. k : h[n] = next(h, n)
    BY <2>1, <2>2, <2>5
  <2>8. h[k + 1] = next(h, k + 1)
    BY <2>2, <2>5 DEF last
  <2>9. filters(h, k + 1)
    BY <2>2, <2>6, <2>7, <2>8
  <2> HIDE DEF filters
  <2> QED
    BY <2>2, <2>4, <2>9
<1>3. 0 .. Len(s) \subseteq reached
  <2> HIDE DEF reached
  <2> QED
    BY <1>0, <1>1, <1>2, UpTo
<1>4. Len(s) \in reached
  <2> HIDE DEF reached
  <2> QED
    BY <1>0, <1>3
<1>5. PICK g \in [0 .. Len(s) -> Seq(S)] : filters(g, Len(s))
  BY <1>4
<1> DEFINE body == [n \in 0 .. Len(s) |->
                      IF n = 0 THEN <<>>
                      ELSE IF s[n] \in gone THEN g[n - 1] ELSE Append(g[n - 1], s[n])]
<1>6. \A n \in 0 .. Len(s) : g[n] = body[n]
  <2>1. \A n \in 0 .. Len(s) : n = 0 \/ n \in 1 .. Len(s)
    BY <1>0
  <2> QED
    BY <1>0, <1>5, <2>1
<1>7. g = [n \in 0 .. Len(s) |-> g[n]]
  OBVIOUS
<1>8. body = [n \in 0 .. Len(s) |-> body[n]]
  OBVIOUS
<1>9. g = body
  <2> HIDE DEF body
  <2> QED
    BY <1>6, <1>7, <1>8
<1> QED
  BY <1>9 DEF Filters

\* Without keeps the elements that are not gone, in their order and each as
\* often as it was there.
LEMMA WithoutKeeps ==
  ASSUME NEW S, NEW s \in Seq(S), NEW gone
  PROVE  Kept(Without(s, gone), s, gone, S, Len(s))
<1> DEFINE upto == CHOOSE g : Filters(g, s, gone)
           right == {n \in 0 .. Len(s) : Kept(upto[n], s, gone, S, n)}
<1>0. Len(s) \in Nat
  BY LenProperties
<1>1. Filters(upto, s, gone)
  BY FiltersExist
<1>2. Without(s, gone) = upto[Len(s)]
  BY DEF Without, Filters
<1> HIDE DEF upto
<1>3. \A n \in 0 .. Len(s) :
        upto[n] = IF n = 0 THEN <<>>
                  ELSE IF s[n] \in gone THEN upto[n - 1] ELSE Append(upto[n - 1], s[n])
  BY <1>1 DEF Filters
<1>4. 0 \in right
  <2>1. upto[0] = <<>> /\ 0 \in 0 .. Len(s)
    BY <1>0, <1>3
  <2>2. Kept(<<>>, s, gone, S, 0)
    BY EmptySeq DEF Kept, Distinct
  <2> QED
    BY <2>1, <2>2
<1>5. ASSUME NEW n \in 0 .. Len(s) - 1, n \in right
      PROVE  n + 1 \in right
  <2>1. n + 1 \in 0 .. Len(s) /\ n + 1 # 0 /\ (n + 1) - 1 = n
    BY <1>0
  <2>2. upto[n + 1] = IF s[n + 1] \in gone THEN upto[n] ELSE Append(upto[n], s[n + 1])
    BY <1>3, <2>1
  <2>3. Kept(upto[n], s, gone, S, n)
    BY <1>5
  <2>4. Kept(upto[n + 1], s, gone, S, n + 1)
    BY <2>2, <2>3, KeptOneMore
  <2> QED
    BY <2>1, <2>4
<1> HIDE DEF right
<1>6. 0 .. Len(s) \subseteq right
  BY <1>0, <1>4, <1>5, UpTo
<1>7. Len(s) \in right
  BY <1>0, <1>6
<1> QED
  BY <1>2, <1>7 DEF right

-----------------------------------------------------------------------------
(* Where every invoice stands.                                               *)

Chased == Targets \ holdout

Dataset == truth \in [Targets -> Facts] /\ holdout \subseteq Targets /\ order \in WorkOrders

Calendar ==
  /\ day \in 0 .. Days + 1
  /\ todo # <<>> \/ asked # <<>> => day \in 1 .. Days
  /\ IsSeq(scorecards)
  /\ Len(scorecards) <= MaxRuns
  /\ day <= Days => Len(scorecards) < MaxRuns

\* An invoice is marked paid in the books exactly when its money has come.
Money ==
  /\ sim = [delivered |-> sim.delivered, recovered |-> sim.recovered]
  /\ sim.delivered \in [Targets -> Nat]
  /\ Recovered \subseteq Targets
  /\ DOMAIN books = DOMAIN Invoices
  /\ \A i \in DOMAIN Invoices :
       books[i] = IF i \in Recovered THEN [Invoices[i] EXCEPT !.status = "paid"] ELSE Invoices[i]

\* An invoice is asked about once a day at most.
Tries ==
  /\ agent \in [tried : [Targets -> Nat], closed : SUBSET Targets]
  /\ \A i \in Targets : agent.tried[i] <= Elapsed

Waiting ==
  /\ todo \in Seq(Chased)
  /\ Distinct(todo)
  /\ Len(todo) <= Len(order)
  /\ \A k \in 1 .. Len(todo) : todo[k] \notin Recovered /\ agent.tried[todo[k]] < day

IsAnswer(row) ==
  /\ row.type = "decision"
  /\ row.req.invoice \in Chased
  /\ row.req.invoice \notin Recovered
  /\ \A j \in 1 .. Len(todo) : todo[j] # row.req.invoice
  /\ \E j \in 1 .. Len(log) : log[j] = row

Answers ==
  /\ IsSeq(log)
  /\ IsSeq(asked)
  /\ \A k \in 1 .. Len(asked) : IsAnswer(asked[k])
  /\ \A j, k \in 1 .. Len(asked) : asked[j].req.invoice = asked[k].req.invoice => j = k

\* The requests and the decisions of the log are about invoices of the group
\* that is worked.
RowsKnown ==
  \A k \in 1 .. Len(log) :
    /\ log[k].type \in {"request", "decision", "outcome"}
    /\ log[k].type # "outcome" => log[k].req.invoice \in Chased

Timetable == Dataset /\ Calendar /\ Money /\ Tries /\ Waiting /\ Answers

Schedule == Timetable /\ RowsKnown

LEMMA BookIs == Book \in Seq(Targets) /\ Distinct(Book) /\ Targets \subseteq DOMAIN Invoices
<1>1. Book \in Seq(DOMAIN Invoices) /\ DOMAIN Book = 1 .. Len(Book) /\ Len(Book) \in Nat
  BY BookAssumption, LenProperties
<1>2. \A k \in 1 .. Len(Book) : Book[k] \in Targets /\ Book[k] \in DOMAIN Invoices
  BY <1>1, ElementOfSeq DEF Targets
<1>3. Book \in Seq(Targets)
  BY <1>1, <1>2
<1> QED
  BY <1>1, <1>2, <1>3, BookAssumption DEF Targets, Distinct

\* What is true of every invoice of the book.
LEMMA InvoiceIs ==
  ASSUME NEW i \in Targets
  PROVE  /\ i \in DOMAIN Invoices
         /\ "amount" \in DOMAIN Invoices[i] /\ "status" \in DOMAIN Invoices[i]
         /\ "due" \in DOMAIN Invoices[i]
         /\ Invoices[i].amount \in Int
         /\ Invoices[i].status \in {"open", "overdue"}
BY BookIs, BookAssumption DEF Targets

LEMMA WorkedIs ==
  ASSUME holdout \subseteq Targets
  PROVE  Worked \in Seq(Chased) /\ Distinct(Worked)
<1>1. Kept(Worked, Book, holdout, Targets, Len(Book))
  BY BookIs, WithoutKeeps DEF Worked
<1>2. Worked \in Seq(Targets) /\ Len(Worked) \in Nat /\ Distinct(Worked)
  BY <1>1, BookIs, LenProperties DEF Kept
<1>3. \A k \in 1 .. Len(Worked) : Worked[k] \in Chased
  BY <1>1, <1>2, ElementOfSeq DEF Kept, Chased
<1> HIDE DEF Worked
<1> QED
  BY <1>2, <1>3

LEMMA OrderIs ==
  ASSUME Dataset
  PROVE  order \in Seq(Chased) /\ Distinct(order) /\ Len(order) \in Nat
<1>0. Worked \in Seq(Chased) /\ Distinct(Worked) /\ Len(Worked) \in Nat
      /\ DOMAIN Worked = 1 .. Len(Worked)
  BY WorkedIs, LenProperties DEF Dataset
<1>1. order = Worked \/ order \in Rearranged(Worked)
  BY DEF Dataset, WorkOrders
<1>2. CASE order = Worked
  BY <1>0, <1>2
<1>3. CASE order \in Rearranged(Worked)
  <2> HIDE DEF Worked
  <2>1. /\ order \in [1 .. Len(Worked) -> {Worked[k] : k \in 1 .. Len(Worked)}]
        /\ \A j, k \in 1 .. Len(Worked) : order[j] = order[k] => j = k
    BY <1>0, <1>3 DEF Rearranged
  <2>2. {Worked[k] : k \in 1 .. Len(Worked)} \subseteq Chased
    BY <1>0, ElementOfSeq
  <2>3. order \in [1 .. Len(Worked) -> Chased]
    BY <2>1, <2>2
  <2>4. order \in Seq(Chased)
    BY <1>0, <2>3
  <2>5. Len(order) = Len(Worked)
    BY <1>0, <2>3, <2>4, LenProperties
  <2> QED
    BY <1>0, <2>1, <2>4, <2>5 DEF Distinct
<1> QED
  BY <1>1, <1>2, <1>3

LEMMA ElapsedIs ==
  ASSUME Calendar
  PROVE  /\ day \in Nat /\ Days \in Nat /\ Elapsed \in 0 .. Days
         /\ day \in 0 .. Days => Elapsed = day
BY RunsAssumption DEF Calendar, Elapsed

-----------------------------------------------------------------------------
(* What the operations do.                                                   *)

\* The start of a run.
AtStart ==
  /\ day = 0 /\ todo = <<>> /\ asked = <<>> /\ log = <<>>
  /\ books = Invoices
  /\ agent = NewAgent
  /\ sim = NewSim

LEMMA StartHolds ==
  Dataset /\ AtStart => Money /\ Tries /\ Waiting /\ Answers /\ RowsKnown
<1> SUFFICES ASSUME Dataset, AtStart
             PROVE  Money /\ Tries /\ Waiting /\ Answers /\ RowsKnown
  OBVIOUS
<1> USE DEF AtStart
<1>1. Recovered = {} /\ sim.delivered = [i \in Targets |-> 0] /\ sim.recovered = <<>>
  BY NoSeq DEF Recovered, NewSim
<1>2. Money
  BY <1>1 DEF Money, NewSim
<1>3. Elapsed = 0
  BY RunsAssumption DEF Elapsed
<1>4. Tries
  BY <1>3 DEF Tries, NewAgent
<1>5. Waiting
  BY OrderIs, EmptySeq DEF Waiting, Distinct
<1>6. Answers
  BY NoSeq DEF Answers
<1>7. RowsKnown
  BY NoSeq DEF RowsKnown
<1> QED
  BY <1>2, <1>4, <1>5, <1>6, <1>7

\* Money arrives: the simulator credits it and the store marks it paid.
LEMMA PaidIn ==
  ASSUME Money, NEW paid \in SUBSET Targets, paid \cap Recovered = {}, NEW minus, NEW why,
         books' = MarkPaid(paid),
         sim' = [delivered |-> sim.delivered', recovered |-> Credit(paid, minus, why)],
         sim.delivered' \in [Targets -> Nat]
  PROVE  /\ Money'
         /\ Recovered' = Recovered \cup paid
         /\ \A i \in Recovered : sim.recovered'[i] = sim.recovered[i]
         /\ \A i \in paid : sim.recovered'[i] = [amount |-> Invoices[i].amount - minus, why |-> why]
<1>1. sim.recovered' = Credit(paid, minus, why)
  OBVIOUS
<1>2. Recovered' = Recovered \cup paid
  BY <1>1 DEF Recovered, Credit
<1>3. \A i \in paid : i \in DOMAIN Invoices /\ books[i] = Invoices[i]
  BY InvoiceIs DEF Money
<1>4. /\ \A i \in Recovered : sim.recovered'[i] = sim.recovered[i]
      /\ \A i \in paid : sim.recovered'[i] = [amount |-> Invoices[i].amount - minus, why |-> why]
  BY <1>1, <1>3 DEF Credit
<1>5. DOMAIN books' = DOMAIN Invoices
  BY DEF Money, MarkPaid
<1>6. \A i \in DOMAIN Invoices :
        books'[i] = IF i \in paid THEN [books[i] EXCEPT !.status = "paid"] ELSE books[i]
  BY DEF Money, MarkPaid
<1>7. \A i \in DOMAIN Invoices :
        books'[i] = IF i \in Recovered' THEN [Invoices[i] EXCEPT !.status = "paid"]
                    ELSE Invoices[i]
  BY <1>2, <1>3, <1>6 DEF Money
<1>8. Recovered' \subseteq Targets
  BY <1>2 DEF Money
<1>9. sim' = [delivered |-> sim.delivered', recovered |-> sim.recovered']
  BY <1>1
<1>10. Money'
  BY <1>5, <1>7, <1>8, <1>9 DEF Money
<1> QED
  BY <1>2, <1>4, <1>10

LEMMA DecisionIs ==
  ASSUME NEW m, NEW b, NEW req, NEW at
  PROVE  /\ Decided(m, b, req, at).type = "decision"
         /\ Decided(m, b, req, at).req = req
         /\ Decided(m, b, req, at).at = at
BY DEF Decided, DecisionRow

\* What the agent asks about an invoice and what it is told.
Asks(i, req, row) ==
  /\ \E p \in Planned(i, agent.tried[i]) : p[1] # None /\ req = Proposal(i, p[1], p[2])
  /\ req.invoice = i
  /\ row.type = "decision" /\ row.req = req /\ row.at = Now
  /\ log' = log \o <<RequestRow(req), row>>
  /\ agent' = Learn(agent, row)
  /\ asked' = Append(asked, row)

LEMMA AskIs ==
  ASSUME Ask
  PROVE  \E req, row : Asks(Head(todo), req, row)
<1>1. PICK req \in Proposals(Head(todo)) :
        LET row == Decided(mem, books, req, Now)
        IN  /\ log' = log \o <<RequestRow(req), row>>
            /\ mem' = Count(mem, row)
            /\ agent' = Learn(agent, row)
            /\ asked' = Append(asked, row)
  BY DEF Ask
<1>2. \E p \in Planned(Head(todo), agent.tried[Head(todo)]) :
        p[1] # None /\ req = Proposal(Head(todo), p[1], p[2])
  BY DEF Proposals
<1>3. req.invoice = Head(todo)
  BY <1>2 DEF Proposal
<1> DEFINE row == Decided(mem, books, req, Now)
<1>4. row.type = "decision" /\ row.req = req /\ row.at = Now
  BY DecisionIs
<1>5. /\ log' = log \o <<RequestRow(req), row>>
      /\ agent' = Learn(agent, row)
      /\ asked' = Append(asked, row)
  BY <1>1
<1> HIDE DEF row
<1>6. Asks(Head(todo), req, row)
  BY <1>2, <1>3, <1>4, <1>5 DEF Asks
<1> QED
  BY <1>6

LEMMA LearnIs ==
  ASSUME agent \in [tried : [Targets -> Nat], closed : SUBSET Targets],
         NEW row, row.req.invoice \in Targets, agent' = Learn(agent, row)
  PROVE  /\ agent' \in [tried : [Targets -> Nat], closed : SUBSET Targets]
         /\ agent.tried' = [agent.tried EXCEPT ![row.req.invoice] = agent.tried[row.req.invoice] + 1]
         /\ agent.closed' =
              IF Allowed(row) /\ row.req.action \in {"escalate_to_human", "write_off"}
                THEN agent.closed \cup {row.req.invoice} ELSE agent.closed
BY DEF Learn

\* The head of a list in which nothing occurs twice is not in its tail.
LEMMA HeadGone ==
  ASSUME NEW S, NEW s \in Seq(S), s # <<>>
  PROVE  /\ Head(s) \in S /\ Tail(s) \in Seq(S) /\ Len(Tail(s)) <= Len(s)
         /\ Distinct(s) => /\ Distinct(Tail(s))
                           /\ \A k \in 1 .. Len(Tail(s)) : Tail(s)[k] # Head(s)
         /\ \A k \in 1 .. Len(Tail(s)) : \E j \in 1 .. Len(s) : Tail(s)[k] = s[j]
         /\ \E j \in 1 .. Len(s) : Head(s) = s[j]
<1>0. IsSeq(s)
  BY DEF IsSeq
<1>1. /\ Len(s) \in Nat /\ Len(s) >= 1
      /\ Head(s) = s[1]
      /\ Len(Tail(s)) = Len(s) - 1
      /\ \A k \in 1 .. Len(Tail(s)) : Tail(s)[k] = s[k + 1] /\ k + 1 \in 1 .. Len(s)
  BY <1>0, RestOf
<1>2. Head(s) \in S /\ Tail(s) \in Seq(S)
  BY HeadTailProperties
<1>3. 1 \in 1 .. Len(s) /\ Len(Tail(s)) <= Len(s)
      /\ \A k \in 1 .. Len(Tail(s)) : k + 1 # 1 /\ \A j \in 1 .. Len(Tail(s)) : j + 1 = k + 1 => j = k
  BY <1>1
<1>4. ASSUME Distinct(s)
      PROVE  Distinct(Tail(s)) /\ \A k \in 1 .. Len(Tail(s)) : Tail(s)[k] # Head(s)
  BY <1>1, <1>3, <1>4 DEF Distinct
<1> QED
  BY <1>1, <1>2, <1>3, <1>4

LEMMA StayAnswers ==
  ASSUME Answers, log' = log, asked' = asked, Recovered' = Recovered, holdout' = holdout,
         \A k \in 1 .. Len(todo') : \E j \in 1 .. Len(todo) : todo'[k] = todo[j]
  PROVE  Answers'
BY DEF Answers, IsAnswer, Chased, Targets

\* The answers still to be resolved when the first one has been.
LEMMA NextAnswer ==
  ASSUME Answers, asked # <<>>, asked' = Tail(asked), todo' = todo, holdout' = holdout,
         IsSeq(log'), \A k \in 1 .. Len(log) : k \in 1 .. Len(log') /\ log'[k] = log[k],
         Recovered' \subseteq Recovered \cup {Head(asked).req.invoice}
  PROVE  Answers'
<1>1. /\ IsSeq(Tail(asked))
      /\ Head(asked) = asked[1]
      /\ Len(asked) \in Nat /\ Len(asked) >= 1
      /\ \A k \in 1 .. Len(Tail(asked)) :
           Tail(asked)[k] = asked[k + 1] /\ k + 1 \in 1 .. Len(asked)
  BY RestOf DEF Answers
<1>2. 1 \in 1 .. Len(asked) /\ \A k \in 1 .. Len(Tail(asked)) :
        k + 1 # 1 /\ \A j \in 1 .. Len(Tail(asked)) : j + 1 = k + 1 => j = k
  BY <1>1, SeqShape
<1>3. \A k \in 1 .. Len(Tail(asked)) :
        Tail(asked)[k].req.invoice # Head(asked).req.invoice
  BY <1>1, <1>2 DEF Answers
<1>4. ASSUME NEW k \in 1 .. Len(Tail(asked))
      PROVE  /\ Tail(asked)[k].type = "decision"
             /\ Tail(asked)[k].req.invoice \in Chased
             /\ Tail(asked)[k].req.invoice \notin Recovered'
             /\ \A j \in 1 .. Len(todo) : todo[j] # Tail(asked)[k].req.invoice
             /\ \E j \in 1 .. Len(log') : log'[j] = Tail(asked)[k]
  <2>1. IsAnswer(asked[k + 1]) /\ Tail(asked)[k] = asked[k + 1]
    BY <1>1 DEF Answers
  <2> QED
    BY <1>3, <2>1 DEF IsAnswer
<1>5. \A j, k \in 1 .. Len(Tail(asked)) :
        Tail(asked)[j].req.invoice = Tail(asked)[k].req.invoice => j = k
  BY <1>1, <1>2 DEF Answers
<1>6. Chased' = Chased
  BY DEF Chased, Targets
<1> QED
  BY <1>1, <1>4, <1>5, <1>6 DEF Answers, IsAnswer


\* One answer more, and the two rows that go with it.
LEMMA OneMoreAnswer ==
  ASSUME Answers, Waiting, todo # <<>>, todo' = Tail(todo), holdout' = holdout,
         Recovered' = Recovered, NEW req, NEW row, Asks(Head(todo), req, row)
  PROVE  /\ Answers'
         /\ Len(log) \in Nat /\ Len(log') = Len(log) + 2
         /\ \A k \in 1 .. Len(log) : log'[k] = log[k]
         /\ log'[Len(log) + 1] = RequestRow(req)
         /\ log'[Len(log) + 2] = row
         /\ Head(todo) \in Chased /\ Head(todo) \notin Recovered
         /\ agent.tried[Head(todo)] < day
<1>1. /\ req.invoice = Head(todo) /\ row.type = "decision" /\ row.req = req
      /\ log' = log \o <<RequestRow(req), row>>
      /\ asked' = Append(asked, row)
  BY DEF Asks
<1>2. /\ IsSeq(log') /\ Len(log') = Len(log) + 2
      /\ \A k \in 1 .. Len(log) : log'[k] = log[k]
      /\ log'[Len(log) + 1] = RequestRow(req)
      /\ log'[Len(log) + 2] = row
  BY <1>1, TwoMoreRows DEF Answers
<1>3. /\ IsSeq(asked') /\ Len(asked') = Len(asked) + 1
      /\ \A k \in 1 .. Len(asked) : asked'[k] = asked[k]
      /\ asked'[Len(asked) + 1] = row
  BY <1>1, OneMoreRow DEF Answers
<1>4. Len(log) \in Nat /\ Len(asked) \in Nat
  BY SeqShape DEF Answers
<1>5. /\ Head(todo) \in Chased
      /\ \A k \in 1 .. Len(todo') : todo'[k] # Head(todo)
      /\ \A k \in 1 .. Len(todo') : \E j \in 1 .. Len(todo) : todo'[k] = todo[j]
      /\ \E j \in 1 .. Len(todo) : Head(todo) = todo[j]
  BY HeadGone DEF Waiting
<1>6. Head(todo) \notin Recovered /\ agent.tried[Head(todo)] < day
  BY <1>5 DEF Waiting
<1>7. Chased' = Chased
  BY DEF Chased, Targets
<1>8. /\ \A k \in 1 .. Len(log) : k \in 1 .. Len(log')
      /\ Len(log) + 2 \in 1 .. Len(log')
      /\ \A k \in 1 .. Len(asked') : k \in 1 .. Len(asked) \/ k = Len(asked) + 1
      /\ \A k \in 1 .. Len(asked) : k # Len(asked) + 1
  BY <1>2, <1>3, <1>4
<1>9. \A k \in 1 .. Len(asked) : asked[k].req.invoice # Head(todo)
  BY <1>5 DEF Answers, IsAnswer
<1>10. ASSUME NEW k \in 1 .. Len(asked)
       PROVE  /\ asked[k].type = "decision"
              /\ asked[k].req.invoice \in Chased
              /\ asked[k].req.invoice \notin Recovered
              /\ \A j \in 1 .. Len(todo') : todo'[j] # asked[k].req.invoice
              /\ \E j \in 1 .. Len(log') : log'[j] = asked[k]
  <2>1. IsAnswer(asked[k])
    BY DEF Answers
  <2> QED
    BY <1>2, <1>5, <1>8, <2>1 DEF IsAnswer
<1>11. /\ row.req.invoice \in Chased
       /\ row.req.invoice \notin Recovered
       /\ \A j \in 1 .. Len(todo') : todo'[j] # row.req.invoice
       /\ \E j \in 1 .. Len(log') : log'[j] = row
  BY <1>1, <1>2, <1>5, <1>6, <1>8
<1>12. \A k \in 1 .. Len(asked') : IsAnswer(asked[k])'
  BY <1>1, <1>3, <1>7, <1>8, <1>10, <1>11, SMTT(20) DEF IsAnswer
<1>13. \A j, k \in 1 .. Len(asked') : asked'[j].req.invoice = asked'[k].req.invoice => j = k
  BY <1>1, <1>3, <1>8, <1>9 DEF Answers
<1>14. Answers'
  BY <1>2, <1>3, <1>12, <1>13 DEF Answers
<1> QED
  BY <1>2, <1>4, <1>5, <1>6, <1>14

\* What a morning brings.
LEMMA MorningIs ==
  ASSUME Timetable, BeginDay
  PROVE  LET paid == Spontaneous(day + 1)
         IN  /\ paid \in SUBSET Targets /\ paid \cap Recovered = {}
             /\ Money'
             /\ Recovered' = Recovered \cup paid
             /\ \A i \in Recovered : sim.recovered'[i] = sim.recovered[i]
             /\ \A i \in paid : sim.recovered'[i] = [amount |-> Invoices[i].amount - 0,
                                                     why |-> "spontaneous"]
             /\ sim.delivered' = sim.delivered
             /\ todo' = Without(order, Recovered \cup paid)
<1> DEFINE paid == Spontaneous(day + 1)
<1>1. paid \in SUBSET Targets /\ paid \cap Recovered = {}
  BY DEF Spontaneous
<1>2. /\ books' = MarkPaid(paid)
      /\ sim' = [sim EXCEPT !.recovered = Credit(paid, 0, "spontaneous")]
      /\ todo' = Without(order, Recovered \cup paid)
  BY DEF BeginDay, Settle
<1> HIDE DEF paid
<1>3. /\ sim = [delivered |-> sim.delivered, recovered |-> sim.recovered]
      /\ sim.delivered \in [Targets -> Nat]
  BY DEF Timetable, Money
<1>4. /\ sim.delivered' = sim.delivered
      /\ sim' = [delivered |-> sim.delivered', recovered |-> Credit(paid, 0, "spontaneous")]
  BY <1>2, <1>3
<1>5. Money
  BY DEF Timetable
<1>6. /\ Money'
      /\ Recovered' = Recovered \cup paid
      /\ \A i \in Recovered : sim.recovered'[i] = sim.recovered[i]
      /\ \A i \in paid : sim.recovered'[i] = [amount |-> Invoices[i].amount - 0,
                                              why |-> "spontaneous"]
  BY <1>1, <1>2, <1>3, <1>4, <1>5, PaidIn
<1> QED
  BY <1>1, <1>2, <1>4, <1>6 DEF paid

\* What one answer comes to.
LEMMA OutcomeIs ==
  ASSUME Timetable, Resolve
  PROVE  LET req  == Head(asked).req
             paid == IF Lands(req) THEN {req.invoice} ELSE {}
         IN  /\ asked # <<>> /\ IsAnswer(Head(asked)) /\ Allowed(Head(asked))
             /\ Money'
             /\ Recovered' = Recovered \cup paid
             /\ \A i \in Recovered : sim.recovered'[i] = sim.recovered[i]
             /\ \A i \in paid : sim.recovered'[i] = [amount |-> Invoices[i].amount - Minus(req),
                                                     why |-> "chased"]
             /\ \A i \in Targets : sim.delivered'[i] =
                  IF i = req.invoice /\ Contacts(req) THEN sim.delivered[i] + 1
                  ELSE sim.delivered[i]
             /\ IsSeq(log') /\ Len(log) \in Nat /\ Len(log') = Len(log) + 1
             /\ \A k \in 1 .. Len(log) : k \in 1 .. Len(log') /\ log'[k] = log[k]
             /\ log'[Len(log) + 1].type = "outcome"
             /\ log'[Len(log) + 1].id = req.id
             /\ paid # {} => log'[Len(log) + 1].amount = Invoices[req.invoice].amount - Minus(req)
<1> DEFINE req      == Head(asked).req
           paid     == IF Lands(req) THEN {req.invoice} ELSE {}
           credited == Credit(paid, Minus(req), "chased")
           received == IF Lands(req) THEN credited[req.invoice].amount ELSE 0
<1>0. Money /\ Answers /\ asked # <<>> /\ Happened(Head(asked)) /\ asked' = Tail(asked)
  BY DEF Timetable, Resolve
<1>1. /\ books' = MarkPaid(paid)
      /\ sim' = [sim EXCEPT !.recovered = credited,
                            !.delivered[req.invoice] = IF Contacts(req) THEN @ + 1 ELSE @]
      /\ log' = Append(log, Reported(req, received))
  BY DEF Resolve
<1>2. IsAnswer(Head(asked)) /\ Allowed(Head(asked))
  <2>1. Head(asked) = asked[1] /\ Len(asked) \in Nat /\ Len(asked) >= 1
    BY <1>0, RestOf DEF Answers
  <2>2. 1 \in 1 .. Len(asked)
    BY <2>1
  <2> QED
    BY <1>0, <2>1, <2>2 DEF Answers, Happened
<1>3. req.invoice \in Targets /\ req.invoice \notin Recovered
  BY <1>2 DEF IsAnswer, Chased
<1>4. paid \in SUBSET Targets /\ paid \cap Recovered = {}
  BY <1>3
<1>5. /\ Len(log) \in Nat /\ IsSeq(log') /\ Len(log') = Len(log) + 1
      /\ \A k \in 1 .. Len(log) : log'[k] = log[k]
      /\ log'[Len(log) + 1] = Reported(req, received)
  <2>1. PICK row : row = Reported(req, received)
    OBVIOUS
  <2>2. IsSeq(log) /\ log' = Append(log, row)
    BY <1>0, <1>1, <2>1, Zenon DEF Answers
  <2>3. /\ IsSeq(Append(log, row)) /\ Len(Append(log, row)) = Len(log) + 1
        /\ \A k \in 1 .. Len(log) : Append(log, row)[k] = log[k]
        /\ Append(log, row)[Len(log) + 1] = row
    BY <2>2, OneMoreRow, SMTT(20)
  <2>4. Len(log) \in Nat
    BY <2>2, SeqShape
  <2> QED
    BY <2>1, <2>2, <2>3, <2>4, Zenon
<1>6. \A k \in 1 .. Len(log) : k \in 1 .. Len(log')
  BY <1>5
<1>7. log'[Len(log) + 1].type = "outcome" /\ log'[Len(log) + 1].id = req.id
      /\ log'[Len(log) + 1].amount = received
  BY <1>5 DEF Reported
<1>8. /\ sim = [delivered |-> sim.delivered, recovered |-> sim.recovered]
      /\ sim.delivered \in [Targets -> Nat]
  BY <1>0 DEF Money
<1>9. paid # {} => Lands(req) /\ req.invoice \in paid
  OBVIOUS
<1> HIDE DEF paid, req, credited
<1>10. /\ sim.delivered' = [sim.delivered EXCEPT ![req.invoice] =
             IF Contacts(req) THEN sim.delivered[req.invoice] + 1 ELSE sim.delivered[req.invoice]]
       /\ sim' = [delivered |-> sim.delivered', recovered |-> credited]
  BY <1>1, <1>8
<1>11. sim.delivered' \in [Targets -> Nat]
  BY <1>3, <1>8, <1>10
<1>12. \A i \in Targets : sim.delivered'[i] =
         IF i = req.invoice /\ Contacts(req) THEN sim.delivered[i] + 1 ELSE sim.delivered[i]
  BY <1>3, <1>8, <1>10
<1>13. /\ Money'
       /\ Recovered' = Recovered \cup paid
       /\ \A i \in Recovered : sim.recovered'[i] = sim.recovered[i]
       /\ \A i \in paid : sim.recovered'[i] = [amount |-> Invoices[i].amount - Minus(req),
                                               why |-> "chased"]
  <2>1. sim' = [delivered |-> sim.delivered', recovered |-> Credit(paid, Minus(req), "chased")]
    BY <1>10 DEF credited
  <2>2. books' = MarkPaid(paid)
    BY <1>1
  <2> QED
    BY <1>0, <1>4, <1>11, <2>1, <2>2, PaidIn
<1>14. ASSUME paid # {}
       PROVE  log'[Len(log) + 1].amount = Invoices[req.invoice].amount - Minus(req)
  <2>1. sim.recovered' = credited
    BY <1>10
  <2>2. received = credited[req.invoice].amount /\ req.invoice \in paid
    BY <1>9, <1>14
  <2> HIDE DEF received
  <2>3. credited[req.invoice] = [amount |-> Invoices[req.invoice].amount - Minus(req), why |-> "chased"]
    BY <1>13, <2>1, <2>2
  <2>4. received = Invoices[req.invoice].amount - Minus(req)
    BY <2>2, <2>3
  <2> QED
    BY <1>7, <2>4
<1> QED
  BY <1>0, <1>2, <1>5, <1>6, <1>7, <1>12, <1>13, <1>14 DEF paid, req

LEMMA ScheduleInit == Init => Schedule
<1> SUFFICES ASSUME Init
             PROVE  Schedule
  OBVIOUS
<1>1. Dataset
  <2>1. holdout \subseteq Targets
    BY DEF Init
  <2> QED
    BY <2>1 DEF Init, Dataset
<1>2. Calendar
  BY NoSeq, RunsAssumption DEF Init, Calendar
<1>3. AtStart
  BY DEF Init, AtStart
<1> QED
  BY <1>1, <1>2, <1>3, StartHolds DEF Schedule, Timetable

LEMMA TimetableStep == Timetable /\ [Next]_vars => Timetable'
<1> SUFFICES ASSUME Timetable, [Next]_vars
             PROVE  Timetable'
  OBVIOUS
<1>0. Dataset /\ Calendar /\ Money /\ Tries /\ Waiting /\ Answers
  BY DEF Timetable
<1>1. CASE BeginDay
  <2> DEFINE paid == Spontaneous(day + 1)
  <2>0. /\ day < Days /\ day' = day + 1 /\ todo = <<>> /\ asked = <<>>
        /\ truth' = truth /\ holdout' = holdout /\ order' = order /\ asked' = asked
        /\ log' = log /\ agent' = agent /\ scorecards' = scorecards
    BY <1>1 DEF BeginDay
  <2>1. /\ Money'
        /\ Recovered' = Recovered \cup paid
        /\ todo' = Without(order, Recovered \cup paid)
    BY <1>1, MorningIs
  <2> HIDE DEF paid
  <2>2. /\ day \in Nat /\ Days \in Nat /\ Elapsed \in 0 .. Days /\ Elapsed = day
        /\ day' \in 1 .. Days /\ day' \in Nat
    BY <1>0, <2>0, ElapsedIs
  <2>3. Dataset'
    BY <1>0, <2>0 DEF Dataset, WorkOrders, Worked, Rearranged, Targets
  <2>4. Calendar'
    BY <1>0, <2>0, <2>2 DEF Calendar
  <2>5. Tries'
    <3>1. Elapsed' = day + 1
      BY <2>0, <2>2 DEF Elapsed
    <3>2. \A i \in Targets : agent.tried[i] \in Nat /\ agent.tried[i] <= day
      BY <1>0, <2>2 DEF Tries
    <3>3. \A i \in Targets : agent.tried[i] <= day + 1
      BY <2>2, <3>2
    <3> QED
      BY <1>0, <2>0, <3>1, <3>3 DEF Tries, Targets
  <2>6. Waiting'
    <3>1. order \in Seq(Chased) /\ Distinct(order) /\ Len(order) \in Nat
      BY <1>0, OrderIs
    <3>2. Kept(todo', order, Recovered', Chased, Len(order))
      BY <2>1, <3>1, WithoutKeeps
    <3>3. /\ todo' \in Seq(Chased) /\ Distinct(todo') /\ Len(todo') <= Len(order)
          /\ \A k \in 1 .. Len(todo') : todo'[k] \notin Recovered'
      BY <3>1, <3>2 DEF Kept
    <3>4. \A k \in 1 .. Len(todo') : todo'[k] \in Targets
      BY <3>3, ElementOfSeq DEF Chased
    <3>5. \A i \in Targets : agent.tried[i] \in Nat /\ agent.tried[i] <= day
      BY <1>0, <2>2 DEF Tries
    <3>6. \A i \in Targets : agent.tried[i] < day'
      BY <2>0, <2>2, <3>5
    <3>7. Chased' = Chased
      BY <2>0 DEF Chased, Targets
    <3> QED
      BY <2>0, <3>3, <3>4, <3>6, <3>7 DEF Waiting, Distinct
  <2>7. Answers'
    BY <1>0, <2>0, NoSeq DEF Answers
  <2> QED
    BY <2>1, <2>3, <2>4, <2>5, <2>6, <2>7 DEF Timetable
<1>2. CASE LeaveAlone
  <2>0. /\ todo # <<>> /\ todo' = Tail(todo)
        /\ UNCHANGED <<truth, holdout, order, day, asked, log, books, agent, sim, scorecards>>
    BY <1>2 DEF LeaveAlone
  <2>1. /\ Tail(todo) \in Seq(Chased) /\ Len(Tail(todo)) <= Len(todo)
        /\ Distinct(Tail(todo))
        /\ \A k \in 1 .. Len(Tail(todo)) : \E j \in 1 .. Len(todo) : Tail(todo)[k] = todo[j]
    BY <1>0, <2>0, HeadGone DEF Waiting
  <2>2. Dataset' /\ Calendar' /\ Money' /\ Tries'
    <3>1. Dataset'
      BY <1>0, <2>0 DEF Dataset, WorkOrders, Worked, Rearranged, Targets
    <3>2. Calendar' /\ Tries'
      BY <1>0, <2>0 DEF Calendar, Tries, Elapsed, Targets
    <3>3. Money'
      BY <1>0, <2>0 DEF Money, Recovered, Targets
    <3> QED
      BY <3>1, <3>2, <3>3
  <2>3. Waiting'
    <3>1. Len(todo) \in Nat /\ Len(order) \in Nat /\ Len(Tail(todo)) \in Nat
      BY <1>0, <2>1, OrderIs, LenProperties DEF Waiting
    <3>2. Len(Tail(todo)) <= Len(order)
      BY <1>0, <2>1, <3>1 DEF Waiting
    <3> QED
      BY <1>0, <2>0, <2>1, <3>2 DEF Waiting, Distinct, Chased, Recovered, Targets
  <2>4. Answers'
    BY <1>0, <2>0, <2>1, StayAnswers DEF Recovered
  <2> QED
    BY <2>2, <2>3, <2>4 DEF Timetable
<1>3. CASE Ask
  <2>0. /\ todo # <<>> /\ todo' = Tail(todo)
        /\ UNCHANGED <<truth, holdout, order, day, books, sim, scorecards>>
    BY <1>3 DEF Ask
  <2> DEFINE i == Head(todo)
  <2>1. PICK req, row : Asks(i, req, row)
    BY <1>3, AskIs
  <2>2. /\ Answers'
        /\ Len(log) \in Nat /\ Len(log') = Len(log) + 2
        /\ \A k \in 1 .. Len(log) : log'[k] = log[k]
        /\ log'[Len(log) + 1] = RequestRow(req)
        /\ log'[Len(log) + 2] = row
        /\ i \in Chased /\ i \notin Recovered
        /\ agent.tried[i] < day
    BY <1>0, <2>0, <2>1, OneMoreAnswer DEF Recovered
  <2>3. /\ Tail(todo) \in Seq(Chased) /\ Len(Tail(todo)) <= Len(todo)
        /\ Distinct(Tail(todo))
        /\ \A k \in 1 .. Len(Tail(todo)) : Tail(todo)[k] # i
        /\ \A k \in 1 .. Len(Tail(todo)) : \E j \in 1 .. Len(todo) : Tail(todo)[k] = todo[j]
    BY <1>0, <2>0, HeadGone DEF Waiting
  <2>4. req.invoice = i /\ row.req = req /\ row.type = "decision" /\ agent' = Learn(agent, row)
    BY <2>1 DEF Asks
  <2>5. i \in Targets
    BY <2>2 DEF Chased
  <2> HIDE DEF i
  <2>6. /\ agent' \in [tried : [Targets -> Nat], closed : SUBSET Targets]
        /\ agent.tried' = [agent.tried EXCEPT ![i] = agent.tried[i] + 1]
    BY <1>0, <2>4, <2>5, LearnIs DEF Tries
  <2>7. Dataset' /\ Calendar' /\ Money'
    <3>1. Dataset'
      BY <1>0, <2>0 DEF Dataset, WorkOrders, Worked, Rearranged, Targets
    <3>2. Calendar'
      BY <1>0, <2>0 DEF Calendar
    <3>3. Money'
      BY <1>0, <2>0 DEF Money, Recovered, Targets
    <3> QED
      BY <3>1, <3>2, <3>3
  <2>8. \A j \in Targets : j # i => agent.tried'[j] = agent.tried[j]
    BY <1>0, <2>6 DEF Tries
  <2>9. Tries'
    <3>1. day \in Nat /\ Elapsed = day
      BY <1>0, <2>0, ElapsedIs DEF Calendar
    <3>2. agent.tried[i] \in Nat /\ agent.tried'[i] = agent.tried[i] + 1
      BY <1>0, <2>5, <2>6 DEF Tries
    <3>3. agent.tried'[i] <= day
      BY <2>2, <3>1, <3>2
    <3>4. \A j \in Targets : agent.tried'[j] <= day
      BY <1>0, <2>8, <3>1, <3>3 DEF Tries
    <3>5. Elapsed' = Elapsed
      BY <2>0 DEF Elapsed
    <3> QED
      BY <2>6, <3>1, <3>4, <3>5 DEF Tries, Targets
  <2>10. Waiting'
    <3>1. Len(todo) \in Nat /\ Len(order) \in Nat /\ Len(Tail(todo)) \in Nat
      BY <1>0, <2>3, OrderIs, LenProperties DEF Waiting
    <3>2. Len(Tail(todo)) <= Len(order)
      BY <1>0, <2>3, <3>1 DEF Waiting
    <3>3. \A k \in 1 .. Len(Tail(todo)) : Tail(todo)[k] \in Targets
      BY <2>3, ElementOfSeq DEF Chased
    <3>4. \A k \in 1 .. Len(Tail(todo)) :
            Tail(todo)[k] \notin Recovered /\ agent.tried'[Tail(todo)[k]] < day
      BY <1>0, <2>3, <2>8, <3>3 DEF Waiting
    <3>5. Chased' = Chased /\ Recovered' = Recovered
      BY <2>0 DEF Chased, Recovered, Targets
    <3> QED
      BY <2>0, <2>3, <3>2, <3>4, <3>5 DEF Waiting, Distinct
  <2> QED
    BY <2>2, <2>7, <2>9, <2>10 DEF Timetable
<1>4. CASE Overlook
  <2>0. /\ todo = <<>> /\ asked # <<>> /\ asked' = Tail(asked)
        /\ UNCHANGED <<truth, holdout, order, day, todo, log, books, agent, sim, scorecards>>
    BY <1>4 DEF Overlook
  <2>1. Answers'
    <3>1. IsSeq(log')
      BY <1>0, <2>0 DEF Answers
    <3>2. Recovered' \subseteq Recovered \cup {Head(asked).req.invoice}
      BY <2>0 DEF Recovered
    <3> QED
      BY <1>0, <2>0, <3>1, <3>2, NextAnswer
  <2>2. Dataset'
    BY <1>0, <2>0 DEF Dataset, WorkOrders, Worked, Rearranged, Targets
  <2>3. Calendar' /\ Tries'
    BY <1>0, <2>0 DEF Calendar, Tries, Elapsed, Targets
  <2>4. Money' /\ Waiting'
    BY <1>0, <2>0 DEF Money, Waiting, Chased, Recovered, Targets
  <2> QED
    BY <2>1, <2>2, <2>3, <2>4 DEF Timetable
<1>5. CASE Resolve
  <2>0. /\ todo = <<>> /\ asked # <<>> /\ asked' = Tail(asked)
        /\ UNCHANGED <<truth, holdout, order, day, todo, agent, scorecards>>
    BY <1>5 DEF Resolve
  <2> DEFINE i == Head(asked).req.invoice
  <2>1. /\ Money'
        /\ Recovered' \subseteq Recovered \cup {i}
        /\ IsSeq(log') /\ Len(log) \in Nat /\ Len(log') = Len(log) + 1
        /\ \A k \in 1 .. Len(log) : k \in 1 .. Len(log') /\ log'[k] = log[k]
        /\ log'[Len(log) + 1].type = "outcome"
    BY <1>5, OutcomeIs
  <2>2. Answers'
    BY <1>0, <2>0, <2>1, NextAnswer
  <2>3. Dataset'
    BY <1>0, <2>0 DEF Dataset, WorkOrders, Worked, Rearranged, Targets
  <2>4. Calendar' /\ Tries'
    BY <1>0, <2>0 DEF Calendar, Tries, Elapsed, Targets
  <2>5. Waiting'
    BY <1>0, <2>0, NoSeq DEF Waiting, Chased, Targets
  <2> QED
    BY <2>1, <2>2, <2>3, <2>4, <2>5 DEF Timetable
<1>6. CASE Finish
  <2>0. /\ day = Days /\ day' = Days + 1 /\ todo = <<>> /\ asked = <<>>
        /\ scorecards' = Append(scorecards, Scorecard)
        /\ UNCHANGED <<truth, holdout, order, todo, asked, log, books, agent, sim>>
    BY <1>6 DEF Finish
  <2>1. Dataset'
    BY <1>0, <2>0 DEF Dataset, WorkOrders, Worked, Rearranged, Targets
  <2>2. Calendar'
    <3>1. IsSeq(scorecards') /\ Len(scorecards') = Len(scorecards) + 1
      BY <1>0, <2>0, OneMoreRow DEF Calendar
    <3>2. Len(scorecards) \in Nat /\ Len(scorecards) < MaxRuns
      BY <1>0, <2>0, SeqShape, RunsAssumption DEF Calendar
    <3> QED
      BY <2>0, <3>1, <3>2, RunsAssumption DEF Calendar
  <2>3. Tries'
    <3>1. Elapsed' = Elapsed
      BY <2>0, RunsAssumption DEF Elapsed
    <3> QED
      BY <1>0, <2>0, <3>1 DEF Tries, Targets
  <2>4. Money'
    BY <1>0, <2>0 DEF Money, Recovered, Targets
  <2>5. Waiting' /\ Answers'
    BY <1>0, <2>0, NoSeq DEF Waiting, Answers, Chased, Targets
  <2> QED
    BY <2>1, <2>2, <2>3, <2>4, <2>5 DEF Timetable
<1>7. CASE Rerun
  <2>0. /\ day = Days + 1 /\ Len(scorecards) < MaxRuns
        /\ UNCHANGED <<truth, holdout, todo, asked, scorecards>>
        /\ order' \in WorkOrders
        /\ day' = 0
    BY <1>7 DEF Rerun
  <2>1. todo = <<>> /\ asked = <<>>
    BY <1>0, <2>0, RunsAssumption DEF Calendar
  <2>2. Dataset'
    BY <1>0, <2>0 DEF Dataset, WorkOrders, Worked, Rearranged, Targets
  <2>3. Calendar'
    BY <1>0, <2>0, <2>1, RunsAssumption DEF Calendar
  <2>4. AtStart'
    BY <1>7, <2>1 DEF Rerun, AtStart, NewAgent, NewSim, Targets
  <2>5. (Money /\ Tries /\ Waiting /\ Answers)'
    BY <2>2, <2>4, StartHolds, PTL
  <2> QED
    BY <2>2, <2>3, <2>5 DEF Timetable
<1>8. CASE UNCHANGED vars
  <2>0. UNCHANGED <<truth, holdout, order, day, todo, asked, log, books, agent, sim, scorecards>>
    BY <1>8 DEF vars
  <2>1. Dataset'
    BY <1>0, <2>0 DEF Dataset, WorkOrders, Worked, Rearranged, Targets
  <2>2. Calendar' /\ Tries'
    BY <1>0, <2>0 DEF Calendar, Tries, Elapsed, Targets
  <2>3. Money' /\ Waiting'
    BY <1>0, <2>0 DEF Money, Waiting, Chased, Recovered, Targets
  <2>4. Answers'
    BY <1>0, <2>0, StayAnswers DEF Recovered
  <2> QED
    BY <2>1, <2>2, <2>3, <2>4 DEF Timetable
<1> QED
  BY <1>1, <1>2, <1>3, <1>4, <1>5, <1>6, <1>7, <1>8 DEF Next

LEMMA RowsStep == Schedule /\ [Next]_vars => RowsKnown'
<1> SUFFICES ASSUME Schedule, [Next]_vars
             PROVE  RowsKnown'
  OBVIOUS
<1>0. Timetable /\ Answers /\ Waiting /\ RowsKnown
  BY DEF Schedule, Timetable
<1>1. CASE Ask
  <2>0. todo # <<>> /\ todo' = Tail(todo) /\ holdout' = holdout /\ sim' = sim
    BY <1>1 DEF Ask
  <2>1. PICK req, row : Asks(Head(todo), req, row)
    BY <1>1, AskIs
  <2>2. /\ Len(log) \in Nat /\ Len(log') = Len(log) + 2
        /\ \A k \in 1 .. Len(log) : log'[k] = log[k]
        /\ log'[Len(log) + 1] = RequestRow(req)
        /\ log'[Len(log) + 2] = row
        /\ Head(todo) \in Chased
    BY <1>0, <2>0, <2>1, OneMoreAnswer DEF Recovered
  <2>3. req.invoice = Head(todo) /\ row.req = req /\ row.type = "decision"
    BY <2>1 DEF Asks
  <2>4. \A k \in 1 .. Len(log') : k \in 1 .. Len(log) \/ k = Len(log) + 1 \/ k = Len(log) + 2
    BY <2>2
  <2>5. RequestRow(req).type = "request" /\ RequestRow(req).req = req
    BY DEF RequestRow
  <2> QED
    BY <1>0, <2>0, <2>2, <2>3, <2>4, <2>5 DEF RowsKnown, Chased, Targets
<1>2. CASE Resolve
  <2>1. /\ holdout' = holdout
        /\ Len(log) \in Nat /\ Len(log') = Len(log) + 1
        /\ \A k \in 1 .. Len(log) : log'[k] = log[k]
        /\ log'[Len(log) + 1].type = "outcome"
    BY <1>0, <1>2, OutcomeIs DEF Resolve
  <2>2. \A k \in 1 .. Len(log') : k \in 1 .. Len(log) \/ k = Len(log) + 1
    BY <2>1
  <2> QED
    BY <1>0, <2>1, <2>2 DEF RowsKnown, Chased, Targets
<1>3. CASE Rerun
  <2>1. Len(log') = 0
    BY <1>3, NoSeq DEF Rerun
  <2> QED
    BY <2>1 DEF RowsKnown
<1>4. CASE BeginDay \/ LeaveAlone \/ Overlook \/ Finish \/ UNCHANGED vars
  <2>1. log' = log /\ holdout' = holdout
    BY <1>4 DEF BeginDay, LeaveAlone, Overlook, Finish, vars
  <2> QED
    BY <1>0, <2>1 DEF RowsKnown, Chased, Targets
<1> QED
  BY <1>1, <1>2, <1>3, <1>4 DEF Next

LEMMA ScheduleStep == Schedule /\ [Next]_vars => Schedule'
BY TimetableStep, RowsStep DEF Schedule, Timetable

LEMMA TimetableTypes == Timetable => TypeOK
<1> SUFFICES ASSUME Timetable
             PROVE  TypeOK
  OBVIOUS
<1>0. Dataset /\ Calendar /\ Money /\ Tries /\ Waiting /\ Answers
  BY DEF Timetable
<1>1. todo \in Seq(Targets)
  <2>1. Chased \subseteq Targets
    BY DEF Chased
  <2> QED
    BY <1>0, <2>1, SeqMonotonic DEF Waiting
<1>2. agent \in [tried : [Targets -> 0 .. Days], closed : SUBSET Targets]
  <2>1. Elapsed \in 0 .. Days /\ Days \in Nat
    BY <1>0, ElapsedIs
  <2>2. \A i \in Targets : agent.tried[i] \in 0 .. Days
    BY <1>0, <2>1 DEF Tries
  <2> QED
    BY <1>0, <2>2 DEF Tries
<1>3. \A k \in DOMAIN asked : asked[k].type = "decision" /\ asked[k].req.invoice \in Targets
  BY <1>0, SeqShape DEF Answers, IsAnswer, Chased
<1> QED
  BY <1>0, <1>1, <1>2, <1>3 DEF TypeOK, Dataset, Calendar, Money, Waiting

\* Every variable keeps its shape, for any book, any number of days and runs:
\* the turns of the agent, for one, never outnumber the days of the run.
THEOREM CampaignTyped == Spec => []TypeOK
<1>1. Init => Schedule
  BY ScheduleInit
<1>2. Schedule /\ [Next]_vars => Schedule'
  BY ScheduleStep
<1>3. Schedule => TypeOK
  BY TimetableTypes DEF Schedule
<1> QED
  BY <1>1, <1>2, <1>3, PTL DEF Spec

-----------------------------------------------------------------------------
(* A handover ends the chase.                                                *)

\* The agent is done with an invoice whose handover was granted.
ClosedKnown ==
  \A k \in 1 .. Len(log) :
    Allowed(log[k]) /\ log[k].req.action = "escalate_to_human" =>
      log[k].req.invoice \in agent.closed

LastWord ==
  \A j, k \in 1 .. Len(log) :
    /\ Allowed(log[j]) /\ log[j].req.action = "escalate_to_human"
    /\ log[k].type = "request" /\ log[k].req.invoice = log[j].req.invoice
    => k < j

LEMMA LastWordInit == Init => ClosedKnown /\ LastWord
BY NoSeq DEF Init, ClosedKnown, LastWord

LEMMA LastWordStep ==
  Schedule /\ ClosedKnown /\ LastWord /\ [Next]_vars => ClosedKnown' /\ LastWord'
<1> SUFFICES ASSUME Schedule, ClosedKnown, LastWord, [Next]_vars
             PROVE  ClosedKnown' /\ LastWord'
  OBVIOUS
<1>1. CASE log' = log /\ agent' = agent
  BY <1>1 DEF ClosedKnown, LastWord
<1>2. CASE Ask
  <2> DEFINE i == Head(todo)
  <2>0. todo # <<>> /\ todo' = Tail(todo) /\ holdout' = holdout /\ sim' = sim /\ i \notin agent.closed
    BY <1>2 DEF Ask
  <2>1. PICK req, row : Asks(i, req, row)
    BY <1>2, AskIs
  <2>2. /\ Len(log) \in Nat /\ Len(log') = Len(log) + 2
        /\ \A k \in 1 .. Len(log) : log'[k] = log[k]
        /\ log'[Len(log) + 1] = RequestRow(req)
        /\ log'[Len(log) + 2] = row
        /\ i \in Targets
    BY <2>0, <2>1, OneMoreAnswer DEF Schedule, Timetable, Recovered, Chased
  <2>3. req.invoice = i /\ row.req = req /\ row.type = "decision" /\ agent' = Learn(agent, row)
    BY <2>1 DEF Asks
  <2> HIDE DEF i
  <2>4. agent.closed' = IF Allowed(row) /\ row.req.action \in {"escalate_to_human", "write_off"}
                          THEN agent.closed \cup {i} ELSE agent.closed
    BY <2>2, <2>3, LearnIs DEF Schedule, Timetable, Tries
  <2>5. RequestRow(req).type = "request" /\ RequestRow(req).req = req
    BY DEF RequestRow
  <2>6. \A k \in 1 .. Len(log') : k \in 1 .. Len(log) \/ k = Len(log) + 1 \/ k = Len(log) + 2
    BY <2>2
  <2>7. ClosedKnown'
    BY <2>2, <2>3, <2>4, <2>5, <2>6 DEF ClosedKnown, Allowed
  <2>8. ASSUME NEW j \in 1 .. Len(log'), NEW k \in 1 .. Len(log'),
               Allowed(log'[j]), log'[j].req.action = "escalate_to_human",
               log'[k].type = "request", log'[k].req.invoice = log'[j].req.invoice
        PROVE  k < j
    <3>1. k # Len(log) + 2 /\ j # Len(log) + 1
      BY <2>2, <2>3, <2>5, <2>8 DEF Allowed
    <3>2. CASE j = Len(log) + 2
      BY <2>2, <2>6, <3>1, <3>2
    <3>3. CASE j \in 1 .. Len(log)
      <4>1. log'[j].req.invoice \in agent.closed
        BY <2>2, <2>8, <3>3 DEF ClosedKnown
      <4>2. k # Len(log) + 1
        BY <2>0, <2>2, <2>3, <2>5, <2>8, <4>1 DEF i
      <4>3. k \in 1 .. Len(log)
        BY <2>6, <3>1, <4>2
      <4> QED
        BY <2>2, <2>8, <3>3, <4>3 DEF LastWord
    <3> QED
      BY <2>6, <3>1, <3>2, <3>3
  <2> QED
    BY <2>7, <2>8 DEF LastWord
<1>3. CASE Resolve
  <2>1. /\ Len(log) \in Nat /\ Len(log') = Len(log) + 1
        /\ \A k \in 1 .. Len(log) : log'[k] = log[k]
        /\ log'[Len(log) + 1].type = "outcome"
    BY <1>3, OutcomeIs DEF Schedule
  <2>2. agent' = agent
    BY <1>3 DEF Resolve
  <2>3. \A k \in 1 .. Len(log') : k \in 1 .. Len(log) \/ k = Len(log) + 1
    BY <2>1
  <2> QED
    BY <2>1, <2>2, <2>3 DEF ClosedKnown, LastWord, Allowed
<1>4. CASE Rerun
  BY <1>4, NoSeq DEF Rerun, ClosedKnown, LastWord
<1> QED
  BY <1>1, <1>2, <1>3, <1>4 DEF Next, BeginDay, LeaveAlone, Overlook, Finish, vars

\* Once the gateway has granted a handover to a person, the agent never asks
\* for anything on that invoice again in this run, whatever the planner says:
\* closed is kept beside the ledger and this is what it is for (recovery.py).
THEOREM CampaignHandedOverIsOver == Spec => []HandedOverIsOver
<1>1. Schedule /\ LastWord => HandedOverIsOver
  <2> SUFFICES ASSUME Schedule, LastWord
               PROVE  HandedOverIsOver
    OBVIOUS
  <2>1. DOMAIN log = 1 .. Len(log)
    BY SeqShape DEF Schedule, Timetable, Answers
  <2> QED
    BY <2>1 DEF LastWord, HandedOverIsOver, Permitted, Requests, RequestRows
<1> QED
  BY <1>1, ScheduleInit, ScheduleStep, LastWordInit, LastWordStep, PTL DEF Spec

-----------------------------------------------------------------------------
(* The holdout.                                                              *)

Untouched ==
  \A i \in holdout :
    /\ i \in Recovered <=> truth[i].would_pay_anyway /\ truth[i].settles_on <= Elapsed
    /\ i \in Recovered => sim.recovered[i] = [amount |-> Invoices[i].amount, why |-> "spontaneous"]

LEMMA SettlesIs ==
  ASSUME Dataset, NEW i \in Targets
  PROVE  truth[i].settles_on \in Nat \ {0}
BY FactsAssumption DEF Dataset

LEMMA UntouchedStart == Dataset /\ AtStart => Untouched
<1> SUFFICES ASSUME Dataset, AtStart
             PROVE  Untouched
  OBVIOUS
<1>1. Recovered = {} /\ Elapsed = 0
  BY NoSeq, RunsAssumption DEF AtStart, Recovered, NewSim, Elapsed
<1>2. \A i \in holdout : ~ (truth[i].settles_on <= 0)
  BY SettlesIs DEF Dataset
<1> QED
  BY <1>1, <1>2 DEF Untouched

LEMMA UntouchedStep == Schedule /\ Untouched /\ [Next]_vars => Untouched'
<1> SUFFICES ASSUME Schedule, Untouched, [Next]_vars
             PROVE  Untouched'
  OBVIOUS
<1>0. Dataset /\ Calendar /\ Money /\ holdout \subseteq Targets
  BY DEF Schedule, Timetable, Dataset
<1>1. CASE sim' = sim /\ day' = day /\ truth' = truth /\ holdout' = holdout
  BY <1>1 DEF Untouched, Recovered, Elapsed
<1>2. CASE BeginDay
  <2> DEFINE paid == Spontaneous(day + 1)
  <2>0. day < Days /\ day' = day + 1 /\ truth' = truth /\ holdout' = holdout
    BY <1>2 DEF BeginDay
  <2>1. /\ Recovered' = Recovered \cup paid
        /\ \A i \in Recovered : sim.recovered'[i] = sim.recovered[i]
        /\ \A i \in paid : sim.recovered'[i] = [amount |-> Invoices[i].amount - 0,
                                                why |-> "spontaneous"]
    BY <1>2, MorningIs DEF Schedule
  <2>2. \A i \in holdout : i \in paid <=>
          /\ i \notin Recovered
          /\ truth[i].would_pay_anyway
          /\ truth[i].settles_on = day + 1
    <3>1. \A i \in Targets : i \notin Recovered => books[i].status \in {"open", "overdue"}
      BY <1>0, InvoiceIs DEF Money
    <3> QED
      BY <1>0, <3>1 DEF Spontaneous
  <2> HIDE DEF paid
  <2>3. /\ day \in Nat /\ Elapsed = day /\ Elapsed' = day + 1
    BY <1>0, <2>0, ElapsedIs, RunsAssumption DEF Elapsed
  <2>4. \A i \in holdout : truth[i].settles_on <= day + 1 <=>
          truth[i].settles_on <= day \/ truth[i].settles_on = day + 1
    BY <1>0, <2>3, SettlesIs
  <2>5. \A i \in holdout : ~ (truth[i].settles_on <= day /\ truth[i].settles_on = day + 1)
    BY <1>0, <2>3, SettlesIs
  <2>6. \A i \in holdout : Invoices[i].amount - 0 = Invoices[i].amount
    BY <1>0, InvoiceIs
  <2>7. \A i \in holdout :
          i \in Recovered' <=> truth[i].would_pay_anyway /\ truth[i].settles_on <= day + 1
    BY <2>1, <2>2, <2>3, <2>4, <2>5 DEF Untouched
  <2>8. \A i \in holdout : i \in Recovered' =>
          sim.recovered'[i] = [amount |-> Invoices[i].amount, why |-> "spontaneous"]
    BY <2>1, <2>6 DEF Untouched
  <2> QED
    BY <2>0, <2>3, <2>7, <2>8 DEF Untouched
<1>3. CASE Resolve
  <2> DEFINE paid == IF Lands(Head(asked).req) THEN {Head(asked).req.invoice} ELSE {}
  <2>0. day' = day /\ truth' = truth /\ holdout' = holdout
    BY <1>3 DEF Resolve
  <2>1. /\ IsAnswer(Head(asked))
        /\ Recovered' = Recovered \cup paid
        /\ \A i \in Recovered : sim.recovered'[i] = sim.recovered[i]
    BY <1>3, OutcomeIs DEF Schedule
  <2>2. paid \cap holdout = {}
    BY <2>1 DEF IsAnswer, Chased
  <2> HIDE DEF paid
  <2>3. Elapsed' = Elapsed
    BY <2>0 DEF Elapsed
  <2> QED
    BY <2>0, <2>1, <2>2, <2>3 DEF Untouched
<1>4. CASE Finish
  <2>1. Elapsed' = Elapsed
    BY <1>4, RunsAssumption DEF Finish, Elapsed
  <2> QED
    BY <1>4, <2>1 DEF Finish, Untouched, Recovered
<1>5. CASE Rerun
  <2>1. Dataset'
    BY <1>5, ScheduleStep DEF Schedule, Timetable
  <2>2. AtStart'
    <3>1. todo = <<>> /\ asked = <<>>
      BY <1>0, <1>5, RunsAssumption DEF Rerun, Calendar
    <3> QED
      BY <1>5, <3>1 DEF Rerun, AtStart, NewAgent, NewSim, Targets
  <2> QED
    BY <2>1, <2>2, UntouchedStart, PTL
<1> QED
  BY <1>1, <1>2, <1>3, <1>4, <1>5 DEF Next, LeaveAlone, Ask, Overlook, vars

\* The control group is one: for any holdout, any planner and any ground truth,
\* its invoices are never asked about and pay in full, on the day they would
\* have paid in a world without the agent, if the run lasts that long.
THEOREM CampaignHoldoutIsTheCounterfactual == Spec => []HoldoutIsTheCounterfactual
<1>1. Init => Untouched
  <2>1. Init => Dataset /\ AtStart
    BY ScheduleInit DEF Schedule, Timetable, Init, AtStart
  <2> QED
    BY <2>1, UntouchedStart
<1>2. Schedule /\ Untouched => HoldoutIsTheCounterfactual
  <2> SUFFICES ASSUME Schedule, Untouched
               PROVE  HoldoutIsTheCounterfactual
    OBVIOUS
  <2>1. DOMAIN log = 1 .. Len(log)
    BY SeqShape DEF Schedule, Timetable, Answers
  <2>2. \A i \in holdout : Requests(i) = {}
    BY <2>1 DEF Schedule, Timetable, RowsKnown, Chased, Requests, RequestRows
  <2> QED
    BY <2>2 DEF Untouched, HoldoutIsTheCounterfactual
<1> QED
  BY <1>1, <1>2, ScheduleInit, ScheduleStep, UntouchedStep, PTL DEF Spec

-----------------------------------------------------------------------------
(* Nothing without permission.                                               *)

ContactRows(i) ==
  {k \in 1 .. Len(log) : Allowed(log[k]) /\ log[k].req.invoice = i /\ Contacts(log[k].req)}

\* A contact with this invoice's customer is allowed and not delivered yet.
OnItsWay(i) ==
  \E k \in 1 .. Len(asked) :
    Allowed(asked[k]) /\ Contacts(asked[k].req) /\ asked[k].req.invoice = i

DeliveriesAllowed ==
  \A i \in Targets :
    sim.delivered[i] + (IF OnItsWay(i) THEN 1 ELSE 0) = Cardinality(ContactRows(i))

Backing(i, j, k) ==
  /\ Allowed(log[j]) /\ log[j].req.invoice = i
  /\ log[k].type = "outcome"
  /\ log[k].id = log[j].req.id
  /\ log[k].amount = sim.recovered[i].amount

MoneyBacked ==
  \A i \in Targets : i \in Recovered /\ sim.recovered[i].why = "chased" =>
    \E j \in 1 .. Len(log) : \E k \in j + 1 .. Len(log) : Backing(i, j, k)

Permission == DeliveriesAllowed /\ MoneyBacked

\* The first answer is the only one on its invoice.
LEMMA OneOnItsWay ==
  ASSUME Answers, asked # <<>>
  PROVE  LET r == Head(asked)
         IN  /\ IsAnswer(r)
             /\ OnItsWay(r.req.invoice) <=> Allowed(r) /\ Contacts(r.req)
             /\ \A i : (\E k \in 1 .. Len(Tail(asked)) :
                          /\ Allowed(Tail(asked)[k]) /\ Contacts(Tail(asked)[k].req)
                          /\ Tail(asked)[k].req.invoice = i)
                       <=> i # r.req.invoice /\ OnItsWay(i)
<1> DEFINE r == Head(asked)
<1>1. /\ r = asked[1]
      /\ Len(asked) \in Nat /\ Len(asked) >= 1
      /\ Len(Tail(asked)) = Len(asked) - 1
      /\ \A k \in 1 .. Len(Tail(asked)) :
           Tail(asked)[k] = asked[k + 1] /\ k + 1 \in 1 .. Len(asked)
  BY RestOf DEF Answers
<1> HIDE DEF r
<1>2. /\ 1 \in 1 .. Len(asked)
      /\ \A k \in 1 .. Len(Tail(asked)) : k + 1 # 1
      /\ \A k \in 1 .. Len(asked) : k # 1 => k - 1 \in 1 .. Len(Tail(asked)) /\ (k - 1) + 1 = k
  BY <1>1
<1>3. \A j, k \in 1 .. Len(asked) : asked[j].req.invoice = asked[k].req.invoice => j = k
  BY DEF Answers
<1>4. IsAnswer(r)
  BY <1>1, <1>2 DEF Answers
<1>5. OnItsWay(r.req.invoice) <=> Allowed(r) /\ Contacts(r.req)
  BY <1>1, <1>2, <1>3 DEF OnItsWay
<1>6. ASSUME NEW i, NEW k \in 1 .. Len(Tail(asked)),
             Allowed(Tail(asked)[k]), Contacts(Tail(asked)[k].req), Tail(asked)[k].req.invoice = i
      PROVE  i # r.req.invoice /\ OnItsWay(i)
  <2>1. /\ Tail(asked)[k] = asked[k + 1] /\ k + 1 \in 1 .. Len(asked) /\ k + 1 # 1
    BY <1>1, <1>2
  <2>2. i # r.req.invoice
    BY <1>1, <1>2, <1>3, <1>6, <2>1
  <2> QED
    BY <1>6, <2>1, <2>2 DEF OnItsWay
<1>7. ASSUME NEW i, i # r.req.invoice, OnItsWay(i)
      PROVE  \E k \in 1 .. Len(Tail(asked)) :
               /\ Allowed(Tail(asked)[k]) /\ Contacts(Tail(asked)[k].req)
               /\ Tail(asked)[k].req.invoice = i
  <2>1. PICK k \in 1 .. Len(asked) :
          Allowed(asked[k]) /\ Contacts(asked[k].req) /\ asked[k].req.invoice = i
    BY <1>7 DEF OnItsWay
  <2>2. k # 1
    BY <1>1, <1>7, <2>1
  <2>3. k - 1 \in 1 .. Len(Tail(asked)) /\ Tail(asked)[k - 1] = asked[k]
    BY <1>1, <1>2, <2>2
  <2> QED
    BY <2>1, <2>3
<1> QED
  BY <1>4, <1>5, <1>6, <1>7 DEF r

LEMMA FiniteContacts ==
  ASSUME Len(log) \in Nat, NEW i
  PROVE  IsFiniteSet(ContactRows(i)) /\ Cardinality(ContactRows(i)) \in Nat
<1>1. IsFiniteSet(1 .. Len(log)) /\ ContactRows(i) \subseteq 1 .. Len(log)
  BY FS_Interval DEF ContactRows
<1> QED
  BY <1>1, FS_Subset, FS_CardinalityType

\* What was backed stays backed when the log grows.
LEMMA StaysBacked ==
  ASSUME Len(log) \in Nat, Len(log') \in Nat, Len(log) <= Len(log'),
         \A k \in 1 .. Len(log) : log'[k] = log[k],
         NEW i, sim.recovered'[i] = sim.recovered[i],
         \E j \in 1 .. Len(log) : \E k \in j + 1 .. Len(log) : Backing(i, j, k)
  PROVE  \E j \in 1 .. Len(log') : \E k \in j + 1 .. Len(log') : Backing(i, j, k)'
<1>0. PICK j \in 1 .. Len(log) : \E k \in j + 1 .. Len(log) : Backing(i, j, k)
  OBVIOUS
<1>1. PICK k \in j + 1 .. Len(log) : Backing(i, j, k)
  BY <1>0
<1>2. k \in 1 .. Len(log) /\ j \in 1 .. Len(log') /\ k \in j + 1 .. Len(log')
  OBVIOUS
<1>3. log'[j] = log[j] /\ log'[k] = log[k]
  BY <1>2
<1>4. /\ Allowed(log'[j]) /\ log'[j].req.invoice = i
      /\ log'[k].type = "outcome"
      /\ log'[k].id = log'[j].req.id
      /\ log'[k].amount = sim.recovered'[i].amount
  BY <1>1, <1>3 DEF Backing
<1> QED
  BY <1>2, <1>4 DEF Backing, Allowed

LEMMA PermissionStart == Dataset /\ AtStart => Permission
<1> SUFFICES ASSUME Dataset, AtStart
             PROVE  Permission
  OBVIOUS
<1>1. /\ Recovered = {} /\ \A i \in Targets : sim.delivered[i] = 0
      /\ 1 .. Len(log) = {} /\ 1 .. Len(asked) = {}
  BY NoSeq DEF AtStart, Recovered, NewSim
<1>2. \A i \in Targets : ContactRows(i) = {} /\ ~OnItsWay(i)
  BY <1>1 DEF ContactRows, OnItsWay
<1>3. ASSUME NEW i \in Targets
      PROVE  sim.delivered[i] + (IF OnItsWay(i) THEN 1 ELSE 0) = Cardinality(ContactRows(i))
  <2>1. Cardinality(ContactRows(i)) = 0
    BY <1>2, FS_EmptySet
  <2> QED
    BY <1>1, <1>2, <2>1
<1> QED
  BY <1>1, <1>3 DEF Permission, DeliveriesAllowed, MoneyBacked

LEMMA PermissionInit == Init => Permission
<1>1. Init => Dataset /\ AtStart
  BY ScheduleInit DEF Schedule, Timetable, Init, AtStart
<1> QED
  BY <1>1, PermissionStart

LEMMA PermissionStep == Timetable /\ Permission /\ [Next]_vars => Permission'
<1> SUFFICES ASSUME Timetable, Permission, [Next]_vars
             PROVE  Permission'
  OBVIOUS
<1>0. /\ Dataset /\ Calendar /\ Money /\ Waiting /\ Answers /\ DeliveriesAllowed /\ MoneyBacked
      /\ Len(log) \in Nat /\ Len(asked) \in Nat
  BY SeqShape DEF Timetable, Permission, Answers
<1>1. CASE log' = log /\ asked' = asked /\ sim' = sim
  BY <1>0, <1>1 DEF Permission, DeliveriesAllowed, MoneyBacked, Backing, OnItsWay, ContactRows,
                    Recovered, Targets
<1>2. CASE BeginDay
  <2> DEFINE paid == Spontaneous(day + 1)
  <2>0. log' = log /\ asked' = asked
    BY <1>2 DEF BeginDay
  <2>1. /\ Recovered' = Recovered \cup paid
        /\ \A i \in Recovered : sim.recovered'[i] = sim.recovered[i]
        /\ \A i \in paid : sim.recovered'[i] = [amount |-> Invoices[i].amount - 0,
                                                why |-> "spontaneous"]
        /\ sim.delivered' = sim.delivered
    BY <1>2, MorningIs
  <2> HIDE DEF paid
  <2>2. DeliveriesAllowed'
    BY <1>0, <2>0, <2>1, SMTT(20) DEF DeliveriesAllowed, OnItsWay, ContactRows, Targets
  <2>3. ASSUME NEW i \in Targets, i \in Recovered', sim.recovered'[i].why = "chased"
        PROVE  \E j \in 1 .. Len(log') : \E k \in j + 1 .. Len(log') : Backing(i, j, k)'
    <3>0. i \notin paid
      <4> SUFFICES ASSUME i \in paid
                   PROVE  FALSE
        OBVIOUS
      <4>1. sim.recovered'[i] = [amount |-> Invoices[i].amount - 0, why |-> "spontaneous"]
        BY <2>1
      <4>2. sim.recovered'[i].why = "spontaneous"
        BY <4>1
      <4> QED
        BY <2>3, <4>2
    <3>1. i \in Recovered /\ sim.recovered'[i] = sim.recovered[i]
      BY <2>1, <2>3, <3>0
    <3>2. \E j \in 1 .. Len(log) : \E k \in j + 1 .. Len(log) : Backing(i, j, k)
      BY <1>0, <2>3, <3>1 DEF MoneyBacked
    <3> QED
      BY <1>0, <2>0, <3>1, <3>2, StaysBacked
  <2> QED
    BY <2>2, <2>3 DEF Permission, MoneyBacked, Targets
<1>3. CASE Ask
  <2> DEFINE i == Head(todo)
  <2>0. todo # <<>> /\ todo' = Tail(todo) /\ holdout' = holdout /\ sim' = sim
    BY <1>3 DEF Ask
  <2>1. PICK req, row : Asks(i, req, row)
    BY <1>3, AskIs
  <2>2. /\ Len(log') = Len(log) + 2
        /\ \A k \in 1 .. Len(log) : log'[k] = log[k]
        /\ log'[Len(log) + 1] = RequestRow(req)
        /\ log'[Len(log) + 2] = row
        /\ i \in Chased
    BY <1>0, <2>0, <2>1, OneMoreAnswer DEF Recovered
  <2>3. req.invoice = i /\ row.req = req /\ row.type = "decision" /\ asked' = Append(asked, row)
    BY <2>1 DEF Asks
  <2>4. \A k \in 1 .. Len(asked) : asked[k].req.invoice # i
    <3>1. \E j \in 1 .. Len(todo) : i = todo[j]
      BY <1>0, <2>0, HeadGone DEF Waiting
    <3> QED
      BY <1>0, <3>1 DEF Answers, IsAnswer
  <2> HIDE DEF i
  <2> DEFINE contact == Allowed(row) /\ Contacts(req)
  <2>5. /\ Len(asked') = Len(asked) + 1
        /\ \A k \in 1 .. Len(asked) : asked'[k] = asked[k]
        /\ asked'[Len(asked) + 1] = row
    BY <1>0, <2>3, OneMoreRow DEF Answers
  <2>6. /\ \A k \in 1 .. Len(asked') : k \in 1 .. Len(asked) \/ k = Len(asked) + 1
        /\ \A k \in 1 .. Len(asked) : k \in 1 .. Len(asked')
        /\ Len(asked) + 1 \in 1 .. Len(asked')
    BY <1>0, <2>5
  <2>7. \A j : OnItsWay(j)' <=> OnItsWay(j) \/ (j = i /\ contact)
    BY <2>3, <2>5, <2>6 DEF OnItsWay
  <2>8. ~OnItsWay(i)
    BY <2>4 DEF OnItsWay
  <2>9. /\ \A k \in 1 .. Len(log') : k \in 1 .. Len(log) \/ k = Len(log) + 1 \/ k = Len(log) + 2
        /\ \A k \in 1 .. Len(log) : k \in 1 .. Len(log') /\ k # Len(log) + 2 /\ k # Len(log) + 1
        /\ Len(log) + 2 \in 1 .. Len(log') /\ Len(log) + 1 # Len(log) + 2
    BY <1>0, <2>2
  <2>10. ~Allowed(log'[Len(log) + 1])
    BY <2>2 DEF Allowed, RequestRow
  <2>11. \A j, k : k \in ContactRows(j)' <=> k \in ContactRows(j) \/ (k = Len(log) + 2 /\ j = i /\ contact)
    BY <2>2, <2>3, <2>9, <2>10 DEF ContactRows
  <2>12. \A j : Len(log) + 2 \notin ContactRows(j)
    BY <2>9 DEF ContactRows
  <2>13. DeliveriesAllowed'
    <3> HIDE DEF contact
    <3>1. ASSUME NEW j \in Targets, j = i /\ contact
          PROVE  sim.delivered[j] + 1 = Cardinality(ContactRows(j)')
      <4>1. ContactRows(j)' = ContactRows(j) \cup {Len(log) + 2}
        BY <2>11, <3>1
      <4>2. Cardinality(ContactRows(j)') = Cardinality(ContactRows(j)) + 1
        BY <1>0, <2>12, <4>1, FiniteContacts, FS_AddElement
      <4>3. sim.delivered[j] \in Nat /\ sim.delivered[j] + 0 = Cardinality(ContactRows(j))
        BY <1>0, <2>8, <3>1 DEF DeliveriesAllowed, Money
      <4> QED
        BY <4>2, <4>3
    <3>2. ASSUME NEW j \in Targets, ~ (j = i /\ contact)
          PROVE  ContactRows(j)' = ContactRows(j)
      BY <2>11, <3>2
    <3>3. \A j \in Targets : sim.delivered[j] + (IF OnItsWay(j)' THEN 1 ELSE 0) = Cardinality(ContactRows(j)')
      BY <1>0, <2>7, <3>1, <3>2 DEF DeliveriesAllowed
    <3> QED
      BY <2>0, <3>3 DEF DeliveriesAllowed, Targets
  <2>14. MoneyBacked'
    <3>1. ASSUME NEW j \in Targets, j \in Recovered', sim.recovered'[j].why = "chased"
          PROVE  \E k \in 1 .. Len(log') : \E n \in k + 1 .. Len(log') : Backing(j, k, n)'
      <4>1. \E k \in 1 .. Len(log) : \E n \in k + 1 .. Len(log) : Backing(j, k, n)
        BY <1>0, <2>0, <3>1 DEF MoneyBacked, Recovered
      <4>2. Len(log') \in Nat /\ Len(log) <= Len(log') /\ sim.recovered'[j] = sim.recovered[j]
        BY <1>0, <2>0, <2>2
      <4> QED
        BY <1>0, <2>2, <4>1, <4>2, StaysBacked
    <3> QED
      BY <3>1 DEF MoneyBacked, Targets
  <2> QED
    BY <2>13, <2>14 DEF Permission
<1>4. CASE Overlook
  <2>0. log' = log /\ asked # <<>> /\ asked' = Tail(asked) /\ sim' = sim /\ ~Happened(Head(asked))
    BY <1>4 DEF Overlook
  <2>1. /\ IsAnswer(Head(asked))
        /\ OnItsWay(Head(asked).req.invoice) <=> Allowed(Head(asked)) /\ Contacts(Head(asked).req)
        /\ \A i : OnItsWay(i)' <=> i # Head(asked).req.invoice /\ OnItsWay(i)
    BY <1>0, <2>0, OneOnItsWay DEF OnItsWay
  <2>2. ~OnItsWay(Head(asked).req.invoice)
    BY <2>0, <2>1 DEF Happened, IsAnswer
  <2>3. \A i : OnItsWay(i)' <=> OnItsWay(i)
    BY <2>1, <2>2
  <2>4. DeliveriesAllowed'
    BY <1>0, <2>0, <2>3 DEF DeliveriesAllowed, ContactRows, Targets
  <2> QED
    BY <1>0, <2>0, <2>4 DEF Permission, MoneyBacked, Backing, Recovered, Targets
<1>5. CASE Resolve
  <2> DEFINE req  == Head(asked).req
             paid == IF Lands(req) THEN {req.invoice} ELSE {}
             new  == Len(log) + 1
  <2>0. asked' = Tail(asked)
    BY <1>5 DEF Resolve
  <2>1. /\ asked # <<>> /\ IsAnswer(Head(asked)) /\ Allowed(Head(asked))
        /\ Recovered' = Recovered \cup paid
        /\ \A i \in Recovered : sim.recovered'[i] = sim.recovered[i]
        /\ \A i \in paid : sim.recovered'[i] = [amount |-> Invoices[i].amount - Minus(req),
                                                why |-> "chased"]
        /\ \A i \in Targets : sim.delivered'[i] =
             IF i = req.invoice /\ Contacts(req) THEN sim.delivered[i] + 1 ELSE sim.delivered[i]
        /\ Len(log') = Len(log) + 1
        /\ \A k \in 1 .. Len(log) : k \in 1 .. Len(log') /\ log'[k] = log[k]
        /\ log'[new].type = "outcome"
        /\ log'[new].id = req.id
        /\ paid # {} => log'[new].amount = Invoices[req.invoice].amount - Minus(req)
    BY <1>5, OutcomeIs
  <2>2. /\ OnItsWay(req.invoice) <=> Contacts(req)
        /\ \A i : OnItsWay(i)' <=> i # req.invoice /\ OnItsWay(i)
    BY <1>0, <2>0, <2>1, OneOnItsWay DEF OnItsWay
  <2>3. paid \subseteq {req.invoice}
    OBVIOUS
  <2> HIDE DEF req, paid
  <2>4. \A k \in 1 .. Len(log') : k \in 1 .. Len(log) \/ k = new
    BY <1>0, <2>1
  <2>5. ~Allowed(log'[new])
    BY <2>1 DEF Allowed
  <2>6. \A i : ContactRows(i)' = ContactRows(i)
    BY <2>1, <2>4, <2>5 DEF ContactRows
  <2>7. DeliveriesAllowed'
    <3>1. ASSUME NEW i \in Targets
          PROVE  sim.delivered'[i] + (IF OnItsWay(i)' THEN 1 ELSE 0) = Cardinality(ContactRows(i))
      <4>1. /\ sim.delivered[i] \in Nat
            /\ sim.delivered[i] + (IF OnItsWay(i) THEN 1 ELSE 0) = Cardinality(ContactRows(i))
        BY <1>0 DEF DeliveriesAllowed, Money
      <4>2. sim.delivered'[i] =
              IF i = req.invoice /\ Contacts(req) THEN sim.delivered[i] + 1 ELSE sim.delivered[i]
        BY <2>1
      <4>3. CASE i = req.invoice /\ Contacts(req)
        BY <2>2, <4>1, <4>2, <4>3
      <4>4. CASE i = req.invoice /\ ~Contacts(req)
        BY <2>2, <4>1, <4>2, <4>4
      <4>5. CASE i # req.invoice
        BY <2>2, <4>1, <4>2, <4>5
      <4> QED
        BY <4>3, <4>4, <4>5
    <3> QED
      BY <2>6, <3>1 DEF DeliveriesAllowed, Targets
  <2>8. ASSUME NEW i \in Targets, i \in Recovered', sim.recovered'[i].why = "chased"
        PROVE  \E j \in 1 .. Len(log') : \E k \in j + 1 .. Len(log') : Backing(i, j, k)'
    <3>1. CASE i \in Recovered
      <4>1. sim.recovered'[i] = sim.recovered[i]
        BY <2>1, <3>1
      <4>2. \E j \in 1 .. Len(log) : \E k \in j + 1 .. Len(log) : Backing(i, j, k)
        BY <1>0, <2>8, <3>1, <4>1 DEF MoneyBacked
      <4>3. Len(log') \in Nat /\ Len(log) <= Len(log')
        BY <1>0, <2>1
      <4> QED
        BY <1>0, <2>1, <4>1, <4>2, <4>3, StaysBacked
    <3>2. CASE i \in paid
      <4>1. i = req.invoice /\ paid # {}
        BY <2>3, <3>2
      <4>2. PICK j \in 1 .. Len(log) : log[j] = Head(asked)
        BY <2>1 DEF IsAnswer
      <4>3. j \in 1 .. Len(log') /\ new \in j + 1 .. Len(log') /\ log'[j] = Head(asked)
        BY <1>0, <2>1, <4>2
      <4>4. Head(asked).req = req
        BY DEF req
      <4>5. sim.recovered'[i].amount = Invoices[i].amount - Minus(req)
        <5>1. sim.recovered'[i] = [amount |-> Invoices[i].amount - Minus(req), why |-> "chased"]
          BY <2>1, <3>2
        <5> QED
          BY <5>1
      <4>6. /\ Allowed(log'[j]) /\ log'[j].req.invoice = i
            /\ log'[new].type = "outcome"
            /\ log'[new].id = log'[j].req.id
            /\ log'[new].amount = sim.recovered'[i].amount
        BY <2>1, <4>1, <4>3, <4>4, <4>5
      <4> HIDE DEF new
      <4> QED
        BY <4>3, <4>6 DEF Backing, Allowed
    <3> QED
      BY <2>1, <2>8, <3>1, <3>2
  <2> QED
    BY <2>7, <2>8 DEF Permission, MoneyBacked, Targets
<1>6. CASE Rerun
  <2>1. Dataset'
    BY <1>6, TimetableStep DEF Timetable
  <2>2. AtStart'
    <3>1. todo = <<>> /\ asked = <<>>
      BY <1>0, <1>6, RunsAssumption DEF Rerun, Calendar
    <3> QED
      BY <1>6, <3>1 DEF Rerun, AtStart, NewAgent, NewSim, Targets
  <2> QED
    BY <2>1, <2>2, PermissionStart, PTL
<1> QED
  BY <1>1, <1>2, <1>3, <1>4, <1>5, <1>6 DEF Next, LeaveAlone, Finish, vars

LEMMA PermissionTold == Timetable /\ Permission => NothingWithoutPermission
<1> SUFFICES ASSUME Timetable, Permission, todo = <<>>, asked = <<>>, NEW i \in Targets
             PROVE  /\ sim.delivered[i] =
                         Cardinality({k \in Permitted(i) : Contacts(log[k].req)})
                    /\ i \in Recovered /\ sim.recovered[i].why = "chased" =>
                         \E j \in Permitted(i) : \E k \in j + 1 .. Len(log) :
                           /\ log[k].type = "outcome"
                           /\ log[k].id = log[j].req.id
                           /\ log[k].amount = sim.recovered[i].amount
  BY DEF NothingWithoutPermission
<1>1. DOMAIN log = 1 .. Len(log) /\ sim.delivered[i] \in Nat
  BY SeqShape DEF Timetable, Answers, Money
<1>2. {k \in Permitted(i) : Contacts(log[k].req)} = ContactRows(i)
  BY <1>1 DEF Permitted, ContactRows
<1>3. ~OnItsWay(i)
  BY NoSeq DEF OnItsWay
<1>4. sim.delivered[i] + 0 = Cardinality(ContactRows(i))
  BY <1>3 DEF Permission, DeliveriesAllowed
<1>5. i \in Recovered /\ sim.recovered[i].why = "chased" =>
        \E j \in Permitted(i) : \E k \in j + 1 .. Len(log) : Backing(i, j, k)
  BY <1>1 DEF Permission, MoneyBacked, Permitted, Backing
<1>6. sim.delivered[i] = Cardinality({k \in Permitted(i) : Contacts(log[k].req)})
  <2>1. sim.delivered[i] + 0 = sim.delivered[i]
    BY <1>1
  <2> QED
    BY <1>2, <1>4, <2>1, Zenon
<1>7. ASSUME i \in Recovered, sim.recovered[i].why = "chased"
      PROVE  \E j \in Permitted(i) : \E k \in j + 1 .. Len(log) :
               /\ log[k].type = "outcome"
               /\ log[k].id = log[j].req.id
               /\ log[k].amount = sim.recovered[i].amount
  BY <1>5, <1>7 DEF Backing
<1> QED
  BY <1>6, <1>7

\* Whatever the planner names and whatever the ground truth holds, the contacts
\* the simulator has delivered at the end of a day are those the ledger allows,
\* one by one, and money credited to the chase has an allowed decision and a
\* later outcome row of that amount behind it.
THEOREM CampaignNothingWithoutPermission == Spec => []NothingWithoutPermission
<1>1. Init => Permission
  BY PermissionInit
<1>2. Schedule /\ Permission /\ [Next]_vars => Permission'
  BY PermissionStep DEF Schedule
<1>3. Schedule /\ Permission => NothingWithoutPermission
  BY PermissionTold DEF Schedule
<1> QED
  BY <1>1, <1>2, <1>3, ScheduleInit, ScheduleStep, PTL DEF Spec

-----------------------------------------------------------------------------
(* The ladder: what the rule planner says of an invoice that it chases, by   *)
(* the number of times it has been asked about.                              *)

Floor(i) == IF Invoices[i].amount >= HIGH_VALUE_PAISE THEN 2 ELSE 1
Cheap(i) == Invoices[i].amount < CALL_WORTH_IT_PAISE
Retried(i) == RetryableOn(i) # <<>>

RungAt(i, n) == (IF Retried(i) /\ n # 0 THEN n - 1 ELSE n) + Floor(i)

ForAPerson(i, n) == RungAt(i, n) > 4 \/ (RungAt(i, n) = 4 /\ Cheap(i))

Climb(i, n) ==
  IF n = 0 /\ Retried(i) THEN "retry_charge"
  ELSE IF ForAPerson(i, n) THEN "escalate_to_human"
  ELSE CHANNEL_LADDER[RungAt(i, n)]

HeightAt(i, n) ==
  IF n = 0 /\ Retried(i) THEN 0 ELSE IF ForAPerson(i, n) THEN 5 ELSE RungAt(i, n)

LEMMA HeightsAre ==
  /\ Height("retry_charge") = 0
  /\ Height("escalate_to_human") = 5
  /\ \A k \in 1 .. 4 : Height(CHANNEL_LADDER[k]) = k
<1>1. DOMAIN CHANNEL_LADDER = 1 .. 4 /\ Len(CHANNEL_LADDER) = 4
  BY DEF CHANNEL_LADDER
<1>2. /\ CHANNEL_LADDER[1] = "send_email" /\ CHANNEL_LADDER[2] = "send_sms"
      /\ CHANNEL_LADDER[3] = "send_whatsapp" /\ CHANNEL_LADDER[4] = "place_call"
  BY DEF CHANNEL_LADDER
<1>3. \A k \in 1 .. 4 : k = 1 \/ k = 2 \/ k = 3 \/ k = 4
  OBVIOUS
<1>4. ASSUME NEW k \in 1 .. 4
      PROVE  Height(CHANNEL_LADDER[k]) = k
  <2>1. \A n \in 1 .. 4 : CHANNEL_LADDER[n] = CHANNEL_LADDER[k] <=> n = k
    BY <1>2, <1>3
  <2>2. CHANNEL_LADDER[k] # "retry_charge" /\ CHANNEL_LADDER[k] # "escalate_to_human"
    BY <1>2, <1>3
  <2>3. Height(CHANNEL_LADDER[k]) =
          CHOOSE n \in 1 .. 4 : CHANNEL_LADDER[n] = CHANNEL_LADDER[k]
    BY <1>1, <2>2 DEF Height
  <2> QED
    BY <2>1, <2>3
<1> QED
  BY <1>1, <1>4 DEF Height

LEMMA RungIs ==
  ASSUME NEW i \in Targets, NEW n \in Nat
  PROVE  /\ RungAt(i, n) \in Nat \ {0}
         /\ ~ForAPerson(i, n) => RungAt(i, n) \in 1 .. 4
BY InvoiceIs DEF RungAt, ForAPerson, Floor

\* A later try is a step up, or the handover again.
LEMMA ClimbsUp ==
  ASSUME NEW i \in Targets, NEW n \in Nat, NEW m \in Nat, n < m
  PROVE  \/ Height(Climb(i, n)) < Height(Climb(i, m))
         \/ Climb(i, n) = "escalate_to_human" /\ Climb(i, m) = "escalate_to_human"
<1>1. \A k \in Nat : Height(Climb(i, k)) = HeightAt(i, k)
  BY RungIs, HeightsAre DEF Climb, HeightAt
<1>2. ~ (m = 0 /\ Retried(i)) /\ m # 0
  OBVIOUS
<1>3. RungAt(i, n) \in Nat \ {0} /\ RungAt(i, m) \in Nat \ {0}
  BY RungIs
<1>4. (n = 0 /\ Retried(i)) \/ RungAt(i, n) < RungAt(i, m)
  BY InvoiceIs DEF RungAt, Floor
<1>5. CASE n = 0 /\ Retried(i)
  <2>1. HeightAt(i, n) = 0 /\ HeightAt(i, m) > 0
    BY <1>2, <1>3, <1>5 DEF HeightAt
  <2> QED
    BY <1>1, <2>1
<1>6. CASE ~ (n = 0 /\ Retried(i)) /\ ForAPerson(i, n)
  <2>1. ForAPerson(i, m)
    BY <1>3, <1>4, <1>6 DEF ForAPerson
  <2> QED
    BY <1>2, <1>6, <2>1 DEF Climb
<1>7. CASE ~ (n = 0 /\ Retried(i)) /\ ~ForAPerson(i, n)
  <2>1. HeightAt(i, n) = RungAt(i, n) /\ RungAt(i, n) \in 1 .. 4
    BY <1>7, RungIs DEF HeightAt
  <2>2. HeightAt(i, n) < HeightAt(i, m)
    BY <1>2, <1>3, <1>4, <1>7, <2>1 DEF HeightAt
  <2> QED
    BY <1>1, <2>2
<1> QED
  BY <1>5, <1>6, <1>7

\* The rule planner leaves an invoice alone only when nothing is owed or due.
LEMMA PlanIs ==
  ASSUME Money, NEW i \in Targets, NEW n \in Nat
  PROVE  /\ Climb(i, n) \in ActionType /\ Climb(i, n) # "write_off"
         /\ plan(i, n) \in {None, Climb(i, n)}
         /\ i \notin Recovered /\ plan(i, n) = None => Now <= books[i].due
         /\ books[i].due = Invoices[i].due
<1>1. /\ i \in DOMAIN Invoices
      /\ books[i].amount = Invoices[i].amount /\ books[i].due = Invoices[i].due
      /\ i \notin Recovered => books[i].status \in {"open", "overdue"}
  BY InvoiceIs DEF Money
<1>2. RungAt(i, n) \in Nat \ {0} /\ (~ForAPerson(i, n) => RungAt(i, n) \in 1 .. 4)
  BY RungIs
<1>3. Rung(i, n) = (IF Retried(i) THEN Max({0, n - 1}) ELSE n) + Floor(i)
  BY <1>1 DEF Rung, Retried, Floor
<1>4. n # 0 => Max({0, n - 1}) = n - 1
  BY DEF Max
<1>5. ~ (n = 0 /\ Retried(i)) => Rung(i, n) = RungAt(i, n)
  BY <1>3, <1>4 DEF RungAt
<1>6. /\ CHANNEL_LADDER[1] = "send_email" /\ CHANNEL_LADDER[2] = "send_sms"
      /\ CHANNEL_LADDER[3] = "send_whatsapp" /\ CHANNEL_LADDER[4] = "place_call"
      /\ Len(CHANNEL_LADDER) = 4
  BY DEF CHANNEL_LADDER
<1>7. Climb(i, n) \in ActionType /\ Climb(i, n) # "write_off"
  <2>1. \A k \in 1 .. 4 : k = 1 \/ k = 2 \/ k = 3 \/ k = 4
    OBVIOUS
  <2>2. \A k \in 1 .. 4 : CHANNEL_LADDER[k] \in CONTACT_ACTIONS
    BY <1>6, <2>1 DEF CONTACT_ACTIONS
  <2> QED
    BY <1>2, <2>2 DEF Climb, ActionType, ATTEMPT_ACTIONS, CONTACT_ACTIONS
<1>8. CASE books[i].status \notin {"open", "overdue"} \/ Now <= books[i].due
  BY <1>1, <1>7, <1>8 DEF plan
<1>9. CASE ~ (books[i].status \notin {"open", "overdue"} \/ Now <= books[i].due)
  <2>1. plan(i, n) = Climb(i, n)
    <3>1. CASE n = 0 /\ Retried(i)
      BY <1>9, <3>1 DEF plan, Climb, Retried
    <3>2. CASE ~ (n = 0 /\ Retried(i))
      <4>1. plan(i, n) =
              IF RungAt(i, n) > 4 THEN "escalate_to_human"
              ELSE IF CHANNEL_LADDER[RungAt(i, n)] = "place_call" /\ Cheap(i)
                THEN "escalate_to_human" ELSE CHANNEL_LADDER[RungAt(i, n)]
        BY <1>1, <1>5, <1>6, <1>9, <3>2 DEF plan, Retried, Cheap
      <4>2. ~ (RungAt(i, n) > 4) =>
              (CHANNEL_LADDER[RungAt(i, n)] = "place_call" <=> RungAt(i, n) = 4)
        <5>1. ~ (RungAt(i, n) > 4) => \/ RungAt(i, n) = 1 \/ RungAt(i, n) = 2
                                      \/ RungAt(i, n) = 3 \/ RungAt(i, n) = 4
          BY <1>2
        <5> QED
          BY <1>6, <5>1
      <4> QED
        BY <1>2, <3>2, <4>1, <4>2 DEF Climb, ForAPerson
    <3> QED
      BY <3>1, <3>2
  <2> QED
    BY <1>1, <1>7, <1>9, <2>1, PlannerAssumption
<1> QED
  BY <1>8, <1>9

\* What the rule planner asks.
LEMMA RuleAsks ==
  ASSUME Planner = "rule", Money, Tries, NEW i \in Targets, NEW req, NEW row, Asks(i, req, row)
  PROVE  /\ agent.tried[i] \in Nat
         /\ req.id[2] = agent.tried[i]
         /\ req.action = Climb(i, agent.tried[i])
<1>1. agent.tried[i] \in Nat
  BY DEF Tries
<1>2. PICK p \in Planned(i, agent.tried[i]) : p[1] # None /\ req = Proposal(i, p[1], p[2])
  BY DEF Asks
<1>3. p = <<plan(i, agent.tried[i]), 0>>
  BY <1>2 DEF Planned
<1>4. p[1] = Climb(i, agent.tried[i])
  BY <1>1, <1>2, <1>3, PlanIs
<1>5. req.action = p[1] /\ req.id = <<i, agent.tried[i]>>
  BY <1>2 DEF Proposal
<1> QED
  BY <1>1, <1>4, <1>5

\* The number in a request's id is the number of requests on that invoice
\* before it, and it says which rung was asked for.
OnRung ==
  \A k \in 1 .. Len(log) : log[k].type = "request" =>
    LET i == log[k].req.invoice
        n == log[k].req.id[2]
    IN  n \in Nat /\ n < agent.tried[i] /\ log[k].req.action = Climb(i, n)

InTurn ==
  \A j, k \in 1 .. Len(log) :
    /\ log[j].type = "request" /\ log[k].type = "request"
    /\ log[j].req.invoice = log[k].req.invoice /\ j < k
    => log[j].req.id[2] < log[k].req.id[2]

LEMMA LadderInit == Init => OnRung /\ InTurn
BY NoSeq DEF Init, OnRung, InTurn

LEMMA LadderStep ==
  ASSUME Planner = "rule"
  PROVE  Schedule /\ OnRung /\ InTurn /\ [Next]_vars => OnRung' /\ InTurn'
<1> SUFFICES ASSUME Schedule, OnRung, InTurn, [Next]_vars
             PROVE  OnRung' /\ InTurn'
  OBVIOUS
<1>1. CASE log' = log /\ agent' = agent
  BY <1>1 DEF OnRung, InTurn
<1>2. CASE Ask
  <2> DEFINE i == Head(todo)
             n == agent.tried[i]
  <2>0. todo # <<>> /\ todo' = Tail(todo) /\ holdout' = holdout /\ sim' = sim
    BY <1>2 DEF Ask
  <2>1. PICK req, row : Asks(i, req, row)
    BY <1>2, AskIs
  <2>2. /\ Len(log) \in Nat /\ Len(log') = Len(log) + 2
        /\ \A k \in 1 .. Len(log) : log'[k] = log[k]
        /\ log'[Len(log) + 1] = RequestRow(req)
        /\ log'[Len(log) + 2] = row
        /\ i \in Targets
    BY <2>0, <2>1, OneMoreAnswer DEF Schedule, Timetable, Recovered, Chased
  <2>3. req.invoice = i /\ row.req = req /\ row.type = "decision" /\ agent' = Learn(agent, row)
    BY <2>1 DEF Asks
  <2>4. n \in Nat /\ req.id[2] = n /\ req.action = Climb(i, n)
    BY <2>1, <2>2, RuleAsks DEF Schedule, Timetable
  <2> HIDE DEF i
  <2>5. agent \in [tried : [Targets -> Nat], closed : SUBSET Targets]
    BY DEF Schedule, Timetable, Tries
  <2>6. agent.tried' = [agent.tried EXCEPT ![i] = n + 1]
    BY <2>2, <2>3, <2>5, LearnIs
  <2>7. agent.tried'[i] = n + 1 /\ \A j \in Targets : j # i => agent.tried'[j] = agent.tried[j]
    BY <2>2, <2>5, <2>6
  <2> HIDE DEF n
  <2>8. RequestRow(req).type = "request" /\ RequestRow(req).req = req
    BY DEF RequestRow
  <2>9. /\ \A k \in 1 .. Len(log') : k \in 1 .. Len(log) \/ k = Len(log) + 1 \/ k = Len(log) + 2
        /\ \A k \in 1 .. Len(log) : k < Len(log) + 1
    BY <2>2
  <2>10. \A k \in 1 .. Len(log) : log[k].type = "request" => log[k].req.invoice \in Targets
    BY DEF Schedule, Timetable, RowsKnown, Chased
  <2>11. OnRung'
    <3>1. ASSUME NEW k \in 1 .. Len(log'), log'[k].type = "request"
          PROVE  /\ log'[k].req.id[2] \in Nat
                 /\ log'[k].req.id[2] < agent.tried'[log'[k].req.invoice]
                 /\ log'[k].req.action = Climb(log'[k].req.invoice, log'[k].req.id[2])
      <4>1. CASE k = Len(log) + 1
        BY <2>2, <2>3, <2>4, <2>7, <2>8, <4>1
      <4>2. CASE k \in 1 .. Len(log)
        <5> DEFINE j == log[k].req.invoice
                   m == log[k].req.id[2]
        <5>1. /\ log'[k] = log[k] /\ j \in Targets
              /\ m \in Nat /\ m < agent.tried[j] /\ log[k].req.action = Climb(j, m)
          BY <2>2, <2>10, <3>1, <4>2 DEF OnRung
        <5> HIDE DEF j, m
        <5>2. m < agent.tried'[j]
          <6>1. CASE j = i
            BY <2>4, <2>7, <5>1, <6>1 DEF n
          <6>2. CASE j # i
            BY <2>7, <5>1, <6>2
          <6> QED
            BY <6>1, <6>2
        <5> QED
          BY <5>1, <5>2 DEF j, m
      <4> QED
        BY <2>2, <2>3, <2>9, <3>1, <4>1, <4>2
    <3> QED
      BY <3>1 DEF OnRung
  <2>12. ASSUME NEW j \in 1 .. Len(log'), NEW k \in 1 .. Len(log'), j < k,
                log'[j].type = "request", log'[k].type = "request",
                log'[j].req.invoice = log'[k].req.invoice
         PROVE  log'[j].req.id[2] < log'[k].req.id[2]
    <3>1. j # Len(log) + 2 /\ k # Len(log) + 2
      BY <2>2, <2>3, <2>12
    <3>2. j \in 1 .. Len(log)
      BY <2>2, <2>9, <2>12, <3>1
    <3>3. CASE k = Len(log) + 1
      <4>1. /\ log[j].type = "request" /\ log[j].req.invoice = i /\ log'[j] = log[j]
            /\ log'[k].req.id[2] = n
        BY <2>2, <2>3, <2>4, <2>8, <2>12, <3>2, <3>3
      <4>2. log[j].req.id[2] < agent.tried[i]
        BY <3>2, <4>1 DEF OnRung
      <4> QED
        BY <4>1, <4>2 DEF n
    <3>4. CASE k \in 1 .. Len(log)
      BY <2>2, <2>12, <3>2, <3>4 DEF InTurn
    <3> QED
      BY <2>9, <3>1, <3>3, <3>4
  <2> QED
    BY <2>11, <2>12 DEF InTurn
<1>3. CASE Resolve
  <2>1. /\ Len(log) \in Nat /\ Len(log') = Len(log) + 1
        /\ \A k \in 1 .. Len(log) : log'[k] = log[k]
        /\ log'[Len(log) + 1].type = "outcome"
    BY <1>3, OutcomeIs DEF Schedule
  <2>2. agent' = agent
    BY <1>3 DEF Resolve
  <2>3. \A k \in 1 .. Len(log') : k \in 1 .. Len(log) \/ k = Len(log) + 1
    BY <2>1
  <2>4. \A k \in 1 .. Len(log') : log'[k].type = "request" => k \in 1 .. Len(log) /\ log'[k] = log[k]
    BY <2>1, <2>3
  <2> QED
    BY <2>2, <2>4 DEF OnRung, InTurn
<1>4. CASE Rerun
  BY <1>4, NoSeq DEF Rerun, OnRung, InTurn
<1> QED
  BY <1>1, <1>2, <1>3, <1>4 DEF Next, BeginDay, LeaveAlone, Overlook, Finish, vars

\* The rule planner's chase only ever escalates: over the days, and whatever
\* the gateway answered, each request on an invoice is a step up from the one
\* before, until it is the handover.  A language model makes no such promise.
THEOREM CampaignLadderClimbs ==
  ASSUME Planner = "rule"
  PROVE  Spec => []LadderClimbs
<1>1. Schedule /\ OnRung /\ InTurn => LadderClimbs
  <2> SUFFICES ASSUME Schedule, OnRung, InTurn,
                      NEW i \in Targets, NEW j \in Requests(i), NEW k \in Requests(i), j < k
               PROVE  \/ Height(log[j].req.action) < Height(log[k].req.action)
                      \/ /\ log[j].req.action = "escalate_to_human"
                         /\ log[k].req.action = "escalate_to_human"
    BY DEF LadderClimbs
  <2>1. /\ j \in 1 .. Len(log) /\ log[j].type = "request" /\ log[j].req.invoice = i
        /\ k \in 1 .. Len(log) /\ log[k].type = "request" /\ log[k].req.invoice = i
    BY SeqShape DEF Schedule, Timetable, Answers, Requests, RequestRows
  <2>2. /\ log[j].req.id[2] \in Nat /\ log[j].req.action = Climb(i, log[j].req.id[2])
        /\ log[k].req.id[2] \in Nat /\ log[k].req.action = Climb(i, log[k].req.id[2])
    BY <2>1 DEF OnRung
  <2>3. log[j].req.id[2] < log[k].req.id[2]
    BY <2>1 DEF InTurn
  <2> QED
    BY <2>2, <2>3, ClimbsUp
<1> QED
  BY <1>1, ScheduleInit, ScheduleStep, LadderInit, LadderStep, PTL DEF Spec

-----------------------------------------------------------------------------
(* Nobody is forgotten.                                                      *)

HandedOver(i) ==
  \E k \in 1 .. Len(log) :
    Allowed(log[k]) /\ log[k].req.invoice = i /\ log[k].req.action = "escalate_to_human"

AskedToday(i) ==
  \E k \in 1 .. Len(log) : log[k].type = "decision" /\ log[k].req.invoice = i /\ log[k].at = Now

Minded(i) ==
  \/ i \in Recovered
  \/ HandedOver(i)
  \/ Now <= Invoices[i].due
  \/ AskedToday(i)
  \/ \E k \in 1 .. Len(todo) : todo[k] = i

EveryoneMinded == day \in 1 .. Days => \A k \in 1 .. Len(order) : Minded(order[k])

\* The agent closes an invoice for a handover that was granted and no other reason.
ClosedForCause == \A i \in agent.closed : HandedOver(i)

\* What was minded stays minded while the day lasts and the log grows.
LEMMA StaysMinded ==
  ASSUME NEW i, Minded(i), Len(log) \in Nat, Len(log') \in Nat, Len(log) <= Len(log'),
         \A k \in 1 .. Len(log) : log'[k] = log[k],
         Recovered \subseteq Recovered', day' = day,
         (\E k \in 1 .. Len(todo) : todo[k] = i) => Minded(i)' \/ \E k \in 1 .. Len(todo') : todo'[k] = i
  PROVE  Minded(i)'
<1>1. \A k \in 1 .. Len(log) : k \in 1 .. Len(log')
  OBVIOUS
<1>2. Now' = Now
  BY DEF Now
<1>3. HandedOver(i) => HandedOver(i)'
  BY <1>1 DEF HandedOver, Allowed
<1>4. AskedToday(i) => AskedToday(i)'
  BY <1>1, <1>2 DEF AskedToday
<1> QED
  BY <1>2, <1>3, <1>4 DEF Minded

LEMMA MindedStart == Dataset /\ AtStart => EveryoneMinded /\ ClosedForCause
<1> SUFFICES ASSUME Dataset, AtStart
             PROVE  EveryoneMinded /\ ClosedForCause
  OBVIOUS
<1>1. ~ (day \in 1 .. Days) /\ agent.closed = {}
  BY RunsAssumption DEF AtStart, NewAgent
<1> QED
  BY <1>1 DEF EveryoneMinded, ClosedForCause

LEMMA MindedStep ==
  ASSUME Planner = "rule"
  PROVE  Schedule /\ EveryoneMinded /\ ClosedForCause /\ [Next]_vars
           => EveryoneMinded' /\ ClosedForCause'
<1> SUFFICES ASSUME Schedule, EveryoneMinded, ClosedForCause, [Next]_vars
             PROVE  EveryoneMinded' /\ ClosedForCause'
  OBVIOUS
<1>0. /\ Dataset /\ Calendar /\ Money /\ Tries /\ Waiting /\ Answers
      /\ Len(log) \in Nat
  BY SeqShape DEF Schedule, Timetable, Answers
<1>w. /\ order \in Seq(Chased) /\ Len(order) \in Nat
      /\ \A k \in 1 .. Len(order) : order[k] \in Targets
  <2>1. order \in Seq(Chased) /\ Len(order) \in Nat
    BY <1>0, OrderIs
  <2> QED
    BY <2>1, ElementOfSeq DEF Chased
<1>1. CASE UNCHANGED vars
  BY <1>1 DEF vars, EveryoneMinded, ClosedForCause, Minded, HandedOver, AskedToday, Recovered, Now
<1>2. CASE BeginDay
  <2> DEFINE paid == Spontaneous(day + 1)
  <2>0. /\ log' = log /\ agent' = agent /\ order' = order /\ day' = day + 1
        /\ Recovered' = Recovered \cup paid
        /\ todo' = Without(order, Recovered \cup paid)
    BY <1>2, MorningIs DEF BeginDay, Schedule
  <2> HIDE DEF paid
  <2>1. Kept(todo', order, Recovered', Chased, Len(order))
    BY <1>w, <2>0, WithoutKeeps
  <2>2. \A k \in 1 .. Len(order) : order[k] \in Recovered' \/ \E j \in 1 .. Len(todo') : todo'[j] = order[k]
    BY <2>1 DEF Kept
  <2>3. \A k \in 1 .. Len(order) : Minded(order[k])'
    BY <2>0, <2>2 DEF Minded
  <2>4. ClosedForCause'
    BY <2>0 DEF ClosedForCause, HandedOver
  <2> QED
    BY <2>0, <2>3, <2>4 DEF EveryoneMinded
<1>3. CASE LeaveAlone
  <2> DEFINE i == Head(todo)
  <2>0. /\ todo # <<>> /\ todo' = Tail(todo)
        /\ i \in agent.closed \/ plan(i, agent.tried[i]) = None
        /\ UNCHANGED <<truth, holdout, order, day, asked, log, books, agent, sim, scorecards>>
    BY <1>3 DEF LeaveAlone
  <2>1. /\ Len(todo) \in Nat /\ Len(todo) >= 1 /\ i = todo[1]
        /\ Len(Tail(todo)) = Len(todo) - 1
        /\ \A k \in 1 .. Len(Tail(todo)) : Tail(todo)[k] = todo[k + 1] /\ k + 1 \in 1 .. Len(todo)
    <3>1. IsSeq(todo)
      BY <1>0 DEF Waiting, IsSeq
    <3> QED
      BY <2>0, <3>1, RestOf
  <2>2. i \in Targets /\ i \notin Recovered
    <3>1. 1 \in 1 .. Len(todo)
      BY <2>1
    <3> QED
      BY <1>0, <2>1, <3>1, ElementOfSeq DEF Waiting, Chased
  <2>3. HandedOver(i) \/ Now <= Invoices[i].due
    <3>1. agent.tried[i] \in Nat
      BY <1>0, <2>2 DEF Tries
    <3>2. CASE i \in agent.closed
      BY <3>2 DEF ClosedForCause
    <3>3. CASE plan(i, agent.tried[i]) = None
      BY <1>0, <2>2, <3>1, <3>3, PlanIs
    <3> QED
      BY <2>0, <3>2, <3>3
  <2> HIDE DEF i
  <2>4. \A k \in 1 .. Len(todo) : todo[k] # i => \E j \in 1 .. Len(todo') : todo'[j] = todo[k]
    <3>1. \A k \in 1 .. Len(todo) : k # 1 => k - 1 \in 1 .. Len(Tail(todo)) /\ (k - 1) + 1 = k
      BY <2>1
    <3> QED
      BY <2>0, <2>1, <3>1
  <2>5. ASSUME NEW j, Minded(j)
        PROVE  Minded(j)'
    <3>1. HandedOver(j)' <=> HandedOver(j)
      BY <2>0 DEF HandedOver
    <3>2. (Now <= Invoices[j].due)' <=> Now <= Invoices[j].due
      BY <2>0 DEF Now
    <3>3. AskedToday(j)' <=> AskedToday(j)
      BY <2>0 DEF AskedToday, Now
    <3>4. Recovered' = Recovered
      BY <2>0 DEF Recovered
    <3> QED
      BY <2>3, <2>4, <2>5, <3>1, <3>2, <3>3, <3>4 DEF Minded
  <2>6. ClosedForCause'
    BY <2>0 DEF ClosedForCause, HandedOver
  <2> QED
    BY <2>0, <2>5, <2>6 DEF EveryoneMinded
<1>4. CASE Ask
  <2>p. PICK i : i = Head(todo)
    OBVIOUS
  <2>0. /\ todo # <<>> /\ todo' = Tail(todo)
        /\ UNCHANGED <<truth, holdout, order, day, books, sim, scorecards>>
    BY <1>4 DEF Ask
  <2>1. PICK req, row : Asks(i, req, row)
    BY <1>4, <2>p, AskIs
  <2>2. /\ Len(log') = Len(log) + 2
        /\ \A k \in 1 .. Len(log) : log'[k] = log[k]
        /\ log'[Len(log) + 2] = row
        /\ i \in Targets
    BY <1>0, <2>p, <2>0, <2>1, OneMoreAnswer DEF Recovered, Chased
  <2>3. /\ req.invoice = i /\ row.req = req /\ row.type = "decision" /\ row.at = Now
        /\ agent' = Learn(agent, row)
    BY <2>1 DEF Asks
  <2>4. /\ Len(todo) \in Nat /\ Len(todo) >= 1 /\ i = todo[1]
        /\ Len(Tail(todo)) = Len(todo) - 1
        /\ \A k \in 1 .. Len(Tail(todo)) : Tail(todo)[k] = todo[k + 1] /\ k + 1 \in 1 .. Len(todo)
    <3>1. IsSeq(todo)
      BY <1>0 DEF Waiting, IsSeq
    <3> QED
      BY <2>p, <2>0, <3>1, RestOf
  <2>5. req.action # "write_off"
    <3>1. agent.tried[i] \in Nat /\ req.action = Climb(i, agent.tried[i])
      BY <1>0, <2>1, <2>2, RuleAsks
    <3> QED
      BY <1>0, <2>2, <3>1, PlanIs
  <2>6. \A k \in 1 .. Len(todo) : todo[k] # i => \E j \in 1 .. Len(todo') : todo'[j] = todo[k]
    <3>1. \A k \in 1 .. Len(todo) : k # 1 => k - 1 \in 1 .. Len(Tail(todo)) /\ (k - 1) + 1 = k
      BY <2>4
    <3> QED
      BY <2>0, <2>4, <3>1
  <2>7. Len(log') \in Nat /\ Len(log) <= Len(log') /\ Len(log) + 2 \in 1 .. Len(log')
        /\ \A k \in 1 .. Len(log) : k \in 1 .. Len(log')
    BY <1>0, <2>2
  <2>8. AskedToday(i)'
    BY <2>0, <2>2, <2>3, <2>7 DEF AskedToday, Now
  <2>9. Minded(i)'
    BY <2>8 DEF Minded
  <2>10. ASSUME NEW j, Minded(j)
         PROVE  Minded(j)'
    <3>1. CASE j = i
      BY <2>9, <3>1
    <3>2. CASE j # i
      <4>1. (\E k \in 1 .. Len(todo) : todo[k] = j) => \E k \in 1 .. Len(todo') : todo'[k] = j
        BY <2>6, <3>2
      <4>2. Recovered \subseteq Recovered' /\ day' = day
        BY <2>0 DEF Recovered
      <4> QED
        BY <1>0, <2>2, <2>7, <2>10, <4>1, <4>2, StaysMinded
    <3> QED
      BY <3>1, <3>2
  <2>11. \A j : HandedOver(j) => HandedOver(j)'
    BY <2>2, <2>7 DEF HandedOver, Allowed
  <2>12. agent.closed' = IF Allowed(row) /\ row.req.action \in {"escalate_to_human", "write_off"}
                           THEN agent.closed \cup {i} ELSE agent.closed
    BY <1>0, <2>2, <2>3, LearnIs DEF Tries
  <2>13. Allowed(row) /\ row.req.action \in {"escalate_to_human", "write_off"} => HandedOver(i)'
    BY <2>2, <2>3, <2>5, <2>7 DEF HandedOver, Allowed
  <2>14. ClosedForCause'
    BY <2>11, <2>12, <2>13 DEF ClosedForCause
  <2> QED
    BY <2>0, <2>10, <2>14 DEF EveryoneMinded
<1>5. CASE Overlook
  BY <1>5 DEF Overlook, EveryoneMinded, ClosedForCause, Minded, HandedOver, AskedToday, Recovered, Now
<1>6. CASE Resolve
  <2>0. todo' = todo /\ day' = day /\ agent' = agent /\ order' = order
    BY <1>6 DEF Resolve
  <2>1. /\ Recovered \subseteq Recovered'
        /\ Len(log') = Len(log) + 1
        /\ \A k \in 1 .. Len(log) : k \in 1 .. Len(log') /\ log'[k] = log[k]
    BY <1>6, OutcomeIs DEF Schedule
  <2>2. Len(log') \in Nat /\ Len(log) <= Len(log')
    BY <1>0, <2>1
  <2>3. \A j : HandedOver(j) => HandedOver(j)'
    BY <2>1 DEF HandedOver, Allowed
  <2>4. ASSUME NEW j, Minded(j)
        PROVE  Minded(j)'
    BY <1>0, <2>0, <2>1, <2>2, <2>4, StaysMinded
  <2> QED
    BY <2>0, <2>3, <2>4 DEF EveryoneMinded, ClosedForCause
<1>7. CASE Finish
  <2>1. ~ (day' \in 1 .. Days)
    BY <1>7, RunsAssumption DEF Finish
  <2> QED
    BY <1>7, <2>1 DEF Finish, EveryoneMinded, ClosedForCause, HandedOver
<1>8. CASE Rerun
  <2>1. Dataset'
    BY <1>8, ScheduleStep DEF Schedule, Timetable
  <2>2. AtStart'
    <3>1. todo = <<>> /\ asked = <<>>
      BY <1>0, <1>8, RunsAssumption DEF Rerun, Calendar
    <3> QED
      BY <1>8, <3>1 DEF Rerun, AtStart, NewAgent, NewSim, Targets
  <2> QED
    BY <2>1, <2>2, MindedStart, PTL
<1> QED
  BY <1>1, <1>2, <1>3, <1>4, <1>5, <1>6, <1>7, <1>8 DEF Next

\* With the rule planner nobody drops out of the chase: after the agent's pass
\* over the book, on every day of any run, an invoice that is overdue, unpaid
\* and not granted a handover has a decision of that day in the log, be it that
\* its handover was refused the day before.
THEOREM CampaignNobodyForgotten ==
  ASSUME Planner = "rule"
  PROVE  Spec => []NobodyForgotten
<1>1. Init => EveryoneMinded /\ ClosedForCause
  <2>1. Init => Dataset /\ AtStart
    BY ScheduleInit DEF Schedule, Timetable, Init, AtStart
  <2> QED
    BY <2>1, MindedStart
<1>2. Schedule /\ EveryoneMinded => NobodyForgotten
  <2> SUFFICES ASSUME Schedule, EveryoneMinded, day \in 1 .. Days, todo = <<>>,
                      NEW k \in DOMAIN order
               PROVE  \/ order[k] \in Recovered
                      \/ \E row \in Permitted(order[k]) : log[row].req.action = "escalate_to_human"
                      \/ Now <= books[order[k]].due
                      \/ \E row \in DOMAIN log : log[row].type = "decision"
                            /\ log[row].req.invoice = order[k] /\ log[row].at = Now
    BY DEF NobodyForgotten
  <2>1. DOMAIN log = 1 .. Len(log) /\ 1 .. Len(todo) = {}
    BY SeqShape, NoSeq DEF Schedule, Timetable, Answers
  <2>2. order \in Seq(Chased) /\ k \in 1 .. Len(order)
    BY OrderIs, LenProperties DEF Schedule, Timetable
  <2>3. order[k] \in Targets
    BY <2>2, ElementOfSeq DEF Chased
  <2>4. books[order[k]].due = Invoices[order[k]].due
    BY <2>3, InvoiceIs DEF Schedule, Timetable, Money
  <2>5. Minded(order[k])
    BY <2>2 DEF EveryoneMinded
  <2> QED
    BY <2>1, <2>4, <2>5 DEF Minded, HandedOver, AskedToday, Permitted
<1> QED
  BY <1>1, <1>2, ScheduleInit, ScheduleStep, MindedStep, PTL DEF Spec

-----------------------------------------------------------------------------
(* The same again: under the rule planner a run, as replay.py makes it, is a *)
(* path of a function of where it stands, and two paths from one start that  *)
(* come to an end come to the same.                                          *)

\* Where a run stands, with the ground truth it plays against.
Moment ==
  [truth |-> truth, order |-> order, day |-> day, todo |-> todo, asked |-> asked, log |-> log,
   mem |-> mem, books |-> books, agent |-> agent, sim |-> sim]

Opening ==
  [truth |-> truth, order |-> Worked, day |-> 0, todo |-> <<>>, asked |-> <<>>, log |-> <<>>,
   mem |-> Unused, books |-> Invoices, agent |-> NewAgent, sim |-> NewSim]

\* What Campaign says of its variables, of a moment s.
Hour(s) == 24 * (s.day - 1) + 12

PlanAt(s, i) ==
  LET tries == s.agent.tried[i]
      rung  == (IF RetryableOn(i) = <<>> THEN tries ELSE Max({0, tries - 1}))
                 + (IF s.books[i].amount >= HIGH_VALUE_PAISE THEN 2 ELSE 1)
  IN  IF s.books[i].status \notin {"open", "overdue"} \/ Hour(s) <= s.books[i].due THEN None
      ELSE IF tries = 0 /\ RetryableOn(i) # <<>> THEN "retry_charge"
      ELSE IF rung > Len(CHANNEL_LADDER) THEN "escalate_to_human"
      ELSE IF CHANNEL_LADDER[rung] = "place_call" /\ s.books[i].amount < CALL_WORTH_IT_PAISE
        THEN "escalate_to_human"
      ELSE CHANNEL_LADDER[rung]

ProposalAt(s, i) ==
  [id |-> <<i, s.agent.tried[i]>>, action |-> PlanAt(s, i), customer |-> s.books[i].customer,
   invoice |-> i, payment |-> Charged(i, PlanAt(s, i)), settlement |-> None,
   amount |-> 0, claimed |-> None, instructs |-> s.books[i].memo_instructs,
   key |-> <<i, s.agent.tried[i], PlanAt(s, i)>>]

HappenedAt(s, row) == Allowed(row) /\ row.req.invoice \notin DOMAIN s.sim.recovered

LandsAt(s, req) ==
  LET facts == s.truth[req.invoice]
      pays  == facts.would_pay_anyway \/ facts.pays_if_contacted
  IN  CASE Contacts(req) ->
             /\ facts.pays_if_contacted
             /\ s.sim.delivered[req.invoice] + 1 >= facts.contacts_needed
        [] req.action = "retry_charge"      -> pays /\ facts.retry_lands
        [] req.action = "escalate_to_human" -> pays /\ facts.escalation_closes
        [] req.action = "offer_discount"    -> pays
        [] OTHER                            -> FALSE

CreditAt(s, invoices, minus, why) ==
  [i \in DOMAIN s.sim.recovered \cup invoices |->
     IF i \in invoices THEN [amount |-> s.books[i].amount - minus, why |-> why]
                       ELSE s.sim.recovered[i]]

MarkPaidAt(s, invoices) ==
  [i \in DOMAIN s.books |->
     IF i \in invoices THEN [s.books[i] EXCEPT !.status = "paid"] ELSE s.books[i]]

SettleAt(s, d) ==
  {i \in Targets :
     /\ s.books[i].status \in {"open", "overdue"}
     /\ i \notin DOMAIN s.sim.recovered
     /\ s.truth[i].would_pay_anyway
     /\ s.truth[i].settles_on = d}

ScorecardAt(s) ==
  [requests |-> Cardinality({k \in DOMAIN s.log : s.log[k].type = "request"}),
   verdicts |-> s.mem.verdict_counts, spend |-> s.mem.spend, recovered |-> s.sim.recovered]

\* The steps of a run.
AfterWork(s) ==
  LET i   == Head(s.todo)
      req == ProposalAt(s, i)
      row == Decided(s.mem, s.books, req, Hour(s))
  IN  IF i \in s.agent.closed \/ PlanAt(s, i) = None THEN [s EXCEPT !.todo = Tail(s.todo)]
      ELSE [s EXCEPT !.log = s.log \o <<RequestRow(req), row>>, !.mem = Count(s.mem, row),
                     !.agent = Learn(s.agent, row), !.asked = Append(s.asked, row),
                     !.todo = Tail(s.todo)]

AfterAnswer(s) ==
  LET req      == Head(s.asked).req
      lands    == LandsAt(s, req)
      paid     == IF lands THEN {req.invoice} ELSE {}
      credited == CreditAt(s, paid, Minus(req), "chased")
      received == IF lands THEN credited[req.invoice].amount ELSE 0
  IN  IF ~HappenedAt(s, Head(s.asked)) THEN [s EXCEPT !.asked = Tail(s.asked)]
      ELSE [s EXCEPT !.books = MarkPaidAt(s, paid),
                     !.sim = [s.sim EXCEPT !.recovered = credited,
                                           !.delivered[req.invoice] =
                                              IF Contacts(req) THEN @ + 1 ELSE @],
                     !.log = Append(s.log, Reported(req, received)),
                     !.asked = Tail(s.asked)]

AfterNight(s) ==
  LET paid == SettleAt(s, s.day + 1)
  IN  [s EXCEPT !.books = MarkPaidAt(s, paid),
                !.sim = [s.sim EXCEPT !.recovered = CreditAt(s, paid, 0, "spontaneous")],
                !.todo = Without(s.order, DOMAIN s.sim.recovered \cup paid),
                !.day = s.day + 1]

\* What the rule planner's run does next.
After(s) ==
  IF s.todo # <<>> THEN AfterWork(s)
  ELSE IF s.asked # <<>> THEN AfterAnswer(s)
  ELSE IF s.day < Days THEN AfterNight(s)
  ELSE [s EXCEPT !.day = Days + 1]

LEMMA OneProposal ==
  ASSUME Planner = "rule", NEW i
  PROVE  Proposals(i) = IF plan(i, agent.tried[i]) = None THEN {}
                        ELSE {Proposal(i, plan(i, agent.tried[i]), 0)}
<1>1. Planned(i, agent.tried[i]) = {<<plan(i, agent.tried[i]), 0>>}
  BY DEF Planned
<1> DEFINE action == plan(i, agent.tried[i])
           asking == {q \in Planned(i, agent.tried[i]) : q[1] # None}
<1>2. asking = IF action = None THEN {} ELSE {<<action, 0>>}
  BY <1>1
<1>3. Proposals(i) = {Proposal(i, p[1], p[2]) : p \in asking}
  BY DEF Proposals
<1> HIDE DEF action, asking
<1>4. Proposals(i) = IF action = None THEN {} ELSE {Proposal(i, action, 0)}
  BY <1>2, <1>3
<1> QED
  BY <1>4 DEF action

LEMMA MomentIs ==
  /\ Moment.truth = truth /\ Moment.order = order /\ Moment.day = day /\ Moment.todo = todo
  /\ Moment.asked = asked /\ Moment.log = log /\ Moment.mem = mem /\ Moment.books = books
  /\ Moment.agent = agent /\ Moment.sim = sim
BY DEF Moment

\* The operators now are those of this moment.
LEMMA ThisMoment ==
  /\ Hour(Moment) = Now
  /\ \A i : PlanAt(Moment, i) = plan(i, agent.tried[i])
  /\ \A i : ProposalAt(Moment, i) = Proposal(i, plan(i, agent.tried[i]), 0)
  /\ \A row : HappenedAt(Moment, row) <=> Happened(row)
  /\ \A req : LandsAt(Moment, req) <=> Lands(req)
  /\ \A paid, m, why : CreditAt(Moment, paid, m, why) = Credit(paid, m, why)
  /\ \A paid : MarkPaidAt(Moment, paid) = MarkPaid(paid)
  /\ \A d : SettleAt(Moment, d) = Settle(d)
  /\ ScorecardAt(Moment) = Scorecard
<1>1. /\ Moment.truth = truth /\ Moment.day = day
      /\ Moment.log = log /\ Moment.mem = mem /\ Moment.books = books
      /\ Moment.agent = agent /\ Moment.sim = sim
  BY MomentIs
<1>2. Hour(Moment) = Now
  BY <1>1 DEF Hour, Now
<1>3. ASSUME NEW i
      PROVE  PlanAt(Moment, i) = plan(i, agent.tried[i])
  BY <1>1, <1>2, Zenon DEF PlanAt, plan, Rung
<1>4. ASSUME NEW i
      PROVE  ProposalAt(Moment, i) = Proposal(i, plan(i, agent.tried[i]), 0)
  BY <1>1, <1>3, Zenon DEF ProposalAt, Proposal
<1>5. ASSUME NEW row
      PROVE  HappenedAt(Moment, row) <=> Happened(row)
  BY <1>1, Zenon DEF HappenedAt, Happened, Recovered
<1>6. ASSUME NEW req
      PROVE  LandsAt(Moment, req) <=> Lands(req)
  BY <1>1, Zenon DEF LandsAt, Lands
<1>7. ASSUME NEW paid, NEW m, NEW why
      PROVE  CreditAt(Moment, paid, m, why) = Credit(paid, m, why)
  BY <1>1, Zenon DEF CreditAt, Credit, Recovered
<1>8. ASSUME NEW paid
      PROVE  MarkPaidAt(Moment, paid) = MarkPaid(paid)
  BY <1>1, Zenon DEF MarkPaidAt, MarkPaid
<1>9. ASSUME NEW d
      PROVE  SettleAt(Moment, d) = Settle(d)
  BY <1>1, Zenon DEF SettleAt, Settle, Spontaneous, Recovered
<1>10. ScorecardAt(Moment) = Scorecard
  BY <1>1, Zenon DEF ScorecardAt, Scorecard, RequestRows
<1> QED
  BY <1>2, <1>3, <1>4, <1>5, <1>6, <1>7, <1>8, <1>9, <1>10

\* What a moment becomes when its fields do.
LEMMA MomentBecomes ==
  ASSUME NEW s, s.truth = truth', s.order = order', s.day = day', s.todo = todo',
         s.asked = asked', s.log = log', s.mem = mem', s.books = books', s.agent = agent',
         s.sim = sim',
         s = [truth |-> s.truth, order |-> s.order, day |-> s.day, todo |-> s.todo,
              asked |-> s.asked, log |-> s.log, mem |-> s.mem, books |-> s.books,
              agent |-> s.agent, sim |-> s.sim]
  PROVE  Moment' = s
BY DEF Moment

\* A step of a run is the one that its moment says, and a run that is over takes none.
LEMMA StepIsAfter ==
  ASSUME Planner = "rule", Timetable,
         BeginDay \/ LeaveAlone \/ Ask \/ Overlook \/ Resolve \/ Finish
  PROVE  day <= Days /\ Moment' = After(Moment)
<1>0. Calendar /\ day \in 0 .. Days + 1 /\ Days \in Nat
  BY RunsAssumption DEF Timetable, Calendar
<1>m. /\ Moment.truth = truth /\ Moment.order = order /\ Moment.day = day /\ Moment.todo = todo
      /\ Moment.asked = asked /\ Moment.log = log /\ Moment.mem = mem /\ Moment.books = books
      /\ Moment.agent = agent /\ Moment.sim = sim
  BY MomentIs
<1>1. CASE BeginDay
  <2>1. day <= Days /\ day < Days /\ todo = <<>> /\ asked = <<>>
    BY <1>0, <1>1 DEF BeginDay
  <2>2. After(Moment) = AfterNight(Moment)
    BY <1>m, <2>1, Zenon DEF After
  <2>3. PICK paid : paid = Settle(day + 1)
    OBVIOUS
  <2>4. /\ books' = MarkPaid(paid)
        /\ sim' = [sim EXCEPT !.recovered = Credit(paid, 0, "spontaneous")]
        /\ todo' = Without(order, DOMAIN sim.recovered \cup paid)
        /\ day' = day + 1
        /\ UNCHANGED <<truth, order, asked, log, mem, agent>>
    BY <1>1, <2>3 DEF BeginDay, Recovered
  <2>5. AfterNight(Moment) =
          [Moment EXCEPT !.books = MarkPaid(paid),
                         !.sim = [sim EXCEPT !.recovered = Credit(paid, 0, "spontaneous")],
                         !.todo = Without(order, DOMAIN sim.recovered \cup paid),
                         !.day = day + 1]
    <3>1. /\ SettleAt(Moment, day + 1) = paid
          /\ CreditAt(Moment, paid, 0, "spontaneous") = Credit(paid, 0, "spontaneous")
          /\ MarkPaidAt(Moment, paid) = MarkPaid(paid)
      BY <2>3, ThisMoment
    <3> QED
      BY <1>m, <3>1, Zenon DEF AfterNight
  <2>6. AfterNight(Moment) = Moment'
    <3>1. PICK due, now :
            /\ now = sim' /\ now = [sim EXCEPT !.recovered = Credit(paid, 0, "spontaneous")]
            /\ due = todo' /\ due = Without(order, DOMAIN sim.recovered \cup paid)
      BY <2>4
    <3>2. PICK b : b = MarkPaid(paid)
      OBVIOUS
    <3>3. PICK s : s = [Moment EXCEPT !.books = b, !.sim = now, !.todo = due, !.day = day + 1]
      OBVIOUS
    <3>4. AfterNight(Moment) = s
      BY <2>5, <3>1, <3>2, <3>3, Zenon
    <3>5. Moment' = s
      BY <2>4, <3>1, <3>2, <3>3, MomentBecomes DEF Moment
    <3> QED
      BY <3>4, <3>5
  <2> QED
    BY <2>1, <2>2, <2>6
<1>2. CASE Finish
  <2>1. day <= Days /\ ~ (day < Days) /\ todo = <<>> /\ asked = <<>>
    BY <1>0, <1>2 DEF Finish
  <2>2. After(Moment) = [Moment EXCEPT !.day = Days + 1]
    BY <1>m, <2>1, Zenon DEF After
  <2>3. Moment' = [Moment EXCEPT !.day = Days + 1]
    BY <1>2 DEF Finish, Moment
  <2> QED
    BY <2>1, <2>2, <2>3
<1>3. CASE LeaveAlone
  <2>1. day <= Days /\ todo # <<>>
    BY <1>0, <1>3 DEF LeaveAlone, Calendar
  <2>2. PICK i : i = Head(todo)
    OBVIOUS
  <2>3. i \in agent.closed \/ plan(i, agent.tried[i]) = None
    BY <1>3, <2>2 DEF LeaveAlone
  <2>4. After(Moment) = [Moment EXCEPT !.todo = Tail(todo)]
    BY <1>m, <2>1, <2>2, <2>3, ThisMoment, Zenon DEF After, AfterWork
  <2>5. Moment' = [Moment EXCEPT !.todo = Tail(todo)]
    <3>1. PICK rest : rest = Tail(todo)
      OBVIOUS
    <3>2. /\ todo' = rest
          /\ UNCHANGED <<truth, order, day, asked, log, mem, books, agent, sim>>
      BY <1>3, <3>1 DEF LeaveAlone
    <3>3. PICK s : s = [Moment EXCEPT !.todo = rest]
      OBVIOUS
    <3>4. Moment' = s
      BY <3>2, <3>3, MomentBecomes DEF Moment
    <3> QED
      BY <3>1, <3>3, <3>4, Zenon
  <2> QED
    BY <2>1, <2>4, <2>5
<1>4. CASE Ask
  <2>1. day <= Days /\ todo # <<>>
    BY <1>0, <1>4 DEF Ask, Calendar
  <2>2. PICK i : i = Head(todo)
    OBVIOUS
  <2>3. PICK req : req \in Proposals(i) /\
          LET row == Decided(mem, books, req, Now)
          IN  /\ log' = log \o <<RequestRow(req), row>>
              /\ mem' = Count(mem, row)
              /\ agent' = Learn(agent, row)
              /\ asked' = Append(asked, row)
    BY <1>4, <2>2 DEF Ask
  <2>4. /\ plan(i, agent.tried[i]) # None
        /\ req = Proposal(i, plan(i, agent.tried[i]), 0)
    BY <2>3, OneProposal
  <2>5. PICK row : row = Decided(mem, books, req, Now)
    OBVIOUS
  <2>6. i \notin agent.closed /\ todo' = Tail(todo)
        /\ UNCHANGED <<truth, order, day, books, sim>>
    BY <1>4, <2>2 DEF Ask
  <2>7. /\ PlanAt(Moment, i) # None /\ ProposalAt(Moment, i) = req /\ Hour(Moment) = Now
    BY <2>4, ThisMoment
  <2>8. After(Moment) = AfterWork(Moment)
    BY <1>m, <2>1, Zenon DEF After
  <2>9. AfterWork(Moment) =
          [Moment EXCEPT !.log = log \o <<RequestRow(req), row>>, !.mem = Count(mem, row),
                         !.agent = Learn(agent, row), !.asked = Append(asked, row),
                         !.todo = Tail(todo)]
    BY <1>m, <2>2, <2>5, <2>6, <2>7, Zenon DEF AfterWork
  <2>10. /\ log' = log \o <<RequestRow(req), row>> /\ mem' = Count(mem, row)
         /\ agent' = Learn(agent, row) /\ asked' = Append(asked, row)
    BY <2>3, <2>5
  <2>11. Moment' = AfterWork(Moment)
    <3>1. PICK rows, counts, knows, all, rest :
            /\ rows = log' /\ counts = mem' /\ knows = agent' /\ all = asked' /\ rest = todo'
            /\ rows = log \o <<RequestRow(req), row>> /\ counts = Count(mem, row)
            /\ knows = Learn(agent, row) /\ all = Append(asked, row) /\ rest = Tail(todo)
      BY <2>6, <2>10, Zenon
    <3>2. PICK s : s = [Moment EXCEPT !.log = rows, !.mem = counts, !.agent = knows,
                                      !.asked = all, !.todo = rest]
      OBVIOUS
    <3>3. AfterWork(Moment) = s
      BY <2>9, <3>1, <3>2, Zenon
    <3>4. Moment' = s
      BY <2>6, <3>1, <3>2, MomentBecomes DEF Moment
    <3> QED
      BY <3>3, <3>4
  <2> QED
    BY <2>1, <2>8, <2>11
<1>5. CASE Overlook
  <2>1. day <= Days /\ todo = <<>> /\ asked # <<>>
    BY <1>0, <1>5 DEF Overlook, Calendar
  <2>2. ~HappenedAt(Moment, Head(asked))
    BY <1>5, ThisMoment DEF Overlook
  <2>3. After(Moment) = [Moment EXCEPT !.asked = Tail(asked)]
    BY <1>m, <2>1, <2>2, Zenon DEF After, AfterAnswer
  <2>4. Moment' = [Moment EXCEPT !.asked = Tail(asked)]
    <3>1. PICK rest : rest = Tail(asked)
      OBVIOUS
    <3>2. /\ asked' = rest
          /\ UNCHANGED <<truth, order, day, todo, log, mem, books, agent, sim>>
      BY <1>5, <3>1 DEF Overlook
    <3>3. PICK s : s = [Moment EXCEPT !.asked = rest]
      OBVIOUS
    <3>4. Moment' = s
      BY <3>2, <3>3, MomentBecomes DEF Moment
    <3> QED
      BY <3>1, <3>3, <3>4, Zenon
  <2> QED
    BY <2>1, <2>3, <2>4
<1>6. CASE Resolve
  <2>1. day <= Days /\ todo = <<>> /\ asked # <<>>
    BY <1>0, <1>6 DEF Resolve, Calendar
  <2>2. HappenedAt(Moment, Head(asked))
    BY <1>6, ThisMoment DEF Resolve
  <2>3. PICK req : req = Head(asked).req
    OBVIOUS
  <2>4. PICK paid : paid = IF Lands(req) THEN {req.invoice} ELSE {}
    OBVIOUS
  <2>5. PICK credited : credited = Credit(paid, Minus(req), "chased")
    OBVIOUS
  <2>6. PICK received : received = IF Lands(req) THEN credited[req.invoice].amount ELSE 0
    OBVIOUS
  <2>7. PICK after : after = [sim EXCEPT !.recovered = credited,
                                         !.delivered[req.invoice] =
                                            IF Contacts(req) THEN @ + 1 ELSE @]
    OBVIOUS
  <2>8. /\ books' = MarkPaid(paid) /\ sim' = after
        /\ log' = Append(log, Reported(req, received))
        /\ asked' = Tail(asked)
        /\ UNCHANGED <<truth, order, day, todo, mem, agent>>
    BY <1>6, <2>3, <2>4, <2>5, <2>6, <2>7 DEF Resolve
  <2>9. After(Moment) = AfterAnswer(Moment)
    BY <1>m, <2>1, Zenon DEF After
  <2>10. AfterAnswer(Moment) =
           [Moment EXCEPT !.books = MarkPaid(paid), !.sim = after,
                          !.log = Append(log, Reported(req, received)),
                          !.asked = Tail(asked)]
    <3>1. LandsAt(Moment, req) <=> Lands(req)
      BY ThisMoment
    <3>2. /\ CreditAt(Moment, paid, Minus(req), "chased") = credited
          /\ MarkPaidAt(Moment, paid) = MarkPaid(paid)
      BY <2>5, ThisMoment
    <3>3. /\ paid = IF LandsAt(Moment, req) THEN {req.invoice} ELSE {}
          /\ received = IF LandsAt(Moment, req) THEN credited[req.invoice].amount ELSE 0
      BY <2>4, <2>6, <3>1
    <3> QED
      BY <1>m, <2>2, <2>3, <2>7, <3>2, <3>3, Zenon DEF AfterAnswer
  <2>11. Moment' = AfterAnswer(Moment)
    BY <2>8, <2>10 DEF Moment
  <2> QED
    BY <2>1, <2>9, <2>11
<1> QED
  BY <1>1, <1>2, <1>3, <1>4, <1>5, <1>6

Path(p, N, start) ==
  /\ p[0] = start
  /\ \A n \in 0 .. N - 1 : p[n].day <= Days /\ p[n + 1] = After(p[n])

Ends(s) == s.day = Days + 1

\* Two paths from one start that both end, end at the same moment.
LEMMA OneEnd ==
  ASSUME NEW p, NEW q, NEW M \in Nat, NEW N \in Nat, NEW start,
         Path(p, M, start), Path(q, N, start), Ends(p[M]), Ends(q[N])
  PROVE  p[M] = q[N]
<1>0. Days \in Nat
  BY RunsAssumption
<1>1. ASSUME NEW f, NEW g, NEW J \in Nat, NEW K \in Nat, J <= K,
             Path(f, J, start), Path(g, K, start), Ends(f[J])
      PROVE  J = K /\ f[J] = g[J]
  <2> DEFINE S == {k \in 0 .. J : f[k] = g[k]}
  <2>1. 0 \in S
    BY <1>1 DEF Path
  <2>2. ASSUME NEW k \in 0 .. J - 1, k \in S
        PROVE  k + 1 \in S
    <3>1. f[k + 1] = After(f[k]) /\ g[k + 1] = After(g[k])
      BY <1>1, <2>2 DEF Path
    <3>2. f[k + 1] = g[k + 1] /\ k + 1 \in 0 .. J
      BY <2>2, <3>1
    <3> QED
      BY <3>2
  <2> HIDE DEF S
  <2>3. 0 .. J \subseteq S
    BY <1>1, <2>1, <2>2, UpTo
  <2>4. J \in S
    BY <1>1, <2>3
  <2>5. f[J] = g[J]
    BY <2>4 DEF S
  <2>6. ~ (J < K)
    <3> SUFFICES ASSUME J < K
                 PROVE  FALSE
      OBVIOUS
    <3>1. J \in 0 .. K - 1
      BY <1>1
    <3>2. g[J].day <= Days
      BY <1>1, <3>1 DEF Path
    <3>3. g[J].day = Days + 1
      BY <1>1, <2>5 DEF Ends
    <3> QED
      BY <1>0, <3>2, <3>3
  <2> QED
    BY <1>1, <2>5, <2>6
<1>2. CASE M <= N
  BY <1>1, <1>2
<1>3. CASE N <= M
  BY <1>1, <1>3
<1> QED
  BY <1>2, <1>3

\* One step more.
LEMMA PathGoesOn ==
  ASSUME NEW N \in Nat, NEW p, NEW start, Path(p, N, start), p[N].day <= Days
  PROVE  \E q : Path(q, N + 1, start) /\ q[N + 1] = After(p[N])
<1> DEFINE q == [n \in 0 .. N + 1 |-> IF n = N + 1 THEN After(p[N]) ELSE p[n]]
<1>1. q[N + 1] = After(p[N]) /\ \A n \in 0 .. N : q[n] = p[n]
  OBVIOUS
<1> HIDE DEF q
<1>2. q[0] = start
  BY <1>1 DEF Path
<1>3. ASSUME NEW n \in 0 .. N
      PROVE  q[n].day <= Days /\ q[n + 1] = After(q[n])
  <2>1. CASE n = N
    BY <1>1, <2>1
  <2>2. CASE n \in 0 .. N - 1
    <3>1. p[n].day <= Days /\ p[n + 1] = After(p[n]) /\ n \in 0 .. N /\ n + 1 \in 0 .. N
      BY <2>2 DEF Path
    <3> QED
      BY <1>1, <3>1
  <2> QED
    BY <2>1, <2>2
<1>4. (N + 1) - 1 = N
  OBVIOUS
<1> QED
  BY <1>1, <1>2, <1>3, <1>4 DEF Path

\* Where a run under way may stand.
Reached(s, start) == \E N \in Nat : \E p : Path(p, N, start) /\ p[N] = s

LEMMA ReachedFirst ==
  ASSUME NEW start
  PROVE  Reached(start, start)
<1> DEFINE p == [n \in 0 .. 0 |-> start]
<1>1. p[0] = start /\ 0 .. 0 - 1 = {}
  OBVIOUS
<1> HIDE DEF p
<1>2. Path(p, 0, start)
  BY <1>1 DEF Path
<1> QED
  BY <1>1, <1>2 DEF Reached

LEMMA ReachedNext ==
  ASSUME NEW s, NEW start, Reached(s, start), s.day <= Days
  PROVE  Reached(After(s), start)
<1>1. PICK N \in Nat : \E p : Path(p, N, start) /\ p[N] = s
  BY DEF Reached
<1>2. PICK p : Path(p, N, start) /\ p[N] = s
  BY <1>1
<1>3. \E q : Path(q, N + 1, start) /\ q[N + 1] = After(s)
  BY <1>2, PathGoesOn
<1>4. N + 1 \in Nat
  OBVIOUS
<1> QED
  BY <1>3, <1>4 DEF Reached

LEMMA ReachedEnd ==
  ASSUME NEW s, NEW t, NEW start, Reached(s, start), Reached(t, start), Ends(s), Ends(t)
  PROVE  s = t
<1>1. PICK M \in Nat : \E p : Path(p, M, start) /\ p[M] = s
  BY DEF Reached
<1>2. PICK p : Path(p, M, start) /\ p[M] = s
  BY <1>1
<1>3. PICK N \in Nat : \E q : Path(q, N, start) /\ q[N] = t
  BY DEF Reached
<1>4. PICK q : Path(q, N, start) /\ q[N] = t
  BY <1>3
<1> QED
  BY <1>2, <1>4, OneEnd

\* The run under way is where the path leads, and what was reported is what a
\* path from the same start comes to.
Reports(card, start) == \E s : Reached(s, start) /\ Ends(s) /\ card = ScorecardAt(s)

Retold ==
  /\ Reached(Moment, Opening)
  /\ \A a \in 1 .. Len(scorecards) : Reports(scorecards[a], Opening)

LEMMA OpeningIs ==
  Harness = "replay" /\ Dataset /\ AtStart /\ mem = Unused => Moment = Opening
<1> SUFFICES ASSUME Harness = "replay", Dataset, AtStart, mem = Unused
             PROVE  Moment = Opening
  OBVIOUS
<1>1. order = Worked
  BY DEF Dataset, WorkOrders
<1> QED
  BY <1>1, Zenon DEF Moment, Opening, AtStart

LEMMA RetoldInit ==
  ASSUME Harness = "replay"
  PROVE  Init => Retold
<1> SUFFICES ASSUME Init
             PROVE  Retold
  OBVIOUS
<1>1. Dataset /\ AtStart /\ mem = Unused
  BY ScheduleInit DEF Schedule, Timetable, Init, AtStart
<1>2. Moment = Opening
  BY <1>1, OpeningIs
<1>3. PICK start : start = Opening
  OBVIOUS
<1>4. Reached(Moment, Opening)
  BY <1>2, <1>3, ReachedFirst
<1>5. 1 .. Len(scorecards) = {}
  BY NoSeq DEF Init
<1> QED
  BY <1>4, <1>5 DEF Retold

LEMMA RetoldStep ==
  ASSUME Planner = "rule", Harness = "replay"
  PROVE  Timetable /\ Retold /\ [Next]_vars => Retold'
<1> SUFFICES ASSUME Timetable, Retold, [Next]_vars
             PROVE  Retold'
  OBVIOUS
<1>0. Calendar /\ Dataset
  BY DEF Timetable
<1>1. PICK start : start = Opening
  OBVIOUS
<1>2. Opening' = start
  <2>1. truth' = truth /\ holdout' = holdout
    BY DEF Next, vars, BeginDay, LeaveAlone, Ask, Overlook, Resolve, Finish, Rerun
  <2> QED
    BY <1>1, <2>1, Zenon DEF Opening, Worked, NewAgent, NewSim, Unused, Targets
<1>3. /\ Reached(Moment, start)
      /\ \A a \in 1 .. Len(scorecards) : Reports(scorecards[a], start)
  BY <1>1 DEF Retold
<1>4. SUFFICES /\ Reached(Moment', start)
               /\ \A a \in 1 .. Len(scorecards') : Reports(scorecards'[a], start)
  BY <1>2, Zenon DEF Retold
<1>5. CASE BeginDay \/ LeaveAlone \/ Ask \/ Overlook \/ Resolve
  <2>1. scorecards' = scorecards
    BY <1>5 DEF BeginDay, LeaveAlone, Ask, Overlook, Resolve
  <2>2. day <= Days /\ Moment' = After(Moment)
    BY <1>5, StepIsAfter
  <2>3. PICK s : s = Moment
    OBVIOUS
  <2>4. s.day <= Days
    BY <2>2, <2>3, MomentIs
  <2>5. Reached(After(s), start)
    BY <1>3, <2>3, <2>4, ReachedNext
  <2> QED
    BY <1>3, <2>1, <2>2, <2>3, <2>5
<1>6. CASE Finish
  <2>1. day <= Days /\ Moment' = After(Moment)
    BY <1>6, StepIsAfter
  <2>2. PICK s : s = Moment
    OBVIOUS
  <2>3. s.day <= Days
    BY <2>1, <2>2, MomentIs
  <2>4. PICK t : t = After(s)
    OBVIOUS
  <2>5. Reached(t, start) /\ Moment' = t
    BY <1>3, <2>1, <2>2, <2>3, <2>4, ReachedNext
  <2>6. t.day = day' /\ t.log = log' /\ t.mem = mem' /\ t.sim = sim'
    BY <2>5 DEF Moment
  <2>7. Ends(t)
    BY <1>6, <2>6 DEF Finish, Ends
  <2>8. Scorecard = ScorecardAt(t)
    <3>1. t.log = log /\ t.mem = mem /\ t.sim = sim
      BY <1>6, <2>6 DEF Finish
    <3> QED
      BY <3>1, Zenon DEF Scorecard, ScorecardAt, RequestRows
  <2>9. Reports(Scorecard, start)
    BY <2>5, <2>7, <2>8 DEF Reports
  <2>10. PICK card : card = Scorecard
    OBVIOUS
  <2>11. /\ scorecards' = Append(scorecards, card)
         /\ IsSeq(scorecards)
    BY <1>0, <1>6, <2>10 DEF Finish, Calendar
  <2>12. /\ Len(scorecards') = Len(scorecards) + 1 /\ Len(scorecards) \in Nat
         /\ scorecards'[Len(scorecards) + 1] = card
         /\ \A a \in 1 .. Len(scorecards) : scorecards'[a] = scorecards[a]
    BY <2>11, OneMoreRow, SeqShape
  <2>13. ASSUME NEW a \in 1 .. Len(scorecards')
         PROVE  Reports(scorecards'[a], start)
    <3>1. CASE a = Len(scorecards) + 1
      BY <2>9, <2>10, <2>12, <3>1
    <3>2. CASE a \in 1 .. Len(scorecards)
      BY <1>3, <2>12, <3>2
    <3> QED
      BY <2>12, <2>13, <3>1, <3>2
  <2> QED
    BY <2>5, <2>13
<1>7. CASE Rerun
  <2>1. (Harness = "replay")' /\ Dataset' /\ AtStart' /\ (mem = Unused)'
    <3>1. Dataset'
      BY <1>7, TimetableStep DEF Timetable
    <3>2. todo = <<>> /\ asked = <<>>
      BY <1>0, <1>7, RunsAssumption DEF Rerun, Calendar
    <3> QED
      BY <1>7, <3>1, <3>2 DEF Rerun, AtStart, NewAgent, NewSim, Unused, Targets
  <2>2. (Moment = Opening)'
    BY <2>1, OpeningIs, PTL
  <2>3. Reached(Moment', start)
    BY <1>2, <2>2, ReachedFirst
  <2> QED
    BY <1>3, <1>7, <2>3 DEF Rerun
<1>8. CASE UNCHANGED vars
  <2>1. Moment' = Moment /\ scorecards' = scorecards
    BY <1>8 DEF Moment, vars
  <2> QED
    BY <1>3, <2>1
<1> QED
  BY <1>5, <1>6, <1>7, <1>8 DEF Next

\* With the rule planner the command is reproducible, as replay.py works the
\* dataset in its own order: however often it is run on one dataset, whatever
\* the ground truth, the holdout, the rules and the days, the runs report the
\* same requests, verdicts, spend and recovered money.
THEOREM CampaignReproducible ==
  ASSUME Planner = "rule", Harness = "replay"
  PROVE  Spec => []Reproducible
<1>1. Timetable /\ Retold => Reproducible
  <2> SUFFICES ASSUME Timetable, Retold, NEW a \in DOMAIN scorecards,
                      NEW b \in DOMAIN scorecards
               PROVE  scorecards[a] = scorecards[b]
    BY DEF Reproducible
  <2>1. DOMAIN scorecards = 1 .. Len(scorecards)
    BY SeqShape DEF Timetable, Calendar
  <2>2. Reports(scorecards[a], Opening) /\ Reports(scorecards[b], Opening)
    BY <2>1 DEF Retold
  <2>3. PICK s : Reached(s, Opening) /\ Ends(s) /\ scorecards[a] = ScorecardAt(s)
    BY <2>2 DEF Reports
  <2>4. PICK t : Reached(t, Opening) /\ Ends(t) /\ scorecards[b] = ScorecardAt(t)
    BY <2>2 DEF Reports
  <2>5. s = t
    BY <2>3, <2>4, ReachedEnd
  <2> QED
    BY <2>3, <2>4, <2>5
<1> QED
  BY <1>1, RetoldInit, RetoldStep, ScheduleInit, ScheduleStep, PTL DEF Spec, Schedule

-----------------------------------------------------------------------------
(* The caps: what the gateway's counters know of the chase is what the log   *)
(* says of it, so the rules that read them bound it.                         *)

CounterNames ==
  {"contacts", "attempts", "spent", "refunded", "used_keys", "approved", "pending",
   "verdict_counts", "spend"}

\* Whom the chase may reach.
Clientele == {Invoices[i].customer : i \in Targets}

\* Of the rows of a log: the attempts on an invoice, the contacts with a
\* customer since an hour, and those of the window that ends at an hour.
AttemptsIn(rows, i) ==
  {k \in 1 .. Len(rows) :
     Allowed(rows[k]) /\ rows[k].req.action \in ATTEMPT_ACTIONS /\ rows[k].req.invoice = i}

ContactsIn(rows, c) ==
  {k \in 1 .. Len(rows) : Allowed(rows[k]) /\ Contacts(rows[k].req) /\ rows[k].req.customer = c}

SinceIn(rows, c, from) == {k \in ContactsIn(rows, c) : rows[k].at >= from}

WindowIn(rows, c, at) == {k \in ContactsIn(rows, c) : rows[k].at \in at - CONTACT_WINDOW .. at}

\* What contacts_in_window counts, of any sequence of hours.
Lately(hours, from) == {n \in DOMAIN hours : hours[n] >= from}

\* The counters m know the log, and the log is within the limits.
AttemptsKnown(m, rows) ==
  /\ m.attempts \in [DOMAIN Invoices -> Nat]
  /\ \A i \in DOMAIN Invoices :
       /\ m.attempts[i] = Cardinality(AttemptsIn(rows, i))
       /\ Cardinality(AttemptsIn(rows, i)) <= MAX_RECOVERY_ATTEMPTS

ContactsKnown(m, rows) ==
  /\ m.contacts \in [Clientele -> Seq(Int)]
  /\ \A c : \A k \in ContactsIn(rows, c) : c \in Clientele /\ rows[k].at \in Int
  /\ \A c \in Clientele : \A from \in Int :
       Cardinality(Lately(m.contacts[c], from)) = Cardinality(SinceIn(rows, c, from))
  /\ \A c \in Clientele : \A at \in Int :
       Cardinality(WindowIn(rows, c, at)) <= MAX_CONTACTS_PER_24H

InLimits(m, rows) ==
  /\ IsSeq(rows)
  /\ DOMAIN m = CounterNames
  /\ AttemptsKnown(m, rows)
  /\ ContactsKnown(m, rows)

\* What a decision does to these counters.
LEMMA CountChase ==
  ASSUME NEW m, DOMAIN m = CounterNames, NEW row, row.type = "decision"
  PROVE  /\ DOMAIN Count(m, row) = CounterNames
         /\ Count(m, row).attempts =
              IF Allowed(row) /\ row.req.action \in ATTEMPT_ACTIONS
                THEN AddAt(m.attempts, row.req.invoice, 1) ELSE m.attempts
         /\ Count(m, row).contacts =
              IF Allowed(row) THEN Contacted(m.contacts, row) ELSE m.contacts
BY DEF Count, TrackPending, ApplyAllowed, CounterNames, Allowed

LEMMA LatelyGrows ==
  ASSUME NEW hours \in Seq(Int), NEW at \in Int, NEW from \in Int
  PROVE  Cardinality(Lately(Append(hours, at), from)) =
           Cardinality(Lately(hours, from)) + (IF at >= from THEN 1 ELSE 0)
<1> DEFINE more == Append(hours, at)
           last == Len(hours) + 1
<1>1. /\ Len(hours) \in Nat /\ DOMAIN hours = 1 .. Len(hours)
      /\ DOMAIN more = 1 .. last /\ more[last] = at
      /\ \A n \in 1 .. Len(hours) : more[n] = hours[n]
  BY AppendProperties, LenProperties
<1> HIDE DEF more
<1>2. last \notin Lately(hours, from) /\ last \in 1 .. last
      /\ \A n : n \in 1 .. last <=> n \in 1 .. Len(hours) \/ n = last
  BY <1>1 DEF Lately
<1> HIDE DEF last
<1>3. IsFiniteSet(Lately(hours, from)) /\ Cardinality(Lately(hours, from)) \in Nat
  <2>1. IsFiniteSet(1 .. Len(hours)) /\ Lately(hours, from) \subseteq 1 .. Len(hours)
    BY <1>1, FS_Interval DEF Lately
  <2> QED
    BY <2>1, FS_Subset, FS_CardinalityType
<1>4. CASE at >= from
  <2>1. Lately(more, from) = Lately(hours, from) \cup {last}
    BY <1>1, <1>2, <1>4 DEF Lately
  <2>2. Cardinality(Lately(hours, from) \cup {last}) = Cardinality(Lately(hours, from)) + 1
    BY <1>2, <1>3, FS_AddElement
  <2> QED
    BY <1>4, <2>1, <2>2 DEF more
<1>5. CASE ~ (at >= from)
  <2>1. Lately(more, from) = Lately(hours, from)
    BY <1>1, <1>2, <1>5 DEF Lately
  <2> QED
    BY <1>3, <1>5, <2>1 DEF more
<1> QED
  BY <1>4, <1>5

LEMMA RowsFinite ==
  ASSUME NEW rows, IsSeq(rows), NEW S, S \subseteq 1 .. Len(rows)
  PROVE  IsFiniteSet(S) /\ Cardinality(S) \in Nat /\ Len(rows) + 2 \notin S
<1>1. Len(rows) \in Nat
  BY SeqShape
<1>2. IsFiniteSet(1 .. Len(rows)) /\ Len(rows) + 2 \notin 1 .. Len(rows)
  BY <1>1, FS_Interval
<1> QED
  BY <1>2, FS_Subset, FS_CardinalityType

\* What an allow says of the counters it was judged on.
LEMMA AllowedWithin ==
  ASSUME NEW m, NEW b, NEW req, NEW at, Allowed(Decided(m, b, req, at))
  PROVE  /\ Contacts(req) /\ req.customer \in DOMAIN m.contacts =>
              ~ (Cardinality(Lately(m.contacts[req.customer], at - CONTACT_WINDOW))
                   >= MAX_CONTACTS_PER_24H)
         /\ req.action \in ATTEMPT_ACTIONS =>
              (req.invoice \in DOMAIN m.attempts /\ req.invoice \in DOMAIN b /\ b[req.invoice] # None
                 => ~ (m.attempts[req.invoice] >= MAX_RECOVERY_ATTEMPTS))
<1> DEFINE ctx == build_context(m, b, req, at)
<1>1. Judgement(req, ctx) = "allow"
  BY DEF Allowed, Decided, DecisionRow
<1>2. /\ ctx.invoice = Lookup(b, req.invoice)
      /\ ctx.contacts_last_24h = contacts_in_window(m, req.customer, at)
      /\ ctx.attempts_on_invoice = Tally(m.attempts, req.invoice)
  BY DEF build_context
<1> HIDE DEF ctx
<1>3. /\ r02_contact_frequency(req, ctx) # "deny"
      /\ r07_attempt_limit(req, ctx) # "needs_human"
  BY <1>1, AllowMeansNobodyObjects
<1>4. Contacts(req) /\ req.customer \in DOMAIN m.contacts =>
        ~ (Cardinality(Lately(m.contacts[req.customer], at - CONTACT_WINDOW))
             >= MAX_CONTACTS_PER_24H)
  <2>1. req.customer \in DOMAIN m.contacts =>
          contacts_in_window(m, req.customer, at) =
            Cardinality(Lately(m.contacts[req.customer], at - CONTACT_WINDOW))
    BY DEF contacts_in_window, Lately
  <2> QED
    BY <1>2, <1>3, <2>1 DEF r02_contact_frequency
<1>5. ASSUME req.action \in ATTEMPT_ACTIONS, req.invoice \in DOMAIN m.attempts,
             req.invoice \in DOMAIN b, b[req.invoice] # None
      PROVE  ~ (m.attempts[req.invoice] >= MAX_RECOVERY_ATTEMPTS)
  <2>1. ctx.invoice # None /\ ctx.attempts_on_invoice = m.attempts[req.invoice]
    BY <1>2, <1>5 DEF Lookup, Tally
  <2>2. ~ (req.action \in {"escalate_to_human", "write_off"})
    BY <1>5 DEF ATTEMPT_ACTIONS, CONTACT_ACTIONS
  <2> QED
    BY <1>3, <2>1, <2>2, Zenon DEF r07_attempt_limit
<1> QED
  BY <1>4, <1>5

\* A request and its decision, behind a log that is within the limits.
LEMMA WithinStep ==
  ASSUME NEW m, NEW rows, InLimits(m, rows), NEW b, NEW req, NEW at \in Int,
         Contacts(req) => req.customer \in Clientele,
         req.action \in ATTEMPT_ACTIONS =>
           req.invoice \in DOMAIN b \cap DOMAIN Invoices /\ b[req.invoice] # None,
         NEW row, row = Decided(m, b, req, at),
         NEW more, more = rows \o <<RequestRow(req), row>>
  PROVE  InLimits(Count(m, row), more)
<1>1. /\ row.type = "decision" /\ row.req = req /\ row.at = at
  BY DecisionIs
<1>2. /\ IsSeq(rows) /\ Len(rows) \in Nat /\ IsSeq(more) /\ Len(more) = Len(rows) + 2
      /\ \A k \in 1 .. Len(rows) : more[k] = rows[k]
      /\ more[Len(rows) + 1] = RequestRow(req) /\ more[Len(rows) + 2] = row
  <2>1. IsSeq(rows)
    BY DEF InLimits
  <2>2. PICK a : a = RequestRow(req)
    OBVIOUS
  <2> DEFINE t == rows \o <<a, row>>
  <2>3. more = t
    BY <2>2
  <2>4. /\ IsSeq(t) /\ Len(t) = Len(rows) + 2
        /\ \A k \in 1 .. Len(rows) : t[k] = rows[k]
        /\ t[Len(rows) + 1] = a /\ t[Len(rows) + 2] = row
    BY <2>1, TwoMoreRows
  <2>5. Len(rows) \in Nat
    BY <2>1, SeqShape
  <2> HIDE DEF t
  <2> QED
    BY <2>1, <2>2, <2>3, <2>4, <2>5
<1>3. \A k : k \in 1 .. Len(more) <=>
               k \in 1 .. Len(rows) \/ k = Len(rows) + 1 \/ k = Len(rows) + 2
  BY <1>2
<1>4. ~Allowed(RequestRow(req))
  BY DEF Allowed, RequestRow
<1> DEFINE last == Len(rows) + 2
           after == Count(m, row)
           attempt == Allowed(row) /\ req.action \in ATTEMPT_ACTIONS
           contact == Allowed(row) /\ Contacts(req)
<1>5. /\ DOMAIN after = CounterNames
      /\ after.attempts = IF attempt THEN AddAt(m.attempts, req.invoice, 1) ELSE m.attempts
      /\ after.contacts = IF Allowed(row) THEN Contacted(m.contacts, row) ELSE m.contacts
  BY <1>1, CountChase DEF InLimits
<1> HIDE DEF after
<1>6. \A i : \A k : k \in AttemptsIn(more, i) <=>
               k \in AttemptsIn(rows, i) \/ (attempt /\ req.invoice = i /\ k = last)
  BY <1>1, <1>2, <1>3, <1>4 DEF AttemptsIn
<1>7. \A c : \A k : k \in ContactsIn(more, c) <=>
               k \in ContactsIn(rows, c) \/ (contact /\ req.customer = c /\ k = last)
  BY <1>1, <1>2, <1>3, <1>4 DEF ContactsIn
<1> HIDE DEF attempt, contact, last
<1>8. AttemptsKnown(after, more)
  <2>1. AttemptsKnown(m, rows)
    BY DEF InLimits
  <2>2. attempt => req.invoice \in DOMAIN Invoices /\ ~ (m.attempts[req.invoice] >= MAX_RECOVERY_ATTEMPTS)
    BY <2>1, AllowedWithin DEF AttemptsKnown, attempt
  <2>3. after.attempts \in [DOMAIN Invoices -> Nat]
        /\ \A i \in DOMAIN Invoices :
             after.attempts[i] = m.attempts[i] + (IF attempt /\ req.invoice = i THEN 1 ELSE 0)
    <3>1. CASE attempt
      BY <1>5, <2>1, <2>2, <3>1 DEF AttemptsKnown, AddAt
    <3>2. CASE ~attempt
      BY <1>5, <2>1, <3>2 DEF AttemptsKnown
    <3> QED
      BY <3>1, <3>2
  <2>4. ASSUME NEW i \in DOMAIN Invoices
        PROVE  /\ after.attempts[i] = Cardinality(AttemptsIn(more, i))
               /\ Cardinality(AttemptsIn(more, i)) <= MAX_RECOVERY_ATTEMPTS
    <3>1. /\ IsFiniteSet(AttemptsIn(rows, i)) /\ Cardinality(AttemptsIn(rows, i)) \in Nat
          /\ last \notin AttemptsIn(rows, i)
      BY <1>2, RowsFinite DEF AttemptsIn, last
    <3>2. CASE attempt /\ req.invoice = i
      <4>1. AttemptsIn(more, i) = AttemptsIn(rows, i) \cup {last}
        BY <1>6, <3>2
      <4>2. Cardinality(AttemptsIn(more, i)) = Cardinality(AttemptsIn(rows, i)) + 1
        BY <3>1, <4>1, FS_AddElement
      <4>3. after.attempts[i] = m.attempts[i] + 1 /\ ~ (m.attempts[i] >= MAX_RECOVERY_ATTEMPTS)
        BY <2>2, <2>3, <3>2
      <4> QED
        BY <2>1, <3>1, <4>2, <4>3, ThresholdsAssumption DEF AttemptsKnown
    <3>3. CASE ~ (attempt /\ req.invoice = i)
      <4>1. AttemptsIn(more, i) = AttemptsIn(rows, i)
        <5>1. \A k : k \in AttemptsIn(more, i) <=> k \in AttemptsIn(rows, i)
          BY <1>6, <3>3
        <5> QED
          BY <5>1, Zenon
      <4>2. after.attempts[i] = m.attempts[i]
        <5>1. m.attempts[i] \in Nat /\ after.attempts[i] = m.attempts[i] + 0
          BY <2>1, <2>3, <3>3 DEF AttemptsKnown
        <5> QED
          BY <5>1
      <4> QED
        BY <2>1, <4>1, <4>2 DEF AttemptsKnown
    <3> QED
      BY <3>2, <3>3
  <2> QED
    BY <2>3, <2>4 DEF AttemptsKnown
<1>9. ContactsKnown(after, more)
  <2>1. ContactsKnown(m, rows)
    BY DEF InLimits
  <2>2. contact => /\ req.customer \in Clientele
                   /\ ~ (Cardinality(Lately(m.contacts[req.customer], at - CONTACT_WINDOW))
                           >= MAX_CONTACTS_PER_24H)
    BY <2>1, AllowedWithin DEF ContactsKnown, contact
  <2>3. after.contacts = IF contact THEN [m.contacts EXCEPT ![req.customer] =
                                            Append(m.contacts[req.customer], at)]
                                    ELSE m.contacts
    BY <1>1, <1>5, Zenon DEF Contacted, contact
  <2>4. ASSUME NEW c \in Clientele
        PROVE  after.contacts[c] = IF contact /\ req.customer = c THEN Append(m.contacts[c], at)
                                                                 ELSE m.contacts[c]
    BY <2>1, <2>2, <2>3 DEF ContactsKnown
  <2>5. after.contacts \in [Clientele -> Seq(Int)]
    <3>1. contact => Append(m.contacts[req.customer], at) \in Seq(Int)
      BY <2>1, <2>2, AppendProperties DEF ContactsKnown
    <3> QED
      BY <2>1, <2>2, <2>3, <3>1 DEF ContactsKnown
  <2>6. \A c : \A k \in ContactsIn(rows, c) : k \in 1 .. Len(rows) /\ more[k] = rows[k]
    BY <1>2 DEF ContactsIn
  <2>7. ASSUME NEW c, NEW k \in ContactsIn(more, c)
        PROVE  c \in Clientele /\ more[k].at \in Int
    <3>1. k \in ContactsIn(rows, c) \/ (contact /\ req.customer = c /\ k = last)
      BY <1>7
    <3>2. k \in ContactsIn(rows, c) => c \in Clientele /\ more[k].at \in Int
      BY <2>1, <2>6, Zenon DEF ContactsKnown
    <3>3. contact /\ req.customer = c /\ k = last => c \in Clientele /\ more[k].at \in Int
      BY <1>1, <1>2, <2>2 DEF last
    <3> QED
      BY <3>1, <3>2, <3>3
  <2>8. \A c, from : \A k : k \in SinceIn(more, c, from) <=>
          \/ k \in SinceIn(rows, c, from)
          \/ contact /\ req.customer = c /\ at >= from /\ k = last
    <3>1. more[last].at = at
      BY <1>1, <1>2 DEF last
    <3>2. ASSUME NEW c, NEW from, NEW k \in ContactsIn(rows, c)
          PROVE  more[k].at >= from <=> rows[k].at >= from
      BY <2>6
    <3>3. ASSUME NEW c, NEW from, NEW k
          PROVE  /\ k \in SinceIn(more, c, from) <=> k \in ContactsIn(more, c) /\ more[k].at >= from
                 /\ k \in SinceIn(rows, c, from) <=> k \in ContactsIn(rows, c) /\ rows[k].at >= from
      BY Zenon DEF SinceIn
    <3>4. ASSUME NEW from, NEW k, k = last
          PROVE  more[k].at >= from <=> at >= from
      BY <3>1, <3>4
    <3> QED
      BY <1>7, <3>2, <3>3, <3>4, Zenon
  <2>9. \A c, to : \A k : k \in WindowIn(more, c, to) <=>
          \/ k \in WindowIn(rows, c, to)
          \/ contact /\ req.customer = c /\ at \in to - CONTACT_WINDOW .. to /\ k = last
    <3>1. more[last].at = at
      BY <1>1, <1>2 DEF last
    <3>2. ASSUME NEW c, NEW to, NEW k \in ContactsIn(rows, c)
          PROVE  more[k].at \in to - CONTACT_WINDOW .. to <=>
                   rows[k].at \in to - CONTACT_WINDOW .. to
      BY <2>6
    <3>3. ASSUME NEW to, NEW k, k = last
          PROVE  more[k].at \in to - CONTACT_WINDOW .. to <=> at \in to - CONTACT_WINDOW .. to
      BY <3>1, <3>3
    <3>4. ASSUME NEW c, NEW to, NEW k
          PROVE  /\ k \in WindowIn(more, c, to) <=>
                      k \in ContactsIn(more, c) /\ more[k].at \in to - CONTACT_WINDOW .. to
                 /\ k \in WindowIn(rows, c, to) <=>
                      k \in ContactsIn(rows, c) /\ rows[k].at \in to - CONTACT_WINDOW .. to
      BY Zenon DEF WindowIn
    <3> QED
      BY <1>7, <3>2, <3>3, <3>4, Zenon
  <2>10. ASSUME NEW c
         PROVE  /\ \A from : /\ IsFiniteSet(SinceIn(rows, c, from))
                             /\ Cardinality(SinceIn(rows, c, from)) \in Nat
                             /\ last \notin SinceIn(rows, c, from)
                /\ \A to : /\ IsFiniteSet(WindowIn(rows, c, to))
                           /\ Cardinality(WindowIn(rows, c, to)) \in Nat
                           /\ last \notin WindowIn(rows, c, to)
    <3>1. /\ \A from : SinceIn(rows, c, from) \subseteq 1 .. Len(rows)
          /\ \A to : WindowIn(rows, c, to) \subseteq 1 .. Len(rows)
      BY DEF SinceIn, WindowIn, ContactsIn
    <3> QED
      BY <1>2, <3>1, RowsFinite DEF last
  <2>11. ASSUME NEW c \in Clientele, NEW from \in Int
         PROVE  Cardinality(Lately(after.contacts[c], from)) = Cardinality(SinceIn(more, c, from))
    <3>1. /\ m.contacts[c] \in Seq(Int)
          /\ Cardinality(Lately(m.contacts[c], from)) = Cardinality(SinceIn(rows, c, from))
      BY <2>1 DEF ContactsKnown
    <3>2. CASE contact /\ req.customer = c
      <4>1. Cardinality(Lately(after.contacts[c], from)) =
              Cardinality(SinceIn(rows, c, from)) + (IF at >= from THEN 1 ELSE 0)
        BY <2>4, <3>1, <3>2, LatelyGrows
      <4>2. Cardinality(SinceIn(more, c, from)) =
              Cardinality(SinceIn(rows, c, from)) + (IF at >= from THEN 1 ELSE 0)
        <5>1. CASE at >= from
          <6>1. SinceIn(more, c, from) = SinceIn(rows, c, from) \cup {last}
            BY <2>8, <3>2, <5>1
          <6>2. /\ IsFiniteSet(SinceIn(rows, c, from)) /\ last \notin SinceIn(rows, c, from)
                /\ Cardinality(SinceIn(rows, c, from)) \in Nat
            BY <2>10
          <6>3. Cardinality(SinceIn(more, c, from)) = Cardinality(SinceIn(rows, c, from)) + 1
            BY <6>1, <6>2, FS_AddElement
          <6> QED
            BY <5>1, <6>3
        <5>2. CASE ~ (at >= from)
          <6>1. SinceIn(more, c, from) = SinceIn(rows, c, from)
            <7>1. \A k : k \in SinceIn(more, c, from) <=> k \in SinceIn(rows, c, from)
              BY <2>8, <5>2
            <7> QED
              BY <7>1, Zenon
          <6>2. Cardinality(SinceIn(rows, c, from)) \in Nat
            BY <2>10
          <6>3. (IF at >= from THEN 1 ELSE 0) = 0
            BY <5>2
          <6> QED
            BY <6>1, <6>2, <6>3
        <5> QED
          BY <5>1, <5>2
      <4> QED
        BY <4>1, <4>2
    <3>3. CASE ~ (contact /\ req.customer = c)
      <4>1. SinceIn(more, c, from) = SinceIn(rows, c, from)
        <5>1. \A k : k \in SinceIn(more, c, from) <=> k \in SinceIn(rows, c, from)
          BY <2>8, <3>3
        <5> QED
          BY <5>1, Zenon
      <4> QED
        BY <2>4, <3>1, <3>3, <4>1
    <3> QED
      BY <3>2, <3>3
  <2>12. ASSUME NEW c \in Clientele, NEW to \in Int
         PROVE  Cardinality(WindowIn(more, c, to)) <= MAX_CONTACTS_PER_24H
    <3>1. Cardinality(WindowIn(rows, c, to)) <= MAX_CONTACTS_PER_24H
      BY <2>1 DEF ContactsKnown
    <3>2. CASE contact /\ req.customer = c /\ at \in to - CONTACT_WINDOW .. to
      <4>1. WindowIn(more, c, to) = WindowIn(rows, c, to) \cup {last}
        BY <2>9, <3>2
      <4>2. Cardinality(WindowIn(more, c, to)) = Cardinality(WindowIn(rows, c, to)) + 1
        BY <2>10, <4>1, FS_AddElement
      <4>3. at - CONTACT_WINDOW \in Int /\ at <= to /\ CONTACT_WINDOW \in Nat
        BY <3>2 DEF CONTACT_WINDOW
      <4>4. WindowIn(rows, c, to) \subseteq SinceIn(rows, c, at - CONTACT_WINDOW)
        <5>1. ASSUME NEW k \in WindowIn(rows, c, to)
              PROVE  k \in SinceIn(rows, c, at - CONTACT_WINDOW)
          <6>1. k \in ContactsIn(rows, c) /\ rows[k].at \in to - CONTACT_WINDOW .. to
            BY DEF WindowIn
          <6>2. rows[k].at >= at - CONTACT_WINDOW
            BY <4>3, <6>1
          <6> QED
            BY <6>1, <6>2 DEF SinceIn
        <5> QED
          BY <5>1
      <4>5. Cardinality(WindowIn(rows, c, to)) <= Cardinality(SinceIn(rows, c, at - CONTACT_WINDOW))
        BY <2>10, <4>4, FS_Subset
      <4>6. Cardinality(SinceIn(rows, c, at - CONTACT_WINDOW)) =
              Cardinality(Lately(m.contacts[c], at - CONTACT_WINDOW))
        BY <2>1, <4>3 DEF ContactsKnown
      <4>7. ~ (Cardinality(SinceIn(rows, c, at - CONTACT_WINDOW)) >= MAX_CONTACTS_PER_24H)
        BY <2>2, <3>2, <4>6
      <4> QED
        BY <2>10, <4>2, <4>5, <4>7, ThresholdsAssumption
    <3>3. CASE ~ (contact /\ req.customer = c /\ at \in to - CONTACT_WINDOW .. to)
      <4>1. WindowIn(more, c, to) = WindowIn(rows, c, to)
        <5>1. \A k : k \in WindowIn(more, c, to) <=> k \in WindowIn(rows, c, to)
          BY <2>9, <3>3
        <5> QED
          BY <5>1, Zenon
      <4> QED
        BY <3>1, <4>1
    <3> QED
      BY <3>2, <3>3
  <2> QED
    BY <2>5, <2>7, <2>11, <2>12 DEF ContactsKnown
<1> QED
  BY <1>2, <1>5, <1>8, <1>9 DEF InLimits, after

\* A row that is no allowed attempt and no allowed contact.
Unmoved(row) == ~Allowed(row) \/ (~Contacts(row.req) /\ row.req.action \notin ATTEMPT_ACTIONS)

\* Such rows, and counters left as they were.
LEMMA WithinQuiet ==
  ASSUME NEW m, NEW rows, InLimits(m, rows), NEW n, DOMAIN n = CounterNames,
         n.attempts = m.attempts, n.contacts = m.contacts,
         NEW more, IsSeq(more), Len(more) >= Len(rows),
         \A k \in 1 .. Len(rows) : more[k] = rows[k],
         \A k \in 1 .. Len(more) : k \notin 1 .. Len(rows) => Unmoved(more[k])
  PROVE  InLimits(n, more)
<1>1. Len(rows) \in Nat /\ Len(more) \in Nat
  BY SeqShape DEF InLimits
<1>2. \A k \in 1 .. Len(rows) : k \in 1 .. Len(more)
  BY <1>1
<1>3. \A i : AttemptsIn(more, i) = AttemptsIn(rows, i)
  BY <1>2 DEF AttemptsIn, Unmoved
<1>4. \A c : ContactsIn(more, c) = ContactsIn(rows, c)
  BY <1>2 DEF ContactsIn, Unmoved
<1>5. \A c : \A k \in ContactsIn(rows, c) : more[k] = rows[k]
  BY DEF ContactsIn
<1>6. /\ \A c, from : SinceIn(more, c, from) = SinceIn(rows, c, from)
      /\ \A c, at : WindowIn(more, c, at) = WindowIn(rows, c, at)
  BY <1>4, <1>5 DEF SinceIn, WindowIn
<1>7. AttemptsKnown(n, more)
  BY <1>3 DEF InLimits, AttemptsKnown
<1>8. ContactsKnown(n, more)
  BY <1>4, <1>5, <1>6 DEF InLimits, ContactsKnown
<1> QED
  BY <1>7, <1>8 DEF InLimits

LEMMA WithinStart == InLimits(Unused, <<>>)
<1>1. /\ \A i : AttemptsIn(<<>>, i) = {}
      /\ \A c : ContactsIn(<<>>, c) = {}
      /\ \A c, from : SinceIn(<<>>, c, from) = {}
      /\ \A c, at : WindowIn(<<>>, c, at) = {}
  BY NoSeq DEF AttemptsIn, ContactsIn, SinceIn, WindowIn
<1>2. \A from : Lately(<<>>, from) = {}
  BY NoSeq DEF Lately
<1>3. /\ DOMAIN Unused = CounterNames
      /\ Unused.attempts = [i \in DOMAIN Invoices |-> 0]
      /\ Unused.contacts = [c \in Clientele |-> <<>>]
  BY DEF Unused, NoCounts, CounterNames, Clientele
<1>4. Cardinality({}) = 0
  BY FS_EmptySet
<1>5. /\ \A i : Cardinality(AttemptsIn(<<>>, i)) = 0
      /\ \A c, from : Cardinality(SinceIn(<<>>, c, from)) = 0
      /\ \A c, at : Cardinality(WindowIn(<<>>, c, at)) = 0
      /\ \A from : Cardinality(Lately(<<>>, from)) = 0
      /\ \A c : ~ \E k : k \in ContactsIn(<<>>, c)
  BY <1>1, <1>2, <1>4, Zenon
<1>6. 0 <= MAX_RECOVERY_ATTEMPTS /\ 0 <= MAX_CONTACTS_PER_24H
  BY ThresholdsAssumption
<1>7. AttemptsKnown(Unused, <<>>)
  <2>1. Unused.attempts \in [DOMAIN Invoices -> Nat]
        /\ \A i \in DOMAIN Invoices : Unused.attempts[i] = 0
    BY <1>3
  <2> QED
    BY <1>5, <1>6, <2>1, Zenon DEF AttemptsKnown
<1>8. ContactsKnown(Unused, <<>>)
  <2>1. Unused.contacts \in [Clientele -> Seq(Int)]
        /\ \A c \in Clientele : Unused.contacts[c] = <<>>
    BY <1>3, EmptySeq
  <2> QED
    BY <1>5, <1>6, <2>1, Zenon DEF ContactsKnown
<1> QED
  BY <1>3, <1>7, <1>8, NoSeq DEF InLimits

LimitsKept == InLimits(mem, log)

\* What the limits say of the log.
LEMMA LimitsMeanNobodyHounded == LimitsKept => NobodyHounded
<1> SUFFICES ASSUME LimitsKept PROVE NobodyHounded
  OBVIOUS
<1>1. /\ AttemptsKnown(mem, log) /\ ContactsKnown(mem, log)
      /\ DOMAIN log = 1 .. Len(log)
  BY SeqShape DEF LimitsKept, InLimits
<1>2. ASSUME NEW i \in Targets
      PROVE  Cardinality(Chases(i)) <= MAX_RECOVERY_ATTEMPTS
  <2>1. Chases(i) = AttemptsIn(log, i)
    BY <1>1 DEF Chases, Permitted, AttemptsIn
  <2> QED
    BY <1>1, <2>1, BookIs DEF AttemptsKnown
<1>3. ASSUME NEW k \in DOMAIN log, Allowed(log[k]), Contacts(log[k].req)
      PROVE  Cardinality(Reaching(log[k].req.customer, log[k].at - CONTACT_WINDOW, log[k].at))
               <= MAX_CONTACTS_PER_24H
  <2> DEFINE c == log[k].req.customer
             at == log[k].at
  <2>1. k \in ContactsIn(log, c)
    BY <1>1, <1>3 DEF ContactsIn
  <2>2. c \in Clientele /\ at \in Int
    BY <1>1, <2>1 DEF ContactsKnown
  <2>3. Reaching(c, at - CONTACT_WINDOW, at) = WindowIn(log, c, at)
    BY <1>1 DEF Reaching, WindowIn, ContactsIn
  <2> QED
    BY <1>1, <2>2, <2>3 DEF ContactsKnown
<1> QED
  BY <1>2, <1>3 DEF NobodyHounded

LEMMA AskWithin ==
  ASSUME Timetable, LimitsKept, Ask
  PROVE  LimitsKept'
<1> DEFINE i == Head(todo)
<1>1. /\ i \in Targets /\ i \notin Recovered /\ Now \in Int
  <2>1. i \in Chased /\ \E j \in 1 .. Len(todo) : i = todo[j]
    BY HeadGone DEF Timetable, Waiting, Ask
  <2>2. day \in Nat
    BY ElapsedIs DEF Timetable
  <2> QED
    BY <2>1, <2>2 DEF Timetable, Waiting, Chased, Now
<1>2. books[i] = Invoices[i] /\ i \in DOMAIN books /\ i \in DOMAIN Invoices
  BY <1>1, InvoiceIs DEF Timetable, Money
<1>3. Invoices[i] # None
  BY <1>1, BookAssumption DEF Targets
<1> HIDE DEF i
<1>4. PICK req \in Proposals(i) :
        LET row == Decided(mem, books, req, Now)
        IN  /\ log' = log \o <<RequestRow(req), row>>
            /\ mem' = Count(mem, row)
  BY DEF Ask, i
<1>5. req.invoice = i /\ req.customer = books[i].customer
  BY DEF Proposals, Proposal
<1>6. PICK row : row = Decided(mem, books, req, Now)
  OBVIOUS
<1>7. log' = log \o <<RequestRow(req), row>> /\ mem' = Count(mem, row)
  BY <1>4, <1>6
<1>8. req.customer \in Clientele
  BY <1>1, <1>2, <1>5 DEF Clientele
<1>9. req.invoice \in DOMAIN books \cap DOMAIN Invoices /\ books[req.invoice] # None
  BY <1>2, <1>3, <1>5
<1>10. InLimits(mem, log)
  BY DEF LimitsKept
<1>11. InLimits(Count(mem, row), log')
  BY <1>1, <1>6, <1>7, <1>8, <1>9, <1>10, WithinStep
<1> QED
  BY <1>7, <1>11 DEF LimitsKept

LEMMA ResolveWithin ==
  ASSUME Timetable, LimitsKept, Resolve
  PROVE  LimitsKept'
<1>1. /\ IsSeq(log') /\ Len(log) \in Nat /\ Len(log') = Len(log) + 1
      /\ \A k \in 1 .. Len(log) : k \in 1 .. Len(log') /\ log'[k] = log[k]
      /\ log'[Len(log) + 1].type = "outcome"
  BY OutcomeIs
<1>2. \A k \in 1 .. Len(log') : k \notin 1 .. Len(log) => Unmoved(log'[k])
  <2>1. Unmoved(log'[Len(log) + 1])
    BY <1>1 DEF Allowed, Unmoved
  <2> QED
    BY <1>1, <2>1
<1>3. Len(log') >= Len(log) /\ mem' = mem
  <2>1. mem' = mem
    BY Zenon DEF Resolve
  <2> QED
    BY <1>1, <2>1
<1>4. InLimits(mem, log) /\ DOMAIN mem = CounterNames
  BY DEF LimitsKept, InLimits
<1>5. InLimits(mem, log')
  BY <1>1, <1>2, <1>3, <1>4, WithinQuiet
<1> QED
  BY <1>3, <1>5 DEF LimitsKept

LEMMA LimitsStay ==
  Timetable /\ LimitsKept /\ [Next]_vars => LimitsKept'
<1> SUFFICES ASSUME Timetable, LimitsKept, [Next]_vars
             PROVE  LimitsKept'
  OBVIOUS
<1>1. CASE BeginDay \/ LeaveAlone \/ Overlook \/ Finish \/ UNCHANGED vars
  BY <1>1 DEF BeginDay, LeaveAlone, Overlook, Finish, vars, LimitsKept
<1>2. CASE Ask
  BY <1>2, AskWithin
<1>3. CASE Resolve
  BY <1>3, ResolveWithin
<1>4. CASE Rerun
  BY <1>4, WithinStart DEF Rerun, LimitsKept
<1> QED
  BY <1>1, <1>2, <1>3, <1>4 DEF Next

\* Nobody is hounded: no customer gets more contacts than the cap within 24
\* hours, over all of its invoices together, and no invoice is chased more often
\* than the cap, whatever the planner proposes, in whatever order a harness works
\* (gateway.py:162, policy.py:207-220 and 293-312).
THEOREM CampaignNobodyHounded == Spec => []NobodyHounded
<1>1. Init => LimitsKept
  BY WithinStart DEF Init, LimitsKept
<1>2. Schedule /\ LimitsKept /\ [Next]_vars => LimitsKept'
  BY LimitsStay DEF Schedule
<1>3. LimitsKept => NobodyHounded
  BY LimitsMeanNobodyHounded
<1> QED
  BY <1>1, <1>2, <1>3, ScheduleInit, ScheduleStep, PTL DEF Spec
=============================================================================
