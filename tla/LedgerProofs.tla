---------------------------- MODULE LedgerProofs ----------------------------
(***************************************************************************)
(* Machine-checked proofs about Ledger, for any processes, threads,        *)
(* payloads and bounds.                                                    *)
(*                                                                         *)
(* The chain does not rest on the lock: what keeps it unforked is that a   *)
(* stale head names a seq that is taken.  HeadsGenuine is the fact needed: *)
(* the head in a thread's hands is, or was, the head of the table its      *)
(* process sees, uncommitted rows of its own included.  The lock is what   *)
(* keeps a process from being refused by itself, and from losing rows a    *)
(* head was read from, and that needs mutual exclusion (LockHeld).         *)
(***************************************************************************)
EXTENDS Ledger, SequenceTheorems, WellFoundedInduction, TLAPS

HeadsGenuine ==
  tamper = NoTamper =>
    \A t \in Thread : pc[t] = "linked" =>
      /\ head[t].seq \in 0 .. Len(View(ProcessOf[t]))
      /\ head[t].hash = IF head[t].seq = 0 THEN GENESIS_HASH ELSE Table[head[t].seq].hash

LockHeld == \A t \in Thread : pc[t] \in {"linked", "inserted"} => lock[ProcessOf[t]] = t

DraftIsWriters == \A i \in Len(rows) + 1 .. Len(Table) : author[i] = writer

LedgerInv ==
  TypeOK /\ LockHeld /\ DraftIsWriters /\ HeadsGenuine /\ ChainIntact /\ NoForkInProcess

-----------------------------------------------------------------------------
LEMMA HashType ==
  ASSUME NEW s \in Nat, NEW p \in Written, NEW h \in Digest
  PROVE  Hash(s, p, h) \in Digest
BY DEF Hash, Digest

LEMMA LinkType ==
  ASSUME NEW h \in [seq : Nat, hash : Digest], NEW p \in Written
  PROVE  Link(h, p) \in RowType
<1>1. h.seq + 1 \in Nat /\ h.hash \in Digest
  OBVIOUS
<1>2. Hash(h.seq + 1, p, h.hash) \in Digest
  BY <1>1, HashType
<1> QED BY <1>1, <1>2 DEF Link, RowType

LEMMA GenesisType == GENESIS_HASH \in Digest
BY DEF GENESIS_HASH, Digest

LEMMA HeadOfType ==
  ASSUME NEW table \in Seq(RowType)
  PROVE  HeadOf(table) \in [seq : Nat, hash : Digest]
<1>1. CASE table = <<>>
  BY <1>1, GenesisType DEF HeadOf, NoHead
<1>2. CASE table # <<>>
  <2>1. Len(table) \in DOMAIN table
    BY <1>2
  <2>2. table[Len(table)] \in RowType
    BY <2>1
  <2> QED BY <1>2, <2>2 DEF HeadOf, RowType
<1> QED BY <1>1, <1>2

-----------------------------------------------------------------------------
(* Every nonempty set of naturals has a least element, from the            *)
(* well-foundedness of < : the first break verify() reports exists.        *)

Below == {p \in Nat \X Nat : p[1] < p[2]}

LEMMA BelowWellFounded == IsWellFoundedOn(Below, Nat)
BY NatLessThanWellFounded, Zenon DEF OpToRel, Below

LEMMA LeastElement ==
  ASSUME NEW S \in SUBSET Nat, S # {}
  PROVE  \E m \in S : \A k \in S : m <= k
<1>1. PICK m \in S : \A k \in S : ~ (<<k, m>> \in Below)
  BY WFMin, BelowWellFounded, Zenon
<1>2. \A k \in S : ~ (k < m)
  BY <1>1 DEF Below
<1> QED BY <1>2

LEMMA VerifyType ==
  ASSUME NEW table \in Seq(RowType)
  PROVE  Verify(table) \in WalkType
<1> DEFINE bad == Breaks(table)
           at  == CHOOSE i \in bad : \A j \in bad : i <= j
<1>1. CASE bad = {}
  BY <1>1 DEF Verify, WalkType
<1>2. CASE bad # {}
  <2>1. bad \in SUBSET Nat /\ bad \subseteq DOMAIN table
    BY DEF Breaks
  <2>2. at \in bad
    BY <1>2, <2>1, LeastElement
  <2>3. at \in 1 .. Len(table) /\ table[at] \in RowType
    BY <2>1, <2>2
  <2>4. at - 1 \in Nat /\ table[at].seq \in Nat
    BY <2>3 DEF RowType
  <2>5. Verify(table) = [ok |-> FALSE, checked |-> at - 1, broken |-> table[at].seq,
                         detail |-> IF SequenceJump(table, at) THEN "jump"
                                    ELSE IF LinkBreak(table, at) THEN "link" ELSE "content"]
    BY <1>2 DEF Verify
  <2> HIDE DEF at, bad
  <2> QED BY <2>4, <2>5 DEF WalkType
<1> QED BY <1>1, <1>2

LEMMA NoReportType == NoReport \in [walk : WalkType, head : Digest]
<1>1. <<>> \in Seq(RowType)
  OBVIOUS
<1> QED BY <1>1, VerifyType, GenesisType DEF NoReport

-----------------------------------------------------------------------------
(* Every reachable state has the type the tables and locks were given.     *)

LEMMA TypeInit == Init => TypeOK
BY GenesisType, NoReportType, ThreadsAssumption DEF Init, TypeOK, NoTamper, NoHead, Written

LEMMA ReleaseType ==
  ASSUME TypeOK, NEW t \in Thread, Release(t)
  PROVE  /\ lock' \in [Process -> Thread \cup {Nobody}]
         /\ pc' \in [Thread -> {"idle", "linked", "inserted", "verified"}]
         /\ entry' \in [Thread -> Written]
         /\ head' \in [Thread -> [seq : Nat, hash : Digest]]
<1>1. NoHead \in [seq : Nat, hash : Digest]
  BY GenesisType DEF NoHead
<1> QED BY <1>1, ThreadsAssumption DEF TypeOK, Release, Written

\* The rows of a table that has others behind it.
LEMMA Joined ==
  ASSUME NEW a \in Seq(RowType), NEW b \in Seq(RowType)
  PROVE  /\ a \o b \in Seq(RowType) /\ Len(a \o b) = Len(a) + Len(b)
         /\ Len(a) \in Nat /\ Len(b) \in Nat
         /\ \A i \in 1 .. Len(a) : (a \o b)[i] = a[i]
         /\ \A i \in 1 .. Len(b) : (a \o b)[Len(a) + i] = b[i]
<1>1. /\ a \o b \in Seq(RowType) /\ Len(a \o b) = Len(a) + Len(b)
      /\ Len(a) \in Nat /\ Len(b) \in Nat
  BY ConcatProperties, LenProperties
<1>2. \A i \in 1 .. Len(a) + Len(b) :
        (a \o b)[i] = IF i <= Len(a) THEN a[i] ELSE b[i - Len(a)]
  BY ConcatProperties
<1>3. ASSUME NEW i \in 1 .. Len(b)
      PROVE  (a \o b)[Len(a) + i] = b[i]
  <2>1. Len(a) + i \in 1 .. Len(a) + Len(b) /\ ~ (Len(a) + i <= Len(a))
        /\ (Len(a) + i) - Len(a) = i
    BY <1>1
  <2> QED BY <1>2, <2>1
<1>4. \A i \in 1 .. Len(a) : i \in 1 .. Len(a) + Len(b) /\ i <= Len(a)
  BY <1>1
<1> QED BY <1>1, <1>2, <1>3, <1>4

LEMMA JoinNothing ==
  ASSUME NEW a \in Seq(RowType)
  PROVE  a \o <<>> = a
BY ConcatEmptySeq

LEMMA JoinAppend ==
  ASSUME NEW a \in Seq(RowType), NEW b \in Seq(RowType), NEW row \in RowType
  PROVE  a \o Append(b, row) = Append(a \o b, row)
<1>1. /\ <<row>> \in Seq(RowType) /\ Append(b, row) = b \o <<row>>
      /\ a \o b \in Seq(RowType)
  BY AppendIsConcat, ConcatProperties
<1>2. Append(a \o b, row) = (a \o b) \o <<row>>
  BY <1>1, AppendIsConcat
<1>3. a \o (b \o <<row>>) = (a \o b) \o <<row>>
  BY <1>1, ConcatAssociative
<1> QED BY <1>1, <1>2, <1>3

LEMMA TableType ==
  ASSUME TypeOK
  PROVE  /\ Table \in Seq(RowType) /\ Len(Table) = Len(rows) + Len(draft)
         /\ Len(rows) \in Nat /\ Len(draft) \in Nat /\ Len(Table) \in Nat
         /\ DOMAIN rows = 1 .. Len(rows) /\ DOMAIN Table = 1 .. Len(Table)
         /\ \A i \in 1 .. Len(rows) : Table[i] = rows[i]
         /\ draft = <<>> => Table = rows
         /\ \A p : View(p) \in Seq(RowType) /\ View(p) \in {rows, Table}
<1>1. rows \in Seq(RowType) /\ draft \in Seq(RowType)
  BY DEF TypeOK
<1>2. /\ Table \in Seq(RowType) /\ Len(Table) = Len(rows) + Len(draft)
      /\ Len(rows) \in Nat /\ Len(draft) \in Nat
      /\ \A i \in 1 .. Len(rows) : Table[i] = rows[i]
  BY <1>1, Joined DEF Table
<1>3. draft = <<>> => Table = rows
  BY <1>1, JoinNothing DEF Table
<1>4. DOMAIN rows = 1 .. Len(rows) /\ DOMAIN Table = 1 .. Len(Table) /\ Len(Table) \in Nat
  BY <1>1, <1>2, LenProperties
<1>5. \A p : View(p) \in {rows, Table}
  BY DEF View
<1> QED BY <1>1, <1>2, <1>3, <1>4, <1>5

LEMMA RollBackType ==
  ASSUME TypeOK, NEW p \in Process, RollBack(p), UNCHANGED rows
  PROVE  /\ draft' \in Seq(RowType) /\ (draft' # <<>> => writer' # Nobody)
         /\ author' \in Seq(Process) /\ Len(author') = Len(rows') + Len(draft')
         /\ writer' \in Process \cup {Nobody}
         /\ open' \subseteq Process /\ reading' \subseteq open'
<1>1. open' \subseteq Process /\ reading' \subseteq open'
  BY DEF TypeOK, RollBack
<1>2. CASE writer # p
  BY <1>1, <1>2 DEF TypeOK, RollBack
<1>3. CASE writer = p
  <2>1. writer' = Nobody /\ draft' = <<>> /\ author' = SubSeq(author, 1, Len(rows))
    BY <1>3 DEF RollBack
  <2>2. author \in Seq(Process) /\ Len(author) = Len(rows) + Len(draft)
        /\ Len(rows) \in Nat /\ Len(draft) \in Nat
    BY TableType DEF TypeOK
  <2>3. \A i \in 1 .. Len(rows) : author[i] \in Process
    BY <2>2
  <2>4. /\ SubSeq(author, 1, Len(rows)) \in Seq(Process)
        /\ Len(SubSeq(author, 1, Len(rows))) = IF 1 <= Len(rows) THEN Len(rows) - 1 + 1 ELSE 0
    BY <2>2, <2>3, SubSeqProperties
  <2>5. author' \in Seq(Process) /\ Len(author') = Len(rows)
    BY <2>1, <2>2, <2>4
  <2> QED BY <1>1, <2>1, <2>2, <2>5
<1> QED BY <1>2, <1>3

LEMMA TypeStep == TypeOK /\ [Next]_vars => TypeOK'
<1> SUFFICES ASSUME TypeOK, [Next]_vars PROVE TypeOK'
  OBVIOUS
<1>0. \A p : View(p) \in Seq(RowType)
  BY TableType
<1>1. ASSUME NEW t \in Thread, NEW p \in Payload, ReadHead(t, p) PROVE TypeOK'
  <2>1. HeadOf(View(ProcessOf[t])) \in [seq : Nat, hash : Digest]
    BY <1>0, HeadOfType
  <2>2. reading' \subseteq open
    BY <1>1 DEF TypeOK, ReadHead, ReadHeadWith, Selects
  <2> QED BY <1>1, <2>1, <2>2, ThreadsAssumption, NoReportType
          DEF TypeOK, ReadHead, ReadHeadWith, Written
<1>2. ASSUME NEW t \in Thread, Insert(t) PROVE TypeOK'
  <2> DEFINE row == Link(head[t], entry[t])
  <2>1. row \in RowType /\ ProcessOf[t] \in Process /\ ProcessOf[t] # Nobody
    BY LinkType, ThreadsAssumption DEF TypeOK
  <2> HIDE DEF row
  <2>2. /\ draft' = Append(draft, row) /\ author' = Append(author, ProcessOf[t])
        /\ draft \in Seq(RowType) /\ author \in Seq(Process)
        /\ Len(author) = Len(rows) + Len(draft)
        /\ Len(rows) \in Nat /\ Len(draft) \in Nat
    BY <1>2, TableType DEF Insert, row, TypeOK
  <2>3. /\ draft' \in Seq(RowType) /\ author' \in Seq(Process)
        /\ Len(author') = Len(rows) + Len(draft')
    <3>1. /\ Append(draft, row) \in Seq(RowType) /\ Len(Append(draft, row)) = Len(draft) + 1
          /\ Append(author, ProcessOf[t]) \in Seq(Process)
          /\ Len(Append(author, ProcessOf[t])) = Len(author) + 1
      BY <2>1, <2>2, AppendProperties
    <3> QED BY <2>2, <3>1
  <2>4. /\ writer' = ProcessOf[t] /\ open' \subseteq Process /\ reading' \subseteq open'
    BY <1>2, <2>1 DEF Insert, Inserted, Reserves, TypeOK
  <2>5. pc' \in [Thread -> {"idle", "linked", "inserted", "verified"}]
    BY <1>2 DEF Insert, Inserted, TypeOK
  <2> QED BY <1>2, <2>1, <2>3, <2>4, <2>5 DEF Insert, Inserted, TypeOK
<1>3. ASSUME NEW t \in Thread, Refuse(t) PROVE TypeOK'
  <2>1. Release(t)
    BY <1>3 DEF Refuse
  <2>2. ProcessOf[t] \in Process /\ ProcessOf[t] # Nobody
    BY ThreadsAssumption
  <2>3. /\ writer' \in Process \cup {Nobody} /\ open' \subseteq Process
        /\ reading' \subseteq open' /\ (draft' # <<>> => writer' # Nobody)
    BY <1>3, <2>2 DEF Refuse, Reserves, TypeOK
  <2>4. failures' \in Nat
    BY <1>3 DEF Refuse, TypeOK
  <2> HIDE DEF Release
  <2> QED BY <1>3, <2>1, <2>3, <2>4, ReleaseType DEF TypeOK, Refuse
<1>4. ASSUME NEW t \in Thread, VerifyRows(t) PROVE TypeOK'
  <2>1. [walk |-> Verify(View(ProcessOf[t])), head |-> GENESIS_HASH]
          \in [walk : WalkType, head : Digest]
    BY <1>0, VerifyType, GenesisType
  <2>2. reading' \subseteq open
    BY <1>4 DEF TypeOK, VerifyRows, Selects
  <2> QED BY <1>4, <2>1, <2>2 DEF TypeOK, VerifyRows
<1>5. ASSUME NEW t \in Thread, ReportHead(t) PROVE TypeOK'
  <2>1. HeadOf(View(ProcessOf[t])).hash \in Digest
    BY <1>0, HeadOfType
  <2>2. report' \in [Thread -> [walk : WalkType, head : Digest]]
    BY <1>5, <2>1 DEF TypeOK, ReportHead
  <2>3. reading' \subseteq open
    BY <1>5 DEF TypeOK, ReportHead, Selects
  <2> QED BY <1>0, <1>5, <2>2, <2>3 DEF TypeOK, ReportHead
<1>6. ASSUME NEW p \in Process, Crash(p) PROVE TypeOK'
  <2>1. NoHead \in [seq : Nat, hash : Digest]
    BY GenesisType DEF NoHead
  <2>2. /\ draft' \in Seq(RowType) /\ (draft' # <<>> => writer' # Nobody)
        /\ author' \in Seq(Process) /\ Len(author') = Len(rows') + Len(draft')
        /\ writer' \in Process \cup {Nobody}
        /\ open' \subseteq Process /\ reading' \subseteq open'
    BY <1>6, RollBackType DEF Crash
  <2> QED BY <1>6, <2>1, <2>2, NoReportType, BoundsAssumption DEF TypeOK, Crash, Written
<1>13. ASSUME NEW t \in Thread, Commit(t) PROVE TypeOK'
  <2>1. /\ rows' = Table /\ draft' = <<>> /\ UNCHANGED author
        /\ Len(author) = Len(Table) /\ Table \in Seq(RowType)
    BY <1>13, TableType DEF Commit, TypeOK
  <2>2. /\ rows' \in Seq(RowType) /\ draft' \in Seq(RowType)
        /\ Len(author') = Len(rows') + Len(draft')
    BY <2>1, LenProperties
  <2>3. Release(t)
    BY <1>13 DEF Commit
  <2>4. open' \subseteq Process /\ reading' \subseteq open'
    BY <1>13 DEF Commit, TypeOK
  <2> HIDE DEF Release
  <2> QED BY <1>13, <2>1, <2>2, <2>3, <2>4, ReleaseType DEF TypeOK, Commit
<1>14. ASSUME NEW t \in Thread, CommitBusy(t) PROVE TypeOK'
  <2>1. Release(t)
    BY <1>14 DEF CommitBusy
  <2> HIDE DEF Release
  <2> QED BY <1>14, <2>1, ReleaseType DEF TypeOK, CommitBusy, transaction
<1>15. ASSUME NEW t \in Thread, Lose(t) PROVE TypeOK'
  <2>1. Release(t) /\ RollBack(ProcessOf[t]) /\ ProcessOf[t] \in Process /\ UNCHANGED rows
    BY <1>15, ThreadsAssumption DEF Lose
  <2>2. /\ draft' \in Seq(RowType) /\ (draft' # <<>> => writer' # Nobody)
        /\ author' \in Seq(Process) /\ Len(author') = Len(rows') + Len(draft')
        /\ writer' \in Process \cup {Nobody}
        /\ open' \subseteq Process /\ reading' \subseteq open'
    BY <2>1, RollBackType
  <2> HIDE DEF Release, RollBack
  <2> QED BY <1>15, <2>1, <2>2, ReleaseType DEF TypeOK, Lose
\* Nobody tampers while a transaction is open.
<1>7. ASSUME NEW i \in 1 .. MaxRows, NEW kind \in {"edit", "rehash", "remove", "relink"},
             Tamper(kind, i), rows' \in Seq(RowType), author' \in Seq(Process),
             Len(author') - Len(rows') = Len(author) - Len(rows)
      PROVE  TypeOK'
  <2>1. rows[i] \in RowType
    BY <1>7 DEF TypeOK, Tamper
  <2>2. Len(author') = Len(rows') + Len(draft')
    <3>1. /\ Len(author) = Len(rows) + Len(draft) /\ UNCHANGED draft
          /\ Len(rows) \in Nat /\ Len(draft) \in Nat
      BY <1>7, TableType DEF Tamper, TypeOK
    <3>2. Len(author') \in Nat /\ Len(rows') \in Nat
      BY <1>7, LenProperties
    <3> QED BY <1>7, <3>1, <3>2
  <2>3. tamper' \in [kind : {"none", "edit", "rehash", "remove", "relink"},
                     at : Nat, last : BOOLEAN, times : Nat]
    <3>1. rows[i].seq \in Nat
      BY <2>1 DEF RowType
    <3> QED BY <1>7, <3>1 DEF TypeOK, Tamper
  <2> QED BY <1>7, <2>2, <2>3 DEF TypeOK, Tamper
<1>8. ASSUME NEW i \in 1 .. MaxRows, EditRow(i) PROVE TypeOK'
  <2>1. i \in DOMAIN rows /\ rows[i] \in RowType
    BY <1>8 DEF EditRow, Tamper, TypeOK
  <2>2. [rows[i] EXCEPT !.payload = Forged] \in RowType
    BY <2>1 DEF RowType, Written
  <2>3. rows' \in Seq(RowType) /\ Len(rows') = Len(rows)
    BY <1>8, <2>1, <2>2, ExceptSeq DEF EditRow, TypeOK
  <2>4. Len(author') - Len(rows') = Len(author) - Len(rows) /\ author' \in Seq(Process)
    BY <1>8, <2>3 DEF EditRow, TypeOK
  <2> QED BY <1>7, <1>8, <2>3, <2>4 DEF EditRow
<1>9. ASSUME NEW i \in 1 .. MaxRows, RehashRow(i) PROVE TypeOK'
  <2>1. i \in DOMAIN rows /\ rows[i] \in RowType
    BY <1>9 DEF RehashRow, Tamper, TypeOK
  <2>2. Hash(rows[i].seq, Forged, rows[i].prev) \in Digest
    BY <2>1, HashType DEF RowType, Written
  <2>3. [rows[i] EXCEPT !.payload = Forged, !.hash = Hash(rows[i].seq, Forged, rows[i].prev)]
          \in RowType
    BY <2>1, <2>2 DEF RowType, Written
  <2>4. rows' \in Seq(RowType) /\ Len(rows') = Len(rows)
    BY <1>9, <2>1, <2>3, ExceptSeq DEF RehashRow, TypeOK
  <2>5. Len(author') - Len(rows') = Len(author) - Len(rows) /\ author' \in Seq(Process)
    BY <1>9, <2>4 DEF RehashRow, TypeOK
  <2> QED BY <1>7, <1>9, <2>4, <2>5 DEF RehashRow
<1>10. ASSUME NEW i \in 1 .. MaxRows, RemoveRow(i) PROVE TypeOK'
  <2>1. i \in DOMAIN rows
    BY <1>10 DEF RemoveRow, Tamper
  <2>2. \A S : \A s \in Seq(S) : i \in 1 .. Len(s) =>
           /\ SubSeq(s, 1, i - 1) \o SubSeq(s, i + 1, Len(s)) \in Seq(S)
           /\ Len(SubSeq(s, 1, i - 1) \o SubSeq(s, i + 1, Len(s))) = Len(s) - 1
    <3> SUFFICES ASSUME NEW S, NEW s \in Seq(S), i \in 1 .. Len(s)
                 PROVE  /\ SubSeq(s, 1, i - 1) \o SubSeq(s, i + 1, Len(s)) \in Seq(S)
                        /\ Len(SubSeq(s, 1, i - 1) \o SubSeq(s, i + 1, Len(s))) = Len(s) - 1
      OBVIOUS
    <3>1. /\ SubSeq(s, 1, i - 1) \in Seq(S) /\ Len(SubSeq(s, 1, i - 1)) = i - 1
          /\ SubSeq(s, i + 1, Len(s)) \in Seq(S)
          /\ Len(SubSeq(s, i + 1, Len(s))) = Len(s) - i
      BY SubSeqProperties
    <3>2. \A a, b \in Seq(S) : a \o b \in Seq(S) /\ Len(a \o b) = Len(a) + Len(b)
      BY ConcatProperties
    <3>3. Len(s) \in Nat
      BY LenProperties
    <3> DEFINE before == SubSeq(s, 1, i - 1)
               after  == SubSeq(s, i + 1, Len(s))
    <3>0. /\ before \in Seq(S) /\ Len(before) = i - 1
          /\ after \in Seq(S) /\ Len(after) = Len(s) - i
      BY <3>1
    <3> HIDE DEF before, after
    <3>4. before \o after \in Seq(S) /\ Len(before \o after) = Len(before) + Len(after)
      BY <3>0, <3>2, Zenon
    <3>5. Len(before) + Len(after) = Len(s) - 1
      BY <3>0, <3>3
    <3> QED BY <3>4, <3>5 DEF before, after
  <2>3. rows \in Seq(RowType) /\ i \in 1 .. Len(rows)
    BY <2>1 DEF TypeOK
  <2>4. author \in Seq(Process) /\ i \in 1 .. Len(author) /\ Len(author) = Len(rows)
    <3>1. writer = Nobody /\ draft = <<>>
      BY <1>10 DEF RemoveRow, Tamper, TypeOK
    <3> QED BY <2>3, <3>1 DEF TypeOK
  <2>5. /\ rows' = SubSeq(rows, 1, i - 1) \o SubSeq(rows, i + 1, Len(rows))
        /\ author' = SubSeq(author, 1, i - 1) \o SubSeq(author, i + 1, Len(author))
    BY <1>10, <2>4 DEF RemoveRow
  <2>6. rows' \in Seq(RowType) /\ Len(rows') = Len(rows) - 1
    BY <2>2, <2>3, <2>5
  <2>7. author' \in Seq(Process) /\ Len(author') = Len(rows) - 1
    BY <2>2, <2>4, <2>5
  <2>8. Len(author') - Len(rows') = Len(author) - Len(rows)
    BY <2>3, <2>4, <2>6, <2>7
  <2> QED BY <1>7, <1>10, <2>6, <2>7, <2>8 DEF RemoveRow
<1>11. ASSUME NEW i \in 1 .. MaxRows, RelinkRow(i) PROVE TypeOK'
  <2>1. i \in 1 .. Len(rows) /\ rows[i] \in RowType
    BY <1>11 DEF RelinkRow, Tamper, TypeOK
  <2>2. PrevHash(rows, i) \in Digest
    <3>1. CASE i = 1
      BY <3>1, GenesisType DEF PrevHash
    <3>2. CASE i # 1
      <4>1. rows[i - 1] \in RowType
        BY <2>1, <3>2 DEF TypeOK
      <4> QED BY <3>2, <4>1 DEF PrevHash, RowType
    <3> QED BY <3>1, <3>2
  <2>3. Link([seq |-> i - 1, hash |-> PrevHash(rows, i)], rows[i].payload) \in RowType
    BY <2>1, <2>2, LinkType DEF RowType
  <2>4. rows' \in Seq(RowType) /\ Len(rows') = Len(rows)
    BY <1>11, <2>1, <2>3, ExceptSeq DEF RelinkRow, TypeOK
  <2>5. Len(author') - Len(rows') = Len(author) - Len(rows) /\ author' \in Seq(Process)
    BY <1>11, <2>4 DEF RelinkRow, TypeOK
  <2> QED BY <1>7, <1>11, <2>4, <2>5 DEF RelinkRow
<1>12. CASE UNCHANGED vars
  BY <1>12 DEF TypeOK, vars, transaction
<1> QED
  BY <1>1, <1>2, <1>3, <1>4, <1>5, <1>6, <1>8, <1>9, <1>10, <1>11, <1>12, <1>13, <1>14, <1>15
     DEF Next, Step

\* Every variable of the ledger keeps its type, tampering included.
THEOREM LedgerTyped == Spec => []TypeOK
BY TypeInit, TypeStep, PTL DEF Spec

-----------------------------------------------------------------------------
(* The chain.                                                              *)

LEMMA InvInit == Init => LedgerInv
<1> SUFFICES ASSUME Init PROVE LedgerInv
  OBVIOUS
<1>1. TypeOK
  BY TypeInit
<1>2. rows = <<>> /\ draft = <<>> /\ \A t \in Thread : pc[t] \notin {"linked", "inserted"}
  BY DEF Init
<1>3. Table = <<>>
  BY <1>1, <1>2, TableType
<1> QED BY <1>1, <1>2, <1>3 DEF LedgerInv, LockHeld, DraftIsWriters, HeadsGenuine, ChainIntact,
                               Chained, NoForkInProcess

\* A link onto a row that still is the last one extends the chain.
LEMMA ChainGrows ==
  ASSUME NEW table \in Seq(RowType), Chained(table), NEW h \in [seq : Nat, hash : Digest],
         NEW p \in Written, h = HeadOf(table)
  PROVE  Chained(Append(table, Link(h, p)))
<1> DEFINE row   == Link(h, p)
           grown == Append(table, row)
<1>1. row \in RowType
  BY LinkType
<1>2. /\ Len(table) \in Nat
      /\ DOMAIN grown = 1 .. Len(table) + 1
      /\ \A i \in 1 .. Len(table) : grown[i] = table[i]
      /\ grown[Len(table) + 1] = row
  BY <1>1, AppendProperties, LenProperties
<1>3. h.seq = Len(table) /\ h.hash = PrevHash(grown, Len(table) + 1)
  <2>1. CASE table = <<>>
    BY <2>1 DEF HeadOf, NoHead, PrevHash
  <2>2. CASE table # <<>>
    <3>1. Len(table) \in DOMAIN table /\ Len(table) # 0
      BY <2>2
    <3>2. h = [seq |-> table[Len(table)].seq, hash |-> table[Len(table)].hash]
      BY <2>2 DEF HeadOf
    <3> QED BY <1>2, <3>1, <3>2 DEF Chained, PrevHash
  <2> QED BY <2>1, <2>2
<1>4. row = [seq |-> h.seq + 1, payload |-> p, prev |-> h.hash,
             hash |-> Hash(h.seq + 1, p, h.hash)]
  BY DEF Link
<1> HIDE DEF row, grown
<1>5. ASSUME NEW i \in 1 .. Len(table) + 1
      PROVE  /\ grown[i].seq = i
             /\ grown[i].prev = PrevHash(grown, i)
             /\ grown[i].hash = Hash(grown[i].seq, grown[i].payload, grown[i].prev)
  <2>1. CASE i = Len(table) + 1
    BY <1>2, <1>3, <1>4, <2>1
  <2>2. CASE i \in 1 .. Len(table)
    <3>1. grown[i] = table[i] /\ (i # 1 => grown[i - 1] = table[i - 1])
      BY <1>2, <2>2
    <3> QED BY <2>2, <3>1 DEF Chained, PrevHash
  <2> QED BY <1>2, <2>1, <2>2
<1> QED BY <1>2, <1>5 DEF Chained, grown, row

\* An unbroken table is unbroken up to each of its rows.
LEMMA ChainedBefore ==
  ASSUME NEW a \in Seq(RowType), NEW b \in Seq(RowType), Chained(b), Len(a) <= Len(b),
         \A i \in 1 .. Len(a) : b[i] = a[i]
  PROVE  Chained(a)
<1>1. /\ DOMAIN a = 1 .. Len(a) /\ DOMAIN b = 1 .. Len(b) /\ Len(a) \in Nat /\ Len(b) \in Nat
  BY LenProperties
<1> SUFFICES ASSUME NEW i \in 1 .. Len(a)
             PROVE  /\ a[i].seq = i
                    /\ a[i].prev = PrevHash(a, i)
                    /\ a[i].hash = Hash(a[i].seq, a[i].payload, a[i].prev)
  BY <1>1 DEF Chained
<1>2. i \in DOMAIN b /\ b[i] = a[i] /\ (i # 1 => i - 1 \in 1 .. Len(a))
  BY <1>1
<1>3. PrevHash(a, i) = PrevHash(b, i)
  BY <1>2 DEF PrevHash
<1> QED BY <1>2, <1>3 DEF Chained

LEMMA RowsChained ==
  ASSUME TypeOK, Chained(Table)
  PROVE  Chained(rows) /\ \A p : Chained(View(p))
<1>1. rows \in Seq(RowType) /\ Len(rows) <= Len(Table)
  BY TableType DEF TypeOK
<1>2. Chained(rows)
  BY <1>1, TableType, ChainedBefore
<1> QED BY <1>2 DEF View

\* The head of an unbroken table is its last row.
LEMMA HeadIsLast ==
  ASSUME NEW table \in Seq(RowType), Chained(table)
  PROVE  /\ HeadOf(table).seq = Len(table)
         /\ HeadOf(table).hash = IF Len(table) = 0 THEN GENESIS_HASH ELSE table[Len(table)].hash
<1>1. CASE table = <<>>
  BY <1>1 DEF HeadOf, NoHead
<1>2. CASE table # <<>>
  <2>1. Len(table) \in DOMAIN table /\ Len(table) # 0
    BY <1>2
  <2> QED BY <1>2, <2>1 DEF HeadOf, Chained
<1> QED BY <1>1, <1>2

\* A row that the table does not refuse continues the row that is last now.
LEMMA UnrefusedIsLast ==
  ASSUME TypeOK, ChainIntact, HeadsGenuine, tamper = NoTamper,
         NEW t \in Thread, pc[t] = "linked", ~Taken(Link(head[t], entry[t]))
  PROVE  head[t] = HeadOf(Table)
<1>0. /\ Table \in Seq(RowType) /\ Len(Table) \in Nat /\ DOMAIN Table = 1 .. Len(Table)
      /\ Chained(Table)
  BY TableType DEF ChainIntact
<1>1. /\ head[t].seq \in 0 .. Len(Table)
      /\ head[t].hash = IF head[t].seq = 0 THEN GENESIS_HASH ELSE Table[head[t].seq].hash
  <2>1. Len(View(ProcessOf[t])) <= Len(Table) /\ Len(View(ProcessOf[t])) \in Nat
    BY TableType DEF View
  <2>2. /\ head[t].seq \in 0 .. Len(View(ProcessOf[t]))
        /\ head[t].hash = IF head[t].seq = 0 THEN GENESIS_HASH ELSE Table[head[t].seq].hash
    BY DEF HeadsGenuine
  <2> QED BY <1>0, <2>1, <2>2
<1>2. Link(head[t], entry[t]).seq = head[t].seq + 1
  BY DEF Link
<1>3. \A i \in 1 .. Len(Table) : Table[i].seq = i
  BY <1>0 DEF Chained
<1>4. head[t].seq + 1 \notin 1 .. Len(Table)
  <2>1. \A i \in DOMAIN Table : Table[i].seq # head[t].seq + 1
    BY <1>2 DEF Taken
  <2> QED BY <1>0, <1>3, <2>1
<1>5. head[t].seq = Len(Table)
  BY <1>0, <1>1, <1>4
<1>6. head[t] = [seq |-> head[t].seq, hash |-> head[t].hash]
  BY DEF TypeOK
<1>7. HeadOf(Table) = [seq |-> HeadOf(Table).seq, hash |-> HeadOf(Table).hash]
  BY DEF HeadOf, NoHead
<1>8. HeadOf(Table).seq = head[t].seq /\ HeadOf(Table).hash = head[t].hash
  BY <1>0, <1>1, <1>5, HeadIsLast
<1> QED BY <1>6, <1>7, <1>8

\* Whoever tampers leaves the state the other parts of the invariant are about.
LEMMA TamperShows ==
  ASSUME TypeOK, NEW kind, NEW i, Tamper(kind, i)
  PROVE  tamper' # NoTamper
BY DEF TypeOK, Tamper, NoTamper

LEMMA LockStep == TypeOK /\ LockHeld /\ [Next]_vars => LockHeld'
<1> SUFFICES ASSUME TypeOK, LockHeld, [Next]_vars PROVE LockHeld'
  OBVIOUS
<1> USE ThreadsAssumption DEF LockHeld
<1>1. ASSUME NEW t \in Thread, NEW p \in Payload, ReadHead(t, p) PROVE LockHeld'
  BY <1>1 DEF TypeOK, ReadHead, ReadHeadWith, LockOf
<1>2. ASSUME NEW t \in Thread, pc[t] \in {"linked", "inserted"}, Release(t) PROVE LockHeld'
  BY <1>2 DEF TypeOK, Release
<1>3. ASSUME NEW t \in Thread, Commit(t) \/ CommitBusy(t) \/ Refuse(t) \/ Lose(t)
      PROVE  LockHeld'
  BY <1>2, <1>3 DEF Commit, CommitBusy, Refuse, Lose
<1>8. ASSUME NEW t \in Thread, Insert(t) PROVE LockHeld'
  BY <1>8 DEF TypeOK, Insert, Inserted
<1>4. ASSUME NEW t \in Thread, VerifyRows(t) \/ ReportHead(t) PROVE LockHeld'
  BY <1>4 DEF TypeOK, VerifyRows, ReportHead
<1>5. ASSUME NEW p \in Process, Crash(p) PROVE LockHeld'
  BY <1>5 DEF TypeOK, Crash
<1>6. ASSUME NEW i, EditRow(i) \/ RehashRow(i) \/ RemoveRow(i) \/ RelinkRow(i)
      PROVE  LockHeld'
  BY <1>6 DEF EditRow, RehashRow, RemoveRow, RelinkRow, Tamper
<1>7. CASE UNCHANGED vars
  BY <1>7 DEF vars
<1> QED BY <1>1, <1>3, <1>4, <1>5, <1>6, <1>7, <1>8 DEF Next, Step

\* What a roll-back leaves of the table and of what the other processes see.
LEMMA RolledBack ==
  ASSUME TypeOK, NEW p \in Process, RollBack(p), UNCHANGED rows
  PROVE  /\ Table' \in Seq(RowType) /\ Table' \in {rows, Table}
         /\ \A i \in DOMAIN Table' : author'[i] = author[i]
         /\ \A q \in Process : q # p => View(q)' = View(q)
<1>1. Table \in Seq(RowType) /\ rows \in Seq(RowType) /\ Len(rows) \in Nat
      /\ DOMAIN rows = 1 .. Len(rows) /\ p # Nobody
  BY TableType, ThreadsAssumption DEF TypeOK
<1>2. CASE writer # p
  <2>1. UNCHANGED <<rows, draft, author, writer>>
    BY <1>2 DEF RollBack
  <2> QED BY <1>1, <2>1 DEF Table, View
<1>3. CASE writer = p
  <2>1. writer' = Nobody /\ draft' = <<>> /\ author' = SubSeq(author, 1, Len(rows))
    BY <1>3 DEF RollBack
  <2>2. Table' = rows
    BY <1>1, <2>1, JoinNothing DEF Table
  <2>3. \A i \in 1 .. Len(rows) : SubSeq(author, 1, Len(rows))[i] = author[i]
    <3>1. /\ author \in Seq(Process) /\ Len(author) = Len(rows) + Len(draft)
          /\ Len(draft) \in Nat
      BY TableType DEF TypeOK
    <3>2. \A i \in 1 .. Len(rows) : author[i] \in Process
      BY <1>1, <3>1
    <3> QED BY <1>1, <3>1
  <2>4. \A q \in Process : q # p => View(q)' = View(q)
    BY <1>3, <2>1, ThreadsAssumption DEF View
  <2> QED BY <1>1, <2>1, <2>2, <2>3, <2>4
<1> QED BY <1>2, <1>3

LEMMA DraftStep == TypeOK /\ DraftIsWriters /\ [Next]_vars => DraftIsWriters'
<1> SUFFICES ASSUME TypeOK, DraftIsWriters, [Next]_vars PROVE DraftIsWriters'
  OBVIOUS
<1>0. TypeOK'
  BY TypeStep
<1>1. /\ Table \in Seq(RowType) /\ Len(Table) = Len(rows) + Len(draft)
      /\ Len(rows) \in Nat /\ Len(draft) \in Nat
  BY TableType
\* Nothing in a draft, nothing to say.
<1>2. ASSUME draft' = <<>> PROVE DraftIsWriters'
  <2>1. Table' = rows' \o <<>> /\ rows' \in Seq(RowType)
    BY <1>0, <1>2 DEF Table, TypeOK
  <2>2. Table' = rows' /\ Len(rows') \in Nat
    BY <2>1, JoinNothing, LenProperties
  <2> QED BY <2>2 DEF DraftIsWriters
<1>3. ASSUME UNCHANGED <<rows, draft, author>>, draft # <<>> => UNCHANGED writer
      PROVE  DraftIsWriters'
  <2>1. UNCHANGED Table
    BY <1>3 DEF Table
  <2>2. CASE draft = <<>>
    BY <1>2, <1>3, <2>2
  <2>3. CASE draft # <<>>
    BY <1>3, <2>1, <2>3 DEF DraftIsWriters
  <2> QED BY <2>2, <2>3
<1>4. ASSUME NEW t \in Thread, Insert(t) PROVE DraftIsWriters'
  <2> DEFINE row == Link(head[t], entry[t])
  <2>1. row \in RowType
    BY LinkType DEF TypeOK
  <2>2. /\ draft' = Append(draft, row) /\ author' = Append(author, ProcessOf[t])
        /\ UNCHANGED rows /\ writer' = ProcessOf[t]
        /\ (draft # <<>> => writer = ProcessOf[t])
    BY <1>4 DEF Insert, Inserted, Reserves, MayWrite, TypeOK
  <2>3. rows \in Seq(RowType) /\ draft \in Seq(RowType) /\ author \in Seq(Process)
        /\ Len(author) = Len(Table) /\ ProcessOf[t] \in Process
    BY <1>1, ThreadsAssumption DEF TypeOK
  <2> HIDE DEF row
  <2>4. Table' = Append(Table, row)
    BY <2>1, <2>2, <2>3, JoinAppend DEF Table
  <2>5. Len(Table') = Len(Table) + 1
    BY <1>1, <2>1, <2>4, AppendProperties
  <2>6. /\ \A i \in 1 .. Len(Table) : author'[i] = author[i]
        /\ author'[Len(Table) + 1] = ProcessOf[t]
    BY <2>2, <2>3, AppendProperties
  <2>7. ASSUME NEW i \in Len(rows) + 1 .. Len(Table) PROVE author'[i] = ProcessOf[t]
    <3>1. i \in 1 .. Len(Table) /\ draft # <<>>
      BY <1>1
    <3> QED BY <2>2, <2>6, <3>1 DEF DraftIsWriters
  <2>8. \A i \in Len(rows) + 1 .. Len(Table) + 1 :
           i \in Len(rows) + 1 .. Len(Table) \/ i = Len(Table) + 1
    BY <1>1
  <2> QED BY <2>2, <2>5, <2>6, <2>7, <2>8 DEF DraftIsWriters
<1>5. ASSUME NEW t \in Thread, Refuse(t) PROVE DraftIsWriters'
  BY <1>3, <1>5 DEF Refuse, Reserves, MayWrite, TypeOK
<1>6. ASSUME NEW p, RollBack(p), UNCHANGED rows PROVE DraftIsWriters'
  BY <1>2, <1>3, <1>6 DEF RollBack
<1>7. ASSUME NEW i, NEW kind, Tamper(kind, i) PROVE DraftIsWriters'
  BY <1>2, <1>7 DEF Tamper, TypeOK
<1>8. ASSUME NEW t \in Thread, NEW p \in Payload, ReadHead(t, p) PROVE DraftIsWriters'
  BY <1>3, <1>8 DEF ReadHead, ReadHeadWith
<1>9. ASSUME NEW t \in Thread, CommitBusy(t) \/ VerifyRows(t) \/ ReportHead(t)
      PROVE  DraftIsWriters'
  BY <1>3, <1>9 DEF CommitBusy, transaction, VerifyRows, ReportHead
<1>10. ASSUME NEW t \in Thread, Commit(t) PROVE DraftIsWriters'
  BY <1>2, <1>10 DEF Commit
<1>11. CASE UNCHANGED vars
  BY <1>3, <1>11 DEF vars, transaction
<1>12. ASSUME NEW t \in Thread, Lose(t) PROVE DraftIsWriters'
  BY <1>6, <1>12 DEF Lose
<1>13. ASSUME NEW p \in Process, Crash(p) PROVE DraftIsWriters'
  BY <1>6, <1>13 DEF Crash
<1>14. ASSUME NEW i, EditRow(i) \/ RehashRow(i) \/ RemoveRow(i) \/ RelinkRow(i)
       PROVE  DraftIsWriters'
  BY <1>7, <1>14 DEF EditRow, RehashRow, RemoveRow, RelinkRow
<1> QED
  BY <1>4, <1>5, <1>8, <1>9, <1>10, <1>11, <1>12, <1>13, <1>14 DEF Next, Step

LEMMA InvStep == LedgerInv /\ [Next]_vars => LedgerInv'
<1> SUFFICES ASSUME LedgerInv, [Next]_vars PROVE LedgerInv'
  OBVIOUS
<1>1. TypeOK /\ LockHeld /\ DraftIsWriters /\ HeadsGenuine /\ ChainIntact /\ NoForkInProcess
  BY DEF LedgerInv
<1>2. TypeOK' /\ LockHeld' /\ DraftIsWriters'
  BY <1>1, TypeStep, LockStep, DraftStep
<1> SUFFICES ASSUME tamper' = NoTamper
             PROVE  HeadsGenuine' /\ ChainIntact' /\ NoForkInProcess'
  BY <1>2 DEF LedgerInv, HeadsGenuine, ChainIntact, NoForkInProcess
<1>3. \A i : ~ (EditRow(i) \/ RehashRow(i) \/ RemoveRow(i) \/ RelinkRow(i))
  BY <1>1, TamperShows DEF EditRow, RehashRow, RemoveRow, RelinkRow
<1>4. /\ Table \in Seq(RowType) /\ DOMAIN Table = 1 .. Len(Table) /\ Len(Table) \in Nat
      /\ Len(rows) \in Nat /\ Len(rows) <= Len(Table)
      /\ \A i \in 1 .. Len(rows) : Table[i] = rows[i]
      /\ \A p : View(p) \in {rows, Table}
      /\ \A t \in Thread : ProcessOf[t] \in Process
  BY <1>1, TableType, ThreadsAssumption
\* Steps that leave the table as it is, show nobody less of it, and put no new
\* head in anybody's hands.
<1>5. ASSUME UNCHANGED <<Table, author>>, tamper = NoTamper,
             \A t \in Thread : pc'[t] = "linked" => pc[t] = "linked" /\ head'[t] = head[t],
             \A t \in Thread : View(ProcessOf[t])' \in {View(ProcessOf[t]), Table}
      PROVE  HeadsGenuine' /\ ChainIntact' /\ NoForkInProcess'
  <2>1. ChainIntact' /\ NoForkInProcess'
    BY <1>1, <1>5 DEF ChainIntact, NoForkInProcess
  <2>2. ASSUME NEW t \in Thread, pc'[t] = "linked"
        PROVE  /\ head'[t].seq \in 0 .. Len(View(ProcessOf[t])')
               /\ head'[t].hash = IF head'[t].seq = 0 THEN GENESIS_HASH
                                                     ELSE Table[head'[t].seq].hash
    <3>1. /\ head[t].seq \in 0 .. Len(View(ProcessOf[t]))
          /\ head[t].hash = IF head[t].seq = 0 THEN GENESIS_HASH ELSE Table[head[t].seq].hash
          /\ head'[t] = head[t]
      BY <1>1, <1>5, <2>2 DEF HeadsGenuine
    <3>2. Len(View(ProcessOf[t])) \in Nat /\ Len(View(ProcessOf[t])) <= Len(Table)
      BY <1>4
    <3> QED BY <1>4, <1>5, <3>1, <3>2
  <2> QED BY <1>5, <2>1, <2>2 DEF HeadsGenuine
<1>6. ASSUME NEW t \in Thread, NEW p \in Payload, ReadHead(t, p)
      PROVE  HeadsGenuine' /\ ChainIntact' /\ NoForkInProcess'
  <2> DEFINE seen == View(ProcessOf[t])
  <2>1. /\ UNCHANGED <<rows, draft, writer, author, tamper>> /\ tamper = NoTamper
        /\ head' = [head EXCEPT ![t] = HeadOf(seen)]
        /\ pc' = [pc EXCEPT ![t] = "linked"]
    BY <1>6 DEF ReadHead, ReadHeadWith
  <2>2. UNCHANGED Table /\ \A q : UNCHANGED View(q)
    BY <2>1 DEF Table, View
  <2>3. Chained(seen) /\ seen \in Seq(RowType)
    BY <1>1, <2>1, RowsChained, TableType DEF ChainIntact
  <2>4. /\ HeadOf(seen).seq = Len(seen) /\ Len(seen) \in Nat
        /\ HeadOf(seen).hash = IF Len(seen) = 0 THEN GENESIS_HASH ELSE Table[Len(seen)].hash
    <3>1. seen \in {rows, Table} /\ Len(seen) \in Nat
      BY <1>4
    <3> HIDE DEF seen
    <3>2. /\ HeadOf(seen).seq = Len(seen)
          /\ HeadOf(seen).hash = IF Len(seen) = 0 THEN GENESIS_HASH ELSE seen[Len(seen)].hash
      BY <2>3, HeadIsLast
    <3>3. Len(seen) # 0 => Table[Len(seen)] = seen[Len(seen)]
      BY <1>4, <3>1
    <3> QED BY <3>1, <3>2, <3>3
  <2> HIDE DEF seen
  <2>5. \A u \in Thread : head'[u] = IF u = t THEN HeadOf(seen) ELSE head[u]
    BY <1>1, <2>1 DEF TypeOK
  <2>6. \A u \in Thread : u # t => pc'[u] = pc[u]
    BY <1>1, <2>1 DEF TypeOK
  <2>7. ASSUME NEW u \in Thread, pc'[u] = "linked"
        PROVE  /\ head'[u].seq \in 0 .. Len(View(ProcessOf[u]))
               /\ head'[u].hash = IF head'[u].seq = 0 THEN GENESIS_HASH
                                                     ELSE Table[head'[u].seq].hash
    <3>1. CASE u = t
      BY <2>4, <2>5, <3>1 DEF seen
    <3>2. CASE u # t
      BY <1>1, <2>1, <2>5, <2>6, <2>7, <3>2 DEF HeadsGenuine
    <3> QED BY <3>1, <3>2
  <2>8. HeadsGenuine'
    BY <2>2, <2>7 DEF HeadsGenuine
  <2>9. ChainIntact'
    BY <1>1, <2>1, <2>2 DEF ChainIntact
  <2>10. NoForkInProcess'
    <3> SUFFICES ASSUME NEW u \in Thread, pc'[u] = "linked", NEW i \in DOMAIN Table,
                        i > head'[u].seq
                 PROVE  author[i] # ProcessOf[u]
      BY <2>1, <2>2 DEF NoForkInProcess
    <3>1. CASE u # t
      BY <1>1, <2>1, <2>5, <2>6, <3>1 DEF NoForkInProcess
    <3>2. CASE u = t
      BY <1>1, <1>4, <2>1, <2>4, <2>5, <3>2 DEF seen, View, DraftIsWriters, TypeOK
    <3> QED BY <3>1, <3>2
  <2> QED BY <2>8, <2>9, <2>10
<1>7. ASSUME NEW t \in Thread, Insert(t)
      PROVE  HeadsGenuine' /\ ChainIntact' /\ NoForkInProcess'
  <2> DEFINE row == Link(head[t], entry[t])
  <2>1. /\ tamper = NoTamper /\ pc[t] = "linked" /\ ~Taken(row) /\ MayWrite(t)
        /\ draft' = Append(draft, row) /\ UNCHANGED <<rows, head>>
        /\ author' = Append(author, ProcessOf[t]) /\ writer' = ProcessOf[t]
        /\ pc' = [pc EXCEPT ![t] = "inserted"]
    BY <1>7 DEF Insert, Inserted, Reserves
  <2>2. head[t] = HeadOf(Table)
    BY <1>1, <2>1, UnrefusedIsLast
  <2>0. row \in RowType /\ rows \in Seq(RowType) /\ draft \in Seq(RowType)
    BY <1>1, LinkType DEF TypeOK
  <2>3. Chained(Append(Table, row))
    BY <1>1, <1>4, <2>1, <2>2, ChainGrows DEF ChainIntact, TypeOK
  <2> HIDE DEF row
  <2>4. Table' = Append(Table, row)
    BY <2>0, <2>1, JoinAppend DEF Table
  <2>5. ChainIntact'
    BY <2>3, <2>4 DEF ChainIntact
  <2>6. /\ Len(Table') = Len(Table) + 1 /\ DOMAIN Table' = 1 .. Len(Table) + 1
        /\ \A i \in 1 .. Len(Table) : Table'[i] = Table[i]
    BY <1>4, <2>0, <2>4
  <2>7. /\ author'[Len(Table) + 1] = ProcessOf[t]
        /\ \A i \in 1 .. Len(Table) : author'[i] = author[i]
    <3>1. /\ author \in Seq(Process) /\ Len(author) = Len(Table)
          /\ ProcessOf[t] \in Process
      BY <1>1, TableType, ThreadsAssumption DEF TypeOK
    <3>2. author' = Append(author, ProcessOf[t])
      BY <2>1
    <3> QED BY <3>1, <3>2, AppendProperties
  <2>8. \A u \in Thread : u # t => pc'[u] = pc[u]
    BY <1>1, <2>1 DEF TypeOK
  <2>9. pc'[t] # "linked"
    BY <1>1, <2>1 DEF TypeOK
  <2>10. \A u \in Thread : u # t /\ pc[u] = "linked" => ProcessOf[u] # ProcessOf[t]
    BY <1>1, <2>1 DEF LockHeld
  <2>11. \A q \in Process : q # ProcessOf[t] => View(q)' = View(q)
    <3>1. writer \in {Nobody, ProcessOf[t]} /\ \A q \in Process : q # Nobody
      BY <2>1, ThreadsAssumption DEF MayWrite
    <3> QED BY <2>1, <3>1 DEF View
  <2>12. HeadsGenuine'
    <3> SUFFICES ASSUME NEW u \in Thread, pc'[u] = "linked"
                 PROVE  /\ head[u].seq \in 0 .. Len(View(ProcessOf[u])')
                        /\ head[u].hash = IF head[u].seq = 0 THEN GENESIS_HASH
                                                             ELSE Table'[head[u].seq].hash
      BY <2>1 DEF HeadsGenuine
    <3>1. pc[u] = "linked" /\ ProcessOf[u] # ProcessOf[t] /\ ProcessOf[u] \in Process
      BY <1>4, <2>8, <2>9, <2>10
    <3>2. View(ProcessOf[u])' = View(ProcessOf[u])
      BY <2>11, <3>1
    <3>3. /\ head[u].seq \in 0 .. Len(View(ProcessOf[u]))
          /\ head[u].hash = IF head[u].seq = 0 THEN GENESIS_HASH ELSE Table[head[u].seq].hash
      BY <1>1, <2>1, <3>1 DEF HeadsGenuine
    <3>4. Len(View(ProcessOf[u])) \in Nat /\ Len(View(ProcessOf[u])) <= Len(Table)
      BY <1>4
    <3>5. head[u].seq # 0 => head[u].seq \in 1 .. Len(Table)
      BY <1>4, <3>3, <3>4
    <3> QED BY <2>6, <3>2, <3>3, <3>5
  <2>13. NoForkInProcess'
    <3> SUFFICES ASSUME NEW u \in Thread, pc'[u] = "linked", NEW i \in DOMAIN Table',
                        i > head[u].seq
                 PROVE  author'[i] # ProcessOf[u]
      BY <2>1 DEF NoForkInProcess
    <3>1. pc[u] = "linked" /\ ProcessOf[u] # ProcessOf[t]
      BY <2>8, <2>9, <2>10
    <3>2. CASE i = Len(Table) + 1
      BY <2>7, <3>1, <3>2
    <3>3. CASE i \in 1 .. Len(Table)
      BY <1>1, <1>4, <2>1, <2>7, <3>1, <3>3 DEF NoForkInProcess
    <3> QED BY <1>4, <2>6, <3>2, <3>3
  <2> QED BY <2>5, <2>12, <2>13
<1>8. ASSUME NEW t \in Thread, Refuse(t)
      PROVE  HeadsGenuine' /\ ChainIntact' /\ NoForkInProcess'
  <2>1. /\ UNCHANGED <<rows, draft, author, tamper>>
        /\ writer' = writer \/ (writer = Nobody /\ writer' = ProcessOf[t])
    BY <1>8 DEF Refuse, Reserves, MayWrite
  <2>2. UNCHANGED Table
    BY <2>1 DEF Table
  <2>3. \A u \in Thread : View(ProcessOf[u])' \in {View(ProcessOf[u]), Table}
    BY <1>1, <2>1, <2>2, TableType, ThreadsAssumption DEF View, TypeOK
  <2>4. \A u \in Thread : pc'[u] = "linked" => pc[u] = "linked" /\ head'[u] = head[u]
    BY <1>1, <1>8 DEF Refuse, Release, TypeOK
  <2> QED BY <1>5, <2>1, <2>2, <2>3, <2>4
<1>9. ASSUME NEW t \in Thread, VerifyRows(t) \/ ReportHead(t) \/ CommitBusy(t)
      PROVE  HeadsGenuine' /\ ChainIntact' /\ NoForkInProcess'
  <2>1. UNCHANGED <<rows, draft, writer, author, tamper>>
    BY <1>9 DEF VerifyRows, ReportHead, CommitBusy, transaction
  <2>2. UNCHANGED Table /\ \A q : UNCHANGED View(q)
    BY <2>1 DEF Table, View
  <2>3. \A u \in Thread : pc'[u] = "linked" => pc[u] = "linked" /\ head'[u] = head[u]
    BY <1>1, <1>9 DEF VerifyRows, ReportHead, CommitBusy, Release, TypeOK
  <2> QED BY <1>5, <2>1, <2>2, <2>3
<1>12. ASSUME NEW t \in Thread, Commit(t)
       PROVE  HeadsGenuine' /\ ChainIntact' /\ NoForkInProcess'
  <2>1. /\ rows' = Table /\ draft' = <<>> /\ writer' = Nobody /\ UNCHANGED <<author, tamper>>
    BY <1>12 DEF Commit
  <2>2. Table' = Table /\ \A q : View(q)' = Table
    <3>1. Table' = Table
      BY <1>4, <2>1, JoinNothing DEF Table
    <3> QED BY <2>1, <3>1 DEF View
  <2>3. \A u \in Thread : pc'[u] = "linked" => pc[u] = "linked" /\ head'[u] = head[u]
    BY <1>1, <1>12 DEF Commit, Release, TypeOK
  <2> QED BY <1>5, <2>1, <2>2, <2>3
\* A transaction rolled back takes along the threads that could have read in it.
<1>10. ASSUME NEW p \in Process, RollBack(p), UNCHANGED <<rows, tamper>>,
              \A u \in Thread : pc'[u] = "linked" =>
                 pc[u] = "linked" /\ head'[u] = head[u] /\ ProcessOf[u] # p
       PROVE  HeadsGenuine' /\ ChainIntact' /\ NoForkInProcess'
  <2>1. /\ Table' \in Seq(RowType) /\ Table' \in {rows, Table}
        /\ \A i \in DOMAIN Table' : author'[i] = author[i]
        /\ \A q \in Process : q # p => View(q)' = View(q)
    BY <1>1, <1>10, RolledBack
  <2>2. /\ Len(Table') \in Nat /\ Len(Table') <= Len(Table) /\ DOMAIN Table' = 1 .. Len(Table')
        /\ \A i \in 1 .. Len(Table') : Table'[i] = Table[i] /\ i \in 1 .. Len(Table)
    BY <1>4, <2>1
  <2>3. ChainIntact'
    BY <1>1, <1>10, <2>1, RowsChained DEF ChainIntact
  <2>4. NoForkInProcess'
    BY <1>1, <1>4, <1>10, <2>1, <2>2 DEF NoForkInProcess
  <2>5. HeadsGenuine'
    <3> SUFFICES ASSUME NEW u \in Thread, pc'[u] = "linked"
                 PROVE  /\ head'[u].seq \in 0 .. Len(View(ProcessOf[u])')
                        /\ head'[u].hash = IF head'[u].seq = 0 THEN GENESIS_HASH
                                                              ELSE Table'[head'[u].seq].hash
      BY DEF HeadsGenuine
    <3>1. pc[u] = "linked" /\ head'[u] = head[u] /\ ProcessOf[u] # p /\ ProcessOf[u] \in Process
      BY <1>4, <1>10
    <3>2. View(ProcessOf[u])' = View(ProcessOf[u])
      BY <2>1, <3>1
    <3>3. /\ head[u].seq \in 0 .. Len(View(ProcessOf[u]))
          /\ head[u].hash = IF head[u].seq = 0 THEN GENESIS_HASH ELSE Table[head[u].seq].hash
      BY <1>1, <1>10, <3>1 DEF HeadsGenuine
    <3>4. View(ProcessOf[u])' \in {rows', Table'} /\ Len(rows) <= Len(Table')
      BY <1>4, <1>10, <2>1 DEF View
    <3>5. head[u].seq # 0 => head[u].seq \in 1 .. Len(Table')
      BY <1>4, <1>10, <2>2, <3>2, <3>3, <3>4
    <3> QED BY <2>2, <3>1, <3>2, <3>3, <3>5
  <2> QED BY <2>3, <2>4, <2>5
<1>13. ASSUME NEW p \in Process, Crash(p)
       PROVE  HeadsGenuine' /\ ChainIntact' /\ NoForkInProcess'
  <2>1. RollBack(p) /\ UNCHANGED <<rows, tamper>>
    BY <1>13 DEF Crash
  <2>2. \A u \in Thread : pc'[u] = "linked" =>
           pc[u] = "linked" /\ head'[u] = head[u] /\ ProcessOf[u] # p
    BY <1>13 DEF Crash
  <2> QED BY <1>10, <2>1, <2>2
<1>14. ASSUME NEW t \in Thread, Lose(t)
       PROVE  HeadsGenuine' /\ ChainIntact' /\ NoForkInProcess'
  <2>1. RollBack(ProcessOf[t]) /\ UNCHANGED <<rows, tamper>> /\ Release(t)
        /\ pc[t] \in {"linked", "inserted"}
    BY <1>14 DEF Lose
  <2>2. \A u \in Thread : pc'[u] = "linked" =>
           pc[u] = "linked" /\ head'[u] = head[u] /\ ProcessOf[u] # ProcessOf[t]
    BY <1>1, <2>1 DEF LockHeld, Release, TypeOK
  <2> QED BY <1>4, <1>10, <2>1, <2>2
<1>11. CASE UNCHANGED vars
  <2>1. UNCHANGED Table /\ \A q : UNCHANGED View(q)
    BY <1>11 DEF vars, transaction, Table, View
  <2> QED BY <1>5, <1>11, <2>1 DEF vars, transaction
<1> QED BY <1>3, <1>6, <1>7, <1>8, <1>9, <1>11, <1>12, <1>13, <1>14 DEF Next, Step

\* Until somebody tampers the table is one unforked chain, whatever the
\* interleaving of threads, processes and process deaths.
THEOREM LedgerChained == Spec => []ChainIntact
<1>1. LedgerInv => ChainIntact
  BY DEF LedgerInv
<1> QED BY <1>1, InvInit, InvStep, PTL DEF Spec

\* No append of a process is refused because of an append of that process.
THEOREM LedgerUnforkedInProcess == Spec => []NoForkInProcess
<1>1. LedgerInv => NoForkInProcess
  BY DEF LedgerInv
<1> QED BY <1>1, InvInit, InvStep, PTL DEF Spec

-----------------------------------------------------------------------------
(* The log everybody above relies on.                                      *)

EntriesHonest ==
  /\ \A t \in Thread : pc[t] = "linked" => entry[t] \in Payload
  /\ \A i \in DOMAIN draft : draft[i].payload \in Payload

LEMMA EntriesStep == TypeOK /\ EntriesHonest /\ [Next]_vars => EntriesHonest'
<1> SUFFICES ASSUME TypeOK, EntriesHonest, [Next]_vars PROVE EntriesHonest'
  OBVIOUS
<1>0. \A t \in Thread : pc[t] = "linked" => entry[t] \in Payload
  BY DEF EntriesHonest
<1> USE DEF TypeOK
<1>1. ASSUME UNCHANGED draft \/ draft' = <<>>,
             \A u \in Thread : pc'[u] = "linked" => entry'[u] \in Payload
      PROVE  EntriesHonest'
  BY <1>1 DEF EntriesHonest
<1>2. ASSUME NEW t \in Thread, NEW p \in Payload, ReadHead(t, p) PROVE EntriesHonest'
  BY <1>0, <1>1, <1>2 DEF ReadHead, ReadHeadWith
<1>3. ASSUME NEW t \in Thread, Insert(t) PROVE EntriesHonest'
  <2> DEFINE row == Link(head[t], entry[t])
  <2>1. row \in RowType /\ row.payload = entry[t] /\ entry[t] \in Payload
    BY <1>0, <1>3, LinkType DEF Link, Insert, Inserted
  <2>2. /\ draft' = Append(draft, row) /\ draft \in Seq(RowType)
        /\ pc' = [pc EXCEPT ![t] = "inserted"] /\ UNCHANGED entry
    BY <1>3 DEF Insert, Inserted
  <2> HIDE DEF row
  <2>3. /\ DOMAIN draft' = 1 .. Len(draft) + 1 /\ DOMAIN draft = 1 .. Len(draft)
        /\ Len(draft) \in Nat
        /\ \A i \in 1 .. Len(draft) : draft'[i] = draft[i]
        /\ draft'[Len(draft) + 1] = row
    BY <2>1, <2>2, AppendProperties, LenProperties
  <2>4. ASSUME NEW i \in DOMAIN draft' PROVE draft'[i].payload \in Payload
    <3>1. CASE i = Len(draft) + 1
      BY <2>1, <2>3, <3>1
    <3>2. CASE i \in 1 .. Len(draft)
      BY <2>3, <3>2 DEF EntriesHonest
    <3> QED BY <2>3, <3>1, <3>2
  <2>5. \A u \in Thread : pc'[u] = "linked" => entry'[u] \in Payload
    BY <1>0, <2>2
  <2> QED BY <2>4, <2>5 DEF EntriesHonest
<1>4. ASSUME NEW t \in Thread, Commit(t) \/ CommitBusy(t) \/ Refuse(t) \/ Lose(t)
      PROVE  EntriesHonest'
  BY <1>0, <1>1, <1>4 DEF Commit, CommitBusy, Refuse, Lose, RollBack, Release, transaction
<1>5. ASSUME NEW t \in Thread, VerifyRows(t) \/ ReportHead(t) PROVE EntriesHonest'
  BY <1>0, <1>1, <1>5 DEF VerifyRows, ReportHead
<1>6. ASSUME NEW p \in Process, Crash(p) PROVE EntriesHonest'
  BY <1>0, <1>1, <1>6 DEF Crash, RollBack
<1>7. ASSUME NEW i, EditRow(i) \/ RehashRow(i) \/ RemoveRow(i) \/ RelinkRow(i)
      PROVE  EntriesHonest'
  BY <1>0, <1>1, <1>7 DEF EditRow, RehashRow, RemoveRow, RelinkRow, Tamper
<1>8. CASE UNCHANGED vars
  BY <1>0, <1>1, <1>8 DEF vars, transaction
<1> QED BY <1>2, <1>3, <1>4, <1>5, <1>6, <1>7, <1>8 DEF Next, Step

RowsHonest == tamper = NoTamper => \A i \in DOMAIN rows : rows[i].payload \in Payload

\* The committed rows change by a commit or with raw SQL.
LEMMA RowsChange ==
  ASSUME [Next]_vars
  PROVE  \/ UNCHANGED <<rows, tamper>>
         \/ \E t \in Thread : Commit(t)
         \/ \E i \in 1 .. MaxRows : EditRow(i) \/ RehashRow(i) \/ RemoveRow(i) \/ RelinkRow(i)
<1>1. ASSUME NEW t \in Thread, Step(t) PROVE UNCHANGED <<rows, tamper>> \/ Commit(t)
  BY <1>1 DEF Step, ReadHead, ReadHeadWith, Insert, Inserted, CommitBusy, Refuse, Lose, VerifyRows,
              ReportHead
<1>2. ASSUME NEW p \in Process, Crash(p) PROVE UNCHANGED <<rows, tamper>>
  BY <1>2 DEF Crash
<1>3. CASE UNCHANGED vars
  BY <1>3 DEF vars
<1> QED BY <1>1, <1>2, <1>3 DEF Next

\* What a commit does to the rows: those of its draft behind them.
LEMMA CommitAppends ==
  ASSUME TypeOK, NEW t \in Thread, Commit(t)
  PROVE  /\ rows' \in Seq(RowType) /\ rows' = Table /\ UNCHANGED tamper
         /\ Len(rows) \in Nat /\ Len(rows') \in Nat
         /\ Len(rows') = Len(rows) + Len(draft) /\ Len(draft) \in Nat
         /\ DOMAIN rows = 1 .. Len(rows) /\ DOMAIN rows' = 1 .. Len(rows')
         /\ \A i \in 1 .. Len(rows) : rows'[i] = rows[i]
BY TableType DEF Commit

LEMMA RowsHonestStep ==
  ASSUME TypeOK, EntriesHonest, RowsHonest, [Next]_vars
  PROVE  RowsHonest'
<1>1. ASSUME NEW t \in Thread, Commit(t) PROVE RowsHonest'
  <2> SUFFICES ASSUME tamper = NoTamper, NEW i \in DOMAIN rows'
               PROVE  rows'[i].payload \in Payload
    BY <1>1, CommitAppends DEF RowsHonest
  <2>0. /\ rows' = Table /\ Len(rows') = Len(rows) + Len(draft)
        /\ Len(rows) \in Nat /\ Len(draft) \in Nat
        /\ DOMAIN rows = 1 .. Len(rows) /\ DOMAIN rows' = 1 .. Len(rows')
    BY <1>1, CommitAppends
  <2>1. CASE i \in 1 .. Len(rows)
    BY <1>1, <2>0, <2>1, CommitAppends DEF RowsHonest
  <2>2. CASE i \notin 1 .. Len(rows)
    <3> DEFINE k == i - Len(rows)
    <3>1. k \in 1 .. Len(draft) /\ i = Len(rows) + k
      BY <2>0, <2>2
    <3> HIDE DEF k
    <3>2. rows \in Seq(RowType) /\ draft \in Seq(RowType) /\ DOMAIN draft = 1 .. Len(draft)
      BY LenProperties DEF TypeOK
    <3>3. Table[i] = draft[k]
      BY <3>1, <3>2, Joined DEF Table
    <3> QED BY <2>0, <3>1, <3>2, <3>3 DEF EntriesHonest
  <2> QED BY <2>1, <2>2
<1>2. ASSUME UNCHANGED <<rows, tamper>> PROVE RowsHonest'
  BY <1>2 DEF RowsHonest
<1>3. ASSUME NEW i, EditRow(i) \/ RehashRow(i) \/ RemoveRow(i) \/ RelinkRow(i)
      PROVE  RowsHonest'
  BY <1>3, TamperShows DEF EditRow, RehashRow, RemoveRow, RelinkRow, RowsHonest
<1> QED BY <1>1, <1>2, <1>3, RowsChange

\* Every step of the ledger puts rows at the end of the log or leaves it.
LEMMA LogStep ==
  ASSUME MaxTampers = 0, TypeOK, tamper = NoTamper, RowsHonest, RowsHonest', tamper' = NoTamper,
         [Next]_vars
  PROVE  [AbstractLog!Grow]_([i \in DOMAIN rows |-> rows[i].payload])
<1> DEFINE shown == [i \in DOMAIN rows |-> rows[i].payload]
<1>1. ASSUME UNCHANGED rows PROVE UNCHANGED shown
  BY <1>1
<1>2. ASSUME NEW t \in Thread, Commit(t) PROVE AbstractLog!Grow \/ UNCHANGED shown
  <2>1. /\ Len(rows) \in Nat /\ Len(rows') \in Nat /\ Len(draft) \in Nat
        /\ Len(rows') = Len(rows) + Len(draft)
        /\ DOMAIN rows = 1 .. Len(rows) /\ DOMAIN rows' = 1 .. Len(rows')
        /\ \A i \in 1 .. Len(rows) : rows'[i] = rows[i]
    BY <1>2, CommitAppends
  <2>2. CASE Len(draft) = 0
    <3>1. rows' = rows
      <4>1. draft = <<>>
        BY <2>2, EmptySeq DEF TypeOK
      <4> QED BY <1>2, <4>1, TableType, CommitAppends
    <3> QED BY <1>1, <3>1
  <2>3. CASE Len(draft) # 0
    <3>1. /\ shown \in [1 .. Len(rows) -> Payload]
          /\ shown' \in [1 .. Len(rows') -> Payload]
          /\ \A i \in 1 .. Len(rows) : shown'[i] = shown[i]
      <4>1. \A i \in 1 .. Len(rows) : rows[i].payload \in Payload
        BY <2>1 DEF RowsHonest
      <4>2. \A i \in 1 .. Len(rows') : rows'[i].payload \in Payload
        BY <2>1 DEF RowsHonest
      <4> QED BY <2>1, <4>1, <4>2
    <3> DEFINE now == shown'
    <3> HIDE DEF shown, now
    <3>2. now \in Seq(Payload) /\ Len(now) = Len(rows')
      BY <2>1, <3>1 DEF now
    <3>3. Len(shown) = Len(rows) /\ DOMAIN shown = 1 .. Len(rows)
      BY <2>1, <3>1
    <3>4. Len(shown) < Len(now) /\ \A i \in DOMAIN shown : now[i] = shown[i]
      BY <2>1, <2>3, <3>1, <3>2, <3>3 DEF now
    <3> QED BY <3>2, <3>4 DEF AbstractLog!Grow, now, shown
  <2> QED BY <2>2, <2>3
<1>3. ASSUME NEW i, EditRow(i) \/ RehashRow(i) \/ RemoveRow(i) \/ RelinkRow(i) PROVE FALSE
  BY <1>3 DEF EditRow, RehashRow, RemoveRow, RelinkRow, Tamper, TypeOK
<1>4. UNCHANGED rows \/ \E t \in Thread : Commit(t)
  BY <1>3, RowsChange
<1> HIDE DEF shown
<1>5. [AbstractLog!Grow]_shown
  BY <1>1, <1>2, <1>4
<1> QED BY <1>5 DEF shown

\* With nobody at the raw file the hash-chained table implements a log that
\* only ever grows at its end.
THEOREM LedgerImplementsAppendLog ==
  ASSUME MaxTampers = 0
  PROVE  Spec => ImplementsAppendLog
<1> DEFINE Inv == TypeOK /\ EntriesHonest /\ RowsHonest /\ tamper = NoTamper
<1>1. Init => Inv
  BY TypeInit DEF Init, EntriesHonest, RowsHonest
<1>2. Inv /\ [Next]_vars => Inv'
  <2> SUFFICES ASSUME Inv, [Next]_vars PROVE Inv'
    OBVIOUS
  <2>1. UNCHANGED tamper
    <3>1. ASSUME NEW i, EditRow(i) \/ RehashRow(i) \/ RemoveRow(i) \/ RelinkRow(i) PROVE FALSE
      BY <3>1 DEF EditRow, RehashRow, RemoveRow, RelinkRow, Tamper, TypeOK
    <3> QED BY <3>1, RowsChange DEF Commit
  <2> QED BY <2>1, TypeStep, EntriesStep, RowsHonestStep
<1>3. Init => AbstractLog!Init
  BY DEF Init, AbstractLog!Init
<1>4. Inv /\ Inv' /\ [Next]_vars
        => [AbstractLog!Grow]_([i \in DOMAIN rows |-> rows[i].payload])
  BY LogStep
<1> HIDE DEF Inv
<1> QED BY <1>1, <1>2, <1>3, <1>4, PTL DEF Spec, ImplementsAppendLog, AbstractLog!Spec

-----------------------------------------------------------------------------
(* What a head commits to.                                                 *)

\* A hash is of one row after one hash only.
LEMMA HashInjective ==
  ASSUME NEW s \in Nat, NEW u \in Nat, NEW p \in Written, NEW q \in Written,
         NEW h \in Digest, NEW k \in Digest,
         Hash(s, p, h) = Hash(u, q, k)
  PROVE  s = u /\ p = q /\ h = k
<1>1. <<s, p>> \in Nat \X Written /\ <<u, q>> \in Nat \X Written
  OBVIOUS
<1>2. h = k /\ <<s, p>> = <<u, q>>
  BY <1>1, AppendInjective DEF Hash, Digest
<1> QED
  BY <1>2

\* Two unbroken chains in which one hash occurs are the same up to it.
LEMMA ChainsMeet ==
  ASSUME NEW a \in Seq(RowType), NEW b \in Seq(RowType), Chained(a), Chained(b),
         NEW i \in DOMAIN a, b # <<>>, a[i].hash = b[Len(b)].hash
  PROVE  SubSeq(a, 1, i) = b
<1>1. /\ DOMAIN a = 1 .. Len(a) /\ DOMAIN b = 1 .. Len(b) /\ Len(a) \in Nat /\ Len(b) \in Nat
      /\ \A k \in DOMAIN a : a[k] \in RowType
      /\ \A k \in DOMAIN b : b[k] \in RowType
      /\ Len(b) \in DOMAIN b
  BY LenProperties, ElementOfSeq
<1>2. ASSUME NEW k \in DOMAIN a, NEW n \in DOMAIN b, a[k].hash = b[n].hash
      PROVE  k = n /\ a[k] = b[n] /\ PrevHash(a, k) = PrevHash(b, n)
  <2>1. /\ a[k].hash = Hash(k, a[k].payload, a[k].prev) /\ a[k].prev = PrevHash(a, k)
        /\ b[n].hash = Hash(n, b[n].payload, b[n].prev) /\ b[n].prev = PrevHash(b, n)
        /\ a[k].seq = k /\ b[n].seq = n
    BY DEF Chained
  <2>2. a[k] \in RowType /\ b[n] \in RowType
    BY <1>1
  <2>3. /\ a[k].prev \in Digest /\ b[n].prev \in Digest
        /\ a[k].payload \in Written /\ b[n].payload \in Written
        /\ k \in Nat /\ n \in Nat
    BY <1>1, <2>2 DEF RowType
  <2>4. Hash(k, a[k].payload, a[k].prev) = Hash(n, b[n].payload, b[n].prev)
    BY <1>2, <2>1
  <2>5. k = n /\ a[k].payload = b[n].payload /\ a[k].prev = b[n].prev
    BY <2>3, <2>4, HashInjective
  <2>6. a[k] = b[n]
    <3>1. \A row \in RowType :
            row = [seq |-> row.seq, payload |-> row.payload, prev |-> row.prev, hash |-> row.hash]
      BY DEF RowType
    <3>2. a[k].seq = b[n].seq /\ a[k].hash = b[n].hash
      BY <1>2, <2>1, <2>5
    <3> QED
      BY <2>2, <2>5, <3>1, <3>2
  <2> QED
    BY <2>1, <2>5, <2>6
<1>3. i = Len(b)
  BY <1>1, <1>2
<1> DEFINE apart == {k \in 1 .. i : a[k].hash # b[k].hash}
<1>4. apart = {}
  <2> SUFFICES ASSUME apart # {}
               PROVE  FALSE
    OBVIOUS
  <2> DEFINE gaps == {i - k : k \in apart}
  <2>1. gaps \in SUBSET Nat /\ gaps # {}
    BY <1>1
  <2>2. PICK gap \in gaps : \A other \in gaps : gap <= other
    BY <2>1, LeastElement
  <2>3. PICK k \in apart : gap = i - k
    BY <2>2
  <2>0. \A n \in apart : n \in 1 .. i /\ i - n \in gaps
    OBVIOUS
  <2>4. k \in 1 .. i /\ a[k].hash # b[k].hash /\ \A n \in apart : n <= k
    <3>1. i \in Nat /\ k \in 1 .. i
      BY <1>1, <2>0
    <3>2. \A n \in apart : i - k <= i - n /\ n \in 1 .. i
      BY <2>0, <2>2, <2>3
    <3>3. \A n \in apart : n <= k
      <4> HIDE DEF apart
      <4> QED BY <3>1, <3>2
    <3> QED
      BY <3>1, <3>3
  <2>5. k # i
    BY <1>3, <2>4
  <2>6. k + 1 \in 1 .. i /\ k + 1 # 1 /\ (k + 1) - 1 = k
        /\ k + 1 \in DOMAIN a /\ k + 1 \in DOMAIN b /\ ~ (k + 1 <= k)
    <3>1. i \in Nat /\ i <= Len(a) /\ i <= Len(b) /\ k \in 1 .. i
      BY <1>1, <1>3, <2>4
    <3> HIDE DEF apart
    <3> QED
      BY <1>1, <2>5, <3>1
  <2>8. a[k + 1].hash = b[k + 1].hash
    BY <2>4, <2>6
  <2>7. PrevHash(a, k + 1) = PrevHash(b, k + 1)
    BY <1>2, <2>6, <2>8
  <2> QED
    BY <2>4, <2>6, <2>7 DEF PrevHash
<1>5. \A k \in 1 .. i : a[k] = b[k]
  BY <1>1, <1>2, <1>3, <1>4
<1>6. SubSeq(a, 1, i) = [k \in 1 .. i |-> a[k]]
  BY <1>1
<1>7. b = [k \in 1 .. i |-> b[k]]
  BY <1>1, <1>3
<1> QED
  BY <1>5, <1>6, <1>7

LEMMA UnbrokenIsChained == \A table : Breaks(table) = {} <=> Chained(table)
BY DEF Breaks, Chained, SequenceJump, LinkBreak, ContentBreak

LEMMA NotedStep == LedgerInv /\ Chained(noted) /\ [Next]_vars => Chained(noted)'
<1> SUFFICES ASSUME LedgerInv, Chained(noted), [Next]_vars
             PROVE  Chained(noted)'
  OBVIOUS
<1>1. ASSUME NEW t \in Thread, ReportHead(t)
      PROVE  Chained(noted)'
  <2>1. tamper = NoTamper => Chained(View(ProcessOf[t]))
    BY RowsChained DEF LedgerInv, ChainIntact
  <2> QED BY <1>1, <2>1 DEF ReportHead
<1>2. CASE UNCHANGED noted
  BY <1>2
<1>3. ASSUME NEW t \in Thread, Step(t) PROVE UNCHANGED noted \/ ReportHead(t)
  BY <1>3 DEF Step, ReadHead, ReadHeadWith, Insert, Inserted, Commit, CommitBusy, Refuse, Lose,
              VerifyRows
<1>4. ASSUME NEW i, EditRow(i) \/ RehashRow(i) \/ RemoveRow(i) \/ RelinkRow(i)
      PROVE  UNCHANGED noted
  BY <1>4 DEF EditRow, RehashRow, RemoveRow, RelinkRow, Tamper
<1> QED
  BY <1>1, <1>2, <1>3, <1>4 DEF Next, Crash, vars

\* A head written down before anybody tampered commits to the whole history:
\* whatever was done to the table since, with raw SQL and with every later hash
\* recomputed, a table that verifies and holds that head holds the rows there
\* were, and nothing else before it (Ledger.head, verify, compute_hash).
THEOREM LedgerHeadCommits == Spec => []HeadCommits
<1>1. Init => LedgerInv /\ Chained(noted)
  BY InvInit DEF Init, Chained
<1>2. LedgerInv /\ Chained(noted) => HeadCommits
  BY ChainsMeet, UnbrokenIsChained DEF LedgerInv, TypeOK, HeadCommits
<1> QED
  BY <1>1, <1>2, InvStep, NotedStep, PTL DEF Spec

-----------------------------------------------------------------------------
(* What verify() answers.                                                  *)

LEMMA ChainedVerifies ==
  ASSUME NEW table, Chained(table)
  PROVE  Verify(table).ok /\ Verify(table).checked = Len(table)
BY UnbrokenIsChained DEF Verify

\* What a caller holds is true of a table: of the rows there were when it was
\* read, and they are still there.
Holds(answer, table) ==
  /\ answer.walk.checked <= Len(table)
  /\ answer.walk.checked > 0 /\ answer.head # GENESIS_HASH
       => \E i \in answer.walk.checked .. Len(table) : table[i].hash = answer.head

ReportsHold ==
  tamper = NoTamper =>
    \A t \in Thread :
      /\ report[t].walk.ok
      /\ failures = 0 => Holds(report[t], View(ProcessOf[t]))

LEMMA NothingHolds ==
  /\ NoReport.walk.ok /\ NoReport.walk.checked = 0
  /\ \A table \in Seq(RowType) : Holds(NoReport, table)
<1>1. Chained(<<>>) /\ Len(<<>>) = 0
  BY DEF Chained
<1>2. NoReport.walk.ok /\ NoReport.walk.checked = 0
  BY <1>1, ChainedVerifies DEF NoReport
<1> QED
  BY <1>2 DEF Holds

\* What holds of a table holds of one that has more rows behind it.
LEMMA HoldsStays ==
  ASSUME NEW a \in Seq(RowType), NEW b \in Seq(RowType), Len(a) <= Len(b),
         \A i \in 1 .. Len(a) : b[i] = a[i],
         NEW answer \in [walk : WalkType, head : Digest], Holds(answer, a)
  PROVE  Holds(answer, b)
<1>1. answer.walk.checked \in Nat
  BY DEF WalkType
<1>2. Len(a) \in Nat /\ Len(b) \in Nat
  BY LenProperties
<1>3. \A i \in answer.walk.checked .. Len(a) :
        answer.walk.checked > 0 => i \in 1 .. Len(a) /\ i \in answer.walk.checked .. Len(b)
  BY <1>1, <1>2
<1> QED
  BY <1>1, <1>2, <1>3 DEF Holds

\* Without raw SQL and I/O errors nothing a process sees goes, unless it dies.
LEMMA ViewGrows ==
  ASSUME LedgerInv, tamper' = NoTamper, failures' = 0, [Next]_vars, NEW p \in Process,
         ~ Crash(p)
  PROVE  /\ failures = 0 /\ tamper = NoTamper
         /\ View(p) \in Seq(RowType) /\ View(p)' \in Seq(RowType)
         /\ Len(View(p)) <= Len(View(p)')
         /\ \A i \in 1 .. Len(View(p)) : View(p)'[i] = View(p)[i]
<1> DEFINE Grown == /\ failures = 0 /\ tamper = NoTamper
                    /\ Len(View(p)) <= Len(View(p)')
                    /\ \A i \in 1 .. Len(View(p)) : View(p)'[i] = View(p)[i]
<1>1. TypeOK /\ TypeOK'
  BY TypeStep DEF LedgerInv
<1>2. /\ Table \in Seq(RowType) /\ Len(Table) \in Nat /\ Len(rows) \in Nat
      /\ Len(rows) <= Len(Table) /\ \A i \in 1 .. Len(rows) : Table[i] = rows[i]
      /\ \A q : View(q) \in Seq(RowType) /\ View(q) \in {rows, Table}
      /\ (draft = <<>> => Table = rows)
  BY <1>1, TableType
<1>3. View(p)' \in Seq(RowType)
  <2>1. rows' \in Seq(RowType) /\ draft' \in Seq(RowType)
    BY <1>1 DEF TypeOK
  <2>2. rows' \o draft' \in Seq(RowType)
    BY <2>1, Joined
  <2> QED BY <2>1, <2>2 DEF View, Table
<1>4. ASSUME View(p)' \in {View(p), Table}, failures = 0, tamper = NoTamper
      PROVE  Grown
  <2>1. View(p) \in {rows, Table}
    BY <1>2
  <2> QED BY <1>2, <1>4, <2>1
<1>5. ASSUME UNCHANGED <<rows, draft>>, failures = 0, tamper = NoTamper,
             writer' = writer \/ writer = Nobody
      PROVE  Grown
  <2>1. Table' = Table
    BY <1>5 DEF Table
  <2>2. writer = Nobody => draft = <<>>
    BY <1>1 DEF TypeOK
  <2>3. p # Nobody
    BY ThreadsAssumption
  <2>4. View(p)' \in {View(p), Table}
    BY <1>5, <2>1, <2>2, <2>3 DEF View
  <2> QED BY <1>4, <1>5, <2>4
<1>6. ASSUME NEW t \in Thread, Insert(t)
      PROVE  Grown
  <2> DEFINE row == Link(head[t], entry[t])
  <2>1. /\ failures = 0 /\ tamper = NoTamper /\ UNCHANGED rows
        /\ draft' = Append(draft, row) /\ writer' = ProcessOf[t]
        /\ writer \in {Nobody, ProcessOf[t]} /\ (writer = Nobody => draft = <<>>)
    BY <1>1, <1>6 DEF Insert, Inserted, Reserves, MayWrite, TypeOK
  <2>2. row \in RowType /\ rows \in Seq(RowType) /\ draft \in Seq(RowType)
    BY <1>1, LinkType DEF TypeOK
  <2> HIDE DEF row
  <2>3. Table' = Append(Table, row)
    BY <2>1, <2>2, JoinAppend DEF Table
  <2>4. Len(Table') = Len(Table) + 1 /\ \A i \in 1 .. Len(Table) : Table'[i] = Table[i]
    BY <1>2, <2>2, <2>3, AppendProperties
  <2>5. p # Nobody
    BY ThreadsAssumption
  <2>6. CASE p = ProcessOf[t]
    <3>1. View(p) = Table /\ View(p)' = Table'
      BY <1>2, <2>1, <2>6 DEF View
    <3> QED BY <1>2, <2>1, <2>4, <3>1
  <2>7. CASE p # ProcessOf[t]
    <3>1. View(p)' = View(p)
      BY <2>1, <2>5, <2>7 DEF View
    <3> QED BY <1>4, <2>1, <3>1
  <2> QED BY <2>6, <2>7
<1>7. ASSUME NEW t \in Thread, Commit(t)
      PROVE  Grown
  <2>1. /\ rows' = Table /\ draft' = <<>> /\ failures = 0 /\ tamper = NoTamper
    BY <1>7 DEF Commit
  <2>2. View(p)' = Table
    BY <1>2, <2>1, JoinNothing DEF View, Table
  <2> QED BY <1>4, <2>1, <2>2
<1>8. ASSUME NEW t \in Thread, Refuse(t)
      PROVE  Grown
  <2>1. failures = 0
    BY <1>1, <1>8 DEF Refuse, TypeOK
  <2> QED BY <1>5, <1>8, <2>1 DEF Refuse, Reserves, MayWrite
<1>9. ASSUME NEW t \in Thread, Lose(t)
      PROVE  FALSE
  BY <1>1, <1>9 DEF Lose, TypeOK
<1>10. ASSUME NEW t \in Thread, VerifyRows(t) \/ ReportHead(t) \/ CommitBusy(t)
       PROVE  Grown
  <2>1. UNCHANGED <<rows, draft, writer, failures, tamper>>
    BY <1>10 DEF VerifyRows, ReportHead, CommitBusy, transaction
  <2> QED BY <1>5, <2>1
<1>11. ASSUME NEW t \in Thread, NEW e \in Payload, ReadHead(t, e)
       PROVE  Grown
  <2>1. UNCHANGED <<rows, draft, writer, failures, tamper>>
    BY <1>11 DEF ReadHead, ReadHeadWith
  <2> QED BY <1>5, <2>1
<1>12. ASSUME NEW q \in Process, Crash(q)
       PROVE  Grown
  <2>1. RollBack(q) /\ UNCHANGED <<rows, failures, tamper>> /\ q # p
    BY <1>12 DEF Crash
  <2>2. View(p)' = View(p)
    BY <1>1, <2>1, RolledBack
  <2> QED BY <1>4, <2>1, <2>2
<1>13. ASSUME UNCHANGED vars PROVE Grown
  BY <1>5, <1>13 DEF vars, transaction
<1>14. \A i : ~ (EditRow(i) \/ RehashRow(i) \/ RemoveRow(i) \/ RelinkRow(i))
  BY <1>1, TamperShows DEF EditRow, RehashRow, RemoveRow, RelinkRow
<1>15. Grown
  <2> HIDE DEF Grown
  <2> QED BY <1>6, <1>7, <1>8, <1>9, <1>10, <1>11, <1>12, <1>13, <1>14 DEF Next, Step
<1> QED BY <1>2, <1>3, <1>15

LEMMA ReportsStep == LedgerInv /\ ReportsHold /\ [Next]_vars => ReportsHold'
<1> SUFFICES ASSUME LedgerInv, ReportsHold, [Next]_vars, tamper' = NoTamper, NEW t \in Thread
             PROVE  /\ report'[t].walk.ok
                    /\ failures' = 0 => Holds(report'[t], View(ProcessOf[t])')
  BY DEF ReportsHold
<1> DEFINE p == ProcessOf[t]
<1>1. /\ TypeOK /\ TypeOK' /\ tamper = NoTamper /\ p \in Process
      /\ View(p) \in Seq(RowType) /\ View(p)' \in Seq(RowType) /\ Chained(View(p))
  <2>1. \A i : ~ (EditRow(i) \/ RehashRow(i) \/ RemoveRow(i) \/ RelinkRow(i))
    BY TamperShows DEF EditRow, RehashRow, RemoveRow, RelinkRow, LedgerInv
  <2>2. tamper = NoTamper
    BY <2>1, RowsChange DEF Commit
  <2>3. TypeOK /\ TypeOK' /\ p \in Process
    BY TypeStep, ThreadsAssumption DEF LedgerInv
  <2>4. View(p)' \in Seq(RowType)
    <3>1. rows' \in Seq(RowType) /\ draft' \in Seq(RowType)
      BY <2>3 DEF TypeOK
    <3>2. rows' \o draft' \in Seq(RowType)
      BY <3>1, Joined
    <3> QED BY <3>1, <3>2 DEF View, Table
  <2> QED BY <2>2, <2>3, <2>4, RowsChained, TableType DEF LedgerInv, ChainIntact
<1>2. /\ report[t].walk.ok /\ (failures = 0 => Holds(report[t], View(p)))
      /\ report[t] \in [walk : WalkType, head : Digest]
  BY <1>1 DEF ReportsHold, TypeOK
<1>3. CASE report'[t] = report[t] /\ ~ Crash(p)
  <2>1. ASSUME failures' = 0 PROVE Holds(report[t], View(p)')
    <3>1. /\ failures = 0 /\ Len(View(p)) <= Len(View(p)')
          /\ \A i \in 1 .. Len(View(p)) : View(p)'[i] = View(p)[i]
      BY <1>1, <1>3, <2>1, ViewGrows
    <3> QED BY <1>1, <1>2, <3>1, HoldsStays
  <2> QED
    BY <1>2, <1>3, <2>1
<1>4. CASE report'[t] = NoReport
  BY <1>1, <1>4, NothingHolds
<1>5. ASSUME VerifyRows(t)
      PROVE  /\ report'[t].walk.ok
             /\ failures' = 0 => Holds(report'[t], View(p)')
  <2>1. /\ report'[t] = [walk |-> Verify(View(p)), head |-> GENESIS_HASH]
        /\ UNCHANGED <<rows, draft, writer>>
    BY <1>1, <1>5 DEF VerifyRows, TypeOK
  <2>2. View(p)' = View(p)
    BY <2>1 DEF View, Table
  <2>3. Verify(View(p)).ok /\ Verify(View(p)).checked = Len(View(p)) /\ Len(View(p)) \in Nat
    BY <1>1, ChainedVerifies, LenProperties
  <2> QED
    BY <2>1, <2>2, <2>3 DEF Holds
<1>6. ASSUME ReportHead(t)
      PROVE  /\ report'[t].walk.ok
             /\ failures' = 0 => Holds(report'[t], View(p)')
  <2>1. /\ report'[t].walk = report[t].walk /\ report'[t].head = HeadOf(View(p)).hash
        /\ UNCHANGED <<rows, draft, writer, failures>>
    BY <1>1, <1>6 DEF ReportHead, TypeOK
  <2>2. View(p)' = View(p) /\ Len(View(p)) \in Nat
    BY <1>1, <2>1, LenProperties DEF View, Table
  <2>3. report[t].walk.checked \in Nat
        /\ (failures = 0 => report[t].walk.checked <= Len(View(p)))
    BY <1>2 DEF Holds, WalkType
  <2>4. View(p) # <<>> => HeadOf(View(p)).hash = View(p)[Len(View(p))].hash
    BY DEF HeadOf
  <2>5. Len(View(p)) > 0 => View(p) # <<>>
    OBVIOUS
  <2>6. failures = 0 /\ report[t].walk.checked > 0 =>
          Len(View(p)) \in report[t].walk.checked .. Len(View(p)) /\ View(p) # <<>>
    BY <2>2, <2>3, <2>5
  <2> QED
    BY <1>2, <2>1, <2>2, <2>3, <2>4, <2>6 DEF Holds
<1>7. \/ report'[t] = report[t] /\ ~ Crash(p)
      \/ report'[t] = NoReport \/ VerifyRows(t) \/ ReportHead(t)
  <2>1. \A i : ~ (EditRow(i) \/ RehashRow(i) \/ RemoveRow(i) \/ RelinkRow(i))
    BY <1>1, TamperShows DEF EditRow, RehashRow, RemoveRow, RelinkRow
  <2>2. ASSUME NEW u \in Thread, Step(u)
        PROVE  report'[t] \in {report[t], NoReport} \/ VerifyRows(t) \/ ReportHead(t)
    BY <1>1, <2>2
       DEF Step, ReadHead, ReadHeadWith, Insert, Inserted, Commit, CommitBusy, Refuse, Lose,
           VerifyRows, ReportHead, TypeOK
  <2>3. ASSUME NEW q \in Process, Crash(q)
        PROVE  report'[t] \in {report[t], NoReport}
    BY <2>3 DEF Crash
  <2>4. Crash(p) => report'[t] = NoReport
    BY DEF Crash
  <2>5. report'[t] \in {report[t], NoReport} \/ VerifyRows(t) \/ ReportHead(t)
    BY <2>1, <2>2, <2>3 DEF Next, vars
  <2> QED
    BY <2>4, <2>5
<1> QED
  BY <1>3, <1>4, <1>5, <1>6, <1>7

\* GET /v1/ledger/verify never raises a false alarm, and the head it returns
\* commits to every row its walk counted, although walk and head are read under
\* two acquisitions of the lock, whatever threads and processes append between
\* them (api.verify_ledger, Ledger.verify, head).
THEOREM LedgerReportIsTrue == Spec => []ReportIsTrue
<1>1. Init => LedgerInv /\ ReportsHold
  <2> SUFFICES ASSUME Init PROVE LedgerInv /\ ReportsHold
    OBVIOUS
  <2>1. LedgerInv /\ TypeOK
    BY InvInit, TypeInit
  <2>2. \A t \in Thread : report[t] = NoReport
    BY DEF Init
  <2>3. \A q : View(q) \in Seq(RowType)
    BY <2>1, TableType
  <2> QED BY <2>1, <2>2, <2>3, NothingHolds DEF ReportsHold
<1>2. LedgerInv /\ ReportsHold => ReportIsTrue
  BY DEF ReportsHold, Holds, ReportIsTrue
<1> QED
  BY <1>1, <1>2, InvStep, ReportsStep, PTL DEF Spec

-----------------------------------------------------------------------------
(* Where and as what a break is named.                                     *)

FirstBreak(table, n) == n \in Breaks(table) /\ \A j \in Breaks(table) : n <= j

LEMMA VerifyNames ==
  ASSUME NEW table \in Seq(RowType), NEW n \in Nat, FirstBreak(table, n)
  PROVE  /\ Verify(table).broken = table[n].seq
         /\ Verify(table).detail = IF SequenceJump(table, n) THEN "jump"
                                   ELSE IF LinkBreak(table, n) THEN "link" ELSE "content"
<1> DEFINE bad == Breaks(table)
           at  == CHOOSE i \in bad : \A j \in bad : i <= j
<1>1. n \in bad /\ \A j \in bad : n <= j
  BY DEF FirstBreak
<1>2. at \in bad /\ \A j \in bad : at <= j
  BY <1>1
<1>3. ASSUME NEW i \in bad, \A j \in bad : i <= j
      PROVE  i = n \/ ~ (i \in Nat)
  BY <1>1, <1>3
<1>4. Verify(table) = [ok |-> FALSE, checked |-> at - 1, broken |-> table[at].seq,
                       detail |-> IF SequenceJump(table, at) THEN "jump"
                                  ELSE IF LinkBreak(table, at) THEN "link" ELSE "content"]
  BY <1>1 DEF Verify
<1>5. bad \subseteq Nat
  BY LenProperties DEF Breaks
<1>6. at = n
  <2> HIDE DEF at, bad
  <2> QED BY <1>2, <1>3, <1>5
<1> HIDE DEF at
<1> QED
  BY <1>4, <1>6

\* Whether a row is a break depends on it and on the row before it.
LEMMA BreaksBefore ==
  ASSUME NEW a \in Seq(RowType), NEW b \in Seq(RowType), NEW n \in Nat,
         n <= Len(a), n <= Len(b), \A j \in 1 .. n : a[j] = b[j]
  PROVE  \A j \in 1 .. n : j \in Breaks(a) <=> j \in Breaks(b)
<1> SUFFICES ASSUME NEW j \in 1 .. n
             PROVE  j \in Breaks(a) <=> j \in Breaks(b)
  OBVIOUS
<1>1. /\ DOMAIN a = 1 .. Len(a) /\ DOMAIN b = 1 .. Len(b) /\ Len(a) \in Nat /\ Len(b) \in Nat
  BY LenProperties
<1>2. a[j] = b[j] /\ j \in DOMAIN a /\ j \in DOMAIN b
  BY <1>1
<1>3. j # 1 => j - 1 \in 1 .. n
  OBVIOUS
<1>4. PrevHash(a, j) = PrevHash(b, j)
  BY <1>3 DEF PrevHash
<1> QED
  BY <1>2, <1>4 DEF Breaks, SequenceJump, LinkBreak, ContentBreak

\* How the first break looks after one intervention that is not on the last row.
Named ==
  tamper.times = 1 /\ ~tamper.last =>
    \/ /\ tamper.kind = "edit"
       /\ FirstBreak(rows, tamper.at)
       /\ rows[tamper.at].seq = tamper.at
       /\ ~ LinkBreak(rows, tamper.at)
    \/ /\ tamper.kind = "rehash"
       /\ FirstBreak(rows, tamper.at + 1)
       /\ rows[tamper.at + 1].seq = tamper.at + 1
       /\ LinkBreak(rows, tamper.at + 1)
    \/ /\ tamper.kind = "remove"
       /\ FirstBreak(rows, tamper.at)
       /\ rows[tamper.at].seq = tamper.at + 1

NamedInv ==
  /\ LedgerInv
  /\ EntriesHonest
  /\ tamper.times = 0 => tamper = NoTamper
  /\ RowsHonest
  /\ Named

\* What the table was before the first intervention.
LEMMA BeforeTamper ==
  ASSUME NamedInv, NEW kind, NEW i, Tamper(kind, i), tamper'.times = 1
  PROVE  /\ rows \in Seq(RowType) /\ Len(rows) \in Nat /\ i \in 1 .. Len(rows)
         /\ DOMAIN rows = 1 .. Len(rows)
         /\ \A j \in 1 .. Len(rows) : rows[j] \in RowType
         /\ Chained(rows) /\ Breaks(rows) = {}
         /\ rows[i].payload # Forged
         /\ tamper' = [kind |-> kind, at |-> i, last |-> i = Len(rows), times |-> 1]
<1>1. /\ rows \in Seq(RowType) /\ Len(rows) \in Nat /\ DOMAIN rows = 1 .. Len(rows)
      /\ i \in DOMAIN rows /\ \A j \in 1 .. Len(rows) : rows[j] \in RowType
  BY LenProperties, ElementOfSeq DEF NamedInv, LedgerInv, TypeOK, Tamper
<1>2. tamper.times = 0
  BY DEF NamedInv, LedgerInv, TypeOK, Tamper
<1>3. tamper = NoTamper
  BY <1>2 DEF NamedInv
<1>4. Chained(rows) /\ Breaks(rows) = {}
  BY <1>3, RowsChained, UnbrokenIsChained DEF NamedInv, LedgerInv, ChainIntact
<1>5. rows[i].payload # Forged
  BY <1>1, <1>3, ForgedAssumption DEF NamedInv, RowsHonest
<1>6. rows[i].seq = i
  BY <1>1, <1>4 DEF Chained
<1> QED
  BY <1>1, <1>2, <1>4, <1>5, <1>6 DEF Tamper

LEMMA HashTells ==
  ASSUME NEW row \in RowType, row.payload # Forged
  PROVE  Hash(row.seq, Forged, row.prev) # Hash(row.seq, row.payload, row.prev)
<1>1. /\ row.seq \in Nat /\ row.payload \in Written /\ row.prev \in Digest
      /\ Forged \in Written
  BY DEF RowType, Written
<1> QED
  BY <1>1, HashInjective

LEMMA EditNamed ==
  ASSUME NamedInv, NEW i, EditRow(i), tamper'.times = 1
  PROVE  Named'
<1> DEFINE row   == [rows[i] EXCEPT !.payload = Forged]
           table == rows'
<1>1. Tamper("edit", i) /\ table = [rows EXCEPT ![i] = row]
  BY DEF EditRow
<1>2. /\ rows \in Seq(RowType) /\ Len(rows) \in Nat /\ i \in 1 .. Len(rows)
      /\ DOMAIN rows = 1 .. Len(rows)
      /\ \A j \in 1 .. Len(rows) : rows[j] \in RowType
      /\ Chained(rows) /\ Breaks(rows) = {}
      /\ rows[i].payload # Forged
      /\ tamper' = [kind |-> "edit", at |-> i, last |-> i = Len(rows), times |-> 1]
  BY <1>1, BeforeTamper
<1>0. Len(rows) \in Nat /\ i \in 1 .. Len(rows)
  BY <1>2
<1>3. /\ row.seq = rows[i].seq /\ row.payload = Forged /\ row.prev = rows[i].prev
      /\ row.hash = rows[i].hash
  BY <1>2 DEF RowType
<1> HIDE DEF row, table
<1>4. /\ DOMAIN table = 1 .. Len(rows)
      /\ \A j \in 1 .. Len(rows) : table[j] = IF j = i THEN row ELSE rows[j]
  BY <1>1, <1>2
<1>5. \A j \in 1 .. Len(rows) : /\ table[j].seq = j /\ table[j].prev = PrevHash(table, j)
                                /\ j # i => j \notin Breaks(table)
  <2> SUFFICES ASSUME NEW j \in 1 .. Len(rows)
               PROVE  /\ table[j].seq = j /\ table[j].prev = PrevHash(table, j)
                      /\ j # i => j \notin Breaks(table)
    OBVIOUS
  <2>1. j # 1 => j - 1 \in 1 .. Len(rows)
    BY <1>0
  <2>2. PrevHash(table, j) = PrevHash(rows, j)
    BY <1>3, <1>4, <2>1 DEF PrevHash
  <2>3. table[j].seq = j /\ table[j].prev = PrevHash(table, j)
    BY <1>2, <1>3, <1>4, <2>2 DEF Chained
  <2>4. j # i => table[j].hash = Hash(table[j].seq, table[j].payload, table[j].prev)
    BY <1>2, <1>4 DEF Chained
  <2> QED
    BY <2>3, <2>4 DEF Breaks, SequenceJump, LinkBreak, ContentBreak
<1>6. i \in Breaks(table)
  <2>1. rows[i].hash = Hash(rows[i].seq, rows[i].payload, rows[i].prev)
    BY <1>2 DEF Chained
  <2>2. Hash(rows[i].seq, Forged, rows[i].prev) # Hash(rows[i].seq, rows[i].payload, rows[i].prev)
    BY <1>2, HashTells
  <2>3. row.hash # Hash(row.seq, row.payload, row.prev)
    BY <1>3, <2>1, <2>2
  <2> QED
    BY <1>2, <1>4, <2>3 DEF Breaks, ContentBreak
<1>7. FirstBreak(table, i)
  BY <1>2, <1>4, <1>5, <1>6 DEF FirstBreak, Breaks
<1> QED
  BY <1>2, <1>5, <1>7 DEF Named, table, LinkBreak, FirstBreak, Breaks, SequenceJump, ContentBreak,
     PrevHash

LEMMA RehashNamed ==
  ASSUME NamedInv, NEW i, RehashRow(i), tamper'.times = 1
  PROVE  Named'
<1> DEFINE hash  == Hash(rows[i].seq, Forged, rows[i].prev)
           row   == [rows[i] EXCEPT !.payload = Forged, !.hash = hash]
           table == rows'
<1>1. Tamper("rehash", i) /\ table = [rows EXCEPT ![i] = row]
  BY DEF RehashRow
<1>2. /\ rows \in Seq(RowType) /\ Len(rows) \in Nat /\ i \in 1 .. Len(rows)
      /\ DOMAIN rows = 1 .. Len(rows)
      /\ \A j \in 1 .. Len(rows) : rows[j] \in RowType
      /\ Chained(rows) /\ Breaks(rows) = {}
      /\ rows[i].payload # Forged
      /\ tamper' = [kind |-> "rehash", at |-> i, last |-> i = Len(rows), times |-> 1]
  BY <1>1, BeforeTamper
<1>0. Len(rows) \in Nat /\ i \in 1 .. Len(rows)
  BY <1>2
<1>3. /\ row.seq = rows[i].seq /\ row.payload = Forged /\ row.prev = rows[i].prev
      /\ row.hash = Hash(row.seq, row.payload, row.prev) /\ row.hash # rows[i].hash
  <2>1. rows[i].hash = Hash(rows[i].seq, rows[i].payload, rows[i].prev)
    BY <1>2 DEF Chained
  <2>2. Hash(rows[i].seq, Forged, rows[i].prev) # Hash(rows[i].seq, rows[i].payload, rows[i].prev)
    BY <1>2, HashTells
  <2>3. hash # rows[i].hash
    BY <2>1, <2>2
  <2>4. /\ row.seq = rows[i].seq /\ row.payload = Forged /\ row.prev = rows[i].prev
        /\ row.hash = hash
    BY <1>2 DEF RowType
  <2> QED
    BY <2>3, <2>4
<1> HIDE DEF hash, row, table
<1>4. /\ DOMAIN table = 1 .. Len(rows)
      /\ \A j \in 1 .. Len(rows) : table[j] = IF j = i THEN row ELSE rows[j]
  BY <1>1, <1>2
<1>5. \A j \in 1 .. i : j \notin Breaks(table)
  <2> SUFFICES ASSUME NEW j \in 1 .. i
               PROVE  j \notin Breaks(table)
    OBVIOUS
  <2>1. j \in 1 .. Len(rows) /\ (j # 1 => j - 1 \in 1 .. Len(rows) /\ j - 1 # i)
    BY <1>0
  <2>2. PrevHash(table, j) = PrevHash(rows, j)
    BY <1>4, <2>1 DEF PrevHash
  <2>3. table[j].seq = j /\ table[j].prev = PrevHash(table, j)
    BY <1>2, <1>3, <1>4, <2>1, <2>2 DEF Chained
  <2>4. table[j].hash = Hash(table[j].seq, table[j].payload, table[j].prev)
    BY <1>2, <1>3, <1>4, <2>1 DEF Chained
  <2> QED
    BY <2>3, <2>4 DEF Breaks, SequenceJump, LinkBreak, ContentBreak
<1>6. CASE i # Len(rows)
  <2> DEFINE n == i + 1
  <2>1. /\ n \in 1 .. Len(rows) /\ n # i /\ n # 1 /\ n - 1 = i
        /\ \A j \in 1 .. Len(rows) : j \in 1 .. i \/ n <= j
    BY <1>0, <1>6
  <2> HIDE DEF n
  <2>2. table[n].seq = n /\ table[n].prev = rows[i].hash /\ PrevHash(table, n) = row.hash
    BY <1>2, <1>4, <2>1 DEF Chained, PrevHash
  <2>3. LinkBreak(table, n)
    BY <1>3, <2>2 DEF LinkBreak
  <2>4. FirstBreak(table, n)
    BY <1>4, <1>5, <2>1, <2>3 DEF FirstBreak, Breaks
  <2> QED
    BY <1>2, <2>2, <2>3, <2>4 DEF Named, table, n, LinkBreak, FirstBreak, Breaks, SequenceJump,
       ContentBreak, PrevHash
<1>7. CASE i = Len(rows)
  BY <1>2, <1>7 DEF Named
<1> QED
  BY <1>6, <1>7

LEMMA Halves ==
  ASSUME NEW S, NEW s \in Seq(S), NEW i \in 1 .. Len(s)
  PROVE  /\ SubSeq(s, 1, i - 1) \in Seq(S) /\ Len(SubSeq(s, 1, i - 1)) = i - 1
         /\ \A j \in 1 .. i - 1 : SubSeq(s, 1, i - 1)[j] = s[j]
         /\ SubSeq(s, i + 1, Len(s)) \in Seq(S) /\ Len(SubSeq(s, i + 1, Len(s))) = Len(s) - i
         /\ \A j \in 1 .. Len(s) - i : SubSeq(s, i + 1, Len(s))[j] = s[i + j]
<1>1. /\ Len(s) \in Nat /\ i - 1 \in Int /\ i + 1 \in Int
      /\ \A j \in 1 .. i - 1 : s[j] \in S
      /\ \A j \in i + 1 .. Len(s) : s[j] \in S
  OBVIOUS
<1>2. /\ SubSeq(s, 1, i - 1) \in Seq(S)
      /\ Len(SubSeq(s, 1, i - 1)) = IF 1 <= i - 1 THEN (i - 1) - 1 + 1 ELSE 0
      /\ \A j \in 1 .. (i - 1) - 1 + 1 : SubSeq(s, 1, i - 1)[j] = s[1 + j - 1]
  BY <1>1, SubSeqProperties
<1>3. /\ SubSeq(s, i + 1, Len(s)) \in Seq(S)
      /\ Len(SubSeq(s, i + 1, Len(s))) = IF i + 1 <= Len(s) THEN Len(s) - (i + 1) + 1 ELSE 0
      /\ \A j \in 1 .. Len(s) - (i + 1) + 1 : SubSeq(s, i + 1, Len(s))[j] = s[(i + 1) + j - 1]
  BY <1>1, SubSeqProperties
<1> DEFINE before == SubSeq(s, 1, i - 1)
           after  == SubSeq(s, i + 1, Len(s))
<1> HIDE DEF before, after
<1>4. before \in Seq(S) /\ Len(before) = i - 1 /\ \A j \in 1 .. i - 1 : before[j] = s[j]
  BY <1>1, <1>2 DEF before
<1>5. after \in Seq(S) /\ Len(after) = Len(s) - i /\ \A j \in 1 .. Len(s) - i : after[j] = s[i + j]
  BY <1>1, <1>3 DEF after
<1> QED
  BY <1>4, <1>5 DEF before, after

LEMMA RemoveNamed ==
  ASSUME NamedInv, NEW i, RemoveRow(i), tamper'.times = 1
  PROVE  Named'
<1> DEFINE before == SubSeq(rows, 1, i - 1)
           after  == SubSeq(rows, i + 1, Len(rows))
           table  == rows'
<1>1. Tamper("remove", i) /\ table = before \o after
  BY DEF RemoveRow
<1>2. /\ rows \in Seq(RowType) /\ Len(rows) \in Nat /\ i \in 1 .. Len(rows)
      /\ DOMAIN rows = 1 .. Len(rows)
      /\ \A j \in 1 .. Len(rows) : rows[j] \in RowType
      /\ Chained(rows) /\ Breaks(rows) = {}
      /\ tamper' = [kind |-> "remove", at |-> i, last |-> i = Len(rows), times |-> 1]
  BY <1>1, BeforeTamper
<1>0. Len(rows) \in Nat /\ i \in 1 .. Len(rows)
  BY <1>2
<1>3. /\ before \in Seq(RowType) /\ Len(before) = i - 1
      /\ \A j \in 1 .. i - 1 : before[j] = rows[j]
      /\ after \in Seq(RowType) /\ Len(after) = Len(rows) - i
      /\ \A j \in 1 .. Len(rows) - i : after[j] = rows[i + j]
  BY <1>2, Halves
<1> HIDE DEF before, after, table
<1>4. /\ table \in Seq(RowType) /\ Len(table) = Len(rows) - 1
      /\ \A j \in 1 .. Len(rows) - 1 :
           table[j] = IF j <= i - 1 THEN before[j] ELSE after[j - (i - 1)]
  <2>1. Len(before) + Len(after) = Len(rows) - 1
    BY <1>0, <1>3
  <2> QED
    BY <1>1, <1>3, <2>1, ConcatProperties
<1>5. \A j \in 1 .. i - 1 : j \notin Breaks(table)
  <2>1. i - 1 \in Nat /\ i - 1 <= Len(table) /\ i - 1 <= Len(rows)
        /\ \A j \in 1 .. i - 1 : j \in 1 .. Len(rows) - 1 /\ j <= i - 1
    BY <1>0, <1>4
  <2>2. \A j \in 1 .. i - 1 : table[j] = rows[j]
    BY <1>3, <1>4, <2>1
  <2> QED
    BY <1>2, <1>4, <2>1, <2>2, BreaksBefore
<1>6. CASE i # Len(rows)
  <2>1. /\ i \in 1 .. Len(rows) - 1 /\ i + 1 \in 1 .. Len(rows) /\ ~ (i <= i - 1)
        /\ i - (i - 1) = 1 /\ 1 \in 1 .. Len(rows) - i /\ i + 1 # i /\ i \in Nat
        /\ DOMAIN table = 1 .. Len(rows) - 1
        /\ \A j \in 1 .. Len(rows) - 1 : j \in 1 .. i - 1 \/ i <= j
    BY <1>0, <1>4, <1>6, LenProperties
  <2>2. table[i] = rows[i + 1]
    BY <1>3, <1>4, <2>1
  <2>3. table[i].seq = i + 1
    BY <1>2, <2>1, <2>2 DEF Chained
  <2>4. FirstBreak(table, i)
    BY <1>5, <2>1, <2>3 DEF FirstBreak, Breaks, SequenceJump
  <2> QED
    BY <1>2, <2>3, <2>4 DEF Named, table, FirstBreak, Breaks, SequenceJump, LinkBreak,
       ContentBreak, PrevHash
<1>7. CASE i = Len(rows)
  BY <1>2, <1>7 DEF Named
<1> QED
  BY <1>6, <1>7

\* Honest rows committed behind the break leave it the first.
LEMMA CommitKeepsNamed ==
  ASSUME NamedInv, NEW t \in Thread, Commit(t)
  PROVE  Named'
<1> DEFINE table == rows'
<1>1. /\ rows \in Seq(RowType) /\ table \in Seq(RowType) /\ UNCHANGED tamper
      /\ tamper.at \in Nat
      /\ Len(rows) \in Nat /\ Len(table) \in Nat /\ Len(rows) <= Len(table)
      /\ DOMAIN rows = 1 .. Len(rows) /\ DOMAIN table = 1 .. Len(table)
      /\ \A j \in 1 .. Len(rows) : table[j] = rows[j]
  <2>1. TypeOK
    BY DEF NamedInv, LedgerInv
  <2>2. /\ rows' \in Seq(RowType) /\ UNCHANGED tamper
        /\ Len(rows) \in Nat /\ Len(rows') \in Nat /\ Len(draft) \in Nat
        /\ Len(rows') = Len(rows) + Len(draft)
        /\ DOMAIN rows = 1 .. Len(rows) /\ DOMAIN rows' = 1 .. Len(rows')
        /\ \A j \in 1 .. Len(rows) : rows'[j] = rows[j]
    BY <2>1, CommitAppends
  <2> QED
    BY <2>1, <2>2 DEF TypeOK
<1> HIDE DEF table
<1>2. \A j \in 1 .. Len(rows) : j \in Breaks(rows) <=> j \in Breaks(table)
  BY <1>1, BreaksBefore
<1>3. ASSUME NEW n \in Nat, FirstBreak(rows, n)
      PROVE  /\ FirstBreak(table, n) /\ table[n] = rows[n]
             /\ LinkBreak(table, n) <=> LinkBreak(rows, n)
  <2>1. n \in 1 .. Len(rows) /\ n \in Breaks(rows)
    BY <1>1, <1>3 DEF FirstBreak, Breaks
  <2>2. \A j \in Breaks(table) : j \in 1 .. Len(rows) \/ n <= j
    BY <1>1, <2>1 DEF Breaks
  <2>3. FirstBreak(table, n)
    BY <1>2, <1>3, <2>1, <2>2 DEF FirstBreak
  <2>4. n # 1 => n - 1 \in 1 .. Len(rows)
    BY <1>1, <2>1
  <2>5. PrevHash(table, n) = PrevHash(rows, n)
    BY <1>1, <2>4 DEF PrevHash
  <2> QED
    BY <1>1, <2>1, <2>3, <2>5 DEF LinkBreak
<1>4. tamper.at \in Nat /\ tamper.at + 1 \in Nat
  BY <1>1
<1>5. FirstBreak(rows', tamper.at) <=> FirstBreak(table, tamper.at)
  BY DEF table
<1> QED
  BY <1>1, <1>3, <1>4 DEF NamedInv, Named, table, FirstBreak, LinkBreak, Breaks, SequenceJump,
     ContentBreak, PrevHash

LEMMA NamedStep == NamedInv /\ [Next]_vars => NamedInv'
<1> SUFFICES ASSUME NamedInv, [Next]_vars
             PROVE  NamedInv'
  OBVIOUS
<1>0. TypeOK /\ tamper.times \in Nat
  BY DEF NamedInv, LedgerInv, TypeOK
<1>1. LedgerInv' /\ EntriesHonest'
  BY InvStep, EntriesStep DEF NamedInv, LedgerInv
<1>2. ASSUME NEW i, EditRow(i) \/ RehashRow(i) \/ RemoveRow(i) \/ RelinkRow(i)
      PROVE  NamedInv'
  <2>1. PICK kind : Tamper(kind, i)
    BY <1>2 DEF EditRow, RehashRow, RemoveRow, RelinkRow
  <2>2. tamper'.times = tamper.times + 1
    BY <2>1 DEF Tamper
  <2>3. tamper'.times # 0 /\ tamper' # NoTamper
    BY <1>0, <2>2 DEF NoTamper
  <2>4. CASE tamper'.times # 1
    BY <1>1, <2>3, <2>4 DEF NamedInv, RowsHonest, Named
  <2>5. CASE tamper'.times = 1
    <3>1. ~ RelinkRow(i)
      <4>1. Breaks(rows) = {} /\ i \in DOMAIN rows
        BY <2>1, <2>5, BeforeTamper
      <4> QED
        BY <4>1 DEF RelinkRow, Breaks
    <3>2. Named'
      BY <1>2, <2>5, <3>1, EditNamed, RehashNamed, RemoveNamed
    <3> QED
      BY <1>1, <2>3, <3>2 DEF NamedInv, RowsHonest
  <2> QED
    BY <2>4, <2>5
<1>3. ASSUME NEW t \in Thread, Commit(t)
      PROVE  NamedInv'
  <2>1. UNCHANGED tamper
    BY <1>3 DEF Commit
  <2>2. RowsHonest'
    BY <1>0, RowsHonestStep DEF NamedInv
  <2> QED
    BY <1>1, <1>3, <2>1, <2>2, CommitKeepsNamed DEF NamedInv
<1>4. ASSUME UNCHANGED <<rows, tamper>>
      PROVE  NamedInv'
  BY <1>1, <1>4
     DEF NamedInv, RowsHonest, Named, FirstBreak, LinkBreak, Breaks, SequenceJump, ContentBreak,
         PrevHash
<1> QED
  BY <1>2, <1>3, <1>4, RowsChange

\* After one intervention with raw SQL on a row that has a successor, verify()
\* names what was done and at which entry, for every table and however many
\* honest appends follow: an edit as a content break at the entry, an edit with
\* the entry's hash recomputed as a link break at the next one, a removal as a
\* sequence jump to the next one (Ledger.verify).
THEOREM LedgerBreakIsNamed == Spec => []BreakIsNamed
<1>1. Init => NamedInv
  BY InvInit DEF Init, NamedInv, EntriesHonest, RowsHonest, Named, NoTamper
<1>2. NamedInv => BreakIsNamed
  <2> SUFFICES ASSUME NamedInv, tamper.times = 1, ~tamper.last
               PROVE  CASE tamper.kind = "edit" ->
                             Verify(rows).detail = "content" /\ Verify(rows).broken = tamper.at
                        [] tamper.kind = "rehash" ->
                             Verify(rows).detail = "link" /\ Verify(rows).broken = tamper.at + 1
                        [] tamper.kind = "remove" ->
                             Verify(rows).detail = "jump" /\ Verify(rows).broken = tamper.at + 1
    BY DEF BreakIsNamed
  <2>1. rows \in Seq(RowType) /\ tamper.at \in Nat /\ tamper.at + 1 \in Nat
        /\ tamper.at + 1 # tamper.at
    BY DEF NamedInv, LedgerInv, TypeOK
  <2>2. ASSUME NEW n \in Nat, FirstBreak(rows, n)
        PROVE  /\ Verify(rows).broken = rows[n].seq
               /\ Verify(rows).detail = IF rows[n].seq # n THEN "jump"
                                        ELSE IF LinkBreak(rows, n) THEN "link" ELSE "content"
    BY <2>1, <2>2, VerifyNames DEF SequenceJump
  <2> QED
    BY <2>1, <2>2 DEF NamedInv, Named
<1> QED
  BY <1>1, <1>2, NamedStep, PTL DEF Spec
=============================================================================
