------------------------------- MODULE Ledger -------------------------------
(***************************************************************************)
(* engine/ledger.py: the hash-chained SQLite table that every other part   *)
(* of Checkpost writes to, driven by the threads of one or more processes. *)
(*                                                                         *)
(* append() is split where another thread or process can get in between:   *)
(* the head is read under the lock (ReadHead), the row is inserted         *)
(* (Insert) and committed (Commit) under the same lock, or SQLite raises:  *)
(* at the INSERT with the transaction left open (Refuse), at the commit    *)
(* with the row left in it (CommitBusy), or rolling everything back        *)
(* (Lose).  The lock is a threading.RLock: it excludes the threads of one  *)
(* process only.  A second process on the same file (a replay still        *)
(* writing the database the server has opened) meets SQLite's own locks    *)
(* instead, in the rollback-journal mode this connection is left in:       *)
(*   - sqlite3 begins a transaction of its own accord before an INSERT and *)
(*     nothing here ever rolls one back, so after an INSERT or a commit    *)
(*     that raised it stays open until a later commit of that process;     *)
(*   - a process reads its own uncommitted rows, the others do not;        *)
(*   - in an open transaction a SELECT keeps its SHARED lock, and no other *)
(*     process can commit while it is kept; a commit that met one keeps    *)
(*     the PENDING lock, and no process that is not reading may start to.  *)
(*                                                                         *)
(* verify() takes its rows in one fetch under the lock and walks that      *)
(* snapshot, so it is one step; GET /v1/ledger/verify asks for the head in *)
(* a second call.  Tampering is somebody with raw SQL who drops the        *)
(* triggers first: tests/test_ledger.py does exactly these things.         *)
(***************************************************************************)
EXTENDS Naturals, Sequences, FiniteSets

CONSTANTS
  Process,      \* processes that opened the database file
  Thread,       \* their threads
  ProcessOf,    \* [Thread -> Process]
  Payload,      \* entry_type, canonical payload and recorded_at, as one value
  Forged,       \* a payload only a forger writes
  Nobody,       \* no holder of a lock
  MaxRows,      \* bound: rows in the table
  MaxTampers,   \* bound: interventions with raw SQL
  MaxCrashes,   \* bound: process deaths
  MaxFailures   \* bound: I/O errors and full disks

ASSUME ThreadsAssumption ==
  /\ ProcessOf \in [Thread -> Process]
  /\ Nobody \notin Thread \cup Process
ASSUME BoundsAssumption == {MaxRows, MaxTampers, MaxCrashes, MaxFailures} \subseteq Nat
ASSUME ForgedAssumption == Forged \notin Payload

VARIABLES
  rows,         \* the ledger table as committed, in seq order
  draft,        \* the rows inserted in the writer's open transaction
  author,       \* history: the process that inserted each row and draft
  lock,         \* Ledger._lock of each process: the holding thread
  writer,       \* SQLite's RESERVED lock: the process that may write
  open,         \* the processes with a transaction open
  reading,      \* those of them that hold a SHARED lock and no more
  pc,           \* what each thread is doing: "idle", "linked", "inserted",
                \* "verified"
  entry,        \* the payload each thread is appending
  head,         \* the (seq, entry_hash) each thread last read as the head
  report,       \* the answer of GET /v1/ledger/verify in each thread's hands
  noted,        \* history: the table when a head was last written down
  tamper,       \* history: the last intervention with raw SQL
  crashes,      \* history: process deaths so far
  failures      \* history: I/O errors so far

transaction == <<draft, author, writer, open, reading>>
vars == <<rows, transaction, lock, pc, entry, head, report, noted, tamper, crashes, failures>>

-----------------------------------------------------------------------------
(* The chain.  SHA-256 over the joined fields is injective as far as this   *)
(* code is concerned, so a hash is what it covers: the hash it continues    *)
(* followed by the fields of its own row.                                   *)

Written == Payload \cup {Forged}
Digest  == Seq(Nat \X Written)

GENESIS_HASH == <<>>

\* Mutant: the link left out of what is hashed.
HashWithoutPrev(seq, payload, prev) == << <<seq, payload>> >>

Hash(seq, payload, prev) == Append(prev, <<seq, payload>>)

\* Mutant: the new row continues nothing.
LinkToGenesis(h, p) ==
  [seq |-> h.seq + 1, payload |-> p, prev |-> GENESIS_HASH,
   hash |-> Hash(h.seq + 1, p, GENESIS_HASH)]

Link(h, p) ==
  [seq |-> h.seq + 1, payload |-> p, prev |-> h.hash, hash |-> Hash(h.seq + 1, p, h.hash)]

NoHead == [seq |-> 0, hash |-> GENESIS_HASH]

\* Mutant: a row whose columns came back misaligned.
HeadMisaligned(table) ==
  IF table = <<>> THEN NoHead
                  ELSE [seq |-> table[Len(table)].seq, hash |-> table[Len(table)].payload]

\* The newest row's seq and entry_hash: the SELECT of append(), and head().
HeadOf(table) ==
  IF table = <<>> THEN NoHead
                  ELSE [seq |-> table[Len(table)].seq, hash |-> table[Len(table)].hash]

PrevHash(table, i) == IF i = 1 THEN GENESIS_HASH ELSE table[i - 1].hash

SequenceJump(table, i) == table[i].seq # i

\* Mutant: the walk trusts prev_hash.
NoLinkBreak(table, i) == FALSE

LinkBreak(table, i) == table[i].prev # PrevHash(table, i)

ContentBreak(table, i) == table[i].hash # Hash(table[i].seq, table[i].payload, table[i].prev)

Breaks(table) ==
  {i \in DOMAIN table :
     SequenceJump(table, i) \/ LinkBreak(table, i) \/ ContentBreak(table, i)}

\* verify(): the first break, and which of the three it is.
Verify(table) ==
  LET bad == Breaks(table)
      at  == CHOOSE i \in bad : \A j \in bad : i <= j
  IN  IF bad = {}
        THEN [ok |-> TRUE, checked |-> Len(table), broken |-> 0, detail |-> "intact"]
        ELSE [ok |-> FALSE, checked |-> at - 1, broken |-> table[at].seq,
              detail |-> IF SequenceJump(table, at) THEN "jump"
                         ELSE IF LinkBreak(table, at) THEN "link" ELSE "content"]

-----------------------------------------------------------------------------
NoReport == [walk |-> Verify(<<>>), head |-> GENESIS_HASH]
NoTamper == [kind |-> "none", at |-> 0, last |-> FALSE, times |-> 0]

Init ==
  /\ rows = <<>> /\ draft = <<>>
  /\ author = <<>>
  /\ lock = [p \in Process |-> Nobody]
  /\ writer = Nobody
  /\ open = {} /\ reading = {}
  /\ pc = [t \in Thread |-> "idle"]
  /\ entry = [t \in Thread |-> Forged]
  /\ head = [t \in Thread |-> NoHead]
  /\ report = [t \in Thread |-> NoReport]
  /\ noted = <<>>
  /\ tamper = NoTamper
  /\ crashes = 0 /\ failures = 0

LockOf(t) == lock[ProcessOf[t]]

\* The table with what is inserted and not committed, and what p sees of it.
Table   == rows \o draft
View(p) == IF p = writer THEN Table ELSE rows

\* A commit met a reader: there are rows no thread is about to commit.
Pending == Len(draft) > Cardinality({u \in Thread : pc[u] = "inserted"})

\* A SELECT of process p: it raises while another process's commit is pending,
\* and keeps its lock if p has a transaction open.
Selects(p) ==
  /\ Pending => p \in reading \cup {writer}
  /\ reading' = reading \cup ({p} \cap (open \ {writer}))

ReadHeadWith(t, p, permitted) ==
  /\ pc[t] = "idle"
  /\ permitted
  /\ Len(Table) + Cardinality({u \in Thread : pc[u] = "linked"}) < MaxRows
  /\ Selects(ProcessOf[t])
  /\ lock' = [lock EXCEPT ![ProcessOf[t]] = t]
  /\ pc' = [pc EXCEPT ![t] = "linked"]
  /\ entry' = [entry EXCEPT ![t] = p]
  /\ head' = [head EXCEPT ![t] = HeadOf(View(ProcessOf[t]))]
  /\ report' = [report EXCEPT ![t] = NoReport]
  /\ UNCHANGED <<rows, draft, author, writer, open, noted, tamper, crashes, failures>>

\* Mutant: the lock is not taken before the head is read.
ReadHeadUnlocked(t, p) == ReadHeadWith(t, p, TRUE)

\* append(): payload serialised, lock taken, head selected.
ReadHead(t, p) == ReadHeadWith(t, p, LockOf(t) = Nobody)

\* What the table refuses: seq is the primary key, entry_hash is UNIQUE.
Taken(row) == \E i \in DOMAIN Table : Table[i].seq = row.seq \/ Table[i].hash = row.hash

MayWrite(t) == writer \in {Nobody, ProcessOf[t]}

\* The write lock is p's, in a transaction it has open from here on.
Reserves(p) == writer' = p /\ open' = open \cup {p} /\ reading' = reading \ {p}

\* What an INSERT that is accepted does, the row itself apart.
Inserted(t) ==
  /\ pc[t] = "linked"
  /\ MayWrite(t)
  /\ Reserves(ProcessOf[t])
  /\ pc' = [pc EXCEPT ![t] = "inserted"]
  /\ UNCHANGED <<lock, entry, head, report, noted, tamper, crashes, failures>>

\* Mutant: a table that lost its primary key and its UNIQUE column.
InsertUnchecked(t) ==
  /\ Inserted(t)
  /\ draft' = Append(draft, Link(head[t], entry[t]))
  /\ author' = Append(author, ProcessOf[t])
  /\ UNCHANGED rows

\* Mutant: INSERT OR REPLACE.
InsertOrReplace(t) ==
  /\ Inserted(t)
  /\ LET at == head[t].seq + 1 IN
     IF at \in DOMAIN rows
       THEN rows' = [rows EXCEPT ![at] = Link(head[t], entry[t])] /\ UNCHANGED <<draft, author>>
       ELSE /\ draft' = Append(draft, Link(head[t], entry[t]))
            /\ author' = Append(author, ProcessOf[t])
            /\ UNCHANGED rows

\* append(): INSERT under the lock, in the transaction sqlite3 begins for it or
\* in the one this process still has open.
Insert(t) ==
  /\ Inserted(t)
  /\ ~Taken(Link(head[t], entry[t]))
  /\ draft' = Append(draft, Link(head[t], entry[t]))
  /\ author' = Append(author, ProcessOf[t])
  /\ UNCHANGED rows

\* Leaving the with block, normally or by an exception: the locals are gone.
Release(t) ==
  /\ lock' = [lock EXCEPT ![ProcessOf[t]] = Nobody]
  /\ pc' = [pc EXCEPT ![t] = "idle"]
  /\ entry' = [entry EXCEPT ![t] = Forged]
  /\ head' = [head EXCEPT ![t] = NoHead]

\* append(): conn.commit(), which takes along whatever the transaction held.
Commit(t) ==
  /\ pc[t] = "inserted"
  /\ reading = {}
  /\ rows' = Table /\ draft' = <<>>
  /\ writer' = Nobody
  /\ open' = open \ {ProcessOf[t]}
  /\ Release(t)
  /\ UNCHANGED <<author, reading, report, noted, tamper, crashes, failures>>

\* conn.commit() raising "database is locked", because another process has kept
\* a SHARED lock or is in a SELECT for longer than the five seconds sqlite3
\* waits: row and transaction stay, to be read by this process as the head and
\* committed by its next append.
CommitBusy(t) ==
  /\ pc[t] = "inserted"
  /\ Process # {ProcessOf[t]}
  /\ Release(t)
  /\ UNCHANGED <<rows, transaction, report, noted, tamper, crashes, failures>>

\* append() raising at the INSERT.  After an IntegrityError, or an I/O error
\* that undoes the statement alone, the transaction stays open and with it
\* SQLite's write lock; after "database is locked" it stays open without one.
Refuse(t) ==
  /\ pc[t] = "linked"
  /\ \/ /\ MayWrite(t)
        /\ Reserves(ProcessOf[t])
        /\ \/ Taken(Link(head[t], entry[t])) /\ UNCHANGED failures
           \/ failures < MaxFailures /\ failures' = failures + 1
     \/ /\ ~MayWrite(t)
        /\ open' = open \cup {ProcessOf[t]}
        /\ UNCHANGED <<writer, reading, failures>>
  /\ Release(t)
  /\ UNCHANGED <<rows, draft, author, report, noted, tamper, crashes>>

\* The transaction of p, if it has one, undone.
RollBack(p) ==
  /\ open' = open \ {p}
  /\ reading' = reading \ {p}
  /\ IF writer = p
       THEN writer' = Nobody /\ draft' = <<>> /\ author' = SubSeq(author, 1, Len(rows))
       ELSE UNCHANGED <<writer, draft, author>>

\* append() raising on an I/O error or a full disk, at the INSERT or at the
\* commit, with SQLite rolling the whole transaction back.
Lose(t) ==
  /\ pc[t] \in {"linked", "inserted"}
  /\ MayWrite(t)
  /\ failures < MaxFailures
  /\ failures' = failures + 1
  /\ RollBack(ProcessOf[t])
  /\ Release(t)
  /\ UNCHANGED <<rows, report, noted, tamper, crashes>>

\* GET /v1/ledger/verify, first half: the walk over one snapshot.
VerifyRows(t) ==
  /\ pc[t] = "idle"
  /\ LockOf(t) = Nobody
  /\ Selects(ProcessOf[t])
  /\ report' = [report EXCEPT ![t] =
                  [walk |-> Verify(View(ProcessOf[t])), head |-> GENESIS_HASH]]
  /\ pc' = [pc EXCEPT ![t] = "verified"]
  /\ UNCHANGED <<rows, draft, author, lock, writer, open, entry, head, noted, tamper, crashes,
                 failures>>

\* GET /v1/ledger/verify, second half: head() under a lock of its own.  The
\* caller may write down what it was told.
ReportHead(t) ==
  /\ pc[t] = "verified"
  /\ LockOf(t) = Nobody
  /\ Selects(ProcessOf[t])
  /\ report' = [report EXCEPT ![t].head = HeadOf(View(ProcessOf[t])).hash]
  /\ pc' = [pc EXCEPT ![t] = "idle"]
  /\ noted' = IF tamper = NoTamper THEN View(ProcessOf[t]) ELSE noted
  /\ UNCHANGED <<rows, draft, author, lock, writer, open, entry, head, tamper, crashes, failures>>

\* A process dies: its threads and its locks go, an open transaction rolls back.
Crash(p) ==
  /\ crashes < MaxCrashes
  /\ crashes' = crashes + 1
  /\ pc' = [t \in Thread |-> IF ProcessOf[t] = p THEN "idle" ELSE pc[t]]
  /\ entry' = [t \in Thread |-> IF ProcessOf[t] = p THEN Forged ELSE entry[t]]
  /\ head' = [t \in Thread |-> IF ProcessOf[t] = p THEN NoHead ELSE head[t]]
  /\ report' = [t \in Thread |-> IF ProcessOf[t] = p THEN NoReport ELSE report[t]]
  /\ lock' = [lock EXCEPT ![p] = Nobody]
  /\ RollBack(p)
  /\ UNCHANGED <<rows, noted, tamper, failures>>

-----------------------------------------------------------------------------
(* Raw SQL behind the triggers' back.                                        *)

Tamper(kind, i) ==
  /\ tamper.times < MaxTampers
  /\ i \in DOMAIN rows
  /\ writer = Nobody /\ reading = {}
  /\ tamper' = [kind |-> kind, at |-> rows[i].seq, last |-> i = Len(rows),
                times |-> tamper.times + 1]
  /\ UNCHANGED <<draft, lock, writer, open, reading, pc, entry, head, report, noted, crashes,
                 failures>>

\* A row's payload replaced, its stored hash left as it was.
EditRow(i) ==
  /\ Tamper("edit", i)
  /\ rows' = [rows EXCEPT ![i] = [rows[i] EXCEPT !.payload = Forged]]
  /\ UNCHANGED author

\* A row's payload replaced and its own hash recomputed.
RehashRow(i) ==
  /\ Tamper("rehash", i)
  /\ rows' = [rows EXCEPT ![i] =
                [rows[i] EXCEPT !.payload = Forged,
                                !.hash = Hash(rows[i].seq, Forged, rows[i].prev)]]
  /\ UNCHANGED author

RemoveRow(i) ==
  /\ Tamper("remove", i)
  /\ rows' = SubSeq(rows, 1, i - 1) \o SubSeq(rows, i + 1, Len(rows))
  /\ author' = SubSeq(author, 1, i - 1) \o SubSeq(author, i + 1, Len(rows))

\* A row whose predecessor is no longer what it says renumbered and linked to
\* it again: after any of the above, the next step of forging the whole tail.
RelinkRow(i) ==
  /\ Tamper("relink", i)
  /\ SequenceJump(rows, i) \/ LinkBreak(rows, i)
  /\ \A j \in DOMAIN rows \ {i} : rows[j].seq # i
  /\ rows' = [rows EXCEPT ![i] = Link([seq |-> i - 1, hash |-> PrevHash(rows, i)],
                                     rows[i].payload)]
  /\ UNCHANGED author

-----------------------------------------------------------------------------
Step(t) ==
  \/ \E p \in Payload : ReadHead(t, p)
  \/ Insert(t)
  \/ Commit(t)
  \/ CommitBusy(t)
  \/ Refuse(t)
  \/ Lose(t)
  \/ VerifyRows(t)
  \/ ReportHead(t)

Next ==
  \/ \E t \in Thread : Step(t)
  \/ \E p \in Process : Crash(p)
  \/ \E i \in 1 .. MaxRows : EditRow(i) \/ RehashRow(i) \/ RemoveRow(i) \/ RelinkRow(i)

Spec == Init /\ [][Next]_vars

-----------------------------------------------------------------------------
(* Properties.                                                               *)

\* The shape of every variable.
RowType == [seq : Nat, payload : Written, prev : Digest, hash : Digest]
WalkType ==
  [ok : BOOLEAN, checked : Nat, broken : Nat,
   detail : {"intact", "jump", "link", "content"}]

TypeOK ==
  /\ rows \in Seq(RowType) /\ draft \in Seq(RowType)
  /\ draft # <<>> => writer # Nobody
  /\ author \in Seq(Process) /\ Len(author) = Len(rows) + Len(draft)
  /\ lock \in [Process -> Thread \cup {Nobody}]
  /\ writer \in Process \cup {Nobody}
  /\ open \subseteq Process /\ reading \subseteq open
  /\ pc \in [Thread -> {"idle", "linked", "inserted", "verified"}]
  /\ entry \in [Thread -> Written]
  /\ head \in [Thread -> [seq : Nat, hash : Digest]]
  /\ report \in [Thread -> [walk : WalkType, head : Digest]]
  /\ noted \in Seq(RowType)
  /\ tamper \in [kind : {"none", "edit", "rehash", "remove", "relink"},
                 at : Nat, last : BOOLEAN, times : Nat]
  /\ crashes \in Nat /\ failures \in Nat

\* Until somebody tampers, the rows are one unforked chain from the genesis
\* hash: each row is the successor of the row before it and hashes what it
\* stores, whichever of them are committed and whatever an append that raised
\* left behind.  This is what ledger.py:136-138 takes the lock for, and across
\* processes what the primary key and the UNIQUE column are left to hold up.
Chained(table) ==
  \A i \in DOMAIN table :
    /\ table[i].seq = i
    /\ table[i].prev = PrevHash(table, i)
    /\ table[i].hash = Hash(table[i].seq, table[i].payload, table[i].prev)

ChainIntact == tamper = NoTamper => Chained(Table)

\* Nobody in the same process appends between a thread's reading the head and
\* its INSERT, so an append is only ever refused because of another process:
\* with one process no request is lost to an IntegrityError (the lost appends
\* of decisions.md:822-840).
NoForkInProcess ==
  tamper = NoTamper =>
    \A t \in Thread : pc[t] = "linked" =>
      \A i \in DOMAIN Table : i > head[t].seq => author[i] # ProcessOf[t]

\* What GET /v1/ledger/verify answers although the walk and the head are read
\* under two acquisitions of the lock: never a false alarm, and, unless a
\* transaction it read in was rolled back, a head that commits at least to
\* every row the walk counted (api.py:294-303).
ReportIsTrue ==
  \A t \in Thread : tamper = NoTamper =>
    LET table == View(ProcessOf[t]) IN
    /\ report[t].walk.ok
    /\ failures = 0 =>
         /\ report[t].walk.checked <= Len(table)
         /\ pc[t] = "idle" /\ report[t].walk.checked > 0 /\ report[t].head # GENESIS_HASH
              => \E i \in report[t].walk.checked .. Len(table) :
                    table[i].hash = report[t].head

\* A head that was written down commits to the whole history: as long as the
\* chain verifies and still contains that head, the rows up to it are the rows
\* there were when it was read, whatever was done to the table since
\* (ledger.py:171-173, flow.md:225-226).
HeadCommits ==
  Breaks(rows) = {} /\ noted # <<>> =>
    \A i \in DOMAIN rows :
      rows[i].hash = noted[Len(noted)].hash => SubSeq(rows, 1, i) = noted

\* After one intervention on a row that has a successor, verify() names what
\* was done and at which entry, however many honest appends follow: an edit is
\* a content break there, an edit re-hashed is a link break at the next entry,
\* a removal is a sequence jump to the next entry (flow.md:217-221).
BreakIsNamed ==
  tamper.times = 1 /\ ~tamper.last =>
    LET walk == Verify(rows)
    IN  CASE tamper.kind = "edit"    -> walk.detail = "content" /\ walk.broken = tamper.at
          [] tamper.kind = "rehash"  -> walk.detail = "link" /\ walk.broken = tamper.at + 1
          [] tamper.kind = "remove"  -> walk.detail = "jump" /\ walk.broken = tamper.at + 1

\* A commit adds its rows after all the others and leaves those as they were:
\* the log everybody above the ledger relies on.
AbstractLog == INSTANCE AppendLog
                 WITH log <- [i \in DOMAIN rows |-> rows[i].payload]
ImplementsAppendLog == AbstractLog!Spec
=============================================================================
