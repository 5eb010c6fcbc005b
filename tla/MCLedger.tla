------------------------------ MODULE MCLedger ------------------------------
(* Values for model checking Ledger: a server with two threads and, in the  *)
(* shared configuration, a replay process on the same database file.        *)
EXTENDS Ledger, TLC

CONSTANTS server, replay, t1, t2, t3

TwoProcesses == (t1 :> server) @@ (t2 :> server) @@ (t3 :> replay)
OneProcess   == (t1 :> server) @@ (t2 :> server)

\* noted is written and never read by a step, and only HeadCommits, which the
\* other configuration checks, asks about it.
Unnoted == <<rows, transaction, lock, pc, entry, head, report, tamper, crashes, failures>>

ServerThreads == Permutations({t1, t2})
=============================================================================
