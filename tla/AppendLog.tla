----------------------------- MODULE AppendLog -----------------------------
(***************************************************************************)
(* What engine/ledger.py promises everybody above it, and nothing about    *)
(* how: one sequence of payloads that only ever grows at its end, by the   *)
(* entries of one commit.  No entry is changed, removed or reordered.      *)
(***************************************************************************)
EXTENDS Naturals, Sequences

CONSTANT Payload        \* what an entry may say (type, canonical JSON, time)

VARIABLE log

Init == log = <<>>

Grow ==
  /\ log' \in Seq(Payload)
  /\ Len(log) < Len(log')
  /\ \A i \in DOMAIN log : log'[i] = log[i]

Spec == Init /\ [][Grow]_log
=============================================================================
