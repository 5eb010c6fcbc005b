------------------------------ MODULE Checkpost ------------------------------
(***************************************************************************)
(* What engine/gateway.py promises everybody behind the door: the log is   *)
(* all there is.  Requests, signatures and outcomes arrive as rows, and a  *)
(* decision is judged in one step on the counters the whole log before it  *)
(* adds up to.  There are no threads, no memory to lose and no rebuild.    *)
(***************************************************************************)
EXTENDS Naturals, Sequences

CONSTANTS
  Requests,       \* what may be asked
  Hours,          \* when a request may be judged
  Nothing,        \* the counters of an empty log
  Counted(_, _),  \* the counters after one more row
  Ruled(_, _, _)  \* the decision row on counters, a request and an hour

VARIABLE log

\* The counters a log adds up to, read from its first row to its last.
Rebuilt(rows) ==
  LET upto[n \in 0 .. Len(rows)] ==
        IF n = 0 THEN Nothing ELSE Counted(upto[n - 1], rows[n])
  IN  upto[Len(rows)]

Init == log = <<>>

Request(req) == log' = Append(log, [type |-> "request", req |-> req])

\* Asked, and nothing but outcomes has been written since.
Waiting(req) ==
  \E j \in DOMAIN log :
    /\ log[j] = [type |-> "request", req |-> req]
    /\ \A k \in j + 1 .. Len(log) : log[k].type = "outcome"

Decide(req, at) ==
  /\ Waiting(req)
  /\ log' = Append(log, Ruled(Rebuilt(log), req, at))

\* A person's answer, ahead of the ask or behind it, or what came of it.
Report(id, type) == log' = Append(log, [type |-> type, id |-> id])

Next ==
  \E req \in Requests :
    \/ Request(req)
    \/ \E at \in Hours : Decide(req, at)
    \/ \E type \in {"human_approval", "human_rejection", "outcome"} : Report(req.id, type)

Spec == Init /\ [][Next]_log
=============================================================================
