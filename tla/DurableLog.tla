------------------------------ MODULE DurableLog ------------------------------
(***************************************************************************)
(* What the event store promises to publishers and readers: a log that     *)
(* only grows while the store runs, whose acknowledged part survives every *)
(* crash.  A batch that was submitted and not acknowledged is in doubt: it *)
(* may turn up whole after a restart or not at all, and nothing else is    *)
(* accepted before that restart.  No crash ever splits a batch.            *)
(***************************************************************************)
EXTENDS Naturals, Sequences

CONSTANT Batches   \* the nonempty sequences of records a publisher may submit

VARIABLES
  log,      \* the records in sequence order
  ends,     \* how long the log was after each of its batches, and at first
  acked,    \* how many of them are acknowledged
  pending   \* the batch being written or in doubt, or <<>>

logVars == <<log, ends, acked, pending>>

Init == log = <<>> /\ ends = {0} /\ acked = 0 /\ pending = <<>>

Submit ==
  /\ pending = <<>>
  /\ pending' \in Batches
  /\ UNCHANGED <<log, ends, acked>>

Acknowledge ==
  /\ pending # <<>>
  /\ log' = log \o pending
  /\ ends' = ends \cup {Len(log')}
  /\ acked' = Len(log')
  /\ pending' = <<>>

\* Process or machine: batches at the end that are not acknowledged may be lost,
\* each of them whole, and the one in doubt may turn up.
Crash ==
  /\ LET all     == log \o pending
         allEnds == ends \cup {Len(all)}
     IN  \E n \in allEnds :
           /\ acked <= n
           /\ log' = SubSeq(all, 1, n)
           /\ ends' = {e \in allEnds : e <= n}
  /\ pending' = <<>>
  /\ UNCHANGED acked

Next == Submit \/ Acknowledge \/ Crash

Spec == Init /\ [][Next]_logVars
=============================================================================
