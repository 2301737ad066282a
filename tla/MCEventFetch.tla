----------------------------- MODULE MCEventFetch -----------------------------
(* A small instance of EventFetch for TLC. *)
EXTENDS EventFetch

\* Two events of one topic and key, of two sizes, one without key, one of
\* another topic.
MCRecords ==
  {[topic |-> "a", key |-> "k", size |-> 1], [topic |-> "a", key |-> "k", size |-> 2],
   [topic |-> "a", key |-> "", size |-> 1],  [topic |-> "b", key |-> "k", size |-> 1]}

\* One topic or all, every event or the latest, budgets an event can exceed;
\* a start that may be beyond the log.
MCRequests ==
  [topic : {"a", "*"}, latest : BOOLEAN, limit : {1, 2}, max_bytes : {1, 3},
   after : {0, 1}]
=============================================================================
