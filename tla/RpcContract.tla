----------------------------- MODULE RpcContract -----------------------------
(***************************************************************************)
(* What the broker promises about ONE admitted call, whatever scheduler    *)
(* implements it (docs/RPC-PROTOCOL.md states it in words; the steps below *)
(* are those the code of src/crates/velobus/src/rpc.rs can make).  A call  *)
(* is queued, handed to at most one worker, and ends; its caller is told   *)
(* one outcome, and is told a worker's outcome only if a worker reported   *)
(* it.  The clock and the set of departed connections are its environment. *)
(***************************************************************************)
CONSTANTS Conns, None

VARIABLES
  caller,   \* the connection that asked, or None
  phase,    \* "unborn", "queued", "running" or "over"
  holder,   \* the worker that runs it, or None
  result,   \* the outcome its worker reported to a caller that listened
  answer,   \* what the caller was told, "pending" before that
  overdue,  \* its deadline has passed
  gone      \* connections that have departed

callVars == <<caller, phase, holder, result, answer>>
contractVars == <<callVars, overdue, gone>>

WorkerOutcomes == {"ok", "handler_error"}

Init ==
  /\ caller = None
  /\ phase = "unborn"
  /\ holder = None
  /\ result = "none"
  /\ answer = "pending"
  /\ overdue = FALSE
  /\ gone = {}

Environment ==
  /\ overdue => overdue'
  /\ gone \subseteq gone'

\* Time passes and connections come and go.
Elsewhere == UNCHANGED callVars

Accept ==
  /\ phase = "unborn"
  /\ phase' = "queued"
  /\ caller' \in Conns \ gone'
  /\ ~overdue'
  /\ UNCHANGED <<holder, result, answer>>

\* Expired, cancelled or stranded before any worker had it.
Withdraw ==
  /\ phase = "queued"
  /\ phase' = "over"
  /\ UNCHANGED <<caller, holder, result, answer>>

\* Never after the deadline, and never to a connection that has gone.
Dispatch ==
  /\ phase = "queued"
  /\ phase' = "running"
  /\ holder' \in Conns \ gone'
  /\ ~overdue'
  /\ UNCHANGED <<caller, result, answer>>

\* The worker completes; a late completion reports no outcome.
Finish ==
  /\ phase = "running"
  /\ holder \notin gone'
  /\ phase' = "over"
  /\ holder' = None
  /\ \/ result' \in WorkerOutcomes /\ ~overdue /\ answer = "pending"
     \/ result' = result
  /\ UNCHANGED <<caller, answer>>

\* The worker departs with the call: it is not replayed.
Lose ==
  /\ phase = "running"
  /\ holder \in gone'
  /\ phase' = "over"
  /\ holder' = None
  /\ UNCHANGED <<caller, result, answer>>

\* The caller is told.  This stops no work in progress: a call a worker holds
\* stays held.  A caller that is aborted throws the outcome away.
Tell ==
  /\ phase # "unborn"
  /\ answer = "pending"
  /\ answer' \in WorkerOutcomes \cup {"deadline", "unavailable", "closed", "aborted"}
  /\ answer' \in WorkerOutcomes => phase = "over" /\ answer' = result
  /\ result \in WorkerOutcomes => answer' \in {result, "aborted"}
  /\ answer' = "deadline" => overdue
  /\ answer' \in {"closed", "aborted"} => caller \in gone
  /\ phase' = IF answer' = "deadline" /\ phase = "queued" THEN "over" ELSE phase
  /\ result' = IF answer' = "aborted" THEN "none" ELSE result
  /\ UNCHANGED <<caller, holder>>

Next ==
  /\ Environment
  /\ Elsewhere \/ Accept \/ Withdraw \/ Dispatch \/ Finish \/ Lose \/ Tell

Spec == Init /\ [][Next]_contractVars
=============================================================================
