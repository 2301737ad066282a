---------------------------- MODULE RpcRefinement ----------------------------
(***************************************************************************)
(* The scheduler keeps the contract of every call.  An abstract phase is   *)
(* read off the calls map and next_id, and the answer off the ticket.      *)
(***************************************************************************)
EXTENDS RpcScheduler

PhaseOf(i) ==
  IF i >= next_id THEN "unborn"
  ELSE IF i \notin Live THEN "over"
  ELSE IF calls[i].owner = None THEN "queued"
  ELSE "running"

CallerOf(i) == IF i \in DOMAIN tickets THEN tickets[i].caller ELSE None
HolderOf(i) == IF i \in Live THEN calls[i].owner ELSE None

\* A worker's outcome stays in the ticket from the moment it is sent, except
\* that an abort throws it away with the channel.
ResultOf(i) ==
  IF i \in DOMAIN tickets /\ tickets[i].reply \in {"ok", "handler_error"}
  THEN tickets[i].reply
  ELSE "none"

AnswerOf(i) ==
  IF i \in DOMAIN tickets /\ tickets[i].pc \in {"dropping", "done"}
  THEN tickets[i].reply
  ELSE "pending"

CallContract(i) ==
  INSTANCE RpcContract WITH
    caller <- CallerOf(i), phase <- PhaseOf(i), holder <- HolderOf(i), result <- ResultOf(i),
    answer <- AnswerOf(i), overdue <- (i \in late), gone <- retired

ContractsOpen == \A i \in Ids : CallContract(i)!Init

ContractsStep ==
  \A i \in Ids : CallContract(i)!Next \/ UNCHANGED CallContract(i)!contractVars

\* The scheduler implements, for every call id, the promise of RpcContract: at
\* most one worker, no dispatch after the deadline, no replay, one answer, and a
\* worker's outcome only if a worker reported it in time.
\* (The universal quantifier is inside the box: TLC checks no other form.)
KeepsContract == ContractsOpen /\ [][ContractsStep]_vars
=============================================================================
