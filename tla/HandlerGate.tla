---------------------------- MODULE HandlerGate -----------------------------
(***************************************************************************)
(* HandlerGate of packages/client/src/cluster.ts and the handler that      *)
(* ClusterService wraps in it: one gate per service, for the slots it has  *)
(* on every broker and for the handlers that outlive their connection.     *)
(* A job is one call of the wrapped handler by a slot.                     *)
(***************************************************************************)
EXTENDS Containers

CONSTANTS
  Brokers, \* those a service is registered on
  Limits,  \* what the concurrency of a service may be
  MaxJobs  \* bound: jobs that brokers hand out

ASSUME GateAssumption ==
  IsFiniteSet(Brokers) /\ Limits \subseteq Nat \ {0} /\ MaxJobs \in Nat

VARIABLES
  limit,    \* concurrency: slots per broker, and permits of the gate
  active,   \* permits taken
  waiters,  \* jobs that wait for one, in order
  jobs,     \* jobs so far: [pc, aborted]
  slots     \* the job of each slot of the current connections, 0 for none

gateVars == <<limit, active, waiters, jobs, slots>>

Slots      == Brokers \X (1 .. limit)
MaxWaiting == Cardinality(Slots)
Ids        == DOMAIN jobs

GateInit ==
  /\ limit \in Limits
  /\ active = 0
  /\ waiters = <<>>
  /\ jobs = <<>>
  /\ slots = [s \in Slots |-> 0]

-----------------------------------------------------------------------------

MayEnter == active < limit

\* acquire(): a permit, a place in the queue or an error.
Admission(aborted) ==
  CASE aborted -> "rejected"
    [] ~aborted /\ MayEnter -> "granted"
    [] ~aborted /\ ~MayEnter /\ Len(waiters) >= MaxWaiting -> "refused"
    [] OTHER -> "waiting"

\* A slot calls the handler; a job without time left has its signal aborted.
Call(s, aborted) ==
  LET pc == Admission(aborted)
  IN  /\ slots[s] = 0
      /\ Len(jobs) < MaxJobs
      /\ jobs' = Append(jobs, [pc |-> pc, aborted |-> aborted])
      /\ slots' = [slots EXCEPT ![s] = Len(jobs) + 1]
      /\ active' = IF pc = "granted" THEN active + 1 ELSE active
      /\ waiters' = IF pc = "waiting" THEN Enqueue(waiters, Len(jobs) + 1) ELSE waiters

\* waiter.abort(): the waiter leaves the queue.
Left(J) == Without(waiters, J)

Aborted(J) ==
  [j \in Ids |-> IF j \notin J THEN jobs[j]
                 ELSE [pc |-> IF jobs[j].pc = "waiting" THEN "rejected" ELSE jobs[j].pc,
                       aborted |-> TRUE]]

\* Mutant of Abortable: acquire() does not listen to the signal.
AbortableOnceGranted == {"granted", "running"}

Abortable == {"waiting", "granted", "running"}

\* The deadline of a job: its slot stays taken until the handler settles.
Deadline(j) ==
  /\ jobs[j].pc \in Abortable /\ ~jobs[j].aborted
  /\ jobs' = Aborted({j})
  /\ waiters' = Left({j})
  /\ UNCHANGED <<active, slots>>

\* A broker's connection is lost: its service handle aborts what runs, and
\* the next connection has slots of its own.
Reconnect(n) ==
  LET J == {slots[<<n, i>>] : i \in 1 .. limit} \ {0}
  IN  /\ J # {}
      /\ jobs' = Aborted(J)
      /\ waiters' = Left(J)
      /\ slots' = [s \in Slots |-> IF s[1] = n THEN 0 ELSE slots[s]]
      /\ UNCHANGED active

SlotsFreed(j) == [s \in Slots |-> IF slots[s] = j THEN 0 ELSE slots[s]]

\* How many waiters the release starts.
Started == IF waiters # <<>> /\ active <= limit THEN 1 ELSE 0

Turn == SubSeq(waiters, 1, Started)

\* release(), in the finally of the wrapped handler.
Release(j) ==
  /\ active' = active - 1 + Len(Turn)
  /\ waiters' = Without(waiters, Range(Turn))
  /\ jobs' = [i \in Ids |->
       CASE i = j -> [jobs[i] EXCEPT !.pc = "done"]
         [] i \in Range(Turn) -> [jobs[i] EXCEPT !.pc = "granted"]
         [] OTHER -> jobs[i]]
  /\ slots' = SlotsFreed(j)

\* The wrapped handler goes on after acquire(): aborted or out of time, it
\* throws and gives its permit back.
Admitted(j) ==
  /\ jobs[j].pc = "granted" /\ ~jobs[j].aborted
  /\ jobs' = [jobs EXCEPT ![j].pc = "running"]
  /\ UNCHANGED <<active, waiters, slots>>

\* Mutant of TooLate: throws before the try whose finally releases.
TooLateKeeps(j) ==
  /\ jobs[j].pc = "granted"
  /\ jobs' = [jobs EXCEPT ![j].pc = "done"]
  /\ slots' = SlotsFreed(j)
  /\ UNCHANGED <<active, waiters>>

TooLate(j) == jobs[j].pc = "granted" /\ Release(j)

HandlerSettles(j) == jobs[j].pc = "running" /\ Release(j)

\* acquire() rejected.
Rejected(j) ==
  /\ jobs[j].pc \in {"rejected", "refused"}
  /\ jobs' = [jobs EXCEPT ![j].pc = "done"]
  /\ slots' = SlotsFreed(j)
  /\ UNCHANGED <<active, waiters>>

GateNext ==
  /\ \/ \E s \in Slots, aborted \in BOOLEAN : Call(s, aborted)
     \/ \E n \in Brokers : Reconnect(n)
     \/ \E j \in Ids : \/ Deadline(j) \/ Admitted(j) \/ TooLate(j)
                       \/ HandlerSettles(j) \/ Rejected(j)
  /\ UNCHANGED limit

\* Continuations run and timers fire.  Handlers may never settle.
GateSpec ==
  /\ GateInit /\ [][GateNext]_gateVars
  /\ \A j \in 1 .. MaxJobs :
       /\ WF_gateVars(j \in Ids /\ Deadline(j) /\ UNCHANGED limit)
       /\ WF_gateVars(j \in Ids /\ (Admitted(j) \/ TooLate(j) \/ Rejected(j)) /\ UNCHANGED limit)

-----------------------------------------------------------------------------

GateTypeOK ==
  /\ limit \in Limits
  /\ active \in 0 .. limit
  /\ waiters \in Seq(Ids)
  /\ jobs \in Seq([pc : {"granted", "refused", "waiting", "running", "rejected", "done"},
                   aborted : BOOLEAN])
  /\ slots \in [Slots -> {0} \cup Ids]

JobsAt(pc) == {j \in Ids : jobs[j].pc = pc}

\* A permit is never idle while a job waits, and who waits is in the queue.
NoIdlePermit ==
  /\ waiters # <<>> => active = limit
  /\ Range(waiters) = JobsAt("waiting") /\ Len(waiters) = Cardinality(JobsAt("waiting"))

\* "Cluster worker admission bound exceeded" is never thrown: with the permits
\* held by handlers of connections long lost, at most one job of each current
\* slot waits, because a lost connection takes its waiters out of the queue.
BoundNeverHit == JobsAt("refused") = {}

\* Each permit taken is held by one handler that runs or is about to: those
\* of lost connections count as well, so that the handlers of one service
\* never exceed its concurrency over all brokers and reconnections.
PermitsHeld ==
  /\ GateTypeOK
  /\ active = Cardinality(JobsAt("granted") \cup JobsAt("running"))
  /\ NoIdlePermit
  /\ BoundNeverHit

Waits(j) == j \in JobsAt("waiting")

\* No job gets a permit before one that has waited longer.
TurnStep ==
  \A j, k \in Ids :
    /\ j < k /\ jobs[j].pc = "waiting" /\ jobs[k].pc = "waiting"
    /\ jobs'[k].pc = "granted"
    => jobs'[j].pc # "waiting"

\* No job waits for ever, though the handlers ahead of it may never settle; and
\* permits are granted in the order of the calls.
WaitEnds ==
  /\ \A j \in 1 .. MaxJobs : Waits(j) ~> ~Waits(j)
  /\ [][TurnStep]_gateVars
=============================================================================
