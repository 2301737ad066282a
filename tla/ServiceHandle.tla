--------------------------- MODULE ServiceHandle ----------------------------
(***************************************************************************)
(* Client.handle() of packages/client/src/index.ts: a service opens a      *)
(* child connection, registers on it and runs one take/handle/complete     *)
(* loop per slot.  What a promise settles with and the continuation of its *)
(* await are two steps, so that a failure or close() fits between them.    *)
(* The broker and the handlers answer as they like.                        *)
(***************************************************************************)
EXTENDS Naturals

CONSTANT Slots  \* 1 .. concurrency

VARIABLES
  phase,         \* how far handle() has come
  parentClosed,  \* the client handle() was called on
  childClosed,   \* the service's own connection
  listed,        \* the service is in this.services
  observed,      \* onFailure is in child.failureObservers
  stopped,
  reports,       \* calls of report()
  slots,         \* the loops of run(): what each awaits, or has just got
  active,        \* slots with a controller in the map
  aborted        \* slots whose handler has seen its signal abort

vars == <<phase, parentClosed, childClosed, listed, observed, stopped, reports,
          slots, active, aborted>>

Phases == {"opening", "opened", "registering", "registered", "refused", "serving", "failed"}
Asking == {"taking", "completing"}
Loops  == Asking \cup {"none", "job", "running", "settled", "completed", "rejected",
                       "idle", "ended"}

Init ==
  /\ phase = "opening"
  /\ parentClosed = FALSE /\ childClosed = FALSE
  /\ listed = FALSE /\ observed = FALSE /\ stopped = FALSE
  /\ reports = 0
  /\ slots = [s \in Slots |-> "idle"]
  /\ active = {} /\ aborted = {}

-----------------------------------------------------------------------------

\* child.fail(): the promises of its pending requests are rejected.
Rejected(loops) == [s \in Slots |-> IF loops[s] \in Asking THEN "rejected" ELSE loops[s]]

Signalled == aborted \cup active

\* service.close(): once; the observer goes first, so that closing the child
\* is not reported as a failure.
CloseService(loops) ==
  /\ stopped' = TRUE /\ listed' = FALSE /\ observed' = FALSE
  /\ aborted' = Signalled /\ active' = {}
  /\ childClosed' = TRUE
  /\ slots' = Rejected(loops)

OnFailure(loops) ==
  IF stopped
  THEN slots' = loops /\ UNCHANGED <<stopped, listed, observed, aborted, active, childClosed, reports>>
  ELSE CloseService(loops) /\ reports' = reports + 1

\* The application closes the service that handle() gave it.
Close ==
  /\ phase = "serving" /\ ~stopped
  /\ CloseService(slots)
  /\ UNCHANGED <<phase, parentClosed, reports>>

\* The child's connection fails.
ChildFails ==
  /\ ~childClosed
  /\ IF observed THEN OnFailure(slots)
     ELSE /\ childClosed' = TRUE
          /\ slots' = Rejected(slots)
          /\ UNCHANGED <<listed, observed, stopped, active, aborted, reports>>
  /\ UNCHANGED <<phase, parentClosed>>

\* fail() of the parent: its services first, then its child connections, which
\* onCreated lists before their sockets connect.
ParentFails ==
  /\ ~parentClosed
  /\ parentClosed' = TRUE
  /\ IF listed THEN CloseService(slots)
     ELSE /\ childClosed' = TRUE
          /\ slots' = Rejected(slots)
          /\ UNCHANGED <<listed, observed, stopped, active, aborted>>
  /\ UNCHANGED <<phase, reports>>

-----------------------------------------------------------------------------
(* handle() up to its return.                                              *)

\* The child's HELLO and registration are answered.
SetupAnswered ==
  /\ ~childClosed
  /\ \/ phase = "opening" /\ phase' = "opened"
     \/ phase = "registering" /\ phase' \in {"registered", "refused"}
  /\ UNCHANGED <<parentClosed, childClosed, listed, observed, stopped, reports,
                 slots, active, aborted>>

\* catch: the service is closed and handle() throws.  (Client.open throws
\* before there is a service, and closes the child itself.)
SetupFails ==
  /\ \/ phase \in {"opening", "registering"} /\ childClosed
     \/ phase = "refused"
     \/ phase \in {"opened", "registered"} /\ (parentClosed \/ childClosed)
  /\ phase' = "failed"
  /\ CloseService(slots)
  /\ UNCHANGED <<parentClosed, reports>>

Register ==
  /\ phase = "opened" /\ ~parentClosed /\ ~childClosed
  /\ listed' = TRUE
  /\ phase' = "registering"
  /\ UNCHANGED <<parentClosed, childClosed, observed, stopped, reports, slots, active, aborted>>

\* Mutant of StillOpen: only the parent is looked at again.
ParentOpen == ~parentClosed

StillOpen == ~parentClosed /\ ~childClosed

Serve ==
  /\ phase = "registered" /\ StillOpen
  /\ phase' = "serving"
  /\ observed' = TRUE
  /\ slots' = [s \in Slots |-> "taking"]
  /\ UNCHANGED <<parentClosed, childClosed, listed, stopped, reports, active, aborted>>

-----------------------------------------------------------------------------
(* run(), one per slot.                                                    *)

Outcomes ==
  [taking |-> {"none", "job", "rejected"}, completing |-> {"completed", "rejected"},
   running |-> {"settled"}]

SlotIs(s, pc) == slots' = [slots EXCEPT ![s] = pc]

\* A request is answered, by a BrokerError perhaps, or a handler settles.
SlotSettles(s) ==
  /\ slots[s] \in DOMAIN Outcomes
  /\ \E outcome \in Outcomes[slots[s]] : SlotIs(s, outcome)
  /\ UNCHANGED <<phase, parentClosed, childClosed, listed, observed, stopped, reports,
                 active, aborted>>

\* The deadline passes: the abort is advisory and the slot stays taken.
HandlerLate(s) ==
  /\ s \in active
  /\ aborted' = aborted \cup {s}
  /\ UNCHANGED <<phase, parentClosed, childClosed, listed, observed, stopped, reports,
                 slots, active>>

\* child.send() rejects at once when the child is closed.
Asks(s, request) == SlotIs(s, IF childClosed THEN "rejected" ELSE request)

NextTake(s) ==
  /\ slots[s] \in {"none", "completed"} /\ ~stopped
  /\ Asks(s, "taking")
  /\ UNCHANGED <<phase, parentClosed, childClosed, listed, observed, stopped, reports,
                 active, aborted>>

\* Mutant of MayHandle: a job that came is handled.
AlwaysHandle == TRUE

MayHandle == ~stopped

\* A job without time left starts with its signal aborted.
Handle(s) ==
  /\ slots[s] = "job" /\ MayHandle
  /\ SlotIs(s, "running")
  /\ active' = active \cup {s}
  /\ aborted' \in {aborted \ {s}, aborted \cup {s}}
  /\ UNCHANGED <<phase, parentClosed, childClosed, listed, observed, stopped, reports>>

Complete(s) ==
  /\ slots[s] = "settled"
  /\ active' = active \ {s}
  /\ IF stopped THEN SlotIs(s, "ended") ELSE Asks(s, "completing")
  /\ UNCHANGED <<phase, parentClosed, childClosed, listed, observed, stopped, reports, aborted>>

Leave(s) ==
  /\ slots[s] \in {"none", "job", "completed"} /\ stopped
  /\ SlotIs(s, "ended")
  /\ UNCHANGED <<phase, parentClosed, childClosed, listed, observed, stopped, reports,
                 active, aborted>>

\* run().catch(onFailure)
Throw(s) ==
  /\ slots[s] = "rejected"
  /\ OnFailure([slots EXCEPT ![s] = "ended"])
  /\ UNCHANGED <<phase, parentClosed>>

Continue(s) == NextTake(s) \/ Handle(s) \/ Complete(s) \/ Leave(s) \/ Throw(s)
Setup       == SetupAnswered \/ SetupFails \/ Register \/ Serve

Next ==
  \/ Close \/ ChildFails \/ ParentFails
  \/ Setup
  \/ \E s \in Slots : SlotSettles(s) \/ HandlerLate(s) \/ Continue(s)

\* Continuations run; the child's timers settle what the broker leaves
\* unanswered.  Nothing is assumed of handlers.
Spec ==
  /\ Init /\ [][Next]_vars
  /\ WF_vars(Setup)
  /\ \A s \in Slots :
       /\ WF_vars(Continue(s))
       /\ WF_vars(slots[s] \in Asking /\ SlotSettles(s))

-----------------------------------------------------------------------------

\* A failure is reported once, however many loops it throws out of.
TypeOK ==
  /\ phase \in Phases
  /\ {parentClosed, childClosed, listed, observed, stopped} \subseteq BOOLEAN
  /\ reports \in 0 .. 1
  /\ slots \in [Slots -> Loops]
  /\ active \subseteq Slots /\ aborted \subseteq Slots

\* handle() never returns a service whose connection is lost without the
\* service knowing: the failure comes before the observer is attached, in the
\* gap between the answer and the continuation, or is observed.
ServingMeansOpen == phase = "serving" /\ childClosed => stopped

\* close() of the parent, at any moment of handle(), takes the child with it.
ChildDiesWithParent == parentClosed => childClosed

\* Every handler that outlives its service has had its signal aborted, and no
\* controller or timer is left behind.
HandlersAreTold ==
  /\ active = IF stopped THEN {} ELSE {s \in Slots : slots[s] \in {"running", "settled"}}
  /\ stopped => \A s \in Slots : slots[s] = "running" => s \in aborted

\* No failure goes unseen, whichever of the child, the parent and the
\* application ends the service at whatever moment of its setup or its loops:
\* the parent's close reaches the child, the child's the service, and the
\* service's every handler; and one failure is reported once.
FailuresReachService ==
  TypeOK /\ ServingMeansOpen /\ ChildDiesWithParent /\ HandlersAreTold

\* No loop of a stopped service comes to run a handler or to ask the broker.
QuietStep ==
  stopped => \A s \in Slots : slots'[s] \in Asking \cup {"running"} => slots'[s] = slots[s]

\* Once stopped a service starts no handler and sends nothing, neither the job
\* of a TAKE answered before nor the result of a handler that settles; and
\* every loop ends but those whose handler never settles.
StopIsFinal ==
  /\ [][QuietStep]_vars
  /\ phase = "serving" /\ stopped ~> \A s \in Slots : slots[s] \in {"ended", "running"}
=============================================================================
