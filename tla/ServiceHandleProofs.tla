------------------------- MODULE ServiceHandleProofs -------------------------
(***************************************************************************)
(* No failure goes unseen by a service, and a stopped service starts and   *)
(* sends nothing: for any number of slots.                                 *)
(***************************************************************************)
EXTENDS ServiceHandle, TLAPS

\* The parent knows the service from its registration until it is closed, and a
\* service that is set up watches its connection.
SetupRight ==
  /\ listed \/ observed => ~stopped
  /\ phase \in {"opening", "opened"} => ~listed /\ ~observed
  /\ phase \in {"registering", "registered", "refused"} /\ ~childClosed => listed
  /\ phase = "serving" /\ ~stopped => listed /\ observed
  /\ observed => phase = "serving"
  /\ phase = "failed" => stopped

\* Closing a service closes its connection, and only a closed service reports.
StopRight ==
  /\ stopped => childClosed
  /\ ~stopped => reports = 0
  /\ phase \in {"opening", "opened"} => ~stopped

\* No loop runs before the service is set up.
LoopsRight == phase # "serving" => \A s \in Slots : slots[s] = "idle"

ServiceInv == FailuresReachService /\ SetupRight /\ StopRight /\ LoopsRight

-----------------------------------------------------------------------------
(* What a step changes.                                                    *)

\* A connection that fails rejects what its service has asked, and touches no
\* handler.
LEMMA RejectedIs ==
  ASSUME NEW loops \in [Slots -> Loops]
  PROVE  /\ Rejected(loops) \in [Slots -> Loops]
         /\ \A s \in Slots : Rejected(loops)[s] \notin Asking
         /\ \A s \in Slots : loops[s] \notin Asking => Rejected(loops)[s] = loops[s]
         /\ \A s \in Slots : loops[s] \in Asking => Rejected(loops)[s] = "rejected"
  BY DEF Rejected, Loops, Asking

\* Closing the service, or doing so again when its setup fails.
LEMMA ClosingKeeps ==
  ASSUME ServiceInv, NEW loops \in [Slots -> Loops], CloseService(loops),
         \A s \in Slots : loops[s] = "running" => slots[s] = "running",
         phase' # "serving" => \A s \in Slots : loops[s] = "idle",
         phase' \in Phases \ {"opening", "opened"},
         parentClosed' \in BOOLEAN, reports' \in 0 .. 1
  PROVE  ServiceInv'
<1>1. /\ stopped' = TRUE /\ listed' = FALSE /\ observed' = FALSE /\ childClosed' = TRUE
      /\ aborted' = aborted \cup active /\ active' = {} /\ slots' = Rejected(loops)
  BY DEF CloseService, Signalled
<1>2. /\ slots' \in [Slots -> Loops]
      /\ \A s \in Slots : (slots'[s] \in {"running", "idle"}) <=> (loops[s] \in {"running", "idle"})
  BY <1>1, RejectedIs DEF Asking
<1>3. \A s \in Slots : loops[s] \in {"running", "idle"} => slots'[s] = loops[s]
  BY <1>1, RejectedIs DEF Asking
<1>4. TypeOK'
  BY <1>1, <1>2 DEF ServiceInv, FailuresReachService, TypeOK
<1>5. HandlersAreTold'
  <2>1. \A s \in Slots : slots[s] = "running" => s \in aborted \cup active
    BY DEF ServiceInv, FailuresReachService, HandlersAreTold
  <2>2. \A s \in Slots : slots'[s] = "running" => slots[s] = "running"
    BY <1>2, <1>3
  <2> QED
    BY <1>1, <2>1, <2>2 DEF HandlersAreTold
<1>6. FailuresReachService'
  BY <1>1, <1>4, <1>5 DEF FailuresReachService, ServingMeansOpen, ChildDiesWithParent
<1>7. SetupRight' /\ StopRight'
  BY <1>1 DEF SetupRight, StopRight
<1>8. LoopsRight'
  BY <1>3 DEF LoopsRight
<1> QED
  BY <1>6, <1>7, <1>8 DEF ServiceInv

\* The connection is lost and nobody tells the service: it is stopped, or not
\* set up yet.
LEMMA LosingKeeps ==
  ASSUME ServiceInv, childClosed' = TRUE, slots' = Rejected(slots), parentClosed' \in BOOLEAN,
         phase = "serving" => stopped,
         UNCHANGED <<phase, listed, observed, stopped, active, aborted, reports>>
  PROVE  ServiceInv'
<1>1. slots \in [Slots -> Loops]
  BY DEF ServiceInv, FailuresReachService, TypeOK
<1>2. /\ slots' \in [Slots -> Loops]
      /\ \A s \in Slots : slots[s] \notin Asking => slots'[s] = slots[s]
      /\ \A s \in Slots : slots[s] \in Asking => slots'[s] = "rejected"
  BY <1>1, RejectedIs
<1>3. ASSUME NEW s \in Slots
      PROVE  /\ (slots'[s] = "running") <=> (slots[s] = "running")
             /\ (slots'[s] = "settled") <=> (slots[s] = "settled")
             /\ (slots[s] = "idle") => (slots'[s] = "idle")
  <2>1. CASE slots[s] \in Asking
    BY <1>2, <2>1 DEF Asking
  <2>2. CASE slots[s] \notin Asking
    BY <1>2, <2>2
  <2> QED
    BY <2>1, <2>2
<1>4. TypeOK'
  BY <1>2 DEF ServiceInv, FailuresReachService, TypeOK
<1>5. HandlersAreTold'
  BY <1>3 DEF ServiceInv, FailuresReachService, HandlersAreTold
<1>6. FailuresReachService'
  BY <1>4, <1>5 DEF FailuresReachService, ServingMeansOpen, ChildDiesWithParent
<1>7. SetupRight' /\ StopRight'
  BY DEF ServiceInv, SetupRight, StopRight
<1>8. LoopsRight'
  BY <1>3 DEF ServiceInv, LoopsRight
<1> QED
  BY <1>6, <1>7, <1>8 DEF ServiceInv

\* A loop goes on, or a handler's signal aborts.
LEMMA LoopKeeps ==
  ASSUME ServiceInv, slots' \in [Slots -> Loops], active' \subseteq Slots, aborted' \subseteq Slots,
         phase = "serving", HandlersAreTold',
         UNCHANGED <<phase, parentClosed, childClosed, listed, observed, stopped, reports>>
  PROVE  ServiceInv'
<1>1. TypeOK'
  BY DEF ServiceInv, FailuresReachService, TypeOK
<1> QED
  BY <1>1 DEF ServiceInv, FailuresReachService, ServingMeansOpen, ChildDiesWithParent, SetupRight,
              StopRight, LoopsRight

\* One loop goes on: what it was at and is at now decides about its controller.
LEMMA SlotKeeps ==
  ASSUME ServiceInv, NEW s \in Slots, NEW pc \in Loops, SlotIs(s, pc), slots[s] # "idle",
         active' = IF stopped THEN {}
                   ELSE IF pc \in {"running", "settled"} THEN active \cup {s} ELSE active \ {s},
         aborted' \subseteq Slots, aborted \ {s} \subseteq aborted',
         stopped /\ pc = "running" => s \in aborted',
         UNCHANGED <<phase, parentClosed, childClosed, listed, observed, stopped, reports>>
  PROVE  ServiceInv'
<1>1. phase = "serving"
  BY DEF ServiceInv, LoopsRight
<1>2. slots \in [Slots -> Loops] /\ active \subseteq Slots
  BY DEF ServiceInv, FailuresReachService, TypeOK
<1>3. slots' \in [Slots -> Loops] /\ slots'[s] = pc /\ \A u \in Slots \ {s} : slots'[u] = slots[u]
  BY <1>2 DEF SlotIs
<1>4. active' \subseteq Slots
  BY <1>2
<1>5. HandlersAreTold'
  <2>1. active' = IF stopped' THEN {} ELSE {u \in Slots : slots'[u] \in {"running", "settled"}}
    BY <1>3 DEF ServiceInv, FailuresReachService, HandlersAreTold
  <2>2. ASSUME stopped', NEW u \in Slots, slots'[u] = "running"
        PROVE  u \in aborted'
    <3>1. CASE u = s
      BY <1>3, <2>2, <3>1
    <3>2. CASE u # s
      <4>1. u \in aborted
        BY <1>3, <2>2, <3>2 DEF ServiceInv, FailuresReachService, HandlersAreTold
      <4> QED
        BY <3>2, <4>1
    <3> QED
      BY <3>1, <3>2
  <2> QED
    BY <2>1, <2>2 DEF HandlersAreTold
<1> QED
  BY <1>1, <1>3, <1>4, <1>5, LoopKeeps

-----------------------------------------------------------------------------
(* The steps.                                                              *)

\* The application, the child and the parent may end the service.
LEMMA EndsKeep ==
  ASSUME ServiceInv, Close \/ ChildFails \/ ParentFails
  PROVE  ServiceInv'
<1>1. /\ slots \in [Slots -> Loops] /\ phase \in Phases /\ reports \in 0 .. 1
      /\ parentClosed \in BOOLEAN
      /\ phase # "serving" => \A s \in Slots : slots[s] = "idle"
  BY DEF ServiceInv, FailuresReachService, TypeOK, LoopsRight
<1>2. CASE Close
  <2>1. /\ CloseService(slots) /\ phase' = "serving" /\ UNCHANGED <<parentClosed, reports>>
    BY <1>2 DEF Close
  <2> QED
    BY <1>1, <2>1, ClosingKeeps DEF Phases
<1>3. CASE ChildFails
  <2>1. CASE observed
    <3>1. ~stopped /\ reports = 0 /\ phase = "serving"
      BY <2>1 DEF ServiceInv, SetupRight, StopRight
    <3>2. /\ CloseService(slots) /\ reports' = reports + 1 /\ UNCHANGED <<phase, parentClosed>>
      BY <1>3, <2>1, <3>1 DEF ChildFails, OnFailure
    <3> QED
      BY <1>1, <3>1, <3>2, ClosingKeeps DEF Phases
  <2>2. CASE ~observed
    <3>1. phase = "serving" => stopped
      BY <2>2 DEF ServiceInv, SetupRight
    <3> QED
      BY <1>1, <1>3, <2>2, <3>1, LosingKeeps DEF ChildFails
  <2> QED
    BY <2>1, <2>2
<1>4. CASE ParentFails
  <2>1. CASE listed
    <3>1. phase \notin {"opening", "opened"}
      BY <2>1 DEF ServiceInv, SetupRight
    <3>2. CloseService(slots) /\ parentClosed' = TRUE /\ UNCHANGED <<phase, reports>>
      BY <1>4, <2>1 DEF ParentFails
    <3> QED
      BY <1>1, <3>1, <3>2, ClosingKeeps
  <2>2. CASE ~listed
    <3>1. phase = "serving" => stopped
      BY <2>2 DEF ServiceInv, SetupRight
    <3> QED
      BY <1>4, <2>2, <3>1, LosingKeeps DEF ParentFails
  <2> QED
    BY <2>1, <2>2
<1> QED
  BY <1>2, <1>3, <1>4

\* handle() goes on, returns the service or throws.
LEMMA SetupKeeps ==
  ASSUME ServiceInv, Setup
  PROVE  ServiceInv'
<1>1. /\ slots \in [Slots -> Loops] /\ phase \in Phases /\ reports \in 0 .. 1
      /\ parentClosed \in BOOLEAN
      /\ phase # "serving" => \A s \in Slots : slots[s] = "idle"
  BY DEF ServiceInv, FailuresReachService, TypeOK, LoopsRight
<1>2. CASE SetupAnswered
  BY <1>2 DEF SetupAnswered, ServiceInv, FailuresReachService, TypeOK, Phases, ServingMeansOpen,
              ChildDiesWithParent, HandlersAreTold, SetupRight, StopRight, LoopsRight
<1>3. CASE SetupFails
  <2>1. phase # "serving" /\ phase' = "failed" /\ CloseService(slots)
        /\ UNCHANGED <<parentClosed, reports>>
    BY <1>3 DEF SetupFails
  <2> QED
    BY <1>1, <2>1, ClosingKeeps DEF Phases
<1>4. CASE Register
  BY <1>4 DEF Register, ServiceInv, FailuresReachService, TypeOK, Phases, ServingMeansOpen,
              ChildDiesWithParent, HandlersAreTold, SetupRight, StopRight, LoopsRight
<1>5. CASE Serve
  <2>1. /\ phase = "registered" /\ ~parentClosed /\ ~childClosed
        /\ phase' = "serving" /\ observed' = TRUE /\ slots' = [s \in Slots |-> "taking"]
        /\ UNCHANGED <<parentClosed, childClosed, listed, stopped, reports, active, aborted>>
    BY <1>5 DEF Serve, StillOpen
  <2>2. ~stopped /\ listed /\ active = {}
    <3>1. ~stopped /\ listed
      BY <2>1 DEF ServiceInv, SetupRight, StopRight
    <3> QED
      BY <1>1, <2>1, <3>1 DEF ServiceInv, FailuresReachService, HandlersAreTold
  <2>3. TypeOK'
    BY <2>1 DEF ServiceInv, FailuresReachService, TypeOK, Phases, Loops, Asking
  <2>4. FailuresReachService'
    BY <2>1, <2>2, <2>3 DEF FailuresReachService, ServingMeansOpen, ChildDiesWithParent,
                            HandlersAreTold
  <2>5. SetupRight' /\ StopRight' /\ LoopsRight'
    BY <2>1, <2>2 DEF ServiceInv, SetupRight, StopRight, LoopsRight
  <2> QED
    BY <2>4, <2>5 DEF ServiceInv
<1> QED
  BY <1>2, <1>3, <1>4, <1>5 DEF Setup

\* A loop takes, handles, completes, ends or throws.
LEMMA LoopsKeep ==
  ASSUME ServiceInv, NEW s \in Slots, SlotSettles(s) \/ HandlerLate(s) \/ Continue(s)
  PROVE  ServiceInv'
<1>1. /\ slots \in [Slots -> Loops] /\ phase \in Phases /\ reports \in 0 .. 1
      /\ parentClosed \in BOOLEAN /\ active \subseteq Slots /\ aborted \subseteq Slots
  BY DEF ServiceInv, FailuresReachService, TypeOK
<1>2. active = IF stopped THEN {} ELSE {u \in Slots : slots[u] \in {"running", "settled"}}
  BY DEF ServiceInv, FailuresReachService, HandlersAreTold
<1>3. CASE SlotSettles(s)
  <2>1. /\ UNCHANGED <<phase, parentClosed, childClosed, listed, observed, stopped, reports,
                       active, aborted>>
        /\ slots[s] \in DOMAIN Outcomes /\ \E o \in Outcomes[slots[s]] : SlotIs(s, o)
    BY <1>3 DEF SlotSettles
  <2>2. slots[s] \in {"taking", "completing", "running"}
    BY <2>1 DEF Outcomes
  <2>3. PICK o \in Outcomes[slots[s]] : SlotIs(s, o)
    BY <2>1
  <2>4. /\ slots[s] \in Asking => o \in {"none", "job", "rejected", "completed"}
        /\ slots[s] = "running" => o = "settled"
    BY <2>2, <2>3 DEF Outcomes, Asking
  <2>5. o \in Loops /\ o # "running" /\ (o = "settled" <=> slots[s] = "running")
    BY <2>2, <2>4 DEF Loops, Asking
  <2>6. active' = IF stopped THEN {}
                  ELSE IF o \in {"running", "settled"} THEN active \cup {s} ELSE active \ {s}
    BY <1>2, <2>1, <2>2, <2>5
  <2> QED
    BY <1>1, <2>1, <2>2, <2>3, <2>5, <2>6, SlotKeeps
<1>4. CASE HandlerLate(s)
  <2>1. /\ s \in active /\ aborted' = aborted \cup {s}
        /\ UNCHANGED <<phase, parentClosed, childClosed, listed, observed, stopped, reports,
                       slots, active>>
    BY <1>4 DEF HandlerLate
  <2>2. phase = "serving"
    BY <1>2, <2>1 DEF ServiceInv, LoopsRight
  <2>3. HandlersAreTold'
    BY <2>1 DEF ServiceInv, FailuresReachService, HandlersAreTold
  <2> QED
    BY <1>1, <2>1, <2>2, <2>3, LoopKeeps
<1>5. CASE NextTake(s)
  <2>1. slots[s] \in {"none", "completed"} /\ ~stopped
        /\ UNCHANGED <<phase, parentClosed, childClosed, listed, observed, stopped, reports,
                       active, aborted>>
    BY <1>5 DEF NextTake
  <2>2. PICK pc \in {"taking", "rejected"} : SlotIs(s, pc)
    BY <1>5 DEF NextTake, Asks
  <2>3. s \notin active
    BY <1>2, <2>1
  <2> QED
    BY <1>1, <2>1, <2>2, <2>3, SlotKeeps DEF Loops, Asking
<1>6. CASE Handle(s)
  BY <1>1, <1>6, SlotKeeps DEF Handle, MayHandle, Loops
<1>7. CASE Complete(s)
  <2>1. slots[s] = "settled" /\ active' = active \ {s}
        /\ UNCHANGED <<phase, parentClosed, childClosed, listed, observed, stopped, reports, aborted>>
    BY <1>7 DEF Complete
  <2>2. PICK pc \in {"ended", "completing", "rejected"} : SlotIs(s, pc)
    BY <1>7 DEF Complete, Asks
  <2>3. active' = IF stopped THEN {} ELSE active \ {s}
    BY <1>2, <2>1
  <2> QED
    BY <1>1, <2>1, <2>2, <2>3, SlotKeeps DEF Loops, Asking
<1>8. CASE Leave(s)
  BY <1>1, <1>2, <1>8, SlotKeeps DEF Leave, Loops
<1>9. CASE Throw(s)
  <2> DEFINE loops == [slots EXCEPT ![s] = "ended"]
  <2>1. slots[s] = "rejected" /\ OnFailure(loops) /\ UNCHANGED <<phase, parentClosed>>
    BY <1>9 DEF Throw
  <2>2. /\ loops \in [Slots -> Loops] /\ loops[s] = "ended"
        /\ \A u \in Slots : loops[u] = "running" => slots[u] = "running"
    BY <1>1 DEF Loops
  <2>3. phase = "serving"
    BY <2>1 DEF ServiceInv, LoopsRight
  <2>4. CASE stopped
    <3>1. /\ SlotIs(s, "ended")
          /\ UNCHANGED <<stopped, listed, observed, aborted, active, childClosed, reports>>
      BY <2>1, <2>4 DEF OnFailure, SlotIs
    <3> QED
      BY <1>1, <1>2, <2>1, <2>4, <3>1, SlotKeeps DEF Loops
  <2>5. CASE ~stopped
    <3>1. CloseService(loops) /\ reports' = reports + 1 /\ reports = 0
      BY <2>1, <2>5 DEF OnFailure, ServiceInv, StopRight
    <3> HIDE DEF loops
    <3> QED
      BY <1>1, <2>1, <2>2, <2>3, <3>1, ClosingKeeps DEF Phases
  <2> QED
    BY <2>4, <2>5
<1> QED
  BY <1>3, <1>4, <1>5, <1>6, <1>7, <1>8, <1>9 DEF Continue

\* The invariant holds always.
LEMMA ServiceInvariant == Spec => []ServiceInv
<1>1. Init => ServiceInv
  <2>1. SUFFICES ASSUME Init PROVE ServiceInv
    OBVIOUS
  <2>2. "idle" \in Loops
    BY DEF Loops
  <2>3. slots \in [Slots -> Loops]
    BY <2>1, <2>2 DEF Init
  <2>4. TypeOK
    <3>1. {parentClosed, childClosed, listed, observed, stopped} \subseteq BOOLEAN
      BY <2>1 DEF Init
    <3>2. phase \in Phases /\ reports \in 0 .. 1 /\ active \subseteq Slots /\ aborted \subseteq Slots
      BY <2>1 DEF Init, Phases
    <3> QED
      BY <2>3, <3>1, <3>2 DEF TypeOK
  <2> QED
    BY <2>1, <2>4 DEF Init, ServiceInv, FailuresReachService, ServingMeansOpen, ChildDiesWithParent,
                      HandlersAreTold, SetupRight, StopRight, LoopsRight
<1>2. ServiceInv /\ [Next]_vars => ServiceInv'
  <2>1. CASE UNCHANGED vars
    BY <2>1 DEF vars, ServiceInv, FailuresReachService, TypeOK, ServingMeansOpen,
                ChildDiesWithParent, HandlersAreTold, SetupRight, StopRight, LoopsRight
  <2> QED
    BY <2>1, EndsKeep, SetupKeeps, LoopsKeep DEF Next
<1> QED
  BY <1>1, <1>2, PTL DEF Spec

-----------------------------------------------------------------------------

\* Whichever of the child, the parent and the application ends a service, at
\* whatever moment of handle() or of its loops: the service, its connection and each
\* of its handlers learn of it, and the failure is reported once.
THEOREM FailuresAreSeen == Spec => []FailuresReachService
<1>1. ServiceInv => FailuresReachService
  BY DEF ServiceInv
<1> QED
  BY <1>1, ServiceInvariant, PTL

\* The first half of StopIsFinal: a stopped service starts no handler and asks the
\* broker nothing, whatever its loops were waiting for.
THEOREM StoppedIsQuiet == Spec => [][QuietStep]_vars
<1>1. ServiceInv /\ [Next]_vars => [QuietStep]_vars
  <2>1. SUFFICES ASSUME ServiceInv, Next, stopped, NEW u \in Slots,
                        slots'[u] \in Asking \cup {"running"}
                 PROVE  slots'[u] = slots[u]
    BY DEF QuietStep
  <2>2. slots \in [Slots -> Loops] /\ childClosed
    BY <2>1 DEF ServiceInv, FailuresReachService, TypeOK, StopRight
  <2>3. \A loops \in [Slots -> Loops] :
          slots' = Rejected(loops) => slots'[u] = loops[u]
    BY <2>1, RejectedIs DEF Asking
  <2>4. CASE Close \/ ChildFails
    BY <2>1, <2>2, <2>4 DEF Close, ChildFails
  <2>5. CASE ParentFails
    BY <2>1, <2>2, <2>3, <2>5 DEF ParentFails, CloseService
  <2>6. CASE Setup
    <3>1. ~(phase = "registered" /\ StillOpen)
      BY <2>2 DEF StillOpen
    <3> QED
      BY <2>1, <2>2, <2>3, <2>6, <3>1 DEF Setup, SetupAnswered, SetupFails, Register, Serve, CloseService
  <2>7. ASSUME NEW s \in Slots, SlotSettles(s) \/ HandlerLate(s) \/ Continue(s)
        PROVE  slots'[u] = slots[u]
    <3>1. CASE SlotSettles(s)
      <4>1. slots[s] \in {"taking", "completing", "running"}
            /\ \E o \in Outcomes[slots[s]] : SlotIs(s, o)
        BY <3>1 DEF SlotSettles, Outcomes
      <4>2. PICK o \in Outcomes[slots[s]] : SlotIs(s, o)
        BY <4>1
      <4>3. o \notin Asking \cup {"running"}
        BY <4>1, <4>2 DEF Outcomes, Asking
      <4> QED
        BY <2>1, <2>2, <4>2, <4>3 DEF SlotIs
    <3>2. CASE HandlerLate(s)
      BY <3>2 DEF HandlerLate
    <3>3. CASE Continue(s)
      <4>1. slots' = [slots EXCEPT ![s] = "ended"]
        BY <2>1, <3>3 DEF Continue, NextTake, Handle, MayHandle, Complete, Leave, Throw, OnFailure,
                          SlotIs
      <4> QED
        BY <2>1, <2>2, <4>1 DEF Asking
    <3> QED
      BY <2>7, <3>1, <3>2, <3>3
  <2> QED
    BY <2>1, <2>4, <2>5, <2>6, <2>7 DEF Next
<1> QED
  BY <1>1, ServiceInvariant, PTL DEF Spec
=============================================================================
