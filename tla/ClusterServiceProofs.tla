------------------------- MODULE ClusterServiceProofs -------------------------
(***************************************************************************)
(* A service on every broker of the cluster.  Its registrations, the map   *)
(* that ClusterService keeps and the attempts under way agree, for any     *)
(* number of brokers and failures; and its handlers never exceed its       *)
(* concurrency, with no permit of the gate lost or idle, for any brokers,  *)
(* slots and number of jobs.                                               *)
(***************************************************************************)
EXTENDS ClusterService, HandlerGate, ContainerLemmas, TLAPS

\* An identifier names one client, and an open client is its node's.
ClientsCurrent ==
  /\ \A c \in open : \E n \in Nodes : client[n] = c
  /\ \A m, n \in Nodes : client[m] = client[n] /\ client[m] # 0 => m = n

\* Until an attempt has looked at its handle the node has none in the map, and
\* a client that is still open is still the node's.
AttemptsRight ==
  /\ attaching \in [Nodes -> [pc : {"none", "handling", "returned", "over"},
                              handle : Handles \cup {NoHandle}]]
  /\ \A n \in Nodes : ~At(n, "none") =>
       /\ attaching[n].handle \in Handles
       /\ attaching[n].handle.node = n
       /\ attaching[n].handle.client \in open => client[n] = attaching[n].handle.client
       /\ ~At(n, "over") => handles[n] = NoHandle

\* A handle that attach() may still put into the map serves.
ReturnedServes ==
  \A n \in Nodes : At(n, "returned") /\ StillWanted(n, attaching[n].handle)
                   => attaching[n].handle \in alive

\* The epoch of a handle in the map is its node's: onError of that handle, and
\* of no other, forgets it.
EpochsRight ==
  \A n \in Nodes : handles[n] # NoHandle =>
    handles[n].node = n /\ epochs[n] = handles[n].epoch

ServingOnCurrent ==
  \A h \in alive : h.client \in open /\ client[h.node] = h.client

\* close() leaves no handle of the map serving, and waits for the attempts.
CloseRight ==
  /\ stopped => \A n \in Nodes : handles[n] \notin alive
  /\ closing = "closed" => AttemptsOver

RegistrationInv ==
  /\ Registered /\ ClientsCurrent /\ AttemptsRight /\ ReturnedServes
  /\ EpochsRight /\ ServingOnCurrent /\ CloseRight

\* connectNode publishes a client under a number nobody has used, and attaches the
\* service to it.
LEMMA ConnectKeeps ==
  ASSUME RegistrationInv, NEW n \in Nodes, Connect(n)
  PROVE  RegistrationInv'
<1> USE DEF RegistrationInv, Registered, Handles, NoHandle, Handle, NoAttempt, At, stopped,
            Connect, Attach, Vacant, Fault, Handle
<1>1. TypeOK'
  <2>1. made' \in Nat /\ made' = made + 2 /\ made + 1 \in 1 .. made'
    BY DEF TypeOK
  <2>2. 0 .. made \subseteq 0 .. made' /\ 1 .. made \subseteq 1 .. made'
    BY <2>1 DEF TypeOK
  <2>3. Handles \subseteq Handles'
    BY <2>2
  <2>4. client' \in [Nodes -> 0 .. made'] /\ open' \subseteq 1 .. made'
    <3>1. client' = [client EXCEPT ![n] = made + 1] /\ open' \subseteq open \cup {made + 1}
      OBVIOUS
    <3>2. made + 1 \in 0 .. made'
      BY <2>1 DEF TypeOK
    <3>3. client' \in [Nodes -> 0 .. made']
      BY <2>2, <3>1, <3>2 DEF TypeOK
    <3> QED
      BY <2>1, <2>2, <3>1, <3>3 DEF TypeOK
  <2>5. epochs' \in [Nodes -> 0 .. made']
    BY <2>1, <2>2 DEF TypeOK
  <2>6. attaching' \in [Nodes -> [pc : {"none", "handling", "returned", "over"},
                                 handle : Handles' \cup {NoHandle}]]
    <3>1. Handle(n, made + 1, made + 2) \in Handles'
      BY <2>1 DEF TypeOK
    <3>2. \/ attaching' = attaching
          \/ attaching' = [attaching EXCEPT ![n] =
                             [pc |-> "handling", handle |-> Handle(n, made + 1, made + 2)]]
      BY DEF TypeOK
    <3> DEFINE Stages == [pc : {"none", "handling", "returned", "over"},
                          handle : Handles' \cup {NoHandle}]
    <3>3. attaching \in [Nodes -> Stages]
      BY <2>3 DEF AttemptsRight
    <3>4. [pc |-> "handling", handle |-> Handle(n, made + 1, made + 2)] \in Stages
      BY <3>1
    <3> HIDE DEF Stages
    <3>5. attaching' \in [Nodes -> Stages]
      BY <3>2, <3>3, <3>4
    <3> QED
      BY <3>5 DEF Stages
  <2>7. \A m \in Nodes : At(m, "none")' <=> (attaching[m] = NoAttempt)'
    BY DEF TypeOK, AttemptsRight
  <2>8. faults' \in 0 .. MaxFaults
    BY ServiceAssumption DEF TypeOK
  <2> QED
    BY <2>1, <2>3, <2>4, <2>5, <2>6, <2>7, <2>8 DEF TypeOK
<1>2. HandlesServe'
  BY DEF HandlesServe, TypeOK, IsOpen, EpochsRight, ServingOnCurrent, ClientsCurrent, AttemptsRight
<1>3. NoOrphan'
  BY DEF NoOrphan, TypeOK, RegisteredOnce, AttemptsRight, ServingOnCurrent, CloseRight
<1>4. ClientsCurrent'
  <2>1. /\ client' = [client EXCEPT ![n] = made + 1] /\ client[n] = 0
        /\ open' \subseteq open \cup {made + 1}
    OBVIOUS
  <2>2. \A m \in Nodes : client[m] \in 0 .. made
    BY DEF TypeOK
  <2>3. \A c \in open' : \E m \in Nodes : client'[m] = c
    <3> SUFFICES ASSUME NEW c \in open', c # made + 1
                 PROVE  \E m \in Nodes : client'[m] = c
      BY <2>1 DEF TypeOK
    <3>1. PICK m \in Nodes : client[m] = c
      BY <2>1 DEF ClientsCurrent
    <3>2. m # n
      BY <2>1, <3>1 DEF TypeOK
    <3> QED
      BY <2>1, <3>1, <3>2 DEF TypeOK
  <2>4. \A l, m \in Nodes : client'[l] = client'[m] /\ client'[l] # 0 => l = m
    BY <2>1, <2>2 DEF TypeOK, ClientsCurrent
  <2> QED
    BY <2>3, <2>4 DEF ClientsCurrent
<1>5. AttemptsRight'
  BY DEF AttemptsRight, TypeOK, ClientsCurrent
<1>6. EpochsRight'
  BY DEF EpochsRight, TypeOK, AttemptsRight
<1>7. ServingOnCurrent'
  BY DEF ServingOnCurrent, TypeOK, ClientsCurrent, AttemptsRight
<1>8. ReturnedServes'
  BY DEF ReturnedServes, StillWanted, TypeOK, AttemptsRight, ClientsCurrent
<1>9. RegisteredOnce' /\ ClosedServesNothing' /\ CloseRight'
  BY DEF RegisteredOnce, ClosedServesNothing, CloseRight, AttemptsOver
<1> QED
  BY <1>1, <1>2, <1>3, <1>4, <1>5, <1>6, <1>7, <1>8, <1>9

\* tick() attaches the service again where no handle, attempt or retry time is left.
LEMMA TickKeeps ==
  ASSUME RegistrationInv, NEW n \in Nodes, Tick(n)
  PROVE  RegistrationInv'
<1> USE DEF RegistrationInv, Registered, Handles, NoHandle, Handle, NoAttempt, At, stopped,
            Tick, Attach, Vacant, Handle, IsOpen
<1>1. TypeOK'
  BY ServiceAssumption DEF TypeOK
<1>2. AttemptsRight'
  BY DEF AttemptsRight, TypeOK, ClientsCurrent
<1>3. ReturnedServes'
  BY DEF ReturnedServes, StillWanted, TypeOK, AttemptsRight, ClientsCurrent
<1>4. HandlesServe' /\ NoOrphan' /\ RegisteredOnce' /\ ClosedServesNothing' /\ ClientsCurrent' /\ EpochsRight' /\ ServingOnCurrent' /\ CloseRight'
  BY DEF HandlesServe, NoOrphan, RegisteredOnce, ClosedServesNothing, ClientsCurrent, EpochsRight, ServingOnCurrent, CloseRight, AttemptsOver
<1> QED
  BY <1>1, <1>2, <1>3, <1>4

\* retire() takes the handles of the client it closes out of the map with it.
LEMMA RetireKeeps ==
  ASSUME RegistrationInv, NEW n \in Nodes, Retire(n)
  PROVE  RegistrationInv'
<1> USE DEF RegistrationInv, Registered, Handles, NoHandle, Handle, NoAttempt, At, stopped,
            Retire, Detached, Fault, IsOpen
<1>1. TypeOK'
  <2>1. client' \in [Nodes -> 0 .. made'] /\ epochs' \in [Nodes -> 0 .. made']
    BY DEF TypeOK
  <2>2. handles' \in [Nodes -> Handles' \cup {NoHandle}]
    BY DEF TypeOK
  <2>3. faults' \in 0 .. MaxFaults
    BY ServiceAssumption DEF TypeOK
  <2>4. open' \subseteq 1 .. made' /\ alive' \subseteq Handles'
    BY DEF TypeOK
  <2> QED
    BY <2>1, <2>2, <2>3, <2>4 DEF TypeOK
<1>2. HandlesServe'
  BY DEF HandlesServe, TypeOK, EpochsRight, ServingOnCurrent, ClientsCurrent, AttemptsRight
<1>3. NoOrphan'
  BY DEF NoOrphan, TypeOK, RegisteredOnce, AttemptsRight, ServingOnCurrent, CloseRight
<1>4. EpochsRight'
  BY DEF EpochsRight, TypeOK, AttemptsRight
<1>5. CloseRight'
  BY DEF CloseRight, AttemptsOver, EpochsRight, AttemptsRight, TypeOK
<1>6. ReturnedServes'
  BY DEF ReturnedServes, StillWanted, TypeOK, AttemptsRight, ClientsCurrent
<1>7. RegisteredOnce' /\ ClosedServesNothing' /\ ClientsCurrent' /\ AttemptsRight' /\ ServingOnCurrent'
  BY DEF RegisteredOnce, ClosedServesNothing, ClientsCurrent, AttemptsRight, ServingOnCurrent
<1> QED
  BY <1>1, <1>2, <1>3, <1>4, <1>5, <1>6, <1>7

\* onError forgets a handle only if its epoch is still the node's.
LEMMA HandleFailsKeeps ==
  ASSUME RegistrationInv, NEW f \in alive, HandleFails(f)
  PROVE  RegistrationInv'
<1> USE DEF RegistrationInv, Registered, Handles, NoHandle, Handle, NoAttempt, At, stopped,
            HandleFails, Detached, Fault
<1>1. TypeOK'
  BY ServiceAssumption DEF TypeOK
<1>2. HandlesServe'
  BY DEF HandlesServe, TypeOK, IsOpen, EpochsRight, ServingOnCurrent, ClientsCurrent, AttemptsRight
<1>3. NoOrphan'
  BY DEF NoOrphan, TypeOK, RegisteredOnce, AttemptsRight, ServingOnCurrent, CloseRight
<1>4. AttemptsRight'
  BY DEF AttemptsRight, TypeOK, ClientsCurrent
<1>5. EpochsRight'
  BY DEF EpochsRight, TypeOK, AttemptsRight
<1>6. ReturnedServes'
  BY DEF ReturnedServes, StillWanted, TypeOK, AttemptsRight, ClientsCurrent
<1>7. RegisteredOnce' /\ ClosedServesNothing' /\ ClientsCurrent' /\ ServingOnCurrent' /\ CloseRight'
  BY DEF RegisteredOnce, ClosedServesNothing, ClientsCurrent, ServingOnCurrent, CloseRight, AttemptsOver
<1> QED
  BY <1>1, <1>2, <1>3, <1>4, <1>5, <1>6, <1>7

\* A handle that attach() awaited serves at the broker before the service knows it.
LEMMA HandleReturnsKeeps ==
  ASSUME RegistrationInv, NEW n \in Nodes, HandleReturns(n)
  PROVE  RegistrationInv'
<1> USE DEF RegistrationInv, Registered, Handles, NoHandle, Handle, NoAttempt, At, stopped,
            HandleReturns, Attempt
<1>1. TypeOK'
  BY ServiceAssumption DEF TypeOK
<1>2. NoOrphan'
  BY DEF NoOrphan, TypeOK, RegisteredOnce, AttemptsRight, ServingOnCurrent, CloseRight
<1>3. RegisteredOnce'
  BY DEF RegisteredOnce, NoOrphan, AttemptsRight, TypeOK
<1>4. ClosedServesNothing'
  BY DEF ClosedServesNothing, CloseRight, AttemptsOver, NoOrphan
<1>5. ServingOnCurrent'
  BY DEF ServingOnCurrent, TypeOK, ClientsCurrent, AttemptsRight
<1>6. CloseRight'
  BY DEF CloseRight, AttemptsOver, EpochsRight, AttemptsRight, TypeOK
<1>7. ReturnedServes'
  BY DEF ReturnedServes, StillWanted, TypeOK, AttemptsRight, ClientsCurrent
<1>8. HandlesServe' /\ ClientsCurrent' /\ AttemptsRight' /\ EpochsRight'
  BY DEF HandlesServe, IsOpen, ClientsCurrent, AttemptsRight, EpochsRight
<1> QED
  BY <1>1, <1>2, <1>3, <1>4, <1>5, <1>6, <1>7, <1>8

\* An attempt that fails leaves no handle, and a retry time.
LEMMA HandleThrowsKeeps ==
  ASSUME RegistrationInv, NEW n \in Nodes, HandleThrows(n)
  PROVE  RegistrationInv'
<1> USE DEF RegistrationInv, Registered, Handles, NoHandle, Handle, NoAttempt, At, stopped,
            HandleThrows, Attempt, Fault
<1>1. TypeOK'
  BY ServiceAssumption DEF TypeOK
<1>2. ReturnedServes'
  BY DEF ReturnedServes, StillWanted, TypeOK, AttemptsRight, ClientsCurrent
<1>3. HandlesServe' /\ NoOrphan' /\ RegisteredOnce' /\ ClosedServesNothing' /\ ClientsCurrent' /\ AttemptsRight' /\ EpochsRight' /\ ServingOnCurrent' /\ CloseRight'
  BY DEF HandlesServe, IsOpen, NoOrphan, RegisteredOnce, ClosedServesNothing, ClientsCurrent, AttemptsRight, EpochsRight, ServingOnCurrent, CloseRight, AttemptsOver
<1> QED
  BY <1>1, <1>2, <1>3

\* attach() keeps the handle if its client and epoch are still the node's and the
\* service is not closed, and closes it otherwise.
LEMMA ResumeKeeps ==
  ASSUME RegistrationInv, NEW n \in Nodes, Resume(n)
  PROVE  RegistrationInv'
<1> USE DEF RegistrationInv, Registered, Handles, NoHandle, Handle, NoAttempt, At, stopped,
            Resume, Attempt, StillWanted
<1>1. TypeOK'
  BY ServiceAssumption DEF TypeOK
<1>2. HandlesServe'
  <2> SUFFICES ASSUME ~stopped', NEW m \in Nodes, handles'[m] # NoHandle
               PROVE  /\ handles'[m] \in alive'
                      /\ handles'[m].client = client'[m] /\ (IsOpen(m))'
    BY DEF HandlesServe
  <2>1. CASE StillWanted(n, attaching[n].handle)
    <3>1. attaching[n].handle \in alive'
      BY <2>1 DEF TypeOK, AttemptsRight, ReturnedServes
    <3> QED
      BY <2>1, <3>1 DEF TypeOK, HandlesServe, IsOpen
  <2>2. CASE ~StillWanted(n, attaching[n].handle)
    <3>1. handles'[m] = handles[m] /\ m # n
      BY <2>2 DEF TypeOK, AttemptsRight
    <3>2. handles[m] # attaching[n].handle
      BY <3>1 DEF EpochsRight, AttemptsRight
    <3> QED
      BY <2>2, <3>1, <3>2 DEF HandlesServe, IsOpen
  <2> QED
    BY <2>1, <2>2
<1>3. NoOrphan'
  BY DEF NoOrphan, TypeOK, RegisteredOnce, AttemptsRight, ServingOnCurrent, CloseRight
<1>4. AttemptsRight'
  BY DEF AttemptsRight, TypeOK, ClientsCurrent
<1>5. EpochsRight'
  BY DEF EpochsRight, TypeOK, AttemptsRight
<1>6. ReturnedServes'
  BY DEF ReturnedServes, TypeOK, AttemptsRight, ClientsCurrent
<1>7. RegisteredOnce' /\ ClosedServesNothing' /\ ClientsCurrent' /\ ServingOnCurrent' /\ CloseRight'
  BY DEF RegisteredOnce, ClosedServesNothing, ClientsCurrent, ServingOnCurrent, CloseRight, AttemptsOver
<1> QED
  BY <1>1, <1>2, <1>3, <1>4, <1>5, <1>6, <1>7

\* The finally of attach() ends the attempt, whose handle is in the map or closed.
LEMMA OverKeeps ==
  ASSUME RegistrationInv, NEW n \in Nodes, Over(n)
  PROVE  RegistrationInv'
<1> USE DEF RegistrationInv, Registered, Handles, NoHandle, Handle, NoAttempt, At, stopped,
            Over
<1>1. TypeOK'
  BY ServiceAssumption DEF TypeOK
<1>2. ReturnedServes'
  BY DEF ReturnedServes, StillWanted, TypeOK, AttemptsRight, ClientsCurrent
<1>3. HandlesServe' /\ NoOrphan' /\ RegisteredOnce' /\ ClosedServesNothing' /\ ClientsCurrent' /\ AttemptsRight' /\ EpochsRight' /\ ServingOnCurrent' /\ CloseRight'
  BY DEF HandlesServe, IsOpen, NoOrphan, RegisteredOnce, ClosedServesNothing, ClientsCurrent, AttemptsRight, EpochsRight, ServingOnCurrent, CloseRight, AttemptsOver
<1> QED
  BY <1>1, <1>2, <1>3

\* The retry time of a node passes.
LEMMA RetryAtKeeps ==
  ASSUME RegistrationInv, NEW n \in Nodes, RetryAt(n)
  PROVE  RegistrationInv'
<1> USE DEF RegistrationInv, Registered, Handles, NoHandle, Handle, NoAttempt, At, stopped,
            RetryAt
<1>1. TypeOK'
  BY ServiceAssumption DEF TypeOK
<1>2. HandlesServe' /\ NoOrphan' /\ RegisteredOnce' /\ ClosedServesNothing' /\ ClientsCurrent' /\ AttemptsRight' /\ EpochsRight' /\ ServingOnCurrent' /\ CloseRight' /\ ReturnedServes'
  BY DEF HandlesServe, IsOpen, NoOrphan, RegisteredOnce, ClosedServesNothing, ClientsCurrent, AttemptsRight, EpochsRight, ServingOnCurrent, CloseRight, AttemptsOver, ReturnedServes, StillWanted
<1> QED
  BY <1>1, <1>2

\* close() closes every handle of the map.
LEMMA CloseKeeps ==
  ASSUME RegistrationInv, Close
  PROVE  RegistrationInv'
<1> USE DEF RegistrationInv, Registered, Handles, NoHandle, Handle, NoAttempt, At, stopped,
            Close
<1>1. TypeOK'
  BY ServiceAssumption DEF TypeOK
<1>2. HandlesServe' /\ NoOrphan' /\ RegisteredOnce' /\ ClosedServesNothing' /\ ClientsCurrent' /\ AttemptsRight' /\ EpochsRight' /\ ServingOnCurrent' /\ CloseRight' /\ ReturnedServes'
  BY DEF HandlesServe, IsOpen, NoOrphan, RegisteredOnce, ClosedServesNothing, ClientsCurrent, AttemptsRight, EpochsRight, ServingOnCurrent, CloseRight, AttemptsOver, ReturnedServes, StillWanted
<1> QED
  BY <1>1, <1>2

\* close() forgets the handles, which serve no more, and turns to the attempts.
LEMMA HandlesClosedKeeps ==
  ASSUME RegistrationInv, HandlesClosed
  PROVE  RegistrationInv'
<1> USE DEF RegistrationInv, Registered, Handles, NoHandle, Handle, NoAttempt, At, stopped,
            HandlesClosed
<1>1. TypeOK'
  BY ServiceAssumption DEF TypeOK
<1>2. NoOrphan'
  BY DEF NoOrphan, TypeOK, RegisteredOnce, AttemptsRight, ServingOnCurrent, CloseRight
<1>3. CloseRight'
  BY DEF CloseRight, AttemptsOver, EpochsRight, AttemptsRight, TypeOK
<1>4. HandlesServe' /\ RegisteredOnce' /\ ClosedServesNothing' /\ ClientsCurrent' /\ AttemptsRight' /\ EpochsRight' /\ ServingOnCurrent' /\ ReturnedServes'
  BY DEF HandlesServe, IsOpen, RegisteredOnce, ClosedServesNothing, ClientsCurrent, AttemptsRight, EpochsRight, ServingOnCurrent, ReturnedServes, StillWanted
<1> QED
  BY <1>1, <1>2, <1>3, <1>4

\* When no attempt is left every handle is closed.
LEMMA ClosedKeeps ==
  ASSUME RegistrationInv, Closed
  PROVE  RegistrationInv'
<1> USE DEF RegistrationInv, Registered, Handles, NoHandle, Handle, NoAttempt, At, stopped,
            Closed
<1>1. TypeOK'
  BY ServiceAssumption DEF TypeOK
<1>2. ClosedServesNothing'
  BY DEF ClosedServesNothing, NoOrphan, CloseRight, AttemptsOver, AttemptsRight, TypeOK
<1>3. HandlesServe' /\ NoOrphan' /\ RegisteredOnce' /\ ClientsCurrent' /\ AttemptsRight' /\ EpochsRight' /\ ServingOnCurrent' /\ CloseRight' /\ ReturnedServes'
  BY DEF HandlesServe, IsOpen, NoOrphan, RegisteredOnce, ClientsCurrent, AttemptsRight, EpochsRight, ServingOnCurrent, CloseRight, AttemptsOver, ReturnedServes, StillWanted
<1> QED
  BY <1>1, <1>2, <1>3

\* A step elsewhere.
LEMMA StutterKeeps ==
  ASSUME RegistrationInv, UNCHANGED vars
  PROVE  RegistrationInv'
<1> USE DEF RegistrationInv, Registered, Handles, NoHandle, Handle, NoAttempt, At, stopped,
            vars
<1>1. TypeOK'
  BY ServiceAssumption DEF TypeOK
<1>2. HandlesServe' /\ NoOrphan' /\ RegisteredOnce' /\ ClosedServesNothing' /\ ClientsCurrent' /\ AttemptsRight' /\ EpochsRight' /\ ServingOnCurrent' /\ CloseRight' /\ ReturnedServes'
  BY DEF HandlesServe, IsOpen, NoOrphan, RegisteredOnce, ClosedServesNothing, ClientsCurrent, AttemptsRight, EpochsRight, ServingOnCurrent, CloseRight, AttemptsOver, ReturnedServes, StillWanted
<1> QED
  BY <1>1, <1>2

\* Every step keeps the invariant.
LEMMA RegistrationNext == RegistrationInv /\ [Next]_vars => RegistrationInv'
BY ConnectKeeps, TickKeeps, RetireKeeps, HandleFailsKeeps, HandleReturnsKeeps,
   HandleThrowsKeeps, ResumeKeeps, OverKeeps, RetryAtKeeps, CloseKeeps, HandlesClosedKeeps,
   ClosedKeeps, StutterKeeps
DEF Next, Progress

\* Whatever comes between the halves of attach(), a handle of the map serves on the
\* node's current connection, no handle serves unknown to the service, a broker has
\* one registration at most, and none once close() has resolved.
THEOREM RegistrationsAreRight == Spec => []Registered
<1>1. Init => RegistrationInv
  BY ServiceAssumption
  DEF Init, RegistrationInv, Registered, TypeOK, HandlesServe, NoOrphan, RegisteredOnce,
      ClosedServesNothing, ClientsCurrent, AttemptsRight, EpochsRight, ServingOnCurrent,
      CloseRight, ReturnedServes, AttemptsOver, At, NoAttempt, NoHandle, Handle, stopped
<1>2. RegistrationInv => Registered
  BY DEF RegistrationInv
<1> QED
  BY <1>1, <1>2, RegistrationNext, PTL DEF Spec

-----------------------------------------------------------------------------
(* The gate.                                                               *)

Job == [pc : {"granted", "refused", "waiting", "running", "rejected", "done"}, aborted : BOOLEAN]

Holding == JobsAt("granted") \cup JobsAt("running")

TypesRight ==
  /\ limit \in Limits
  /\ active \in Nat
  /\ waiters \in Seq(Nat)
  /\ jobs \in Seq(Job)
  /\ slots \in [Slots -> {0} \cup Ids]

\* Each job that waits has a slot of its own among those of the current connections:
\* that is why the bound of the queue is never hit.  The queue is in the order of the calls.
WaitersRight ==
  /\ IsInjective(waiters) /\ Increasing(waiters)
  /\ Range(waiters) = JobsAt("waiting")
  /\ \A j \in JobsAt("waiting") : \E s \in Slots : slots[s] = j

PermitsRight ==
  /\ active <= limit
  /\ active = Cardinality(Holding)
  /\ waiters # <<>> => active = limit

GateInv == TypesRight /\ WaitersRight /\ PermitsRight /\ BoundNeverHit

-----------------------------------------------------------------------------
(* Sets and sequences.                                                     *)

\* A sequence without repetitions is as long as its range.
LEMMA LengthIs ==
  ASSUME NEW X, NEW q \in Seq(X), IsInjective(q)
  PROVE  IsFiniteSet(Range(q)) /\ Len(q) = Cardinality(Range(q))
<1>1. Len(q) \in Nat /\ DOMAIN q = 1 .. Len(q) /\ q \in [1 .. Len(q) -> Range(q)]
  BY DEF Range
<1>2. q \in Bijection(1 .. Len(q), Range(q))
  BY <1>1 DEF Bijection, Injection, Surjection, IsInjective, Range
<1>3. ExistsBijection(1 .. Len(q), Range(q))
  BY <1>2 DEF ExistsBijection
<1>4. IsFiniteSet(1 .. Len(q)) /\ Cardinality(1 .. Len(q)) = Len(q)
  BY <1>1, FS_Interval
<1> QED
  BY <1>3, <1>4, FS_Bijection

\* Jobs are finitely many.
LEMMA JobsFinite ==
  ASSUME TypesRight
  PROVE  /\ Len(jobs) \in Nat /\ Ids = 1 .. Len(jobs)
         /\ \A S \in SUBSET Ids : IsFiniteSet(S) /\ Cardinality(S) \in Nat
         /\ \A pc : JobsAt(pc) \subseteq Ids
<1>1. Len(jobs) \in Nat /\ Ids = 1 .. Len(jobs)
  BY DEF TypesRight, Ids
<1>2. IsFiniteSet(Ids)
  BY <1>1, FS_Interval
<1>3. \A S \in SUBSET Ids : IsFiniteSet(S) /\ Cardinality(S) \in Nat
  BY <1>2, FS_Subset, FS_CardinalityType
<1> QED
  BY <1>1, <1>3 DEF JobsAt

\* While a slot is free, fewer jobs wait than there are slots.
LEMMA RoomToWait ==
  ASSUME GateInv, NEW s \in Slots, slots[s] = 0
  PROVE  Len(waiters) < MaxWaiting
<1>1. IsFiniteSet(Slots) /\ Cardinality(Slots) \in Nat
  <2>1. limit \in Nat
    BY GateAssumption DEF GateInv, TypesRight
  <2>2. IsFiniteSet(1 .. limit)
    BY <2>1, FS_Interval
  <2>3. IsFiniteSet(Slots)
    BY <2>2, GateAssumption, FS_Product DEF Slots
  <2> QED
    BY <2>3, FS_CardinalityType
<1> DEFINE W == JobsAt("waiting")
           T == {t \in Slots \ {s} : slots[t] \in W}
           f == [t \in T |-> slots[t]]
<1>2. 0 \notin W
  BY JobsFinite DEF GateInv, JobsAt
<1>3. f \in Surjection(T, W)
  BY <1>2 DEF Surjection, GateInv, WaitersRight
<1>4. /\ IsFiniteSet(Slots \ {s}) /\ Cardinality(Slots \ {s}) = Cardinality(Slots) - 1
  BY <1>1, FS_RemoveElement
<1>5. IsFiniteSet(T) /\ Cardinality(T) <= Cardinality(Slots) - 1 /\ Cardinality(T) \in Nat
  BY <1>4, FS_Subset, FS_CardinalityType
<1>6. Cardinality(W) <= Cardinality(T)
  <2> HIDE DEF f, T, W
  <2> QED
    BY <1>3, <1>5, FS_Surjection
<1>7. Len(waiters) = Cardinality(W) /\ Len(waiters) \in Nat
  BY LengthIs DEF GateInv, TypesRight, WaitersRight
<1> QED
  BY <1>1, <1>5, <1>6, <1>7 DEF MaxWaiting

-----------------------------------------------------------------------------
(* The steps.                                                              *)

\* A new job is granted a permit, waits or is rejected: it is never refused.
LEMMA CallKeeps ==
  ASSUME GateInv, NEW s \in Slots, NEW aborted \in BOOLEAN, Call(s, aborted), UNCHANGED limit
  PROVE  GateInv'
<1> DEFINE pc == Admission(aborted)
           j  == Len(jobs) + 1
<1>1. /\ slots[s] = 0 /\ jobs' = Append(jobs, [pc |-> pc, aborted |-> aborted])
      /\ slots' = [slots EXCEPT ![s] = j]
      /\ active' = IF pc = "granted" THEN active + 1 ELSE active
      /\ waiters' = IF pc = "waiting" THEN Enqueue(waiters, j) ELSE waiters
  BY DEF Call
<1>2. /\ TypesRight /\ Len(jobs) \in Nat /\ Ids = 1 .. Len(jobs) /\ limit \in Nat /\ active \in Nat
      /\ active <= limit
  BY JobsFinite, GateAssumption DEF GateInv, TypesRight, PermitsRight
<1>3. /\ pc \in {"rejected", "granted", "waiting"}
      /\ pc = "granted" => active < limit
      /\ pc = "waiting" => active = limit
  <2>1. Len(waiters) < MaxWaiting /\ Len(waiters) \in Nat
    BY <1>1, RoomToWait DEF GateInv, TypesRight
  <2>2. MaxWaiting \in Nat
    <3>1. IsFiniteSet(1 .. limit)
      BY <1>2, FS_Interval
    <3> QED
      BY <3>1, GateAssumption, FS_Product, FS_CardinalityType DEF Slots, MaxWaiting
  <2> QED
    BY <1>2, <2>1, <2>2 DEF Admission, MayEnter
<1> HIDE DEF pc
<1>4. /\ [pc |-> pc, aborted |-> aborted] \in Job
      /\ [pc |-> pc, aborted |-> aborted].pc = pc
  BY <1>3 DEF Job
<1>5. /\ jobs' \in Seq(Job) /\ Len(jobs') = j /\ DOMAIN jobs' = Ids \cup {j} /\ j \notin Ids
      /\ j \in Nat /\ jobs'[j].pc = pc /\ \A i \in Ids : jobs'[i] = jobs[i] /\ i < j
  <2>1. jobs \in Seq(Job)
    BY <1>2 DEF TypesRight
  <2> QED
    BY <1>1, <1>2, <1>4, <2>1
<1> HIDE DEF j
<1>6. \A x : JobsAt(x)' = IF x = pc THEN JobsAt(x) \cup {j} ELSE JobsAt(x)
  BY <1>5 DEF JobsAt, Ids
<1>7. TypesRight'
  <2>1. waiters' \in Seq(Nat)
    BY <1>1, <1>2, <1>5, EnqueueProperties DEF TypesRight
  <2>2. slots' \in [Slots -> {0} \cup Ids']
    BY <1>1, <1>2, <1>5 DEF TypesRight, Ids
  <2>3. Slots' = Slots /\ active' \in Nat
    BY <1>1, <1>2 DEF Slots
  <2> QED
    BY <1>2, <1>5, <2>1, <2>2, <2>3 DEF TypesRight
<1>8. j \notin Range(waiters) /\ (\A i \in Range(waiters) : i < j) /\ \A x : j \notin JobsAt(x)
  BY <1>5 DEF GateInv, WaitersRight, JobsAt
<1>9. WaitersRight'
  <2>1. CASE pc = "waiting"
    <3>1. IsInjective(waiters') /\ Increasing(waiters') /\ Range(waiters') = Range(waiters) \cup {j}
      <4>1. /\ waiters \in Seq(Nat) /\ j \in Nat /\ IsInjective(waiters) /\ j \notin Range(waiters)
            /\ Increasing(waiters) /\ \A i \in Range(waiters) : i < j
            /\ waiters' = Enqueue(waiters, j)
        BY <1>1, <1>2, <1>5, <1>8, <2>1 DEF TypesRight, GateInv, WaitersRight
      <4>2. /\ Range(Enqueue(waiters, j)) = Range(waiters) \cup {j}
            /\ IsInjective(Enqueue(waiters, j)) /\ Increasing(Enqueue(waiters, j))
        BY <4>1, EnqueueProperties
      <4> QED
        BY <4>1, <4>2
    <3>2. Range(waiters') = JobsAt("waiting")'
      BY <1>6, <2>1, <3>1 DEF GateInv, WaitersRight
    <3>3. \A i \in JobsAt("waiting") \cup {j} : \E t \in Slots : slots'[t] = i
      <4>1. slots'[s] = j /\ \A t \in Slots \ {s} : slots'[t] = slots[t]
        BY <1>1, <1>2 DEF TypesRight
      <4>2. 0 \notin JobsAt("waiting")
        BY <1>2 DEF JobsAt
      <4> QED
        BY <1>1, <4>1, <4>2 DEF GateInv, WaitersRight
    <3>4. Slots' = Slots
      BY DEF Slots
    <3> QED
      BY <1>6, <2>1, <3>1, <3>2, <3>3, <3>4 DEF WaitersRight
  <2>2. CASE pc # "waiting"
    <3>1. waiters' = waiters /\ JobsAt("waiting")' = JobsAt("waiting") /\ Slots' = Slots
      BY <1>1, <1>6, <2>2 DEF Slots
    <3>2. \A i \in JobsAt("waiting") : \E t \in Slots : slots'[t] = i
      <4>1. \A t \in Slots \ {s} : slots'[t] = slots[t]
        BY <1>1, <1>2 DEF TypesRight
      <4>2. 0 \notin JobsAt("waiting")
        BY <1>2 DEF JobsAt
      <4> QED
        BY <1>1, <4>1, <4>2 DEF GateInv, WaitersRight
    <3> QED
      BY <3>1, <3>2 DEF GateInv, WaitersRight, Increasing
  <2> QED
    BY <2>1, <2>2
<1>10. PermitsRight'
  <2>1. IsFiniteSet(Holding) /\ Cardinality(Holding) \in Nat /\ active = Cardinality(Holding)
        /\ j \notin Holding
    BY <1>2, <1>8, JobsFinite DEF Holding, GateInv, PermitsRight
  <2>2. CASE pc = "granted"
    <3>1. Holding' = Holding \cup {j}
      BY <1>6, <2>2 DEF Holding
    <3>2. Cardinality(Holding') = Cardinality(Holding) + 1
      BY <2>1, <3>1, FS_AddElement
    <3>3. waiters' = <<>>
      BY <1>1, <1>2, <1>3, <2>2 DEF GateInv, PermitsRight
    <3> QED
      BY <1>1, <1>2, <1>3, <2>1, <2>2, <3>2, <3>3 DEF PermitsRight
  <2>3. CASE pc # "granted"
    <3>1. Holding' = Holding
      BY <1>3, <1>6, <2>3 DEF Holding
    <3>2. pc # "waiting" => waiters' = waiters
      BY <1>1
    <3> QED
      BY <1>1, <1>2, <1>3, <2>1, <2>3, <3>1, <3>2 DEF GateInv, PermitsRight
  <2> QED
    BY <2>2, <2>3
<1>11. BoundNeverHit'
  BY <1>3, <1>6 DEF GateInv, BoundNeverHit
<1> QED
  BY <1>7, <1>9, <1>10, <1>11 DEF GateInv

\* A deadline or a lost connection aborts jobs: those that wait leave the queue, the rest
\* keep their permits.
LEMMA AbortedKeeps ==
  ASSUME GateInv, NEW J \in SUBSET Ids, jobs' = Aborted(J), waiters' = Left(J),
         UNCHANGED <<active, limit>>,
         slots' \in [Slots -> {0} \cup Ids],
         \A s \in Slots : slots[s] \notin J => slots'[s] = slots[s]
  PROVE  GateInv'
<1>1. /\ Len(jobs) \in Nat /\ Ids = 1 .. Len(jobs) /\ Ids' = Ids /\ Slots' = Slots
      /\ jobs \in Seq(Job) /\ waiters \in Seq(Nat)
  BY JobsFinite DEF GateInv, TypesRight, Aborted, Ids, Slots
<1>2. \A i \in Ids : /\ jobs[i] \in Job /\ jobs'[i] \in Job
                     /\ i \notin J => jobs'[i].pc = jobs[i].pc
                     /\ i \in J => jobs'[i].pc = IF jobs[i].pc = "waiting" THEN "rejected" ELSE jobs[i].pc
  <2> TAKE i \in Ids
  <2>1. jobs[i] \in Job
    BY <1>1
  <2>2. jobs'[i] = IF i \notin J THEN jobs[i]
                   ELSE [pc |-> IF jobs[i].pc = "waiting" THEN "rejected" ELSE jobs[i].pc,
                         aborted |-> TRUE]
    BY DEF Aborted
  <2>3. CASE i \notin J
    BY <2>1, <2>2, <2>3
  <2>4. CASE i \in J
    <3>1. jobs'[i].pc = IF jobs[i].pc = "waiting" THEN "rejected" ELSE jobs[i].pc
      BY <2>2, <2>4
    <3>2. jobs'[i] \in Job
      BY <2>1, <2>2, <2>4 DEF Job
    <3> QED
      BY <2>1, <2>4, <3>1, <3>2
  <2> QED
    BY <2>3, <2>4
<1>3. jobs' \in Seq(Job)
  BY <1>1, <1>2 DEF Aborted
<1>4. /\ JobsAt("waiting")' = JobsAt("waiting") \ J
      /\ \A pc \in {"granted", "running", "refused"} : JobsAt(pc)' = JobsAt(pc)
  BY <1>1, <1>2 DEF JobsAt
<1>5. /\ waiters' \in Seq(Nat) /\ Range(waiters') = Range(waiters) \ J
      /\ IsInjective(waiters') /\ Increasing(waiters') /\ Len(waiters') <= Len(waiters)
  BY <1>1, WithoutProperties DEF Left, GateInv, WaitersRight
<1>6. TypesRight'
  BY <1>1, <1>3, <1>5 DEF TypesRight, GateInv
<1>7. WaitersRight'
  <2>1. \A i \in JobsAt("waiting") \ J : \E s \in Slots : slots'[s] = i
    BY DEF GateInv, WaitersRight
  <2> QED
    BY <1>1, <1>4, <1>5, <2>1 DEF GateInv, WaitersRight
<1>8. PermitsRight'
  <2>1. Holding' = Holding
    BY <1>4 DEF Holding
  <2>2. waiters' # <<>> => waiters # <<>>
    BY <1>1, <1>5
  <2> QED
    BY <2>1, <2>2 DEF GateInv, PermitsRight
<1>9. BoundNeverHit'
  BY <1>4 DEF GateInv, BoundNeverHit
<1> QED
  BY <1>6, <1>7, <1>8, <1>9 DEF GateInv

\* A handler that ends, or that comes too late, gives its permit to the job that has waited
\* longest, or back.
LEMMA ReleaseKeeps ==
  ASSUME GateInv, NEW j \in Holding, Release(j), UNCHANGED limit
  PROVE  GateInv'
<1>1. /\ Len(jobs) \in Nat /\ Ids = 1 .. Len(jobs) /\ Ids' = Ids /\ Slots' = Slots
      /\ jobs \in Seq(Job) /\ waiters \in Seq(Nat) /\ limit \in Nat /\ active \in Nat
      /\ active <= limit /\ slots \in [Slots -> {0} \cup Ids] /\ j \in Ids
      /\ IsInjective(waiters) /\ Increasing(waiters) /\ Range(waiters) = JobsAt("waiting")
      /\ active = Cardinality(Holding) /\ IsFiniteSet(Holding) /\ Cardinality(Holding) \in Nat
  BY JobsFinite, GateAssumption
     DEF GateInv, TypesRight, WaitersRight, PermitsRight, Release, Ids, Slots, Holding
<1>2. /\ active' = active - 1 + Len(Turn) /\ waiters' = Without(waiters, Range(Turn))
      /\ jobs' = [i \in Ids |->
           CASE i = j -> [jobs[i] EXCEPT !.pc = "done"]
             [] i \in Range(Turn) -> [jobs[i] EXCEPT !.pc = "granted"]
             [] OTHER -> jobs[i]]
      /\ slots' = SlotsFreed(j)
  BY DEF Release
<1>3. j \notin JobsAt("waiting") /\ Cardinality(Holding) >= 1
  <2>1. j \notin JobsAt("waiting")
    BY DEF Holding, JobsAt
  <2>2. Cardinality(Holding) # 0
    BY <1>1, FS_EmptySet
  <2> QED
    BY <1>1, <2>1, <2>2
<1>4. Range(Turn) \subseteq JobsAt("waiting")
      /\ \/ waiters = <<>> /\ Turn = <<>> /\ Range(Turn) = {} /\ Len(Turn) = 0
         \/ /\ waiters # <<>> /\ active = limit /\ Len(Turn) = 1
            /\ \E t \in JobsAt("waiting") : Range(Turn) = {t}
  <2>1. CASE waiters = <<>>
    <3>1. Started = 0
      BY <2>1 DEF Started
    <3>2. Turn = <<>>
      BY <2>1, <3>1 DEF Turn
    <3>3. Range(<<>>) = {} /\ Len(<<>>) = 0
      BY DEF Range
    <3> QED
      BY <2>1, <3>2, <3>3
  <2>2. CASE waiters # <<>>
    <3>1. active = limit /\ Started = 1 /\ Len(waiters) >= 1 /\ Len(waiters) \in Nat
      BY <1>1, <2>2, EmptySeq DEF Started, GateInv, PermitsRight
    <3>2. Turn = SubSeq(waiters, 1, 1)
      BY <3>1 DEF Turn
    <3>3. /\ Len(SubSeq(waiters, 1, 1)) = 1
          /\ DOMAIN SubSeq(waiters, 1, 1) = {1} /\ SubSeq(waiters, 1, 1)[1] = waiters[1]
      BY <1>1, <3>1
    <3>4. Range(Turn) = {waiters[1]}
      BY <3>2, <3>3 DEF Range
    <3>5. waiters[1] \in Range(waiters)
      BY <1>1, <3>1 DEF Range
    <3> QED
      BY <1>1, <2>2, <3>1, <3>2, <3>3, <3>4, <3>5
  <2> QED
    BY <2>1, <2>2
<1> DEFINE T == Range(Turn)
<1>5. \A i \in Ids : /\ jobs[i] \in Job /\ jobs'[i] \in Job
                     /\ jobs'[i].pc = IF i = j THEN "done" ELSE IF i \in T THEN "granted" ELSE jobs[i].pc
  <2> TAKE i \in Ids
  <2>1. jobs[i] \in Job
    BY <1>1
  <2>2. jobs'[i] = CASE i = j -> [jobs[i] EXCEPT !.pc = "done"]
                     [] i \in T -> [jobs[i] EXCEPT !.pc = "granted"]
                     [] OTHER -> jobs[i]
    BY <1>2 DEF T
  <2>3. /\ [jobs[i] EXCEPT !.pc = "done"] \in Job /\ [jobs[i] EXCEPT !.pc = "done"].pc = "done"
        /\ [jobs[i] EXCEPT !.pc = "granted"] \in Job
        /\ [jobs[i] EXCEPT !.pc = "granted"].pc = "granted"
    BY <2>1 DEF Job
  <2>7. j \notin T
    BY <1>3, <1>4
  <2> HIDE DEF T
  <2>4. CASE i = j
    <3>1. jobs'[i] = [jobs[i] EXCEPT !.pc = "done"]
      BY <2>2, <2>4, <2>7
    <3> QED
      BY <2>1, <2>3, <2>4, <3>1
  <2>5. CASE i # j /\ i \in T
    <3>1. jobs'[i] = [jobs[i] EXCEPT !.pc = "granted"]
      BY <2>2, <2>5
    <3> QED
      BY <2>1, <2>3, <2>5, <3>1
  <2>6. CASE i # j /\ i \notin T
    BY <2>1, <2>2, <2>6
  <2> QED
    BY <2>4, <2>5, <2>6
<1>6. jobs' \in Seq(Job)
  <2>1. jobs' = [i \in 1 .. Len(jobs) |-> jobs'[i]]
    BY <1>1, <1>2
  <2> QED
    BY <1>1, <1>5, <2>1
<1>7. /\ waiters' \in Seq(Nat) /\ Range(waiters') = Range(waiters) \ T
      /\ IsInjective(waiters') /\ Increasing(waiters') /\ Len(waiters') <= Len(waiters)
  BY <1>1, <1>2, WithoutProperties
<1> HIDE DEF T
<1>8. T \subseteq JobsAt("waiting") /\ j \notin T
  BY <1>3, <1>4 DEF T
<1>9. /\ JobsAt("waiting")' = JobsAt("waiting") \ T
      /\ JobsAt("refused")' \subseteq JobsAt("refused")
      /\ Holding' = (Holding \ {j}) \cup T
  BY <1>1, <1>3, <1>5, <1>8 DEF JobsAt, Holding
<1>10. slots' \in [Slots -> {0} \cup Ids]
       /\ \A s \in Slots : slots[s] # j => slots'[s] = slots[s]
  BY <1>1, <1>2 DEF SlotsFreed
<1>11. TypesRight'
  <2>1. active' \in Nat
    BY <1>1, <1>2, <1>3, <1>4
  <2> QED
    BY <1>1, <1>6, <1>7, <1>10, <2>1 DEF TypesRight, GateInv
<1>12. WaitersRight'
  <2>1. \A i \in JobsAt("waiting") : \E s \in Slots : slots'[s] = i
    BY <1>3, <1>10 DEF GateInv, WaitersRight
  <2> QED
    BY <1>1, <1>7, <1>9, <2>1 DEF WaitersRight
<1>13. PermitsRight'
  <2>1. IsFiniteSet(Holding \ {j}) /\ Cardinality(Holding \ {j}) = Cardinality(Holding) - 1
    BY <1>1, FS_RemoveElement
  <2>2. CASE waiters = <<>>
    <3>1. Holding' = Holding \ {j} /\ active' = active - 1 /\ waiters' = <<>>
      BY <1>1, <1>2, <1>4, <1>7, <1>9, <2>2 DEF T
    <3> QED
      BY <1>1, <2>1, <3>1 DEF PermitsRight
  <2>3. CASE waiters # <<>>
    <3>1. PICK t \in JobsAt("waiting") : T = {t}
      BY <1>4, <2>3 DEF T
    <3>2. t \notin Holding
      BY <3>1 DEF Holding, JobsAt
    <3>5. active = limit /\ active' = active
      <4>1. active = limit /\ Len(Turn) = 1
        BY <1>4, <2>3
      <4> QED
        BY <1>1, <1>2, <4>1
    <3>3. Cardinality((Holding \ {j}) \cup {t}) = Cardinality(Holding)
      <4>1. t \notin Holding \ {j}
        BY <3>2
      <4>2. Cardinality((Holding \ {j}) \cup {t}) = Cardinality(Holding \ {j}) + 1
        BY <2>1, <4>1, FS_AddElement
      <4> QED
        BY <1>1, <2>1, <4>2
    <3>4. Cardinality(Holding') = Cardinality(Holding)
      BY <1>9, <3>1, <3>3
    <3> QED
      BY <1>1, <3>4, <3>5 DEF PermitsRight
  <2> QED
    BY <2>2, <2>3
<1>14. BoundNeverHit'
  BY <1>9 DEF GateInv, BoundNeverHit
<1> QED
  BY <1>11, <1>12, <1>13, <1>14 DEF GateInv

\* A job goes on after acquire(): what holds a permit and what waits stays.
LEMMA StaysKeeps ==
  ASSUME GateInv, NEW j \in Ids, NEW pc \in {"running", "done"},
         jobs[j].pc # "waiting", pc = "running" <=> j \in Holding,
         jobs' = [jobs EXCEPT ![j].pc = pc], UNCHANGED <<active, waiters, limit>>,
         slots' \in [Slots -> {0} \cup Ids],
         \A s \in Slots : slots[s] # j => slots'[s] = slots[s]
  PROVE  GateInv'
<1>1. /\ Len(jobs) \in Nat /\ Ids = 1 .. Len(jobs) /\ Slots' = Slots /\ jobs \in Seq(Job)
      /\ jobs[j] \in Job
  BY JobsFinite DEF GateInv, TypesRight, Slots
<1>2. [jobs[j] EXCEPT !.pc = pc] \in Job /\ [jobs[j] EXCEPT !.pc = pc].pc = pc
  BY <1>1 DEF Job
<1>3. /\ jobs' \in Seq(Job) /\ Ids' = Ids
      /\ jobs'[j].pc = pc /\ \A i \in Ids \ {j} : jobs'[i] = jobs[i]
  <2> DEFINE q == [jobs[j] EXCEPT !.pc = pc]
  <2>1. jobs' = [jobs EXCEPT ![j] = q]
    OBVIOUS
  <2>2. q \in Job /\ q.pc = pc
    BY <1>2
  <2> HIDE DEF q
  <2> QED
    BY <1>1, <2>1, <2>2 DEF Ids
<1>4. /\ JobsAt("waiting")' = JobsAt("waiting") /\ j \notin JobsAt("waiting")
      /\ JobsAt("refused")' \subseteq JobsAt("refused")
      /\ Holding' = Holding
  BY <1>1, <1>3 DEF JobsAt, Holding
<1>5. TypesRight'
  BY <1>1, <1>3 DEF TypesRight, GateInv
<1>6. WaitersRight'
  <2>1. \A i \in JobsAt("waiting") : \E s \in Slots : slots'[s] = i
    BY <1>4 DEF GateInv, WaitersRight
  <2> QED
    BY <1>1, <1>4, <2>1 DEF GateInv, WaitersRight
<1>7. PermitsRight' /\ BoundNeverHit'
  BY <1>4 DEF GateInv, PermitsRight, BoundNeverHit
<1> QED
  BY <1>5, <1>6, <1>7 DEF GateInv

-----------------------------------------------------------------------------

\* Nothing is running and nobody waits.
LEMMA GateStarts ==
  ASSUME GateInit
  PROVE  GateInv
<1>1. jobs = <<>> /\ waiters = <<>> /\ active = 0 /\ limit \in Limits /\ limit \in Nat
      /\ slots = [s \in Slots |-> 0]
  BY GateAssumption DEF GateInit
<1>2. Ids = {} /\ \A pc : JobsAt(pc) = {}
  BY <1>1 DEF Ids, JobsAt
<1>3. TypesRight
  BY <1>1 DEF TypesRight
<1>4. WaitersRight
  <2>1. Range(waiters) = {} /\ IsInjective(waiters) /\ Increasing(waiters)
    BY <1>1 DEF Range, IsInjective, Increasing
  <2> QED
    BY <1>2, <2>1 DEF WaitersRight
<1>5. PermitsRight
  <2>1. Holding = {}
    BY <1>2 DEF Holding
  <2>2. Cardinality(Holding) = 0
    BY <2>1, FS_EmptySet
  <2>3. active <= limit
    BY <1>1
  <2> QED
    BY <1>1, <2>2, <2>3, Zenon DEF PermitsRight
<1>6. BoundNeverHit
  BY <1>2 DEF BoundNeverHit
<1> QED
  BY <1>3, <1>4, <1>5, <1>6 DEF GateInv

\* Every step of the gate keeps the invariant.
LEMMA GateKept ==
  ASSUME GateInv, [GateNext]_gateVars
  PROVE  GateInv'
<1>1. slots \in [Slots -> {0} \cup Ids]
  BY DEF GateInv, TypesRight
<1>2. ASSUME NEW s \in Slots, NEW aborted \in BOOLEAN, Call(s, aborted), UNCHANGED limit
      PROVE  GateInv'
  BY <1>2, CallKeeps
<1>3. ASSUME NEW n \in Brokers, Reconnect(n), UNCHANGED limit
      PROVE  GateInv'
  <2> DEFINE J == {slots[<<n, i>>] : i \in 1 .. limit} \ {0}
  <2>1. J \subseteq Ids
    BY <1>1 DEF Slots
  <2>2. /\ jobs' = Aborted(J) /\ waiters' = Left(J) /\ UNCHANGED active
        /\ slots' = [s \in Slots |-> IF s[1] = n THEN 0 ELSE slots[s]]
    BY <1>3 DEF Reconnect
  <2>3. slots' \in [Slots -> {0} \cup Ids]
    BY <1>1, <2>2
  <2>4. ASSUME NEW s \in Slots, slots[s] \notin J PROVE slots'[s] = slots[s]
    <3>1. CASE s[1] = n
      <4>1. s = <<n, s[2]>> /\ s[2] \in 1 .. limit
        BY <3>1 DEF Slots
      <4>2. slots[s] = 0
        BY <2>4, <4>1
      <4> QED
        BY <2>2, <3>1, <4>2
    <3>2. CASE s[1] # n
      BY <2>2, <3>2
    <3> QED
      BY <3>1, <3>2
  <2> HIDE DEF J
  <2> QED
    BY <1>3, <2>1, <2>2, <2>3, <2>4, AbortedKeeps
<1>4. ASSUME NEW j \in Ids, Deadline(j), UNCHANGED limit PROVE GateInv'
  <2>1. /\ {j} \in SUBSET Ids /\ jobs' = Aborted({j}) /\ waiters' = Left({j})
        /\ UNCHANGED <<active, limit>> /\ slots' \in [Slots -> {0} \cup Ids]
        /\ \A s \in Slots : slots[s] \notin {j} => slots'[s] = slots[s]
    BY <1>1, <1>4 DEF Deadline
  <2> QED
    BY <2>1, AbortedKeeps
<1>5. ASSUME NEW j \in Ids, Admitted(j), UNCHANGED limit PROVE GateInv'
  <2>1. /\ jobs[j].pc = "granted" /\ j \in Holding
        /\ jobs' = [jobs EXCEPT ![j].pc = "running"] /\ UNCHANGED <<active, waiters, limit>>
        /\ slots' \in [Slots -> {0} \cup Ids]
        /\ \A s \in Slots : slots[s] # j => slots'[s] = slots[s]
    BY <1>1, <1>5 DEF Admitted, Holding, JobsAt
  <2> QED
    BY <2>1, StaysKeeps
<1>6. ASSUME NEW j \in Ids, TooLate(j) \/ HandlerSettles(j), UNCHANGED limit PROVE GateInv'
  <2>1. j \in Holding /\ Release(j)
    BY <1>6 DEF TooLate, HandlerSettles, Holding, JobsAt
  <2> QED
    BY <1>6, <2>1, ReleaseKeeps
<1>7. ASSUME NEW j \in Ids, Rejected(j), UNCHANGED limit PROVE GateInv'
  <2>1. /\ jobs[j].pc \in {"rejected", "refused"} /\ j \notin Holding
        /\ jobs' = [jobs EXCEPT ![j].pc = "done"] /\ UNCHANGED <<active, waiters, limit>>
        /\ slots' = SlotsFreed(j)
    BY <1>7 DEF Rejected, Holding, JobsAt
  <2>2. slots' \in [Slots -> {0} \cup Ids] /\ \A s \in Slots : slots[s] # j => slots'[s] = slots[s]
    BY <1>1, <2>1 DEF SlotsFreed
  <2> QED
    BY <2>1, <2>2, StaysKeeps
<1>8. ASSUME UNCHANGED gateVars PROVE GateInv'
  BY <1>8 DEF gateVars, GateInv, TypesRight, WaitersRight, Increasing, PermitsRight, BoundNeverHit, Holding, JobsAt,
              Ids, Slots
<1> QED
  BY <1>2, <1>3, <1>4, <1>5, <1>6, <1>7, <1>8 DEF GateNext

\* However handlers outlive their connections, those of a service never exceed its
\* concurrency, no permit is lost or idle while a job waits, and the bound of the queue is
\* never hit: for any number of brokers, any concurrency and any number of jobs.
THEOREM PermitsAreHeld == GateSpec => []PermitsHeld
<1>1. GateInv => PermitsHeld
  <2> SUFFICES ASSUME GateInv PROVE PermitsHeld
    OBVIOUS
  <2>1. /\ Ids = 1 .. Len(jobs) /\ Len(jobs) \in Nat /\ limit \in Nat /\ active \in Nat
        /\ active <= limit /\ limit \in Limits /\ jobs \in Seq(Job)
        /\ slots \in [Slots -> {0} \cup Ids]
    BY JobsFinite, GateAssumption DEF GateInv, TypesRight, PermitsRight
  <2>2. waiters \in Seq(Ids) /\ Len(waiters) = Cardinality(JobsAt("waiting"))
    <3>1. Range(waiters) = JobsAt("waiting") /\ JobsAt("waiting") \subseteq Ids
          /\ waiters \in Seq(Nat) /\ IsInjective(waiters)
      BY DEF GateInv, TypesRight, WaitersRight, JobsAt
    <3>2. \A i \in 1 .. Len(waiters) : waiters[i] \in Ids
      BY <3>1 DEF Range
    <3>3. waiters \in Seq(Ids)
      BY <3>1, <3>2
    <3> QED
      BY <3>1, <3>3, LengthIs
  <2>3. GateTypeOK
    BY <2>1, <2>2 DEF GateTypeOK, Job
  <2>4. NoIdlePermit
    BY <2>2 DEF NoIdlePermit, GateInv, PermitsRight, WaitersRight
  <2> QED
    BY <2>3, <2>4 DEF PermitsHeld, GateInv, PermitsRight, Holding
<1> QED
  BY <1>1, GateStarts, GateKept, PTL DEF GateSpec

\* A release starts the job that has waited longest: no other step grants a permit to one that
\* waits, and the queue is in the order of the calls whatever leaves it in between.
THEOREM PermitsInTurn == GateSpec => [][TurnStep]_gateVars
<1>1. ASSUME GateInv, GateNext, NEW j \in Ids, NEW k \in Ids, j < k,
             jobs[j].pc = "waiting", jobs[k].pc = "waiting", jobs'[k].pc = "granted"
      PROVE  jobs'[j].pc # "waiting"
  <2>1. /\ jobs \in Seq(Job) /\ waiters \in Seq(Nat) /\ Ids = 1 .. Len(jobs) /\ Len(jobs) \in Nat
        /\ Increasing(waiters) /\ Range(waiters) = JobsAt("waiting")
    BY <1>1, JobsFinite DEF GateInv, TypesRight, WaitersRight
  <2>2. ASSUME jobs'[k].pc = jobs[k].pc \/ jobs'[k].pc # "granted"
        PROVE  FALSE
    BY <1>1, <2>2
  <2>3. CASE \E s \in Slots, aborted \in BOOLEAN : Call(s, aborted)
    <3>1. PICK job : jobs' = Append(jobs, job)
      BY <2>3 DEF Call
    <3>2. jobs'[k] = jobs[k]
      BY <2>1, <3>1
    <3> QED
      BY <2>2, <3>2
  <2>4. CASE \E J : jobs' = Aborted(J)
    <3>1. PICK J : jobs' = Aborted(J)
      BY <2>4
    <3>2. jobs'[k] = IF k \notin J THEN jobs[k]
                     ELSE [pc |-> IF jobs[k].pc = "waiting" THEN "rejected" ELSE jobs[k].pc,
                           aborted |-> TRUE]
      BY <3>1 DEF Aborted
    <3>3. CASE k \notin J
      <4>1. jobs'[k] = jobs[k]
        BY <3>2, <3>3
      <4> QED
        BY <2>2, <4>1
    <3>4. CASE k \in J
      <4>1. jobs'[k] = [pc |-> "rejected", aborted |-> TRUE]
        BY <1>1, <3>2, <3>4
      <4> QED
        BY <2>2, <4>1
    <3> QED
      BY <3>3, <3>4
  <2>5. CASE \E i \in Ids : Admitted(i) \/ Rejected(i)
    <3>1. PICK i \in Ids : Admitted(i) \/ Rejected(i)
      BY <2>5
    <3>2. i # k
      BY <1>1, <3>1 DEF Admitted, Rejected
    <3>3. jobs' = [jobs EXCEPT ![i].pc = "running"] \/ jobs' = [jobs EXCEPT ![i].pc = "done"]
      BY <3>1 DEF Admitted, Rejected
    <3>4. jobs'[k] = jobs[k]
      BY <3>2, <3>3 DEF Ids
    <3> QED
      BY <2>2, <3>4
  <2>6. CASE \E i \in Ids : Release(i) /\ jobs[i].pc # "waiting"
    <3>1. PICK i \in Ids : Release(i) /\ jobs[i].pc # "waiting"
      BY <2>6
    <3>2. jobs'[k] = CASE k = i -> [jobs[k] EXCEPT !.pc = "done"]
                       [] k \in Range(Turn) -> [jobs[k] EXCEPT !.pc = "granted"]
                       [] OTHER -> jobs[k]
      BY <3>1 DEF Release
    <3>3. k # i
      BY <1>1, <3>1
    <3>4. k \in Range(Turn)
      <4>1. SUFFICES ASSUME k \notin Range(Turn)
                     PROVE  FALSE
        OBVIOUS
      <4>2. jobs'[k] = jobs[k]
        BY <3>2, <3>3, <4>1
      <4> QED
        BY <2>2, <4>2
    <3>5. k = waiters[1] /\ waiters # <<>>
      <4>1. PICK p \in DOMAIN Turn : Turn[p] = k
        BY <3>4 DEF Range
      <4>2. Started = 1 /\ waiters # <<>>
        <5>1. CASE Started = 0
          <6>1. Turn = <<>>
            BY <2>1, <5>1 DEF Turn
          <6> QED
            BY <4>1, <6>1
        <5>2. CASE Started # 0
          BY <5>2 DEF Started
        <5> QED
          BY <5>1, <5>2
      <4>3. Turn = SubSeq(waiters, 1, 1) /\ Len(waiters) >= 1
        BY <2>1, <4>2 DEF Turn
      <4>4. DOMAIN Turn = {1} /\ Turn[1] = waiters[1]
        BY <2>1, <4>3
      <4> QED
        BY <4>1, <4>2, <4>4
    <3>6. PICK m \in DOMAIN waiters : waiters[m] = j
      BY <1>1, <2>1 DEF JobsAt, Range
    <3>7. m = 1 \/ waiters[1] < waiters[m]
      BY <2>1, <3>6 DEF Increasing
    <3>8. j \in Nat /\ k \in Nat
      BY <2>1
    <3> QED
      BY <1>1, <3>5, <3>6, <3>7, <3>8
  <2>7. CASE \E n \in Brokers : Reconnect(n)
    BY <2>4, <2>7 DEF Reconnect
  <2>8. CASE \E i \in Ids : Deadline(i)
    BY <2>4, <2>8 DEF Deadline
  <2>9. CASE \E i \in Ids : TooLate(i) \/ HandlerSettles(i)
    BY <2>6, <2>9 DEF TooLate, HandlerSettles
  <2> QED
    BY <1>1, <2>3, <2>5, <2>7, <2>8, <2>9 DEF GateNext
<1>2. GateInv /\ [GateNext]_gateVars => [TurnStep]_gateVars
  BY <1>1 DEF TurnStep
<1> QED
  BY <1>2, GateStarts, GateKept, PTL DEF GateSpec
=============================================================================
