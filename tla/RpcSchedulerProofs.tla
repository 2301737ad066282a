-------------------------- MODULE RpcSchedulerProofs --------------------------
(***************************************************************************)
(* Theorems about RpcScheduler, for every value of its constants.          *)
(*   1. types and routes           2. queues, and who is handed a call     *)
(*   3. departures and slots       4. wakeups and replies                  *)
(*   5. budgets and order          6. the contract of every call           *)
(***************************************************************************)
EXTENDS RpcRefinement, ContainerLemmas

-----------------------------------------------------------------------------
(* What the helpers of the scheduler preserve.                             *)

\* Sending or dropping responses changes the replies of tickets only.
LEMMA RespondedType ==
  ASSUME IsMap(tickets, Ids, TicketType), NEW S, NEW reply \in Replies
  PROVE  /\ IsMap(Responded(S, reply), Ids, TicketType)
         /\ DOMAIN Responded(S, reply) = DOMAIN tickets
         /\ \A i \in DOMAIN tickets :
              /\ Responded(S, reply)[i].pc = tickets[i].pc
              /\ Responded(S, reply)[i].caller = tickets[i].caller
<1>1. \A i \in DOMAIN tickets : tickets[i] \in TicketType
  BY DEF IsMap
<1>2. \A i \in DOMAIN tickets :
        /\ Responded(S, reply)[i] \in TicketType
        /\ Responded(S, reply)[i].pc = tickets[i].pc
        /\ Responded(S, reply)[i].caller = tickets[i].caller
  BY <1>1 DEF Responded, TicketType
<1> QED
  BY <1>2 DEF IsMap, Responded

\* Waking takes changes no program counter.
LEMMA NotifiedType ==
  ASSUME takes \in [Takers -> TakeType], NEW W
  PROVE  /\ Notified(W) \in [Takers -> TakeType]
         /\ \A t \in Takers : Notified(W)[t].pc = takes[t].pc
BY DEF Notified, TakeType, TakePcs

\* Removing keys keeps a map a map.
LEMMA OmitType ==
  ASSUME NEW f, NEW K, NEW V, IsMap(f, K, V), NEW S
  PROVE  IsMap(Omit(f, S), K, V)
<1> DEFINE g == Omit(f, S)
<1>1. /\ DOMAIN g = DOMAIN f \ S
      /\ \A x \in DOMAIN f \ S : g[x] = f[x]
      /\ g = [x \in DOMAIN g |-> g[x]]
  BY DEF Omit, Restrict
<1> HIDE DEF g
<1>2. DOMAIN g \subseteq K /\ \A x \in DOMAIN g : g[x] \in V
  BY <1>1 DEF IsMap
<1>3. IsMap(g, K, V)
  BY <1>1, <1>2 DEF IsMap
<1> QED
  BY <1>3 DEF g

\* Inserting a key of the right type keeps a map a map.
LEMMA PutType ==
  ASSUME NEW f, NEW K, NEW V, IsMap(f, K, V), NEW k \in K, NEW v \in V
  PROVE  IsMap(Put(f, k, v), K, V)
<1> DEFINE g == Put(f, k, v)
<1>1. /\ DOMAIN g = DOMAIN f \cup {k}
      /\ g[k] = v
      /\ \A x \in DOMAIN f \ {k} : g[x] = f[x]
      /\ g = [x \in DOMAIN g |-> g[x]]
  BY DEF Put
<1> HIDE DEF g
<1>2. DOMAIN f \subseteq K /\ \A x \in DOMAIN f : f[x] \in V
  BY DEF IsMap
<1>3. DOMAIN g \subseteq K /\ \A x \in DOMAIN g : g[x] \in V
  BY <1>1, <1>2
<1>4. IsMap(g, K, V)
  BY <1>1, <1>3 DEF IsMap
<1> QED
  BY <1>4 DEF g

\* Removing ids from a queue, or popping it, gives a queue of ids.
LEMMA QueueType ==
  ASSUME IsMap(routes, Routes, RouteType), NEW r \in DOMAIN routes, NEW S
  PROVE  /\ Queue(r) \in Seq(Ids)
         /\ Without(Queue(r), S) \in Seq(Ids)
<1>1. Queue(r) \in Seq(Ids)
  BY DEF IsMap, RouteType, Queue
<1> QED
  BY <1>1, WithoutProperties

\* Replacing the queue of one route by another queue of ids.
LEMMA RequeuedType ==
  ASSUME IsMap(routes, Routes, RouteType), NEW r \in DOMAIN routes,
         NEW q \in Seq(Ids)
  PROVE  IsMap([routes EXCEPT ![r].queue = q], Routes, RouteType)
BY DEF IsMap, RouteType

\* Emptying queues in part.
LEMMA TrimmedType ==
  ASSUME IsMap(routes, Routes, RouteType), NEW S
  PROVE  IsMap([r \in DOMAIN routes |-> [routes[r] EXCEPT !.queue = Without(@, S)]],
               Routes, RouteType)
<1>1. \A r \in DOMAIN routes : /\ routes[r] \in RouteType
                               /\ Without(routes[r].queue, S) \in Seq(Ids)
  BY QueueType DEF IsMap, Queue
<1>2. \A r \in DOMAIN routes :
        [routes[r] EXCEPT !.queue = Without(@, S)] \in RouteType
  BY <1>1 DEF RouteType
<1> QED
  BY <1>2 DEF IsMap

-----------------------------------------------------------------------------
(* Types, and routes that match workers.                                   *)

SameRoutes ==
  /\ DOMAIN routes' = DOMAIN routes
  /\ \A r \in DOMAIN routes : routes'[r].workers = routes[r].workers

SameWorkers ==
  /\ DOMAIN workers' = DOMAIN workers
  /\ \A w \in DOMAIN workers : workers'[w].route = workers[w].route

\* Where routes and workers stay, routes stay served.
LEMMA SameKeepsRoutesServed ==
  ASSUME RoutesServed, SameRoutes, SameWorkers
  PROVE  RoutesServed'
BY DEF RoutesServed, SameRoutes, SameWorkers

\* A registered worker names a route that exists.
LEMMA WorkerRoute ==
  ASSUME TypeInv, NEW w \in DOMAIN workers
  PROVE  workers[w] \in WorkerType /\ workers[w].route \in DOMAIN routes
BY DEF TypeInv, TypeOK, RoutesServed, IsMap

\* A step that changes queues alone keeps the routes typed.
LEMMA QueueStepType ==
  ASSUME TypeInv, NEW r \in DOMAIN routes, NEW q \in Seq(Ids),
         routes' = [routes EXCEPT ![r].queue = q]
  PROVE  IsMap(routes', Routes, RouteType) /\ SameRoutes
<1>1. IsMap(routes', Routes, RouteType)
  BY RequeuedType DEF TypeInv, TypeOK
<1>2. SameRoutes
  BY DEF SameRoutes, TypeInv, TypeOK, IsMap, RouteType
<1> QED
  BY <1>1, <1>2

\* Taking a response out of call i, and removing the call unless it is owned.
LEMMA ResponseTakenType ==
  ASSUME TypeInv, NEW i, ResponseTaken(i)
  PROVE  /\ IsMap(calls', DOMAIN tickets, CallType)
         /\ IsMap(routes', Routes, RouteType)
         /\ SameRoutes
<1> DEFINE gone == Unowned({i} \cap Live)
<1>1. /\ calls' = [x \in Live \ gone |->
                     IF x = i THEN [calls[x] EXCEPT !.response = FALSE] ELSE calls[x]]
      /\ routes' = [r \in DOMAIN routes |-> [routes[r] EXCEPT !.queue = Without(@, gone)]]
  BY DEF ResponseTaken
<1> HIDE DEF gone
<1>2. IsMap(calls', DOMAIN tickets, CallType)
  <2>1. \A x \in Live : calls[x] \in CallType /\ x \in DOMAIN tickets
    BY DEF TypeInv, TypeOK, IsMap, Live
  <2>2. \A x \in Live : [calls[x] EXCEPT !.response = FALSE] \in CallType
    BY <2>1 DEF CallType
  <2>3. DOMAIN calls' = Live \ gone /\ \A x \in Live \ gone : calls'[x] \in CallType
    BY <1>1, <2>1, <2>2
  <2> QED
    BY <1>1, <2>1, <2>3 DEF IsMap
<1>3. IsMap(routes', Routes, RouteType)
  BY <1>1, TrimmedType DEF TypeInv, TypeOK
<1>4. SameRoutes
  BY <1>1 DEF SameRoutes, TypeInv, TypeOK, IsMap, RouteType
<1> QED
  BY <1>2, <1>3, <1>4

\* The initial state has the right types.
LEMMA TypeInvInit == Init => TypeInv
<1> SUFFICES ASSUME Init PROVE TypeInv
  OBVIOUS
<1>1. DOMAIN Empty = {} /\ \A K, V : IsMap(Empty, K, V)
  BY DEF Empty, IsMap
<1>2. takes \in [Takers -> TakeType]
  BY DEF Init, TakeType, TakePcs
<1>3. 1 \in 1 .. LastId /\ 1 .. 1 - 1 = {}
  BY LimitAssumption
<1>4. TypeOK
  BY <1>1, <1>2, <1>3 DEF Init, TypeOK
<1>5. RoutesServed
  BY <1>1 DEF Init, RoutesServed
<1> QED
  BY <1>4, <1>5 DEF TypeInv

\* A connection that comes keeps the types.
LEMMA TypeInvConnection ==
  ASSUME TypeInv, NEW k \in Conns, Connect(k)
  PROVE  TypeInv'
BY DEF TypeInv, TypeOK, RoutesServed, Connect, Live, RouteType, WorkerType

\* A registration keeps the types.
LEMMA TypeInvRegister ==
  ASSUME TypeInv, NEW w \in Servers, NEW r \in Routes,
         NEW c \in Concurrencies, NEW l \in QueueLimits, Register(w, r, c, l)
  PROVE  TypeInv'
<1> DEFINE job == [route |-> r, concurrency |-> c, running |-> 0, pending_takes |-> 0]
           new == [workers |-> {w}, queue |-> <<>>, queue_limit |-> l]
<1>1. job \in WorkerType /\ new \in RouteType
  BY DEF WorkerType, RouteType
<1>2. /\ DOMAIN workers' = DOMAIN workers \cup {w}
      /\ workers'[w] = job
      /\ \A x \in DOMAIN workers : workers'[x] = workers[x]
      /\ IsMap(workers', Servers, WorkerType)
  <2>1. workers' = Put(workers, w, job) /\ w \notin DOMAIN workers
    BY DEF Register
  <2>2. IsMap(workers', Servers, WorkerType)
    BY <1>1, <2>1, PutType DEF TypeInv, TypeOK
  <2> QED
    BY <2>1, <2>2 DEF Put
<1>3. /\ DOMAIN routes' = DOMAIN routes \cup {r}
      /\ r \in DOMAIN routes => routes'[r].workers = routes[r].workers \cup {w}
      /\ r \notin DOMAIN routes => routes'[r].workers = {w}
      /\ \A x \in DOMAIN routes \ {r} : routes'[x] = routes[x]
      /\ IsMap(routes', Routes, RouteType)
  <2>1. CASE r \in DOMAIN routes
    <3>1. routes' = [routes EXCEPT ![r].workers = @ \cup {w}]
      BY <2>1 DEF Register
    <3>2. routes[r] \in RouteType /\ IsMap(routes, Routes, RouteType)
      BY <2>1 DEF TypeInv, TypeOK, IsMap
    <3>3. [routes[r] EXCEPT !.workers = @ \cup {w}] \in RouteType
      BY <3>2 DEF RouteType
    <3> QED
      BY <2>1, <3>1, <3>2, <3>3 DEF IsMap, RouteType
  <2>2. CASE r \notin DOMAIN routes
    <3>1. routes' = Put(routes, r, new)
      BY <2>2 DEF Register
    <3>2. IsMap(routes', Routes, RouteType)
      BY <1>1, <3>1, PutType DEF TypeInv, TypeOK
    <3> QED
      BY <2>2, <3>1, <3>2 DEF Put
  <2> QED
    BY <2>1, <2>2
<1>4. TypeOK'
  BY <1>2, <1>3 DEF Register, TypeInv, TypeOK, Live
<1>5. RoutesServed'
  <2>1. w \notin DOMAIN workers /\ workers'[w].route = r
    BY <1>2 DEF Register
  <2> HIDE DEF job, new
  <2>2. ASSUME NEW x \in DOMAIN routes'
        PROVE  /\ routes'[x].workers # {}
               /\ \A v \in routes'[x].workers : v \in DOMAIN workers' /\ workers'[v].route = x
    <3>1. CASE x \in DOMAIN routes \ {r}
      BY <1>2, <1>3, <3>1 DEF TypeInv, RoutesServed
    <3>2. CASE x = r /\ r \in DOMAIN routes
      BY <1>2, <1>3, <2>1, <3>2 DEF TypeInv, RoutesServed
    <3>3. CASE x = r /\ r \notin DOMAIN routes
      BY <1>2, <1>3, <2>1, <3>3
    <3> QED
      BY <1>3, <3>1, <3>2, <3>3
  <2>3. ASSUME NEW v \in DOMAIN workers'
        PROVE  workers'[v].route \in DOMAIN routes' /\ v \in routes'[workers'[v].route].workers
    <3>1. CASE v = w
      BY <1>3, <2>1, <3>1
    <3>2. CASE v # w
      <4>1. /\ v \in DOMAIN workers /\ workers'[v] = workers[v]
            /\ workers[v].route \in DOMAIN routes
            /\ v \in routes[workers[v].route].workers
        BY <1>2, <3>2 DEF TypeInv, RoutesServed
      <4> QED
        BY <1>3, <4>1
    <3> QED
      BY <3>1, <3>2
  <2> QED
    BY <2>2, <2>3 DEF RoutesServed
<1> QED
  BY <1>4, <1>5 DEF TypeInv

\* What a departing connection leaves of routes and workers.
LEMMA RoutesWithoutFacts ==
  ASSUME TypeInv, NEW k \in Conns
  PROVE  /\ IsMap(RoutesWithout(k), Routes, RouteType)
         /\ DOMAIN RoutesWithout(k) =
              IF LastWorker(k) THEN DOMAIN routes \ {workers[k].route} ELSE DOMAIN routes
         /\ \A r \in DOMAIN RoutesWithout(k) :
              /\ RoutesWithout(k)[r].workers = routes[r].workers \ {k}
              /\ RoutesWithout(k)[r].queue = Without(routes[r].queue, Withdrawn(k))
              /\ RoutesWithout(k)[r].queue_limit = routes[r].queue_limit
<1> DEFINE trimmed == [r \in DOMAIN routes |->
                         [routes[r] EXCEPT !.queue = Without(@, Withdrawn(k)),
                                           !.workers = @ \ {k}]]
<1>1. \A r \in DOMAIN routes : /\ routes[r] \in RouteType
                               /\ Without(routes[r].queue, Withdrawn(k)) \in Seq(Ids)
  BY QueueType DEF TypeInv, TypeOK, IsMap, Queue
<1>2. \A r \in DOMAIN routes :
        /\ trimmed[r] \in RouteType
        /\ trimmed[r].workers = routes[r].workers \ {k}
        /\ trimmed[r].queue = Without(routes[r].queue, Withdrawn(k))
        /\ trimmed[r].queue_limit = routes[r].queue_limit
  BY <1>1 DEF RouteType
<1>3. IsMap(trimmed, Routes, RouteType)
  BY <1>2 DEF IsMap, TypeInv, TypeOK
<1>4. RoutesWithout(k) = IF LastWorker(k) THEN Omit(trimmed, {workers[k].route}) ELSE trimmed
  BY DEF RoutesWithout
<1>5. DOMAIN trimmed = DOMAIN routes
  OBVIOUS
<1> HIDE DEF trimmed
<1>6. CASE LastWorker(k)
  <2>1. IsMap(Omit(trimmed, {workers[k].route}), Routes, RouteType)
    BY <1>3, OmitType
  <2> DEFINE rest == Omit(trimmed, {workers[k].route})
  <2>2. /\ DOMAIN rest = DOMAIN routes \ {workers[k].route}
        /\ \A r \in DOMAIN rest : rest[r] = trimmed[r]
    BY <1>5 DEF Omit, Restrict
  <2>3. RoutesWithout(k) = rest
    BY <1>4, <1>6
  <2> HIDE DEF rest
  <2>4. \A r \in DOMAIN rest :
          /\ rest[r].workers = routes[r].workers \ {k}
          /\ rest[r].queue = Without(routes[r].queue, Withdrawn(k))
          /\ rest[r].queue_limit = routes[r].queue_limit
    BY <1>2, <2>2
  <2>5. IsMap(rest, Routes, RouteType)
    BY <2>1 DEF rest
  <2> QED
    BY <1>6, <2>2, <2>3, <2>4, <2>5
<1>7. CASE ~LastWorker(k)
  BY <1>2, <1>3, <1>4, <1>5, <1>7
<1> QED
  BY <1>6, <1>7

\* A disconnect keeps the types.
LEMMA TypeInvDisconnect ==
  ASSUME TypeInv, NEW k \in Conns, Disconnect(k)
  PROVE  TypeInv'
<1> DEFINE gone == Withdrawn(k) \cup Failed(k)
<1>1. IsMap(calls', DOMAIN tickets, CallType)
  <2>1. calls' = [i \in Live \ gone |->
                    IF i \in MadeBy(k) THEN [calls[i] EXCEPT !.response = FALSE]
                                       ELSE calls[i]]
    BY DEF Disconnect
  <2> HIDE DEF gone
  <2>2. \A x \in Live : calls[x] \in CallType /\ x \in DOMAIN tickets
    BY DEF TypeInv, TypeOK, IsMap, Live
  <2>3. \A x \in Live : [calls[x] EXCEPT !.response = FALSE] \in CallType
    BY <2>2 DEF CallType
  <2> QED
    BY <2>1, <2>2, <2>3 DEF IsMap
<1>2. IsMap(tickets', Ids, TicketType) /\ DOMAIN tickets' = DOMAIN tickets
  <2>1. tickets' = [i \in DOMAIN tickets |->
                      IF i \in MadeBy(k) THEN Responded({i}, "closed")[i]
                                         ELSE Responded(Failed(k), "unavailable")[i]]
    BY DEF Disconnect
  <2>2. IsMap(tickets, Ids, TicketType) /\ "closed" \in Replies /\ "unavailable" \in Replies
    BY DEF TypeInv, TypeOK, Replies
  <2>3. \A i \in DOMAIN tickets : /\ Responded({i}, "closed")[i] \in TicketType
                                  /\ Responded(Failed(k), "unavailable")[i] \in TicketType
    BY <2>2, RespondedType DEF IsMap
  <2> QED
    BY <2>1, <2>2, <2>3 DEF IsMap
<1>3. /\ workers' = Omit(workers, {k})
      /\ IsMap(workers', Servers, WorkerType)
      /\ DOMAIN workers' = DOMAIN workers \ {k}
      /\ \A w \in DOMAIN workers \ {k} : workers'[w] = workers[w]
  <2>1. workers' = Omit(workers, {k})
    BY DEF Disconnect
  <2>2. IsMap(workers', Servers, WorkerType)
    BY <2>1, OmitType DEF TypeInv, TypeOK
  <2> QED
    BY <2>1, <2>2, OmitProperties
<1>4. /\ IsMap(routes', Routes, RouteType)
      /\ DOMAIN routes' = IF LastWorker(k) THEN DOMAIN routes \ {workers[k].route}
                                           ELSE DOMAIN routes
      /\ \A r \in DOMAIN routes' : routes'[r].workers = routes[r].workers \ {k}
  BY RoutesWithoutFacts DEF Disconnect
<1>5. takes' \in [Takers -> TakeType]
  BY NotifiedType DEF Disconnect, TypeInv, TypeOK
<1>6. TypeOK'
  BY <1>1, <1>2, <1>3, <1>4, <1>5 DEF Disconnect, TypeInv, TypeOK
<1>7. RoutesServed'
  <2>1. ASSUME NEW r \in DOMAIN routes'
        PROVE  /\ routes'[r].workers # {}
               /\ \A w \in routes'[r].workers : w \in DOMAIN workers' /\ workers'[w].route = r
    <3>1. /\ r \in DOMAIN routes
          /\ routes'[r].workers = routes[r].workers \ {k}
          /\ routes[r].workers # {}
          /\ \A w \in routes[r].workers : w \in DOMAIN workers /\ workers[w].route = r
      BY <1>4 DEF TypeInv, RoutesServed
    <3>2. routes'[r].workers # {}
      <4>1. CASE k \in routes[r].workers
        BY <1>4, <3>1, <4>1 DEF LastWorker
      <4> QED
        BY <3>1, <4>1
    <3> QED
      BY <1>3, <3>1, <3>2
  <2>2. ASSUME NEW w \in DOMAIN workers'
        PROVE  workers'[w].route \in DOMAIN routes' /\ w \in routes'[workers'[w].route].workers
    <3>1. /\ w \in DOMAIN workers \ {k}
          /\ workers'[w] = workers[w]
          /\ workers[w].route \in DOMAIN routes
          /\ w \in routes[workers[w].route].workers
      BY <1>3 DEF TypeInv, RoutesServed
    <3>2. workers[w].route \in DOMAIN routes'
      BY <1>4, <3>1 DEF LastWorker
    <3> QED
      BY <1>4, <3>1, <3>2
  <2> QED
    BY <2>1, <2>2 DEF RoutesServed
<1> QED
  BY <1>6, <1>7 DEF TypeInv

\* expire_queued on one route.
LEMMA OverdueExpiredType ==
  ASSUME TypeInv, NEW r \in DOMAIN routes, OverdueExpired(r)
  PROVE  /\ IsMap(calls', DOMAIN tickets, CallType)
         /\ IsMap(routes', Routes, RouteType)
         /\ SameRoutes
         /\ IsMap(tickets', Ids, TicketType)
         /\ DOMAIN tickets' = DOMAIN tickets
<1>1. IsMap(calls', DOMAIN tickets, CallType)
  BY OmitType DEF OverdueExpired, TypeInv, TypeOK
<1>2. Without(routes[r].queue, Overdue(r)) \in Seq(Ids)
  BY QueueType DEF TypeInv, TypeOK, Queue
<1>3. IsMap(routes', Routes, RouteType) /\ SameRoutes
  BY <1>2, QueueStepType DEF OverdueExpired
<1>4. "deadline" \in Replies
  BY DEF Replies
<1> QED
  BY <1>1, <1>3, <1>4, RespondedType DEF OverdueExpired, TypeInv, TypeOK

\* A request that is queued keeps the types.
LEMMA TypeInvRequest ==
  ASSUME TypeInv, NEW k \in Callers, NEW r \in Routes, NEW b \in Costs, Request(k, r, b)
  PROVE  TypeInv'
<1> DEFINE call   == [caller |-> k, route |-> r, owner |-> None,
                      response |-> TRUE, retained_bytes |-> b]
           ticket == [caller |-> k, pc |-> "waiting", reply |-> "none"]
<1>1. call \in CallType /\ ticket \in TicketType
  BY DEF CallType, TicketType, TicketPcs, Replies
<1>2. /\ r \in DOMAIN routes
      /\ next_id \in Ids
      /\ next_id' = next_id + 1
      /\ next_id' \in 1 .. LastId
      /\ 1 .. next_id' - 1 = (1 .. next_id - 1) \cup {next_id}
  BY LimitAssumption DEF Request, Fits, NextId, TypeInv, TypeOK, Ids
<1>3. IsMap(tickets', Ids, TicketType) /\ DOMAIN tickets' = DOMAIN tickets \cup {next_id}
  <2>1. tickets' = Put(Responded(Overdue(r), "deadline"), next_id, ticket)
    BY DEF Request
  <2>2. /\ IsMap(Responded(Overdue(r), "deadline"), Ids, TicketType)
        /\ DOMAIN Responded(Overdue(r), "deadline") = DOMAIN tickets
    <3>1. "deadline" \in Replies
      BY DEF Replies
    <3> QED
      BY <3>1, RespondedType DEF TypeInv, TypeOK
  <2> HIDE DEF ticket
  <2> QED
    BY <1>1, <1>2, <2>1, <2>2, PutType DEF Put
<1>4. IsMap(calls', DOMAIN tickets', CallType)
  <2>1. calls' = Put(Omit(calls, Overdue(r)), next_id, call)
    BY DEF Request
  <2>2. IsMap(Omit(calls, Overdue(r)), DOMAIN tickets', CallType)
    <3>1. IsMap(Omit(calls, Overdue(r)), DOMAIN tickets, CallType)
      BY OmitType DEF TypeInv, TypeOK
    <3> QED
      BY <1>3, <3>1 DEF IsMap
  <2> HIDE DEF call
  <2> QED
    BY <1>1, <1>3, <2>1, <2>2, PutType
<1>5. IsMap(routes', Routes, RouteType) /\ SameRoutes
  <2>1. Enqueue(Without(routes[r].queue, Overdue(r)), next_id) \in Seq(Ids)
    BY <1>2, QueueType, EnqueueProperties DEF TypeInv, TypeOK, Queue
  <2> QED
    BY <1>2, <2>1, QueueStepType DEF Request
<1>6. takes' \in [Takers -> TakeType]
  BY NotifiedType DEF Request, TypeInv, TypeOK
<1>7. TypeOK'
  BY <1>2, <1>3, <1>4, <1>5, <1>6 DEF Request, TypeInv, TypeOK
<1>8. RoutesServed'
  BY <1>5, SameKeepsRoutesServed DEF SameWorkers, Request, TypeInv
<1> QED
  BY <1>7, <1>8 DEF TypeInv

\* A request that is refused keeps the types.
LEMMA TypeInvRequestOverloaded ==
  ASSUME TypeInv, NEW k \in Callers, NEW r \in Routes, NEW b \in Costs,
         RequestOverloaded(k, r, b)
  PROVE  TypeInv'
<1>1. /\ IsMap(calls', DOMAIN tickets, CallType)
      /\ IsMap(routes', Routes, RouteType)
      /\ SameRoutes
      /\ IsMap(tickets', Ids, TicketType)
      /\ DOMAIN tickets' = DOMAIN tickets
  BY OverdueExpiredType DEF RequestOverloaded
<1>2. TypeOK'
  BY <1>1 DEF RequestOverloaded, TypeInv, TypeOK
<1>3. RoutesServed'
  BY <1>1, SameKeepsRoutesServed DEF SameWorkers, RequestOverloaded, TypeInv
<1> QED
  BY <1>2, <1>3 DEF TypeInv

\* Moving a take changes nothing else.
LEMMA TakeAtType ==
  ASSUME TypeInv, NEW t \in Takers, NEW pc \in TakePcs, TakeAt(t, pc)
  PROVE  takes' \in [Takers -> TakeType]
BY DEF TakeAt, TypeInv, TypeOK, TakeType

\* A take that only moves keeps the types.
LEMMA TypeInvTakeMove ==
  ASSUME TypeInv, UNCHANGED <<state, late, retired, tickets>>,
         takes' \in [Takers -> TakeType]
  PROVE  TypeInv'
BY DEF TypeInv, TypeOK, RoutesServed, state, Live, IsMap

\* Changing the counters of one worker keeps its route.
LEMMA WorkerStepType ==
  ASSUME TypeInv, NEW w \in Servers, NEW job \in WorkerType,
         w \in DOMAIN workers => job.route = workers[w].route,
         workers' = [workers EXCEPT ![w] = job]
  PROVE  IsMap(workers', Servers, WorkerType) /\ SameWorkers
BY DEF SameWorkers, TypeInv, TypeOK, IsMap, WorkerType

\* A take that begins keeps the types.
LEMMA TypeInvTakeEnter ==
  ASSUME TypeInv, NEW t \in Takers, TakeEnter(t)
  PROVE  TypeInv'
<1>1. t[1] \in Servers /\ t[1] \in DOMAIN workers /\ workers[t[1]] \in WorkerType
  BY WorkerRoute DEF TakeEnter, Takers
<1>2. IsMap(workers', Servers, WorkerType) /\ SameWorkers
  <2> DEFINE job == [workers[t[1]] EXCEPT !.pending_takes = @ + 1]
  <2>1. job \in WorkerType /\ job.route = workers[t[1]].route
    BY <1>1 DEF WorkerType
  <2>2. workers' = [workers EXCEPT ![t[1]] = job]
    BY DEF TakeEnter
  <2> HIDE DEF job
  <2> QED
    BY <1>1, <2>1, <2>2, WorkerStepType
<1>3. takes' \in [Takers -> TakeType]
  BY TakeAtType DEF TakeEnter, TakePcs
<1>4. TypeOK'
  BY <1>2, <1>3 DEF TakeEnter, TypeInv, TypeOK, Live
<1>5. SameRoutes
  BY DEF TakeEnter, SameRoutes
<1> QED
  BY <1>2, <1>4, <1>5, SameKeepsRoutesServed DEF TypeInv

\* A take that ends keeps the types.
LEMMA TypeInvTakeLeave ==
  ASSUME TypeInv, NEW t \in Takers, TakeLeave(t)
  PROVE  TypeInv'
<1>1. IsMap(workers', Servers, WorkerType) /\ SameWorkers
  <2>1. CASE t[1] \in DOMAIN workers
    <3>1. t[1] \in Servers /\ workers[t[1]] \in WorkerType
      BY <2>1, WorkerRoute DEF Takers
    <3> DEFINE job == [workers[t[1]] EXCEPT !.pending_takes = IF @ > 0 THEN @ - 1 ELSE 0]
    <3>2. job \in WorkerType /\ job.route = workers[t[1]].route
      BY <3>1 DEF WorkerType
    <3>3. workers' = [workers EXCEPT ![t[1]] = job]
      BY <2>1 DEF TakeLeave
    <3> HIDE DEF job
    <3> QED
      BY <3>1, <3>2, <3>3, WorkerStepType
  <2>2. CASE t[1] \notin DOMAIN workers
    BY <2>2 DEF TakeLeave, TypeInv, TypeOK, SameWorkers
  <2> QED
    BY <2>1, <2>2
<1>2. takes' \in [Takers -> TakeType]
  BY DEF TakeLeave, TypeInv, TypeOK, TakeType, TakePcs
<1>3. TypeOK'
  BY <1>1, <1>2 DEF TakeLeave, TypeInv, TypeOK, Live
<1>4. SameRoutes
  BY DEF TakeLeave, SameRoutes
<1> QED
  BY <1>1, <1>3, <1>4, SameKeepsRoutesServed DEF TypeInv

\* What a take is offered is a queue of ids of its route.
LEMMA OfferedType ==
  ASSUME TypeInv, NEW w \in DOMAIN workers
  PROVE  /\ Offered(w) \in Seq(Ids)
         /\ Offered(w) # <<>> => Head(Offered(w)) \in Ids /\ Popped(w) \in Seq(Ids)
<1>1. Offered(w) \in Seq(Ids)
  BY WorkerRoute, QueueType DEF Offered, TypeInv, TypeOK
<1> QED
  BY <1>1, PopProperties DEF Popped

\* A take that finds nothing keeps the types.
LEMMA TypeInvTakeEmpty ==
  ASSUME TypeInv, NEW t \in Takers, TakeEmpty(t)
  PROVE  TypeInv'
<1>1. workers[t[1]].route \in DOMAIN routes
  BY WorkerRoute DEF TakeEmpty
<1>2. /\ IsMap(calls', DOMAIN tickets, CallType)
      /\ IsMap(routes', Routes, RouteType)
      /\ SameRoutes
      /\ IsMap(tickets', Ids, TicketType)
      /\ DOMAIN tickets' = DOMAIN tickets
  BY <1>1, OverdueExpiredType DEF TakeEmpty
<1>3. takes' \in [Takers -> TakeType]
  BY TakeAtType DEF TakeEmpty, TakePcs
<1>4. TypeOK'
  BY <1>2, <1>3 DEF TakeEmpty, TypeInv, TypeOK
<1> QED
  BY <1>2, <1>4, SameKeepsRoutesServed DEF SameWorkers, TakeEmpty, TypeInv

\* A take whose job has lapsed keeps the types.
LEMMA TypeInvTakeLapsed ==
  ASSUME TypeInv, NEW t \in Takers, TakeLapsed(t)
  PROVE  TypeInv'
<1> DEFINE r    == workers[t[1]].route
           head == Head(Offered(t[1]))
           gone == Overdue(r) \cup {head}
<1>1. t[1] \in DOMAIN workers /\ r \in DOMAIN routes
  BY WorkerRoute DEF TakeLapsed
<1>2. head \in Ids /\ Popped(t[1]) \in Seq(Ids)
  BY <1>1, OfferedType DEF TakeLapsed
<1>3. IsMap(calls', DOMAIN tickets, CallType)
  <2>1. calls' = Omit(calls, gone)
    BY DEF TakeLapsed
  <2> QED
    BY <2>1, OmitType DEF TypeInv, TypeOK
<1>4. IsMap(routes', Routes, RouteType) /\ SameRoutes
  <2>1. routes' = [routes EXCEPT ![r].queue = Popped(t[1])]
    BY DEF TakeLapsed
  <2> HIDE DEF r
  <2> QED
    BY <1>1, <1>2, <2>1, QueueStepType
<1>5. IsMap(tickets', Ids, TicketType) /\ DOMAIN tickets' = DOMAIN tickets
  <2>1. tickets' = Responded(gone, "deadline") /\ "deadline" \in Replies
    BY DEF TakeLapsed, Replies
  <2> QED
    BY <2>1, RespondedType DEF TypeInv, TypeOK
<1>6. late' \subseteq Ids
  BY <1>2 DEF TakeLapsed, TypeInv, TypeOK
<1>7. TypeOK'
  BY <1>3, <1>4, <1>5, <1>6 DEF TakeLapsed, TypeInv, TypeOK
<1> QED
  BY <1>4, <1>7, SameKeepsRoutesServed DEF SameWorkers, TakeLapsed, TypeInv

\* A take that gets a job keeps the types.
LEMMA TypeInvTakeJob ==
  ASSUME TypeInv, NEW t \in Takers, TakeJob(t)
  PROVE  TypeInv'
<1> DEFINE w    == t[1]
           r    == workers[w].route
           head == Head(Offered(w))
           gone == Overdue(r)
<1>1. w \in DOMAIN workers /\ w \in Servers /\ workers[w] \in WorkerType /\ r \in DOMAIN routes
  BY WorkerRoute DEF TakeJob, Takers
<1>2. head \in Ids /\ Popped(w) \in Seq(Ids)
  BY <1>1, OfferedType DEF TakeJob
<1>3. IsMap(calls', DOMAIN tickets, CallType)
  <2> DEFINE left == Omit(calls, gone)
  <2>1. calls' = [left EXCEPT ![head].owner = w]
    BY DEF TakeJob
  <2>2. IsMap(left, DOMAIN tickets, CallType)
    BY OmitType DEF TypeInv, TypeOK
  <2> HIDE DEF left, head, w
  <2>3. \A x \in DOMAIN left : left[x] \in CallType /\ [left[x] EXCEPT !.owner = w] \in CallType
    BY <1>1, <2>2 DEF IsMap, CallType
  <2> QED
    BY <2>1, <2>2, <2>3 DEF IsMap
<1>4. IsMap(routes', Routes, RouteType) /\ SameRoutes
  <2>1. routes' = [routes EXCEPT ![r].queue = Popped(w)]
    BY DEF TakeJob
  <2> HIDE DEF r
  <2> QED
    BY <1>1, <1>2, <2>1, QueueStepType
<1>5. IsMap(tickets', Ids, TicketType) /\ DOMAIN tickets' = DOMAIN tickets
  <2>1. tickets' = Responded(gone, "deadline") /\ "deadline" \in Replies
    BY DEF TakeJob, Replies
  <2> QED
    BY <2>1, RespondedType DEF TypeInv, TypeOK
<1>6. IsMap(workers', Servers, WorkerType) /\ SameWorkers
  <2> DEFINE job == [workers[w] EXCEPT !.running = @ + 1]
  <2>1. job \in WorkerType /\ job.route = workers[w].route
    BY <1>1 DEF WorkerType
  <2>2. workers' = [workers EXCEPT ![w] = job]
    BY DEF TakeJob
  <2> HIDE DEF job, w
  <2> QED
    BY <1>1, <2>1, <2>2, WorkerStepType
<1>7. takes' \in [Takers -> TakeType]
  BY TakeAtType DEF TakeJob, TakePcs
<1>8. TypeOK'
  BY <1>3, <1>4, <1>5, <1>6, <1>7 DEF TakeJob, TypeInv, TypeOK
<1> QED
  BY <1>4, <1>6, <1>8, SameKeepsRoutesServed DEF TypeInv

\* A completion keeps the types.
LEMMA TypeInvComplete ==
  ASSUME TypeInv, NEW w \in Servers, NEW i \in Live, NEW failed \in BOOLEAN,
         Complete(w, i, failed)
  PROVE  TypeInv'
<1>1. w \in DOMAIN workers /\ workers[w] \in WorkerType
  BY WorkerRoute DEF Complete
<1>2. IsMap(calls', DOMAIN tickets, CallType)
  BY OmitType DEF Complete, TypeInv, TypeOK
<1>3. IsMap(tickets', Ids, TicketType) /\ DOMAIN tickets' = DOMAIN tickets
  <2>1. Outcome(i, failed) \in Replies
    BY DEF Outcome, Replies
  <2> QED
    BY <2>1, RespondedType DEF Complete, TypeInv, TypeOK
<1>4. IsMap(workers', Servers, WorkerType) /\ SameWorkers
  <2> DEFINE job == [workers[w] EXCEPT !.running = IF @ > 0 THEN @ - 1 ELSE 0]
  <2>1. job \in WorkerType /\ job.route = workers[w].route
    BY <1>1 DEF WorkerType
  <2>2. workers' = [workers EXCEPT ![w] = job]
    BY DEF Complete, SlotFreed
  <2> HIDE DEF job
  <2> QED
    BY <2>1, <2>2, WorkerStepType
<1>5. takes' \in [Takers -> TakeType]
  BY NotifiedType DEF Complete, TypeInv, TypeOK
<1>6. TypeOK'
  BY <1>2, <1>3, <1>4, <1>5 DEF Complete, TypeInv, TypeOK
<1>7. SameRoutes
  BY DEF Complete, SameRoutes
<1> QED
  BY <1>4, <1>6, <1>7, SameKeepsRoutesServed DEF TypeInv

\* Moving a ticket changes nothing else.
LEMMA TicketAtType ==
  ASSUME TypeInv, NEW i, NEW pc \in TicketPcs, NEW reply \in Replies,
         TicketAt(i, pc, reply)
  PROVE  IsMap(tickets', Ids, TicketType) /\ DOMAIN tickets' = DOMAIN tickets
BY DEF TicketAt, TypeInv, TypeOK, IsMap, TicketType

\* What a caller does with its ticket keeps the types.
LEMMA TypeInvTicketStep ==
  ASSUME TypeInv, NEW i \in DOMAIN tickets, TicketStep(i)
  PROVE  TypeInv'
<1> USE DEF TicketPcs, Replies
<1>1. tickets[i].reply \in Replies
  BY DEF TypeInv, TypeOK, IsMap, TicketType
<1>2. CASE \/ TicketReceive(i) \/ TicketElapsed(i) \/ TicketAborted(i)
  <2>1. /\ IsMap(tickets', Ids, TicketType)
        /\ DOMAIN tickets' = DOMAIN tickets
        /\ UNCHANGED <<state, late, retired, takes>>
    BY <1>1, <1>2, TicketAtType DEF TicketReceive, TicketElapsed, TicketAborted
  <2> QED
    BY <2>1 DEF TypeInv, TypeOK, RoutesServed, state, Live
<1>3. CASE TicketExpire(i) \/ TicketDrop(i)
  <2>1. /\ IsMap(tickets', Ids, TicketType)
        /\ DOMAIN tickets' = DOMAIN tickets
    BY <1>1, <1>3, TicketAtType DEF TicketExpire, TicketDrop
  <2>2. /\ ResponseTaken(i)
        /\ UNCHANGED <<connections, workers, next_id, late, retired, takes>>
    BY <1>3 DEF TicketExpire, TicketDrop
  <2>3. /\ IsMap(calls', DOMAIN tickets, CallType)
        /\ IsMap(routes', Routes, RouteType)
        /\ SameRoutes
    BY <2>2, ResponseTakenType
  <2>4. TypeOK'
    BY <2>1, <2>2, <2>3 DEF TypeInv, TypeOK
  <2> QED
    BY <2>2, <2>3, <2>4, SameKeepsRoutesServed DEF SameWorkers, TypeInv
<1> QED
  BY <1>2, <1>3 DEF TicketStep, TicketRuns

\* Every step of a take keeps the types.
LEMMA TypeInvTakeStep ==
  ASSUME TypeInv, NEW t \in Takers, TakeStep(t)
  PROVE  TypeInv'
<1>1. CASE TakeEnter(t)
  BY <1>1, TypeInvTakeEnter
<1>2. CASE TakeArm(t)
  <2>1. takes' \in [Takers -> TakeType]
    BY <1>2 DEF TakeArm, TypeInv, TypeOK, TakeType, TakePcs
  <2> QED
    BY <1>2, <2>1, TypeInvTakeMove DEF TakeArm
<1>3. CASE TakeUnauthorized(t) \/ TakeNoSlot(t) \/ TakeAwait(t) \/ TakeElapsed(t) \/ TakeAborted(t)
  <2>1. takes' \in [Takers -> TakeType] /\ UNCHANGED <<state, late, retired, tickets>>
    BY <1>3, TakeAtType
    DEF TakeUnauthorized, TakeNoSlot, TakeAwait, TakeElapsed, TakeAborted, TakePcs
  <2> QED
    BY <2>1, TypeInvTakeMove
<1>4. CASE TakeEmpty(t)
  BY <1>4, TypeInvTakeEmpty
<1>5. CASE TakeLapsed(t)
  BY <1>5, TypeInvTakeLapsed
<1>6. CASE TakeJob(t)
  BY <1>6, TypeInvTakeJob
<1>7. CASE TakeLeave(t)
  BY <1>7, TypeInvTakeLeave
<1> QED
  BY <1>1, <1>2, <1>3, <1>4, <1>5, <1>6, <1>7 DEF TakeStep, TakeRuns

\* Every step keeps the types.
LEMMA TypeInvNext == TypeInv /\ [Next]_vars => TypeInv'
<1> SUFFICES ASSUME TypeInv, [Next]_vars PROVE TypeInv'
  OBVIOUS
<1>1. CASE ConnectionStep
  <2>1. ASSUME NEW k \in Conns, Connect(k) \/ Disconnect(k)
        PROVE  TypeInv'
    BY <2>1, TypeInvConnection, TypeInvDisconnect
  <2>2. ASSUME NEW w \in Servers, NEW r \in Routes, NEW c \in Concurrencies,
               NEW l \in QueueLimits, Register(w, r, c, l)
        PROVE  TypeInv'
    BY <2>2, TypeInvRegister
  <2>3. ASSUME NEW k \in Callers, NEW r \in Routes, NEW b \in Costs,
               Request(k, r, b) \/ RequestOverloaded(k, r, b)
        PROVE  TypeInv'
    BY <2>3, TypeInvRequest, TypeInvRequestOverloaded
  <2>4. ASSUME NEW w \in Servers, NEW i \in Live, NEW failed \in BOOLEAN,
               Complete(w, i, failed)
        PROVE  TypeInv'
    BY <2>4, TypeInvComplete
  <2> QED
    BY <1>1, <2>1, <2>2, <2>3, <2>4 DEF ConnectionStep
<1>2. CASE \E t \in Takers : TakeStep(t)
  BY <1>2, TypeInvTakeStep
<1>3. ASSUME NEW i \in DOMAIN tickets, TicketStep(i) \/ DeadlinePasses(i)
      PROVE  TypeInv'
  <2>1. CASE TicketStep(i)
    BY <2>1, TypeInvTicketStep
  <2>2. CASE DeadlinePasses(i)
    BY <2>2 DEF DeadlinePasses, TypeInv, TypeOK, RoutesServed, state, Live, IsMap
  <2> QED
    BY <1>3, <2>1, <2>2
<1>4. CASE UNCHANGED vars
  BY <1>4 DEF vars, state, TypeInv, TypeOK, RoutesServed, Live
<1> QED
  BY <1>1, <1>2, <1>3, <1>4 DEF Next

\* Every map of the scheduler holds what its type says, whatever clients,
\* workers, timers and aborts do (struct State of rpc.rs), and a route lives
\* exactly as long as a registered worker serves it, so that disconnect never
\* unwraps a missing route (rpc.rs, Rpc::disconnect).
THEOREM TypeCorrect == Spec => []TypeInv
<1> QED
  BY TypeInvInit, TypeInvNext, PTL DEF Spec

-----------------------------------------------------------------------------
(* The queues.                                                             *)

QueueInv == TypeInv /\ QueueIntegrity

-----------------------------------------------------------------------------
(* The steps of a queue.                                                   *)

\* A step that takes the ids in "out" from every queue, and with them from the
\* map or out of the unowned calls, keeps the queues right.
LEMMA QueuesShrink ==
  ASSUME QueueIntegrity, NEW out,
         DOMAIN calls' \subseteq Live,
         Live \ out \subseteq DOMAIN calls',
         \A i \in Live \ out : /\ calls'[i].owner = calls[i].owner
                               /\ calls'[i].route = calls[i].route
                               /\ calls[i].owner = None => calls[i].route \in DOMAIN routes',
         \A i \in out \cap DOMAIN calls' : calls'[i].owner # None,
         \A r \in DOMAIN routes' :
           /\ r \in DOMAIN routes
           /\ Range(routes'[r].queue) = Range(Queue(r)) \ out
           /\ IsInjective(routes'[r].queue)
  PROVE  QueueIntegrity'
<1>1. \A r \in DOMAIN routes :
        /\ Range(Queue(r)) = {i \in Live : calls[i].owner = None /\ calls[i].route = r}
        /\ IsInjective(Queue(r))
  BY DEF QueueIntegrity
<1>2. ASSUME NEW r \in DOMAIN routes'
      PROVE  Range(routes'[r].queue) =
               {i \in DOMAIN calls' : calls'[i].owner = None /\ calls'[i].route = r}
  BY <1>1
<1>3. \A i \in DOMAIN calls' : calls'[i].owner = None => calls'[i].route \in DOMAIN routes'
  OBVIOUS
<1> QED
  BY <1>2, <1>3 DEF QueueIntegrity, Queue, Live

\* A step that touches neither the calls nor any queue.
LEMMA QueuesKept ==
  ASSUME QueueIntegrity, UNCHANGED calls,
         DOMAIN routes' = DOMAIN routes,
         \A r \in DOMAIN routes : routes'[r].queue = routes[r].queue
  PROVE  QueueIntegrity'
BY DEF QueueIntegrity, Queue, Live

\* Replacing one queue.
LEMMA OneQueue ==
  ASSUME TypeInv, NEW r \in DOMAIN routes, NEW q,
         routes' = [routes EXCEPT ![r].queue = q]
  PROVE  /\ DOMAIN routes' = DOMAIN routes
         /\ routes'[r].queue = q
         /\ \A x \in DOMAIN routes \ {r} : routes'[x].queue = routes[x].queue
BY DEF TypeInv, TypeOK, IsMap, RouteType

\* What stands in a queue is live, unowned and of that route only, and what
\* expire_queued removes is among it.
LEMMA QueuedCalls ==
  ASSUME QueueInv, NEW r \in DOMAIN routes
  PROVE  /\ Queue(r) \in Seq(Ids)
         /\ IsInjective(Queue(r))
         /\ \A i \in Range(Queue(r)) : i \in Live /\ calls[i].owner = None /\ calls[i].route = r
         /\ Overdue(r) \subseteq Range(Queue(r))
         /\ \A x \in DOMAIN routes \ {r} : Range(Queue(x)) \cap Range(Queue(r)) = {}
<1>1. Queue(r) \in Seq(Ids)
  BY QueueType DEF QueueInv, TypeInv, TypeOK
<1> QED
  BY <1>1 DEF QueueInv, QueueIntegrity, Overdue

\* A queue without some calls is a queue, of the others.
LEMMA QueueWithout ==
  ASSUME QueueInv, NEW r \in DOMAIN routes, NEW S
  PROVE  /\ Without(Queue(r), S) \in Seq(Ids)
         /\ Range(Without(Queue(r), S)) = Range(Queue(r)) \ S
         /\ IsInjective(Without(Queue(r), S))
BY QueuedCalls, WithoutProperties

\* One queue loses ids that stand in it.
LEMMA OneQueueShrinks ==
  ASSUME QueueInv, NEW r \in DOMAIN routes, NEW q, NEW out,
         routes' = [routes EXCEPT ![r].queue = q],
         IsInjective(q), Range(q) = Range(Queue(r)) \ out,
         out \subseteq Range(Queue(r))
  PROVE  /\ DOMAIN routes' = DOMAIN routes
         /\ \A x \in DOMAIN routes' :
              /\ x \in DOMAIN routes
              /\ Range(routes'[x].queue) = Range(Queue(x)) \ out
              /\ IsInjective(routes'[x].queue)
<1>1. /\ DOMAIN routes' = DOMAIN routes
      /\ routes'[r].queue = q
      /\ \A x \in DOMAIN routes \ {r} : routes'[x].queue = Queue(x)
  BY OneQueue DEF QueueInv, Queue
<1>2. \A x \in DOMAIN routes \ {r} :
        Range(Queue(x)) \cap Range(Queue(r)) = {} /\ IsInjective(Queue(x))
  BY QueuedCalls
<1>3. ASSUME NEW x \in DOMAIN routes \ {r}
      PROVE  Range(routes'[x].queue) = Range(Queue(x)) \ out /\ IsInjective(routes'[x].queue)
  <2>1. routes'[x].queue = Queue(x) /\ Range(Queue(x)) \cap out = {} /\ IsInjective(Queue(x))
    BY <1>1, <1>2
  <2> QED
    BY <2>1
<1> QED
  BY <1>1, <1>3

\* A live call has the fields of a call.
LEMMA LiveCall ==
  ASSUME TypeInv, NEW i \in Live
  PROVE  /\ calls[i] \in CallType
         /\ [calls[i] EXCEPT !.response = FALSE].owner = calls[i].owner
         /\ [calls[i] EXCEPT !.response = FALSE].route = calls[i].route
<1>1. calls[i] \in CallType
  BY DEF TypeInv, TypeOK, IsMap, Live
<1> QED
  BY <1>1 DEF CallType

\* The routes of unowned calls exist.
LEMMA UnownedRoute ==
  ASSUME QueueInv, NEW i \in Live, calls[i].owner = None
  PROVE  calls[i].route \in DOMAIN routes
BY DEF QueueInv, QueueIntegrity

-----------------------------------------------------------------------------
(* The actions.                                                            *)

\* The initial state has right queues: none.
LEMMA QueueInvInit == Init => QueueInv
<1> SUFFICES ASSUME Init PROVE QueueInv
  OBVIOUS
<1>1. DOMAIN Empty = {}
  BY DEF Empty
<1>2. QueueIntegrity
  BY <1>1 DEF Init, QueueIntegrity, Live
<1> QED
  BY <1>2, TypeInvInit DEF QueueInv

\* A registration adds an empty queue, or a worker to a route that has one.
LEMMA QueueRegister ==
  ASSUME QueueInv, NEW w \in Servers, NEW r \in Routes,
         NEW c \in Concurrencies, NEW l \in QueueLimits, Register(w, r, c, l)
  PROVE  QueueIntegrity'
<1>1. CASE r \in DOMAIN routes
  <2>1. routes' = [routes EXCEPT ![r].workers = @ \cup {w}] /\ UNCHANGED calls
    BY <1>1 DEF Register
  <2>2. /\ DOMAIN routes' = DOMAIN routes
        /\ \A x \in DOMAIN routes : routes'[x].queue = routes[x].queue
    BY <1>1, <2>1 DEF QueueInv, TypeInv, TypeOK, IsMap, RouteType
  <2> QED
    BY <2>1, <2>2, QueuesKept DEF QueueInv
<1>2. CASE r \notin DOMAIN routes
  <2> DEFINE new == [workers |-> {w}, queue |-> <<>>, queue_limit |-> l]
  <2>1. routes' = Put(routes, r, new) /\ UNCHANGED calls
    BY <1>2 DEF Register
  <2>2. new.queue = <<>>
    OBVIOUS
  <2> HIDE DEF new
  <2>3. /\ DOMAIN routes' = DOMAIN routes \cup {r}
        /\ routes'[r].queue = <<>>
        /\ \A x \in DOMAIN routes : routes'[x] = routes[x]
    BY <1>2, <2>1, <2>2 DEF Put
  <2>4. Range(<<>>) = {} /\ IsInjective(<<>>)
    BY DEF Range, IsInjective
  <2>5. {i \in Live : calls[i].owner = None /\ calls[i].route = r} = {}
    BY <1>2, UnownedRoute
  <2>6. \A x \in DOMAIN routes :
          /\ Range(routes'[x].queue) = {i \in Live : calls[i].owner = None /\ calls[i].route = x}
          /\ IsInjective(routes'[x].queue)
    BY <2>3 DEF QueueInv, QueueIntegrity, Queue
  <2>7. \A i \in Live : calls[i].owner = None => calls[i].route \in DOMAIN routes'
    BY <2>3, UnownedRoute
  <2> QED
    BY <2>1, <2>3, <2>4, <2>5, <2>6, <2>7 DEF QueueIntegrity, Queue, Live
<1> QED
  BY <1>1, <1>2

\* A disconnect takes the calls it removes out of their queues.
LEMMA QueueDisconnect ==
  ASSUME QueueInv, NEW k \in Conns, Disconnect(k)
  PROVE  QueueIntegrity'
<1> DEFINE out == Withdrawn(k) \cup Failed(k)
           home == workers[k].route
<1>1. /\ DOMAIN routes' = IF LastWorker(k) THEN DOMAIN routes \ {home} ELSE DOMAIN routes
      /\ \A r \in DOMAIN routes' : routes'[r].queue = Without(routes[r].queue, Withdrawn(k))
  BY RoutesWithoutFacts DEF Disconnect, QueueInv
<1>2. calls' = [i \in Live \ out |->
                  IF i \in MadeBy(k) THEN [calls[i] EXCEPT !.response = FALSE] ELSE calls[i]]
  BY DEF Disconnect
<1>3. k # None
  BY NoneAssumption
<1>4. LastWorker(k) => home \in DOMAIN routes
  BY WorkerRoute DEF LastWorker, QueueInv
<1>5. \A r \in DOMAIN routes' : Range(Queue(r)) \cap Failed(k) = {}
  <2> SUFFICES ASSUME NEW r \in DOMAIN routes', NEW i \in Range(Queue(r)), i \in Failed(k)
               PROVE  FALSE
    OBVIOUS
  <2>1. r \in DOMAIN routes
    BY <1>1
  <2>2. i \in Live /\ calls[i].owner = None /\ calls[i].route = r
    BY <2>1, QueuedCalls
  <2>3. i \in Stranded(k)
    BY <1>3, <2>2 DEF Failed, OwnedBy
  <2>4. LastWorker(k) /\ i \in Range(Queue(home))
    BY <2>3 DEF Stranded
  <2>5. calls[i].route = home
    BY <1>4, <2>4, QueuedCalls
  <2> QED
    BY <1>1, <2>2, <2>4, <2>5
<1>6. ASSUME NEW r \in DOMAIN routes'
      PROVE  /\ r \in DOMAIN routes
             /\ Range(routes'[r].queue) = Range(Queue(r)) \ out
             /\ IsInjective(routes'[r].queue)
  <2>1. r \in DOMAIN routes /\ routes'[r].queue = Without(Queue(r), Withdrawn(k))
    BY <1>1 DEF Queue
  <2>2. /\ Range(routes'[r].queue) = Range(Queue(r)) \ Withdrawn(k)
        /\ IsInjective(routes'[r].queue)
    BY <2>1, QueueWithout
  <2> QED
    BY <1>5, <2>1, <2>2
<1>7. ASSUME NEW i \in Live \ out, calls[i].owner = None
      PROVE  calls[i].route \in DOMAIN routes'
  <2>1. calls[i].route \in DOMAIN routes
    BY <1>7, UnownedRoute
  <2>2. CASE LastWorker(k) /\ calls[i].route = home
    <3>1. i \in Range(Queue(home))
      BY <1>4, <1>7, <2>2 DEF QueueInv, QueueIntegrity
    <3>2. i \in Stranded(k)
      BY <2>2, <3>1 DEF Stranded
    <3> QED
      BY <1>7, <3>2 DEF Failed
  <2> QED
    BY <1>1, <2>1, <2>2
<1> HIDE DEF out
<1>8. \A i \in Live \ out : calls'[i].owner = calls[i].owner /\ calls'[i].route = calls[i].route
  BY <1>2, LiveCall DEF QueueInv
<1>9. DOMAIN calls' = Live \ out
  BY <1>2
<1> QED
  BY <1>6, <1>7, <1>8, <1>9, QueuesShrink DEF QueueInv

\* Overdue calls leave their queue and the table together.
LEMMA QueueOverdueExpired ==
  ASSUME QueueInv, NEW r \in DOMAIN routes, OverdueExpired(r)
  PROVE  QueueIntegrity'
<1> DEFINE out == Overdue(r)
           q   == Without(Queue(r), out)
<1>1. out \subseteq Range(Queue(r)) /\ Range(q) = Range(Queue(r)) \ out /\ IsInjective(q)
  BY QueuedCalls, QueueWithout
<1>2. routes' = [routes EXCEPT ![r].queue = q]
  BY DEF OverdueExpired, Queue
<1>3. DOMAIN calls' = Live \ out /\ \A i \in Live \ out : calls'[i] = calls[i]
  BY DEF OverdueExpired, Omit, Restrict, Live
<1> HIDE DEF q, out
<1>4. /\ DOMAIN routes' = DOMAIN routes
      /\ \A x \in DOMAIN routes' :
           /\ x \in DOMAIN routes
           /\ Range(routes'[x].queue) = Range(Queue(x)) \ out
           /\ IsInjective(routes'[x].queue)
  BY <1>1, <1>2, OneQueueShrinks
<1> QED
  BY <1>3, <1>4, UnownedRoute, QueuesShrink DEF QueueInv

\* A request queues its call, once.
LEMMA QueueRequest ==
  ASSUME QueueInv, NEW k \in Callers, NEW r \in Routes, NEW b \in Costs, Request(k, r, b)
  PROVE  QueueIntegrity'
<1> DEFINE call == [caller |-> k, route |-> r, owner |-> None,
                    response |-> TRUE, retained_bytes |-> b]
           out  == Overdue(r)
           q    == Without(Queue(r), out)
<1>1. /\ r \in DOMAIN routes
      /\ calls' = Put(Omit(calls, out), next_id, call)
      /\ routes' = [routes EXCEPT ![r].queue = Enqueue(q, next_id)]
  BY DEF Request, Queue
<1>2. next_id \in Ids /\ next_id \notin Live
  BY LimitAssumption DEF Request, Fits, QueueInv, TypeInv, TypeOK, Ids, IsMap, Live
<1>3. /\ q \in Seq(Ids)
      /\ Range(q) = Range(Queue(r)) \ out
      /\ IsInjective(q)
      /\ Range(Queue(r)) = {i \in Live : calls[i].owner = None /\ calls[i].route = r}
      /\ out \subseteq Range(Queue(r))
  BY <1>1, QueuedCalls, QueueWithout DEF QueueInv, QueueIntegrity
<1>4. /\ Range(Enqueue(q, next_id)) = Range(q) \cup {next_id}
      /\ IsInjective(Enqueue(q, next_id))
  <2>1. next_id \notin Range(q)
    BY <1>2, <1>3
  <2> HIDE DEF q
  <2> QED
    BY <1>2, <1>3, <2>1, EnqueueProperties
<1>5. call.owner = None /\ call.route = r
  OBVIOUS
<1> HIDE DEF call, q, out
<1>6. /\ DOMAIN calls' = (Live \ out) \cup {next_id}
      /\ calls'[next_id] = call
      /\ \A i \in Live \ out : calls'[i] = calls[i]
  BY <1>1, <1>2 DEF Put, Omit, Restrict, Live
<1>7. /\ DOMAIN routes' = DOMAIN routes
      /\ routes'[r].queue = Enqueue(q, next_id)
      /\ \A x \in DOMAIN routes \ {r} : routes'[x].queue = Queue(x)
  BY <1>1, OneQueue DEF QueueInv, Queue
<1>8. Range(routes'[r].queue) =
        {i \in DOMAIN calls' : calls'[i].owner = None /\ calls'[i].route = r}
  BY <1>3, <1>4, <1>5, <1>6, <1>7
<1>9. ASSUME NEW x \in DOMAIN routes \ {r}
      PROVE  /\ Range(routes'[x].queue) =
                  {i \in DOMAIN calls' : calls'[i].owner = None /\ calls'[i].route = x}
             /\ IsInjective(routes'[x].queue)
  <2>1. /\ Range(Queue(x)) = {i \in Live : calls[i].owner = None /\ calls[i].route = x}
        /\ IsInjective(Queue(x))
    BY DEF QueueInv, QueueIntegrity
  <2>2. \A i \in out : calls[i].route # x
    BY <1>3
  <2>3. \A i : i \in DOMAIN calls' /\ calls'[i].owner = None /\ calls'[i].route = x
               <=> i \in Live /\ calls[i].owner = None /\ calls[i].route = x
    BY <1>2, <1>5, <1>6, <2>2
  <2> QED
    BY <1>7, <2>1, <2>3
<1>10. \A i \in DOMAIN calls' : calls'[i].owner = None => calls'[i].route \in DOMAIN routes'
  BY <1>1, <1>5, <1>6, <1>7, UnownedRoute
<1> QED
  BY <1>4, <1>7, <1>8, <1>9, <1>10 DEF QueueIntegrity, Queue, Live

\* What try_take offers is the queue without the overdue calls, and its head is
\* a live unowned call of the worker's route.
LEMMA OfferedCalls ==
  ASSUME QueueInv, NEW w \in DOMAIN workers, Offered(w) # <<>>,
         NEW r, r = workers[w].route
  PROVE  /\ r \in DOMAIN routes
         /\ Head(Offered(w)) \in Range(Queue(r)) \ Overdue(r)
         /\ Range(Popped(w)) = Range(Queue(r)) \ (Overdue(r) \cup {Head(Offered(w))})
         /\ IsInjective(Popped(w))
<1>1. r \in DOMAIN routes
  BY WorkerRoute DEF QueueInv
<1>2. /\ Offered(w) \in Seq(Ids)
      /\ Range(Offered(w)) = Range(Queue(r)) \ Overdue(r)
      /\ IsInjective(Offered(w))
  BY <1>1, QueueWithout DEF Offered
<1>3. /\ Head(Offered(w)) \in Range(Offered(w))
      /\ IsInjective(Popped(w))
      /\ Range(Popped(w)) = Range(Offered(w)) \ {Head(Offered(w))}
  BY <1>2, PopProperties DEF Popped
<1> QED
  BY <1>1, <1>2, <1>3

\* A take whose job has lapsed leaves right queues.
LEMMA QueueTakeLapsed ==
  ASSUME QueueInv, NEW t \in Takers, TakeLapsed(t)
  PROVE  QueueIntegrity'
<1> DEFINE w    == t[1]
           r    == workers[w].route
           head == Head(Offered(w))
           out  == Overdue(r) \cup {head}
<1>1. /\ w \in DOMAIN workers /\ Offered(w) # <<>>
      /\ calls' = Omit(calls, out)
      /\ routes' = [routes EXCEPT ![r].queue = Popped(w)]
  BY DEF TakeLapsed
<1>2. /\ r \in DOMAIN routes
      /\ head \in Range(Queue(r))
      /\ Range(Popped(w)) = Range(Queue(r)) \ out
      /\ IsInjective(Popped(w))
  BY <1>1, OfferedCalls
<1>3. out \subseteq Range(Queue(r))
  BY <1>2, QueuedCalls
<1> HIDE DEF out, r, w
<1>4. /\ DOMAIN routes' = DOMAIN routes
      /\ \A x \in DOMAIN routes' :
           /\ x \in DOMAIN routes
           /\ Range(routes'[x].queue) = Range(Queue(x)) \ out
           /\ IsInjective(routes'[x].queue)
  BY <1>1, <1>2, <1>3, OneQueueShrinks
<1>5. DOMAIN calls' = Live \ out /\ \A i \in Live \ out : calls'[i] = calls[i]
  BY <1>1 DEF Omit, Restrict, Live
<1> QED
  BY <1>4, <1>5, UnownedRoute, QueuesShrink DEF QueueInv

\* What a dispatch does to the calls.
LEMMA DispatchedCalls ==
  ASSUME QueueInv, NEW t \in Takers, TakeJob(t),
         NEW r, r = workers[t[1]].route, NEW head, head = Head(Offered(t[1]))
  PROVE  /\ head \in Live \ Overdue(r)
         /\ calls[head].owner = None
         /\ DOMAIN calls' = Live \ Overdue(r)
         /\ calls'[head].owner = t[1]
         /\ \A i \in Live \ (Overdue(r) \cup {head}) : calls'[i] = calls[i]
<1>1. /\ t[1] \in DOMAIN workers /\ Offered(t[1]) # <<>>
      /\ calls' = [Omit(calls, Overdue(r)) EXCEPT ![head].owner = t[1]]
  BY DEF TakeJob
<1>2. head \in Range(Queue(r)) \ Overdue(r) /\ r \in DOMAIN routes
  BY <1>1, OfferedCalls
<1>3. head \in Live \ Overdue(r) /\ calls[head].owner = None
  BY <1>2, QueuedCalls
<1> DEFINE left == Omit(calls, Overdue(r))
<1>4. DOMAIN left = Live \ Overdue(r) /\ \A i \in Live \ Overdue(r) : left[i] = calls[i]
  BY DEF Omit, Restrict, Live
<1>5. left[head] \in CallType
  BY <1>3, <1>4, LiveCall DEF QueueInv
<1> HIDE DEF left
<1>6. calls' = [left EXCEPT ![head].owner = t[1]]
  BY <1>1 DEF left
<1>7. DOMAIN calls' = DOMAIN left /\ \A i \in DOMAIN left \ {head} : calls'[i] = left[i]
  BY <1>6
<1>8. calls'[head].owner = t[1]
  BY <1>3, <1>4, <1>5, <1>6 DEF CallType
<1> QED
  BY <1>3, <1>4, <1>7, <1>8

\* A job that is taken leaves its queue and gets an owner.
LEMMA QueueTakeJob ==
  ASSUME QueueInv, NEW t \in Takers, TakeJob(t)
  PROVE  QueueIntegrity'
<1> DEFINE w    == t[1]
           r    == workers[w].route
           head == Head(Offered(w))
           out  == Overdue(r) \cup {head}
<1>1. /\ w \in DOMAIN workers /\ Offered(w) # <<>>
      /\ routes' = [routes EXCEPT ![r].queue = Popped(w)]
  BY DEF TakeJob
<1>2. /\ r \in DOMAIN routes
      /\ head \in Range(Queue(r))
      /\ Range(Popped(w)) = Range(Queue(r)) \ out
      /\ IsInjective(Popped(w))
  BY <1>1, OfferedCalls
<1>3. out \subseteq Range(Queue(r))
  BY <1>2, QueuedCalls
<1>4. w # None
  BY NoneAssumption DEF Takers, Conns
<1>5. /\ DOMAIN calls' = Live \ Overdue(r)
      /\ calls'[head].owner = w
      /\ \A i \in Live \ out : calls'[i] = calls[i]
  BY DispatchedCalls
<1>6. /\ DOMAIN calls' \subseteq Live
      /\ Live \ out \subseteq DOMAIN calls'
      /\ \A i \in out \cap DOMAIN calls' : calls'[i].owner # None
  BY <1>4, <1>5
<1> HIDE DEF out, r, w
<1>7. /\ DOMAIN routes' = DOMAIN routes
      /\ \A x \in DOMAIN routes' :
           /\ x \in DOMAIN routes
           /\ Range(routes'[x].queue) = Range(Queue(x)) \ out
           /\ IsInjective(routes'[x].queue)
  BY <1>1, <1>2, <1>3, OneQueueShrinks
<1> QED
  BY <1>5, <1>6, <1>7, UnownedRoute, QueuesShrink DEF QueueInv

\* A completed call was in no queue.
LEMMA QueueComplete ==
  ASSUME QueueInv, NEW w \in Servers, NEW i \in Live, NEW failed \in BOOLEAN,
         Complete(w, i, failed)
  PROVE  QueueIntegrity'
<1>1. calls[i].owner # None
  BY NoneAssumption DEF Complete, Conns
<1>2. DOMAIN calls' = Live \ {i} /\ \A x \in Live \ {i} : calls'[x] = calls[x]
  BY DEF Complete, Omit, Restrict, Live
<1>3. ASSUME NEW r \in DOMAIN routes
      PROVE  Range(routes'[r].queue) = Range(Queue(r)) \ {i} /\ IsInjective(routes'[r].queue)
  <2>1. routes'[r].queue = Queue(r)
    BY DEF Complete, Queue
  <2>2. i \notin Range(Queue(r)) /\ IsInjective(Queue(r))
    BY <1>1, QueuedCalls
  <2> QED
    BY <2>1, <2>2
<1>4. routes' = routes
  BY DEF Complete
<1> QED
  BY <1>2, <1>3, <1>4, UnownedRoute, QueuesShrink DEF QueueInv

\* A call withdrawn by its caller leaves its queue.
LEMMA QueueResponseTaken ==
  ASSUME QueueInv, NEW i, ResponseTaken(i)
  PROVE  QueueIntegrity'
<1> DEFINE out == Unowned({i} \cap Live)
<1>1. /\ calls' = [x \in Live \ out |->
                     IF x = i THEN [calls[x] EXCEPT !.response = FALSE] ELSE calls[x]]
      /\ routes' = [r \in DOMAIN routes |-> [routes[r] EXCEPT !.queue = Without(@, out)]]
  BY DEF ResponseTaken
<1> HIDE DEF out
<1>2. /\ DOMAIN calls' = Live \ out
      /\ \A x \in Live \ out : calls'[x].owner = calls[x].owner /\ calls'[x].route = calls[x].route
  BY <1>1, LiveCall DEF QueueInv
<1>3. ASSUME NEW r \in DOMAIN routes
      PROVE  Range(routes'[r].queue) = Range(Queue(r)) \ out /\ IsInjective(routes'[r].queue)
  <2>1. routes'[r].queue = Without(Queue(r), out)
    BY <1>1 DEF Queue, QueueInv, TypeInv, TypeOK, IsMap, RouteType
  <2> QED
    BY <2>1, QueueWithout
<1>4. DOMAIN routes' = DOMAIN routes
  BY <1>1
<1> QED
  BY <1>2, <1>3, <1>4, UnownedRoute, QueuesShrink DEF QueueInv

\* Every step of a take leaves right queues.
LEMMA QueueTakeStep ==
  ASSUME QueueInv, NEW t \in Takers, TakeStep(t)
  PROVE  QueueIntegrity'
<1>1. CASE TakeEmpty(t)
  <2>1. workers[t[1]].route \in DOMAIN routes /\ OverdueExpired(workers[t[1]].route)
    BY <1>1, WorkerRoute DEF TakeEmpty, QueueInv
  <2> QED
    BY <2>1, QueueOverdueExpired
<1>2. CASE TakeLapsed(t)
  BY <1>2, QueueTakeLapsed
<1>3. CASE TakeJob(t)
  BY <1>3, QueueTakeJob
<1>4. CASE \/ TakeEnter(t) \/ TakeArm(t) \/ TakeUnauthorized(t) \/ TakeNoSlot(t) \/ TakeAwait(t)
           \/ TakeElapsed(t) \/ TakeAborted(t) \/ TakeLeave(t)
  <2>1. UNCHANGED <<calls, routes>>
    BY <1>4 DEF TakeEnter, TakeArm, TakeUnauthorized, TakeNoSlot, TakeAwait, TakeElapsed, TakeAborted,
                TakeLeave, state
  <2> QED
    BY <2>1, QueuesKept DEF QueueInv
<1> QED
  BY <1>1, <1>2, <1>3, <1>4 DEF TakeStep, TakeRuns

\* What a caller does with its ticket leaves right queues.
LEMMA QueueTicketStep ==
  ASSUME QueueInv, NEW i \in DOMAIN tickets, TicketStep(i)
  PROVE  QueueIntegrity'
<1>1. CASE TicketExpire(i) \/ TicketDrop(i)
  BY <1>1, QueueResponseTaken DEF TicketExpire, TicketDrop
<1>2. CASE TicketReceive(i) \/ TicketElapsed(i) \/ TicketAborted(i)
  <2>1. UNCHANGED <<calls, routes>>
    BY <1>2 DEF TicketReceive, TicketElapsed, TicketAborted, state
  <2> QED
    BY <2>1, QueuesKept DEF QueueInv
<1> QED
  BY <1>1, <1>2 DEF TicketStep, TicketRuns

\* Every step leaves right queues.
LEMMA QueueInvNext == QueueInv /\ [Next]_vars => QueueInv'
<1> SUFFICES ASSUME QueueInv, [Next]_vars PROVE QueueIntegrity'
  BY TypeInvNext DEF QueueInv
<1>1. CASE ConnectionStep
  <2>1. ASSUME NEW k \in Conns, Connect(k)
        PROVE  QueueIntegrity'
    <3>1. UNCHANGED <<calls, routes>>
      BY <2>1 DEF Connect
    <3> QED
      BY <3>1, QueuesKept DEF QueueInv
  <2>2. ASSUME NEW k \in Conns, Disconnect(k)
        PROVE  QueueIntegrity'
    BY <2>2, QueueDisconnect
  <2>3. ASSUME NEW w \in Servers, NEW r \in Routes, NEW c \in Concurrencies,
               NEW l \in QueueLimits, Register(w, r, c, l)
        PROVE  QueueIntegrity'
    BY <2>3, QueueRegister
  <2>4. ASSUME NEW k \in Callers, NEW r \in Routes, NEW b \in Costs, Request(k, r, b)
        PROVE  QueueIntegrity'
    BY <2>4, QueueRequest
  <2>5. ASSUME NEW k \in Callers, NEW r \in Routes, NEW b \in Costs, RequestOverloaded(k, r, b)
        PROVE  QueueIntegrity'
    BY <2>5, QueueOverdueExpired DEF RequestOverloaded
  <2>6. ASSUME NEW w \in Servers, NEW i \in Live, NEW failed \in BOOLEAN, Complete(w, i, failed)
        PROVE  QueueIntegrity'
    BY <2>6, QueueComplete
  <2> QED
    BY <1>1, <2>1, <2>2, <2>3, <2>4, <2>5, <2>6 DEF ConnectionStep
<1>2. CASE \E t \in Takers : TakeStep(t)
  BY <1>2, QueueTakeStep
<1>3. CASE \E i \in DOMAIN tickets : TicketStep(i)
  BY <1>3, QueueTicketStep
<1>4. CASE (\E i \in DOMAIN tickets : DeadlinePasses(i)) \/ UNCHANGED vars
  <2>1. UNCHANGED <<calls, routes>>
    BY <1>4 DEF DeadlinePasses, vars, state
  <2> QED
    BY <2>1, QueuesKept DEF QueueInv
<1> QED
  BY <1>1, <1>2, <1>3, <1>4 DEF Next

\* A queue holds exactly the unowned live calls of its route, each once
\* (rpc.rs: try_take's "queue points to a live call" never panics, and no
\* admitted call is left outside every queue).
THEOREM QueuesAreRight == Spec => []QueueIntegrity
<1>1. QueueInv => QueueIntegrity
  BY DEF QueueInv
<1> QED
  BY <1>1, QueueInvInit, QueueInvNext, PTL DEF Spec

-----------------------------------------------------------------------------
(* One worker for each call.                                               *)

OnceStep ==
  \A i \in DOMAIN tickets :
    i \in DOMAIN calls' =>
      /\ i \in DOMAIN calls
      /\ calls[i].owner # None => calls'[i].owner = calls[i].owner

\* A step that admits nothing and leaves the owned calls alone.
LEMMA OwnersKept ==
  ASSUME DOMAIN calls' \subseteq Live,
         \A i \in DOMAIN calls' : calls[i].owner # None => calls'[i].owner = calls[i].owner
  PROVE  OnceStep
BY DEF OnceStep, Live

\* A disconnect hands out no call.
LEMMA OnceDisconnect ==
  ASSUME QueueInv, NEW k \in Conns, Disconnect(k)
  PROVE  OnceStep
<1> DEFINE gone == Withdrawn(k) \cup Failed(k)
<1>1. calls' = [i \in Live \ gone |->
                  IF i \in MadeBy(k) THEN [calls[i] EXCEPT !.response = FALSE] ELSE calls[i]]
  BY DEF Disconnect
<1> HIDE DEF gone
<1>2. \A i \in Live \ gone : calls'[i].owner = calls[i].owner
  BY <1>1, LiveCall DEF QueueInv
<1> QED
  BY <1>1, <1>2, OwnersKept

\* A request hands out no call.
LEMMA OnceRequest ==
  ASSUME QueueInv, NEW k \in Callers, NEW r \in Routes, NEW b \in Costs, Request(k, r, b)
  PROVE  OnceStep
<1> DEFINE call == [caller |-> k, route |-> r, owner |-> None,
                    response |-> TRUE, retained_bytes |-> b]
<1>1. calls' = Put(Omit(calls, Overdue(r)), next_id, call)
  BY DEF Request
<1>2. next_id \notin DOMAIN tickets
  BY LimitAssumption DEF QueueInv, TypeInv, TypeOK
<1> HIDE DEF call
<1>3. \A i \in DOMAIN calls' \ {next_id} : i \in Live /\ calls'[i] = calls[i]
  BY <1>1 DEF Put, Omit, Restrict, Live
<1> QED
  BY <1>2, <1>3 DEF OnceStep, Live

\* A take hands out a call that nobody owned.
LEMMA OnceTakeJob ==
  ASSUME QueueInv, NEW t \in Takers, TakeJob(t)
  PROVE  OnceStep
<1> DEFINE r    == workers[t[1]].route
           head == Head(Offered(t[1]))
<1>1. /\ calls[head].owner = None
      /\ DOMAIN calls' = Live \ Overdue(r)
      /\ \A i \in Live \ (Overdue(r) \cup {head}) : calls'[i] = calls[i]
  BY DispatchedCalls
<1> HIDE DEF r, head
<1> QED
  BY <1>1, OwnersKept

\* A response that is taken hands out no call.
LEMMA OnceResponseTaken ==
  ASSUME QueueInv, NEW i, ResponseTaken(i)
  PROVE  OnceStep
<1> DEFINE out == Unowned({i} \cap Live)
<1>1. calls' = [x \in Live \ out |->
                  IF x = i THEN [calls[x] EXCEPT !.response = FALSE] ELSE calls[x]]
  BY DEF ResponseTaken
<1> HIDE DEF out
<1>2. \A x \in Live \ out : calls'[x].owner = calls[x].owner
  BY <1>1, LiveCall DEF QueueInv
<1> QED
  BY <1>1, <1>2, OwnersKept

\* Steps that only remove calls.
LEMMA OnceRemoved ==
  ASSUME NEW out, calls' = Omit(calls, out)
  PROVE  OnceStep
BY DEF Omit, Restrict, OnceStep

\* No step hands out a call that has an owner.
LEMMA OnceNext == QueueInv /\ [Next]_vars => [OnceStep]_vars
<1> SUFFICES ASSUME QueueInv, Next PROVE OnceStep
  OBVIOUS
<1>1. UNCHANGED calls => OnceStep
  BY DEF OnceStep
<1>2. CASE ConnectionStep
  <2>1. ASSUME NEW k \in Conns, Connect(k)
        PROVE  OnceStep
    BY <1>1, <2>1 DEF Connect
  <2>2. ASSUME NEW k \in Conns, Disconnect(k)
        PROVE  OnceStep
    BY <2>2, OnceDisconnect
  <2>3. ASSUME NEW w \in Servers, NEW r \in Routes, NEW c \in Concurrencies,
               NEW l \in QueueLimits, Register(w, r, c, l)
        PROVE  OnceStep
    BY <1>1, <2>3 DEF Register
  <2>4. ASSUME NEW k \in Callers, NEW r \in Routes, NEW b \in Costs, Request(k, r, b)
        PROVE  OnceStep
    BY <2>4, OnceRequest
  <2>5. ASSUME NEW k \in Callers, NEW r \in Routes, NEW b \in Costs, RequestOverloaded(k, r, b)
        PROVE  OnceStep
    BY <2>5, OnceRemoved DEF RequestOverloaded, OverdueExpired
  <2>6. ASSUME NEW w \in Servers, NEW i \in Live, NEW failed \in BOOLEAN, Complete(w, i, failed)
        PROVE  OnceStep
    BY <2>6, OnceRemoved DEF Complete
  <2> QED
    BY <1>2, <2>1, <2>2, <2>3, <2>4, <2>5, <2>6 DEF ConnectionStep
<1>3. ASSUME NEW t \in Takers, TakeStep(t)
      PROVE  OnceStep
  <2>1. CASE TakeEmpty(t)
    BY <2>1, OnceRemoved DEF TakeEmpty, OverdueExpired
  <2>2. CASE TakeLapsed(t)
    BY <2>2, OnceRemoved DEF TakeLapsed
  <2>3. CASE TakeJob(t)
    BY <2>3, OnceTakeJob
  <2>4. CASE \/ TakeEnter(t) \/ TakeArm(t) \/ TakeUnauthorized(t) \/ TakeNoSlot(t) \/ TakeAwait(t)
             \/ TakeElapsed(t) \/ TakeAborted(t) \/ TakeLeave(t)
    BY <1>1, <2>4 DEF TakeEnter, TakeArm, TakeUnauthorized, TakeNoSlot, TakeAwait, TakeElapsed,
                      TakeAborted, TakeLeave, state
  <2> QED
    BY <1>3, <2>1, <2>2, <2>3, <2>4 DEF TakeStep, TakeRuns
<1>4. ASSUME NEW i \in DOMAIN tickets, TicketStep(i)
      PROVE  OnceStep
  <2>1. CASE TicketExpire(i) \/ TicketDrop(i)
    BY <2>1, OnceResponseTaken DEF TicketExpire, TicketDrop
  <2>2. CASE TicketReceive(i) \/ TicketElapsed(i) \/ TicketAborted(i)
    BY <1>1, <2>2 DEF TicketReceive, TicketElapsed, TicketAborted, state
  <2> QED
    BY <1>4, <2>1, <2>2 DEF TicketStep, TicketRuns
<1>5. ASSUME NEW i \in DOMAIN tickets, DeadlinePasses(i)
      PROVE  OnceStep
  BY <1>1, <1>5 DEF DeadlinePasses, state
<1> QED
  BY <1>2, <1>3, <1>4, <1>5 DEF Next

\* At most once: no step gives a call that has an owner to another worker or
\* back to a queue, and no id that was answered lives again (rpc.rs: try_take
\* pops what it hands out, request never reuses an id).
THEOREM CallsAreHandedOutOnce == Spec => HandedOutOnce
<1> QED
  BY QueueInvInit, QueueInvNext, OnceNext, PTL DEF Spec, HandedOutOnce, OnceStep

-----------------------------------------------------------------------------
(* What the actions do to the calls.                                       *)

\* The calls in "out" are gone; those that stay keep everything but, perhaps,
\* their response.
CallsShrink(out) ==
  /\ DOMAIN calls' = Live \ out
  /\ \A i \in Live \ out :
       /\ calls'[i].owner = calls[i].owner
       /\ calls'[i].caller = calls[i].caller
       /\ calls'[i].route = calls[i].route
       /\ calls'[i].retained_bytes = calls[i].retained_bytes
       /\ calls'[i].response \in {calls[i].response, FALSE}

\* Calls that are omitted are gone, and the others are untouched.
LEMMA OmittedCalls ==
  ASSUME NEW out, calls' = Omit(calls, out)
  PROVE  CallsShrink(out) /\ \A i \in Live \ out : calls'[i] = calls[i]
BY DEF Omit, Restrict, Live, CallsShrink

\* Dropping the response of a call changes nothing else of it.
LEMMA Unheard ==
  ASSUME TypeInv, NEW i \in Live, NEW c, c = [calls[i] EXCEPT !.response = FALSE]
  PROVE  /\ c.owner = calls[i].owner /\ c.caller = calls[i].caller /\ c.route = calls[i].route
         /\ c.retained_bytes = calls[i].retained_bytes /\ c.response = FALSE
<1>1. calls[i] \in CallType
  BY LiveCall
<1> QED
  BY <1>1 DEF CallType

\* A disconnect removes the calls it withdraws or fails, and drops the responses
\* of its own.
LEMMA DisconnectCalls ==
  ASSUME TypeInv, NEW k, Disconnect(k)
  PROVE  /\ CallsShrink(Withdrawn(k) \cup Failed(k))
         /\ \A i \in DOMAIN calls' :
              calls'[i].response = IF i \in MadeBy(k) THEN FALSE ELSE calls[i].response
<1> DEFINE out == Withdrawn(k) \cup Failed(k)
<1>1. calls' = [i \in Live \ out |->
                  IF i \in MadeBy(k) THEN [calls[i] EXCEPT !.response = FALSE] ELSE calls[i]]
  BY DEF Disconnect
<1> HIDE DEF out
<1>2. DOMAIN calls' = Live \ out
  BY <1>1
<1>3. ASSUME NEW i \in Live \ out
      PROVE  /\ calls'[i].owner = calls[i].owner
             /\ calls'[i].caller = calls[i].caller
             /\ calls'[i].route = calls[i].route
             /\ calls'[i].retained_bytes = calls[i].retained_bytes
             /\ calls'[i].response = IF i \in MadeBy(k) THEN FALSE ELSE calls[i].response
  <2>1. CASE i \in MadeBy(k)
    <3>1. calls'[i] = [calls[i] EXCEPT !.response = FALSE]
      BY <1>1, <2>1
    <3> QED
      BY <2>1, <3>1, Unheard
  <2>2. CASE i \notin MadeBy(k)
    BY <1>1, <2>2
  <2> QED
    BY <2>1, <2>2
<1> QED
  BY <1>2, <1>3 DEF CallsShrink, out

\* A response that is taken withdraws its call if no worker has it.
LEMMA ResponseTakenCalls ==
  ASSUME TypeInv, NEW i, ResponseTaken(i)
  PROVE  /\ CallsShrink(Unowned({i} \cap Live))
         /\ \A x \in DOMAIN calls' :
              calls'[x].response = IF x = i THEN FALSE ELSE calls[x].response
<1> DEFINE out == Unowned({i} \cap Live)
<1>1. calls' = [x \in Live \ out |->
                  IF x = i THEN [calls[x] EXCEPT !.response = FALSE] ELSE calls[x]]
  BY DEF ResponseTaken
<1> HIDE DEF out
<1>2. DOMAIN calls' = Live \ out
  BY <1>1
<1>3. ASSUME NEW x \in Live \ out
      PROVE  /\ calls'[x].owner = calls[x].owner
             /\ calls'[x].caller = calls[x].caller
             /\ calls'[x].route = calls[x].route
             /\ calls'[x].retained_bytes = calls[x].retained_bytes
             /\ calls'[x].response = IF x = i THEN FALSE ELSE calls[x].response
  <2>1. CASE x = i
    <3>1. calls'[x] = [calls[x] EXCEPT !.response = FALSE]
      BY <1>1, <2>1
    <3> QED
      BY <2>1, <3>1, Unheard
  <2>2. CASE x # i
    BY <1>1, <2>2
  <2> QED
    BY <2>1, <2>2
<1> QED
  BY <1>2, <1>3 DEF CallsShrink, out

\* A request adds one call and drops those of its route that are overdue.
LEMMA RequestCalls ==
  ASSUME TypeInv, NEW k \in Callers, NEW r \in Routes, NEW b \in Costs, Request(k, r, b)
  PROVE  /\ r \in DOMAIN routes /\ next_id \in Ids /\ next_id \notin DOMAIN tickets
         /\ next_id \notin Live
         /\ DOMAIN calls' = (Live \ Overdue(r)) \cup {next_id}
         /\ \A i \in Live \ Overdue(r) : calls'[i] = calls[i]
         /\ calls'[next_id] = [caller |-> k, route |-> r, owner |-> None,
                               response |-> TRUE, retained_bytes |-> b]
<1> DEFINE call == [caller |-> k, route |-> r, owner |-> None,
                    response |-> TRUE, retained_bytes |-> b]
<1>1. r \in DOMAIN routes /\ calls' = Put(Omit(calls, Overdue(r)), next_id, call)
  BY DEF Request
<1>2. next_id \in Ids /\ next_id \notin Live /\ next_id \notin DOMAIN tickets
  BY LimitAssumption DEF Request, Fits, TypeInv, TypeOK, Ids, IsMap, Live
<1> HIDE DEF call
<1>3. /\ DOMAIN calls' = (Live \ Overdue(r)) \cup {next_id}
      /\ \A i \in Live \ Overdue(r) : calls'[i] = calls[i]
      /\ calls'[next_id] = call
  BY <1>1, <1>2 DEF Put, Omit, Restrict, Live
<1> QED
  BY <1>1, <1>2, <1>3 DEF call

\* A take gives the head of the queue, which nobody owned, to its worker.
LEMMA TakeJobCalls ==
  ASSUME QueueInv, NEW t \in Takers, TakeJob(t),
         NEW r, r = workers[t[1]].route, NEW head, head = Head(Offered(t[1]))
  PROVE  /\ r \in DOMAIN routes
         /\ head \in Range(Queue(r)) \ Overdue(r)
         /\ head \in Live /\ calls[head].owner = None /\ calls[head].route = r
         /\ DOMAIN calls' = Live \ Overdue(r)
         /\ \A i \in Live \ (Overdue(r) \cup {head}) : calls'[i] = calls[i]
         /\ calls'[head].owner = t[1]
         /\ calls'[head].caller = calls[head].caller
         /\ calls'[head].route = calls[head].route
         /\ calls'[head].response = calls[head].response
         /\ calls'[head].retained_bytes = calls[head].retained_bytes
<1>1. /\ head \in Live \ Overdue(r)
      /\ calls[head].owner = None
      /\ DOMAIN calls' = Live \ Overdue(r)
      /\ calls'[head].owner = t[1]
      /\ \A i \in Live \ (Overdue(r) \cup {head}) : calls'[i] = calls[i]
  BY DispatchedCalls
<1>2. t[1] \in DOMAIN workers /\ Offered(t[1]) # <<>>
  BY DEF TakeJob
<1>3. r \in DOMAIN routes /\ head \in Range(Queue(r)) \ Overdue(r)
  BY <1>2, OfferedCalls
<1>4. calls[head].route = r
  BY <1>3, QueuedCalls
<1>5. calls' = [Omit(calls, Overdue(r)) EXCEPT ![head].owner = t[1]]
  BY DEF TakeJob
<1>6. /\ head \in DOMAIN Omit(calls, Overdue(r))
      /\ Omit(calls, Overdue(r))[head] = calls[head]
  BY <1>1 DEF Omit, Restrict, Live
<1>7. calls'[head] = [calls[head] EXCEPT !.owner = t[1]]
  BY <1>5, <1>6
<1>8. calls[head] \in CallType
  BY <1>1, LiveCall DEF QueueInv
<1> QED
  BY <1>1, <1>3, <1>4, <1>7, <1>8 DEF CallType

-----------------------------------------------------------------------------
(* What a departed connection leaves behind.                               *)

\* A call whose caller has gone runs unheard; owners are registered, workers
\* connected, and a take in progress is that of a worker or of a departed one.
Departures ==
  /\ connections \cap retired = {}
  /\ DOMAIN workers \subseteq connections
  /\ \A i \in Live :
       /\ calls[i].owner = None \/ calls[i].owner \in DOMAIN workers
       /\ calls[i].caller \in connections \/ (calls[i].owner # None /\ calls[i].response = FALSE)
  /\ \A t \in Takers : takes[t].pc # "idle" => t[1] \in DOMAIN workers \cup retired

\* Steps that only remove calls and begin no take.
LEMMA DeparturesShrink ==
  ASSUME Departures, NEW out, CallsShrink(out),
         connections' = connections, retired' = retired, DOMAIN workers' = DOMAIN workers,
         \A t \in Takers : takes'[t].pc # "idle" => takes[t].pc # "idle"
  PROVE  Departures'
<1>1. \A i \in DOMAIN calls' :
        /\ i \in Live
        /\ calls'[i].owner = calls[i].owner
        /\ calls'[i].caller = calls[i].caller
        /\ calls[i].response = FALSE => calls'[i].response = FALSE
  BY DEF CallsShrink
<1> QED
  BY <1>1 DEF Departures, Live

\* Steps that leave the calls alone and begin no take.
LEMMA DeparturesKept ==
  ASSUME Departures, calls' = calls,
         connections' = connections, retired' = retired, DOMAIN workers' = DOMAIN workers,
         \A t \in Takers : takes'[t].pc # "idle" => takes[t].pc # "idle"
  PROVE  Departures'
BY DEF Departures, Live

\* A take that moves on leaves the others where they are.
LEMMA TakeAtPc ==
  ASSUME TypeInv, NEW t \in Takers, NEW pc, TakeAt(t, pc)
  PROVE  /\ takes'[t].pc = pc /\ takes'[t].woken = takes[t].woken
         /\ \A x \in Takers \ {t} : takes'[x] = takes[x]
BY DEF TakeAt, TypeInv, TypeOK, TakeType

\* A notification wakes takes and moves none.
LEMMA NotifiedPc ==
  ASSUME TypeInv, NEW W, takes' = Notified(W)
  PROVE  \A t \in Takers : takes'[t].pc = takes[t].pc
BY NotifiedType DEF TypeInv, TypeOK

\* None of a departing connection's calls stays with its response, and none that
\* it ran stays at all.
LEMMA DeparturesDisconnect ==
  ASSUME QueueInv, Departures, NEW k \in Conns, Disconnect(k)
  PROVE  Departures'
<1> DEFINE out == Withdrawn(k) \cup Failed(k)
<1>1. CallsShrink(out) /\ \A i \in DOMAIN calls' :
        calls'[i].response = IF i \in MadeBy(k) THEN FALSE ELSE calls[i].response
  BY DisconnectCalls DEF QueueInv
<1>2. /\ connections' = connections \ {k} /\ retired' = retired \cup {k}
      /\ DOMAIN workers' = DOMAIN workers \ {k}
      /\ \A t \in Takers : takes'[t].pc = takes[t].pc
  BY NotifiedPc, OmitProperties DEF Disconnect, QueueInv
<1>3. ASSUME NEW i \in DOMAIN calls'
      PROVE  /\ calls'[i].owner = None \/ calls'[i].owner \in DOMAIN workers'
             /\ \/ calls'[i].caller \in connections'
                \/ calls'[i].owner # None /\ calls'[i].response = FALSE
  <2>1. /\ i \in Live /\ i \notin out
        /\ calls'[i].owner = calls[i].owner /\ calls'[i].caller = calls[i].caller
        /\ calls'[i].response \in {calls[i].response, FALSE}
    BY <1>1 DEF CallsShrink
  <2>2. calls[i].owner # k
    BY <2>1 DEF Failed, OwnedBy
  <2>3. CASE calls[i].caller = k
    <3>1. i \in MadeBy(k)
      BY <2>1, <2>3 DEF MadeBy
    <3>2. calls[i].owner # None
      BY <2>1, <3>1 DEF Withdrawn, Unowned
    <3> QED
      BY <1>1, <1>2, <2>1, <2>2, <3>1, <3>2 DEF Departures
  <2>4. CASE calls[i].caller # k
    BY <1>2, <2>1, <2>2, <2>4 DEF Departures
  <2> QED
    BY <2>3, <2>4
<1> QED
  BY <1>2, <1>3 DEF Departures, Live

\* A new call is of a connection that is there.
LEMMA DeparturesRequest ==
  ASSUME QueueInv, Departures, NEW k \in Callers, NEW r \in Routes, NEW b \in Costs,
         Request(k, r, b)
  PROVE  Departures'
<1>1. /\ DOMAIN calls' = (Live \ Overdue(r)) \cup {next_id}
      /\ \A i \in Live \ Overdue(r) : calls'[i] = calls[i]
      /\ calls'[next_id].caller = k /\ calls'[next_id].owner = None
  <2>1. /\ calls'[next_id] = [caller |-> k, route |-> r, owner |-> None,
                              response |-> TRUE, retained_bytes |-> b]
        /\ DOMAIN calls' = (Live \ Overdue(r)) \cup {next_id}
        /\ \A i \in Live \ Overdue(r) : calls'[i] = calls[i]
    BY RequestCalls DEF QueueInv
  <2>2. calls'[next_id].caller = k /\ calls'[next_id].owner = None
    BY <2>1
  <2> QED
    BY <2>1, <2>2
<1>2. /\ k \in connections /\ UNCHANGED <<connections, workers, retired>>
      /\ \A t \in Takers : takes'[t].pc = takes[t].pc
  BY NotifiedPc DEF Request, Connected, QueueInv
<1>3. ASSUME NEW i \in DOMAIN calls'
      PROVE  /\ calls'[i].owner = None \/ calls'[i].owner \in DOMAIN workers'
             /\ \/ calls'[i].caller \in connections'
                \/ calls'[i].owner # None /\ calls'[i].response = FALSE
  <2>1. CASE i = next_id
    BY <1>1, <1>2, <2>1
  <2>2. CASE i # next_id
    <3>1. i \in Live /\ calls'[i] = calls[i]
      BY <1>1, <1>3, <2>2
    <3> QED
      BY <1>2, <3>1 DEF Departures
  <2> QED
    BY <2>1, <2>2
<1>4. /\ connections' \cap retired' = {} /\ DOMAIN workers' \subseteq connections'
      /\ \A t \in Takers : takes'[t].pc # "idle" => t[1] \in DOMAIN workers' \cup retired'
  BY <1>2 DEF Departures
<1> QED
  BY <1>3, <1>4 DEF Departures, Live

\* A take hands calls to workers that are registered.
LEMMA DeparturesTakeStep ==
  ASSUME QueueInv, Departures, NEW t \in Takers, TakeStep(t)
  PROVE  Departures'
<1> USE DEF QueueInv
<1>1. CASE TakeEnter(t)
  <2>1. /\ t[1] \in DOMAIN workers /\ DOMAIN workers' = DOMAIN workers
        /\ UNCHANGED <<connections, retired, calls>> /\ TakeAt(t, "entered")
    BY <1>1 DEF TakeEnter
  <2>2. \A x \in Takers \ {t} : takes'[x] = takes[x]
    BY <2>1, TakeAtPc
  <2> QED
    BY <2>1, <2>2 DEF Departures, Live
<1>2. CASE \/ TakeArm(t) \/ TakeUnauthorized(t) \/ TakeNoSlot(t)
           \/ TakeAwait(t) \/ TakeElapsed(t) \/ TakeAborted(t)
  <2>1. UNCHANGED <<connections, retired, calls, workers>> /\ takes[t].pc # "idle"
    BY <1>2 DEF TakeArm, TakeUnauthorized, TakeNoSlot, TakeAwait, TakeElapsed, TakeAborted, state
  <2>2. \A x \in Takers \ {t} : takes'[x] = takes[x]
    BY <1>2, TakeAtPc DEF TakeArm, TakeUnauthorized, TakeNoSlot, TakeAwait, TakeElapsed,
                          TakeAborted, TypeInv, TypeOK
  <2> QED
    BY <2>1, <2>2, DeparturesKept
<1>3. CASE TakeLeave(t)
  <2>1. /\ UNCHANGED <<connections, retired, calls>> /\ DOMAIN workers' = DOMAIN workers
        /\ takes[t].pc # "idle"
        /\ takes' = [takes EXCEPT ![t] = [pc |-> "idle", woken |-> FALSE]]
    BY <1>3 DEF TakeLeave
  <2>2. \A x \in Takers \ {t} : takes'[x] = takes[x]
    BY <2>1 DEF TypeInv, TypeOK
  <2> QED
    BY <2>1, <2>2, DeparturesKept
<1>4. CASE TakeEmpty(t)
  <2>1. /\ calls' = Omit(calls, Overdue(workers[t[1]].route))
        /\ UNCHANGED <<connections, retired, workers>>
        /\ takes[t].pc # "idle" /\ TakeAt(t, "tried")
    BY <1>4 DEF TakeEmpty, OverdueExpired
  <2>2. \A x \in Takers \ {t} : takes'[x] = takes[x]
    BY <2>1, TakeAtPc
  <2> QED
    BY <2>1, <2>2, OmittedCalls, DeparturesShrink
<1>5. CASE TakeLapsed(t)
  BY <1>5, OmittedCalls, DeparturesShrink DEF TakeLapsed
<1>6. CASE TakeJob(t)
  <2> DEFINE r    == workers[t[1]].route
             head == Head(Offered(t[1]))
  <2>1. /\ head \in Live /\ calls[head].owner = None
        /\ DOMAIN calls' = Live \ Overdue(r)
        /\ \A i \in Live \ (Overdue(r) \cup {head}) : calls'[i] = calls[i]
        /\ calls'[head].owner = t[1]
        /\ calls'[head].caller = calls[head].caller
    BY <1>6, TakeJobCalls
  <2>2. /\ t[1] \in DOMAIN workers /\ DOMAIN workers' = DOMAIN workers
        /\ UNCHANGED <<connections, retired>>
        /\ takes[t].pc # "idle" /\ TakeAt(t, "leaving")
    BY <1>6 DEF TakeJob
  <2>3. \A x \in Takers \ {t} : takes'[x] = takes[x]
    BY <2>2, TakeAtPc
  <2> HIDE DEF r, head
  <2> QED
    BY <2>1, <2>2, <2>3 DEF Departures, Live
<1> QED
  BY <1>1, <1>2, <1>3, <1>4, <1>5, <1>6 DEF TakeStep, TakeRuns

\* What has departed leaves nothing behind, after any step.
LEMMA DeparturesNext == QueueInv /\ Departures /\ [Next]_vars => Departures'
<1> SUFFICES ASSUME QueueInv, Departures, [Next]_vars PROVE Departures'
  OBVIOUS
<1>1. CASE ConnectionStep
  <2>1. ASSUME NEW k \in Conns, Connect(k)
        PROVE  Departures'
    BY <2>1 DEF Connect, Departures, Live
  <2>2. ASSUME NEW k \in Conns, Disconnect(k)
        PROVE  Departures'
    BY <2>2, DeparturesDisconnect
  <2>3. ASSUME NEW w \in Servers, NEW r \in Routes, NEW c \in Concurrencies,
               NEW l \in QueueLimits, Register(w, r, c, l)
        PROVE  Departures'
    <3>1. DOMAIN workers' = DOMAIN workers \cup {w} /\ w \in connections
      BY <2>3 DEF Register, Put, Connected
    <3> QED
      BY <2>3, <3>1 DEF Register, Departures, Live
  <2>4. ASSUME NEW k \in Callers, NEW r \in Routes, NEW b \in Costs, Request(k, r, b)
        PROVE  Departures'
    BY <2>4, DeparturesRequest
  <2>5. ASSUME NEW k \in Callers, NEW r \in Routes, NEW b \in Costs, RequestOverloaded(k, r, b)
        PROVE  Departures'
    BY <2>5, OmittedCalls, DeparturesShrink DEF RequestOverloaded, OverdueExpired
  <2>6. ASSUME NEW w \in Servers, NEW i \in Live, NEW failed \in BOOLEAN, Complete(w, i, failed)
        PROVE  Departures'
    <3>1. /\ calls' = Omit(calls, {i}) /\ DOMAIN workers' = DOMAIN workers
          /\ UNCHANGED <<connections, retired>> /\ takes' = Notified({w})
      BY <2>6 DEF Complete, SlotFreed
    <3> QED
      BY <3>1, OmittedCalls, NotifiedPc, DeparturesShrink DEF QueueInv
  <2> QED
    BY <1>1, <2>1, <2>2, <2>3, <2>4, <2>5, <2>6 DEF ConnectionStep
<1>2. CASE \E t \in Takers : TakeStep(t)
  BY <1>2, DeparturesTakeStep
<1>3. ASSUME NEW i \in DOMAIN tickets, TicketStep(i)
      PROVE  Departures'
  <2>1. CASE TicketExpire(i) \/ TicketDrop(i)
    BY <2>1, ResponseTakenCalls, DeparturesShrink DEF TicketExpire, TicketDrop, QueueInv
  <2>2. CASE TicketReceive(i) \/ TicketElapsed(i) \/ TicketAborted(i)
    BY <2>2, DeparturesKept DEF TicketReceive, TicketElapsed, TicketAborted, state
  <2> QED
    BY <1>3, <2>1, <2>2 DEF TicketStep, TicketRuns
<1>4. CASE (\E i \in DOMAIN tickets : DeadlinePasses(i)) \/ UNCHANGED vars
  BY <1>4, DeparturesKept DEF DeadlinePasses, vars, state
<1> QED
  BY <1>1, <1>2, <1>3, <1>4 DEF Next

\* Nothing of a departed connection stays behind: rpc.rs, Rpc::disconnect, and the
\* look-up of the connection in register and request.
THEOREM DepartedLeaveNothing == Spec => []RetiredLeavesNothing
<1>1. Init => Departures
  <2>1. DOMAIN Empty = {}
    BY DEF Empty
  <2> QED
    BY <2>1 DEF Init, Departures, Live
<1>2. ASSUME QueueInv, Departures PROVE RetiredLeavesNothing
  <2> SUFFICES ASSUME NEW k \in retired
               PROVE  /\ k \notin connections
                      /\ k \notin DOMAIN workers
                      /\ \A r \in DOMAIN routes : k \notin routes[r].workers
                      /\ \A i \in Live :
                           /\ calls[i].owner # k
                           /\ calls[i].caller = k => calls[i].owner # None /\ ~calls[i].response
    BY DEF RetiredLeavesNothing
  <2>1. k \notin connections /\ k \notin DOMAIN workers
    BY <1>2 DEF Departures
  <2>2. \A r \in DOMAIN routes : k \notin routes[r].workers
    BY <1>2, <2>1 DEF QueueInv, TypeInv, RoutesServed
  <2>3. k # None
    BY <1>2, NoneAssumption DEF QueueInv, TypeInv, TypeOK
  <2> QED
    BY <1>2, <2>1, <2>2, <2>3 DEF Departures
<1> QED
  BY <1>1, <1>2, QueueInvInit, QueueInvNext, DeparturesNext, PTL DEF Spec

-----------------------------------------------------------------------------
(* Slots.                                                                  *)

SlotsOf(w) ==
  /\ workers[w].running = Cardinality(OwnedBy(w))
  /\ workers[w].pending_takes = Cardinality(Pending(w))
  /\ workers[w].running <= workers[w].concurrency
  /\ workers[w].pending_takes <= workers[w].concurrency

\* The takes in progress of a server are finitely many, registered or not.
SlotsRight ==
  /\ \A w \in DOMAIN workers : SlotsOf(w)
  /\ \A w \in Servers : IsFiniteSet(Pending(w))

\* The ids that live are finitely many.
LEMMA LiveFinite ==
  ASSUME TypeInv
  PROVE  IsFiniteSet(Live) /\ \A S \in SUBSET Live : IsFiniteSet(S)
<1>1. Live \in SUBSET (1 .. LastId - 1) /\ LastId - 1 \in Nat
  BY LimitAssumption DEF TypeInv, TypeOK, IsMap, Ids, Live
<1>2. IsFiniteSet(1 .. LastId - 1)
  BY <1>1, FS_Interval
<1> QED
  BY <1>1, <1>2, FS_Subset

\* The record of a worker.
LEMMA WorkerFields ==
  ASSUME TypeInv, NEW w \in DOMAIN workers
  PROVE  /\ w \in Servers /\ w # None
         /\ workers[w].running \in Nat /\ workers[w].pending_takes \in Nat
         /\ workers[w].concurrency \in Nat
<1>1. w \in Servers /\ workers[w] \in WorkerType
  BY DEF TypeInv, TypeOK, IsMap
<1> QED
  BY <1>1, NoneAssumption, LimitAssumption DEF WorkerType, Conns

\* Calls without an owner take no slot with them.
LEMMA UnownedLeave ==
  ASSUME TypeInv, NEW out, \A i \in out : i \in Live => calls[i].owner = None
  PROVE  \A w \in DOMAIN workers : OwnedBy(w) \cap out = {}
BY WorkerFields DEF OwnedBy

\* Calls that stay have shrunk by none.
LEMMA CallsSame ==
  ASSUME calls' = calls
  PROVE  CallsShrink({})
BY DEF CallsShrink, Live

\* Steps that keep the workers that stay, their calls and their takes.
LEMMA SlotsKept ==
  ASSUME SlotsRight, NEW out, CallsShrink(out),
         DOMAIN workers' \subseteq DOMAIN workers,
         \A w \in DOMAIN workers' : workers'[w] = workers[w] /\ OwnedBy(w) \cap out = {},
         \A t \in Takers : takes'[t].pc = "idle" <=> takes[t].pc = "idle"
  PROVE  SlotsRight'
<1>1. \A w : Pending(w)' = Pending(w)
  BY DEF Pending
<1>2. ASSUME NEW w \in DOMAIN workers'
      PROVE  OwnedBy(w)' = OwnedBy(w)
  BY DEF CallsShrink, OwnedBy, Live
<1> QED
  BY <1>1, <1>2 DEF SlotsRight, SlotsOf

\* A worker that registers has no call and no take: those of an earlier
\* registration would be those of a departed connection.
LEMMA SlotsRegister ==
  ASSUME QueueInv, Departures, SlotsRight, NEW w \in Servers, NEW r \in Routes,
         NEW c \in Concurrencies, NEW l \in QueueLimits, Register(w, r, c, l)
  PROVE  SlotsRight'
<1> DEFINE new == [route |-> r, concurrency |-> c, running |-> 0, pending_takes |-> 0]
<1>1. /\ w \in connections /\ w \notin DOMAIN workers
      /\ workers' = Put(workers, w, new)
      /\ UNCHANGED <<calls, takes>>
  BY DEF Register, Connected
<1>2. new.running = 0 /\ new.pending_takes = 0 /\ new.concurrency = c /\ 0 <= c
  BY LimitAssumption
<1> HIDE DEF new
<1>3. /\ DOMAIN workers' = DOMAIN workers \cup {w} /\ workers'[w] = new
      /\ \A x \in DOMAIN workers : workers'[x] = workers[x]
  BY <1>1 DEF Put
<1>4. \A x : OwnedBy(x)' = OwnedBy(x) /\ Pending(x)' = Pending(x)
  BY <1>1 DEF OwnedBy, Pending, Live
<1>5. OwnedBy(w) = {} /\ Pending(w) = {}
  BY <1>1, NoneAssumption DEF Departures, OwnedBy, Pending, Conns
<1>6. SlotsOf(w)'
  BY <1>2, <1>3, <1>4, <1>5, FS_EmptySet DEF SlotsOf
<1>7. ASSUME NEW x \in DOMAIN workers
      PROVE  SlotsOf(x)'
  BY <1>3, <1>4 DEF SlotsRight, SlotsOf
<1> QED
  BY <1>3, <1>4, <1>6, <1>7 DEF SlotsRight

\* What a departing connection takes down was owned by nobody else.
LEMMA SlotsDisconnect ==
  ASSUME QueueInv, SlotsRight, NEW k \in Conns, Disconnect(k)
  PROVE  SlotsRight'
<1> DEFINE out == Withdrawn(k) \cup Failed(k)
<1>1. CallsShrink(out)
  BY DisconnectCalls DEF QueueInv
<1>2. /\ DOMAIN workers' = DOMAIN workers \ {k}
      /\ \A w \in DOMAIN workers' : workers'[w] = workers[w]
      /\ \A t \in Takers : takes'[t].pc = takes[t].pc
  <2>1. workers' = Omit(workers, {k}) /\ takes' = Notified(WokenBy(k))
    BY DEF Disconnect
  <2>2. \A t \in Takers : takes'[t].pc = takes[t].pc
    BY <2>1, NotifiedPc DEF QueueInv
  <2>3. /\ DOMAIN workers' = DOMAIN workers \ {k}
        /\ \A w \in DOMAIN workers \ {k} : workers'[w] = workers[w]
    BY <2>1 DEF Omit, Restrict
  <2> QED
    BY <2>2, <2>3
<1>3. \A i \in Stranded(k) : calls[i].owner = None
  BY WorkerRoute, QueuedCalls DEF Stranded, LastWorker, QueueInv
<1>4. ASSUME NEW w \in DOMAIN workers \ {k}
      PROVE  OwnedBy(w) \cap out = {}
  <2>1. w # None
    BY WorkerFields DEF QueueInv
  <2> QED
    BY <1>3, <2>1 DEF Withdrawn, Unowned, Failed, OwnedBy
<1> HIDE DEF out
<1> QED
  BY <1>1, <1>2, <1>4, SlotsKept

\* A new call takes no slot of a worker.
LEMMA SlotsRequest ==
  ASSUME QueueInv, SlotsRight, NEW k \in Callers, NEW r \in Routes, NEW b \in Costs,
         Request(k, r, b)
  PROVE  SlotsRight'
<1>1. /\ r \in DOMAIN routes /\ next_id \notin Live
      /\ DOMAIN calls' = (Live \ Overdue(r)) \cup {next_id}
      /\ \A i \in Live \ Overdue(r) : calls'[i] = calls[i]
      /\ calls'[next_id].owner = None
  <2>1. calls'[next_id] = [caller |-> k, route |-> r, owner |-> None,
                           response |-> TRUE, retained_bytes |-> b]
    BY RequestCalls DEF QueueInv
  <2> QED
    BY <2>1, RequestCalls DEF QueueInv
<1>2. workers' = workers /\ \A t \in Takers : takes'[t].pc = takes[t].pc
  BY NotifiedPc DEF Request, QueueInv
<1>3. ASSUME NEW w \in DOMAIN workers
      PROVE  OwnedBy(w)' = OwnedBy(w)
  <2>1. w # None
    BY WorkerFields DEF QueueInv
  <2>2. \A i \in Overdue(r) : calls[i].owner = None
    BY <1>1, QueuedCalls
  <2> QED
    BY <1>1, <2>1, <2>2 DEF OwnedBy, Live
<1>4. \A w : Pending(w)' = Pending(w)
  BY <1>2 DEF Pending
<1> QED
  BY <1>2, <1>3, <1>4 DEF SlotsRight, SlotsOf

\* A completion gives back the slot of the call it removes.
LEMMA SlotsComplete ==
  ASSUME QueueInv, SlotsRight, NEW w \in Servers, NEW i \in Live, NEW failed \in BOOLEAN,
         Complete(w, i, failed)
  PROVE  SlotsRight'
<1>1. /\ w \in DOMAIN workers /\ calls[i].owner = w
      /\ workers' = [workers EXCEPT ![w].running = IF @ > 0 THEN @ - 1 ELSE 0]
      /\ \A t \in Takers : takes'[t].pc = takes[t].pc
  BY NotifiedPc DEF Complete, SlotFreed, QueueInv
<1>2. /\ DOMAIN calls' = Live \ {i}
      /\ \A x \in Live \ {i} : calls'[x].owner = calls[x].owner
  BY OmittedCalls DEF Complete, CallsShrink
<1>3. /\ OwnedBy(w)' = OwnedBy(w) \ {i} /\ i \in OwnedBy(w)
      /\ \A x \in DOMAIN workers \ {w} : OwnedBy(x)' = OwnedBy(x)
  BY <1>1, <1>2 DEF OwnedBy, Live
<1>4. \A x : Pending(x)' = Pending(x)
  BY <1>1 DEF Pending
<1>5. workers[w] \in WorkerType
  BY <1>1 DEF QueueInv, TypeInv, TypeOK, IsMap
<1>6. /\ DOMAIN workers' = DOMAIN workers
      /\ workers'[w].running = IF workers[w].running > 0 THEN workers[w].running - 1 ELSE 0
      /\ workers'[w].pending_takes = workers[w].pending_takes
      /\ workers'[w].concurrency = workers[w].concurrency
      /\ \A x \in DOMAIN workers \ {w} : workers'[x] = workers[x]
  BY <1>1, <1>5 DEF WorkerType
<1>7. IsFiniteSet(OwnedBy(w))
  BY LiveFinite DEF QueueInv, OwnedBy
<1>8. /\ Cardinality(OwnedBy(w)) \in Nat /\ Cardinality(OwnedBy(w)) # 0
      /\ Cardinality(OwnedBy(w) \ {i}) = Cardinality(OwnedBy(w)) - 1
  BY <1>3, <1>7, FS_RemoveElement, FS_CardinalityType, FS_EmptySet
<1>9. SlotsOf(w)'
  <2>1. SlotsOf(w) /\ workers[w].concurrency \in Nat
    BY <1>1, WorkerFields DEF SlotsRight, QueueInv
  <2> QED
    BY <1>3, <1>4, <1>6, <1>8, <2>1 DEF SlotsOf
<1>10. ASSUME NEW x \in DOMAIN workers \ {w}
       PROVE  SlotsOf(x)'
  BY <1>3, <1>4, <1>6 DEF SlotsRight, SlotsOf
<1> QED
  BY <1>4, <1>6, <1>9, <1>10 DEF SlotsRight

\* A dispatch fills one slot that was free.
LEMMA SlotsTakeJob ==
  ASSUME QueueInv, SlotsRight, NEW t \in Takers, TakeJob(t)
  PROVE  SlotsRight'
<1> DEFINE w    == t[1]
           r    == workers[w].route
           head == Head(Offered(w))
<1>1. /\ w \in DOMAIN workers /\ workers[w].running < workers[w].concurrency
      /\ workers' = [workers EXCEPT ![w].running = @ + 1]
      /\ takes[t].pc = "trying" /\ TakeAt(t, "leaving")
  BY DEF TakeJob, HasSlot
<1>2. /\ r \in DOMAIN routes
      /\ head \in Live /\ calls[head].owner = None
      /\ DOMAIN calls' = Live \ Overdue(r)
      /\ \A i \in Live \ (Overdue(r) \cup {head}) : calls'[i] = calls[i]
      /\ calls'[head].owner = w
      /\ head \notin Overdue(r)
  BY TakeJobCalls
<1>3. \A i \in Overdue(r) : calls[i].owner = None
  BY <1>2, QueuedCalls
<1>4. workers[w] \in WorkerType /\ w # None
  BY <1>1, WorkerFields DEF QueueInv, TypeInv, TypeOK, IsMap
<1>5. \A x : Pending(x)' = Pending(x)
  BY <1>1, TakeAtPc DEF Pending, QueueInv
<1> HIDE DEF w, r, head
<1>6. /\ DOMAIN workers' = DOMAIN workers
      /\ workers'[w].running = workers[w].running + 1
      /\ workers'[w].pending_takes = workers[w].pending_takes
      /\ workers'[w].concurrency = workers[w].concurrency
      /\ \A x \in DOMAIN workers \ {w} : workers'[x] = workers[x]
  BY <1>1, <1>4 DEF WorkerType
<1>7. /\ OwnedBy(w)' = OwnedBy(w) \cup {head} /\ head \notin OwnedBy(w)
      /\ \A x \in DOMAIN workers \ {w} : OwnedBy(x)' = OwnedBy(x)
  <2>1. \A x \in DOMAIN workers : x # None
    BY WorkerFields DEF QueueInv
  <2> QED
    BY <1>1, <1>2, <1>3, <2>1 DEF OwnedBy, Live
<1>8. IsFiniteSet(OwnedBy(w))
  BY LiveFinite DEF QueueInv, OwnedBy
<1>9. Cardinality(OwnedBy(w) \cup {head}) = Cardinality(OwnedBy(w)) + 1
  BY <1>7, <1>8, FS_AddElement
<1>10. SlotsOf(w)'
  <2>1. SlotsOf(w) /\ workers[w].concurrency \in Nat /\ workers[w].running \in Nat
    BY <1>1, WorkerFields DEF SlotsRight, QueueInv
  <2> QED
    BY <1>1, <1>5, <1>6, <1>7, <1>9, <2>1 DEF SlotsOf
<1>11. ASSUME NEW x \in DOMAIN workers \ {w}
       PROVE  SlotsOf(x)'
  BY <1>5, <1>6, <1>7 DEF SlotsRight, SlotsOf
<1> QED
  BY <1>5, <1>6, <1>10, <1>11 DEF SlotsRight

\* A take that enters or leaves counts for itself only.
LEMMA SlotsTakeEnter ==
  ASSUME QueueInv, SlotsRight, NEW t \in Takers, TakeEnter(t)
  PROVE  SlotsRight'
<1> DEFINE w == t[1]
<1>1. /\ w \in DOMAIN workers /\ workers[w].pending_takes < workers[w].concurrency
      /\ workers' = [workers EXCEPT ![w].pending_takes = @ + 1]
      /\ takes[t].pc = "idle" /\ TakeAt(t, "entered") /\ UNCHANGED calls
  BY DEF TakeEnter
<1>2. workers[w] \in WorkerType /\ w \in Servers
  BY <1>1 DEF QueueInv, TypeInv, TypeOK, IsMap
<1>3. takes'[t].pc = "entered" /\ \A x \in Takers \ {t} : takes'[x] = takes[x]
  BY <1>1, TakeAtPc DEF QueueInv
<1>4. /\ Pending(w)' = Pending(w) \cup {t} /\ t \notin Pending(w)
      /\ \A x : x # w => Pending(x)' = Pending(x)
  BY <1>1, <1>3 DEF Pending
<1>5. \A x : OwnedBy(x)' = OwnedBy(x)
  BY <1>1 DEF OwnedBy, Live
<1> HIDE DEF w
<1>6. /\ DOMAIN workers' = DOMAIN workers
      /\ workers'[w].pending_takes = workers[w].pending_takes + 1
      /\ workers'[w].running = workers[w].running
      /\ workers'[w].concurrency = workers[w].concurrency
      /\ \A x \in DOMAIN workers \ {w} : workers'[x] = workers[x]
  BY <1>1, <1>2 DEF WorkerType
<1>7. /\ IsFiniteSet(Pending(w)) /\ IsFiniteSet(Pending(w) \cup {t})
      /\ Cardinality(Pending(w) \cup {t}) = Cardinality(Pending(w)) + 1
  <2>1. IsFiniteSet(Pending(w))
    BY <1>2 DEF SlotsRight
  <2> QED
    BY <1>4, <2>1, FS_AddElement
<1>8. SlotsOf(w)'
  <2>1. SlotsOf(w) /\ workers[w].concurrency \in Nat /\ workers[w].pending_takes \in Nat
    BY <1>1, WorkerFields DEF SlotsRight, QueueInv
  <2> QED
    BY <1>1, <1>4, <1>5, <1>6, <1>7, <2>1 DEF SlotsOf
<1>9. ASSUME NEW x \in DOMAIN workers \ {w}
      PROVE  SlotsOf(x)'
  BY <1>4, <1>5, <1>6 DEF SlotsRight, SlotsOf
<1>10. \A x \in Servers : IsFiniteSet(Pending(x)')
  BY <1>4, <1>7 DEF SlotsRight
<1> QED
  BY <1>6, <1>8, <1>9, <1>10 DEF SlotsRight

\* A take that leaves gives back its place among the pending ones.
LEMMA SlotsTakeLeave ==
  ASSUME QueueInv, SlotsRight, NEW t \in Takers, TakeLeave(t)
  PROVE  SlotsRight'
<1> DEFINE w == t[1]
<1>1. /\ takes[t].pc # "idle" /\ UNCHANGED calls
      /\ takes' = [takes EXCEPT ![t] = [pc |-> "idle", woken |-> FALSE]]
  BY DEF TakeLeave
<1>2. takes'[t].pc = "idle" /\ \A x \in Takers \ {t} : takes'[x] = takes[x]
  BY <1>1 DEF QueueInv, TypeInv, TypeOK
<1>3. /\ Pending(w)' = Pending(w) \ {t} /\ t \in Pending(w)
      /\ \A x : x # w => Pending(x)' = Pending(x)
  BY <1>1, <1>2 DEF Pending
<1>4. \A x : OwnedBy(x)' = OwnedBy(x)
  BY <1>1 DEF OwnedBy, Live
<1>5. w \in Servers
  BY DEF Takers
<1>6. /\ IsFiniteSet(Pending(w) \ {t})
      /\ Cardinality(Pending(w)) \in Nat /\ Cardinality(Pending(w)) # 0
      /\ Cardinality(Pending(w) \ {t}) = Cardinality(Pending(w)) - 1
  <2>1. IsFiniteSet(Pending(w))
    BY <1>5 DEF SlotsRight
  <2> QED
    BY <1>3, <2>1, FS_RemoveElement, FS_CardinalityType, FS_EmptySet
<1>7. \A x \in Servers : IsFiniteSet(Pending(x)')
  BY <1>3, <1>6 DEF SlotsRight
<1>8. CASE w \notin DOMAIN workers
  <2>1. workers' = workers
    BY <1>8 DEF TakeLeave
  <2> QED
    BY <1>3, <1>4, <1>7, <1>8, <2>1 DEF SlotsRight, SlotsOf
<1>9. CASE w \in DOMAIN workers
  <2>1. workers' = [workers EXCEPT ![w].pending_takes = IF @ > 0 THEN @ - 1 ELSE 0]
    BY <1>9 DEF TakeLeave
  <2>2. workers[w] \in WorkerType
    BY <1>9 DEF QueueInv, TypeInv, TypeOK, IsMap
  <2> HIDE DEF w
  <2>3. /\ DOMAIN workers' = DOMAIN workers
        /\ workers'[w].pending_takes =
             IF workers[w].pending_takes > 0 THEN workers[w].pending_takes - 1 ELSE 0
        /\ workers'[w].running = workers[w].running
        /\ workers'[w].concurrency = workers[w].concurrency
        /\ \A x \in DOMAIN workers \ {w} : workers'[x] = workers[x]
    BY <1>9, <2>1, <2>2 DEF WorkerType
  <2>4. SlotsOf(w)'
    <3>1. SlotsOf(w) /\ workers[w].concurrency \in Nat
      BY <1>9, WorkerFields DEF SlotsRight, QueueInv
    <3> QED
      BY <1>3, <1>4, <1>6, <2>3, <3>1 DEF SlotsOf
  <2>5. ASSUME NEW x \in DOMAIN workers \ {w}
        PROVE  SlotsOf(x)'
    BY <1>3, <1>4, <2>3 DEF SlotsRight, SlotsOf
  <2> QED
    BY <1>7, <2>3, <2>4, <2>5 DEF SlotsRight
<1> QED
  BY <1>8, <1>9

\* Steps that remove calls nobody owns.
LEMMA SlotsExpired ==
  ASSUME QueueInv, SlotsRight, NEW out, CallsShrink(out), workers' = workers,
         \A i \in out : i \in Live => calls[i].owner = None,
         \A t \in Takers : takes'[t].pc = "idle" <=> takes[t].pc = "idle"
  PROVE  SlotsRight'
<1>1. \A w \in DOMAIN workers : OwnedBy(w) \cap out = {}
  BY UnownedLeave DEF QueueInv
<1> QED
  BY <1>1, SlotsKept

\* Only calls that wait in their queue become overdue there.
LEMMA OverdueUnowned ==
  ASSUME QueueInv, NEW r \in DOMAIN routes
  PROVE  \A i \in Overdue(r) : i \in Live /\ calls[i].owner = None
BY QueuedCalls

\* A take counts the slot of the job it takes, and no other.
LEMMA SlotsTakeStep ==
  ASSUME QueueInv, SlotsRight, NEW t \in Takers, TakeStep(t)
  PROVE  SlotsRight'
<1>1. CASE TakeEnter(t)
  BY <1>1, SlotsTakeEnter
<1>2. CASE \/ TakeArm(t) \/ TakeUnauthorized(t) \/ TakeNoSlot(t)
           \/ TakeAwait(t) \/ TakeElapsed(t) \/ TakeAborted(t)
  <2>1. UNCHANGED <<calls, workers>>
    BY <1>2 DEF TakeArm, TakeUnauthorized, TakeNoSlot, TakeAwait, TakeElapsed, TakeAborted, state
  <2>2. /\ takes[t].pc # "idle" /\ takes'[t].pc # "idle"
        /\ \A x \in Takers \ {t} : takes'[x] = takes[x]
    BY <1>2, TakeAtPc DEF TakeArm, TakeUnauthorized, TakeNoSlot, TakeAwait, TakeElapsed,
                          TakeAborted, TypeInv, TypeOK, QueueInv
  <2> QED
    BY <2>1, <2>2, CallsSame, SlotsExpired
<1>3. CASE TakeLeave(t)
  BY <1>3, SlotsTakeLeave
<1>4. CASE TakeEmpty(t)
  <2>1. /\ calls' = Omit(calls, Overdue(workers[t[1]].route))
        /\ t[1] \in DOMAIN workers
        /\ UNCHANGED workers /\ takes[t].pc # "idle" /\ TakeAt(t, "tried")
    BY <1>4 DEF TakeEmpty, OverdueExpired
  <2>2. takes'[t].pc # "idle" /\ \A x \in Takers \ {t} : takes'[x] = takes[x]
    BY <2>1, TakeAtPc DEF QueueInv
  <2>3. workers[t[1]].route \in DOMAIN routes
    BY <2>1, WorkerRoute DEF QueueInv
  <2> QED
    BY <2>1, <2>2, <2>3, OverdueUnowned, OmittedCalls, SlotsExpired
<1>5. CASE TakeLapsed(t)
  <2> DEFINE r   == workers[t[1]].route
             out == Overdue(r) \cup {Head(Offered(t[1]))}
  <2>1. /\ calls' = Omit(calls, out) /\ t[1] \in DOMAIN workers /\ Offered(t[1]) # <<>>
        /\ UNCHANGED <<workers, takes>>
    BY <1>5 DEF TakeLapsed
  <2>2. r \in DOMAIN routes /\ Head(Offered(t[1])) \in Range(Queue(r))
    BY <2>1, OfferedCalls
  <2>3. \A i \in out : calls[i].owner = None
    BY <2>2, QueuedCalls
  <2> HIDE DEF out
  <2> QED
    BY <2>1, <2>3, OmittedCalls, SlotsExpired
<1>6. CASE TakeJob(t)
  BY <1>6, SlotsTakeJob
<1> QED
  BY <1>1, <1>2, <1>3, <1>4, <1>5, <1>6 DEF TakeStep, TakeRuns

\* Slots are counted right after any step.
LEMMA SlotsNext == QueueInv /\ Departures /\ SlotsRight /\ [Next]_vars => SlotsRight'
<1> SUFFICES ASSUME QueueInv, Departures, SlotsRight, [Next]_vars PROVE SlotsRight'
  OBVIOUS
<1>1. CASE ConnectionStep
  <2>1. ASSUME NEW k \in Conns, Connect(k)
        PROVE  SlotsRight'
    BY <2>1, CallsSame, SlotsExpired DEF Connect
  <2>2. ASSUME NEW k \in Conns, Disconnect(k)
        PROVE  SlotsRight'
    BY <2>2, SlotsDisconnect
  <2>3. ASSUME NEW w \in Servers, NEW r \in Routes, NEW c \in Concurrencies,
               NEW l \in QueueLimits, Register(w, r, c, l)
        PROVE  SlotsRight'
    BY <2>3, SlotsRegister
  <2>4. ASSUME NEW k \in Callers, NEW r \in Routes, NEW b \in Costs, Request(k, r, b)
        PROVE  SlotsRight'
    BY <2>4, SlotsRequest
  <2>5. ASSUME NEW k \in Callers, NEW r \in Routes, NEW b \in Costs, RequestOverloaded(k, r, b)
        PROVE  SlotsRight'
    <3>1. /\ r \in DOMAIN routes /\ calls' = Omit(calls, Overdue(r)) /\ UNCHANGED <<workers, takes>>
      BY <2>5 DEF RequestOverloaded, OverdueExpired
    <3> QED
      BY <3>1, OverdueUnowned, OmittedCalls, SlotsExpired
  <2>6. ASSUME NEW w \in Servers, NEW i \in Live, NEW failed \in BOOLEAN, Complete(w, i, failed)
        PROVE  SlotsRight'
    BY <2>6, SlotsComplete
  <2> QED
    BY <1>1, <2>1, <2>2, <2>3, <2>4, <2>5, <2>6 DEF ConnectionStep
<1>2. CASE \E t \in Takers : TakeStep(t)
  BY <1>2, SlotsTakeStep
<1>3. ASSUME NEW i \in DOMAIN tickets, TicketStep(i)
      PROVE  SlotsRight'
  <2>1. CASE TicketExpire(i) \/ TicketDrop(i)
    <3>1. ResponseTaken(i) /\ UNCHANGED <<workers, takes>>
      BY <2>1 DEF TicketExpire, TicketDrop
    <3>2. \A x \in Unowned({i} \cap Live) : calls[x].owner = None
      BY DEF Unowned
    <3> QED
      BY <3>1, <3>2, ResponseTakenCalls, SlotsExpired DEF QueueInv
  <2>2. CASE TicketReceive(i) \/ TicketElapsed(i) \/ TicketAborted(i)
    BY <2>2, CallsSame, SlotsExpired DEF TicketReceive, TicketElapsed, TicketAborted, state
  <2> QED
    BY <1>3, <2>1, <2>2 DEF TicketStep, TicketRuns
<1>4. CASE (\E i \in DOMAIN tickets : DeadlinePasses(i)) \/ UNCHANGED vars
  BY <1>4, CallsSame, SlotsExpired DEF DeadlinePasses, vars, state
<1> QED
  BY <1>1, <1>2, <1>3, <1>4 DEF Next

\* worker.running and worker.pending_takes count exactly the calls a worker owns and
\* the takes that hold their guard, and never exceed its concurrency: rpc.rs,
\* Rpc::complete, try_take and TakeGuard.
THEOREM SlotsAreCounted == Spec => []SlotAccounting
<1>1. ASSUME Init PROVE Departures /\ SlotsRight
  <2>1. DOMAIN Empty = {}
    BY DEF Empty
  <2>2. \A w : Pending(w) = {}
    BY <1>1 DEF Init, Pending
  <2> QED
    BY <1>1, <2>1, <2>2, FS_EmptySet DEF Init, Departures, Live, SlotsRight
<1>2. Departures /\ SlotsRight => SlotAccounting
  BY DEF Departures, SlotsRight, SlotsOf, SlotAccounting
<1> QED
  BY <1>1, <1>2, QueueInvInit, QueueInvNext, DeparturesNext, SlotsNext, PTL DEF Spec

-----------------------------------------------------------------------------
(* Wakeups.                                                                *)

Sleeps(t) == takes[t].pc \in {"tried", "parked"} /\ ~takes[t].woken
MaySleep(t) ==
  /\ t[1] \in DOMAIN workers
  /\ HasSlot(t[1]) => Queue(workers[t[1]].route) = <<>>

\* retain has nothing to remove from an empty queue.
LEMMA WithoutEmpty ==
  ASSUME NEW S
  PROVE  Without(<<>>, S) = <<>>
<1>1. <<>> \in Seq({}) /\ Len(<<>>) = 0
  OBVIOUS
<1>2. Without(<<>>, S) \in Seq({}) /\ Len(Without(<<>>, S)) <= 0
  BY <1>1, WithoutProperties
<1> QED
  BY <1>2, EmptySeq, LenProperties

\* A take may sleep on when its worker keeps its place and gains no free slot,
\* and its route gains no call.
LEMMA SleepsOn ==
  ASSUME NoLostWakeup, NEW t \in Takers, Sleeps(t),
         t[1] \in DOMAIN workers',
         workers'[t[1]].route = workers[t[1]].route,
         HasSlot(t[1])' => HasSlot(t[1]),
         NEW S, routes'[workers[t[1]].route].queue
                  \in {Queue(workers[t[1]].route), Without(Queue(workers[t[1]].route), S)}
  PROVE  MaySleep(t)'
<1>1. HasSlot(t[1]) => Queue(workers[t[1]].route) = <<>>
  BY DEF NoLostWakeup, Sleeps
<1> QED
  BY <1>1, WithoutEmpty DEF MaySleep, Queue

\* The takes that still sleep after a step, when no step made them sleep.
LEMMA StillSleeps ==
  ASSUME TypeInv, NEW W, takes' = Notified(W), NEW t \in Takers, Sleeps(t)'
  PROVE  Sleeps(t) /\ t[1] \notin W
BY DEF Sleeps, Notified, TypeInv, TypeOK, TakeType

\* Steps that wake nobody, keep the workers and only remove ids from queues.
LEMMA WakeupsKept ==
  ASSUME NoLostWakeup, takes' = takes, workers' = workers, NEW S,
         \A w \in DOMAIN workers : routes'[workers[w].route].queue
             \in {Queue(workers[w].route), Without(Queue(workers[w].route), S)}
  PROVE  NoLostWakeup'
<1> SUFFICES ASSUME NEW t \in Takers, Sleeps(t)'
             PROVE  MaySleep(t)'
  BY DEF NoLostWakeup, Sleeps, MaySleep
<1>1. Sleeps(t) /\ t[1] \in DOMAIN workers
  BY DEF Sleeps, NoLostWakeup
<1>2. HasSlot(t[1])' => HasSlot(t[1])
  BY DEF HasSlot
<1> QED
  BY <1>1, <1>2, SleepsOn

\* expire_queued removes ids from one queue.
LEMMA ExpiredQueues ==
  ASSUME TypeInv, NEW r \in DOMAIN routes, NEW q, routes' = [routes EXCEPT ![r].queue = q],
         NEW x \in DOMAIN routes
  PROVE  routes'[x].queue = IF x = r THEN q ELSE Queue(x)
BY OneQueue DEF Queue

\* A departing worker wakes every take of its route.
LEMMA WakeupsDisconnect ==
  ASSUME TypeInv, NoLostWakeup, NEW k \in Conns, Disconnect(k)
  PROVE  NoLostWakeup'
<1> SUFFICES ASSUME NEW t \in Takers, Sleeps(t)'
             PROVE  MaySleep(t)'
  BY DEF NoLostWakeup, Sleeps, MaySleep
<1> DEFINE w == t[1]
<1>1. Sleeps(t) /\ w \notin WokenBy(k)
  BY StillSleeps DEF Disconnect
<1>2. w \in DOMAIN workers
  BY <1>1 DEF NoLostWakeup, Sleeps
<1>3. w # k /\ w \in routes[workers[w].route].workers
  BY <1>1, <1>2 DEF WokenBy, TypeInv, RoutesServed
<1>4. w \in DOMAIN workers' /\ workers'[w] = workers[w]
  <2>1. workers' = Omit(workers, {k})
    BY DEF Disconnect
  <2> QED
    BY <1>2, <1>3, <2>1 DEF Omit, Restrict
<1>5. workers[w].route \in DOMAIN routes'
  <2>1. workers[w].route \in DOMAIN routes
    BY <1>2, WorkerRoute
  <2>2. LastWorker(k) => workers[k].route # workers[w].route
    BY <1>3 DEF LastWorker
  <2> QED
    BY <2>1, <2>2, RoutesWithoutFacts DEF Disconnect
<1>6. routes'[workers[w].route].queue = Without(Queue(workers[w].route), Withdrawn(k))
  BY <1>5, RoutesWithoutFacts DEF Disconnect, Queue
<1>7. HasSlot(w)' => HasSlot(w)
  BY <1>4 DEF HasSlot
<1> QED
  BY <1>1, <1>4, <1>6, <1>7, SleepsOn

\* No take of a worker that registers is parked yet.
LEMMA WakeupsRegister ==
  ASSUME TypeInv, NoLostWakeup, NEW w \in Servers, NEW r \in Routes,
         NEW c \in Concurrencies, NEW l \in QueueLimits, Register(w, r, c, l)
  PROVE  NoLostWakeup'
<1> SUFFICES ASSUME NEW t \in Takers, Sleeps(t)'
             PROVE  MaySleep(t)'
  BY DEF NoLostWakeup, Sleeps, MaySleep
<1> DEFINE home == workers[t[1]].route
<1>1. Sleeps(t) /\ t[1] \in DOMAIN workers
  BY DEF Register, Sleeps, NoLostWakeup
<1>2. t[1] \in DOMAIN workers' /\ workers'[t[1]] = workers[t[1]]
  BY <1>1 DEF Register, Put
<1>3. home \in DOMAIN routes
  BY <1>1, WorkerRoute
<1>4. routes'[home].queue = Queue(home)
  <2>1. CASE r \in DOMAIN routes
    <3>1. routes' = [routes EXCEPT ![r].workers = @ \cup {w}]
      BY <2>1 DEF Register
    <3> QED
      BY <1>3, <2>1, <3>1 DEF Queue, TypeInv, TypeOK, IsMap, RouteType
  <2>2. CASE r \notin DOMAIN routes
    BY <1>3, <2>2 DEF Register, Put, Queue
  <2> QED
    BY <2>1, <2>2
<1>5. HasSlot(t[1])' => HasSlot(t[1])
  BY <1>2 DEF HasSlot
<1> QED
  BY <1>1, <1>2, <1>4, <1>5, SleepsOn

\* An admitted request wakes every take of its route.
LEMMA WakeupsRequest ==
  ASSUME TypeInv, NoLostWakeup, NEW k \in Callers, NEW r \in Routes, NEW b \in Costs,
         Request(k, r, b)
  PROVE  NoLostWakeup'
<1> SUFFICES ASSUME NEW t \in Takers, Sleeps(t)'
             PROVE  MaySleep(t)'
  BY DEF NoLostWakeup, Sleeps, MaySleep
<1> DEFINE home == workers[t[1]].route
           q    == Enqueue(Without(Queue(r), Overdue(r)), next_id)
<1>1. /\ r \in DOMAIN routes /\ workers' = workers
      /\ takes' = Notified(routes[r].workers)
      /\ routes' = [routes EXCEPT ![r].queue = q]
  BY DEF Request, Queue
<1>2. Sleeps(t) /\ t[1] \notin routes[r].workers
  BY <1>1, StillSleeps
<1>3. t[1] \in DOMAIN workers
  BY <1>2 DEF NoLostWakeup, Sleeps
<1>4. home \in DOMAIN routes /\ home # r
  BY <1>2, <1>3 DEF TypeInv, RoutesServed
<1> HIDE DEF q
<1>5. routes'[home].queue = Queue(home)
  BY <1>1, <1>4, ExpiredQueues
<1>6. HasSlot(t[1])' => HasSlot(t[1])
  BY <1>1 DEF HasSlot
<1> QED
  BY <1>1, <1>2, <1>3, <1>5, <1>6, SleepsOn

\* A completion wakes the takes of the worker that gains a slot.
LEMMA WakeupsComplete ==
  ASSUME TypeInv, NoLostWakeup, NEW w \in Servers, NEW i \in Live, NEW failed \in BOOLEAN,
         Complete(w, i, failed)
  PROVE  NoLostWakeup'
<1> SUFFICES ASSUME NEW t \in Takers, Sleeps(t)'
             PROVE  MaySleep(t)'
  BY DEF NoLostWakeup, Sleeps, MaySleep
<1>1. /\ w \in DOMAIN workers /\ routes' = routes
      /\ workers' = [workers EXCEPT ![w].running = IF @ > 0 THEN @ - 1 ELSE 0]
      /\ takes' = Notified({w})
  BY DEF Complete, SlotFreed
<1>2. Sleeps(t) /\ t[1] # w
  BY <1>1, StillSleeps
<1>3. t[1] \in DOMAIN workers
  BY <1>2 DEF NoLostWakeup, Sleeps
<1>4. t[1] \in DOMAIN workers' /\ workers'[t[1]] = workers[t[1]]
  BY <1>1, <1>2, <1>3
<1>5. HasSlot(t[1])' => HasSlot(t[1])
  BY <1>4 DEF HasSlot
<1> QED
  BY <1>1, <1>2, <1>4, <1>5, SleepsOn DEF Queue

\* The other takes of a route that had a call to offer sleep for want of a slot.
LEMMA WakeupsPopped ==
  ASSUME QueueInv, NoLostWakeup, NEW t \in Takers, TakeLapsed(t) \/ TakeJob(t)
  PROVE  NoLostWakeup'
<1> SUFFICES ASSUME NEW s \in Takers, Sleeps(s)'
             PROVE  MaySleep(s)'
  BY DEF NoLostWakeup, Sleeps, MaySleep
<1> DEFINE w    == t[1]
           r    == workers[w].route
           home == workers[s[1]].route
<1>1. /\ w \in DOMAIN workers /\ Offered(w) # <<>>
      /\ routes' = [routes EXCEPT ![r].queue = Popped(w)]
      /\ takes[t].pc = "trying"
      /\ takes' = takes \/ TakeAt(t, "leaving")
      /\ workers' = workers \/ workers' = [workers EXCEPT ![w].running = @ + 1]
  BY DEF TakeLapsed, TakeJob
<1>2. Sleeps(s)
  <2>1. CASE takes' = takes
    BY <2>1 DEF Sleeps
  <2>2. CASE TakeAt(t, "leaving")
    BY <2>2, TakeAtPc DEF Sleeps, QueueInv
  <2> QED
    BY <1>1, <2>1, <2>2
<1>3. s[1] \in DOMAIN workers /\ (HasSlot(s[1]) => Queue(home) = <<>>)
  BY <1>2 DEF NoLostWakeup, Sleeps
<1>4. r \in DOMAIN routes /\ home \in DOMAIN routes
  BY <1>1, <1>3, WorkerRoute DEF QueueInv
<1>5. Queue(r) # <<>>
  BY <1>1, WithoutEmpty DEF Offered
<1>6. workers[w] \in WorkerType
  BY <1>1 DEF QueueInv, TypeInv, TypeOK, IsMap
<1>7. /\ s[1] \in DOMAIN workers' /\ workers'[s[1]].route = home
      /\ HasSlot(s[1])' => HasSlot(s[1])
  <2>1. CASE workers' = workers
    BY <1>3, <2>1 DEF HasSlot
  <2>2. CASE workers' = [workers EXCEPT ![w].running = @ + 1]
    BY <1>1, <1>3, <1>6, <2>2, LimitAssumption DEF HasSlot, WorkerType
  <2> QED
    BY <1>1, <2>1, <2>2
<1>8. CASE home = r
  BY <1>3, <1>5, <1>7, <1>8 DEF MaySleep
<1>9. CASE home # r
  <2>1. routes'[home].queue = Queue(home)
    BY <1>1, <1>4, <1>9, ExpiredQueues DEF QueueInv
  <2> HIDE DEF home
  <2> QED
    BY <1>2, <1>7, <2>1, SleepsOn DEF home
<1> QED
  BY <1>8, <1>9

\* The steps of one take: it goes to sleep only after try_take saw, under the
\* lock, no free slot or no call.
LEMMA WakeupsTakeStep ==
  ASSUME QueueInv, NoLostWakeup, NEW t \in Takers, TakeStep(t)
  PROVE  NoLostWakeup'
<1> USE DEF QueueInv
<1>1. CASE TakeLapsed(t) \/ TakeJob(t)
  BY <1>1, WakeupsPopped
<1>2. CASE TakeEmpty(t)
  <2> DEFINE w == t[1]
             r == workers[w].route
             q == Without(Queue(r), Overdue(r))
  <2>1. /\ w \in DOMAIN workers /\ q = <<>> /\ workers' = workers
        /\ routes' = [routes EXCEPT ![r].queue = q]
        /\ TakeAt(t, "tried")
    BY <1>2 DEF TakeEmpty, OverdueExpired, Offered, Queue
  <2> HIDE DEF q
  <2>2. \A x \in DOMAIN workers : workers[x].route \in DOMAIN routes
    BY WorkerRoute
  <2>3. \A x \in DOMAIN workers :
          routes'[workers[x].route].queue = IF workers[x].route = r THEN <<>>
                                            ELSE Queue(workers[x].route)
    BY <2>1, <2>2, ExpiredQueues
  <2>4. \A s \in Takers \ {t} : takes'[s] = takes[s]
    BY <2>1, TakeAtPc
  <2>5. MaySleep(t)'
    BY <2>1, <2>3 DEF MaySleep, Queue
  <2>6. ASSUME NEW s \in Takers \ {t}, Sleeps(s)'
        PROVE  MaySleep(s)'
    <3>1. Sleeps(s)
      BY <2>4, <2>6 DEF Sleeps
    <3>2. MaySleep(s)
      BY <3>1 DEF NoLostWakeup, MaySleep, Sleeps
    <3> QED
      BY <2>1, <2>3, <3>2 DEF MaySleep, HasSlot, Queue
  <2> QED
    BY <2>5, <2>6 DEF NoLostWakeup, Sleeps, MaySleep
<1>3. CASE TakeNoSlot(t)
  <2>1. /\ UNCHANGED <<routes, workers>> /\ TakeAt(t, "tried")
        /\ t[1] \in DOMAIN workers /\ ~HasSlot(t[1])
    BY <1>3 DEF TakeNoSlot, state
  <2>2. \A s \in Takers \ {t} : takes'[s] = takes[s]
    BY <2>1, TakeAtPc
  <2> QED
    BY <2>1, <2>2 DEF NoLostWakeup, HasSlot, Queue
<1>4. CASE TakeAwait(t)
  <2>1. UNCHANGED <<routes, workers>> /\ TakeAt(t, "parked") /\ takes[t].pc = "tried"
    BY <1>4 DEF TakeAwait, state
  <2>2. /\ takes'[t].woken = takes[t].woken
        /\ \A s \in Takers \ {t} : takes'[s] = takes[s]
    BY <2>1, TakeAtPc
  <2> QED
    BY <2>1, <2>2 DEF NoLostWakeup, HasSlot, Queue
<1>5. CASE TakeArm(t) \/ TakeUnauthorized(t) \/ TakeElapsed(t) \/ TakeAborted(t)
  <2>1. /\ UNCHANGED <<routes, workers>> /\ ~Sleeps(t)'
        /\ \A s \in Takers \ {t} : takes'[s] = takes[s]
    BY <1>5, TakeAtPc DEF TakeArm, TakeUnauthorized, TakeElapsed, TakeAborted, state,
                          Sleeps, TypeInv, TypeOK
  <2> QED
    BY <2>1 DEF NoLostWakeup, HasSlot, Queue, Sleeps
<1>6. CASE TakeEnter(t) \/ TakeLeave(t)
  <2>1. /\ routes' = routes /\ ~Sleeps(t)'
        /\ \A s \in Takers \ {t} : takes'[s] = takes[s]
    BY <1>6, TakeAtPc DEF TakeEnter, TakeLeave, Sleeps, TypeInv, TypeOK
  <2>2. \A x \in DOMAIN workers : workers[x] \in WorkerType
    BY DEF TypeInv, TypeOK, IsMap
  <2>3. /\ DOMAIN workers' = DOMAIN workers
        /\ \A x \in DOMAIN workers : /\ workers'[x].route = workers[x].route
                                     /\ workers'[x].running = workers[x].running
                                     /\ workers'[x].concurrency = workers[x].concurrency
    BY <1>6, <2>2 DEF TakeEnter, TakeLeave, WorkerType
  <2> QED
    BY <2>1, <2>3 DEF NoLostWakeup, HasSlot, Queue, Sleeps
<1> QED
  BY <1>1, <1>2, <1>3, <1>4, <1>5, <1>6 DEF TakeStep, TakeRuns

\* No step loses a wakeup.
LEMMA WakeupsNext == QueueInv /\ NoLostWakeup /\ [Next]_vars => NoLostWakeup'
<1> SUFFICES ASSUME QueueInv, NoLostWakeup, [Next]_vars PROVE NoLostWakeup'
  OBVIOUS
<1>1. CASE ConnectionStep
  <2>1. ASSUME NEW k \in Conns, Connect(k)
        PROVE  NoLostWakeup'
    BY <2>1 DEF Connect, NoLostWakeup, HasSlot, Queue
  <2>2. ASSUME NEW k \in Conns, Disconnect(k)
        PROVE  NoLostWakeup'
    BY <2>2, WakeupsDisconnect DEF QueueInv
  <2>3. ASSUME NEW w \in Servers, NEW r \in Routes, NEW c \in Concurrencies,
               NEW l \in QueueLimits, Register(w, r, c, l)
        PROVE  NoLostWakeup'
    BY <2>3, WakeupsRegister DEF QueueInv
  <2>4. ASSUME NEW k \in Callers, NEW r \in Routes, NEW b \in Costs, Request(k, r, b)
        PROVE  NoLostWakeup'
    BY <2>4, WakeupsRequest DEF QueueInv
  <2>5. ASSUME NEW k \in Callers, NEW r \in Routes, NEW b \in Costs, RequestOverloaded(k, r, b)
        PROVE  NoLostWakeup'
    <3> DEFINE q == Without(Queue(r), Overdue(r))
    <3>1. /\ UNCHANGED <<takes, workers>> /\ r \in DOMAIN routes
          /\ routes' = [routes EXCEPT ![r].queue = q]
      BY <2>5 DEF RequestOverloaded, OverdueExpired, Queue
    <3> HIDE DEF q
    <3>2. \A w \in DOMAIN workers : workers[w].route \in DOMAIN routes
      BY WorkerRoute DEF QueueInv
    <3>3. \A w \in DOMAIN workers : routes'[workers[w].route].queue
            \in {Queue(workers[w].route), Without(Queue(workers[w].route), Overdue(r))}
      BY <3>1, <3>2, ExpiredQueues DEF q, QueueInv
    <3> QED
      BY <3>1, <3>3, WakeupsKept
  <2>6. ASSUME NEW w \in Servers, NEW i \in Live, NEW failed \in BOOLEAN, Complete(w, i, failed)
        PROVE  NoLostWakeup'
    BY <2>6, WakeupsComplete DEF QueueInv
  <2> QED
    BY <1>1, <2>1, <2>2, <2>3, <2>4, <2>5, <2>6 DEF ConnectionStep
<1>2. CASE \E t \in Takers : TakeStep(t)
  BY <1>2, WakeupsTakeStep
<1>3. ASSUME NEW i \in DOMAIN tickets, TicketStep(i)
      PROVE  NoLostWakeup'
  <2>1. CASE TicketExpire(i) \/ TicketDrop(i)
    <3> DEFINE gone == Unowned({i} \cap Live)
    <3>1. /\ UNCHANGED <<takes, workers>>
          /\ routes' = [r \in DOMAIN routes |-> [routes[r] EXCEPT !.queue = Without(@, gone)]]
      BY <2>1 DEF TicketExpire, TicketDrop, ResponseTaken
    <3>2. \A r \in DOMAIN routes : routes[r] \in RouteType
      BY DEF QueueInv, TypeInv, TypeOK, IsMap
    <3> HIDE DEF gone
    <3>3. \A r \in DOMAIN routes : routes'[r].queue = Without(Queue(r), gone)
      BY <3>1, <3>2 DEF RouteType, Queue
    <3>4. \A w \in DOMAIN workers : workers[w].route \in DOMAIN routes
      BY WorkerRoute DEF QueueInv
    <3> QED
      BY <3>1, <3>3, <3>4, WakeupsKept
  <2>2. CASE TicketReceive(i) \/ TicketElapsed(i) \/ TicketAborted(i)
    BY <2>2 DEF TicketReceive, TicketElapsed, TicketAborted, state, NoLostWakeup, HasSlot, Queue
  <2> QED
    BY <1>3, <2>1, <2>2 DEF TicketStep, TicketRuns
<1>4. CASE (\E i \in DOMAIN tickets : DeadlinePasses(i)) \/ UNCHANGED vars
  BY <1>4 DEF DeadlinePasses, vars, state, NoLostWakeup, HasSlot, Queue
<1> QED
  BY <1>1, <1>2, <1>3, <1>4 DEF Next

\* No take sleeps on a Notified future that nobody will complete while its worker
\* has a free slot and its route a call: rpc.rs, Rpc::take arms the future before
\* each try_take, and request, complete and disconnect call notify_waiters.
THEOREM WakeupsAreNotLost == Spec => []NoLostWakeup
<1>1. Init => NoLostWakeup
  BY DEF Init, NoLostWakeup
<1> QED
  BY <1>1, QueueInvInit, QueueInvNext, WakeupsNext, PTL DEF Spec

-----------------------------------------------------------------------------
(* Replies.                                                                *)

\* A ticket and its live call know the same caller.
SameCaller == \A i \in Live : tickets[i].caller = calls[i].caller
RepliesRight == ReplyNotLost /\ SameCaller

\* What response.send and a dropped response do to one ticket.
LEMMA RespondedTicket ==
  ASSUME TypeInv, NEW S, NEW reply, NEW i \in DOMAIN tickets
  PROVE  /\ DOMAIN Responded(S, reply) = DOMAIN tickets
         /\ Responded(S, reply)[i].pc = tickets[i].pc
         /\ Responded(S, reply)[i].caller = tickets[i].caller
         /\ Responded(S, reply)[i].reply =
              IF i \in S \cap Live /\ calls[i].response /\ tickets[i].pc = "waiting"
              THEN reply ELSE tickets[i].reply
<1>1. tickets[i] \in TicketType
  BY DEF TypeInv, TypeOK, IsMap
<1> QED
  BY <1>1 DEF Responded, TicketType

\* A live call has a ticket.
LEMMA LiveTicket ==
  ASSUME TypeInv
  PROVE  Live \subseteq DOMAIN tickets /\ \A i \in Live : calls[i].response \in BOOLEAN
BY LiveCall DEF TypeInv, TypeOK, IsMap, Live, CallType

\* Whatever removes calls answers those that still hold a response.
LEMMA RepliesAnswered ==
  ASSUME TypeInv, RepliesRight, NEW out, NEW reply, reply \notin {"none", "closed"},
         tickets' = Responded(out, reply), retired' = retired,
         DOMAIN calls' = Live \ out,
         \A i \in Live \ out : /\ calls'[i].response = calls[i].response
                               /\ calls'[i].caller = calls[i].caller
  PROVE  RepliesRight'
<1>1. ASSUME NEW i \in DOMAIN tickets', tickets'[i].pc = "waiting"
      PROVE  /\ tickets'[i].reply = "none" => i \in DOMAIN calls' /\ calls'[i].response
             /\ tickets'[i].reply = "closed" => tickets'[i].caller \in retired'
  <2>1. /\ i \in DOMAIN tickets /\ tickets[i].pc = "waiting"
        /\ tickets'[i].caller = tickets[i].caller
        /\ tickets'[i].reply = IF i \in out \cap Live /\ calls[i].response
                               THEN reply ELSE tickets[i].reply
    <3>1. i \in DOMAIN tickets
      BY <1>1 DEF Responded
    <3> QED
      BY <1>1, <3>1, RespondedTicket
  <2>2. /\ tickets[i].reply = "none" => i \in Live /\ calls[i].response
        /\ tickets[i].reply = "closed" => tickets[i].caller \in retired
    BY <2>1 DEF RepliesRight, ReplyNotLost
  <2> QED
    BY <2>1, <2>2
<1>2. ASSUME NEW i \in DOMAIN calls'
      PROVE  /\ tickets'[i] = tickets[i]
             /\ i \in Live /\ calls'[i].response = calls[i].response
             /\ calls'[i].caller = calls[i].caller
  <2>1. i \in DOMAIN tickets /\ i \in Live /\ i \notin out
    BY LiveTicket
  <2> QED
    BY <2>1 DEF Responded
<1> QED
  BY <1>1, <1>2 DEF RepliesRight, ReplyNotLost, SameCaller, Live

\* Steps that touch neither the tickets nor a response.
LEMMA RepliesKept ==
  ASSUME RepliesRight, tickets' = tickets, retired' = retired, calls' = calls
  PROVE  RepliesRight'
BY DEF RepliesRight, ReplyNotLost, SameCaller, Live

\* One ticket stops waiting; its response, if it leaves, is taken out first.
LEMMA RepliesTicket ==
  ASSUME TypeInv, RepliesRight, NEW i \in DOMAIN tickets, NEW pc, NEW reply,
         pc # "waiting", TicketAt(i, pc, reply), retired' = retired,
         DOMAIN calls' \subseteq Live, Live \ {i} \subseteq DOMAIN calls',
         \A x \in DOMAIN calls' : calls'[x].caller = calls[x].caller,
         \A x \in DOMAIN calls' \ {i} : calls'[x].response = calls[x].response,
         pc # "done" \/ i \notin DOMAIN calls' \/ calls'[i].response = FALSE
  PROVE  RepliesRight'
<1>1. tickets[i] \in TicketType
  BY DEF TypeInv, TypeOK, IsMap
<1>2. /\ DOMAIN tickets' = DOMAIN tickets
      /\ tickets'[i].pc = pc /\ tickets'[i].caller = tickets[i].caller
      /\ \A x \in DOMAIN tickets \ {i} : tickets'[x] = tickets[x]
  BY <1>1 DEF TicketAt, TicketType
<1>3. Live \subseteq DOMAIN tickets
  BY LiveTicket
<1>4. SameCaller'
  BY <1>2, <1>3 DEF RepliesRight, SameCaller, Live
<1>5. ASSUME NEW x \in DOMAIN tickets', tickets'[x].pc = "waiting"
      PROVE  /\ tickets'[x].reply = "none" => x \in DOMAIN calls' /\ calls'[x].response
             /\ tickets'[x].reply = "closed" => tickets'[x].caller \in retired'
  BY <1>2, <1>5 DEF RepliesRight, ReplyNotLost
<1>6. ASSUME NEW x \in DOMAIN calls', calls'[x].response
      PROVE  /\ tickets'[x].pc = "waiting" => tickets'[x].reply = "none"
             /\ tickets'[x].pc # "done"
  BY <1>2, <1>3, <1>6 DEF RepliesRight, ReplyNotLost
<1> QED
  BY <1>4, <1>5, <1>6 DEF RepliesRight, ReplyNotLost, Live

\* A departing caller finds its channels closed; the calls its workers ran, and
\* those no worker is left for, are answered "unavailable".
LEMMA RepliesDisconnect ==
  ASSUME QueueInv, RepliesRight, NEW k \in Conns, Disconnect(k)
  PROVE  RepliesRight'
<1> DEFINE out == Withdrawn(k) \cup Failed(k)
<1>1. /\ CallsShrink(out)
      /\ \A i \in DOMAIN calls' :
           calls'[i].response = IF i \in MadeBy(k) THEN FALSE ELSE calls[i].response
  BY DisconnectCalls DEF QueueInv
<1>2. /\ retired' = retired \cup {k}
      /\ tickets' = [i \in DOMAIN tickets |->
                       IF i \in MadeBy(k) THEN Responded({i}, "closed")[i]
                                          ELSE Responded(Failed(k), "unavailable")[i]]
  BY DEF Disconnect
<1>3. Live \subseteq DOMAIN tickets
  BY LiveTicket DEF QueueInv
<1>4. ASSUME NEW i \in DOMAIN tickets
      PROVE  /\ tickets'[i].pc = tickets[i].pc /\ tickets'[i].caller = tickets[i].caller
             /\ tickets'[i].reply =
                  IF i \in MadeBy(k) \cup (Failed(k) \cap Live) /\ calls[i].response
                     /\ tickets[i].pc = "waiting"
                  THEN IF i \in MadeBy(k) THEN "closed" ELSE "unavailable"
                  ELSE tickets[i].reply
  <2>1. CASE i \in MadeBy(k)
    <3>1. tickets'[i] = Responded({i}, "closed")[i] /\ i \in Live
      BY <1>2, <2>1 DEF MadeBy
    <3> QED
      BY <2>1, <3>1, RespondedTicket DEF QueueInv
  <2>2. CASE i \notin MadeBy(k)
    <3>1. tickets'[i] = Responded(Failed(k), "unavailable")[i]
      BY <1>2, <2>2
    <3> QED
      BY <2>2, <3>1, RespondedTicket DEF QueueInv
  <2> QED
    BY <2>1, <2>2
<1>5. \A i \in Withdrawn(k) : i \in MadeBy(k)
  BY DEF Withdrawn, Unowned
<1>6. ASSUME NEW i \in DOMAIN calls'
      PROVE  /\ i \in Live /\ i \notin Failed(k) /\ i \in DOMAIN tickets
             /\ calls'[i].caller = calls[i].caller
  BY <1>1, <1>3 DEF CallsShrink
<1>7. ASSUME NEW i \in DOMAIN tickets', tickets'[i].pc = "waiting"
      PROVE  /\ tickets'[i].reply = "none" => i \in DOMAIN calls' /\ calls'[i].response
             /\ tickets'[i].reply = "closed" => tickets'[i].caller \in retired'
  <2>1. i \in DOMAIN tickets /\ tickets[i].pc = "waiting"
    BY <1>2, <1>4, <1>7
  <2>2. /\ tickets[i].reply = "none" => i \in Live /\ calls[i].response
        /\ tickets[i].reply = "closed" => tickets[i].caller \in retired
    BY <2>1 DEF RepliesRight, ReplyNotLost
  <2>3. CASE i \in MadeBy(k)
    <3>1. tickets[i].caller = k
      BY <2>3 DEF MadeBy, RepliesRight, SameCaller
    <3>2. tickets'[i].reply # "none"
      BY <1>4, <2>1, <2>2, <2>3
    <3> QED
      BY <1>2, <1>4, <2>1, <3>1, <3>2
  <2>4. CASE i \notin MadeBy(k)
    <3>1. ASSUME tickets'[i].reply = "none"
          PROVE  i \in DOMAIN calls' /\ calls'[i].response
      <4>1. tickets[i].reply = "none" /\ i \in Live /\ calls[i].response /\ i \notin Failed(k)
        BY <1>4, <2>1, <2>2, <2>4, <3>1
      <4>2. i \in DOMAIN calls'
        BY <1>1, <1>5, <2>4, <4>1 DEF CallsShrink
      <4> QED
        BY <1>1, <2>4, <4>1, <4>2
    <3>2. ASSUME tickets'[i].reply = "closed"
          PROVE  tickets'[i].caller \in retired'
      BY <1>2, <1>4, <2>1, <2>2, <2>4, <3>2
    <3> QED
      BY <3>1, <3>2
  <2> QED
    BY <2>3, <2>4
<1>8. ASSUME NEW i \in DOMAIN calls', calls'[i].response
      PROVE  /\ tickets'[i].pc = "waiting" => tickets'[i].reply = "none"
             /\ tickets'[i].pc # "done"
  <2>1. i \notin MadeBy(k) /\ calls[i].response
    BY <1>1, <1>8
  <2> QED
    BY <1>4, <1>6, <2>1 DEF RepliesRight, ReplyNotLost
<1>9. SameCaller'
  BY <1>4, <1>6 DEF SameCaller, RepliesRight, Live
<1> QED
  BY <1>7, <1>8, <1>9 DEF RepliesRight, ReplyNotLost, Live

\* A new call has no reply yet.
LEMMA RepliesRequest ==
  ASSUME QueueInv, RepliesRight, NEW k \in Callers, NEW r \in Routes, NEW b \in Costs,
         Request(k, r, b)
  PROVE  RepliesRight'
<1> DEFINE ticket == [caller |-> k, pc |-> "waiting", reply |-> "none"]
           answered == Responded(Overdue(r), "deadline")
<1>1. /\ next_id \notin Live /\ next_id \notin DOMAIN tickets
      /\ DOMAIN calls' = (Live \ Overdue(r)) \cup {next_id}
      /\ \A i \in Live \ Overdue(r) : calls'[i] = calls[i]
      /\ calls'[next_id].caller = k /\ calls'[next_id].response = TRUE
  <2>1. calls'[next_id] = [caller |-> k, route |-> r, owner |-> None,
                           response |-> TRUE, retained_bytes |-> b]
    BY RequestCalls DEF QueueInv
  <2> QED
    BY <2>1, RequestCalls DEF QueueInv
<1>2. tickets' = Put(answered, next_id, ticket) /\ retired' = retired
  BY DEF Request
<1>3. DOMAIN answered = DOMAIN tickets
  BY DEF Responded
<1>4. ticket.caller = k /\ ticket.pc = "waiting" /\ ticket.reply = "none"
  OBVIOUS
<1> HIDE DEF ticket, answered
<1>5. /\ DOMAIN tickets' = DOMAIN tickets \cup {next_id}
      /\ tickets'[next_id] = ticket
      /\ \A i \in DOMAIN tickets : tickets'[i] = answered[i]
  BY <1>1, <1>2, <1>3 DEF Put
<1>6. ASSUME NEW i \in DOMAIN tickets
      PROVE  /\ tickets'[i].pc = tickets[i].pc /\ tickets'[i].caller = tickets[i].caller
             /\ tickets'[i].reply =
                  IF i \in Overdue(r) \cap Live /\ calls[i].response /\ tickets[i].pc = "waiting"
                  THEN "deadline" ELSE tickets[i].reply
  BY <1>5, RespondedTicket DEF answered, QueueInv
<1>7. Live \subseteq DOMAIN tickets
  BY LiveTicket DEF QueueInv
<1>8. ASSUME NEW i \in DOMAIN tickets', tickets'[i].pc = "waiting"
      PROVE  /\ tickets'[i].reply = "none" => i \in DOMAIN calls' /\ calls'[i].response
             /\ tickets'[i].reply = "closed" => tickets'[i].caller \in retired'
  <2>1. CASE i = next_id
    BY <1>1, <1>4, <1>5, <2>1
  <2>2. CASE i \in DOMAIN tickets
    <3>1. /\ tickets[i].reply = "none" => i \in Live /\ calls[i].response
          /\ tickets[i].reply = "closed" => tickets[i].caller \in retired
      BY <1>6, <1>8, <2>2 DEF RepliesRight, ReplyNotLost
    <3> QED
      BY <1>1, <1>2, <1>6, <1>8, <2>2, <3>1
  <2> QED
    BY <1>5, <2>1, <2>2
<1>9. ASSUME NEW i \in DOMAIN calls'
      PROVE  /\ calls'[i].response => /\ tickets'[i].pc = "waiting" => tickets'[i].reply = "none"
                                      /\ tickets'[i].pc # "done"
             /\ tickets'[i].caller = calls'[i].caller
  <2>1. CASE i = next_id
    BY <1>1, <1>4, <1>5, <2>1
  <2>2. CASE i # next_id
    <3>1. i \in Live /\ i \notin Overdue(r) /\ i \in DOMAIN tickets /\ calls'[i] = calls[i]
      BY <1>1, <1>7, <2>2
    <3> QED
      BY <1>6, <3>1 DEF RepliesRight, ReplyNotLost, SameCaller
  <2> QED
    BY <2>1, <2>2
<1> QED
  BY <1>8, <1>9 DEF RepliesRight, ReplyNotLost, SameCaller, Live

\* Calls that are omitted are answered in the same step.
LEMMA RepliesOmitted ==
  ASSUME TypeInv, RepliesRight, NEW out, NEW reply, reply \notin {"none", "closed"},
         tickets' = Responded(out, reply), retired' = retired, calls' = Omit(calls, out)
  PROVE  RepliesRight'
<1>1. DOMAIN calls' = Live \ out /\ \A i \in Live \ out : calls'[i] = calls[i]
  BY DEF Omit, Restrict, Live
<1> QED
  BY <1>1, RepliesAnswered

\* A take answers the calls it finds overdue.
LEMMA RepliesTakeStep ==
  ASSUME QueueInv, RepliesRight, NEW t \in Takers, TakeStep(t)
  PROVE  RepliesRight'
<1>1. CASE TakeEmpty(t)
  BY <1>1, RepliesOmitted DEF TakeEmpty, OverdueExpired, QueueInv
<1>2. CASE TakeLapsed(t)
  BY <1>2, RepliesOmitted DEF TakeLapsed, QueueInv
<1>3. CASE TakeJob(t)
  <2> DEFINE r    == workers[t[1]].route
             head == Head(Offered(t[1]))
  <2>1. /\ DOMAIN calls' = Live \ Overdue(r)
        /\ \A i \in Live \ (Overdue(r) \cup {head}) : calls'[i] = calls[i]
        /\ calls'[head].caller = calls[head].caller
        /\ calls'[head].response = calls[head].response
    BY <1>3, TakeJobCalls
  <2>2. tickets' = Responded(Overdue(r), "deadline") /\ retired' = retired
    BY <1>3 DEF TakeJob
  <2> HIDE DEF r, head
  <2>3. \A i \in Live \ Overdue(r) : /\ calls'[i].response = calls[i].response
                                     /\ calls'[i].caller = calls[i].caller
    BY <2>1
  <2> QED
    BY <2>1, <2>2, <2>3, RepliesAnswered DEF QueueInv
<1>4. CASE \/ TakeEnter(t) \/ TakeArm(t) \/ TakeUnauthorized(t) \/ TakeNoSlot(t) \/ TakeAwait(t)
           \/ TakeElapsed(t) \/ TakeAborted(t) \/ TakeLeave(t)
  <2>1. UNCHANGED <<calls, tickets, retired>>
    BY <1>4 DEF TakeEnter, TakeArm, TakeUnauthorized, TakeNoSlot, TakeAwait, TakeElapsed,
                TakeAborted, TakeLeave, state
  <2> QED
    BY <2>1, RepliesKept
<1> QED
  BY <1>1, <1>2, <1>3, <1>4 DEF TakeStep, TakeRuns

\* A ticket that is polled or dropped loses no reply.
LEMMA RepliesTicketStep ==
  ASSUME TypeInv, RepliesRight, NEW i \in DOMAIN tickets, TicketStep(i)
  PROVE  RepliesRight'
<1>1. CASE TicketReceive(i) \/ TicketElapsed(i) \/ TicketAborted(i)
  <2>1. UNCHANGED <<calls, retired>>
    BY <1>1 DEF TicketReceive, TicketElapsed, TicketAborted, state
  <2>2. PICK pc, reply : pc \in {"expiring", "dropping"} /\ TicketAt(i, pc, reply)
    BY <1>1 DEF TicketReceive, TicketElapsed, TicketAborted
  <2>3. /\ DOMAIN calls' \subseteq Live /\ Live \ {i} \subseteq DOMAIN calls'
        /\ \A x \in DOMAIN calls' : calls'[x].caller = calls[x].caller
        /\ \A x \in DOMAIN calls' \ {i} : calls'[x].response = calls[x].response
        /\ pc # "done" /\ pc # "waiting" /\ TicketAt(i, pc, reply) /\ retired' = retired
    BY <2>1, <2>2 DEF Live
  <2> QED
    BY <2>3, RepliesTicket
<1>2. CASE TicketExpire(i) \/ TicketDrop(i)
  <2>1. ResponseTaken(i) /\ retired' = retired
    BY <1>2 DEF TicketExpire, TicketDrop
  <2>2. PICK pc, reply : pc \in {"dropping", "done"} /\ TicketAt(i, pc, reply)
    BY <1>2 DEF TicketExpire, TicketDrop
  <2>3. /\ CallsShrink(Unowned({i} \cap Live))
        /\ \A x \in DOMAIN calls' :
             calls'[x].response = IF x = i THEN FALSE ELSE calls[x].response
    BY <2>1, ResponseTakenCalls
  <2>4. Unowned({i} \cap Live) \subseteq {i}
    BY DEF Unowned
  <2>5. /\ DOMAIN calls' \subseteq Live /\ Live \ {i} \subseteq DOMAIN calls'
        /\ \A x \in DOMAIN calls' : calls'[x].caller = calls[x].caller
    BY <2>3, <2>4 DEF CallsShrink
  <2>6. \A x \in DOMAIN calls' \ {i} : calls'[x].response = calls[x].response
    BY <2>3
  <2>7. i \notin DOMAIN calls' \/ calls'[i].response = FALSE
    BY <2>3
  <2>8. pc # "waiting"
    BY <2>2
  <2> QED
    BY <2>1, <2>2, <2>5, <2>6, <2>7, <2>8, RepliesTicket
<1> QED
  BY <1>1, <1>2 DEF TicketStep, TicketRuns

\* No reply is lost by any step.
LEMMA RepliesNext == QueueInv /\ RepliesRight /\ [Next]_vars => RepliesRight'
<1> SUFFICES ASSUME QueueInv, RepliesRight, [Next]_vars PROVE RepliesRight'
  OBVIOUS
<1>1. CASE ConnectionStep
  <2>1. ASSUME NEW k \in Conns, Connect(k)
        PROVE  RepliesRight'
    BY <2>1, RepliesKept DEF Connect
  <2>2. ASSUME NEW k \in Conns, Disconnect(k)
        PROVE  RepliesRight'
    BY <2>2, RepliesDisconnect
  <2>3. ASSUME NEW w \in Servers, NEW r \in Routes, NEW c \in Concurrencies,
               NEW l \in QueueLimits, Register(w, r, c, l)
        PROVE  RepliesRight'
    BY <2>3, RepliesKept DEF Register
  <2>4. ASSUME NEW k \in Callers, NEW r \in Routes, NEW b \in Costs, Request(k, r, b)
        PROVE  RepliesRight'
    BY <2>4, RepliesRequest
  <2>5. ASSUME NEW k \in Callers, NEW r \in Routes, NEW b \in Costs, RequestOverloaded(k, r, b)
        PROVE  RepliesRight'
    BY <2>5, RepliesOmitted DEF RequestOverloaded, OverdueExpired, QueueInv
  <2>6. ASSUME NEW w \in Servers, NEW i \in Live, NEW failed \in BOOLEAN, Complete(w, i, failed)
        PROVE  RepliesRight'
    <3>1. Outcome(i, failed) \notin {"none", "closed"}
      BY DEF Outcome
    <3> QED
      BY <2>6, <3>1, RepliesOmitted DEF Complete, QueueInv
  <2> QED
    BY <1>1, <2>1, <2>2, <2>3, <2>4, <2>5, <2>6 DEF ConnectionStep
<1>2. CASE \E t \in Takers : TakeStep(t)
  BY <1>2, RepliesTakeStep
<1>3. CASE \E i \in DOMAIN tickets : TicketStep(i)
  BY <1>3, RepliesTicketStep DEF QueueInv
<1>4. CASE (\E i \in DOMAIN tickets : DeadlinePasses(i)) \/ UNCHANGED vars
  BY <1>4, RepliesKept DEF DeadlinePasses, vars, state
<1> QED
  BY <1>1, <1>2, <1>3, <1>4 DEF Next

\* A ticket that still waits has a live call that will answer it, and only a caller
\* that has gone finds its channel closed: rpc.rs, the oneshot sender that every
\* removal of a call takes out and uses.
THEOREM RepliesAreNotLost == Spec => []ReplyNotLost
<1>1. Init => RepliesRight
  <2>1. DOMAIN Empty = {}
    BY DEF Empty
  <2> QED
    BY <2>1 DEF Init, RepliesRight, ReplyNotLost, SameCaller, Live
<1>2. RepliesRight => ReplyNotLost
  BY DEF RepliesRight
<1> QED
  BY <1>1, <1>2, QueueInvInit, QueueInvNext, RepliesNext, PTL DEF Spec

-----------------------------------------------------------------------------
(* Budgets.                                                                *)

\* No route is new, and no queue is longer or in another order than before.
QueuesShorten ==
  \A r \in DOMAIN routes' :
    /\ r \in DOMAIN routes
    /\ routes'[r].queue_limit = routes[r].queue_limit
    /\ Len(routes'[r].queue) <= Len(Queue(r))
    /\ Increasing(Queue(r)) => Increasing(routes'[r].queue)

\* The calls in "out" are removed and their bytes released.
Release(out) ==
  /\ out \subseteq Live
  /\ DOMAIN calls' = Live \ out
  /\ \A i \in Live \ out : calls'[i].retained_bytes = calls[i].retained_bytes
  /\ retained_bytes' = retained_bytes - BytesOf(out)

\* The lengths of queues are numbers.
LEMMA RouteLens ==
  ASSUME TypeInv, NEW r \in DOMAIN routes
  PROVE  /\ Queue(r) \in Seq(Ids) /\ Len(Queue(r)) \in Nat
         /\ routes[r].queue_limit \in Nat
<1>1. routes[r] \in RouteType
  BY DEF TypeInv, TypeOK, IsMap
<1> QED
  BY <1>1, LenProperties, LimitAssumption DEF RouteType, Queue

\* Queues that stay have not grown.
LEMMA ShortenKept ==
  ASSUME TypeInv, routes' = routes
  PROVE  QueuesShorten
BY RouteLens DEF QueuesShorten, Queue

\* One queue gets shorter and keeps its order.
LEMMA ShortenOne ==
  ASSUME TypeInv, NEW r \in DOMAIN routes, NEW q,
         routes' = [routes EXCEPT ![r].queue = q],
         Len(q) <= Len(Queue(r)), Increasing(Queue(r)) => Increasing(q)
  PROVE  QueuesShorten
<1>1. \A x \in DOMAIN routes : routes[x] \in RouteType
  BY DEF TypeInv, TypeOK, IsMap
<1>2. /\ DOMAIN routes' = DOMAIN routes
      /\ routes'[r].queue = q /\ routes'[r].queue_limit = routes[r].queue_limit
      /\ \A x \in DOMAIN routes \ {r} : routes'[x] = routes[x]
  BY <1>1 DEF RouteType
<1> QED
  BY <1>2, RouteLens DEF QueuesShorten, Queue

\* Dropping overdue calls shortens their queue.
LEMMA ShortenExpired ==
  ASSUME TypeInv, NEW r \in DOMAIN routes, OverdueExpired(r)
  PROVE  QueuesShorten
<1> DEFINE q == Without(Queue(r), Overdue(r))
<1>1. routes' = [routes EXCEPT ![r].queue = q]
  BY DEF OverdueExpired, Queue
<1>2. Len(q) <= Len(Queue(r)) /\ (Increasing(Queue(r)) => Increasing(q))
  BY RouteLens, WithoutProperties
<1> HIDE DEF q
<1> QED
  BY <1>1, <1>2, ShortenOne

\* A take shortens the queue it pops.
LEMMA ShortenPopped ==
  ASSUME TypeInv, NEW w \in DOMAIN workers, Offered(w) # <<>>,
         routes' = [routes EXCEPT ![workers[w].route].queue = Popped(w)]
  PROVE  QueuesShorten
<1> DEFINE r == workers[w].route
<1>1. r \in DOMAIN routes
  BY WorkerRoute
<1>2. /\ Offered(w) \in Seq(Ids) /\ Len(Offered(w)) <= Len(Queue(r))
      /\ Increasing(Queue(r)) => Increasing(Offered(w))
  BY <1>1, RouteLens, WithoutProperties DEF Offered
<1>3. /\ Len(Popped(w)) = Len(Offered(w)) - 1 /\ Len(Offered(w)) \in Nat
      /\ Increasing(Offered(w)) => Increasing(Popped(w))
  BY <1>2, PopProperties DEF Popped
<1>4. Len(Queue(r)) \in Nat
  BY <1>1, RouteLens
<1>5. Len(Popped(w)) <= Len(Queue(r)) /\ (Increasing(Queue(r)) => Increasing(Popped(w)))
  BY <1>2, <1>3, <1>4
<1> HIDE DEF r
<1> QED
  BY <1>1, <1>5, ShortenOne DEF r

\* A disconnect shortens the queues of the routes that stay.
LEMMA ShortenDisconnect ==
  ASSUME TypeInv, NEW k \in Conns, Disconnect(k)
  PROVE  QueuesShorten
<1> SUFFICES ASSUME NEW r \in DOMAIN routes'
             PROVE  /\ r \in DOMAIN routes
                    /\ routes'[r].queue_limit = routes[r].queue_limit
                    /\ Len(routes'[r].queue) <= Len(Queue(r))
                    /\ Increasing(Queue(r)) => Increasing(routes'[r].queue)
  BY DEF QueuesShorten
<1>1. routes' = RoutesWithout(k)
  BY DEF Disconnect
<1>2. /\ r \in DOMAIN routes
      /\ routes'[r].queue_limit = routes[r].queue_limit
      /\ routes'[r].queue = Without(Queue(r), Withdrawn(k))
  BY <1>1, RoutesWithoutFacts DEF Queue
<1> QED
  BY <1>2, RouteLens, WithoutProperties

\* Withdrawing a call shortens its queue.
LEMMA ShortenResponseTaken ==
  ASSUME TypeInv, NEW i, ResponseTaken(i)
  PROVE  QueuesShorten
<1> DEFINE gone == Unowned({i} \cap Live)
<1>1. routes' = [r \in DOMAIN routes |-> [routes[r] EXCEPT !.queue = Without(@, gone)]]
  BY DEF ResponseTaken
<1>2. \A r \in DOMAIN routes : routes[r] \in RouteType
  BY DEF TypeInv, TypeOK, IsMap
<1> HIDE DEF gone
<1>3. /\ DOMAIN routes' = DOMAIN routes
      /\ \A r \in DOMAIN routes : /\ routes'[r].queue_limit = routes[r].queue_limit
                                  /\ routes'[r].queue = Without(Queue(r), gone)
  BY <1>1, <1>2 DEF RouteType, Queue
<1> QED
  BY <1>3, RouteLens, WithoutProperties DEF QueuesShorten

\* The bytes of a part of the live calls, and of the rest.
LEMMA BytesSplit ==
  ASSUME TypeInv, NEW out \in SUBSET Live
  PROVE  /\ BytesOf(Live) = BytesOf(out) + BytesOf(Live \ out)
         /\ BytesOf(Live) \in Nat /\ BytesOf(out) \in Nat /\ BytesOf(Live \ out) \in Nat
<1> DEFINE c == [i \in Live |-> calls[i].retained_bytes]
<1>1. IsFiniteSet(Live)
  BY LiveFinite
<1>2. \A i \in Live : c[i] \in Nat
  <2>1. \A i \in Live : calls[i] \in CallType
    BY LiveCall
  <2> QED
    BY <2>1, LimitAssumption DEF CallType
<1> HIDE DEF c
<1>3. /\ SumFunctionOnSet(c, Live) = SumFunctionOnSet(c, out) + SumFunctionOnSet(c, Live \ out)
      /\ {SumFunctionOnSet(c, Live), SumFunctionOnSet(c, out), SumFunctionOnSet(c, Live \ out)}
            \subseteq Nat
  BY <1>1, <1>2, SumSplit
<1> QED
  BY <1>3 DEF BytesOf, c

\* What is released is what the removed calls were charged.
LEMMA BytesReleased ==
  ASSUME TypeInv, NEW out, Release(out)
  PROVE  BytesOf(Live)' = BytesOf(Live \ out)
<1> DEFINE c == [i \in Live |-> calls[i].retained_bytes]
           d == [i \in Live \ out |-> calls'[i].retained_bytes]
<1>1. IsFiniteSet(Live \ out)
  BY LiveFinite
<1>2. \A i \in Live \ out : c[i] = d[i]
  BY DEF Release
<1>3. Live' = Live \ out /\ BytesOf(Live)' = SumFunctionOnSet(d, Live \ out)
  BY DEF BytesOf, Release, Live
<1> HIDE DEF c, d
<1>4. SumFunctionOnSet(c, Live \ out) = SumFunctionOnSet(d, Live \ out)
  BY <1>1, <1>2, SumSame
<1> QED
  BY <1>3, <1>4 DEF BytesOf, c

\* What leaves is released, so that the budgets hold.
LEMMA BudgetsRelease ==
  ASSUME TypeInv, TypeInv', BudgetsHold, QueuesShorten, NEW out, Release(out)
  PROVE  BudgetsHold'
<1>1. BytesOf(Live)' = BytesOf(Live \ out) /\ out \in SUBSET Live
  BY BytesReleased DEF Release
<1>2. /\ BytesOf(Live) = BytesOf(out) + BytesOf(Live \ out)
      /\ BytesOf(Live) \in Nat /\ BytesOf(out) \in Nat /\ BytesOf(Live \ out) \in Nat
  BY <1>1, BytesSplit
<1>3. retained_bytes' = retained_bytes - BytesOf(out)
  BY DEF Release
<1>4. retained_bytes' = BytesOf(Live)' /\ retained_bytes' <= MaxBytes
  BY <1>1, <1>2, <1>3, LimitAssumption DEF BudgetsHold
<1>5. Cardinality(Live \ out) <= Cardinality(Live)
  BY LiveFinite, FS_Subset
<1>6. Live' = Live \ out
  BY DEF Release, Live
<1>7. Cardinality(Live)' <= MaxCalls
  <2>1. Cardinality(Live) \in Nat /\ Cardinality(Live \ out) \in Nat
    BY LiveFinite, FS_CardinalityType
  <2> QED
    BY <1>5, <1>6, <2>1, LimitAssumption DEF BudgetsHold
<1>8. ASSUME NEW r \in DOMAIN routes'
      PROVE  Len(routes'[r].queue) <= routes'[r].queue_limit
  <2>1. /\ r \in DOMAIN routes /\ routes'[r].queue_limit = routes[r].queue_limit
        /\ Len(routes'[r].queue) <= Len(Queue(r))
    BY DEF QueuesShorten
  <2>2. Len(Queue(r)) \in Nat /\ routes[r].queue_limit \in Nat
    BY <2>1, RouteLens
  <2>3. Len(routes'[r].queue) \in Nat
    <3>1. routes'[r] \in RouteType
      BY DEF TypeInv, TypeOK, IsMap
    <3> QED
      BY <3>1, LenProperties DEF RouteType
  <2> QED
    BY <2>1, <2>2, <2>3 DEF BudgetsHold
<1> QED
  BY <1>4, <1>7, <1>8 DEF BudgetsHold, Queue

\* Where nothing that counts changes, the budgets hold.
LEMMA BudgetsKept ==
  ASSUME BudgetsHold, UNCHANGED <<calls, routes, retained_bytes>>
  PROVE  BudgetsHold'
BY DEF BudgetsHold, BytesOf, Live, Queue

\* The other calls of a step that removes calls stay as they are.
LEMMA ReleaseOmitted ==
  ASSUME NEW out \in SUBSET Live, calls' = Omit(calls, out),
         retained_bytes' = retained_bytes - BytesOf(out)
  PROVE  Release(out)
BY DEF Release, Omit, Restrict, Live

\* Overdue calls are live.
LEMMA OverdueLive ==
  ASSUME NEW r
  PROVE  Overdue(r) \in SUBSET Live
BY DEF Overdue

\* Overdue calls release their bytes.
LEMMA BudgetsExpired ==
  ASSUME TypeInv, TypeInv', BudgetsHold, NEW r \in DOMAIN routes, OverdueExpired(r)
  PROVE  BudgetsHold'
<1>1. Release(Overdue(r))
  BY OverdueLive, ReleaseOmitted DEF OverdueExpired
<1> QED
  BY <1>1, ShortenExpired, BudgetsRelease

\* An admitted request was checked against all three budgets after the overdue
\* calls were removed.
LEMMA BudgetsRequest ==
  ASSUME QueueInv, BudgetsHold, NEW k \in Callers, NEW r \in Routes, NEW b \in Costs,
         Request(k, r, b)
  PROVE  BudgetsHold'
<1> DEFINE q    == Without(Queue(r), Overdue(r))
           left == Live \ Overdue(r)
           c    == [i \in Live |-> calls[i].retained_bytes]
           d    == [i \in Live' |-> calls'[i].retained_bytes]
<1> USE DEF QueueInv
<1>1. /\ r \in DOMAIN routes /\ next_id \notin Live /\ next_id \in Ids
      /\ Live' = left \cup {next_id}
      /\ \A i \in left : calls'[i] = calls[i]
      /\ calls'[next_id].retained_bytes = b
  <2>1. calls'[next_id] = [caller |-> k, route |-> r, owner |-> None,
                           response |-> TRUE, retained_bytes |-> b]
    BY RequestCalls
  <2> QED
    BY <2>1, RequestCalls DEF Live
<1>2. /\ Len(q) < routes[r].queue_limit
      /\ Cardinality(left) < MaxCalls
      /\ b + (retained_bytes - BytesOf(Overdue(r))) <= MaxBytes
      /\ retained_bytes' = retained_bytes - BytesOf(Overdue(r)) + b
      /\ routes' = [routes EXCEPT ![r].queue = Enqueue(q, next_id)]
  BY DEF Request, Fits, Queue
<1>3. /\ BytesOf(Live) = BytesOf(Overdue(r)) + BytesOf(left)
      /\ BytesOf(Overdue(r)) \in Nat /\ BytesOf(left) \in Nat
  BY OverdueLive, BytesSplit
<1>4. b \in Nat
  BY LimitAssumption
<1>5. IsFiniteSet(left)
  BY LiveFinite
<1>6. BytesOf(Live)' = b + BytesOf(left)
  <2>1. BytesOf(Live)' = SumFunctionOnSet(d, left \cup {next_id})
    BY <1>1 DEF BytesOf
  <2>2. IsFiniteSet(left \cup {next_id}) /\ (left \cup {next_id}) \ {next_id} = left
    BY <1>1, <1>5, FS_AddElement
  <2>3. d[next_id] = b /\ \A i \in left : d[i] = c[i]
    BY <1>1
  <2>4. \A i \in left : c[i] \in Nat
    <3>1. \A i \in Live : calls[i] \in CallType
      BY LiveCall
    <3> QED
      BY <3>1, LimitAssumption DEF CallType
  <2> HIDE DEF c, d, left
  <2>5. \A i \in left \cup {next_id} : d[i] \in Nat
    BY <1>4, <2>3, <2>4
  <2>6. SumFunctionOnSet(d, left \cup {next_id}) = d[next_id] + SumFunctionOnSet(d, left)
    BY <2>2, <2>5, SumRemove
  <2>7. SumFunctionOnSet(d, left) = SumFunctionOnSet(c, left)
    BY <1>5, <2>3, SumSame
  <2> QED
    BY <2>1, <2>3, <2>6, <2>7 DEF BytesOf, c
<1>7. retained_bytes' = BytesOf(Live)' /\ retained_bytes' <= MaxBytes
  BY <1>2, <1>3, <1>4, <1>6, LimitAssumption DEF BudgetsHold
<1>8. Cardinality(Live)' <= MaxCalls
  <2>1. Cardinality(left \cup {next_id}) = Cardinality(left) + 1
    BY <1>1, <1>5, FS_AddElement
  <2>2. Cardinality(left) \in Nat
    BY <1>5, FS_CardinalityType
  <2> HIDE DEF left
  <2> QED
    BY <1>1, <1>2, <2>1, <2>2, LimitAssumption
<1>9. ASSUME NEW x \in DOMAIN routes'
      PROVE  Len(routes'[x].queue) <= routes'[x].queue_limit
  <2>1. \A y \in DOMAIN routes : routes[y] \in RouteType
    BY DEF TypeInv, TypeOK, IsMap
  <2>2. q \in Seq(Ids)
    BY <1>1, QueueWithout
  <2>3. Len(Enqueue(q, next_id)) = Len(q) + 1 /\ Len(q) \in Nat
    BY <1>1, <2>2, EnqueueProperties, LenProperties
  <2> HIDE DEF q
  <2>4. /\ DOMAIN routes' = DOMAIN routes
        /\ routes'[r].queue = Enqueue(q, next_id)
        /\ routes'[r].queue_limit = routes[r].queue_limit
        /\ \A y \in DOMAIN routes \ {r} : routes'[y] = routes[y]
    BY <1>1, <1>2, <2>1 DEF RouteType
  <2>5. routes[r].queue_limit \in Nat
    BY <1>1, RouteLens
  <2> QED
    BY <1>1, <1>2, <2>3, <2>4, <2>5 DEF BudgetsHold, Queue
<1> QED
  BY <1>7, <1>8, <1>9 DEF BudgetsHold, Queue

\* A disconnect releases the bytes of what it removes.
LEMMA BudgetsDisconnect ==
  ASSUME QueueInv, TypeInv', BudgetsHold, NEW k \in Conns, Disconnect(k)
  PROVE  BudgetsHold'
<1> DEFINE out == Withdrawn(k) \cup Failed(k)
<1>1. CallsShrink(out)
  BY DisconnectCalls DEF QueueInv
<1>2. Stranded(k) \subseteq Live
  BY WorkerRoute, QueuedCalls DEF Stranded, LastWorker, QueueInv
<1>3. out \in SUBSET Live
  BY <1>2 DEF Withdrawn, Unowned, MadeBy, Failed, OwnedBy
<1>4. retained_bytes' = retained_bytes - BytesOf(out)
  BY DEF Disconnect
<1> HIDE DEF out
<1>5. Release(out)
  BY <1>1, <1>3, <1>4 DEF Release, CallsShrink
<1> QED
  BY <1>5, ShortenDisconnect, BudgetsRelease DEF QueueInv

\* A take releases the bytes of what it finds overdue; the job it takes keeps its
\* own.
LEMMA BudgetsTakeStep ==
  ASSUME QueueInv, TypeInv', BudgetsHold, NEW t \in Takers, TakeStep(t)
  PROVE  BudgetsHold'
<1> DEFINE r    == workers[t[1]].route
           head == Head(Offered(t[1]))
<1>1. CASE TakeEmpty(t)
  BY <1>1, WorkerRoute, BudgetsExpired DEF TakeEmpty, QueueInv
<1>2. CASE TakeLapsed(t)
  <2>1. /\ t[1] \in DOMAIN workers /\ Offered(t[1]) # <<>>
        /\ calls' = Omit(calls, Overdue(r) \cup {head})
        /\ retained_bytes' = retained_bytes - BytesOf(Overdue(r) \cup {head})
        /\ routes' = [routes EXCEPT ![r].queue = Popped(t[1])]
    BY <1>2 DEF TakeLapsed
  <2>2. head \in Live
    BY <2>1, OfferedCalls, QueuedCalls
  <2>3. Overdue(r) \cup {head} \in SUBSET Live
    BY <2>2, OverdueLive
  <2>4. Release(Overdue(r) \cup {head})
    BY <2>1, <2>3, ReleaseOmitted
  <2> QED
    BY <2>1, <2>4, ShortenPopped, BudgetsRelease DEF QueueInv
<1>3. CASE TakeJob(t)
  <2>1. /\ t[1] \in DOMAIN workers /\ Offered(t[1]) # <<>>
        /\ retained_bytes' = retained_bytes - BytesOf(Overdue(r))
        /\ routes' = [routes EXCEPT ![r].queue = Popped(t[1])]
    BY <1>3 DEF TakeJob
  <2>2. /\ DOMAIN calls' = Live \ Overdue(r)
        /\ \A i \in Live \ (Overdue(r) \cup {head}) : calls'[i] = calls[i]
        /\ calls'[head].retained_bytes = calls[head].retained_bytes
    <3>1. \A h : h = head =>
            /\ DOMAIN calls' = Live \ Overdue(r)
            /\ \A i \in Live \ (Overdue(r) \cup {h}) : calls'[i] = calls[i]
            /\ calls'[h].retained_bytes = calls[h].retained_bytes
      BY <1>3, TakeJobCalls
    <3> QED
      BY <3>1
  <2> HIDE DEF head
  <2>3. Release(Overdue(r))
    BY <2>1, <2>2, OverdueLive DEF Release
  <2> QED
    BY <2>1, <2>3, ShortenPopped, BudgetsRelease DEF QueueInv
<1>4. CASE \/ TakeEnter(t) \/ TakeArm(t) \/ TakeUnauthorized(t) \/ TakeNoSlot(t) \/ TakeAwait(t)
           \/ TakeElapsed(t) \/ TakeAborted(t) \/ TakeLeave(t)
  <2>1. UNCHANGED <<calls, routes, retained_bytes>>
    BY <1>4 DEF TakeEnter, TakeArm, TakeUnauthorized, TakeNoSlot, TakeAwait, TakeElapsed,
                TakeAborted, TakeLeave, state
  <2> QED
    BY <2>1, BudgetsKept
<1> QED
  BY <1>1, <1>2, <1>3, <1>4 DEF TakeStep, TakeRuns

\* A response that is taken releases a call nobody owns.
LEMMA BudgetsTicketStep ==
  ASSUME TypeInv, TypeInv', BudgetsHold, NEW i \in DOMAIN tickets, TicketStep(i)
  PROVE  BudgetsHold'
<1>1. CASE TicketExpire(i) \/ TicketDrop(i)
  <2> DEFINE gone == Unowned({i} \cap Live)
  <2>1. ResponseTaken(i)
    BY <1>1 DEF TicketExpire, TicketDrop
  <2>2. CallsShrink(gone) /\ retained_bytes' = retained_bytes - BytesOf(gone)
    BY <2>1, ResponseTakenCalls DEF ResponseTaken
  <2>3. gone \in SUBSET Live
    BY DEF Unowned
  <2> HIDE DEF gone
  <2>4. Release(gone)
    BY <2>2, <2>3 DEF Release, CallsShrink
  <2> QED
    BY <2>1, <2>4, ShortenResponseTaken, BudgetsRelease
<1>2. CASE TicketReceive(i) \/ TicketElapsed(i) \/ TicketAborted(i)
  BY <1>2, BudgetsKept DEF TicketReceive, TicketElapsed, TicketAborted, state
<1> QED
  BY <1>1, <1>2 DEF TicketStep, TicketRuns

\* The budgets hold after any step.
LEMMA BudgetsNext == QueueInv /\ BudgetsHold /\ [Next]_vars => BudgetsHold'
<1> SUFFICES ASSUME QueueInv, BudgetsHold, [Next]_vars PROVE BudgetsHold'
  OBVIOUS
<1>0. TypeInv'
  BY TypeInvNext DEF QueueInv
<1>1. CASE ConnectionStep
  <2>1. ASSUME NEW k \in Conns, Connect(k)
        PROVE  BudgetsHold'
    BY <2>1, BudgetsKept DEF Connect
  <2>2. ASSUME NEW k \in Conns, Disconnect(k)
        PROVE  BudgetsHold'
    BY <1>0, <2>2, BudgetsDisconnect
  <2>3. ASSUME NEW w \in Servers, NEW r \in Routes, NEW c \in Concurrencies,
               NEW l \in QueueLimits, Register(w, r, c, l)
        PROVE  BudgetsHold'
    <3>1. UNCHANGED <<calls, retained_bytes>>
      BY <2>3 DEF Register
    <3>2. ASSUME NEW x \in DOMAIN routes'
          PROVE  Len(routes'[x].queue) <= routes'[x].queue_limit
      <4>1. CASE r \in DOMAIN routes
        <5>1. routes' = [routes EXCEPT ![r].workers = @ \cup {w}]
          BY <2>3, <4>1 DEF Register
        <5>2. \A y \in DOMAIN routes : routes[y] \in RouteType
          BY DEF QueueInv, TypeInv, TypeOK, IsMap
        <5>3. /\ x \in DOMAIN routes /\ routes'[x].queue = Queue(x)
              /\ routes'[x].queue_limit = routes[x].queue_limit
          BY <5>1, <5>2 DEF RouteType, Queue
        <5> QED
          BY <5>3 DEF BudgetsHold
      <4>2. CASE r \notin DOMAIN routes
        <5>1. routes' = Put(routes, r, [workers |-> {w}, queue |-> <<>>, queue_limit |-> l])
          BY <2>3, <4>2 DEF Register
        <5>2. CASE x = r
          BY <4>2, <5>1, <5>2, LimitAssumption DEF Put
        <5>3. CASE x # r
          BY <4>2, <5>1, <5>3 DEF Put, BudgetsHold, Queue
        <5> QED
          BY <5>2, <5>3
      <4> QED
        BY <4>1, <4>2
    <3> QED
      BY <3>1, <3>2 DEF BudgetsHold, BytesOf, Live, Queue
  <2>4. ASSUME NEW k \in Callers, NEW r \in Routes, NEW b \in Costs, Request(k, r, b)
        PROVE  BudgetsHold'
    BY <2>4, BudgetsRequest
  <2>5. ASSUME NEW k \in Callers, NEW r \in Routes, NEW b \in Costs, RequestOverloaded(k, r, b)
        PROVE  BudgetsHold'
    BY <1>0, <2>5, BudgetsExpired DEF RequestOverloaded, QueueInv
  <2>6. ASSUME NEW w \in Servers, NEW i \in Live, NEW failed \in BOOLEAN, Complete(w, i, failed)
        PROVE  BudgetsHold'
    <3>1. Release({i}) /\ routes' = routes
      BY <2>6, ReleaseOmitted DEF Complete
    <3> QED
      BY <1>0, <3>1, ShortenKept, BudgetsRelease DEF QueueInv
  <2> QED
    BY <1>1, <2>1, <2>2, <2>3, <2>4, <2>5, <2>6 DEF ConnectionStep
<1>2. CASE \E t \in Takers : TakeStep(t)
  BY <1>0, <1>2, BudgetsTakeStep
<1>3. CASE \E i \in DOMAIN tickets : TicketStep(i)
  BY <1>0, <1>3, BudgetsTicketStep DEF QueueInv
<1>4. CASE (\E i \in DOMAIN tickets : DeadlinePasses(i)) \/ UNCHANGED vars
  BY <1>4, BudgetsKept DEF DeadlinePasses, vars, state
<1> QED
  BY <1>1, <1>2, <1>3, <1>4 DEF Next

\* retained_bytes is the sum over the live calls, and the byte, call and queue
\* budgets hold at every moment: rpc.rs, the admission check of Rpc::request and
\* every path that removes a call.
THEOREM BudgetsAreKept == Spec => []BudgetsHold
<1>1. ASSUME Init PROVE BudgetsHold
  <2>1. Live = {} /\ DOMAIN routes = {} /\ retained_bytes = 0
    BY <1>1 DEF Init, Empty, Live
  <2>2. BytesOf({}) = 0
    BY FS_EmptySet, SumStep DEF BytesOf
  <2> QED
    BY <2>1, <2>2, FS_EmptySet, LimitAssumption DEF BudgetsHold
<1> QED
  BY <1>1, QueueInvInit, QueueInvNext, BudgetsNext, PTL DEF Spec

-----------------------------------------------------------------------------
(* Order.                                                                  *)

\* Queues hold their calls in the order of admission.
QueuesOrdered == \A r \in DOMAIN routes : Increasing(Queue(r))

\* Queues that got shorter are still in order.
LEMMA OrderShortened ==
  ASSUME QueuesOrdered, QueuesShorten
  PROVE  QueuesOrdered'
BY DEF QueuesOrdered, QueuesShorten, Queue

\* A new route has an empty queue.
LEMMA OrderRegister ==
  ASSUME TypeInv, QueuesOrdered, NEW w \in Servers, NEW r \in Routes,
         NEW c \in Concurrencies, NEW l \in QueueLimits, Register(w, r, c, l)
  PROVE  QueuesOrdered'
<1>1. CASE r \in DOMAIN routes
  <2>1. routes' = [routes EXCEPT ![r].workers = @ \cup {w}]
    BY <1>1 DEF Register
  <2>2. \A y \in DOMAIN routes : routes[y] \in RouteType
    BY DEF TypeInv, TypeOK, IsMap
  <2>3. DOMAIN routes' = DOMAIN routes /\ \A x \in DOMAIN routes : routes'[x].queue = Queue(x)
    BY <2>1, <2>2 DEF RouteType, Queue
  <2> QED
    BY <2>3 DEF QueuesOrdered, Queue
<1>2. CASE r \notin DOMAIN routes
  <2>1. routes' = Put(routes, r, [workers |-> {w}, queue |-> <<>>, queue_limit |-> l])
    BY <1>2 DEF Register
  <2>2. Increasing(<<>>)
    BY DEF Increasing
  <2>3. /\ DOMAIN routes' = DOMAIN routes \cup {r}
        /\ routes'[r].queue = <<>>
        /\ \A x \in DOMAIN routes : routes'[x] = routes[x]
    BY <1>2, <2>1 DEF Put
  <2> QED
    BY <2>2, <2>3 DEF QueuesOrdered, Queue
<1> QED
  BY <1>1, <1>2

\* A new call has the largest id so far.
LEMMA OrderRequest ==
  ASSUME QueueInv, QueuesOrdered, NEW k \in Callers, NEW r \in Routes, NEW b \in Costs,
         Request(k, r, b)
  PROVE  QueuesOrdered'
<1> DEFINE q == Without(Queue(r), Overdue(r))
<1>1. /\ r \in DOMAIN routes /\ next_id \in Ids
      /\ routes' = [routes EXCEPT ![r].queue = Enqueue(q, next_id)]
  BY RequestCalls DEF Request, Queue, QueueInv
<1>2. q \in Seq(Ids) /\ Range(q) \subseteq Live /\ Increasing(q)
  <2>1. Range(Queue(r)) \subseteq Live /\ Queue(r) \in Seq(Ids) /\ Increasing(Queue(r))
    BY <1>1, QueuedCalls DEF QueuesOrdered
  <2> QED
    BY <2>1, WithoutProperties
<1>3. \A i \in Live : i < next_id
  BY LimitAssumption DEF QueueInv, TypeInv, TypeOK, IsMap, Live
<1> HIDE DEF q
<1>4. Increasing(Enqueue(q, next_id))
  BY <1>1, <1>2, <1>3, EnqueueProperties
<1>5. /\ DOMAIN routes' = DOMAIN routes
      /\ routes'[r].queue = Enqueue(q, next_id)
      /\ \A x \in DOMAIN routes \ {r} : routes'[x].queue = Queue(x)
  BY <1>1, OneQueue DEF QueueInv, Queue
<1> QED
  BY <1>4, <1>5 DEF QueuesOrdered, Queue

\* The queues stay in order of arrival, after any step.
LEMMA OrderNext == QueueInv /\ QueuesOrdered /\ [Next]_vars => QueuesOrdered'
<1> SUFFICES ASSUME QueueInv, QueuesOrdered, [Next]_vars PROVE QueuesOrdered'
  OBVIOUS
<1> USE DEF QueueInv
<1>1. CASE ConnectionStep
  <2>1. ASSUME NEW k \in Conns, Connect(k)
        PROVE  QueuesOrdered'
    BY <2>1, ShortenKept, OrderShortened DEF Connect
  <2>2. ASSUME NEW k \in Conns, Disconnect(k)
        PROVE  QueuesOrdered'
    BY <2>2, ShortenDisconnect, OrderShortened
  <2>3. ASSUME NEW w \in Servers, NEW r \in Routes, NEW c \in Concurrencies,
               NEW l \in QueueLimits, Register(w, r, c, l)
        PROVE  QueuesOrdered'
    BY <2>3, OrderRegister
  <2>4. ASSUME NEW k \in Callers, NEW r \in Routes, NEW b \in Costs, Request(k, r, b)
        PROVE  QueuesOrdered'
    BY <2>4, OrderRequest
  <2>5. ASSUME NEW k \in Callers, NEW r \in Routes, NEW b \in Costs, RequestOverloaded(k, r, b)
        PROVE  QueuesOrdered'
    BY <2>5, ShortenExpired, OrderShortened DEF RequestOverloaded
  <2>6. ASSUME NEW w \in Servers, NEW i \in Live, NEW failed \in BOOLEAN, Complete(w, i, failed)
        PROVE  QueuesOrdered'
    BY <2>6, ShortenKept, OrderShortened DEF Complete
  <2> QED
    BY <1>1, <2>1, <2>2, <2>3, <2>4, <2>5, <2>6 DEF ConnectionStep
<1>2. ASSUME NEW t \in Takers, TakeStep(t)
      PROVE  QueuesOrdered'
  <2>1. CASE TakeEmpty(t)
    BY <2>1, WorkerRoute, ShortenExpired, OrderShortened DEF TakeEmpty
  <2>2. CASE TakeLapsed(t) \/ TakeJob(t)
    BY <2>2, ShortenPopped, OrderShortened DEF TakeLapsed, TakeJob
  <2>3. CASE \/ TakeEnter(t) \/ TakeArm(t) \/ TakeUnauthorized(t) \/ TakeNoSlot(t) \/ TakeAwait(t)
             \/ TakeElapsed(t) \/ TakeAborted(t) \/ TakeLeave(t)
    <3>1. routes' = routes
      BY <2>3 DEF TakeEnter, TakeArm, TakeUnauthorized, TakeNoSlot, TakeAwait, TakeElapsed,
                  TakeAborted, TakeLeave, state
    <3> QED
      BY <3>1, ShortenKept, OrderShortened
  <2> QED
    BY <1>2, <2>1, <2>2, <2>3 DEF TakeStep, TakeRuns
<1>3. ASSUME NEW i \in DOMAIN tickets, TicketStep(i)
      PROVE  QueuesOrdered'
  <2>1. CASE TicketExpire(i) \/ TicketDrop(i)
    BY <2>1, ShortenResponseTaken, OrderShortened DEF TicketExpire, TicketDrop
  <2>2. CASE TicketReceive(i) \/ TicketElapsed(i) \/ TicketAborted(i)
    BY <2>2, ShortenKept, OrderShortened DEF TicketReceive, TicketElapsed, TicketAborted, state
  <2> QED
    BY <1>3, <2>1, <2>2 DEF TicketStep, TicketRuns
<1>4. CASE (\E i \in DOMAIN tickets : DeadlinePasses(i)) \/ UNCHANGED vars
  BY <1>4, ShortenKept, OrderShortened DEF DeadlinePasses, vars, state
<1> QED
  BY <1>1, <1>2, <1>3, <1>4 DEF Next

OldestStep ==
  \A i \in Live \cap DOMAIN calls' :
    calls[i].owner = None /\ calls'[i].owner # None =>
      /\ i \notin late'
      /\ \A j \in DOMAIN calls' :
           calls'[j].owner = None /\ calls'[j].route = calls[i].route => i < j

\* Only try_take gives a call an owner.
LEMMA OldestElsewhere ==
  ASSUME \A i \in Live \cap DOMAIN calls' : calls'[i].owner = calls[i].owner
  PROVE  OldestStep
BY DEF OldestStep

\* A step that only removes calls hands out none.
LEMMA OldestShrink ==
  ASSUME NEW out, CallsShrink(out)
  PROVE  OldestStep
BY OldestElsewhere DEF CallsShrink

\* try_take hands out the head of a queue that holds nothing overdue.
LEMMA OldestTakeJob ==
  ASSUME QueueInv, QueuesOrdered, NEW t \in Takers, TakeJob(t)
  PROVE  OldestStep
<1> DEFINE r    == workers[t[1]].route
           q    == Offered(t[1])
           head == Head(q)
<1>1. t[1] \in DOMAIN workers /\ q # <<>> /\ late' = late
  BY DEF TakeJob
<1>2. /\ r \in DOMAIN routes
      /\ head \in Live /\ head \notin late /\ calls[head].route = r
      /\ Range(q) = Range(Queue(r)) \ Overdue(r)
      /\ Increasing(q) /\ q \in Seq(Ids) /\ IsInjective(q)
  <2>1. r \in DOMAIN routes /\ head \in Range(Queue(r)) \ Overdue(r)
    BY <1>1, OfferedCalls
  <2>2. head \in Live /\ calls[head].route = r
    BY <2>1, QueuedCalls
  <2>3. head \notin late
    BY <2>1, <2>2 DEF Overdue
  <2>4. Queue(r) \in Seq(Ids) /\ Increasing(Queue(r)) /\ IsInjective(Queue(r))
    BY <2>1, QueuedCalls DEF QueuesOrdered
  <2>5. /\ Increasing(q) /\ q \in Seq(Ids) /\ IsInjective(q)
        /\ Range(q) = Range(Queue(r)) \ Overdue(r)
    BY <2>4, WithoutProperties DEF Offered
  <2> QED
    BY <2>1, <2>2, <2>3, <2>5
<1>3. \A j \in Range(q) : j # head => head < j
  BY <1>1, <1>2, PopProperties
<1>4. /\ DOMAIN calls' = Live \ Overdue(r)
      /\ \A i \in Live \ (Overdue(r) \cup {head}) : calls'[i] = calls[i]
      /\ calls'[head].owner = t[1]
  BY TakeJobCalls
<1>5. t[1] # None
  BY <1>1, WorkerFields DEF QueueInv
<1>6. Range(Queue(r)) = {i \in Live : calls[i].owner = None /\ calls[i].route = r}
  BY <1>2 DEF QueueInv, QueueIntegrity
<1> HIDE DEF q, r, head
<1>7. ASSUME NEW j \in DOMAIN calls', calls'[j].owner = None, calls'[j].route = r
      PROVE  head < j
  <2>1. j # head
    BY <1>4, <1>5, <1>7
  <2>2. j \in Range(q)
    BY <1>2, <1>4, <1>6, <1>7, <2>1
  <2> QED
    BY <1>3, <2>1, <2>2
<1>8. ASSUME NEW i \in Live \cap DOMAIN calls', calls[i].owner = None, calls'[i].owner # None
      PROVE  i = head
  BY <1>4, <1>8
<1> QED
  BY <1>1, <1>2, <1>7, <1>8 DEF OldestStep

\* A step that hands out a call hands out the oldest of its route.
LEMMA OldestNext == QueueInv /\ QueuesOrdered /\ [Next]_vars => [OldestStep]_vars
<1> SUFFICES ASSUME QueueInv, QueuesOrdered, Next PROVE OldestStep
  OBVIOUS
<1> USE DEF QueueInv
<1>1. CASE ConnectionStep
  <2>1. ASSUME NEW k \in Conns, Connect(k)
        PROVE  OldestStep
    BY <2>1, CallsSame, OldestShrink DEF Connect
  <2>2. ASSUME NEW k \in Conns, Disconnect(k)
        PROVE  OldestStep
    BY <2>2, DisconnectCalls, OldestShrink
  <2>3. ASSUME NEW w \in Servers, NEW r \in Routes, NEW c \in Concurrencies,
               NEW l \in QueueLimits, Register(w, r, c, l)
        PROVE  OldestStep
    BY <2>3, CallsSame, OldestShrink DEF Register
  <2>4. ASSUME NEW k \in Callers, NEW r \in Routes, NEW b \in Costs, Request(k, r, b)
        PROVE  OldestStep
    <3>1. /\ next_id \notin Live /\ DOMAIN calls' = (Live \ Overdue(r)) \cup {next_id}
          /\ \A i \in Live \ Overdue(r) : calls'[i] = calls[i]
      BY <2>4, RequestCalls
    <3> QED
      BY <3>1, OldestElsewhere
  <2>5. ASSUME NEW k \in Callers, NEW r \in Routes, NEW b \in Costs, RequestOverloaded(k, r, b)
        PROVE  OldestStep
    BY <2>5, OmittedCalls, OldestShrink DEF RequestOverloaded, OverdueExpired
  <2>6. ASSUME NEW w \in Servers, NEW i \in Live, NEW failed \in BOOLEAN, Complete(w, i, failed)
        PROVE  OldestStep
    BY <2>6, OmittedCalls, OldestShrink DEF Complete
  <2> QED
    BY <1>1, <2>1, <2>2, <2>3, <2>4, <2>5, <2>6 DEF ConnectionStep
<1>2. ASSUME NEW t \in Takers, TakeStep(t)
      PROVE  OldestStep
  <2>1. CASE TakeEmpty(t)
    BY <2>1, OmittedCalls, OldestShrink DEF TakeEmpty, OverdueExpired
  <2>2. CASE TakeLapsed(t)
    BY <2>2, OmittedCalls, OldestShrink DEF TakeLapsed
  <2>3. CASE TakeJob(t)
    BY <2>3, OldestTakeJob
  <2>4. CASE \/ TakeEnter(t) \/ TakeArm(t) \/ TakeUnauthorized(t) \/ TakeNoSlot(t) \/ TakeAwait(t)
             \/ TakeElapsed(t) \/ TakeAborted(t) \/ TakeLeave(t)
    <3>1. calls' = calls
      BY <2>4 DEF TakeEnter, TakeArm, TakeUnauthorized, TakeNoSlot, TakeAwait, TakeElapsed,
                  TakeAborted, TakeLeave, state
    <3> QED
      BY <3>1, CallsSame, OldestShrink
  <2> QED
    BY <1>2, <2>1, <2>2, <2>3, <2>4 DEF TakeStep, TakeRuns
<1>3. ASSUME NEW i \in DOMAIN tickets, TicketStep(i)
      PROVE  OldestStep
  <2>1. CASE TicketExpire(i) \/ TicketDrop(i)
    BY <2>1, ResponseTakenCalls, OldestShrink DEF TicketExpire, TicketDrop
  <2>2. CASE TicketReceive(i) \/ TicketElapsed(i) \/ TicketAborted(i)
    BY <2>2, CallsSame, OldestShrink DEF TicketReceive, TicketElapsed, TicketAborted, state
  <2> QED
    BY <1>3, <2>1, <2>2 DEF TicketStep, TicketRuns
<1>4. ASSUME NEW i \in DOMAIN tickets, DeadlinePasses(i)
      PROVE  OldestStep
  BY <1>4, CallsSame, OldestShrink DEF DeadlinePasses, state
<1> QED
  BY <1>1, <1>2, <1>3, <1>4 DEF Next

\* A call is handed out in admission order within its route and never after its
\* deadline: rpc.rs, try_take expires the overdue calls of the route and pops the
\* front of its queue.
THEOREM OldestIsDispatched == Spec => DispatchOldestInTime
<1>1. Init => QueuesOrdered
  BY DEF Init, Empty, QueuesOrdered
<1> QED
  BY <1>1, QueueInvInit, QueueInvNext, OrderNext, OldestNext, PTL
  DEF Spec, DispatchOldestInTime, OldestStep


-----------------------------------------------------------------------------
(* What a ticket knows.                                                    *)

\* A worker's or the broker's answer waits in a channel only once the call has
\* been removed, and a deadline is reported only when it has passed.
TicketsRight ==
  /\ late \subseteq DOMAIN tickets
  /\ \A i \in DOMAIN tickets :
       /\ tickets[i].pc = "waiting" =>
            /\ tickets[i].reply # "aborted"
            /\ tickets[i].reply \notin {"none", "closed"} => i \notin Live
            /\ tickets[i].reply = "deadline" => i \in late
       /\ tickets[i].pc = "expiring" => tickets[i].reply = "none" /\ i \in late

\* Answering removed calls keeps the tickets right.
LEMMA TicketsAnswered ==
  ASSUME TypeInv, TicketsRight, NEW out, NEW reply, reply \notin {"none", "closed", "aborted"},
         tickets' = Responded(out, reply), DOMAIN calls' = Live \ out,
         late \subseteq late', late' \subseteq DOMAIN tickets,
         reply = "deadline" => out \cap Live \subseteq late'
  PROVE  TicketsRight'
<1>1. DOMAIN tickets' = DOMAIN tickets
  BY DEF Responded
<1>2. ASSUME NEW i \in DOMAIN tickets'
      PROVE  /\ tickets'[i].pc = "waiting" =>
                  /\ tickets'[i].reply # "aborted"
                  /\ tickets'[i].reply \notin {"none", "closed"} => i \notin DOMAIN calls'
                  /\ tickets'[i].reply = "deadline" => i \in late'
             /\ tickets'[i].pc = "expiring" => tickets'[i].reply = "none" /\ i \in late'
  <2>1. /\ i \in DOMAIN tickets /\ tickets'[i].pc = tickets[i].pc
        /\ tickets'[i].reply =
             IF i \in out \cap Live /\ calls[i].response /\ tickets[i].pc = "waiting"
             THEN reply ELSE tickets[i].reply
    BY <1>1, RespondedTicket
  <2> QED
    BY <2>1 DEF TicketsRight
<1> QED
  BY <1>1, <1>2 DEF TicketsRight, Live

\* Where neither tickets nor calls change, the tickets are right.
LEMMA TicketsKept ==
  ASSUME TicketsRight, tickets' = tickets, late \subseteq late', late' \subseteq DOMAIN tickets,
         DOMAIN calls' = Live
  PROVE  TicketsRight'
BY DEF TicketsRight, Live

\* A disconnect closes the tickets of its calls and fails those its worker had.
LEMMA TicketsDisconnect ==
  ASSUME QueueInv, TicketsRight, NEW k \in Conns, Disconnect(k)
  PROVE  TicketsRight'
<1>1. /\ DOMAIN calls' \subseteq Live \ Failed(k) /\ late' = late
      /\ DOMAIN tickets' = DOMAIN tickets
  BY DisconnectCalls DEF CallsShrink, Disconnect, QueueInv
<1>2. ASSUME NEW i \in DOMAIN tickets
      PROVE  /\ tickets'[i].pc = tickets[i].pc
             /\ \/ tickets'[i].reply = tickets[i].reply
                \/ /\ tickets[i].pc = "waiting"
                   /\ \/ tickets'[i].reply = "closed"
                      \/ tickets'[i].reply = "unavailable" /\ i \in Failed(k)
  <2>1. \/ tickets'[i] = Responded({i}, "closed")[i]
        \/ tickets'[i] = Responded(Failed(k), "unavailable")[i]
    BY DEF Disconnect
  <2> QED
    BY <2>1, RespondedTicket DEF QueueInv
<1> QED
  BY <1>1, <1>2 DEF TicketsRight, Live

\* A new ticket is unanswered while its call lives.
LEMMA TicketsRequest ==
  ASSUME QueueInv, TicketsRight, NEW k \in Callers, NEW r \in Routes, NEW b \in Costs,
         Request(k, r, b)
  PROVE  TicketsRight'
<1> DEFINE ticket == [caller |-> k, pc |-> "waiting", reply |-> "none"]
           answered == Responded(Overdue(r), "deadline")
<1>1. /\ next_id \notin DOMAIN tickets
      /\ DOMAIN calls' = (Live \ Overdue(r)) \cup {next_id}
  BY RequestCalls DEF QueueInv
<1>2. tickets' = Put(answered, next_id, ticket) /\ late' = late
  BY DEF Request
<1>3. DOMAIN answered = DOMAIN tickets /\ ticket.pc = "waiting" /\ ticket.reply = "none"
  BY DEF Responded
<1> HIDE DEF ticket, answered
<1>4. /\ DOMAIN tickets' = DOMAIN tickets \cup {next_id}
      /\ tickets'[next_id] = ticket
      /\ \A i \in DOMAIN tickets : tickets'[i] = answered[i]
  BY <1>1, <1>2, <1>3 DEF Put
<1>5. ASSUME NEW i \in DOMAIN tickets
      PROVE  /\ tickets'[i].pc = tickets[i].pc
             /\ tickets'[i].reply =
                  IF i \in Overdue(r) \cap Live /\ calls[i].response /\ tickets[i].pc = "waiting"
                  THEN "deadline" ELSE tickets[i].reply
  BY <1>4, RespondedTicket DEF answered, QueueInv
<1>6. Overdue(r) \subseteq late
  BY DEF Overdue
<1> QED
  BY <1>1, <1>2, <1>3, <1>4, <1>5, <1>6 DEF TicketsRight, Live

\* Calls that expire are answered with the deadline they missed.
LEMMA TicketsExpired ==
  ASSUME TypeInv, TicketsRight, NEW out, tickets' = Responded(out, "deadline"),
         calls' = Omit(calls, out), late \subseteq late', late' \subseteq DOMAIN tickets,
         out \cap Live \subseteq late'
  PROVE  TicketsRight'
<1>1. DOMAIN calls' = Live \ out
  BY DEF Omit, Restrict, Live
<1> QED
  BY <1>1, TicketsAnswered

\* A take answers what it finds overdue.
LEMMA TicketsTakeStep ==
  ASSUME QueueInv, TicketsRight, NEW t \in Takers, TakeStep(t)
  PROVE  TicketsRight'
<1>0. late \subseteq DOMAIN tickets /\ \A r : Overdue(r) \subseteq late
  BY DEF TicketsRight, Overdue
<1>1. CASE TakeEmpty(t)
  BY <1>0, <1>1, TicketsExpired DEF TakeEmpty, OverdueExpired, QueueInv
<1>2. CASE TakeLapsed(t)
  <2> DEFINE head == Head(Offered(t[1]))
             gone == Overdue(workers[t[1]].route) \cup {head}
  <2>1. /\ late' = late \cup {head} /\ tickets' = Responded(gone, "deadline")
        /\ calls' = Omit(calls, gone)
        /\ t[1] \in DOMAIN workers /\ Offered(t[1]) # <<>>
    BY <1>2 DEF TakeLapsed
  <2>2. head \in DOMAIN tickets
    BY <2>1, OfferedCalls, QueuedCalls, LiveTicket DEF QueueInv
  <2>3. gone \cap Live \subseteq late'
    BY <1>0, <2>1
  <2> HIDE DEF gone, head
  <2> QED
    BY <1>0, <2>1, <2>2, <2>3, TicketsExpired DEF QueueInv
<1>3. CASE TakeJob(t)
  <2> DEFINE out == Overdue(workers[t[1]].route)
  <2>1. DOMAIN calls' = Live \ out
    BY <1>3, TakeJobCalls
  <2>2. tickets' = Responded(out, "deadline") /\ late' = late /\ out \cap Live \subseteq late
    BY <1>0, <1>3 DEF TakeJob
  <2> HIDE DEF out
  <2> QED
    BY <1>0, <2>1, <2>2, TicketsAnswered DEF QueueInv
<1>4. CASE \/ TakeEnter(t) \/ TakeArm(t) \/ TakeUnauthorized(t) \/ TakeNoSlot(t) \/ TakeAwait(t)
           \/ TakeElapsed(t) \/ TakeAborted(t) \/ TakeLeave(t)
  <2>1. UNCHANGED <<calls, tickets, late>>
    BY <1>4 DEF TakeEnter, TakeArm, TakeUnauthorized, TakeNoSlot, TakeAwait, TakeElapsed,
                TakeAborted, TakeLeave, state
  <2> QED
    BY <1>0, <2>1, TicketsKept DEF Live
<1> QED
  BY <1>1, <1>2, <1>3, <1>4 DEF TakeStep, TakeRuns

\* What a ticket's own steps do to it.
LEMMA TicketMoves ==
  ASSUME TypeInv, NEW i \in DOMAIN tickets, NEW pc, NEW reply, TicketAt(i, pc, reply)
  PROVE  /\ DOMAIN tickets' = DOMAIN tickets
         /\ tickets'[i].pc = pc /\ tickets'[i].reply = reply
         /\ tickets'[i].caller = tickets[i].caller
         /\ \A x \in DOMAIN tickets \ {i} : tickets'[x] = tickets[x]
<1>1. tickets[i] \in TicketType
  BY DEF TypeInv, TypeOK, IsMap
<1> QED
  BY <1>1 DEF TicketAt, TicketType

\* A ticket that is polled or dropped ends with its call.
LEMMA TicketsTicketStep ==
  ASSUME TypeInv, TicketsRight, NEW i \in DOMAIN tickets, TicketStep(i)
  PROVE  TicketsRight'
<1>1. late' = late /\ DOMAIN calls' \subseteq Live
  <2>1. CASE TicketExpire(i) \/ TicketDrop(i)
    BY <2>1, ResponseTakenCalls DEF TicketExpire, TicketDrop, CallsShrink
  <2>2. CASE TicketReceive(i) \/ TicketElapsed(i) \/ TicketAborted(i)
    BY <2>2 DEF TicketReceive, TicketElapsed, TicketAborted, state, Live
  <2> QED
    BY <2>1, <2>2 DEF TicketStep, TicketRuns
<1>2. PICK pc, reply : /\ TicketAt(i, pc, reply)
                       /\ pc # "waiting"
                       /\ pc = "expiring" => reply = "none" /\ i \in late
  BY DEF TicketStep, TicketRuns, TicketReceive, TicketElapsed, TicketAborted,
         TicketExpire, TicketDrop
<1>3. /\ DOMAIN tickets' = DOMAIN tickets
      /\ tickets'[i].pc = pc /\ tickets'[i].reply = reply
      /\ \A x \in DOMAIN tickets \ {i} : tickets'[x] = tickets[x]
  BY <1>2, TicketMoves
<1> QED
  BY <1>1, <1>2, <1>3 DEF TicketsRight, Live

\* Tickets and calls agree after any step.
LEMMA TicketsNext == QueueInv /\ TicketsRight /\ [Next]_vars => TicketsRight'
<1> SUFFICES ASSUME QueueInv, TicketsRight, [Next]_vars PROVE TicketsRight'
  OBVIOUS
<1>0. late \subseteq DOMAIN tickets /\ \A r : Overdue(r) \subseteq late
  BY DEF TicketsRight, Overdue
<1>1. CASE ConnectionStep
  <2>1. ASSUME NEW k \in Conns, Connect(k)
        PROVE  TicketsRight'
    BY <1>0, <2>1, TicketsKept DEF Connect, Live
  <2>2. ASSUME NEW k \in Conns, Disconnect(k)
        PROVE  TicketsRight'
    BY <2>2, TicketsDisconnect
  <2>3. ASSUME NEW w \in Servers, NEW r \in Routes, NEW c \in Concurrencies,
               NEW l \in QueueLimits, Register(w, r, c, l)
        PROVE  TicketsRight'
    BY <1>0, <2>3, TicketsKept DEF Register, Live
  <2>4. ASSUME NEW k \in Callers, NEW r \in Routes, NEW b \in Costs, Request(k, r, b)
        PROVE  TicketsRight'
    BY <2>4, TicketsRequest
  <2>5. ASSUME NEW k \in Callers, NEW r \in Routes, NEW b \in Costs, RequestOverloaded(k, r, b)
        PROVE  TicketsRight'
    BY <1>0, <2>5, TicketsExpired DEF RequestOverloaded, OverdueExpired, QueueInv
  <2>6. ASSUME NEW w \in Servers, NEW i \in Live, NEW failed \in BOOLEAN, Complete(w, i, failed)
        PROVE  TicketsRight'
    <3>1. /\ Outcome(i, failed) \notin {"none", "closed", "aborted"}
          /\ Outcome(i, failed) = "deadline" => {i} \cap Live \subseteq late
      BY DEF Outcome
    <3>2. /\ tickets' = Responded({i}, Outcome(i, failed)) /\ late' = late
          /\ calls' = Omit(calls, {i})
      BY <2>6 DEF Complete
    <3>3. DOMAIN calls' = Live \ {i}
      BY <3>2 DEF Omit, Restrict, Live
    <3> QED
      BY <1>0, <3>1, <3>2, <3>3, TicketsAnswered DEF QueueInv
  <2> QED
    BY <1>1, <2>1, <2>2, <2>3, <2>4, <2>5, <2>6 DEF ConnectionStep
<1>2. CASE \E t \in Takers : TakeStep(t)
  BY <1>2, TicketsTakeStep
<1>3. CASE \E i \in DOMAIN tickets : TicketStep(i)
  BY <1>3, TicketsTicketStep DEF QueueInv
<1>4. CASE (\E i \in DOMAIN tickets : DeadlinePasses(i)) \/ UNCHANGED vars
  BY <1>0, <1>4, TicketsKept DEF DeadlinePasses, vars, state, Live
<1> QED
  BY <1>1, <1>2, <1>3, <1>4 DEF Next

-----------------------------------------------------------------------------
(* What a step shows of one call.                                          *)

Promises == QueueInv /\ Departures /\ RepliesRight /\ TicketsRight

\* What the ticket shows, and what the calls map and next_id show.
TicketSame(i) ==
  /\ CallerOf(i)' = CallerOf(i)
  /\ ResultOf(i)' = ResultOf(i)
  /\ AnswerOf(i)' = AnswerOf(i)

CallSame(i) == PhaseOf(i)' = PhaseOf(i) /\ HolderOf(i)' = HolderOf(i)

Onward == late \subseteq late' /\ retired \subseteq retired'

\* A call's surroundings only move on.
LEMMA EnvironmentKept ==
  ASSUME NEW i \in Ids, Onward
  PROVE  CallContract(i)!Environment
BY DEF Onward, CallContract!Environment

\* Steps that show nothing of call i.
LEMMA StepElsewhere ==
  ASSUME NEW i \in Ids, Onward, TicketSame(i), CallSame(i)
  PROVE  CallContract(i)!Next
BY EnvironmentKept
   DEF TicketSame, CallSame, CallContract!Next, CallContract!Elsewhere, CallContract!callVars

\* Steps that remove call i from the queue, and tell its caller nothing yet.
LEMMA StepWithdraw ==
  ASSUME NEW i \in Ids, Onward, TicketSame(i),
         PhaseOf(i) = "queued", PhaseOf(i)' = "over", HolderOf(i)' = HolderOf(i)
  PROVE  CallContract(i)!Next
BY EnvironmentKept DEF TicketSame, CallContract!Next, CallContract!Withdraw

\* The ids in use.
LEMMA InUse ==
  ASSUME TypeInv, NEW i \in Ids
  PROVE  /\ next_id \in Nat /\ i \in Nat
         /\ i \in DOMAIN tickets <=> i < next_id
         /\ i \in Live => i \in DOMAIN tickets
BY LimitAssumption, LiveTicket DEF TypeInv, TypeOK, Ids

\* The phase and the holder of a call, read off the scheduler's state.
LEMMA PhaseIs ==
  ASSUME TypeInv, NEW i \in Ids
  PROVE  /\ i \in DOMAIN tickets =>
              PhaseOf(i) = IF i \notin Live THEN "over"
                           ELSE IF calls[i].owner = None THEN "queued" ELSE "running"
         /\ i \notin DOMAIN tickets => PhaseOf(i) = "unborn"
         /\ HolderOf(i) = IF i \in Live THEN calls[i].owner ELSE None
BY InUse DEF PhaseOf, HolderOf

\* Answers that are not a worker's, sent only where nothing was sent before.
LEMMA TicketSameResponded ==
  ASSUME TypeInv, RepliesRight, NEW i \in Ids, NEW S, NEW reply,
         tickets' = Responded(S, reply),
         reply \notin {"ok", "handler_error"} \/ i \notin S
  PROVE  TicketSame(i)
<1>1. DOMAIN tickets' = DOMAIN tickets
  BY DEF Responded
<1>2. CASE i \in DOMAIN tickets
  <2>1. /\ tickets'[i].pc = tickets[i].pc /\ tickets'[i].caller = tickets[i].caller
        /\ tickets'[i].reply = IF i \in S \cap Live /\ calls[i].response /\ tickets[i].pc = "waiting"
                               THEN reply ELSE tickets[i].reply
    BY <1>2, RespondedTicket
  <2>2. i \in Live /\ calls[i].response /\ tickets[i].pc = "waiting" => tickets[i].reply = "none"
    BY DEF RepliesRight, ReplyNotLost
  <2> QED
    BY <1>1, <1>2, <2>1, <2>2 DEF TicketSame, CallerOf, ResultOf, AnswerOf
<1>3. CASE i \notin DOMAIN tickets
  BY <1>1, <1>3 DEF TicketSame, CallerOf, ResultOf, AnswerOf
<1> QED
  BY <1>2, <1>3

\* A ticket that is there before and after, unchanged, is the same.
LEMMA TicketSameKept ==
  ASSUME NEW i, i \in DOMAIN tickets' <=> i \in DOMAIN tickets,
         i \in DOMAIN tickets => tickets'[i] = tickets[i]
  PROVE  TicketSame(i)
BY DEF TicketSame, CallerOf, ResultOf, AnswerOf

\* A step that leaves call i where it is, or removes it unowned.
LEMMA StepRemoves ==
  ASSUME TypeInv, TypeInv', NEW i \in Ids, Onward, TicketSame(i), NEW out, CallsShrink(out),
         DOMAIN tickets' = DOMAIN tickets,
         i \in out \cap Live => calls[i].owner = None
  PROVE  CallContract(i)!Next
<1>1. /\ i \in DOMAIN tickets' =>
           PhaseOf(i)' = IF i \notin DOMAIN calls' THEN "over"
                         ELSE IF calls'[i].owner = None THEN "queued" ELSE "running"
      /\ i \notin DOMAIN tickets' => PhaseOf(i)' = "unborn"
      /\ HolderOf(i)' = IF i \in DOMAIN calls' THEN calls'[i].owner ELSE None
  BY LimitAssumption DEF PhaseOf, HolderOf, TypeInv, TypeOK, Ids, IsMap, Live
<1>2. CASE i \in out \cap Live
  <2>1. i \notin DOMAIN calls' /\ i \in DOMAIN tickets /\ calls[i].owner = None
    BY <1>2, InUse DEF CallsShrink
  <2>2. PhaseOf(i) = "queued" /\ HolderOf(i) = None
    BY <1>2, <2>1, PhaseIs
  <2>3. PhaseOf(i)' = "over" /\ HolderOf(i)' = None
    BY <1>1, <2>1
  <2> QED
    BY <2>2, <2>3, StepWithdraw
<1>3. CASE i \notin out \cap Live
  <2>1. i \in DOMAIN calls' <=> i \in Live
    BY <1>3 DEF CallsShrink
  <2>2. i \in Live => calls'[i].owner = calls[i].owner
    BY <1>3 DEF CallsShrink
  <2>3. CallSame(i)
    BY <1>1, <2>1, <2>2, PhaseIs DEF CallSame
  <2> QED
    BY <2>3, StepElsewhere
<1> QED
  BY <1>2, <1>3

\* The clock and the set of departed connections only grow.
LEMMA StepOnward == [Next]_vars => Onward
<1> SUFFICES ASSUME [Next]_vars PROVE Onward
  OBVIOUS
<1>1. CASE ConnectionStep
  BY <1>1 DEF ConnectionStep, Connect, Disconnect, Register, Request, RequestOverloaded, Complete,
              Onward
<1>2. CASE \E t \in Takers : TakeStep(t)
  BY <1>2 DEF TakeStep, TakeRuns, TakeEnter, TakeArm, TakeUnauthorized, TakeNoSlot, TakeEmpty,
              TakeLapsed, TakeJob, TakeAwait, TakeElapsed, TakeAborted, TakeLeave, Onward
<1>3. CASE \E i \in DOMAIN tickets : TicketStep(i) \/ DeadlinePasses(i)
  BY <1>3 DEF TicketStep, TicketRuns, TicketReceive, TicketElapsed, TicketAborted, TicketExpire,
              TicketDrop, DeadlinePasses, Onward
<1>4. CASE UNCHANGED vars
  BY <1>4 DEF vars, Onward
<1> QED
  BY <1>1, <1>2, <1>3, <1>4 DEF Next

-----------------------------------------------------------------------------
(* The actions.                                                            *)

\* An admitted request is the birth of its call, and withdraws the overdue ones.
LEMMA SimRequest ==
  ASSUME Promises, TypeInv', Onward, NEW k \in Callers, NEW r \in Routes, NEW b \in Costs,
         Request(k, r, b), NEW i \in Ids
  PROVE  CallContract(i)!Next
<1> USE DEF Promises
<1> DEFINE ticket == [caller |-> k, pc |-> "waiting", reply |-> "none"]
           answered == Responded(Overdue(r), "deadline")
<1>1. /\ r \in DOMAIN routes /\ next_id \in Ids
      /\ next_id \notin Live /\ next_id \notin DOMAIN tickets
      /\ DOMAIN calls' = (Live \ Overdue(r)) \cup {next_id}
      /\ \A x \in Live \ Overdue(r) : calls'[x] = calls[x]
      /\ calls'[next_id].owner = None
  <2>1. calls'[next_id] = [caller |-> k, route |-> r, owner |-> None,
                           response |-> TRUE, retained_bytes |-> b]
    BY RequestCalls DEF QueueInv
  <2> QED
    BY <2>1, RequestCalls DEF QueueInv
<1>2. /\ tickets' = Put(answered, next_id, ticket)
      /\ k \in connections /\ UNCHANGED <<late, retired, connections>>
  BY DEF Request, Connected
<1>3. /\ DOMAIN answered = DOMAIN tickets
      /\ ticket.caller = k /\ ticket.pc = "waiting" /\ ticket.reply = "none"
  BY DEF Responded
<1> HIDE DEF ticket, answered
<1>4. /\ DOMAIN tickets' = DOMAIN tickets \cup {next_id}
      /\ tickets'[next_id] = ticket
      /\ \A x \in DOMAIN tickets : tickets'[x] = answered[x]
  BY <1>1, <1>2, <1>3 DEF Put
<1>5. /\ i \in DOMAIN tickets' =>
           PhaseOf(i)' = IF i \notin DOMAIN calls' THEN "over"
                         ELSE IF calls'[i].owner = None THEN "queued" ELSE "running"
      /\ i \notin DOMAIN tickets' => PhaseOf(i)' = "unborn"
      /\ HolderOf(i)' = IF i \in DOMAIN calls' THEN calls'[i].owner ELSE None
  BY LimitAssumption DEF PhaseOf, HolderOf, TypeInv, TypeOK, Ids, IsMap, Live
<1>6. CASE i = next_id
  <2>1. /\ PhaseOf(i) = "unborn" /\ HolderOf(i) = None
        /\ ResultOf(i) = "none" /\ AnswerOf(i) = "pending"
    BY <1>1, <1>6, PhaseIs DEF QueueInv, ResultOf, AnswerOf
  <2>2. PhaseOf(i)' = "queued" /\ HolderOf(i)' = None
    BY <1>1, <1>4, <1>5, <1>6
  <2>3. CallerOf(i)' = k /\ ResultOf(i)' = "none" /\ AnswerOf(i)' = "pending"
    BY <1>3, <1>4, <1>6 DEF CallerOf, ResultOf, AnswerOf
  <2>4. k \in Conns \ retired' /\ i \notin late'
    BY <1>1, <1>2, <1>6 DEF Conns, Departures, TicketsRight
  <2> QED
    BY <2>1, <2>2, <2>3, <2>4, EnvironmentKept DEF CallContract!Next, CallContract!Accept
<1>7. CASE i # next_id
  <2>1. i \in DOMAIN tickets' <=> i \in DOMAIN tickets
    BY <1>4, <1>7
  <2>2. TicketSame(i)
    <3>1. CASE i \in DOMAIN tickets
      <4>1. /\ tickets'[i].pc = tickets[i].pc /\ tickets'[i].caller = tickets[i].caller
            /\ tickets'[i].reply =
                 IF i \in Overdue(r) \cap Live /\ calls[i].response /\ tickets[i].pc = "waiting"
                 THEN "deadline" ELSE tickets[i].reply
        BY <1>4, <3>1, RespondedTicket DEF answered, QueueInv
      <4>2. i \in Live /\ calls[i].response /\ tickets[i].pc = "waiting"
              => tickets[i].reply = "none"
        BY DEF RepliesRight, ReplyNotLost
      <4> QED
        BY <2>1, <3>1, <4>1, <4>2 DEF TicketSame, CallerOf, ResultOf, AnswerOf
    <3>2. CASE i \notin DOMAIN tickets
      BY <2>1, <3>2 DEF TicketSame, CallerOf, ResultOf, AnswerOf
    <3> QED
      BY <3>1, <3>2
  <2>3. CASE i \in Overdue(r)
    <3>1. i \in Live /\ calls[i].owner = None /\ i \in DOMAIN tickets
      BY <1>1, <2>3, OverdueUnowned, InUse DEF QueueInv
    <3>2. PhaseOf(i) = "queued" /\ HolderOf(i) = None
      BY <3>1, PhaseIs DEF QueueInv
    <3>3. PhaseOf(i)' = "over" /\ HolderOf(i)' = None
      BY <1>1, <1>5, <1>7, <2>1, <2>3, <3>1
    <3> QED
      BY <2>2, <3>2, <3>3, StepWithdraw
  <2>4. CASE i \notin Overdue(r)
    <3>1. /\ i \in DOMAIN calls' <=> i \in Live
          /\ i \in Live => calls'[i].owner = calls[i].owner
      BY <1>1, <1>7, <2>4
    <3>2. CallSame(i)
      BY <1>5, <2>1, <3>1, PhaseIs DEF CallSame, QueueInv
    <3> QED
      BY <2>2, <3>2, StepElsewhere
  <2> QED
    BY <2>3, <2>4
<1> QED
  BY <1>6, <1>7

\* The calls a departing worker ran are lost; the queued ones it takes along are
\* withdrawn.
LEMMA SimDisconnect ==
  ASSUME Promises, TypeInv', Onward, NEW k \in Conns, Disconnect(k), NEW i \in Ids
  PROVE  CallContract(i)!Next
<1> USE DEF Promises
<1> DEFINE out == Withdrawn(k) \cup Failed(k)
<1>1. CallsShrink(out)
  BY DisconnectCalls DEF QueueInv
<1>2. /\ retired' = retired \cup {k} /\ DOMAIN tickets' = DOMAIN tickets
      /\ i \in DOMAIN tickets => \/ tickets'[i] = Responded({i}, "closed")[i]
                                 \/ tickets'[i] = Responded(Failed(k), "unavailable")[i]
  BY DEF Disconnect
<1>3. TicketSame(i)
  <2>1. CASE i \in DOMAIN tickets
    <3>1. /\ tickets'[i].pc = tickets[i].pc /\ tickets'[i].caller = tickets[i].caller
          /\ \/ tickets'[i].reply = tickets[i].reply
             \/ /\ i \in Live /\ calls[i].response /\ tickets[i].pc = "waiting"
                /\ tickets'[i].reply \in {"closed", "unavailable"}
      BY <1>2, <2>1, RespondedTicket DEF QueueInv
    <3>2. i \in Live /\ calls[i].response /\ tickets[i].pc = "waiting" => tickets[i].reply = "none"
      BY DEF RepliesRight, ReplyNotLost
    <3> QED
      BY <1>2, <2>1, <3>1, <3>2 DEF TicketSame, CallerOf, ResultOf, AnswerOf
  <2>2. CASE i \notin DOMAIN tickets
    BY <1>2, <2>2 DEF TicketSame, CallerOf, ResultOf, AnswerOf
  <2> QED
    BY <2>1, <2>2
<1>4. CASE i \in OwnedBy(k)
  <2>1. i \in Live /\ calls[i].owner = k /\ k # None
    BY <1>4, NoneAssumption DEF OwnedBy
  <2>2. i \notin DOMAIN calls' /\ i \in DOMAIN tickets
    BY <1>1, <1>4, <2>1, InUse DEF CallsShrink, Failed, Withdrawn, Unowned, QueueInv
  <2>3. PhaseOf(i) = "running" /\ HolderOf(i) = k
    BY <2>1, <2>2, PhaseIs DEF QueueInv
  <2>4. PhaseOf(i)' = "over" /\ HolderOf(i)' = None
    BY <1>2, <2>2, LimitAssumption DEF PhaseOf, HolderOf, TypeInv, TypeOK, Ids, Live
  <2> QED
    BY <1>2, <1>3, <2>3, <2>4, EnvironmentKept
    DEF TicketSame, CallContract!Next, CallContract!Lose
<1>5. CASE i \notin OwnedBy(k)
  <2>1. Stranded(k) \subseteq {x \in Live : calls[x].owner = None}
    BY WorkerRoute, QueuedCalls DEF Stranded, LastWorker, QueueInv
  <2>2. i \in out \cap Live => calls[i].owner = None
    BY <1>5, <2>1 DEF Withdrawn, Unowned, Failed
  <2> HIDE DEF out
  <2> QED
    BY <1>1, <1>2, <1>3, <2>2, StepRemoves DEF QueueInv
<1> QED
  BY <1>4, <1>5

\* A completion is the end of a running call, with its worker's outcome if the
\* ticket still waits and the deadline has not passed.
LEMMA SimComplete ==
  ASSUME Promises, TypeInv', Onward, NEW w \in Servers, NEW x \in Live, NEW failed \in BOOLEAN,
         Complete(w, x, failed), NEW i \in Ids
  PROVE  CallContract(i)!Next
<1> USE DEF Promises
<1>1. /\ w \in DOMAIN workers /\ calls[x].owner = w /\ retired' = retired
      /\ calls' = Omit(calls, {x}) /\ tickets' = Responded({x}, Outcome(x, failed))
  BY DEF Complete
<1>2. CallsShrink({x}) /\ DOMAIN tickets' = DOMAIN tickets
  BY <1>1, OmittedCalls DEF Responded
<1>3. CASE i # x
  <2>1. TicketSame(i)
    BY <1>1, <1>3, TicketSameResponded DEF QueueInv
  <2> QED
    BY <1>2, <1>3, <2>1, StepRemoves DEF QueueInv
<1>4. CASE i = x
  <2>1. i \in DOMAIN tickets /\ w # None
    BY <1>1, <1>4, InUse, WorkerFields DEF QueueInv
  <2>2. PhaseOf(i) = "running" /\ HolderOf(i) = w
    BY <1>1, <1>4, <2>1, PhaseIs DEF QueueInv
  <2>3. PhaseOf(i)' = "over" /\ HolderOf(i)' = None
    BY <1>2, <1>4, <2>1, LimitAssumption
    DEF PhaseOf, HolderOf, TypeInv, TypeOK, Ids, Live, CallsShrink
  <2>4. w \notin retired'
    BY <1>1 DEF Departures
  <2>5. /\ tickets'[i].pc = tickets[i].pc /\ tickets'[i].caller = tickets[i].caller
        /\ tickets'[i].reply = IF calls[i].response /\ tickets[i].pc = "waiting"
                               THEN Outcome(i, failed) ELSE tickets[i].reply
    BY <1>1, <1>4, <2>1, RespondedTicket DEF QueueInv
  <2>6. CallerOf(i)' = CallerOf(i) /\ AnswerOf(i)' = AnswerOf(i)
    <3>1. tickets[i].pc = "waiting" => AnswerOf(i) = "pending" /\ AnswerOf(i)' = "pending"
      BY <1>2, <2>1, <2>5 DEF AnswerOf
    <3> QED
      BY <1>2, <2>1, <2>5, <3>1 DEF CallerOf, AnswerOf
  <2>7. \/ ResultOf(i)' \in {"ok", "handler_error"} /\ i \notin late /\ AnswerOf(i) = "pending"
        \/ ResultOf(i)' = ResultOf(i)
    <3>1. CASE calls[i].response /\ tickets[i].pc = "waiting"
      <4>1. tickets[i].reply = "none" /\ tickets'[i].reply = Outcome(i, failed)
        BY <1>4, <2>5, <3>1 DEF RepliesRight, ReplyNotLost
      <4> QED
        BY <1>2, <2>1, <3>1, <4>1 DEF Outcome, ResultOf, AnswerOf
    <3>2. CASE ~(calls[i].response /\ tickets[i].pc = "waiting")
      BY <1>2, <2>1, <2>5, <3>2 DEF ResultOf
    <3> QED
      BY <3>1, <3>2
  <2> QED
    BY <2>2, <2>3, <2>4, <2>6, <2>7, EnvironmentKept
    DEF CallContract!Next, CallContract!Finish, CallContract!WorkerOutcomes
<1> QED
  BY <1>3, <1>4

\* Expiring the overdue calls of a queue withdraws them.
LEMMA SimExpired ==
  ASSUME Promises, TypeInv', Onward, NEW out, calls' = Omit(calls, out),
         tickets' = Responded(out, "deadline"), NEW i \in Ids,
         \A x \in out : x \in Live => calls[x].owner = None
  PROVE  CallContract(i)!Next
<1>1. CallsShrink(out) /\ DOMAIN tickets' = DOMAIN tickets
  BY OmittedCalls DEF Responded
<1>2. TicketSame(i)
  BY TicketSameResponded DEF Promises, QueueInv
<1> QED
  BY <1>1, <1>2, StepRemoves DEF Promises, QueueInv

\* Steps that touch no call and no ticket.
LEMMA SimKept ==
  ASSUME Promises, TypeInv', Onward, UNCHANGED <<calls, tickets>>, NEW i \in Ids
  PROVE  CallContract(i)!Next
<1>1. CallsShrink({}) /\ TicketSame(i)
  BY CallsSame, TicketSameKept
<1> QED
  BY <1>1, StepRemoves DEF Promises, QueueInv

\* A dispatch gives the head of the queue to a worker that is registered, hence
\* connected, before the deadline.
LEMMA SimTakeJob ==
  ASSUME Promises, TypeInv', Onward, NEW t \in Takers, TakeJob(t), NEW i \in Ids
  PROVE  CallContract(i)!Next
<1> USE DEF Promises
<1> DEFINE w    == t[1]
           out  == Overdue(workers[t[1]].route)
           head == Head(Offered(t[1]))
<1>1. /\ head \in Live /\ calls[head].owner = None /\ head \notin out
      /\ DOMAIN calls' = Live \ out
      /\ \A x \in Live \ (out \cup {head}) : calls'[x] = calls[x]
      /\ calls'[head].owner = t[1]
  BY TakeJobCalls
<1>2. /\ w \in DOMAIN workers /\ UNCHANGED <<late, retired>> /\ Offered(t[1]) # <<>>
      /\ tickets' = Responded(out, "deadline")
  BY DEF TakeJob
<1>3. TicketSame(i) /\ DOMAIN tickets' = DOMAIN tickets
  BY <1>2, TicketSameResponded DEF QueueInv, Responded
<1>4. \A x \in out : x \in Live /\ calls[x].owner = None
  BY <1>2, WorkerRoute, OverdueUnowned DEF QueueInv
<1>5. head \notin late
  BY <1>1, <1>2, OfferedCalls DEF Overdue
<1>6. w # None /\ w \in Conns \ retired'
  BY <1>2, WorkerFields DEF Departures, QueueInv, Conns
<1> HIDE DEF w, out, head
<1>7. /\ i \in DOMAIN tickets =>
           PhaseOf(i)' = IF i \notin DOMAIN calls' THEN "over"
                         ELSE IF calls'[i].owner = None THEN "queued" ELSE "running"
      /\ i \notin DOMAIN tickets => PhaseOf(i)' = "unborn"
      /\ HolderOf(i)' = IF i \in DOMAIN calls' THEN calls'[i].owner ELSE None
  BY <1>3, LimitAssumption DEF PhaseOf, HolderOf, TypeInv, TypeOK, Ids, IsMap, Live
<1>8. i \in Live => i \in DOMAIN tickets
  BY InUse DEF QueueInv
<1>9. CASE i = head
  <2>1. PhaseOf(i) = "queued" /\ HolderOf(i) = None
    BY <1>1, <1>8, <1>9, PhaseIs DEF QueueInv
  <2>2. PhaseOf(i)' = "running" /\ HolderOf(i)' = w
    BY <1>1, <1>6, <1>7, <1>8, <1>9 DEF w
  <2>3. i \notin late'
    BY <1>2, <1>5, <1>9
  <2> QED
    BY <1>3, <1>6, <2>1, <2>2, <2>3, EnvironmentKept
    DEF TicketSame, CallContract!Next, CallContract!Dispatch
<1>10. CASE i \in out
  <2>1. PhaseOf(i) = "queued" /\ HolderOf(i) = None
    BY <1>4, <1>8, <1>10, PhaseIs DEF QueueInv
  <2>2. PhaseOf(i)' = "over" /\ HolderOf(i)' = None
    BY <1>1, <1>4, <1>7, <1>8, <1>10
  <2> QED
    BY <1>3, <2>1, <2>2, StepWithdraw
<1>11. CASE i \notin out \cup {head}
  <2>1. CallSame(i)
    BY <1>1, <1>7, <1>8, <1>11, PhaseIs DEF CallSame, QueueInv
  <2> QED
    BY <1>3, <2>1, StepElsewhere
<1> QED
  BY <1>9, <1>10, <1>11

\* A take is a step of each call's contract, or none.
LEMMA SimTakeStep ==
  ASSUME Promises, TypeInv', Onward, NEW t \in Takers, TakeStep(t), NEW i \in Ids
  PROVE  CallContract(i)!Next
<1>1. CASE TakeEmpty(t)
  <2>1. /\ t[1] \in DOMAIN workers /\ OverdueExpired(workers[t[1]].route)
    BY <1>1 DEF TakeEmpty
  <2>2. workers[t[1]].route \in DOMAIN routes
    BY <2>1, WorkerRoute DEF Promises, QueueInv
  <2> QED
    BY <2>1, <2>2, OverdueUnowned, SimExpired DEF OverdueExpired, Promises
<1>2. CASE TakeLapsed(t)
  <2> DEFINE r   == workers[t[1]].route
             out == Overdue(r) \cup {Head(Offered(t[1]))}
  <2>1. /\ calls' = Omit(calls, out) /\ t[1] \in DOMAIN workers /\ Offered(t[1]) # <<>>
        /\ tickets' = Responded(out, "deadline")
    BY <1>2 DEF TakeLapsed
  <2>2. r \in DOMAIN routes /\ Head(Offered(t[1])) \in Range(Queue(r))
    BY <2>1, OfferedCalls DEF Promises
  <2>3. \A x \in out : calls[x].owner = None
    BY <2>2, QueuedCalls DEF Promises
  <2> HIDE DEF out
  <2> QED
    BY <2>1, <2>3, SimExpired
<1>3. CASE TakeJob(t)
  BY <1>3, SimTakeJob
<1>4. CASE \/ TakeEnter(t) \/ TakeArm(t) \/ TakeUnauthorized(t) \/ TakeNoSlot(t) \/ TakeAwait(t)
           \/ TakeElapsed(t) \/ TakeAborted(t) \/ TakeLeave(t)
  <2>1. UNCHANGED <<calls, tickets>>
    BY <1>4 DEF TakeEnter, TakeArm, TakeUnauthorized, TakeNoSlot, TakeAwait, TakeElapsed,
                TakeAborted, TakeLeave, state
  <2> QED
    BY <2>1, SimKept
<1> QED
  BY <1>1, <1>2, <1>3, <1>4 DEF TakeStep, TakeRuns

-----------------------------------------------------------------------------
(* The ticket's own steps.                                                 *)

\* Ticket::wait hears what was sent: only the ticket changes.
LEMMA SimReceive ==
  ASSUME Promises, TypeInv', Onward, NEW i \in DOMAIN tickets,
         TicketReceive(i) \/ TicketElapsed(i) \/ TicketAborted(i)
  PROVE  CallContract(i)!Next
<1> USE DEF Promises
<1>1. UNCHANGED <<calls, next_id, late, retired>> /\ i \in Ids
  BY DEF TicketReceive, TicketElapsed, TicketAborted, state, QueueInv, TypeInv, TypeOK, IsMap
<1>2. CallSame(i)
  BY <1>1 DEF CallSame, PhaseOf, HolderOf, Live
<1>3. tickets[i].reply \in Replies /\ PhaseOf(i) # "unborn"
  <2>1. tickets[i] \in TicketType
    BY DEF QueueInv, TypeInv, TypeOK, IsMap
  <2> QED
    BY <1>1, <2>1, PhaseIs DEF TicketType, QueueInv
<1>4. tickets[i].pc = "waiting" /\ AnswerOf(i) = "pending" /\ CallerOf(i) = tickets[i].caller
  BY DEF TicketReceive, TicketElapsed, TicketAborted, AnswerOf, CallerOf
<1>5. CASE TicketReceive(i)
  <2>1. TicketAt(i, "dropping", tickets[i].reply) /\ tickets[i].reply # "none"
    BY <1>5 DEF TicketReceive
  <2>2. /\ DOMAIN tickets' = DOMAIN tickets
        /\ tickets'[i].pc = "dropping" /\ tickets'[i].reply = tickets[i].reply
        /\ tickets'[i].caller = tickets[i].caller
    BY <2>1, TicketMoves DEF QueueInv
  <2>3. /\ CallerOf(i)' = CallerOf(i) /\ ResultOf(i)' = ResultOf(i)
        /\ AnswerOf(i)' = tickets[i].reply
    BY <2>2 DEF CallerOf, ResultOf, AnswerOf
  <2>4. /\ tickets[i].reply # "aborted"
        /\ tickets[i].reply # "closed" => PhaseOf(i) = "over"
        /\ tickets[i].reply = "deadline" => i \in late
        /\ tickets[i].reply = "closed" => CallerOf(i) \in retired
    <3>1. /\ tickets[i].reply # "aborted"
          /\ tickets[i].reply # "closed" => i \notin Live
          /\ tickets[i].reply = "deadline" => i \in late
          /\ tickets[i].reply = "closed" => tickets[i].caller \in retired
      BY <1>4, <2>1 DEF TicketsRight, RepliesRight, ReplyNotLost
    <3> QED
      BY <1>1, <1>4, <3>1, PhaseIs DEF QueueInv
  <2>5. /\ tickets[i].reply \in {"ok", "handler_error"} => ResultOf(i) = tickets[i].reply
        /\ ResultOf(i) \in {"ok", "handler_error"} => ResultOf(i) = tickets[i].reply
    BY DEF ResultOf
  <2>6. tickets[i].reply \in {"ok", "handler_error", "deadline", "unavailable", "closed", "aborted"}
    BY <1>3, <2>1 DEF Replies
  <2>7. CallContract(i)!Tell
    BY <1>2, <1>3, <1>4, <2>3, <2>4, <2>5, <2>6
    DEF CallSame, CallContract!Tell, CallContract!WorkerOutcomes
  <2> QED
    BY <1>1, <2>7, EnvironmentKept DEF CallContract!Next
<1>6. CASE TicketElapsed(i)
  <2>1. TicketAt(i, "expiring", "none") /\ tickets[i].reply = "none"
    BY <1>6 DEF TicketElapsed
  <2>2. /\ DOMAIN tickets' = DOMAIN tickets
        /\ tickets'[i].pc = "expiring" /\ tickets'[i].reply = tickets[i].reply
        /\ tickets'[i].caller = tickets[i].caller
    BY <2>1, TicketMoves DEF QueueInv
  <2>3. TicketSame(i)
    BY <1>4, <2>2 DEF TicketSame, CallerOf, ResultOf, AnswerOf
  <2> QED
    BY <1>1, <1>2, <2>3, StepElsewhere
<1>7. CASE TicketAborted(i)
  <2>1. TicketAt(i, "dropping", "aborted") /\ tickets[i].caller \in retired
    BY <1>7 DEF TicketAborted
  <2>2. /\ DOMAIN tickets' = DOMAIN tickets
        /\ tickets'[i].pc = "dropping" /\ tickets'[i].reply = "aborted"
        /\ tickets'[i].caller = tickets[i].caller
    BY <2>1, TicketMoves DEF QueueInv
  <2>3. /\ CallerOf(i)' = CallerOf(i) /\ ResultOf(i)' = "none" /\ AnswerOf(i)' = "aborted"
    BY <2>2 DEF CallerOf, ResultOf, AnswerOf
  <2>4. CallContract(i)!Tell
    BY <1>2, <1>3, <1>4, <2>1, <2>3 DEF CallSame, CallContract!Tell, CallContract!WorkerOutcomes
  <2> QED
    BY <1>1, <2>4, EnvironmentKept DEF CallContract!Next
<1> QED
  BY <1>5, <1>6, <1>7

\* State::expire tells the caller and withdraws a call that is still queued;
\* Rpc::cancel withdraws it and tells nobody.
LEMMA SimTaken ==
  ASSUME Promises, TypeInv', Onward, NEW i \in DOMAIN tickets, TicketExpire(i) \/ TicketDrop(i)
  PROVE  CallContract(i)!Next
<1> USE DEF Promises
<1> DEFINE out == Unowned({i} \cap Live)
<1>1. UNCHANGED <<next_id, late, retired>> /\ i \in Ids /\ CallsShrink(out)
  BY ResponseTakenCalls DEF TicketExpire, TicketDrop, QueueInv, TypeInv, TypeOK, IsMap
<1>2. \A x \in out : calls[x].owner = None
  BY DEF Unowned
<1>3. CASE TicketDrop(i)
  <2>1. TicketAt(i, "done", tickets[i].reply) /\ tickets[i].pc = "dropping"
    BY <1>3 DEF TicketDrop
  <2>2. /\ DOMAIN tickets' = DOMAIN tickets
        /\ tickets'[i].pc = "done" /\ tickets'[i].reply = tickets[i].reply
        /\ tickets'[i].caller = tickets[i].caller
    BY <2>1, TicketMoves DEF QueueInv
  <2>3. TicketSame(i)
    BY <2>1, <2>2 DEF TicketSame, CallerOf, ResultOf, AnswerOf
  <2> HIDE DEF out
  <2> QED
    BY <1>1, <1>2, <2>2, <2>3, StepRemoves DEF QueueInv
<1>4. CASE TicketExpire(i)
  <2>1. TicketAt(i, "dropping", "deadline") /\ tickets[i].pc = "expiring"
    BY <1>4 DEF TicketExpire
  <2>2. /\ DOMAIN tickets' = DOMAIN tickets
        /\ tickets'[i].pc = "dropping" /\ tickets'[i].reply = "deadline"
        /\ tickets'[i].caller = tickets[i].caller
    BY <2>1, TicketMoves DEF QueueInv
  <2>3. tickets[i].reply = "none" /\ i \in late
    BY <2>1 DEF TicketsRight
  <2>4. /\ CallerOf(i)' = CallerOf(i)
        /\ ResultOf(i) = "none" /\ ResultOf(i)' = "none"
        /\ AnswerOf(i) = "pending" /\ AnswerOf(i)' = "deadline"
    BY <2>1, <2>2, <2>3 DEF CallerOf, ResultOf, AnswerOf
  <2>5. /\ PhaseOf(i) = IF i \notin Live THEN "over"
                        ELSE IF calls[i].owner = None THEN "queued" ELSE "running"
        /\ HolderOf(i) = IF i \in Live THEN calls[i].owner ELSE None
    BY <1>1, PhaseIs DEF QueueInv
  <2>6. /\ PhaseOf(i)' = IF i \notin DOMAIN calls' THEN "over"
                         ELSE IF calls'[i].owner = None THEN "queued" ELSE "running"
        /\ HolderOf(i)' = IF i \in DOMAIN calls' THEN calls'[i].owner ELSE None
    BY <1>1, <2>2, LimitAssumption DEF PhaseOf, HolderOf, TypeInv, TypeOK, Ids, IsMap, Live
  <2>7. /\ i \in DOMAIN calls' <=> i \in Live /\ calls[i].owner # None
        /\ i \in DOMAIN calls' => calls'[i].owner = calls[i].owner
    BY <1>1 DEF CallsShrink, Unowned
  <2>8. /\ HolderOf(i)' = HolderOf(i) /\ PhaseOf(i) # "unborn"
        /\ PhaseOf(i)' = IF PhaseOf(i) = "queued" THEN "over" ELSE PhaseOf(i)
    BY <2>5, <2>6, <2>7
  <2>9. CallContract(i)!Tell
    BY <2>3, <2>4, <2>8 DEF CallContract!Tell, CallContract!WorkerOutcomes
  <2> QED
    BY <1>1, <2>9, EnvironmentKept DEF CallContract!Next
<1> QED
  BY <1>3, <1>4

\* So is what a caller does with its ticket.
LEMMA SimTicketStep ==
  ASSUME Promises, TypeInv', Onward, NEW x \in DOMAIN tickets, TicketStep(x), NEW i \in Ids
  PROVE  CallContract(i)!Next
<1> USE DEF Promises
<1>1. CASE i = x
  BY <1>1, SimReceive, SimTaken DEF TicketStep, TicketRuns
<1>2. CASE i # x
  <2>1. PICK pc, reply : TicketAt(x, pc, reply)
    BY DEF TicketStep, TicketRuns, TicketReceive, TicketElapsed, TicketAborted, TicketExpire,
           TicketDrop
  <2>2. DOMAIN tickets' = DOMAIN tickets /\ (i \in DOMAIN tickets => tickets'[i] = tickets[i])
    BY <1>2, <2>1, TicketMoves DEF QueueInv
  <2>3. TicketSame(i)
    BY <2>2, TicketSameKept
  <2>4. PICK out : CallsShrink(out) /\ i \notin out
    <3>1. CASE TicketExpire(x) \/ TicketDrop(x)
      <4>1. ResponseTaken(x)
        BY <3>1 DEF TicketExpire, TicketDrop
      <4>2. CallsShrink(Unowned({x} \cap Live))
        BY <4>1, ResponseTakenCalls DEF QueueInv
      <4>3. i \notin Unowned({x} \cap Live)
        BY <1>2 DEF Unowned
      <4> QED
        BY <4>2, <4>3
    <3>2. CASE TicketReceive(x) \/ TicketElapsed(x) \/ TicketAborted(x)
      BY <3>2, CallsSame DEF TicketReceive, TicketElapsed, TicketAborted, state
    <3> QED
      BY <3>1, <3>2 DEF TicketStep, TicketRuns
  <2> QED
    BY <2>2, <2>3, <2>4, StepRemoves DEF QueueInv
<1> QED
  BY <1>1, <1>2

\* Every step of the scheduler is a step of each call's contract, or none.
LEMMA SimNext == Promises /\ [Next]_vars => ContractsStep
<1> USE DEF ContractsStep
<1> SUFFICES ASSUME Promises, [Next]_vars, NEW i \in Ids
             PROVE  CallContract(i)!Next
  OBVIOUS
<1>0. TypeInv' /\ Onward
  BY TypeInvNext, StepOnward DEF Promises, QueueInv
<1>1. CASE ConnectionStep
  <2>1. ASSUME NEW k \in Conns, Connect(k)
        PROVE  CallContract(i)!Next
    BY <1>0, <2>1, SimKept DEF Connect
  <2>2. ASSUME NEW k \in Conns, Disconnect(k)
        PROVE  CallContract(i)!Next
    BY <1>0, <2>2, SimDisconnect
  <2>3. ASSUME NEW w \in Servers, NEW r \in Routes, NEW c \in Concurrencies,
               NEW l \in QueueLimits, Register(w, r, c, l)
        PROVE  CallContract(i)!Next
    BY <1>0, <2>3, SimKept DEF Register
  <2>4. ASSUME NEW k \in Callers, NEW r \in Routes, NEW b \in Costs, Request(k, r, b)
        PROVE  CallContract(i)!Next
    BY <1>0, <2>4, SimRequest
  <2>5. ASSUME NEW k \in Callers, NEW r \in Routes, NEW b \in Costs, RequestOverloaded(k, r, b)
        PROVE  CallContract(i)!Next
    BY <1>0, <2>5, OverdueUnowned, SimExpired DEF RequestOverloaded, OverdueExpired, Promises
  <2>6. ASSUME NEW w \in Servers, NEW x \in Live, NEW failed \in BOOLEAN, Complete(w, x, failed)
        PROVE  CallContract(i)!Next
    BY <1>0, <2>6, SimComplete
  <2> QED
    BY <1>1, <2>1, <2>2, <2>3, <2>4, <2>5, <2>6 DEF ConnectionStep
<1>2. CASE \E t \in Takers : TakeStep(t)
  BY <1>0, <1>2, SimTakeStep
<1>3. CASE \E x \in DOMAIN tickets : TicketStep(x)
  BY <1>0, <1>3, SimTicketStep
<1>4. CASE (\E x \in DOMAIN tickets : DeadlinePasses(x)) \/ UNCHANGED vars
  BY <1>0, <1>4, SimKept DEF DeadlinePasses, vars, state
<1> QED
  BY <1>1, <1>2, <1>3, <1>4 DEF Next

\* For every call id the scheduler implements RpcContract: rpc.rs hands a call to at
\* most one worker, never after its deadline, replays nothing, and tells its caller
\* once, with a worker's outcome only if a worker reported it in time.
THEOREM ContractIsKept == Spec => KeepsContract
<1>1. Init => ContractsOpen
  <2> SUFFICES ASSUME Init, NEW i \in Ids
               PROVE  CallContract(i)!Init
    BY DEF ContractsOpen
  <2>1. DOMAIN tickets = {} /\ Live = {} /\ next_id = 1 /\ late = {} /\ retired = {}
    BY DEF Init, Empty, Live
  <2>2. i >= 1
    BY DEF Ids
  <2> QED
    BY <2>1, <2>2 DEF CallContract!Init, CallerOf, PhaseOf, HolderOf, ResultOf, AnswerOf
<1>2. Init => Promises
  <2>1. DOMAIN Empty = {}
    BY DEF Empty
  <2> QED
    BY <2>1, QueueInvInit
    DEF Init, Promises, Departures, RepliesRight, ReplyNotLost, SameCaller, TicketsRight, Live
<1>3. Promises /\ [Next]_vars => Promises'
  BY QueueInvNext, DeparturesNext, RepliesNext, TicketsNext DEF Promises
<1>4. QED
  BY <1>1, <1>2, <1>3, SimNext, PTL DEF Spec, KeepsContract

=============================================================================
