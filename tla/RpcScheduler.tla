---------------------------- MODULE RpcScheduler ----------------------------
(***************************************************************************)
(* The RPC scheduler of the broker (src/crates/velobus/src/rpc.rs): one    *)
(* mutex-protected State shared by every connection, the Ticket futures    *)
(* that wait for replies and the take() futures of the workers.            *)
(*                                                                         *)
(* Every action holds the mutex once: what the code does under one lock()  *)
(* is one step, what it does under two is two.  A future that suspends is  *)
(* a process with a program counter ("pc").  The clock is abstracted to    *)
(* the set of calls whose deadline has passed.  The HashMaps of State are  *)
(* functions whose domain is the set of keys present.                      *)
(***************************************************************************)
EXTENDS Naturals, Containers

CONSTANTS
  Callers,        \* connections that send REQUEST
  Servers,        \* connections that send REGISTER, TAKE and COMPLETE
  Routes,         \* route names
  Slots,          \* concurrent TAKE requests one connection can have in flight
  Concurrencies,  \* the concurrency a REGISTER may ask for
  QueueLimits,    \* the queueLimit a REGISTER may ask for
  Costs,          \* retained bytes one call may cost (512 + 2*route + payload)
  MaxCalls,       \* State.max_calls
  MaxBytes,       \* State.max_bytes
  LastId,         \* the largest value of next_id: u64::MAX in the code
  None            \* "no owner"

\* One connection may play both roles.
Conns == Callers \cup Servers

ASSUME NoneAssumption == None \notin Conns
ASSUME LimitAssumption ==
  /\ Concurrencies \subseteq Nat \ {0}
  /\ QueueLimits \subseteq Nat \ {0}
  /\ Costs \subseteq Nat \ {0}
  /\ MaxCalls \in Nat
  /\ MaxBytes \in Nat
  /\ LastId \in Nat \ {0}

VARIABLES
  \* struct State
  connections,    \* connections: HashSet<u64>
  routes,         \* routes: name -> [workers, queue, queue_limit]
  workers,        \* workers: connection -> [route, concurrency, running, pending_takes]
  calls,          \* calls: id -> [caller, route, owner, response, retained_bytes]
  next_id,
  retained_bytes,
  \* outside the mutex
  late,           \* ids whose deadline is not after now
  retired,        \* connections that have disconnected; ids are never reused
  tickets,        \* id -> the Ticket future of an admitted request
  takes           \* <<worker, slot>> -> a take() future

state == <<connections, routes, workers, calls, next_id, retained_bytes>>
vars  == <<state, late, retired, tickets, takes>>

Ids     == 1 .. LastId - 1
Takers  == Servers \X Slots
Live    == DOMAIN calls

(***************************************************************************)
(* A Ticket: "waiting" in timeout_at with its receiver, "expiring" after   *)
(* the timer fired and before Rpc::expire, "dropping" with its answer and  *)
(* before its Drop, "done".  While it waits, reply is what the oneshot     *)
(* channel holds; afterwards it is what wait() answered.                   *)
(***************************************************************************)
TicketPcs == {"waiting", "expiring", "dropping", "done"}
Replies == {"none", "closed", "ok", "handler_error", "deadline", "unavailable", "aborted"}

(***************************************************************************)
(* A take(): "entered" holds a pending_takes slot, "trying" has its        *)
(* Notified future enabled, "tried" has found no job and not yet polled    *)
(* that future, "parked" is suspended on it, "leaving" is about to drop    *)
(* its TakeGuard.  woken: notify_waiters() reached its Notified future.    *)
(***************************************************************************)
TakePcs == {"idle", "entered", "trying", "tried", "parked", "leaving"}

Init ==
  /\ connections = {}
  /\ routes = Empty
  /\ workers = Empty
  /\ calls = Empty
  /\ next_id = 1
  /\ retained_bytes = 0
  /\ late = {}
  /\ retired = {}
  /\ tickets = Empty
  /\ takes = [t \in Takers |-> [pc |-> "idle", woken |-> FALSE]]

-----------------------------------------------------------------------------
(* The helpers of impl State.                                              *)

Queue(r)    == routes[r].queue
Unowned(S)  == {i \in S : calls[i].owner = None}
OwnedBy(w)  == {i \in Live : calls[i].owner = w}
BytesOf(S)  == SumFunctionOnSet([i \in Live |-> calls[i].retained_bytes], S)

\* Mutant of Overdue: expire_queued finds nothing.
NeverOverdue(r) == {}

\* expire_queued: the queued calls of a route whose deadline has passed.
Overdue(r) == {i \in Range(Queue(r)) : i \in Live /\ i \in late}

\* response.send(Ok/Err): it arrives only while the receiver is still held,
\* and dropping a response makes the receiver see a closed channel.
Responded(S, reply) ==
  [i \in DOMAIN tickets |->
     IF i \in S \cap Live /\ calls[i].response /\ tickets[i].pc = "waiting"
     THEN [tickets[i] EXCEPT !.reply = reply]
     ELSE tickets[i]]

\* Mutant of Notified: without enable(), only a future that was polled hears
\* notify_waiters().
NotifiedParked(W) ==
  [t \in Takers |->
     IF t[1] \in W /\ takes[t].pc = "parked"
     THEN [takes[t] EXCEPT !.woken = TRUE]
     ELSE takes[t]]

\* notify_waiters() on the Notify of each worker in W.
Notified(W) ==
  [t \in Takers |->
     IF t[1] \in W /\ takes[t].pc \in {"trying", "tried", "parked"}
     THEN [takes[t] EXCEPT !.woken = TRUE]
     ELSE takes[t]]

\* Mutant of SlotFreed: the slot is not given back.
SlotKept(w) == workers

\* One worker gives back the slot of a call that ended.
SlotFreed(w) ==
  [workers EXCEPT ![w].running = IF @ > 0 THEN @ - 1 ELSE 0]

-----------------------------------------------------------------------------
(* Connections: Rpc::connected, Rpc::register, Rpc::disconnect.            *)

\* Mutant of Connected: no lookup.
AnyConnection(k) == TRUE

\* A request task can still run after its connection's disconnect: register
\* and request look the connection up first.
Connected(k) == k \in connections

Connect(k) ==
  /\ k \notin connections \cup retired
  /\ connections' = connections \cup {k}
  /\ UNCHANGED <<routes, workers, calls, next_id, retained_bytes,
                 late, retired, tickets, takes>>

Register(w, r, concurrency, limit) ==
  /\ Connected(w)
  /\ w \notin DOMAIN workers
  /\ r \in DOMAIN routes => routes[r].queue_limit = limit
  /\ routes' =
       IF r \in DOMAIN routes
       THEN [routes EXCEPT ![r].workers = @ \cup {w}]
       ELSE Put(routes, r, [workers |-> {w}, queue |-> <<>>, queue_limit |-> limit])
  /\ workers' = Put(workers, w, [route |-> r, concurrency |-> concurrency,
                                 running |-> 0, pending_takes |-> 0])
  /\ UNCHANGED <<connections, calls, next_id, retained_bytes,
                 late, retired, tickets, takes>>

\* The calls a departing connection made: their responses are dropped, and
\* those not yet owned are removed.
MadeBy(k)    == {i \in Live : calls[i].caller = k}
Withdrawn(k) == Unowned(MadeBy(k))

\* Mutant of LastWorker: a route outlives its workers.
NeverLast(k) == FALSE

\* The calls a departing worker takes down: those it runs and, when it was the
\* last worker of its route, those still queued there.
LastWorker(k) == k \in DOMAIN workers /\ routes[workers[k].route].workers \subseteq {k}
Stranded(k)   == IF LastWorker(k) THEN Range(Queue(workers[k].route)) ELSE {}
Failed(k)     == (OwnedBy(k) \cup Stranded(k)) \ Withdrawn(k)

RoutesWithout(k) ==
  LET trimmed == [r \in DOMAIN routes |->
                    [routes[r] EXCEPT !.queue = Without(@, Withdrawn(k)),
                                      !.workers = @ \ {k}]]
  IN  IF LastWorker(k) THEN Omit(trimmed, {workers[k].route}) ELSE trimmed

\* Mutant of WokenBy: the departing worker's own takes are forgotten.
WokenOthers(k) ==
  IF k \in DOMAIN workers THEN routes[workers[k].route].workers \ {k} ELSE {}

\* The takes to wake: the departing worker's own, and those of the workers
\* that remain on its route.
WokenBy(k) ==
  IF k \in DOMAIN workers THEN routes[workers[k].route].workers ELSE {}

Disconnect(k) ==
  /\ k \in connections
  /\ connections' = connections \ {k}
  /\ retired' = retired \cup {k}
  /\ LET gone == Withdrawn(k) \cup Failed(k)
     IN /\ calls' = [i \in Live \ gone |->
                       IF i \in MadeBy(k) THEN [calls[i] EXCEPT !.response = FALSE]
                                          ELSE calls[i]]
        /\ retained_bytes' = retained_bytes - BytesOf(gone)
        /\ tickets' = [i \in DOMAIN tickets |->
                         IF i \in MadeBy(k) THEN Responded({i}, "closed")[i]
                                            ELSE Responded(Failed(k), "unavailable")[i]]
  /\ routes' = RoutesWithout(k)
  /\ workers' = Omit(workers, {k})
  /\ takes' = Notified(WokenBy(k))
  /\ UNCHANGED <<next_id, late>>

-----------------------------------------------------------------------------
(* Admission: Rpc::request.  Overdue calls leave the queue first, whether  *)
(* or not the request is then admitted.                                    *)

Fits(r, cost) ==
  /\ Len(Without(Queue(r), Overdue(r))) < routes[r].queue_limit
  /\ Cardinality(Live \ Overdue(r)) < MaxCalls
  /\ cost + (retained_bytes - BytesOf(Overdue(r))) <= MaxBytes
  /\ next_id < LastId

\* Mutant of NextId: the identifier is read and not advanced.
SameId == next_id
NextId == next_id + 1

Request(k, r, cost) ==
  /\ Connected(k)
  /\ r \in DOMAIN routes
  /\ Fits(r, cost)
  /\ calls' = Put(Omit(calls, Overdue(r)), next_id,
                  [caller |-> k, route |-> r, owner |-> None,
                   response |-> TRUE, retained_bytes |-> cost])
  /\ routes' = [routes EXCEPT ![r].queue = Enqueue(Without(@, Overdue(r)), next_id)]
  /\ retained_bytes' = retained_bytes - BytesOf(Overdue(r)) + cost
  /\ next_id' = NextId
  /\ tickets' = Put(Responded(Overdue(r), "deadline"), next_id,
                    [caller |-> k, pc |-> "waiting", reply |-> "none"])
  /\ takes' = Notified(routes[r].workers)
  /\ UNCHANGED <<connections, workers, late, retired>>

\* Mutant of OverdueExpired: the bytes of expired calls stay charged.
OverdueLeaks(r) ==
  /\ calls' = Omit(calls, Overdue(r))
  /\ routes' = [routes EXCEPT ![r].queue = Without(@, Overdue(r))]
  /\ UNCHANGED retained_bytes
  /\ tickets' = Responded(Overdue(r), "deadline")

\* The queue of r after expire_queued, and nothing else changed.
OverdueExpired(r) ==
  /\ calls' = Omit(calls, Overdue(r))
  /\ routes' = [routes EXCEPT ![r].queue = Without(@, Overdue(r))]
  /\ retained_bytes' = retained_bytes - BytesOf(Overdue(r))
  /\ tickets' = Responded(Overdue(r), "deadline")

RequestOverloaded(k, r, cost) ==
  /\ Connected(k)
  /\ r \in DOMAIN routes
  /\ ~Fits(r, cost)
  /\ OverdueExpired(r)
  /\ UNCHANGED <<connections, workers, next_id, late, retired, takes>>

-----------------------------------------------------------------------------
(* Dispatch: Rpc::take and Rpc::try_take.                                  *)

TakeAt(t, pc) == takes' = [takes EXCEPT ![t].pc = pc]

TakeEnter(t) ==
  /\ takes[t].pc = "idle"
  /\ t[1] \in DOMAIN workers
  /\ workers[t[1]].pending_takes < workers[t[1]].concurrency
  /\ workers' = [workers EXCEPT ![t[1]].pending_takes = @ + 1]
  /\ TakeAt(t, "entered")
  /\ UNCHANGED <<connections, routes, calls, next_id, retained_bytes,
                 late, retired, tickets>>

\* notify.notified() and enable(), before each try_take.
TakeArm(t) ==
  /\ \/ takes[t].pc = "entered"
     \/ takes[t].pc = "parked" /\ takes[t].woken
  /\ takes' = [takes EXCEPT ![t] = [pc |-> "trying", woken |-> FALSE]]
  /\ UNCHANGED <<state, late, retired, tickets>>

TakeUnauthorized(t) ==
  /\ takes[t].pc = "trying"
  /\ t[1] \notin DOMAIN workers
  /\ TakeAt(t, "leaving")
  /\ UNCHANGED <<state, late, retired, tickets>>

HasSlot(w) == workers[w].running < workers[w].concurrency

TakeNoSlot(t) ==
  /\ takes[t].pc = "trying"
  /\ t[1] \in DOMAIN workers
  /\ ~HasSlot(t[1])
  /\ TakeAt(t, "tried")
  /\ UNCHANGED <<state, late, retired, tickets>>

\* What try_take sees once it has expired the overdue calls of its route.
Offered(w) == Without(Queue(workers[w].route), Overdue(workers[w].route))
Popped(w)  == Tail(Offered(w))

TakeEmpty(t) ==
  /\ takes[t].pc = "trying"
  /\ t[1] \in DOMAIN workers
  /\ HasSlot(t[1])
  /\ Offered(t[1]) = <<>>
  /\ OverdueExpired(workers[t[1]].route)
  /\ TakeAt(t, "tried")
  /\ UNCHANGED <<connections, workers, next_id, late, retired>>

\* The second clock check: the head crosses its deadline after expire_queued,
\* so it is expired too and try_take starts over.
TakeLapsed(t) ==
  /\ takes[t].pc = "trying"
  /\ t[1] \in DOMAIN workers
  /\ HasSlot(t[1])
  /\ Offered(t[1]) # <<>>
  /\ LET r    == workers[t[1]].route
         head == Head(Offered(t[1]))
         gone == Overdue(r) \cup {head}
     IN /\ late' = late \cup {head}
        /\ calls' = Omit(calls, gone)
        /\ routes' = [routes EXCEPT ![r].queue = Popped(t[1])]
        /\ retained_bytes' = retained_bytes - BytesOf(gone)
        /\ tickets' = Responded(gone, "deadline")
  /\ UNCHANGED <<connections, workers, next_id, retired, takes>>

TakeJob(t) ==
  /\ takes[t].pc = "trying"
  /\ t[1] \in DOMAIN workers
  /\ HasSlot(t[1])
  /\ Offered(t[1]) # <<>>
  /\ LET w    == t[1]
         r    == workers[w].route
         head == Head(Offered(w))
         gone == Overdue(r)
     IN /\ calls' = [Omit(calls, gone) EXCEPT ![head].owner = w]
        /\ routes' = [routes EXCEPT ![r].queue = Popped(w)]
        /\ retained_bytes' = retained_bytes - BytesOf(gone)
        /\ tickets' = Responded(gone, "deadline")
        /\ workers' = [workers EXCEPT ![w].running = @ + 1]
  /\ TakeAt(t, "leaving")
  /\ UNCHANGED <<connections, next_id, late, retired>>

\* The lock is released before the future is polled: a notification may come in
\* between.
TakeAwait(t) ==
  /\ takes[t].pc = "tried"
  /\ TakeAt(t, "parked")
  /\ UNCHANGED <<state, late, retired, tickets>>

\* timeout_at(end, notified) polls the notification before the clock.
TakeElapsed(t) ==
  /\ takes[t].pc = "parked"
  /\ ~takes[t].woken
  /\ TakeAt(t, "leaving")
  /\ UNCHANGED <<state, late, retired, tickets>>

\* The connection's tasks are aborted after its disconnect; only a future
\* that is suspended can be dropped.
TakeAborted(t) ==
  /\ takes[t].pc = "parked"
  /\ t[1] \in retired
  /\ TakeAt(t, "leaving")
  /\ UNCHANGED <<state, late, retired, tickets>>

\* TakeGuard::drop
TakeLeave(t) ==
  /\ takes[t].pc = "leaving"
  /\ workers' = IF t[1] \in DOMAIN workers
                THEN [workers EXCEPT ![t[1]].pending_takes = IF @ > 0 THEN @ - 1 ELSE 0]
                ELSE workers
  /\ takes' = [takes EXCEPT ![t] = [pc |-> "idle", woken |-> FALSE]]
  /\ UNCHANGED <<connections, routes, calls, next_id, retained_bytes,
                 late, retired, tickets>>

-----------------------------------------------------------------------------
(* Completion: Rpc::complete.                                              *)

\* Mutants of Outcome: a late completion drops the response without a reply,
\* or does not look at the clock.
OutcomeDropped(i, failed) ==
  IF i \in late THEN "closed" ELSE IF failed THEN "handler_error" ELSE "ok"
OutcomeAnyTime(i, failed) == IF failed THEN "handler_error" ELSE "ok"

Outcome(i, failed) ==
  IF i \in late THEN "deadline" ELSE IF failed THEN "handler_error" ELSE "ok"

Complete(w, i, failed) ==
  /\ w \in DOMAIN workers
  /\ i \in Live
  /\ calls[i].owner = w
  /\ calls' = Omit(calls, {i})
  /\ retained_bytes' = retained_bytes - BytesOf({i})
  /\ workers' = SlotFreed(w)
  /\ tickets' = Responded({i}, Outcome(i, failed))
  /\ takes' = Notified({w})
  /\ UNCHANGED <<connections, routes, next_id, late, retired>>

-----------------------------------------------------------------------------
(* The ticket of an admitted request: Ticket::wait and Ticket::drop.       *)

TicketAt(i, pc, reply) ==
  tickets' = [tickets EXCEPT ![i].pc = pc, ![i].reply = reply]

\* The receiver is ready: a value, or a sender dropped without one.
TicketReceive(i) ==
  /\ tickets[i].pc = "waiting"
  /\ tickets[i].reply # "none"
  /\ TicketAt(i, "dropping", tickets[i].reply)
  /\ UNCHANGED <<state, late, retired, takes>>

\* The timer fires: the receiver is dropped before Rpc::expire locks.
TicketElapsed(i) ==
  /\ tickets[i].pc = "waiting"
  /\ tickets[i].reply = "none"
  /\ i \in late
  /\ TicketAt(i, "expiring", "none")
  /\ UNCHANGED <<state, late, retired, takes>>

\* The task is aborted: its connection has disconnected.
TicketAborted(i) ==
  /\ tickets[i].pc = "waiting"
  /\ tickets[i].caller \in retired
  /\ TicketAt(i, "dropping", "aborted")
  /\ UNCHANGED <<state, late, retired, takes>>

\* Mutant of ResponseTaken: the queue is not searched for the removed call.
ResponseTakenQueued(i) ==
  LET gone == Unowned({i} \cap Live)
  IN  /\ calls' = [x \in Live \ gone |->
                     IF x = i THEN [calls[x] EXCEPT !.response = FALSE] ELSE calls[x]]
      /\ UNCHANGED routes
      /\ retained_bytes' = retained_bytes - BytesOf(gone)

\* A response is taken out of call i, and the call is removed when no worker
\* owns it: State::expire and Rpc::cancel (whose reply has no receiver here).
ResponseTaken(i) ==
  LET gone == Unowned({i} \cap Live)
  IN  /\ calls' = [x \in Live \ gone |->
                     IF x = i THEN [calls[x] EXCEPT !.response = FALSE] ELSE calls[x]]
      /\ routes' = [r \in DOMAIN routes |->
                      [routes[r] EXCEPT !.queue = Without(@, gone)]]
      /\ retained_bytes' = retained_bytes - BytesOf(gone)

TicketExpire(i) ==
  /\ tickets[i].pc = "expiring"
  /\ ResponseTaken(i)
  /\ TicketAt(i, "dropping", "deadline")
  /\ UNCHANGED <<connections, workers, next_id, late, retired, takes>>

TicketDrop(i) ==
  /\ tickets[i].pc = "dropping"
  /\ ResponseTaken(i)
  /\ TicketAt(i, "done", tickets[i].reply)
  /\ UNCHANGED <<connections, workers, next_id, late, retired, takes>>

\* The clock.  A deadline that nobody will compare with now again is left out.
DeadlinePasses(i) ==
  /\ i \notin late
  /\ i \in Live \/ tickets[i].pc = "waiting"
  /\ late' = late \cup {i}
  /\ UNCHANGED <<state, retired, tickets, takes>>

-----------------------------------------------------------------------------

ConnectionStep ==
  \/ \E k \in Conns : Connect(k) \/ Disconnect(k)
  \/ \E w \in Servers, r \in Routes, c \in Concurrencies, l \in QueueLimits :
       Register(w, r, c, l)
  \/ \E k \in Callers, r \in Routes, b \in Costs :
       Request(k, r, b) \/ RequestOverloaded(k, r, b)
  \/ \E w \in Servers, i \in Live, failed \in BOOLEAN : Complete(w, i, failed)

\* A take future being polled: no step of these needs anyone else.
TakeRuns(t) ==
  \/ TakeArm(t) \/ TakeUnauthorized(t) \/ TakeNoSlot(t) \/ TakeEmpty(t)
  \/ TakeLapsed(t) \/ TakeJob(t) \/ TakeAwait(t) \/ TakeLeave(t)

TakeStep(t) == TakeEnter(t) \/ TakeRuns(t) \/ TakeElapsed(t) \/ TakeAborted(t)

TicketRuns(i) ==
  TicketReceive(i) \/ TicketElapsed(i) \/ TicketExpire(i) \/ TicketDrop(i)

TicketStep(i) == TicketRuns(i) \/ TicketAborted(i)

Next ==
  \/ ConnectionStep
  \/ \E t \in Takers : TakeStep(t)
  \/ \E i \in DOMAIN tickets : TicketStep(i) \/ DeadlinePasses(i)

Spec == Init /\ [][Next]_vars

(***************************************************************************)
(* Fairness.  Tokio polls every woken task and fires every timer, and a    *)
(* task that polls holds the mutex only for a bounded step, so the steps a *)
(* future takes by itself are weakly fair.  Clients owe nothing: no        *)
(* fairness on ConnectionStep, on entering a take or on its wait_ms timer. *)
(* The abort of a closed connection's tasks is not needed either.          *)
(***************************************************************************)
TaskFairness ==
  /\ \A t \in Takers : WF_vars(TakeRuns(t))
  /\ \A i \in Ids : WF_vars(i \in DOMAIN tickets /\ TicketRuns(i))

WorkSpec == Spec /\ TaskFairness

-----------------------------------------------------------------------------
(* Invariants.                                                             *)

RouteType  == [workers : SUBSET Servers, queue : Seq(Ids), queue_limit : QueueLimits]
WorkerType == [route : Routes, concurrency : Concurrencies,
               running : Nat, pending_takes : Nat]
CallType   == [caller : Callers, route : Routes, owner : Servers \cup {None},
               response : BOOLEAN, retained_bytes : Costs]
TicketType == [caller : Callers, pc : TicketPcs, reply : Replies]
TakeType   == [pc : TakePcs, woken : BOOLEAN]

\* Every map of State is keyed and filled with what the code's types allow, a
\* live call has an id below next_id, and each admitted request has one ticket.
IsMap(f, K, V) ==
  /\ f = [x \in DOMAIN f |-> f[x]]
  /\ DOMAIN f \subseteq K
  /\ \A x \in DOMAIN f : f[x] \in V

TypeOK ==
  /\ connections \subseteq Conns
  /\ retired \subseteq Conns
  /\ late \subseteq Ids
  /\ next_id \in 1 .. LastId
  /\ IsMap(routes, Routes, RouteType)
  /\ IsMap(workers, Servers, WorkerType)
  /\ IsMap(calls, DOMAIN tickets, CallType)
  /\ IsMap(tickets, Ids, TicketType)
  /\ DOMAIN tickets = 1 .. next_id - 1
  /\ takes \in [Takers -> TakeType]

\* Routes and workers name each other: a route exists exactly while a
\* registered worker serves it (disconnect unwraps routes[worker.route]).
RoutesServed ==
  /\ \A r \in DOMAIN routes :
       /\ routes[r].workers # {}
       /\ \A w \in routes[r].workers : w \in DOMAIN workers /\ workers[w].route = r
  /\ \A w \in DOMAIN workers :
       workers[w].route \in DOMAIN routes /\ w \in routes[workers[w].route].workers

\* The maps of State hold what their types allow, and a route exists exactly
\* while a registered worker serves it, through every order of registrations
\* and disconnects: the unwraps of disconnect() cannot panic (rpc.rs 470-510).
TypeInv == TypeOK /\ RoutesServed

\* A queue holds exactly the unowned live calls of its route, each once, so
\* "queue points to a live call" never panics and no admitted call is stranded
\* outside every queue, whichever of expiry, cancellation, disconnect and
\* dispatch removed its neighbours.
QueueIntegrity ==
  /\ \A r \in DOMAIN routes :
       /\ Range(Queue(r)) = {i \in Live : calls[i].owner = None /\ calls[i].route = r}
       /\ IsInjective(Queue(r))
  /\ \A i \in Live : calls[i].owner = None => calls[i].route \in DOMAIN routes

\* worker.running counts exactly the live calls the worker owns and
\* worker.pending_takes the take() futures that still hold their guard, both
\* within its concurrency, although disconnect, completion, expiry and aborts
\* overlap: no slot leaks, none is freed twice, and every owner is registered.
Pending(w) == {t \in Takers : t[1] = w /\ takes[t].pc # "idle"}

SlotAccounting ==
  /\ \A w \in DOMAIN workers :
       /\ workers[w].running = Cardinality(OwnedBy(w))
       /\ workers[w].pending_takes = Cardinality(Pending(w))
       /\ workers[w].running <= workers[w].concurrency
       /\ workers[w].pending_takes <= workers[w].concurrency
  /\ \A i \in Live : calls[i].owner # None => calls[i].owner \in DOMAIN workers

\* retained_bytes is the sum over the live calls, so it never underflows, and
\* the three admission budgets hold at every moment.
BudgetsHold ==
  /\ retained_bytes = BytesOf(Live)
  /\ retained_bytes <= MaxBytes
  /\ Cardinality(Live) <= MaxCalls
  /\ \A r \in DOMAIN routes : Len(Queue(r)) <= routes[r].queue_limit

\* A reply is never lost: a ticket still waiting on an empty channel has a live
\* call that will answer it, a call that still holds a response has a ticket
\* that was sent nothing, and only a caller that has gone itself finds its
\* channel closed without a reply.
ReplyNotLost ==
  /\ \A i \in DOMAIN tickets :
       tickets[i].pc = "waiting" =>
         /\ tickets[i].reply = "none" => i \in Live /\ calls[i].response
         /\ tickets[i].reply = "closed" => tickets[i].caller \in retired
  /\ \A i \in Live : calls[i].response =>
       /\ tickets[i].pc = "waiting" => tickets[i].reply = "none"
       /\ tickets[i].pc # "done"

\* No lost wakeup: a worker whose take sleeps unnotified has either no free
\* slot or an empty queue.
NoLostWakeup ==
  \A t \in Takers :
    takes[t].pc \in {"tried", "parked"} /\ ~takes[t].woken =>
      /\ t[1] \in DOMAIN workers
      /\ HasSlot(t[1]) => Queue(workers[t[1]].route) = <<>>

\* A connection that is gone leaves nothing behind: it is no worker, owns no
\* call, has no call queued and no response held, and a request task that
\* runs after disconnect cannot bring anything back.
RetiredLeavesNothing ==
  \A k \in retired :
    /\ k \notin connections
    /\ k \notin DOMAIN workers
    /\ \A r \in DOMAIN routes : k \notin routes[r].workers
    /\ \A i \in Live :
         /\ calls[i].owner # k
         /\ calls[i].caller = k => calls[i].owner # None /\ ~calls[i].response

-----------------------------------------------------------------------------
(* Action properties.                                                      *)

\* At most once: a call is handed to one worker, never goes back to a queue or
\* to another worker, and an id that has ended never lives again.
HandedOutOnce ==
  [][\A i \in DOMAIN tickets :
       i \in DOMAIN calls' =>
         /\ i \in DOMAIN calls
         /\ calls[i].owner # None => calls'[i].owner = calls[i].owner]_vars

\* A call is handed out in admission order within its route, and never after
\* its deadline.
DispatchOldestInTime ==
  [][\A i \in Live \cap DOMAIN calls' :
       calls[i].owner = None /\ calls'[i].owner # None =>
         /\ i \notin late'
         /\ \A j \in DOMAIN calls' :
              calls'[j].owner = None /\ calls'[j].route = calls[i].route => i < j]_vars

-----------------------------------------------------------------------------
(* Liveness.                                                               *)

\* Work conservation: under task fairness alone, a free slot, a take in progress
\* and a queued call do not coexist for ever.
WorkConserving ==
  \A t \in Takers :
    (/\ takes[t].pc \in {"entered", "trying", "tried", "parked"}
     /\ t[1] \in DOMAIN workers
     /\ HasSlot(t[1])
     /\ Queue(workers[t[1]].route) # <<>>)
    ~> (\/ takes[t].pc \in {"leaving", "idle"}
        \/ t[1] \notin DOMAIN workers
        \/ ~HasSlot(t[1])
        \/ Queue(workers[t[1]].route) = <<>>)

\* No future waits for ever.  Every take of a worker that has gone ends, because
\* disconnect wakes it; and once the deadline of an admitted request has passed
\* its ticket ends, whether the call was queued, ran on a worker that never
\* completes it or had been stranded by a disconnect.
FuturesEnd ==
  /\ \A t \in Takers : t[1] \in retired ~> takes[t].pc = "idle"
  /\ \A i \in Ids : i \in late ~> (i \in DOMAIN tickets /\ tickets[i].pc = "done")

=============================================================================
