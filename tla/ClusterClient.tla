--------------------------- MODULE ClusterClient ----------------------------
(***************************************************************************)
(* ClusterClient of packages/client/src/cluster.ts: requests over several  *)
(* independent brokers, each reached by a client that is retired when it   *)
(* fails and replaced.  A request moves to another broker only when the    *)
(* one before certainly did not dispatch it.  ClusterService models the    *)
(* services, ClientTransport the clients; here a client accepts a request  *)
(* and settles it, once and for all when it fails.                         *)
(***************************************************************************)
EXTENDS Integers, FiniteSets, Functions

CONSTANTS
  Nodes,      \* brokers
  Requests,   \* calls of request()
  Cap,        \* requests a client takes: 32 in the code
  MaxPending, \* maxPendingRequests
  MaxClients  \* bound: clients of all brokers

ASSUME ClusterAssumption ==
  IsFiniteSet(Nodes) /\ Cap \in Nat \ {0} /\ MaxPending \in Nat \ {0} /\ MaxClients \in Nat \ {0}

VARIABLES
  client,      \* node.client: <<node, number>>, number 0 for undefined
  open,        \* clients that are not closed
  made,        \* clients made so far, per node
  connecting,  \* node.connecting: where connectNode() stands
  pings,       \* the client that each node's health check awaits, 0 for none
  pending,     \* node.pending
  requests,    \* the calls: [pc, client, tried, result, outcome]
  wire,        \* requests <<r, client>> on their way to a broker
  dispatched,  \* requests <<r, client>> that a broker has handed to a worker
  closing

vars == <<client, open, made, connecting, pings, pending, requests, wire, dispatched, closing>>
net  == <<wire, dispatched>>

Undefined(n) == <<n, 0>>
Clients      == Nodes \X (0 .. MaxClients)
IsOpen(n)    == client[n] \in open
stopped      == closing # "no"

\* Each result of client.request(): codes 8 and 9, another BrokerError, a
\* response, or anything else.
Results  == {"none", "refused", "error", "answer", "lost"}
Outcomes == {"none", "refused", "error", "answer", "ambiguous", "deadline", "busy", "unavailable"}

Init ==
  /\ client = [n \in Nodes |-> Undefined(n)]
  /\ open = {} /\ wire = {} /\ dispatched = {}
  /\ made = [n \in Nodes |-> 0]
  /\ connecting = [n \in Nodes |-> "no"]
  /\ pings = [n \in Nodes |-> Undefined(n)]
  /\ pending = [n \in Nodes |-> 0]
  /\ requests = [r \in Requests |->
       [pc |-> "new", client |-> <<>>, tried |-> {}, result |-> "none", outcome |-> "none"]]
  /\ closing = "no"

-----------------------------------------------------------------------------
(* request()                                                               *)

Active == {r \in Requests : requests[r].pc \in {"sent", "resumed"}}
Sent(c) == {r \in Requests : requests[r].pc = "sent" /\ requests[r].client = c}

Settled(r, outcome) ==
  [requests EXCEPT ![r] = [@ EXCEPT !.pc = "settled", !.outcome = outcome,
                                    !.tried = {}, !.result = "none"]]

\* choose(): the least loaded of the nodes not tried; the cursor breaks ties.
Candidates(tried, load) == {n \in Nodes \ tried : IsOpen(n) /\ load[n] < Cap}
Choice(tried, load) ==
  {n \in Candidates(tried, load) : \A m \in Candidates(tried, load) : load[n] <= load[m]}

\* The error when no node is left to try.
Exhausted(last) ==
  CASE last # "none" -> last
    [] last = "none" /\ (\E n \in Nodes : IsOpen(n)) -> "busy"
    [] OTHER -> "unavailable"

\* One turn of request()'s loop, with the load once the last attempt is over.
Attempt(r, last, load) ==
  LET tried == requests[r].tried
  IN  \/ /\ Choice(tried, load) = {}
         /\ requests' = Settled(r, Exhausted(last))
         /\ pending' = load
         /\ UNCHANGED wire
      \/ /\ Choice(tried, load) # {}  \* the deadline has passed
         /\ requests' = Settled(r, "deadline")
         /\ pending' = load
         /\ UNCHANGED wire
      \/ \E n \in Choice(tried, load) :
           /\ requests' = [requests EXCEPT ![r] =
                [pc |-> "sent", client |-> client[n], tried |-> tried \cup {n},
                 result |-> "none", outcome |-> "none"]]
           /\ pending' = [load EXCEPT ![n] = @ + 1]
           /\ wire' = wire \cup {<<r, client[n]>>}

Request(r) ==
  /\ requests[r].pc = "new"
  /\ IF stopped \/ Cardinality(Active) >= MaxPending
     THEN /\ requests' = Settled(r, IF stopped THEN "unavailable" ELSE "busy")
          /\ UNCHANGED <<pending, wire>>
     ELSE Attempt(r, "none", pending)
  /\ UNCHANGED <<client, open, made, connecting, pings, dispatched, closing>>

\* Mutant of RetireOf: whichever client the node has now is closed.
RetireAny(c) ==
  /\ client' = [client EXCEPT ![c[1]] = Undefined(c[1])]
  /\ open' = open \ {client[c[1]]}

\* retire() the client that lost the request, if the node still has it.
RetireOf(c) ==
  /\ client' = [client EXCEPT ![c[1]] = IF @ = c THEN Undefined(c[1]) ELSE @]
  /\ open' = IF client[c[1]] = c THEN open \ {c} ELSE open

\* Mutant of Lost: the promises are forgotten.
LostNone(c) == requests

\* client.fail(): what it has pending is rejected.
Lost(c) ==
  [r \in Requests |-> IF r \in Sent(c)
                      THEN [requests[r] EXCEPT !.pc = "resumed", !.result = "lost"]
                      ELSE requests[r]]

\* Mutant of Elsewhere: a lost request is tried elsewhere too.
ElsewhereLost == {"refused", "lost"}

\* What another broker may be asked after.
Elsewhere == {"refused"}

OutcomeOf(result) == IF result = "lost" THEN "ambiguous" ELSE result

\* Mutant of Lighter: the load of a refused attempt stays.
LighterIfSettled(r) ==
  IF requests[r].result \in Elsewhere THEN pending
  ELSE [pending EXCEPT ![requests[r].client[1]] = @ - 1]

\* finally { node.pending-- }
Lighter(r) == [pending EXCEPT ![requests[r].client[1]] = @ - 1]

\* The continuation after await client.request().
Resume(r) ==
  LET q == requests[r]
  IN  /\ q.pc = "resumed"
      /\ IF q.result = "lost" THEN RetireOf(q.client) ELSE UNCHANGED <<client, open>>
      /\ IF q.result \in Elsewhere
         THEN Attempt(r, "refused", Lighter(r))
         ELSE /\ requests' = Settled(r, OutcomeOf(q.result))
              /\ pending' = Lighter(r)
              /\ UNCHANGED wire
      /\ UNCHANGED <<made, connecting, pings, dispatched, closing>>

-----------------------------------------------------------------------------
(* The brokers.                                                            *)

Resumed(r, result) == requests' = [requests EXCEPT ![r].pc = "resumed", ![r].result = result]

\* A request that was sent may be dispatched after its client has failed.
Dispatch(w) ==
  /\ wire' = wire \ {w}
  /\ dispatched' = dispatched \cup {w}
  /\ UNCHANGED <<client, open, made, connecting, pings, pending, requests, closing>>

\* A broker that has not dispatched a request answers it, and will not dispatch
\* it any more.
Undispatched(r, result) ==
  /\ requests[r].pc = "sent" /\ <<r, requests[r].client>> \in wire
  /\ wire' = wire \ {<<r, requests[r].client>>}
  /\ Resumed(r, result)
  /\ UNCHANGED <<client, open, made, connecting, pings, pending, dispatched, closing>>

\* NO_SERVICE or OVERLOADED: the call is not admitted.
Refuse(r) == Undispatched(r, "refused")

\* Any other error before dispatch: the deadline passes in the queue (expire), the
\* last worker of the route leaves (rpc.rs:498-507), the call is invalid or its
\* connection is being closed (rpc.rs:268).
Withdraw(r) == Undispatched(r, "error")

\* The handler's answer or error, the deadline of a call that has started, or the
\* departure of its worker.
Answer(r) ==
  /\ requests[r].pc = "sent" /\ <<r, requests[r].client>> \in dispatched
  /\ \E result \in {"answer", "error"} : Resumed(r, result)
  /\ UNCHANGED <<client, open, made, connecting, pings, pending, net, closing>>

\* A client fails: its socket, a timer, a response it cannot read.  The
\* observer, when there is one, retires it.
ClientFails(c) ==
  /\ c \in open
  /\ open' = open \ {c}
  /\ requests' = Lost(c)
  /\ client' = [client EXCEPT ![c[1]] = IF @ = c /\ ~stopped THEN Undefined(c[1]) ELSE @]
  /\ UNCHANGED <<made, connecting, pings, pending, net, closing>>

-----------------------------------------------------------------------------
(* tick() and connectNode()                                                *)

Counted(n) == [pending EXCEPT ![n] = @ + 1]

\* The next tick waits for this one, hence for this ping.
Ping(n) ==
  /\ ~stopped /\ IsOpen(n) /\ pending[n] = 0 /\ pings[n] = Undefined(n)
  /\ pings' = [pings EXCEPT ![n] = client[n]]
  /\ pending' = Counted(n)
  /\ UNCHANGED <<client, open, made, connecting, requests, net, closing>>

\* A ping that fails retires the client, open or not.
PingSettles(n) ==
  /\ pings[n] # Undefined(n)
  /\ pings' = [pings EXCEPT ![n] = Undefined(n)]
  /\ pending' = [pending EXCEPT ![n] = @ - 1]
  /\ \/ pings[n] \in open /\ UNCHANGED <<client, open, requests>>
     \/ /\ RetireOf(pings[n])
        /\ requests' = IF client[n] = pings[n] THEN Lost(pings[n]) ELSE requests
  /\ UNCHANGED <<made, connecting, net, closing>>

MayConnect(n) == ~stopped /\ ~IsOpen(n) /\ connecting[n] = "no"

\* A tick, once retryAt has passed: the dead client is retired first.
Connect(n) ==
  /\ MayConnect(n)
  /\ SumFunction(made) < MaxClients
  /\ client' = [client EXCEPT ![n] = Undefined(n)]
  /\ made' = [made EXCEPT ![n] = @ + 1]
  /\ connecting' = [connecting EXCEPT ![n] = "connecting"]
  /\ UNCHANGED <<open, pings, pending, requests, net, closing>>

\* Client.connect() settles.
ConnectSettles(n) ==
  /\ connecting[n] = "connecting"
  /\ \/ /\ open' = open \cup {<<n, made[n]>>}
        /\ connecting' = [connecting EXCEPT ![n] = "connected"]
     \/ /\ connecting' = [connecting EXCEPT ![n] = "no"]
        /\ UNCHANGED open
  /\ UNCHANGED <<client, made, pings, pending, requests, net, closing>>

\* Mutant of Unwanted: close() during the connection is not noticed.
UnwantedNever == FALSE

Unwanted == stopped

\* The continuation: the client is closed, or published; and if it has failed
\* since, it is retired in the next microtask.  The node counts as connecting
\* until the services have been attached.
Publish(n) ==
  LET c == <<n, made[n]>>
  IN  /\ connecting[n] = "connected"
      /\ IF Unwanted
         THEN open' = open \ {c} /\ UNCHANGED client
         ELSE client' = [client EXCEPT ![n] = c] /\ UNCHANGED open
      /\ connecting' = [connecting EXCEPT ![n] = "attaching"]
      /\ UNCHANGED <<made, pings, pending, requests, net, closing>>

Connected(n) ==
  /\ connecting[n] = "attaching"
  /\ connecting' = [connecting EXCEPT ![n] = "no"]
  /\ UNCHANGED <<client, open, made, pings, pending, requests, net, closing>>

RetireDead(n) ==
  /\ client[n] # Undefined(n) /\ ~IsOpen(n) /\ ~stopped
  /\ client' = [client EXCEPT ![n] = Undefined(n)]
  /\ UNCHANGED <<open, made, connecting, pings, pending, requests, net, closing>>

-----------------------------------------------------------------------------
(* close()                                                                 *)

Close ==
  /\ ~stopped
  /\ closing' = "closing"
  /\ open' = open \ {client[n] : n \in Nodes}
  /\ requests' = [r \in Requests |->
       IF \E n \in Nodes : IsOpen(n) /\ r \in Sent(client[n]) THEN Lost(requests[r].client)[r]
       ELSE requests[r]]
  /\ UNCHANGED <<client, made, connecting, pings, pending, net>>

\* Connections under way and the last tick are waited for.
Closed ==
  /\ closing = "closing"
  /\ \A n \in Nodes : connecting[n] = "no" /\ pings[n] = Undefined(n)
  /\ closing' = "closed"
  /\ client' = [n \in Nodes |-> Undefined(n)]
  /\ UNCHANGED <<open, made, connecting, pings, pending, requests, net>>

NodeStep(n) == PingSettles(n) \/ ConnectSettles(n) \/ Publish(n) \/ Connected(n)

Next ==
  \/ \E r \in Requests : Request(r) \/ Resume(r) \/ Refuse(r) \/ Withdraw(r) \/ Answer(r)
  \/ \E w \in wire : Dispatch(w)
  \/ \E c \in open : ClientFails(c)
  \/ \E n \in Nodes : Ping(n) \/ Connect(n) \/ RetireDead(n) \/ NodeStep(n)
  \/ Close \/ Closed

\* Continuations run, connection attempts and pings end, and a request is
\* answered or its timer fails the client.
Spec ==
  /\ Init /\ [][Next]_vars
  /\ \A r \in Requests :
       /\ WF_vars(Resume(r))
       /\ WF_vars(requests[r].pc = "sent" /\ ClientFails(requests[r].client))
  /\ \A n \in Nodes : WF_vars(NodeStep(n))
  /\ WF_vars(Closed)

-----------------------------------------------------------------------------

TypeOK ==
  /\ client \in [Nodes -> Clients] /\ pings \in [Nodes -> Clients]
  /\ open \subseteq Clients
  /\ made \in [Nodes -> 0 .. MaxClients]
  /\ connecting \in [Nodes -> {"no", "connecting", "connected", "attaching"}]
  /\ pending \in [Nodes -> 0 .. Cap]
  /\ \A r \in Requests :
       /\ requests[r].pc \in {"new", "sent", "resumed", "settled"}
       /\ requests[r].tried \subseteq Nodes
       /\ requests[r].result \in Results
       /\ requests[r].outcome \in Outcomes
  /\ wire \subseteq Requests \X Clients /\ dispatched \subseteq Requests \X Clients
  /\ closing \in {"no", "closing", "closed"}

Brokers(S, r) == {w[2] : w \in {v \in S : v[1] = r}}

\* "It was not replayed": one broker at most ever dispatches a request, and
\* while one still may, no other is asked.  An error that says the request was
\* not sent, or was refused before it was dispatched, is true and stays true; a
\* response comes from the broker that dispatched it.  Another error of a broker
\* leaves open whether it did, but is its last word: only AmbiguousResultError
\* leaves a request that may yet be dispatched.
DispatchedOnce ==
  \A r \in Requests :
    /\ Cardinality(Brokers(wire \cup dispatched, r)) <= 1
    /\ requests[r].outcome \in {"refused", "deadline", "busy", "unavailable"}
         => Brokers(wire \cup dispatched, r) = {}
    /\ requests[r].outcome = "answer" => Brokers(dispatched, r) = {requests[r].client}
    /\ requests[r].outcome \notin {"none", "ambiguous"} => Brokers(wire, r) = {}

\* The load of a node is what it still has to settle, its old clients and the
\* health check included: no path through the retries loses or leaks a unit,
\* and a node that choose() returns has room in its transport.
LoadIsExact ==
  /\ TypeOK
  /\ \A n \in Nodes :
       pending[n] = Cardinality({r \in Active : requests[r].client[1] = n})
                      + (IF pings[n] # Undefined(n) THEN 1 ELSE 0)
  /\ \A c \in open : Cardinality(Sent(c)) + (IF pings[c[1]] = c THEN 1 ELSE 0) <= Cap

\* No connection is left open that nobody would close: an open client is its
\* node's, or connectNode() has yet to look at it.  When close() resolves none
\* is left, not even one that was being made, and none will be.
ClosedLeavesNothing ==
  /\ \A c \in open :
       \/ client[c[1]] = c
       \/ connecting[c[1]] = "connected" /\ c[2] = made[c[1]]
  /\ closing = "closed" => open = {}

\* What fails late spares what has replaced it: an open client stays its node's
\* client until it fails itself, its own health check fails, or close().  A request
\* that was lost with an earlier client of the node, or a ping that it did not
\* answer, comes to retire() when the node has reconnected.
NewClientSpared ==
  [][\A n \in Nodes :
       IsOpen(n) =>
         \/ client'[n] = client[n] /\ client[n] \in open'
         \/ ClientFails(client[n])
         \/ pings[n] = client[n] /\ PingSettles(n)
         \/ Close]_vars

\* Every call of request() is settled, also by close(), and close() ends.
EverySettles ==
  /\ \A r \in Requests : requests[r].pc \in {"sent", "resumed"} ~> requests[r].pc = "settled"
  /\ closing = "closing" ~> closing = "closed"
=============================================================================
