--------------------------- MODULE ClusterService ---------------------------
(***************************************************************************)
(* ClusterService of packages/client/src/cluster.ts: one route, registered *)
(* on the current connection of every broker.  attach() awaits             *)
(* client.handle() while the connection it began with may be retired and   *)
(* replaced; an epoch tells it on return whether its result is still       *)
(* wanted.  Client.handle() itself is modelled in ServiceHandle: here it   *)
(* returns a live handle or throws.                                        *)
(***************************************************************************)
EXTENDS Naturals, FiniteSets

CONSTANTS
  Nodes,     \* brokers
  MaxFaults  \* bound: failures of connections, registrations and handles

ASSUME ServiceAssumption == MaxFaults \in Nat

VARIABLES
  client,    \* node.client: an identifier, 0 for undefined
  open,      \* the clients that are not closed
  handles,   \* this.handles
  attaching, \* this.attaching: the attempt at each node
  epochs,    \* this.epochs, 0 for none
  waits,     \* nodes whose retryAt has not come
  alive,     \* handles that serve at their broker
  closing,   \* how far close() has come
  made,      \* identifiers made so far, of clients and of epochs
  faults

vars == <<client, open, handles, attaching, epochs, waits, alive, closing, made, faults>>

\* A handle is known by the attempt that made it.
Handle(n, c, e) == [node |-> n, client |-> c, epoch |-> e]
NoHandle        == Handle("none", 0, 0)
NoAttempt       == [pc |-> "none", handle |-> NoHandle]

stopped   == closing # "no"
IsOpen(n) == client[n] \in open

Init ==
  /\ client = [n \in Nodes |-> 0]
  /\ open = {} /\ alive = {} /\ waits = {}
  /\ handles = [n \in Nodes |-> NoHandle]
  /\ attaching = [n \in Nodes |-> NoAttempt]
  /\ epochs = [n \in Nodes |-> 0]
  /\ closing = "no"
  /\ made = 0 /\ faults = 0

Fault == faults < MaxFaults /\ faults' = faults + 1

-----------------------------------------------------------------------------
(* attach() and detach(), as the pool calls them.                          *)

Vacant(n) == ~stopped /\ handles[n] = NoHandle /\ n \notin waits /\ attaching[n] = NoAttempt

\* attach() up to its await, on client c; e is the new epoch.
Attach(n, c, e) ==
  /\ epochs' = [epochs EXCEPT ![n] = e]
  /\ attaching' = [attaching EXCEPT ![n] = [pc |-> "handling", handle |-> Handle(n, c, e)]]

\* connectNode: the new client is published, with its observer, and attached.
\* It may have failed already, which the observer hears in a microtask.
Connect(n) ==
  LET c == made + 1
  IN  /\ client[n] = 0
      /\ client' = [client EXCEPT ![n] = c]
      /\ made' = made + 2
      /\ \/ /\ open' = open \cup {c}
            /\ IF Vacant(n) THEN Attach(n, c, c + 1) ELSE UNCHANGED <<epochs, attaching>>
            /\ UNCHANGED faults
         \/ Fault /\ UNCHANGED <<open, epochs, attaching>>
      /\ UNCHANGED <<handles, waits, alive, closing>>

\* tick(), for a node whose client is open.
Tick(n) ==
  /\ IsOpen(n) /\ Vacant(n)
  /\ Attach(n, client[n], made + 1)
  /\ made' = made + 1
  /\ UNCHANGED <<client, open, handles, waits, alive, closing, faults>>

Detached(n) ==
  /\ handles' = [handles EXCEPT ![n] = NoHandle]
  /\ epochs' = [epochs EXCEPT ![n] = 0]

\* retire(): after a failure, a failed ping or a lost request; with the client
\* go its handles.
Retire(n) ==
  /\ client[n] # 0
  /\ IF IsOpen(n) THEN Fault ELSE UNCHANGED faults
  /\ client' = [client EXCEPT ![n] = 0]
  /\ open' = open \ {client[n]}
  /\ alive' = {h \in alive : h.client # client[n]}
  /\ Detached(n)
  /\ UNCHANGED <<attaching, waits, closing, made>>

\* A handle's own connection fails while the client's lives: onError.
HandleFails(h) ==
  /\ Fault
  /\ alive' = alive \ {h}
  /\ IF epochs[h.node] = h.epoch /\ ~stopped
     THEN Detached(h.node) /\ waits' = waits \cup {h.node}
     ELSE UNCHANGED <<handles, epochs, waits>>
  /\ UNCHANGED <<client, open, attaching, closing, made>>

-----------------------------------------------------------------------------
(* attach() from its await on.                                             *)

At(n, pc)      == attaching[n].pc = pc
Attempt(n, pc) == attaching' = [attaching EXCEPT ![n].pc = pc]

HandleReturns(n) ==
  /\ At(n, "handling")
  /\ attaching[n].handle.client \in open
  /\ alive' = alive \cup {attaching[n].handle}
  /\ Attempt(n, "returned")
  /\ UNCHANGED <<client, open, handles, epochs, waits, closing, made, faults>>

\* The broker refuses, or the connection is lost.
HandleThrows(n) ==
  /\ At(n, "handling")
  /\ IF attaching[n].handle.client \in open THEN Fault ELSE UNCHANGED faults
  /\ waits' = waits \cup {n}
  /\ Attempt(n, "over")
  /\ UNCHANGED <<client, open, handles, epochs, alive, closing, made>>

\* Mutant of StillWanted: the service may have been closed meanwhile.
StillEpoch(n, h) == epochs[n] = h.epoch /\ client[n] = h.client /\ h.client \in open

StillWanted(n, h) ==
  /\ ~stopped
  /\ epochs[n] = h.epoch
  /\ client[n] = h.client
  /\ h.client \in open

\* The handle is kept, or closed because nobody wants it any more.
Resume(n) ==
  LET h == attaching[n].handle
  IN  /\ At(n, "returned")
      /\ IF StillWanted(n, h)
         THEN /\ handles' = [handles EXCEPT ![n] = h]
              /\ waits' = waits \ {n}
              /\ UNCHANGED alive
         ELSE alive' = alive \ {h} /\ UNCHANGED <<handles, waits>>
      /\ Attempt(n, "over")
      /\ UNCHANGED <<client, open, epochs, closing, made, faults>>

\* Mutant of Over: no finally.
OverNever(n) == FALSE

\* finally
Over(n) ==
  /\ At(n, "over")
  /\ attaching' = [attaching EXCEPT ![n] = NoAttempt]
  /\ UNCHANGED <<client, open, handles, epochs, waits, alive, closing, made, faults>>

\* retryAt passes.
RetryAt(n) ==
  /\ n \in waits
  /\ waits' = waits \ {n}
  /\ UNCHANGED <<client, open, handles, attaching, epochs, alive, closing, made, faults>>

-----------------------------------------------------------------------------
(* close(): closes the handles, forgets them once closed, then waits for   *)
(* the attempts under way.                                                 *)

Close ==
  /\ closing = "no"
  /\ closing' = "handles"
  /\ alive' = alive \ {handles[n] : n \in Nodes}
  /\ UNCHANGED <<client, open, handles, attaching, epochs, waits, made, faults>>

HandlesClosed ==
  /\ closing = "handles"
  /\ closing' = "attempts"
  /\ handles' = [n \in Nodes |-> NoHandle]
  /\ UNCHANGED <<client, open, attaching, epochs, waits, alive, made, faults>>

AttemptsOver == \A n \in Nodes : At(n, "none")

Closed ==
  /\ closing = "attempts" /\ AttemptsOver
  /\ closing' = "closed"
  /\ UNCHANGED <<client, open, handles, attaching, epochs, waits, alive, made, faults>>

Progress(n) ==
  Connect(n) \/ Tick(n) \/ HandleReturns(n) \/ HandleThrows(n) \/ Resume(n) \/ Over(n)

Next ==
  \/ \E n \in Nodes : Progress(n) \/ Retire(n) \/ RetryAt(n)
  \/ \E h \in alive : HandleFails(h)
  \/ Close \/ HandlesClosed \/ Closed

\* The health timer ticks, connections are tried again, promises settle and
\* continuations run.
Spec ==
  /\ Init /\ [][Next]_vars
  /\ \A n \in Nodes :
       /\ WF_vars(Progress(n))
       /\ WF_vars(RetryAt(n))
       /\ WF_vars(client[n] \notin open /\ Retire(n))
  /\ WF_vars(HandlesClosed) /\ WF_vars(Closed)

-----------------------------------------------------------------------------

Handles == [node : Nodes, client : 1 .. made, epoch : 1 .. made]

TypeOK ==
  /\ client \in [Nodes -> 0 .. made]
  /\ open \subseteq 1 .. made
  /\ handles \in [Nodes -> Handles \cup {NoHandle}]
  /\ \A n \in Nodes :
       /\ attaching[n].pc \in {"none", "handling", "returned", "over"}
       /\ attaching[n].handle \in Handles \cup {NoHandle}
       /\ At(n, "none") <=> attaching[n] = NoAttempt
  /\ epochs \in [Nodes -> 0 .. made]
  /\ waits \subseteq Nodes
  /\ alive \subseteq Handles
  /\ closing \in {"no", "handles", "attempts", "closed"}
  /\ made \in Nat /\ faults \in 0 .. MaxFaults

\* nodes() tells the truth, and no dead entry keeps attach() from trying
\* again: a handle in the map serves, on the node's current connection.
HandlesServe ==
  ~stopped => \A n \in Nodes : handles[n] # NoHandle =>
    /\ handles[n] \in alive
    /\ handles[n].client = client[n] /\ IsOpen(n)

\* No handle serves unknown to the service, which could then never close it:
\* it is in the map or its attempt has yet to look at it.
NoOrphan ==
  \A h \in alive :
    \/ handles[h.node] = h
    \/ attaching[h.node].handle = h /\ At(h.node, "returned")

\* A broker sees one registration of the service: twice the slots would mean
\* twice the concurrency that was asked for.
RegisteredOnce ==
  \A g, h \in alive : g.node = h.node => g = h

\* When close() resolves nothing serves, and nothing will.
ClosedServesNothing == closing = "closed" => alive = {}

\* Whatever retirements, reconnections, failures of the handle and close() come
\* between the two halves of attach(), the map, the brokers and the attempts
\* under way agree.
Registered ==
  TypeOK /\ HandlesServe /\ NoOrphan /\ RegisteredOnce /\ ClosedServesNothing

\* After the last failure every broker comes to serve the route, if the
\* service is not closed: no attempt, epoch or retry time stands in the way
\* for ever, and none keeps close() from ending.
EveryBrokerServes ==
  /\ <>[](stopped \/ \A n \in Nodes : handles[n] \in alive)
  /\ closing = "handles" ~> closing = "closed"
=============================================================================
