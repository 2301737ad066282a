------------------------------ MODULE Session -------------------------------
(***************************************************************************)
(* The SDK's Client (ClientTransport) and the broker's side of its         *)
(* connection (Connection) at the two ends of one socket, with an          *)
(* application that sends what it likes and a network that may fail.       *)
(***************************************************************************)
EXTENDS Peer, ClientTransport

session == <<wire, server, client, peer>>

ClientStep ==
  \/ Transmit /\ Sends(Head(sendBuffer))
  \/ Receive /\ Reads
  \/ /\ \/ \E kind \in {"op", "invalid"} : Send(kind)
        \/ Drain
        \/ Timer
        \/ CloseCall
        \/ SocketError
     /\ UNCHANGED peer

\* The broker has closed the connection: both halves of the stream, or the
\* writing one, are dropped.
BrokerEnds == writer.pc = "ended" /\ End /\ UNCHANGED peer

SessionInit == Init /\ ClientInit /\ PeerInit

SessionNext ==
  \/ Next /\ UNCHANGED <<client, peer>>
  \/ (ClientStep \/ BrokerEnds) /\ UNCHANGED server

SessionSpec ==
  /\ SessionInit
  /\ [][SessionNext]_session
  /\ ServerFairness
  /\ ClientFairness
  /\ WF_session(BrokerEnds /\ UNCHANGED server)

-----------------------------------------------------------------------------

SessionTypeOK == TypeOK /\ ClientTypeOK

\* The promises that nobody has settled are those still pending, one
\* identifier each: none is forgotten when the connection fails.
OpenIsPending ==
  /\ {t \in Tags : settled[t] = "open"} = {pending[i] : i \in DOMAIN pending}
  /\ Cardinality(DOMAIN pending) = Cardinality({t \in Tags : settled[t] = "open"})
  /\ closed => pending = <<>>

\* Every reply on its way to an open client belongs to the request pending
\* under its identifier: identifiers wrap and are reused the moment a reply
\* arrives, while the broker still finishes the operation.  receive() trusts
\* this, and treats anything else as a broken broker.
AnswersOwnRequest ==
  /\ SessionTypeOK
  /\ OpenIsPending
  /\ ~closed => \A p \in DOMAIN replies :
       replies[p].id \in DOMAIN pending /\ pending[replies[p].id] = replies[p].tag

\* The broker never mistakes an SDK request for a duplicate, never says that
\* too many are in flight to a client that keeps to the broker's limit, and
\* never gets the frames in another order than that of the calls, through
\* backpressure, the queue and 'drain'.
NeverRefused ==
  /\ \A p \in DOMAIN replies :
       /\ replies[p].status # "duplicate"
       /\ maxPendingRequests <= MaxInFlight => replies[p].status # "overloaded"
  /\ LET way == requests \o sendBuffer \o writeQueue
     IN  \A p, q \in DOMAIN way : p < q => way[p].tag < way[q].tag

\* Without a timer that fires or a connection that breaks, every request is
\* settled all the same: answered, or failed because the broker closed.
EverySettles == \A t \in Tags : settled[t] = "open" ~> settled[t] # "open"
=============================================================================
