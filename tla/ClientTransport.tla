-------------------------- MODULE ClientTransport ---------------------------
(***************************************************************************)
(* The request side of the SDK's Client (packages/client/src/index.ts):    *)
(* send, flush, receive, fail and the socket's events, from the moment     *)
(* Client.open has sent HELLO.  JavaScript runs each callback to its end,  *)
(* so each is one action.                                                  *)
(***************************************************************************)
EXTENDS Wire

CONSTANTS
  MaxId,          \* the largest identifier: 2^32 - 1 in the code
  PendingLimits   \* what maxPendingRequests may be

ASSUME ClientAssumption ==
  /\ MaxId \in Nat /\ MaxId >= 2 /\ RequestIds = 1 .. MaxId
  /\ PendingLimits \subseteq 1 .. MaxId

VARIABLES
  maxPendingRequests,
  pending,        \* this.pending: the tag of the request under each identifier
  nextRequestId,
  writeQueue,     \* frames the socket was not given yet
  sendBuffer,     \* frames the socket took and has not transmitted
  blocked,        \* socket.write() returned false and 'drain' has not come
  closed,
  settled         \* what became of the promise of each request

client == <<maxPendingRequests, pending, nextRequestId, writeQueue, sendBuffer, blocked, closed, settled>>

\* HELLO is request 1; the token may be the wrong one.
Hello == 1

ClientInit ==
  /\ maxPendingRequests \in PendingLimits
  /\ pending = <<Hello>>
  /\ nextRequestId = 2
  /\ writeQueue = <<>>
  /\ \E kind \in {"hello", "stranger"} :
       sendBuffer = <<[id |-> 1, tag |-> Hello, kind |-> kind]>>
  /\ blocked = FALSE
  /\ closed = FALSE
  /\ settled = [t \in Tags |-> IF t = Hello THEN "open" ELSE "unused"]

-----------------------------------------------------------------------------

\* Mutant of FreeId: an identifier in use is not skipped.
NextId == nextRequestId

\* The first identifier from nextRequestId on, past 2^32 - 1 back to 1, that
\* is not pending.
FreeId ==
  LET Distance(i) == (i + MaxId - nextRequestId) % MaxId
      free        == RequestIds \ DOMAIN pending
  IN  CHOOSE i \in free : \A j \in free : Distance(i) <= Distance(j)

After(id) == (id % MaxId) + 1

\* flush(): frames go to the socket until it asks to wait.
Flushed(queue, mayWrite) ==
  \E n \in 0 .. Len(queue) :
    /\ sendBuffer' = sendBuffer \o SubSeq(queue, 1, n)
    /\ writeQueue' = SubSeq(queue, n + 1, Len(queue))
    /\ \/ ~mayWrite /\ n = 0 /\ blocked' = TRUE
       \/ mayWrite /\ n > 0 /\ blocked' = TRUE
       \/ mayWrite /\ n = Len(queue) /\ blocked' = FALSE

\* send(): refused when closed or when maxPendingRequests are pending; nobody
\* has the client before HELLO is answered.
Send(kind) ==
  LET id  == FreeId
      tag == Cardinality({t \in Tags : settled[t] # "unused"}) + 1
  IN  /\ settled[Hello] = "answered"
      /\ ~closed
      /\ Cardinality(DOMAIN pending) < maxPendingRequests
      /\ tag <= MaxTags
      /\ nextRequestId' = After(id)
      /\ pending' = [i \in DOMAIN pending \cup {id} |-> IF i = id THEN tag ELSE pending[i]]
      /\ settled' = [settled EXCEPT ![tag] = "open"]
      /\ Flushed(Append(writeQueue, [id |-> id, tag |-> tag, kind |-> kind]), ~blocked)
      /\ UNCHANGED <<wire, maxPendingRequests, closed>>

\* Mutant of Drain: the queue waits for the next send.
DrainOnly ==
  /\ blocked /\ sendBuffer = <<>> /\ ~closed
  /\ blocked' = FALSE
  /\ UNCHANGED <<wire, maxPendingRequests, pending, nextRequestId, writeQueue, sendBuffer,
                 closed, settled>>

\* 'drain', which Node emits once its buffer is empty.
Drain ==
  /\ blocked /\ sendBuffer = <<>> /\ ~closed
  /\ Flushed(writeQueue, TRUE)
  /\ UNCHANGED <<wire, maxPendingRequests, pending, nextRequestId, closed, settled>>

\* The operating system takes a frame from the socket's buffer.
Transmit ==
  /\ sendBuffer # <<>>
  /\ Len(requests) < Buffer
  /\ requests' = Append(requests, Head(sendBuffer))
  /\ sendBuffer' = Tail(sendBuffer)
  /\ UNCHANGED <<replies, clientOpen, maxPendingRequests, pending, nextRequestId,
                 writeQueue, blocked, closed, settled>>

Failed(p) == [t \in Tags |-> IF \E i \in DOMAIN p : p[i] = t THEN "failed" ELSE settled[t]]

\* fail(): every pending promise is rejected, what was not transmitted is
\* discarded and the socket destroyed.
Fail ==
  /\ ~closed
  /\ closed' = TRUE
  /\ settled' = Failed(pending)
  /\ pending' = <<>>
  /\ writeQueue' = <<>>
  /\ sendBuffer' = <<>>
  /\ clientOpen' = FALSE
  /\ UNCHANGED <<requests, maxPendingRequests, nextRequestId, blocked>>

Forget(id) == [i \in DOMAIN pending \ {id} |-> pending[i]]

\* receive(): the answer settles the request pending under its identifier; an
\* answer to nothing, and HELLO's when it is an error, fail the connection.
Receive ==
  /\ ~closed
  /\ replies # <<>>
  /\ LET reply == Head(replies)
         id    == reply.id
     IN IF id \in DOMAIN pending /\ (pending[id] = Hello => reply.status = "answer")
        THEN /\ pending' = Forget(id)
             /\ settled' = [settled EXCEPT ![pending[id]] = "answered"]
             /\ UNCHANGED <<requests, clientOpen, maxPendingRequests, nextRequestId,
                            writeQueue, sendBuffer, blocked, closed>>
        ELSE Fail
  /\ replies' = Tail(replies)

\* Mutant of Timer: only the request that is late is rejected.
TimerRejects ==
  \E id \in DOMAIN pending :
    /\ pending' = Forget(id)
    /\ settled' = [settled EXCEPT ![pending[id]] = "failed"]
    /\ UNCHANGED <<wire, maxPendingRequests, nextRequestId, writeQueue, sendBuffer,
                   blocked, closed>>

\* The timer of a request fails the whole connection.
Timer == pending # <<>> /\ Fail /\ UNCHANGED replies

CloseCall == Fail /\ UNCHANGED replies

\* 'error', or 'close' before any other event.
SocketError == Fail /\ UNCHANGED replies

\* 'end': the broker has closed and every reply was read.
End == replies = <<>> /\ Fail /\ UNCHANGED replies

\* No fairness of the application, of the timers or of failures.
ClientFairness ==
  /\ WF_<<wire, client>>(Drain)
  /\ WF_<<wire, client>>(Transmit)
  /\ WF_<<wire, client>>(Receive)

-----------------------------------------------------------------------------

ClientTypeOK ==
  /\ WireTypeOK
  /\ maxPendingRequests \in PendingLimits
  /\ DOMAIN pending \subseteq RequestIds /\ \A i \in DOMAIN pending : pending[i] \in Tags
  /\ nextRequestId \in RequestIds
  /\ writeQueue \in Seq(Frame) /\ sendBuffer \in Seq(Frame)
  /\ blocked \in BOOLEAN /\ closed \in BOOLEAN
  /\ settled \in [Tags -> {"unused", "open", "answered", "failed"}]
=============================================================================
