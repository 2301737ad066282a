------------------------------ MODULE AnyPeer -------------------------------
(***************************************************************************)
(* A connection of the broker with a peer that knows no rules: it sends    *)
(* any frame with any identifier at any time, reads its replies when it    *)
(* likes or never, and closes when it likes or never.  The peer stands for *)
(* every client of the wire protocol, the SDK's or not, so nothing is      *)
(* assumed of it, fairness least of all.                                   *)
(***************************************************************************)
EXTENDS Peer

vars == <<wire, server, peer>>

\* What is sent to a connection that has ended is left out.
PeerSend(id, kind) ==
  LET frame == [id |-> id, tag |-> sent + 1, kind |-> kind]
  IN  /\ clientOpen
      /\ loop.pc # "done"
      /\ sent < MaxTags
      /\ Len(requests) < Buffer
      /\ requests' = Append(requests, frame)
      /\ Sends(frame)
      /\ UNCHANGED <<replies, clientOpen, server>>

PeerReceive ==
  /\ clientOpen
  /\ replies # <<>>
  /\ replies' = Tail(replies)
  /\ Reads
  /\ UNCHANGED <<requests, clientOpen, server>>

PeerClose ==
  /\ clientOpen
  /\ clientOpen' = FALSE
  /\ UNCHANGED <<requests, replies, server, peer>>

PeerNext ==
  \/ \E id \in RequestIds, kind \in Kinds : PeerSend(id, kind)
  \/ PeerReceive
  \/ PeerClose

ConnectionInit == Init /\ PeerInit

Spec ==
  /\ ConnectionInit
  /\ [][(Next /\ UNCHANGED peer) \/ PeerNext]_vars
  /\ ServerFairness

-----------------------------------------------------------------------------

\* A frame is answered at most once, whatever becomes of its operation, and
\* with the identifier it came with.
AnsweredOnce ==
  \A p \in DOMAIN replies :
    /\ replies[p].tag \in Outstanding
    /\ replies[p].id = waiting[replies[p].tag]
    /\ \A q \in DOMAIN replies : replies[p].tag = replies[q].tag => p = q

\* write_queued_response gives permit and identifier back before the reply is
\* visible.  So a peer that sends its next frame the moment it reads a reply, and
\* reuses the identifier of that reply, is never told that it has too many
\* operations in flight, if it keeps to MaxInFlight unanswered frames, nor that the
\* identifier is taken, if those have distinct ones.
PoliteNeverRefused ==
  \A p \in DOMAIN replies : replies[p].status \notin undue

Ended == /\ loop.pc = "done" /\ reader.pc = "ended" /\ writer.pc = "ended"
         /\ ~registered /\ ops = {} /\ permits = MaxInFlight

\* No permit, identifier or answer is lost or made up on any path: refusals,
\* aborts, write failures, channels dropped with what they hold.
Conserved == TypeOK /\ PermitsConserved /\ IdsConserved /\ AnsweredOnce

\* The connection never stays where only its peer could get it on.  A peer that
\* does not say HELLO is let go.  While the frame loop waits for the receipt of
\* an error it reads no frames, and the writer waits for a peer that may read
\* nothing: the loop comes back, because the writer's failure drops the
\* receipt.  And a client that closes, or a task that fails, ends everything:
\* every task is gone, every permit back and the scheduler told.
EndIsReached ==
  /\ loop.pc \in {"hello", "greeting", "answering", "receipt"}
       ~> loop.pc \notin {"hello", "greeting", "answering", "receipt"}
  /\ ~clientOpen \/ reader.pc = "ended" \/ writer.pc = "ended" \/ loop.pc = "leaving" ~> Ended

\* Every frame sent is answered, or the connection ends.
AnsweredOrEnded ==
  \A t \in Tags :
    t \in Outstanding
      ~> Ended \/ t \notin Outstanding \/ \E p \in DOMAIN replies : replies[p].tag = t
=============================================================================
