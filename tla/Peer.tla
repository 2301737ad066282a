-------------------------------- MODULE Peer --------------------------------
(***************************************************************************)
(* What the peer of a connection has sent and not had answered yet: a      *)
(* history of the wire, which no program reads.  AnyPeer and Session say   *)
(* what their peers send and when they read.                               *)
(***************************************************************************)
EXTENDS Connection

VARIABLES
  sent,     \* the tag of the last frame that was sent: tags are 1, 2, ...
  waiting,  \* the identifier of each frame whose reply the peer has not read
  undue     \* the refusals to which the peer has given no cause

peer == <<sent, waiting, undue>>

Refusals == {"overloaded", "duplicate"}

PeerInit == sent = 0 /\ waiting = <<>> /\ undue = Refusals

Outstanding == DOMAIN waiting

\* Too many frames in flight, or two of one identifier.
Causes(id) ==
  {refusal \in Refusals :
     \/ refusal = "overloaded" /\ Cardinality(Outstanding) >= MaxInFlight
     \/ refusal = "duplicate" /\ \E t \in Outstanding : waiting[t] = id}

Sends(frame) ==
  /\ sent' = frame.tag
  /\ waiting' = [t \in Outstanding \cup {frame.tag} |->
                   IF t = frame.tag THEN frame.id ELSE waiting[t]]
  /\ undue' = undue \ Causes(frame.id)

Reads ==
  /\ waiting' = [t \in Outstanding \ {Head(replies).tag} |-> waiting[t]]
  /\ UNCHANGED <<sent, undue>>
=============================================================================
