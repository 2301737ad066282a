-------------------------------- MODULE Wire --------------------------------
(***************************************************************************)
(* The TCP connection between a client and the broker, as two bounded FIFO *)
(* channels of whole frames.  A frame is its request identifier, its kind  *)
(* (what read_frame and decode_request make of it) and a tag that tells    *)
(* two uses of one identifier apart, which no program sees.                *)
(***************************************************************************)
EXTENDS Naturals, Sequences, FiniteSets

CONSTANTS
  RequestIds,  \* request identifiers: 1 .. 2^32 - 1 in the code
  MaxTags,     \* bound: frames a client sends
  Buffer       \* frames the socket holds in one direction

ASSUME WireAssumption == MaxTags \in Nat \ {0} /\ Buffer \in Nat \ {0}

\* Names of requests, in the order of the calls.
Tags == 1 .. MaxTags

VARIABLES
  requests, replies,  \* frames on their way to the broker and to the client
  clientOpen          \* the client has not closed its end

wire == <<requests, replies, clientOpen>>

\* "hello" is a HELLO of version 1 with the broker's token, "stranger" one with
\* another token, "op" decodes to an operation, "invalid" to an error that is
\* answered, "protocol" to one that closes the connection (or is a HELLO of
\* another version), and "broken" is refused by read_frame itself.
Kinds == {"hello", "stranger", "op", "invalid", "protocol", "broken"}
Frame == [id : RequestIds, tag : Tags, kind : Kinds]

Statuses == {"answer", "unauthorized", "invalid", "protocol", "overloaded", "duplicate"}
Reply    == [id : RequestIds, tag : Tags, status : Statuses]

WireInit == requests = <<>> /\ replies = <<>> /\ clientOpen = TRUE

WireTypeOK ==
  /\ requests \in Seq(Frame) /\ Len(requests) <= Buffer
  /\ replies \in Seq(Reply) /\ Len(replies) <= Buffer
  /\ clientOpen \in BOOLEAN
=============================================================================
