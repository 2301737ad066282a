------------------------------ MODULE WireCodec ------------------------------
(***************************************************************************)
(* Request bodies on the wire: what the client refuses to send and how it  *)
(* encodes the rest (packages/client/src/index.ts, protocol.ts), and how   *)
(* the broker reads any body (crates/velobus/src/protocol.rs, main.rs) and *)
(* recovery reads a logged one again (wal.rs).  Of a body the model keeps  *)
(* the values of its fields, in the order they are read, and its size.     *)
(***************************************************************************)
EXTENDS Naturals, Sequences, SequencesExt, FiniteSetsExt

CONSTANTS
  MaxFrame, MaxPayload, MaxFetchBytes,  \* the constants of protocol.rs
  MaxBatch,  \* MAX_BATCH
  MaxError   \* 4096: bytes of a handler's error

ASSUME CodecAssumption ==
  /\ {MaxFrame, MaxPayload, MaxFetchBytes, MaxBatch, MaxError} \subseteq Nat \ {0}
  /\ MaxError <= MaxPayload

VARIABLES
  sender,   \* "sdk" or "peer": who writes the body
  request,  \* the call of the SDK's application, or the fields of a peer's body
  size,     \* bytes of the body on the wire
  verdict   \* "none", then "thrown" by the SDK, or "sent" and what the broker makes of it

vars == <<sender, request, size, verdict>>

-----------------------------------------------------------------------------
(* Values.  A text is its bytes and whether they form a valid name, the    *)
(* wildcard, other UTF-8, or no UTF-8.  An error message is the UTF-8      *)
(* widths of its characters.                                               *)

Text(lengths, kinds) == [length : lengths, kind : kinds]

Topics == Text({0, 1, 255, 256}, {"name"}) \cup Text({1}, {"star", "text", "bad"})
Keys   == Text({0, 1, 1024, 1025}, {"text"}) \cup Text({1}, {"bad"})
Shortest == [length |-> 1, kind |-> "name"]
Record(topics, keys, payloads) == [topic : topics, key : keys, payload : payloads]

\* What three whole payloads and the heads of MaxBatch records leave of a frame.
Rest == (MaxFrame - 5) - 2 - MaxBatch * (8 + Shortest.length) - 3 * MaxPayload

Batches ==
  {<<r>> : r \in Record(Topics, Keys, {0, MaxPayload, MaxPayload + 1})}
    \cup BoundedSeq(Record({Shortest}, Text({0}, {"text"}), {0, Rest, Rest + 1, MaxPayload}), MaxBatch)
    \cup {[i \in 1 .. MaxBatch + 1 |->
             [topic |-> Shortest, key |-> [length |-> 0, kind |-> "text"], payload |-> 0]]}

Messages == BoundedSeq(1 .. 4, MaxError + 1)

Edges(lo, hi) == {lo - 1, lo, hi, hi + 1}

Hellos    == [op : {"HELLO"}, token : Text({0, 1, 65535}, {"text", "bad"})]
Publishes == [op : {"PUBLISH"}, records : Batches]
Fetches   == [op : {"FETCH"}, topic : Topics, limit : Edges(1, MaxBatch),
              max_bytes : Edges(1, MaxFetchBytes), mode : 0 .. 2]
Empties   == [op : {"STATS", "PING"}]
Registers == [op : {"REGISTER"}, route : Topics,
              concurrency : Edges(1, 256) \cup Edges(1, 32), queue_limit : Edges(1, 4096)]
Rpcs      == [op : {"RPC"}, route : Topics, timeout_ms : Edges(1, 30000),
              payload : {0, MaxPayload, MaxPayload + 1}]
Takes     == [op : {"TAKE"}, wait_ms : Edges(1, 1000)]
Completes == [op : {"COMPLETE"}, status : 0 .. 2,
              payload : Text({0, 1, MaxError, MaxError + 1, MaxPayload, MaxPayload + 1},
                             {"text", "bad"})]
Failures  == [op : {"FAIL"}, message : Messages]
Unknowns  == [op : {"UNKNOWN"}]

\* What the SDK's methods may be called with; FAIL is a handler that throws.
Calls == Hellos \cup Publishes \cup {f \in Fetches : f.mode < 2} \cup Empties \cup Registers
           \cup Rpcs \cup {t \in Takes : t.wait_ms = 1000}
           \cup {c \in Completes : c.status = 0} \cup Failures

Bodies == Hellos \cup Publishes \cup Fetches \cup Empties \cup Registers \cup Rpcs
            \cup Takes \cup Completes \cup Unknowns

-----------------------------------------------------------------------------
(* The client.                                                             *)

\* validate_topic and topicBytes.
ValidTopic(topic, wildcard) ==
  \/ topic.kind = "name" /\ topic.length \in 1 .. 255
  \/ wildcard /\ topic.kind = "star"

ValidString(s, max) == s.length <= max /\ s.kind # "bad"

RecordBytes(r) == 2 + r.topic.length + 2 + r.key.length + 4 + r.payload
BatchBytes(records) == FoldLeft(LAMBDA sum, r : sum + RecordBytes(r), 2, records)

\* The characters of message.slice(0, 4096): it counts UTF-16 units, and half of
\* a surrogate pair is encoded as U+FFFD.
Sliced(message) ==
  LET units(w) == IF w = 4 THEN 2 ELSE 1
      Add(acc, w) ==
        CASE units(w) <= acc.room -> [room |-> acc.room - units(w), kept |-> Append(acc.kept, w)]
          [] units(w) > acc.room /\ acc.room = 1 -> [room |-> 0, kept |-> Append(acc.kept, 3)]
          [] OTHER -> acc
  IN  FoldLeft(Add, [room |-> MaxError, kept |-> <<>>], message).kept

\* Where a character ends.
Ends(widths) ==
  {FoldLeft(LAMBDA sum, w : sum + w, 0, SubSeq(widths, 1, k)) : k \in 0 .. Len(widths)}

\* Mutant of Cut: the message is cut in the middle of a character.
CutAnywhere(ends) == Min({Max(ends), MaxError})

\* The bytes that are kept: all, or as many as are left when the walk back from
\* the limit meets a byte that does not continue a character.
Cut(ends) ==
  LET continues(n) == n \notin ends
      walk[n \in 0 .. MaxError] == IF continues(n) THEN walk[n - 1] ELSE n
  IN  IF Max(ends) <= MaxError THEN Max(ends) ELSE walk[MaxError]

\* handlerErrorBytes().
ErrorText(message) ==
  LET ends == Ends(Sliced(message))
      cut  == Cut(ends)
  IN  [length |-> cut, kind |-> IF cut \in ends THEN "text" ELSE "bad"]

\* The 28 characters of payloadBytes()'s own error.
TooLong == [i \in 1 .. 28 |-> 1]

\* The fields of the body that a call becomes.
Fields(call) ==
  CASE call.op = "FAIL" ->
         [op |-> "COMPLETE", status |-> 1, payload |-> ErrorText(call.message)]
    [] call.op = "COMPLETE" /\ call.payload.length > MaxPayload ->
         [op |-> "COMPLETE", status |-> 1, payload |-> ErrorText(TooLong)]
    [] OTHER -> call

(* What each method of the client takes, and the bytes it allocates.       *)

HelloCall(c) ==
  [taken |-> ValidString(c.token, 65535), size |-> 4 + c.token.length]

PublishCall(c) ==
  [taken |-> /\ Len(c.records) \in 1 .. MaxBatch
             /\ \A i \in DOMAIN c.records :
                  LET r == c.records[i]
                  IN  /\ ValidTopic(r.topic, FALSE) /\ ValidString(r.key, 1024)
                      /\ r.payload <= MaxPayload
             /\ BatchBytes(c.records) + 5 <= MaxFrame,
   size |-> BatchBytes(c.records)]

FetchCall(c) ==
  [taken |-> /\ ValidTopic(c.topic, TRUE)
             /\ c.limit \in 1 .. MaxBatch /\ c.max_bytes \in 1 .. MaxFetchBytes,
   size |-> 17 + c.topic.length]

RegisterCall(c) ==
  [taken |-> /\ ValidTopic(c.route, FALSE)
             /\ c.concurrency \in 1 .. 32 /\ c.queue_limit \in 1 .. 4096,
   size |-> 6 + c.route.length]

RpcCall(c) ==
  [taken |-> /\ ValidTopic(c.route, FALSE)
             /\ c.timeout_ms \in 1 .. 30000 /\ c.payload <= MaxPayload,
   size |-> 10 + c.route.length + c.payload]

CompleteCall(c) == [taken |-> TRUE, size |-> 13 + c.payload.length]

Call(c) ==
  CASE c.op = "HELLO"    -> HelloCall(c)
    [] c.op = "PUBLISH"  -> PublishCall(c)
    [] c.op = "FETCH"    -> FetchCall(c)
    [] c.op = "REGISTER" -> RegisterCall(c)
    [] c.op = "RPC"      -> RpcCall(c)
    [] c.op = "COMPLETE" -> CompleteCall(c)
    [] c.op = "TAKE"     -> [taken |-> TRUE, size |-> 4]
    [] OTHER             -> [taken |-> TRUE, size |-> 0]

Size(r) == Call(r).size

-----------------------------------------------------------------------------
(* The broker: a body is read field by field, and the first field that is  *)
(* missing or refused decides.                                             *)

Field(bytes, refused, code) == <<[bytes |-> bytes, refused |-> refused, code |-> code]>>
Bytes(n)                    == Field(n, FALSE, "ok")
Check(refused, code)        == Field(0, refused, code)

String(s, max) ==
  Field(2, s.length > max, "INVALID") \o Field(s.length, s.kind = "bad", "PROTOCOL")
Topic(s, wildcard) == String(s, 255) \o Check(~ValidTopic(s, wildcard), "INVALID")
Payload(n)         == Field(4, n > MaxPayload, "LIMIT") \o Bytes(n)

\* decode_records().
Records(records) ==
  Field(2, Len(records) \notin 1 .. MaxBatch, "INVALID")
    \o FlattenSeq([i \in DOMAIN records |->
                     Topic(records[i].topic, FALSE) \o String(records[i].key, 1024)
                       \o Payload(records[i].payload)])

\* decode_request(), one line of fields per opcode.
Layout(r) ==
  CASE r.op = "HELLO" -> Bytes(2) \o String(r.token, 65535)
    [] r.op = "PUBLISH" -> Records(r.records)
    [] r.op = "FETCH" ->
         Topic(r.topic, TRUE) \o Bytes(8) \o Bytes(2) \o Bytes(4) \o Bytes(1)
           \o Check(r.limit \notin 1 .. MaxBatch \/ r.max_bytes \notin 1 .. MaxFetchBytes, "INVALID")
           \o Check(r.mode > 1, "PROTOCOL")
    [] r.op = "REGISTER" ->
         Topic(r.route, FALSE) \o Bytes(2) \o Bytes(2)
           \o Check(r.concurrency \notin 1 .. 256 \/ r.queue_limit \notin 1 .. 4096, "INVALID")
    [] r.op = "RPC" ->
         Topic(r.route, FALSE) \o Field(4, r.timeout_ms \notin 1 .. 30000, "INVALID")
           \o Payload(r.payload)
    [] r.op = "TAKE" -> Field(4, r.wait_ms \notin 1 .. 1000, "INVALID")
    [] r.op = "COMPLETE" ->
         Bytes(8) \o Field(1, r.status > 1, "INVALID")
           \o Field(4, \/ r.payload.length > MaxPayload
                       \/ r.status = 1 /\ r.payload.length > MaxError, "LIMIT")
           \o Field(r.payload.length, r.status = 1 /\ r.payload.kind = "bad", "PROTOCOL")
    [] r.op = "UNKNOWN" -> Check(TRUE, "PROTOCOL")
    [] OTHER -> <<>>

\* Reader::take, string, finish: the fields of a layout read from so many bytes.
Read(fields, bytes) ==
  LET Take(acc, field) ==
        CASE acc.code # "ok" -> acc
          [] acc.code = "ok" /\ field.bytes > bytes - acc.at -> [acc EXCEPT !.code = "PROTOCOL"]
          [] OTHER -> [at |-> acc.at + field.bytes,
                       code |-> IF field.refused THEN field.code ELSE "ok"]
      end == FoldLeft(Take, [at |-> 0, code |-> "ok"], fields)
  IN  IF end.code = "ok" /\ end.at # bytes THEN "PROTOCOL" ELSE end.code

\* valid_length() of read_frame, then decode_request.
Decode(r, bytes) == IF 5 + bytes \in 5 .. MaxFrame THEN Read(Layout(r), bytes) ELSE "broken"

\* Mutant of BatchLength: the eight bytes of firstSequence are forgotten.
BatchLengthOfBody == 19 .. MaxFrame - 5

\* The lengths of a logged batch that recovery takes for valid.
BatchLength == 19 .. MaxFrame + 3

\* Recovery of the batch that Wal::append wrote for these records.
Replays(records) ==
  LET body == 8 + BatchBytes(records)
  IN  body \in BatchLength /\ Read(Bytes(8) \o Records(records), body) = "ok"

-----------------------------------------------------------------------------

Init ==
  /\ sender \in {"sdk", "peer"}
  /\ request \in IF sender = "sdk" THEN Calls ELSE Bodies
  /\ size = 0
  /\ verdict = "none"

\* A method of the client throws, or encodes its arguments and envelope() takes them.
SdkCalls ==
  LET fields == Fields(request)
  IN  /\ verdict = "none" /\ sender = "sdk"
      /\ IF Call(fields).taken /\ Size(fields) + 5 <= MaxFrame
         THEN request' = fields /\ size' = Size(fields) /\ verdict' = "sent"
         ELSE verdict' = "thrown" /\ UNCHANGED <<request, size>>
      /\ UNCHANGED sender

\* Any other peer: the body may end before its last field or go on after it.
PeerSends ==
  /\ verdict = "none" /\ sender = "peer"
  /\ \E bytes \in {0, 1, Size(request), Size(request) + 1} \cup {b \in {Size(request) - 1} : b >= 0} :
       size' = bytes
  /\ verdict' = "sent"
  /\ UNCHANGED <<sender, request>>

BrokerReads ==
  /\ verdict = "sent"
  /\ verdict' = Decode(request, size)
  /\ UNCHANGED <<sender, request, size>>

Next == SdkCalls \/ PeerSends \/ BrokerReads

Spec == Init /\ [][Next]_vars

-----------------------------------------------------------------------------
(* Properties.                                                             *)

Verdicts == {"none", "thrown", "sent", "ok", "PROTOCOL", "INVALID", "LIMIT", "broken"}

\* What PROTOCOL.md calls well formed: a known opcode, UTF-8 where text is due,
\* a known mode, and not a byte more or less.
WellFormed(r) ==
  /\ r.op # "UNKNOWN"
  /\ size = Size(r)
  /\ r.op = "HELLO" => r.token.kind # "bad"
  /\ r.op = "PUBLISH" =>
       \A i \in DOMAIN r.records : "bad" \notin {r.records[i].topic.kind, r.records[i].key.kind}
  /\ r.op = "FETCH" => r.topic.kind # "bad" /\ r.mode \in 0 .. 1
  /\ r.op \in {"REGISTER", "RPC"} => r.route.kind # "bad"
  /\ r.op = "COMPLETE" /\ r.status = 1 => r.payload.kind # "bad"

\* Two programs in two languages agree: every body that the client sends, with
\* each of its numbers, strings, payloads and batches at their limits and with
\* every error message a handler may throw, is accepted by the broker
\* (protocol.rs:179-294).  A refused COMPLETE would fail the worker's connection.
SdkUnderstood == sender = "sdk" => verdict \in {"none", "thrown", "sent", "ok"}

\* The form of a body decides its fate: one that is well formed is never answered
\* with PROTOCOL, which would close the connection of a peer that only passed a
\* limit; what is executed is well formed; and recovery reads back every batch
\* that was accepted, whatever its length (wal.rs:110-135), or the broker could
\* not start again.
FormDecides ==
  /\ verdict \in Verdicts
  /\ verdict = "PROTOCOL" => ~WellFormed(request)
  /\ verdict = "ok" => WellFormed(request)
  /\ verdict = "ok" /\ request.op = "PUBLISH" => Replays(request.records)
=============================================================================
