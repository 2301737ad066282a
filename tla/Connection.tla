----------------------------- MODULE Connection -----------------------------
(***************************************************************************)
(* One connection of the broker (connection() of                           *)
(* src/crates/velobus/src/main.rs): HELLO first, then a reader task, the   *)
(* frame loop, one task per operation and a writer task.  The reader feeds *)
(* the loop through a channel of capacity one, the operations and the loop *)
(* feed the writer through another.                                        *)
(***************************************************************************)
EXTENDS Wire

CONSTANT MaxInFlight  \* MAX_IN_FLIGHT: 32 in the code

ASSUME ConnectionAssumption == MaxInFlight \in Nat \ {0}

VARIABLES
  reader,      \* the reader task: [pc, frame]
  frames,      \* frames_tx -> frames_rx
  loop,        \* the frame loop: [pc, response, close, receipt]
  live,        \* ids: the identifiers of operations in flight
  permits,     \* permits.available_permits()
  ops,         \* the operation tasks: records [id, tag, pc]
  responses,   \* responses_tx -> responses_rx
  writer,      \* the writer task: [pc, response]
  registered   \* between rpc.connected() and rpc.disconnect()

server == <<reader, frames, loop, live, permits, ops, responses, writer, registered>>

\* permit: the response carries its operation's permit; receipt: the frame
\* loop waits for it to be written.
Response == [id : RequestIds, tag : Tags, status : Statuses,
             permit : BOOLEAN, receipt : BOOLEAN]

Init ==
  /\ WireInit
  /\ reader = [pc |-> "none", frame |-> <<>>]
  /\ frames = <<>>
  /\ loop = [pc |-> "hello", response |-> <<>>, close |-> FALSE, receipt |-> "none"]
  /\ live = {}
  /\ permits = MaxInFlight
  /\ ops = {}
  /\ responses = <<>>
  /\ writer = [pc |-> "none", response |-> <<>>]
  /\ registered = FALSE

-----------------------------------------------------------------------------
(* HELLO, on the stream that is not split yet.                             *)

Greeting(frame) ==
  CASE frame.kind = "hello" -> "answer"
    [] frame.kind \in {"stranger", "op"} -> "unauthorized"
    [] OTHER -> frame.kind

\* connection() returns: both halves of the stream are dropped.
Closed == /\ loop' = [loop EXCEPT !.pc = "done", !.response = <<>>]
          /\ reader' = [reader EXCEPT !.pc = "ended"]
          /\ writer' = [writer EXCEPT !.pc = "ended"]

HelloRead ==
  /\ loop.pc = "hello"
  /\ requests # <<>>
  /\ requests' = Tail(requests)
  /\ LET frame  == Head(requests)
         answer == [id |-> frame.id, tag |-> frame.tag, status |-> Greeting(frame),
                    permit |-> FALSE, receipt |-> FALSE]
     IN IF frame.kind = "broken"
        THEN Closed
        ELSE /\ loop' = [loop EXCEPT !.pc = "greeting", !.response = <<answer>>,
                                     !.close = answer.status # "answer"]
             /\ UNCHANGED <<reader, writer>>
  /\ UNCHANGED <<replies, clientOpen, frames, live, permits, ops, responses, registered>>

ReplyOf(response) == [id |-> response.id, tag |-> response.tag, status |-> response.status]

\* The answer is written; the tasks are spawned and the scheduler is told.
HelloGreets ==
  /\ loop.pc = "greeting"
  /\ Len(replies) < Buffer
  /\ replies' = Append(replies, ReplyOf(loop.response[1]))
  /\ IF loop.close
     THEN Closed /\ UNCHANGED registered
     ELSE /\ loop' = [loop EXCEPT !.pc = "select", !.response = <<>>]
          /\ reader' = [reader EXCEPT !.pc = "reading"]
          /\ writer' = [writer EXCEPT !.pc = "receiving"]
          /\ registered' = TRUE
  /\ UNCHANGED <<requests, clientOpen, frames, live, permits, ops, responses>>

\* HELLO_TIMEOUT, BODY_TIMEOUT or the end of the stream; the answer that cannot
\* be written.
HelloFails ==
  /\ \/ loop.pc = "hello"
     \/ loop.pc = "greeting" /\ (Len(replies) = Buffer \/ ~clientOpen)
  /\ Closed
  /\ UNCHANGED <<wire, frames, live, permits, ops, responses, registered>>

-----------------------------------------------------------------------------
(* The reader task.                                                        *)

ReaderRead ==
  /\ reader.pc = "reading"
  /\ requests # <<>>
  /\ requests' = Tail(requests)
  /\ reader' = IF Head(requests).kind = "broken"
               THEN [pc |-> "ended", frame |-> <<>>]
               ELSE [pc |-> "sending", frame |-> <<Head(requests)>>]
  /\ UNCHANGED <<replies, clientOpen, frames, loop, live, permits, ops, responses,
                 writer, registered>>

ReaderSend ==
  /\ reader.pc = "sending"
  /\ frames = <<>>
  /\ frames' = reader.frame
  /\ reader' = [pc |-> "reading", frame |-> <<>>]
  /\ UNCHANGED <<wire, loop, live, permits, ops, responses, writer, registered>>

\* End of file, or a reset that discards what was not read yet.
ReaderEof ==
  /\ reader.pc = "reading"
  /\ ~clientOpen
  /\ reader' = [pc |-> "ended", frame |-> <<>>]
  /\ UNCHANGED <<wire, frames, loop, live, permits, ops, responses, writer, registered>>

-----------------------------------------------------------------------------
(* The frame loop.                                                         *)

LoopAt(pc) == loop' = [loop EXCEPT !.pc = pc]

\* Mutant of TaskEnded: select! does not watch the writer task.
ReaderEnded == reader.pc = "ended"

TaskEnded == reader.pc = "ended" \/ writer.pc = "ended"

\* select!: one of the other tasks has ended, or frames_rx is closed.
LoopSeesEnd ==
  /\ loop.pc = "select"
  /\ TaskEnded
  /\ LoopAt("leaving")
  /\ UNCHANGED <<wire, reader, frames, live, permits, ops, responses, writer, registered>>

Error(frame, status, permit) ==
  [id |-> frame.id, tag |-> frame.tag, status |-> status, permit |-> permit, receipt |-> TRUE]

Answering(response, close) ==
  [pc |-> "answering", response |-> <<response>>, close |-> close, receipt |-> "none"]

LoopDuplicate ==
  /\ loop.pc = "select"
  /\ frames # <<>>
  /\ Head(frames).id \in live
  /\ frames' = <<>>
  /\ loop' = Answering(Error(Head(frames), "duplicate", FALSE), TRUE)
  /\ UNCHANGED <<wire, reader, live, permits, ops, responses, writer, registered>>

\* The error a frame is answered with before any operation is spawned.
Refusal(frame) ==
  CASE frame.kind \in {"hello", "stranger", "protocol"} -> "protocol"
    [] frame.kind = "invalid" -> "invalid"
    [] OTHER -> "overloaded"

Refused(frame) == frame.kind # "op" \/ permits = 0

LoopRefuse ==
  /\ loop.pc = "select"
  /\ frames # <<>>
  /\ LET frame == Head(frames)
         permit == permits > 0
     IN /\ frame.id \notin live
        /\ Refused(frame)
        /\ live' = live \cup {frame.id}
        /\ permits' = IF permit THEN permits - 1 ELSE 0
        /\ loop' = Answering(Error(frame, Refusal(frame), permit), Refusal(frame) = "protocol")
  /\ frames' = <<>>
  /\ UNCHANGED <<wire, reader, ops, responses, writer, registered>>

LoopSpawn ==
  /\ loop.pc = "select"
  /\ frames # <<>>
  /\ LET frame == Head(frames)
     IN /\ frame.id \notin live
        /\ ~Refused(frame)
        /\ live' = live \cup {frame.id}
        /\ ops' = ops \cup {[id |-> frame.id, tag |-> frame.tag, pc |-> "running"]}
  /\ permits' = permits - 1
  /\ frames' = <<>>
  /\ UNCHANGED <<wire, reader, loop, responses, writer, registered>>

\* A response is dropped, or releases what it carries.
PermitBack(response) == IF response.permit THEN permits + 1 ELSE permits

\* responses_tx.send(...).await; it fails when the writer has gone.
LoopAnswer ==
  /\ loop.pc = "answering"
  /\ responses = <<>>
  /\ writer.pc # "ended"
  /\ responses' = loop.response
  /\ loop' = [loop EXCEPT !.pc = "receipt", !.response = <<>>]
  /\ UNCHANGED <<wire, reader, frames, live, permits, ops, writer, registered>>

LoopCannotAnswer ==
  /\ loop.pc = "answering"
  /\ writer.pc = "ended"
  /\ permits' = PermitBack(loop.response[1])
  /\ loop' = [loop EXCEPT !.pc = "leaving", !.response = <<>>]
  /\ UNCHANGED <<wire, reader, frames, live, ops, responses, writer, registered>>

\* receipt.await ends when the response was written or dropped.
LoopReceipt ==
  /\ loop.pc = "receipt"
  /\ loop.receipt # "none"
  /\ LoopAt(IF loop.close THEN "leaving" ELSE "select")
  /\ UNCHANGED <<wire, reader, frames, live, permits, ops, responses, writer, registered>>

\* rpc.disconnect() and the aborts, which take effect below.
LoopLeave ==
  /\ loop.pc = "leaving"
  /\ registered' = FALSE
  /\ LoopAt("draining")
  /\ UNCHANGED <<wire, reader, frames, live, permits, ops, responses, writer>>

\* Every operation task has been joined.
LoopDone ==
  /\ loop.pc = "draining"
  /\ ops = {}
  /\ LoopAt("done")
  /\ UNCHANGED <<wire, reader, frames, live, permits, ops, responses, writer, registered>>

-----------------------------------------------------------------------------
(* The operation tasks.                                                    *)

OpFinish(op) ==
  /\ op.pc = "running"
  /\ ops' = (ops \ {op}) \cup {[op EXCEPT !.pc = "sending"]}
  /\ UNCHANGED <<wire, reader, frames, loop, live, permits, responses, writer, registered>>

OpSend(op) ==
  /\ op.pc = "sending"
  /\ responses = <<>>
  /\ writer.pc # "ended"
  /\ ops' = ops \ {op}
  /\ responses' = <<[id |-> op.id, tag |-> op.tag, status |-> "answer",
                     permit |-> TRUE, receipt |-> FALSE]>>
  /\ UNCHANGED <<wire, reader, frames, loop, live, permits, writer, registered>>

\* The task drops its permit: nobody receives its response, or it is aborted.
OpDropped(op) ==
  /\ \/ op.pc = "sending" /\ writer.pc = "ended"
     \/ loop.pc = "draining"
  /\ ops' = ops \ {op}
  /\ permits' = permits + 1
  /\ UNCHANGED <<wire, reader, frames, loop, live, responses, writer, registered>>

-----------------------------------------------------------------------------
(* The writer task: write_queued_response.                                 *)

WriterReceive ==
  /\ writer.pc = "receiving"
  /\ responses # <<>>
  /\ writer' = [pc |-> "releasing", response |-> responses]
  /\ responses' = <<>>
  /\ UNCHANGED <<wire, reader, frames, loop, live, permits, ops, registered>>

IdBack(response) == live \ {response.id}

\* Permit and identifier are given back before any byte is visible.
WriterRelease ==
  /\ writer.pc = "releasing"
  /\ permits' = PermitBack(writer.response[1])
  /\ live' = IdBack(writer.response[1])
  /\ writer' = [writer EXCEPT !.pc = "writing", !.response[1].permit = FALSE]
  /\ UNCHANGED <<wire, reader, frames, loop, ops, responses, registered>>

\* The peer may see the frame before write_all returns.
WriterWrite ==
  /\ writer.pc = "writing"
  /\ Len(replies) < Buffer
  /\ replies' = Append(replies, ReplyOf(writer.response[1]))
  /\ writer' = [writer EXCEPT !.pc = "written"]
  /\ UNCHANGED <<requests, clientOpen, reader, frames, loop, live, permits, ops,
                 responses, registered>>

\* Mutant of ReceiptIs: only a receipt that says "sent" is noticed.
ReceiptOnlySent(outcome, S) ==
  IF outcome = "sent" /\ \E p \in DOMAIN S : S[p].receipt
  THEN [loop EXCEPT !.receipt = outcome] ELSE loop

\* What the frame loop learns of the responses it waits for.
ReceiptIs(outcome, S) ==
  IF \E p \in DOMAIN S : S[p].receipt THEN [loop EXCEPT !.receipt = outcome] ELSE loop

WriterConfirm ==
  /\ writer.pc = "written"
  /\ writer' = [pc |-> "receiving", response |-> <<>>]
  /\ loop' = ReceiptIs("sent", writer.response)
  /\ UNCHANGED <<wire, reader, frames, live, permits, ops, responses, registered>>

\* Mutant of Lost: the queued response is forgotten with its permit.
LostInHand == writer.response

Lost == responses \o writer.response

\* The writer's future is dropped with the response it holds and the channel
\* it reads from: permits return, receipts are disappointed.
WriterGone ==
  /\ writer' = [pc |-> "ended", response |-> <<>>]
  /\ responses' = <<>>
  /\ permits' = permits + Cardinality({p \in DOMAIN Lost : Lost[p].permit})
  /\ loop' = ReceiptIs("dropped", Lost)

\* WRITE_TIMEOUT while the peer does not read, or a reset.
WriterFails ==
  /\ writer.pc = "writing"
  /\ Len(replies) = Buffer \/ ~clientOpen
  /\ WriterGone
  /\ UNCHANGED <<wire, reader, frames, live, ops, registered>>

\* Aborts end a task where it is suspended.
WriterAborted ==
  /\ loop.pc \in {"draining", "done"}
  /\ writer.pc \in {"receiving", "writing"}
  /\ WriterGone
  /\ UNCHANGED <<wire, reader, frames, live, ops, registered>>

ReaderAborted ==
  /\ loop.pc \in {"draining", "done"}
  /\ reader.pc \in {"reading", "sending"}
  /\ reader' = [pc |-> "ended", frame |-> <<>>]
  /\ UNCHANGED <<wire, frames, loop, live, permits, ops, responses, writer, registered>>

-----------------------------------------------------------------------------

\* Mutant of WriterStep: permit and identifier come back after the write.
WriterStepLate ==
  \/ WriterReceive \/ WriterWrite \/ WriterFails \/ WriterAborted
  \/ /\ writer.pc = "releasing"
     /\ writer' = [writer EXCEPT !.pc = "writing"]
     /\ UNCHANGED <<wire, reader, frames, loop, live, permits, ops, responses, registered>>
  \/ /\ writer.pc = "written"
     /\ permits' = PermitBack(writer.response[1])
     /\ live' = IdBack(writer.response[1])
     /\ writer' = [pc |-> "receiving", response |-> <<>>]
     /\ loop' = ReceiptIs("sent", writer.response)
     /\ UNCHANGED <<wire, reader, frames, ops, responses, registered>>

ReaderStep == ReaderRead \/ ReaderSend \/ ReaderEof \/ ReaderAborted
LoopStep   == \/ HelloRead \/ HelloGreets \/ HelloFails \/ LoopSeesEnd \/ LoopDuplicate \/ LoopRefuse \/ LoopSpawn
              \/ LoopAnswer \/ LoopCannotAnswer \/ LoopReceipt \/ LoopLeave \/ LoopDone
OpStep(op) == OpFinish(op) \/ OpSend(op) \/ OpDropped(op)
WriterStep == \/ WriterReceive \/ WriterRelease \/ WriterWrite \/ WriterConfirm
              \/ WriterFails \/ WriterAborted

Next ==
  \/ ReaderStep
  \/ LoopStep
  \/ \E op \in ops : OpStep(op)
  \/ WriterStep

\* Tokio polls every task that can make progress, operations end (deadlines
\* are at most 30 s away) and write_all either ends or times out.
ServerFairness ==
  /\ WF_<<wire, server>>(ReaderStep)
  /\ WF_<<wire, server>>(LoopStep)
  /\ WF_<<wire, server>>(WriterStep)
  /\ \A t \in Tags : WF_<<wire, server>>(\E op \in ops : op.tag = t /\ OpStep(op))

-----------------------------------------------------------------------------
(* What the broker promises, whatever the peer sends.                      *)

TypeOK ==
  /\ WireTypeOK
  /\ reader.pc \in {"none", "reading", "sending", "ended"}
  /\ reader.frame \in Seq(Frame) /\ (Len(reader.frame) = 1 <=> reader.pc = "sending")
  /\ frames \in Seq(Frame) /\ Len(frames) <= 1
  /\ loop.pc \in {"hello", "greeting", "select", "answering", "receipt", "leaving",
                  "draining", "done"}
  /\ loop.response \in Seq(Response)
  /\ Len(loop.response) = 1 <=> loop.pc \in {"greeting", "answering"}
  /\ loop.close \in BOOLEAN /\ loop.receipt \in {"none", "sent", "dropped"}
  /\ live \subseteq RequestIds
  /\ permits \in 0 .. MaxInFlight
  /\ ops \subseteq [id : RequestIds, tag : Tags, pc : {"running", "sending"}]
  /\ responses \in Seq(Response) /\ Len(responses) <= 1
  /\ writer.pc \in {"none", "receiving", "releasing", "writing", "written", "ended"}
  /\ writer.response \in Seq(Response)
  /\ registered \in BOOLEAN

\* The responses whose permit and identifier nobody has released yet.
Unreleased == (IF loop.pc = "answering" THEN loop.response ELSE <<>>) \o responses
              \o IF writer.pc = "releasing" THEN writer.response ELSE <<>>

\* No permit is lost or made up: what is not available is held by an operation
\* task or by one response on its way to the writer, on every path (refusals,
\* aborts, write failures, channels dropped with what they hold).
PermitsConserved ==
  permits + Cardinality(ops)
    + Cardinality({p \in DOMAIN Unreleased : Unreleased[p].permit}) = MaxInFlight

\* While the connection serves, an identifier is in the live set exactly while
\* one operation or one unreleased response bears it: a leaked one would later
\* be refused as a duplicate, one released early would let two answers of the
\* same identifier race.  (An error that closes the connection may release the
\* identifier of an operation that still runs.)
IdsConserved ==
  loop.pc \in {"select", "answering", "receipt"} /\ writer.pc # "ended" /\ ~loop.close =>
    /\ live = {op.id : op \in ops} \cup {Unreleased[p].id : p \in DOMAIN Unreleased}
    /\ Cardinality(live) = Cardinality(ops) + Len(Unreleased)
=============================================================================
