# A verification development for VeloBus

VeloBus (called Nodara in its protocol documents) is a small message broker
written in Rust, with a TypeScript SDK. Its product is synchronous
request/reply between services with bounded admission; a durable event log with
cursor-based fetching supports it. This directory holds TLA+ models of that
code, the TLC configurations that check them and machine-checked proofs about
them. All paths below are relative to the repository (`src/`).

## 1. Inventory

| Component | Code | State it keeps | Operations | Interacts with |
|---|---|---|---|---|
| RPC scheduler | `crates/velobus/src/rpc.rs` | one mutex-protected `State`: connections, routes with their queues, workers with slot counters, live calls, `next_id`, `retained_bytes`; suspended `Ticket` and `take()` futures outside it | connected, register, request, take, complete, disconnect, ticket wait/expire/drop | called from operation tasks of every connection |
| Event store | `crates/velobus/src/store.rs` | events, retained bytes, `poisoned` | publish, fetch, open, stats | owns the WAL; called under one mutex in blocking tasks |
| Write-ahead log | `crates/velobus/src/wal.rs` | the file, its length | open (replay, cut), append | the file system |
| Connections | `crates/velobus/src/main.rs` | live request ids, 32 permits, reader and writer tasks, a JoinSet of operations | HELLO, dispatch, queued responses, cleanup | scheduler and store |
| Wire codec | `crates/velobus/src/protocol.rs`, `packages/client/src/protocol.ts` | the position in a body; the frame decoder's chunks | encode, decode, reassemble frames | both ends of a socket |
| SDK client | `packages/client/src/index.ts` | pending map, next request id, write queue, `blocked`, `closed` | send, flush, receive, fail, close, publish, fetch, subscribe, request | broker; parent and child clients |
| SDK service handle | `packages/client/src/index.ts` | `stopped`, active abort controllers, one loop per slot | handle, close, onFailure | a child client; the user's handler |
| Cluster client | `packages/client/src/cluster.ts` | per-broker client, pending count, backoff | connect, choose, request, tick, retire, close | up to eight SDK clients |
| Cluster service, handler gate | `packages/client/src/cluster.ts` | handles, attach epochs, permits and waiters | attach, detach, acquire, release, close | service handles of every broker |

What makes each of them hard, and what correct means:

* **RPC scheduler.** Two locks are held one after the other in many operations
  (`try_take` then sleep; the ticket's timer then `expire`; a disconnect then
  the abort of its tasks), clocks are read twice, and a call can be removed from
  four places. Correct: queue, call map, slot counters and budgets agree; no
  wakeup and no reply is lost; a call runs at most once and never starts after
  its deadline; a slot stays occupied while its work may still run; a departed
  connection leaves nothing behind; every admitted request is answered.
* **Store and WAL.** Every append is a write and a sync; either can fail or be
  cut by a crash. Correct: what was acknowledged survives in place, the file can
  be opened again, memory and file agree, budgets are charged exactly.
* **Fetching and subscribing.** The scan replaces events in place while it
  counts three budgets, and others publish between two fetches. Correct: a batch
  is the coalesced prefix of the log, a subscriber skips, repeats and reorders
  nothing and always moves on.
* **Connections.** A permit and an identifier travel with an operation through a
  task, two channels and a write that may fail; the frame loop waits on the
  writer, which waits on the peer. Correct: both come back exactly once, before
  the reply is visible; every frame is answered or the connection ends; nothing
  waits for the peer for ever.
* **SDK client.** Identifiers wrap, sockets push back, a timer or an error fails
  everything at once. Correct: a reply reaches its own request, frames keep the
  order of the calls, every promise is settled.
* **Service handle.** A failure, `close()` or the parent's `close()` may come
  between any two continuations. Correct: none goes unseen, and once stopped a
  service starts and sends nothing.
* **Cluster.** Failover must not execute a call twice; a reconnect replaces a
  broker's client while operations on the old one are still in flight; permits
  outlive connections. Correct: one broker at most dispatches a request, loads
  and permits are exact, no connection or handle is left that nobody would
  close, and every broker comes to serve again.
* **Codec.** The same limits are written in two languages and once more in the
  WAL. Correct: the broker accepts what the SDK sends, and recovery what the
  broker accepted.

`PROJECT.json` lists every such hazard at its line, with the properties that
cover it.

## 2. The modules

| Module | Models | Kind |
|---|---|---|
| `Containers` | HashMap and VecDeque operations, without recursion | operators |
| `RpcScheduler` | rpc.rs, completely | detailed specification |
| `RpcContract` | the promise about one call | abstract specification |
| `RpcRefinement` | the mapping from scheduler to contract, for every call | refinement |
| `EventLog` | publishing, appends, failures, crashes, recovery | detailed specification |
| `DurableLog` | the promise about the log | abstract specification |
| `EventFetch` | Store::fetch, Client.fetch's validation, subscribe() | detailed specification and a declarative reference for the scan |
| `Wire` | the socket between a client and the broker | two bounded FIFO channels |
| `Connection` | main.rs: HELLO, reader, frame loop, operations, writer | detailed specification |
| `Peer` | what the peer of a connection has sent and not had answered | history variables |
| `AnyPeer` | `Connection` with a peer that knows no rules | composition |
| `ClientTransport` | the SDK's `Client`: send, flush, receive, fail | detailed specification |
| `Session` | `ClientTransport` and `Connection` over one `Wire` | composition |
| `ServiceHandle` | `Client.handle()` and the handle's loops | detailed specification |
| `HandlerGate` | cluster.ts: `HandlerGate` and the handler wrapped in it | detailed specification |
| `ClusterService` | cluster.ts: attach, detach, close over the pool's events | detailed specification |
| `ClusterClient` | cluster.ts: request, choose, connect, retire, tick, close | detailed specification |
| `WireCodec` | request bodies: encoding, limits, decoding, replay | algorithms over bounded inputs |
| `MCRpcScheduler`, `MCEventLog`, `MCEventFetch` | small instances | TLC |
| `ContainerLemmas` | induction over sets; maps, queues, sums over finite sets | lemmas |
| `RpcSchedulerProofs`, `EventLogProofs`, `EventFetchProofs`, `ConnectionProofs`, `ServiceHandleProofs`, `ClusterServiceProofs`, `ClusterClientProofs` | section 4 | proofs |

### RpcScheduler

The variables are the fields of `State` by their own names, plus what lives
outside the mutex: `late` (the calls whose deadline is not after now), `retired`
(departed connections), `tickets` and `takes` (the suspended futures, each with a
program counter). The grain of atomicity is the mutex: what the code does under
one `lock()` is one action.

| Action | Code |
|---|---|
| `Connect`, `Register`, `Disconnect` | `connected`, `register`, `disconnect` |
| `Request`, `RequestOverloaded` | `request`, admitted or refused after `expire_queued` |
| `TakeEnter` ... `TakeLeave` | `take` up to its guard; `TakeArm` creates and enables the notification; `TakeUnauthorized`, `TakeNoSlot`, `TakeEmpty`, `TakeLapsed`, `TakeJob` are the outcomes of `try_take`; `TakeAwait` polls the notification, outside the lock; `TakeElapsed` and `TakeAborted` end the wait; `TakeLeave` is the guard's drop |
| `Complete` | `complete` |
| `TicketReceive`, `TicketElapsed`, `TicketExpire`, `TicketDrop`, `TicketAborted` | `Ticket::wait` (the timer drops the receiver *before* `expire` locks) and `Ticket::drop` |
| `DeadlinePasses` | time |

Requests that change nothing (unknown route, refused registration, a completion
by the wrong worker) are the negations of guards and are not actions. A worker
list is a set, because the code only pushes to it, removes from it and iterates
over it to notify. The second clock reading of `try_take` is `TakeLapsed`: the
head becomes late between the two readings and the loop starts over. Task abort
is possible only where a future is suspended: a `take()` that is parked, a ticket
that is waiting. The telemetry counters `accepted`, `completed`, `rejected` and
`timed_out` are written and never read by the scheduler; they are left out, as
are payloads and the content of error messages. `LastId` stands for the largest
`u64`, and the models reach it.

### EventLog

The file is its sequence of whole frames, a tail (nothing, an incomplete frame,
a bad checksum), its magic, and how much of it `sync_all` has made safe. A record
is its size; one size stands for both retained and WAL bytes. `publish` holds the
store's mutex throughout, so readers see no half-done append but a crash does:
`PublishBegin`, `Write`, `SyncAndCommit`, and the failure of each I/O call.
`Kill` keeps what was written, `PowerLoss` keeps any prefix of what was not
synchronized. `Open` is `Wal::open` with its replay. `disk` chooses between the
store over a WAL and the `--memory` store, for good. `acked` and `checkpoint`
are history: the log at the latest acknowledgement, and the history below a
cursor some reader received. A batch is one frame. `DurableLog` is the promise
kept to publishers: it remembers where its batches end (`ends`), and its `Crash`
may cut the log only there, so that a batch in doubt turns up whole or not at
all. The store's batches are the `Ends` of the frames it holds.

### EventFetch

`Scan` is the loop body of `Store::fetch`; `Scanned` passes it over the window by
a recursive function, and `Fetched` adds the final sort: `Sorted` is the one
ordering of the selection by position. `AcceptedBy` is the validation in
`Client.fetch`. `Fetch`, `Yield`, `BatchDone` and `Wake` are the `subscribe()`
loop, which runs while `Publish` appends. `Survivors` and `StopsAt` say without a
loop what a scan must return.

### Wire, Connection, Peer, AnyPeer

A frame on the `Wire` is an identifier, a tag that distinguishes two uses of one
identifier, and its kind: what `read_frame` and `decode_request` make of it
(`WireCodec` models how they do). A connection begins with `HelloRead`,
`HelloGreets` and `HelloFails`, on the stream that is not split yet; then the
tasks of `connection()` run, each with a program counter that stops where the
code awaits:

| Task | Actions |
|---|---|
| reader | `ReaderRead`, `ReaderSend` (the channel of capacity one), `ReaderEof` |
| frame loop | `LoopDuplicate`, `LoopRefuse`, `LoopSpawn` for a frame; `LoopAnswer`, `LoopReceipt`, `LoopCannotAnswer` for its own error responses; `LoopSeesEnd`, `LoopLeave`, `LoopDone` |
| operations | `OpFinish`, `OpSend`, `OpDropped` |
| writer | `WriterReceive`, `WriterRelease` (permit and identifier, before the first byte), `WriterWrite`, `WriterConfirm`, `WriterFails` |
| cleanup | `WriterAborted`, `ReaderAborted`: aborts take effect where a task is suspended |

What a dropped future or channel holds goes with it: `WriterGone` returns the
permits and disappoints the receipts. `HelloFails` may happen at any time, which
covers `HELLO_TIMEOUT` and `BODY_TIMEOUT`; a body that comes too slowly later is
a "broken" frame. A write fails only while the peer does not read, or has gone.
In `AnyPeer` the peer sends any kind of frame with any identifier, reads and
closes when it likes; what it sends after the connection has ended is left out.
`Peer` is history that no program reads: the last tag `sent`, the identifier of
each frame still `waiting` for its reply, and `undue`, the refusals ("overloaded",
"duplicate") to which the peer has given no cause so far.

### ClientTransport, Session

JavaScript runs a callback to its end, so each is one action: `Send` and `Drain`
(both with `flush()`, of which `Flushed` is every possible outcome: the socket
may ask to wait after any frame), `Receive`, `Timer`, `CloseCall`, `SocketError`,
`End`. `Transmit` is the operating system. Identifiers are `1 .. MaxId` and wrap.
`ClientInit` is the moment after HELLO was sent, with the right token or a wrong
one; nobody has the client before it is answered. `Session` puts this client at
the other end of a `Connection`; to the broker it is a `Peer` whose `Transmit`
sends and whose `Receive` reads.

### ServiceHandle

`phase` is how far `handle()` has come. What a promise settles with and the
continuation of its await are two steps (`SlotSettles`, then `Continue`), so
that `Close`, `ChildFails` or `ParentFails` fits between them, which is where
the code has to look again (`StillOpen`, `MayHandle`). The broker and the
handlers answer as they like.

### HandlerGate, ClusterService, ClusterClient

`HandlerGate` (`GateSpec`) has one permit counter and one queue for the slots of
all brokers; `Reconnect` frees a broker's slots while their handlers go on,
`Deadline` aborts a signal. `ClusterService` follows `attach()` through its await: `Attach` begins
an attempt under a new epoch, `HandleReturns` or `HandleThrows` settles it,
`Resume` looks at what has happened meanwhile, `Over` is its `finally`. In
`ClusterClient` a call is `Request`, then `Resume` after each attempt. A broker
dispatches what is on the `wire` (`Dispatch`), and answers what it dispatched, or
reports an error of it (`Answer`). A call it has not dispatched it may refuse with
NO_SERVICE or OVERLOADED, after which the client tries elsewhere (`Refuse`), or
end with any other error: the deadline passed in the queue, the last worker left
(`Withdraw`). So an error that is neither a refusal nor ambiguous does not tell
whether the call was dispatched, only that it will not be any more. A failing
client settles what it was asked once and for all (`ClientTransport` shows that it
does), and `Ping`, `Connect`, `RetireDead` are the health timer. Back-off and retry
times are nondeterministic. What is alive, open or registered in these modules is
so in the SDK's view; a broker may hold an old registration a moment longer.

### WireCodec

A body is the values of its fields and its size. `Layout` lists what
`decode_request` reads, in its order, and `Read` stops at the first field that is
missing or refused, as `?` does. The SDK's side is written from the SDK: the
guards and the allocated sizes of each method (`PublishCall`, ...), and
`handlerErrorBytes` over messages of characters of one to four bytes, with the
cut in UTF-16 units before and, after it, the walk back over continuation bytes
(`Cut`). `Replays` is recovery of
a batch as `Wal::append` wrote it.

## 3. Runs

Every module's operators named "Mutant of ..." are deliberately wrong variants of
the operator that follows them; they are used only to show that a property can
fail.

| Run | Instance | Shows |
|---|---|---|
| `rpc` | a caller, two workers on one route, two calls of sizes 1 and 2, limits 1 and 2, identifiers that run out | types, routes, queues, budgets, wakeups, dispatch once, in order and in time, nothing left behind, the contract of every call |
| `rpc_live` | a caller, a worker with two concurrent takes, two calls, with fairness | slots and guards, no lost reply, work conservation, every future ends |
| `log` | batches of one and two records of sizes 1 and 2, both budgets tight, disk or memory | durability, reopening, agreement of file, memory and budgets, implements `DurableLog`: batches are acknowledged, lost or recovered whole |
| `log_checkpoint` | as `log`, smaller | a violation, see below |
| `fetch` | every log of up to four records of four kinds, every request of 32 | the scan equals its reference; the subscriber's guarantees |
| `connection` | four frames of any kind, two identifiers, two permits, a socket of one frame | conservation, no spurious refusal, the end is reached, answers |
| `session` | HELLO and four requests, three identifiers, two permits, two or three pending, sockets of two frames | replies, order, refusals, every promise settled |
| `service` | three slots | failures reach the service; stopping is final |
| `gate` | two brokers, one or two permits, five jobs | permits, bounds, order, no waiting for ever |
| `cluster_service` | two brokers, three faults | registrations agree; every broker serves again |
| `cluster` | two brokers, two requests, three clients, transports of one request | failover, truth of errors, loads, late failures spare the new client, no orphans, everything settles |
| `codec` | each field at, below and above its limit; batches of up to six records around the frame limit; every message of up to six characters | the two codecs and recovery agree; only a malformed body or an over-long frame costs a connection |

The bounds are enough in this sense. Two workers and two calls reach every
outcome of every action, including a last worker that departs with one call
running and one queued, a call that expires in front of another, a wakeup that
reaches two takes, an identifier space that runs out (`LastId`), and budgets
that refuse a call; several routes and more calls are left to the theorems of
section 4, which hold for any number: with two calls nothing is removed from the
middle of a queue, and that the order survives it is `OldestIsDispatched`. A log of three or four records crosses both
budgets, and `MaxScan = 3` makes a window end before the log of four does. Four
frames fill the connection: one with the reader, one with the loop, one in the
response channel, one in the writer, with every permit taken and an identifier
used again; the socket of one frame makes each end wait for the other. In
`session` three identifiers wrap within four requests, and the pending limit of
three exceeds the two permits, so that the broker's own refusal is met as well.
In `gate`, two slots with one permit and five jobs let a slot be freed by
reconnecting, used again, and freed again while the first handler still runs.
Three faults in `cluster_service` allow a failure during an attempt, one during
the next, and one after it. `cluster` retries on the second broker while the
first reconnects. `codec` uses the real limits of the protocol; batches of 256
and errors of 4096 bytes become 5 and 5 (`MaxBatch`, `MaxError`), where five
records still meet the frame limit to the byte.

Symmetry (workers) is used in `rpc` only, which has no liveness property.
Deadlock checking is off because these systems may come to rest: identifiers,
frames and connections are used up, or the file has become unreadable.

### Fairness

No fairness is assumed of callers, workers, peers, applications or handlers, nor
of failures; weak fairness is enough everywhere.

* `TaskFairness`: Tokio polls every woken task and fires every timer, and what a
  task does in one poll holds the mutex for a bounded time. Time need not pass:
  `FuturesEnd` speaks of tickets whose deadline has passed, and the wait of a
  take need not end by itself.
* `ServerFairness`: the tasks of a connection are polled, operations end, a write
  ends or times out (`WRITE_TIMEOUT`), and a HELLO comes or times out. The peer
  need not read or close.
* `ClientFairness`: the socket transmits, 'drain' comes, received data are
  handed over. The request timers need not fire: every request is settled
  without them.
* `EventFetch`: fetches are answered, the consumer asks for its next event and
  timers fire; nobody has to publish.
* `ServiceHandle`, `HandlerGate`, `ClusterService`, `ClusterClient`:
  continuations run and timers fire; handlers may never settle.

### A disagreement between documentation and code

`docs/PROTOCOL.md:57` promises that checkpoints are invalidated only by deleting
or replacing the WAL or by restarting memory mode. `log_checkpoint` shows a
disk-mode behaviour that loses one: the process dies after `write_all` and before
`sync_all`; the next start replays the whole but unsynchronized frame and serves
it without synchronizing the file (`Wal::open` does so only for a new file or a
cut tail); a reader checkpoints it; the machine loses power and the frame. The
next batch gets the same sequence numbers. No acknowledged record is affected
(`AckedSurvive` holds).

## 4. Proofs

`tlapm` checks the theorems below for every value of the constants. Each is about
the specification that a run checks on a small instance, and states the property
of that run by its name.

| Module | Theorem | States |
|---|---|---|
| `RpcSchedulerProofs` | `TypeCorrect` | `TypeInv` |
| | `QueuesAreRight` | `QueueIntegrity` |
| | `CallsAreHandedOutOnce`, `OldestIsDispatched` | `HandedOutOnce`, `DispatchOldestInTime` (action properties) |
| | `DepartedLeaveNothing` | `RetiredLeavesNothing` |
| | `SlotsAreCounted`, `BudgetsAreKept` | `SlotAccounting`, `BudgetsHold` |
| | `WakeupsAreNotLost`, `RepliesAreNotLost` | `NoLostWakeup`, `ReplyNotLost` |
| | `ContractIsKept` | `KeepsContract`: the scheduler implements `RpcContract` for every call |
| `EventLogProofs` | `AcknowledgedSurvive`, `CrashedFilesOpen`, `FileAgrees` | `AckedSurvive`, `ReopensAfterCrash`, `FileMatchesMemory` |
| | `PromiseIsKept` | `KeepsPromise`: store and log implement `DurableLog`, batch by batch |
| `EventFetchProofs` | `FetchesCoalesce` | `ScanIsCoalescedPrefix`: the scan implements its declarative reference |
| | `FetchesAreAccepted`, `SubscriptionsSkipNothing` | `NeverRejected`, `NothingSkipped` |
| `ConnectionProofs` | `ConnectionsConserve`, `PoliteIsNotRefused` | `Conserved`, `PoliteNeverRefused`, with any peer |
| | `SessionsAnswer`, `SessionsAreNotRefused` | `AnswersOwnRequest`, `NeverRefused`, with the SDK's client |
| `ServiceHandleProofs` | `FailuresAreSeen` | `FailuresReachService` |
| | `StoppedIsQuiet` | `QuietStep`, the action half of `StopIsFinal` |
| `ClusterServiceProofs` | `RegistrationsAreRight` | `Registered` |
| | `PermitsAreHeld` | `PermitsHeld` |
| | `PermitsInTurn` | `TurnStep`, the action half of `WaitEnds` |
| `ClusterClientProofs` | `DispatchesOnce`, `LoadsAreExact`, `CloseLeavesNothing` | `DispatchedOnce`, `LoadIsExact`, `ClosedLeavesNothing` |
| | `NewClientsAreSpared` | `NewClientSpared` (action property) |

No theorem assumes fairness.

### Assumptions

The constants are bound by named assumptions of the modules that declare them,
which TLC evaluates in the runs:

* `LimitAssumption` (`RpcScheduler`): limits are natural numbers; concurrencies,
  queue limits, costs and `LastId` are positive. `NoneAssumption`: "no owner" is
  not a connection. Connections, routes and slots may be infinitely many.
* `LogAssumption` (`EventLog`): batches are nonempty sequences of positive sizes,
  and the WAL budget has room for the header (`parse_budget(&value, 8)`,
  main.rs:79); without that, opening a new file would exceed its budget.
* `FetchAssumption` (`EventFetch`): sizes and cursors are natural numbers; limits,
  byte budgets and the scan window are positive, as `decode_request` and
  `subscribe()` see to.
* `ConnectionAssumption`, `WireAssumption`: at least one permit and a socket of at
  least one frame; a peer sends any finite number of frames.
* `ClientAssumption` (`ClientTransport`): identifiers are `1 .. MaxId`, of which
  there are at least two, and no more requests may be pending than there are
  identifiers; without that `FreeId` would search for ever.
* `GateAssumption` and `ClusterAssumption`: finitely many brokers (cluster.ts:154
  allows eight), positive concurrency, transport capacity and pending limit.
  `MaxJobs`, `MaxClients` and `MaxFaults` (`ServiceAssumption`) bound the models'
  histories by any natural number.

### The arguments

**Induction over sets.** `ContainerLemmas` holds what the maps, queues and sums of
the models do. `retain` on a queue is defined by ranks, so that what it keeps and
in which order follows from facts on cardinality. The library's induction
theorems take an operator as parameter and cannot be instantiated here;
`NatSetInduction` and `SubsetInduction` state them for the *set* of values that
satisfy the claim, and are proved from the well-foundedness of strict inclusion
between finite sets. They give the lemmas on `SumFunctionOnSet` (`SumsExist`,
`SumStep`, `SumRemove`, `SumSplit`, `SumAlong`), used for retained bytes, file
sizes, the bytes of a batch and connection counts, the concatenation of a file's
frames, and the existence of the recursive function that is a fetch's scan.

**Scheduler.** Types are not inductive alone: a worker's take or completion
changes its route's queue, so they need "a worker's route exists", and the last
worker of a route is recognised by the route's typed worker set; `TypeInv` is
their conjunction. The other invariants are built on it, each with what it lacks:

* `QueueInv` adds `QueueIntegrity`. Every step takes a set of ids from the queues
  and from the unowned calls at once (`QueuesShrink`), leaves both alone, or
  appends the id it admits; since queues are disjoint, taking ids from one queue
  leaves the others right (`OneQueueShrinks`).
* `Departures`: owners are registered, workers are connected, and a call whose
  caller has gone runs unheard. `RetiredLeavesNothing` alone does not tell that a
  disconnecting worker's calls are exactly those its departure removes.
* `SlotsRight`: the counters are cardinalities of the calls owned and the takes
  in progress; the finiteness of the latter, for departed servers too, is part of
  the invariant.
* `NoLostWakeup` is inductive with `QueueInv`. The argument is the one of the
  comments in rpc.rs: the notification is enabled before the queue is tried, and
  whatever makes a queue nonempty or a slot free notifies. `MaySleep` names what
  each step has to preserve for one sleeping take.
* `RepliesRight` adds that a ticket and its live call know the same caller;
  `TicketsRight`, that an answer lies in a channel only after its call was removed
  and that a deadline is reported only once it has passed.
* `BudgetsHold`: every step releases the bytes of the ids it removes
  (`Release`) and shortens queues (`QueuesShorten`), or admits one call after the
  check. `QueuesOrdered`: ids in a queue increase; the head is thus the oldest.
* `Promises` (`QueueInv`, `Departures`, `RepliesRight`, `TicketsRight`) carries the
  simulation: the scheduler's initial states are initial for every call's contract,
  and each step is, for each call, a step of `RpcContract` or a stutter. One lemma
  per action says which.

**Log.** `LogInv` relates file and memory at each point of a publish: the file is
what memory holds (`SettledRight`), then one batch ahead (`SyncingRight`), and
after a failure one of the two (`PoisonedRight`); `FileRight` says that a file,
whatever was cut off it, holds consecutive frames within both budgets, which is why
replay accepts it; `AckedRight`, that what was acknowledged is within the
synchronized frames, which is what survives a power loss. `AckedSurvive` alone is
not inductive: it does not see the difference between written and synchronized.
The simulation of `DurableLog` follows step by step. It needs `WholeBatches`: an
open store holds whole frames, and of the frames in the file only the last may be
beyond them. The frames a crash leaves are the first ones, so what is recovered ends
where a batch does (`EndsOf`), acknowledged or in doubt.

**Fetching.** `Faithful` says what the loop's accumulator is after n events: the
selection is the set of `Survivors` up to its cursor, each once, its bytes are
theirs, no budget was broken on the way, and when it is done the next event would
break one. `ScanStep` is its preservation by the loop body; the case that matters
is a replacement, where the superseded event leaves the survivors as the new one
enters (`SurvivorsNext`). The loop is a function that TLA+ only chooses:
`PassesExist` shows by induction that there is one, so that `Scanned` is its value.
`Sorted` exists because every finite set of positions has an enumeration in order.
From `FetchedIs` follow `ScanIsCoalescedPrefix` and, budget by budget, what
`Client.fetch` checks. `NothingSkipped` is not inductive: while a batch is being
yielded the cursor is behind what was yielded. `SubscriptionInv` adds what the
batch still holds (`Given`) and where the cursor will be then (`Due`): all of
`Given` ascends and covers the log up to `Due`. A later event supersedes an earlier
one across batches, so coverage composes (`FetchContinues`).

**Connections.** `ConnectionInv` follows a frame by its name, identifier and tag,
through nine places from the request socket to the reply socket (`Entries`): no
name is in two places, and each is owed to the peer (`FlowRight`). The permits of
operations and unreleased responses add up (`PermitsRight`); while the connection
serves, the live identifiers are those of the middle places (`LiveRight`). A reply
has left the middle places before it can be read; so a peer with few frames in
flight finds a free permit, and one whose identifiers differ a free identifier. The
two are separate (`PoliteRight`): each refusal stays in `undue` until the peer gives
it cause. `StagesRight` tells which tasks exist when. `Conserved` alone does not say
where a reply may come from.

**Session.** To the broker the SDK's client is one more peer, so the lemmas on the
broker's steps hold as they stand, and `SessionInv` adds the client's half to
`ConnectionInv`. The frames not transmitted carry the tags after `sent`, in order
(`QueueRight`); each of them, and each frame that is outstanding, is pending under
its own identifier; and what is pending is what was promised and not settled
(`PendingRight`). So the identifiers in flight differ, and at most
`maxPendingRequests` of them: "duplicate" stays in `undue`, and "overloaded" for a
client that keeps to the broker's limit (`ClientPolite`). A reply answers an
outstanding frame with its identifier (`FlowRight`), hence the request pending there.

**Service handle.** `ServiceInv` adds to `FailuresReachService` how far the parent
knows the service (`SetupRight`): registered from before the request until it is
closed, observed exactly while it serves. `StopRight` and `LoopsRight` keep reports
and loops to the stages that have them. `StoppedIsQuiet` needs that a stopped
service's connection is closed.

**Gate.** `GateInv`: every waiting job has a slot of its own among those of the
current connections (`WaitersRight`), so that the queue's bound is never hit;
the queue is in the order of the calls, so that its head has waited longest; and
somebody waits only when every permit is taken (`PermitsRight`).

**Cluster service.** `RegistrationInv`: an open client is its node's; the handle an
attempt may still put into the map serves; a handle's epoch is its node's, so that
only the handle that is registered can unregister it.

**Cluster client.** `LoadRight`: a node's load is the number of calls out on any of
its clients, lost ones included, and its ping. `WhereRight` relates each call's
state to where it is on the wire or dispatched: a call that may be sent again is
nowhere, and one that ended in another error of its broker is only where it has been
dispatched, if anywhere. `NewClientSpared` needs that no client's number is used
again (`NumbersRight`), so that a client that lost a request stays closed
(`LostRight`): the `retire()` that comes late finds nothing of its own.

### What stays with TLC

* Liveness under fairness, and `ENABLED`, are out of the provers' reach:
  `WorkConserving`, `FuturesEnd`, `CatchesUp`, `EndIsReached`, `AnsweredOrEnded`,
  `EverySettles` (session and cluster), the second half of `StopIsFinal`, the
  first half of `WaitEnds`, `EveryBrokerServes`.
* `SdkUnderstood` and `FormDecides` (`WireCodec`) are about concrete limits and
  about folds over the fields of a body and the characters of a message: TLC
  enumerates the inputs around every limit.

## 5. What is not modelled

* Telemetry and statistics: written or reported, never read by the program.
* The incremental `FrameDecoder` and the SDK's parsing of answers other than a
  fetch's: sequential code over bytes without a protocol of its own; a socket
  delivers whole frames here.
* A panic in a broker's operation: the `JoinError` that ends its connection.
* The contents of payloads and messages, the wording of errors, checksums (they
  detect every change they are meant to detect).
* The accept loop and its connection semaphore, option parsing and process
  start: sequential and pure I/O. Shutdown ends the process, as a kill does in
  `EventLog`.
* How an SDK client opens its socket, and the abort signals of `subscribe()`.
* Benchmarks, examples and integration scripts.

## 6. Plan

The model covers the components it set out to cover, and every safety property a
run checks is a theorem but the two of `WireCodec`. What could come next is the
incremental `FrameDecoder` as a refinement of `Wire`'s whole frames, a proof that
the two layouts of `WireCodec` agree field by field, and the abort signals of
`subscribe()`.
