------------------------------ MODULE EventFetch ------------------------------
(***************************************************************************)
(* Reading the event log: the bounded scan of Store::fetch                 *)
(* (src/crates/velobus/src/store.rs) and the subscribe() loop that follows *)
(* its cursors (src/packages/client/src/index.ts), while others publish.   *)
(* An event's sequence is its position in the log.                         *)
(***************************************************************************)
EXTENDS Naturals, Sequences, FiniteSets, FiniteSetsExt, Functions

CONSTANTS
  Records,    \* records a publisher may send: [topic, key, size]
  Requests,   \* what subscribe() may be given: [topic, latest, limit, max_bytes, after]
  NoKey,      \* the empty key, which never coalesces
  AnyTopic,   \* the topic "*"
  MaxScan,    \* MAX_SCAN: events one fetch looks at
  MaxEvents   \* bound of the model on the length of the log

ASSUME FetchAssumption ==
  /\ MaxScan \in Nat \ {0} /\ MaxEvents \in Nat
  /\ \A r \in Records : r.size \in Nat
  /\ \A q \in Requests : {q.limit, q.max_bytes} \subseteq Nat \ {0} /\ q.after \in Nat

VARIABLES
  events,    \* Store.events
  request,   \* subscribe()'s arguments
  cursor,    \* subscribe()'s cursor
  pc,        \* "fetching", "yielding", "sleeping", "failed"
  batch,     \* the fetched batch: [cursor, left, pause]
  yielded    \* the sequences given to the consumer, in order

vars == <<events, request, cursor, pc, batch, yielded>>

NoBatch == [cursor |-> 0, left |-> <<>>, pause |-> FALSE]

-----------------------------------------------------------------------------
(* Store::fetch.                                                           *)

Eligible(i)   == request.topic = AnyTopic \/ request.topic = events[i].topic
Coalesces(i)  == request.latest /\ events[i].key # NoKey
Same(i, j)    == events[i].topic = events[j].topic /\ events[i].key = events[j].key

\* positions.get(key): where the selection holds the event that i supersedes.
Replaces(selected, i) ==
  IF Coalesces(i) THEN {p \in DOMAIN selected : Same(selected[p], i)} ELSE {}

Sizes            == [i \in DOMAIN events |-> events[i].size]
SizeOf(selected) == SumFunctionOnSet([p \in DOMAIN selected |-> Sizes[selected[p]]], DOMAIN selected)

Scanning(after) ==
  [cursor |-> after, selected |-> <<>>, bytes |-> 0, done |-> FALSE, error |-> FALSE]

\* The selection with event i in it.
Place(selected, i) ==
  LET old == Replaces(selected, i)
  IN  IF old = {} THEN Append(selected, i)
      ELSE [p \in DOMAIN selected |-> IF p \in old THEN i ELSE selected[p]]

\* wire_bytes with event i in the place of what it replaces.
CandidateBytes(acc, i) ==
  acc.bytes + Sizes[i] - SumFunctionOnSet(Sizes, {acc.selected[p] : p \in Replaces(acc.selected, i)})

\* Mutant of Full: a replacement is refused at the limit.
FullForAll(acc, i) ==
  \/ CandidateBytes(acc, i) > request.max_bytes
  \/ Len(acc.selected) = request.limit

Full(acc, i) ==
  \/ CandidateBytes(acc, i) > request.max_bytes
  \/ Replaces(acc.selected, i) = {} /\ Len(acc.selected) = request.limit

\* Mutant of Scan: the cursor passes an event that did not fit.
ScanSkips(acc, i) ==
  IF acc.done THEN acc
  ELSE IF ~Eligible(i) THEN [acc EXCEPT !.cursor = i]
  ELSE IF Full(acc, i)
  THEN [acc EXCEPT !.done = TRUE, !.cursor = i,
                   !.error = acc.selected = <<>> /\ events[i].size > request.max_bytes]
  ELSE [acc EXCEPT !.selected = Place(@, i), !.bytes = CandidateBytes(acc, i), !.cursor = i]

\* The body of the loop over the log.
Scan(acc, i) ==
  IF acc.done THEN acc
  ELSE IF ~Eligible(i) THEN [acc EXCEPT !.cursor = i]
  ELSE IF Full(acc, i)
  THEN [acc EXCEPT !.done = TRUE,
                   !.error = acc.selected = <<>> /\ events[i].size > request.max_bytes]
  ELSE [acc EXCEPT !.selected = Place(@, i), !.bytes = CandidateBytes(acc, i), !.cursor = i]

\* The loop over skip(after).take(MAX_SCAN).
ScanEnd(after) == IF after > Len(events) THEN after ELSE Min({after + MaxScan, Len(events)})
Scanned(after) ==
  LET loop[n \in after .. ScanEnd(after)] ==
        IF n = after THEN Scanning(after) ELSE Scan(loop[n - 1], n)
  IN  loop[ScanEnd(after)]

\* A selection in the order of the log; its events are different ones.
Sorted(selected) ==
  CHOOSE s \in [DOMAIN selected -> Range(selected)] :
    /\ Range(s) = Range(selected)
    /\ \A m, n \in DOMAIN s : m < n => s[m] < s[n]

\* Mutant of Fetched: the selection is not sorted.
FetchedUnsorted(after) ==
  LET end == Scanned(after)
  IN  [cursor |-> end.cursor, events |-> end.selected,
       has_more |-> end.cursor < Len(events), error |-> end.error]

\* The answer; a cursor beyond the log is an error.
Fetched(after) ==
  LET end == Scanned(after)
  IN  [cursor |-> end.cursor, events |-> Sorted(end.selected),
       has_more |-> end.cursor < Len(events),
       error |-> end.error \/ after > Len(events)]

\* What Client.fetch refuses as a protocol error.
AcceptedBy(after, result) ==
  /\ result.cursor >= after
  /\ Len(result.events) <= request.limit
  /\ SizeOf(result.events) <= request.max_bytes
  /\ result.has_more => result.cursor # after
  /\ \A m, n \in DOMAIN result.events : m < n => result.events[m] < result.events[n]
  /\ \A n \in DOMAIN result.events :
       after < result.events[n] /\ result.events[n] <= result.cursor
       /\ Eligible(result.events[n])
  /\ \A m, n \in DOMAIN result.events :
       Coalesces(result.events[m]) /\ Same(result.events[m], result.events[n]) => m = n

-----------------------------------------------------------------------------
(* Publishers and the subscribe() loop.                                    *)

Init ==
  /\ events = <<>>
  /\ request \in Requests
  /\ cursor = request.after /\ pc = "fetching" /\ batch = NoBatch /\ yielded = <<>>

Publish(r) ==
  /\ Len(events) < MaxEvents
  /\ events' = Append(events, r)
  /\ UNCHANGED <<request, cursor, pc, batch, yielded>>

\* An error of the broker or a refused answer ends the iteration.
Fetch ==
  /\ pc = "fetching"
  /\ LET result == Fetched(cursor)
     IN  IF result.error \/ ~AcceptedBy(cursor, result)
         THEN pc' = "failed" /\ UNCHANGED batch
         ELSE /\ pc' = "yielding"
              /\ batch' = [cursor |-> result.cursor, left |-> result.events,
                           pause |-> ~result.has_more \/ result.events = <<>>]
  /\ UNCHANGED <<events, request, cursor, yielded>>

Yield ==
  /\ pc = "yielding" /\ batch.left # <<>>
  /\ yielded' = Append(yielded, Head(batch.left))
  /\ batch' = [batch EXCEPT !.left = Tail(@)]
  /\ UNCHANGED <<events, request, cursor, pc>>

\* Mutant of BatchDone: the cursor moves only with events.
BatchDoneWithEvents ==
  /\ pc = "yielding" /\ batch.left = <<>>
  /\ cursor' = IF yielded = <<>> THEN cursor ELSE batch.cursor
  /\ pc' = IF batch.pause THEN "sleeping" ELSE "fetching"
  /\ batch' = NoBatch
  /\ UNCHANGED <<events, request, yielded>>

\* The cursor moves when the whole batch has been consumed; the loop pauses
\* unless there is more, and also after a batch without events.
BatchDone ==
  /\ pc = "yielding" /\ batch.left = <<>>
  /\ cursor' = batch.cursor
  /\ pc' = IF batch.pause THEN "sleeping" ELSE "fetching"
  /\ batch' = NoBatch
  /\ UNCHANGED <<events, request, yielded>>

Wake ==
  /\ pc = "sleeping"
  /\ pc' = "fetching"
  /\ UNCHANGED <<events, request, cursor, batch, yielded>>

Next ==
  \/ \E r \in Records : Publish(r)
  \/ Fetch \/ Yield \/ BatchDone \/ Wake

\* Every fetch is answered, the consumer asks for the next event and timers
\* fire; nobody has to publish.
SubscriberRuns ==
  /\ []<>(pc # "fetching")
  /\ WF_vars(Yield) /\ WF_vars(BatchDone) /\ WF_vars(Wake)

Spec == Init /\ [][Next]_vars /\ SubscriberRuns

-----------------------------------------------------------------------------
(* The same scan, said without a loop.                                     *)

\* What a fetch that stops at n returns: the eligible events above "after",
\* less those a later one of the same topic and key supersedes.
Survivors(after, n) ==
  {i \in after + 1 .. n :
     /\ Eligible(i)
     /\ Coalesces(i) => \A j \in i + 1 .. n : ~Same(i, j)}

WithinBudget(after, n) ==
  /\ Cardinality(Survivors(after, n)) <= request.limit
  /\ SumFunctionOnSet(Sizes, Survivors(after, n)) <= request.max_bytes

\* It stops just before the first position that would break a budget.
StopsAt(after) ==
  Max({n \in after .. ScanEnd(after) : \A m \in after .. n : WithinBudget(after, m)})

-----------------------------------------------------------------------------
(* Properties.                                                             *)

\* The scan, with its replacements in place and its final sort, returns exactly
\* the surviving events up to the first one that does not fit, for every cursor
\* of every history; an error means that nothing at all could be returned.
ScanIsCoalescedPrefix ==
  \A after \in 0 .. Len(events) :
    LET result == Fetched(after)
        stop   == StopsAt(after)
    IN  /\ result.cursor = stop
        /\ Range(result.events) = Survivors(after, stop)
        /\ \A m, n \in DOMAIN result.events : m < n => result.events[m] < result.events[n]
        /\ result.error <=> /\ stop < ScanEnd(after)
                            /\ Survivors(after, stop) = {}

\* The SDK never rejects what the store answers, so a subscription fails only on
\* an event too large for its budget; in particular has_more always comes with
\* progress, so the loop cannot spin on one cursor.
NeverRejected ==
  \A after \in 0 .. Len(events) :
    ~Fetched(after).error => AcceptedBy(after, Fetched(after))

\* Nothing between the starting point and the cursor is skipped: each eligible
\* event was yielded, or was superseded by a yielded one of its topic and key;
\* and nothing comes twice or out of sequence order, across batches and pauses.
NothingSkipped ==
  /\ \A i \in request.after + 1 .. Min({cursor, Len(events)}) :
       Eligible(i) =>
         \E n \in DOMAIN yielded :
           \/ yielded[n] = i
           \/ yielded[n] > i /\ Coalesces(i) /\ Same(i, yielded[n])
  /\ \A m, n \in DOMAIN yielded : m < n => yielded[m] < yielded[n]

\* The subscriber gets past every event that is published, however sparse its
\* topic, unless its start lies beyond the log or an event exceeds its budget.
CatchesUp ==
  \A i \in 1 .. MaxEvents : Len(events) >= i ~> (cursor >= i \/ pc = "failed")
=============================================================================
