--------------------------- MODULE ConnectionProofs ---------------------------
(***************************************************************************)
(* A connection of the broker loses no permit, no identifier and no reply, *)
(* and refuses no peer without cause; and with the SDK's client at its     *)
(* other end every reply settles the request it answers: for any number of *)
(* frames, identifiers and permits, and any socket.                        *)
(***************************************************************************)
EXTENDS AnyPeer, Session, ContainerLemmas, FiniteSetTheorems, TLAPS

Reader == [pc : {"none", "reading", "sending", "ended"}, frame : Seq(Frame)]
Loop   == [pc : {"hello", "greeting", "select", "answering", "receipt", "leaving",
                 "draining", "done"},
           response : Seq(Response), close : BOOLEAN, receipt : {"none", "sent", "dropped"}]
Op     == [id : RequestIds, tag : Tags, pc : {"running", "sending"}]
Writer == [pc : {"none", "receiving", "releasing", "writing", "written", "ended"},
           response : Seq(Response)]

\* What a task holds at each of its program counters: one thing or nothing.
TypesRight ==
  /\ WireTypeOK
  /\ reader \in Reader /\ Len(reader.frame) = IF reader.pc = "sending" THEN 1 ELSE 0
  /\ frames \in Seq(Frame) /\ Len(frames) <= 1
  /\ loop \in Loop
  /\ Len(loop.response) = IF loop.pc \in {"greeting", "answering"} THEN 1 ELSE 0
  /\ live \subseteq RequestIds
  /\ permits \in Nat
  /\ ops \subseteq Op /\ IsFiniteSet(ops)
  /\ responses \in Seq(Response) /\ Len(responses) <= 1
  /\ writer \in Writer
  /\ Len(writer.response) = IF writer.pc \in {"releasing", "writing", "written"} THEN 1 ELSE 0
  /\ registered \in BOOLEAN

PeerRight ==
  /\ sent \in 0 .. MaxTags
  /\ DOMAIN waiting \subseteq 1 .. sent /\ waiting \in [DOMAIN waiting -> RequestIds]
  /\ undue \subseteq Refusals

Items(S) == {S[p] : p \in DOMAIN S}

\* Before the frame loop runs there are no tasks; it runs only while no answer
\* of its own closes the connection; and the reader passes on no broken frame.
StagesRight ==
  /\ loop.pc \in {"hello", "greeting"} =>
       /\ reader.pc = "none" /\ writer.pc = "none"
       /\ frames = <<>> /\ responses = <<>> /\ live = {} /\ ops = {}
  /\ \A f \in Items(reader.frame) \cup Items(frames) : f.kind # "broken"
  /\ loop.pc = "select" => ~loop.close
  /\ writer.pc \in {"writing", "written"} => ~writer.response[1].permit

Held(S) == IF S # <<>> /\ S[1].permit THEN 1 ELSE 0

InLoop   == IF loop.pc = "answering" THEN loop.response ELSE <<>>
InWriter == IF writer.pc = "releasing" THEN writer.response ELSE <<>>

PermitsRight ==
  permits + Cardinality(ops) + Held(InLoop) + Held(responses) + Held(InWriter) = MaxInFlight

\* Where a frame, its operation and its reply can be.  A frame is known by its
\* identifier and its tag all the way.
Places   == 1 .. 9
Names(S) == {<<e.id, e.tag>> : e \in S}

Entries ==
  << Names(Items(requests)), Names(Items(reader.frame)), Names(Items(frames)),
     Names(Items(loop.response)), Names(ops), Names(Items(responses)), Names(Items(InWriter)),
     Names(IF writer.pc = "writing" THEN Items(writer.response) ELSE {}),
     Names(Items(replies)) >>

Owed == {<<waiting[t], t>> : t \in Outstanding}

Apart(E) == \A a, b \in Places : a # b => E[a] \cap E[b] = {}

\* Every frame is in one place at a time, once, and its peer waits for it.
Distinct(q) == \A m, n \in DOMAIN q : q[m].tag = q[n].tag => m = n

FlowRight ==
  /\ Apart(Entries)
  /\ \A a \in Places : Entries[a] \subseteq Owed
  /\ Distinct(requests) /\ Distinct(replies)
  /\ \A o, p \in ops : o.tag = p.tag => o = p

\* The identifiers in flight are those of the operations and the responses that
\* nobody has released, each of one of them.
Serving == /\ loop.pc \in {"select", "answering", "receipt"}
           /\ writer.pc # "ended" /\ ~loop.close
Middle  == Entries[4] \cup Entries[5] \cup Entries[6] \cup Entries[7]

LiveRight ==
  Serving => /\ live = {e[1] : e \in Middle}
             /\ \A d, e \in Middle : d[1] = e[1] => d = e

\* A peer that gave no cause has few frames in flight, or different identifiers, and
\* no refusal is on its way to it.
PoliteRight ==
  /\ "overloaded" \in undue => Cardinality(Outstanding) <= MaxInFlight
  /\ "duplicate" \in undue => \A t, u \in Outstanding : waiting[t] = waiting[u] => t = u
  /\ \A r \in Items(replies) : r.status \notin undue
  /\ writer.pc # "ended" =>
       \A r \in Items(loop.response) \cup Items(responses) \cup Items(writer.response) :
         r.status \notin undue

ConnectionInv ==
  TypesRight /\ PeerRight /\ StagesRight /\ PermitsRight /\ FlowRight /\ LiveRight /\ PoliteRight

\* The frames the client has not transmitted.
Queue == sendBuffer \o writeQueue

InOrder(q) == \A m, n \in DOMAIN q : m < n => q[m].tag < q[n].tag

\* The promises nobody has settled are those pending, under one identifier each.
PendingRight ==
  /\ \A i, j \in DOMAIN pending : pending[i] = pending[j] => i = j
  /\ {t \in Tags : settled[t] = "open"} = Items(pending)
  /\ Cardinality(DOMAIN pending) <= maxPendingRequests
  /\ closed => pending = <<>> /\ sendBuffer = <<>> /\ writeQueue = <<>>

\* Every frame of an open client that is not answered is pending under its identifier,
\* sent or queued, and frames are queued in the order of their tags.
QueueRight ==
  ~closed =>
    /\ \A k \in DOMAIN Queue :
         Queue[k].tag = sent + k /\ Queue[k].id \in DOMAIN pending /\ pending[Queue[k].id] = Queue[k].tag
    /\ {t \in Tags : settled[t] # "unused"} = 1 .. sent + Len(Queue)
    /\ \A t \in Outstanding : waiting[t] \in DOMAIN pending /\ pending[waiting[t]] = t

\* The SDK's client is a polite peer.
ClientPolite ==
  "duplicate" \in undue /\ (maxPendingRequests <= MaxInFlight => "overloaded" \in undue)

SessionInv ==
  ConnectionInv /\ ClientTypeOK /\ PendingRight /\ QueueRight /\ InOrder(requests) /\ ClientPolite

-----------------------------------------------------------------------------
(* Sequences.                                                              *)

\* What a task holds is nothing or one thing.
LEMMA AtMostOne ==
  ASSUME NEW X, NEW q \in Seq(X)
  PROVE  /\ Len(q) \in Nat /\ DOMAIN q = 1 .. Len(q) /\ \A p \in DOMAIN q : q[p] \in X
         /\ Items(q) \subseteq X
         /\ q = <<>> <=> Len(q) = 0
         /\ Len(q) = 0 => Items(q) = {}
         /\ Len(q) = 1 => q = <<q[1]>> /\ q[1] \in X /\ Items(q) = {q[1]} /\ Head(q) = q[1]
<1>1. Len(q) \in Nat /\ DOMAIN q = 1 .. Len(q) /\ \A p \in DOMAIN q : q[p] \in X
  OBVIOUS
<1>2. Items(q) \subseteq X
  BY <1>1 DEF Items
<1>3. q = <<>> <=> Len(q) = 0
  OBVIOUS
<1>4. Len(q) = 0 => Items(q) = {}
  BY <1>1 DEF Items
<1>5. ASSUME Len(q) = 1
      PROVE  q = <<q[1]>> /\ q[1] \in X /\ Items(q) = {q[1]} /\ Head(q) = q[1]
  <2>1. DOMAIN q = {1}
    BY <1>1, <1>5
  <2>2. Items(q) = {q[1]} /\ q[1] \in X
    BY <1>1, <2>1 DEF Items
  <2>4. Head(q) = q[1]
    BY <1>1, <2>1
  <2>3. q = <<q[1]>>
    BY <1>5, <2>1
  <2> QED
    BY <2>2, <2>3, <2>4
<1> QED
  BY <1>1, <1>2, <1>3, <1>4, <1>5

\* Taking a frame from the socket.
LEMMA Taken ==
  ASSUME NEW X, NEW q \in Seq(X), q # <<>>, Distinct(q)
  PROVE  /\ Tail(q) \in Seq(X) /\ Len(Tail(q)) = Len(q) - 1
         /\ Head(q) \in X /\ Head(q) \in Items(q)
         /\ Items(Tail(q)) \subseteq Items(q)
         /\ \A e \in Items(Tail(q)) : e.tag # Head(q).tag
         /\ Distinct(Tail(q))
<1>1. Tail(q) \in Seq(X) /\ Len(Tail(q)) = Len(q) - 1 /\ Len(q) \in Nat \ {0} /\ DOMAIN q = 1 .. Len(q)
  OBVIOUS
<1>2. \A p \in DOMAIN Tail(q) : p + 1 \in DOMAIN q /\ p + 1 # 1 /\ Tail(q)[p] = q[p + 1]
  BY <1>1
<1>3. 1 \in DOMAIN q /\ Head(q) = q[1]
  BY <1>1
<1>4. Head(q) \in X /\ Head(q) \in Items(q) /\ Items(Tail(q)) \subseteq Items(q)
  BY <1>2, <1>3 DEF Items
<1>5. \A e \in Items(Tail(q)) : e.tag # Head(q).tag
  BY <1>2, <1>3 DEF Items, Distinct
<1>6. Distinct(Tail(q))
  <2>1. SUFFICES ASSUME NEW m \in DOMAIN Tail(q), NEW n \in DOMAIN Tail(q),
                        Tail(q)[m].tag = Tail(q)[n].tag
                 PROVE  m = n
    BY DEF Distinct
  <2>2. m + 1 = n + 1 /\ m \in Nat /\ n \in Nat
    BY <1>1, <1>2, <2>1 DEF Distinct
  <2> QED
    BY <2>2
<1> QED
  BY <1>1, <1>4, <1>5, <1>6

\* Putting a frame into the socket.
LEMMA Added ==
  ASSUME NEW X, NEW q \in Seq(X), NEW x \in X, Distinct(q), \A e \in Items(q) : e.tag # x.tag
  PROVE  /\ Append(q, x) \in Seq(X) /\ Len(Append(q, x)) = Len(q) + 1
         /\ Items(Append(q, x)) = Items(q) \cup {x}
         /\ Distinct(Append(q, x))
<1>1. Append(q, x) \in Seq(X) /\ Len(Append(q, x)) = Len(q) + 1 /\ Len(q) \in Nat
      /\ DOMAIN q = 1 .. Len(q) /\ DOMAIN Append(q, x) = DOMAIN q \cup {Len(q) + 1}
  OBVIOUS
<1>2. /\ \A p \in DOMAIN q : Append(q, x)[p] = q[p]
      /\ Append(q, x)[Len(q) + 1] = x
  BY <1>1
<1>3. Items(Append(q, x)) = Items(q) \cup {x}
  BY <1>1, <1>2 DEF Items
<1>4. Distinct(Append(q, x))
  BY <1>1, <1>2 DEF Distinct, Items
<1> QED
  BY <1>1, <1>3, <1>4

\* A response without a permit returns none.
LEMMA NothingAdded == \A n \in Nat : n + 0 = n
  OBVIOUS

\* The permits in a sequence of responses are those of its parts.
LEMMA PermitsAdd ==
  ASSUME NEW S \in Seq(Response), NEW T \in Seq(Response)
  PROVE  LET Permits(q) == {p \in DOMAIN q : q[p].permit}
         IN  /\ IsFiniteSet(Permits(S)) /\ Cardinality(Permits(S)) \in Nat
             /\ Cardinality(Permits(S \o T)) = Cardinality(Permits(S)) + Cardinality(Permits(T))
<1> DEFINE Permits(q) == {p \in DOMAIN q : q[p].permit}
           Moved == {p + Len(S) : p \in Permits(T)}
           shift == [p \in Permits(T) |-> p + Len(S)]
<1>1. /\ Len(S) \in Nat /\ DOMAIN S = 1 .. Len(S) /\ Len(T) \in Nat /\ DOMAIN T = 1 .. Len(T)
      /\ S \o T \in Seq(Response) /\ DOMAIN (S \o T) = 1 .. Len(S) + Len(T)
      /\ \A p \in 1 .. Len(S) + Len(T) : (S \o T)[p] = IF p <= Len(S) THEN S[p] ELSE T[p - Len(S)]
  OBVIOUS
<1>2. \A q \in Seq(Response) : IsFiniteSet(Permits(q)) /\ Cardinality(Permits(q)) \in Nat
  <2>1. SUFFICES ASSUME NEW q \in Seq(Response)
                 PROVE  IsFiniteSet(Permits(q)) /\ Cardinality(Permits(q)) \in Nat
    OBVIOUS
  <2>2. Len(q) \in Nat /\ Permits(q) \in SUBSET (1 .. Len(q))
    OBVIOUS
  <2>3. IsFiniteSet(1 .. Len(q))
    BY <2>2, FS_Interval
  <2> QED
    BY <2>2, <2>3, FS_Subset, FS_CardinalityType
<1>3. Permits(S \o T) = Permits(S) \cup Moved
  <2>1. ASSUME NEW p \in Permits(S \o T)
        PROVE  p \in Permits(S) \cup Moved
    <3>1. CASE p <= Len(S)
      BY <1>1, <3>1
    <3>2. CASE ~(p <= Len(S))
      <4>1. p - Len(S) \in Permits(T) /\ p = (p - Len(S)) + Len(S)
        BY <1>1, <3>2
      <4> QED
        BY <4>1
    <3> QED
      BY <3>1, <3>2
  <2>2. Permits(S) \subseteq Permits(S \o T)
    BY <1>1
  <2>3. ASSUME NEW p \in Permits(T)
        PROVE  p + Len(S) \in Permits(S \o T)
    <3>1. p \in 1 .. Len(T) /\ T[p].permit
      BY <1>1
    <3>2. p + Len(S) \in 1 .. Len(S) + Len(T) /\ ~(p + Len(S) <= Len(S)) /\ (p + Len(S)) - Len(S) = p
      BY <1>1, <3>1
    <3>3. (S \o T)[p + Len(S)] = T[p]
      BY <1>1, <3>2
    <3> QED
      BY <1>1, <3>1, <3>2, <3>3
  <2> QED
    BY <2>1, <2>2, <2>3
<1>4. Permits(S) \cap Moved = {}
  BY <1>1
<1>5. shift \in Bijection(Permits(T), Moved)
  <2>1. \A p \in Permits(T) : p \in Nat
    BY <1>1
  <2> HIDE DEF Permits
  <2>2. shift \in [Permits(T) -> Moved] /\ \A p \in Permits(T) : shift[p] = p + Len(S)
    OBVIOUS
  <2>3. \A m, n \in Permits(T) : shift[m] = shift[n] => m = n
    BY <1>1, <2>1, <2>2
  <2>4. \A x \in Moved : \E p \in Permits(T) : shift[p] = x
    BY <2>2
  <2> HIDE DEF shift, Moved
  <2> QED
    BY <2>2, <2>3, <2>4 DEF Bijection, Injection, Surjection, IsInjective
<1>6. IsFiniteSet(Moved) /\ Cardinality(Moved) = Cardinality(Permits(T))
  <2>1. ExistsBijection(Permits(T), Moved)
    BY <1>5 DEF ExistsBijection
  <2> HIDE DEF Permits, Moved, shift
  <2> QED
    BY <1>2, <2>1, FS_Bijection
<1>7. Cardinality(Permits(S \o T)) = Cardinality(Permits(S)) + Cardinality(Permits(T))
  <2> HIDE DEF Permits, Moved, shift
  <2>1. IsFiniteSet(Permits(S)) /\ Cardinality(Permits(S)) \in Nat /\ Cardinality(Permits(T)) \in Nat
    BY <1>2
  <2>2. Cardinality(Permits(S) \cup Moved)
          = Cardinality(Permits(S)) + Cardinality(Moved) - Cardinality(Permits(S) \cap Moved)
    BY <2>1, <1>6, FS_Union
  <2>3. Cardinality(Permits(S) \cap Moved) = 0
    BY <1>4, FS_EmptySet
  <2> QED
    BY <1>3, <1>6, <2>1, <2>2, <2>3
<1> QED
  BY <1>2, <1>7

\* What one or no response holds.
LEMMA HeldIs ==
  ASSUME NEW S \in Seq(Response), Len(S) <= 1
  PROVE  /\ Held(S) \in {0, 1}
         /\ Cardinality({p \in DOMAIN S : S[p].permit}) = Held(S)
         /\ Held(S) <= Len(S)
<1>1. CASE Len(S) = 0
  <2>1. S = <<>> /\ DOMAIN S = {}
    BY <1>1
  <2>2. {p \in DOMAIN S : S[p].permit} = {}
    BY <2>1
  <2> QED
    BY <1>1, <2>1, <2>2, FS_EmptySet DEF Held
<1>2. CASE Len(S) = 1
  <2>1. S # <<>> /\ DOMAIN S = {1}
    BY <1>2
  <2>2. CASE S[1].permit
    <3>1. {p \in DOMAIN S : S[p].permit} = {1}
      BY <2>1, <2>2
    <3>2. Held(S) = 1
      BY <2>1, <2>2 DEF Held
    <3>3. Cardinality({p \in DOMAIN S : S[p].permit}) = 1
      BY <3>1, FS_Singleton, Zenon
    <3> QED
      BY <1>2, <3>2, <3>3
  <2>3. CASE ~S[1].permit
    <3>1. {p \in DOMAIN S : S[p].permit} = {}
      BY <2>1, <2>3
    <3>2. Held(S) = 0
      BY <2>3 DEF Held
    <3>3. Cardinality({p \in DOMAIN S : S[p].permit}) = 0
      BY <3>1, FS_EmptySet, Zenon
    <3> QED
      BY <1>2, <3>2, <3>3
  <2> QED
    BY <2>2, <2>3
<1> QED
  <2>1. Len(S) = 0 \/ Len(S) = 1
    <3>1. Len(S) \in Nat
      BY AtMostOne
    <3> QED
      BY <3>1
  <2> QED
    BY <1>1, <1>2, <2>1

-----------------------------------------------------------------------------
(* Types.                                                                  *)

\* A frame from the socket keeps its name through the connection.
LEMMA NamesKeep ==
  ASSUME NEW f \in Frame, NEW s \in Statuses, NEW p \in BOOLEAN, NEW r \in BOOLEAN
  PROVE  /\ [id |-> f.id, tag |-> f.tag, status |-> s, permit |-> p, receipt |-> r] \in Response
         /\ [id |-> f.id, tag |-> f.tag, pc |-> "running"] \in Op
  BY DEF Frame, Response, Op

\* The reader, the frame loop and the writer hold what their counters say, as
\* records.
LEMMA TasksAre ==
  ASSUME TypesRight
  PROVE  /\ reader.pc \in {"none", "reading", "sending", "ended"} /\ reader.frame \in Seq(Frame)
         /\ reader = [pc |-> reader.pc, frame |-> reader.frame]
         /\ loop.response \in Seq(Response) /\ loop.close \in BOOLEAN
         /\ loop.receipt \in {"none", "sent", "dropped"}
         /\ loop = [pc |-> loop.pc, response |-> loop.response, close |-> loop.close,
                    receipt |-> loop.receipt]
         /\ writer.response \in Seq(Response)
         /\ writer = [pc |-> writer.pc, response |-> writer.response]
  BY DEF TypesRight, Reader, Loop, Writer

\* Ending the connection before the frame loop runs keeps the types.
LEMMA ClosedTypes ==
  ASSUME TypesRight, Closed, loop.pc \in {"hello", "greeting"}, StagesRight
  PROVE  /\ reader' \in Reader /\ reader'.pc = "ended" /\ reader'.frame = <<>>
         /\ loop' \in Loop /\ loop'.pc = "done" /\ loop'.response = <<>>
         /\ writer' \in Writer /\ writer'.pc = "ended" /\ writer'.response = <<>>
<1>1. reader.frame = <<>> /\ writer.response = <<>>
  BY AtMostOne DEF TypesRight, StagesRight, Reader, Writer
<1>2. reader' = [reader EXCEPT !.pc = "ended"] /\ writer' = [writer EXCEPT !.pc = "ended"]
      /\ loop' = [loop EXCEPT !.pc = "done", !.response = <<>>]
  BY DEF Closed
<1>3. reader' = [pc |-> "ended", frame |-> <<>>]
  BY <1>1, <1>2, TasksAre
<1>4. writer' = [pc |-> "ended", response |-> <<>>]
  BY <1>1, <1>2, TasksAre
<1>5. loop' = [pc |-> "done", response |-> <<>>, close |-> loop.close, receipt |-> loop.receipt]
  BY <1>2, TasksAre
<1>6. loop.close \in BOOLEAN /\ loop.receipt \in {"none", "sent", "dropped"}
  BY DEF TypesRight, Loop
<1> QED
  BY <1>3, <1>4, <1>5, <1>6 DEF Reader, Writer, Loop

-----------------------------------------------------------------------------
(* Frames on their way.                                                    *)

\* The places by their numbers.
LEMMA EntriesAre ==
  /\ Entries[1] = Names(Items(requests)) /\ Entries[2] = Names(Items(reader.frame))
  /\ Entries[3] = Names(Items(frames)) /\ Entries[4] = Names(Items(loop.response))
  /\ Entries[5] = Names(ops) /\ Entries[6] = Names(Items(responses))
  /\ Entries[7] = Names(Items(InWriter))
  /\ Entries[8] = Names(IF writer.pc = "writing" THEN Items(writer.response) ELSE {})
  /\ Entries[9] = Names(Items(replies))
  BY DEF Entries

\* ... and after a step.
LEMMA EntriesNext ==
  /\ Entries'[1] = Names(Items(requests')) /\ Entries'[2] = Names(Items(reader'.frame))
  /\ Entries'[3] = Names(Items(frames')) /\ Entries'[4] = Names(Items(loop'.response))
  /\ Entries'[5] = Names(ops') /\ Entries'[6] = Names(Items(responses'))
  /\ Entries'[7] = Names(Items(InWriter'))
  /\ Entries'[8] = Names(IF writer'.pc = "writing" THEN Items(writer'.response) ELSE {})
  /\ Entries'[9] = Names(Items(replies'))
  BY DEF Entries

\* The names in no, one, fewer or one more things.
LEMMA NamesAre ==
  /\ Names({}) = {}
  /\ \A e : Names({e}) = {<<e.id, e.tag>>}
  /\ \A S, T : S \subseteq T => Names(S) \subseteq Names(T)
  /\ \A S, e : Names(S \cup {e}) = Names(S) \cup {<<e.id, e.tag>>}
  BY DEF Names

\* What is owed has one identifier for each tag.
LEMMA OwedIs ==
  ASSUME NEW i, NEW t, <<i, t>> \in Owed
  PROVE  t \in Outstanding /\ waiting[t] = i
  BY DEF Owed

\* A frame that moves from one place to another, or is dropped, stays apart
\* from the others.
LEMMA FrameMoves ==
  ASSUME NEW E, NEW F, NEW O, NEW a \in Places, NEW b \in Places, NEW x,
         Apart(E), \A k \in Places : E[k] \subseteq O,
         x \in E[a], a # b,
         \A k \in Places \ {a, b} : F[k] \subseteq E[k],
         F[a] \subseteq E[a] \ {x}, F[b] \subseteq E[b] \cup {x}
  PROVE  Apart(F) /\ \A k \in Places : F[k] \subseteq O
<1>1. \A k \in Places : k # a => x \notin E[k]
  BY DEF Apart
<1>2. \A k \in Places : k # b => F[k] \subseteq E[k] /\ x \notin F[k]
  BY <1>1
<1>3. Apart(F)
  <2>1. SUFFICES ASSUME NEW k \in Places, NEW l \in Places, k # l
                 PROVE  F[k] \cap F[l] = {}
    BY DEF Apart
  <2>2. E[k] \cap E[l] = {}
    BY <2>1 DEF Apart
  <2>3. CASE k = b
    BY <2>1, <2>2, <2>3, <1>2
  <2>4. CASE l = b
    BY <2>1, <2>2, <2>4, <1>2
  <2>5. CASE k # b /\ l # b
    BY <2>2, <2>5, <1>2
  <2> QED
    BY <2>3, <2>4, <2>5
<1>4. \A k \in Places : F[k] \subseteq O
  BY <1>2
<1> QED
  BY <1>3, <1>4

\* What stays where it is or is dropped stays apart.
LEMMA FramesStay ==
  ASSUME NEW E, NEW F, NEW O, Apart(E), \A k \in Places : E[k] \subseteq O,
         \A k \in Places : F[k] \subseteq E[k]
  PROVE  Apart(F) /\ \A k \in Places : F[k] \subseteq O
<1>1. \A k, l \in Places : k # l => F[k] \cap F[l] = {}
  <2>1. SUFFICES ASSUME NEW k \in Places, NEW l \in Places, k # l
                 PROVE  F[k] \cap F[l] = {}
    OBVIOUS
  <2>2. E[k] \cap E[l] = {} /\ F[k] \subseteq E[k] /\ F[l] \subseteq E[l]
    BY <2>1 DEF Apart
  <2> QED
    BY <2>2
<1>2. \A k \in Places : F[k] \subseteq O
  OBVIOUS
<1> QED
  BY <1>1, <1>2 DEF Apart

\* Nothing but the places of arrival changes: so it is with the reader's steps.
LEMMA ArrivalKeeps ==
  ASSUME ConnectionInv, UNCHANGED <<replies, loop, live, permits, ops, responses, writer,
                                    registered, peer>>,
         requests' \in Seq(Frame), Len(requests') <= Buffer, clientOpen' \in BOOLEAN,
         reader' \in Reader, Len(reader'.frame) = IF reader'.pc = "sending" THEN 1 ELSE 0,
         frames' \in Seq(Frame), Len(frames') <= 1,
         loop.pc \notin {"hello", "greeting"} \/ UNCHANGED <<reader, frames>>,
         Apart(Entries'), \A k \in Places : Entries'[k] \subseteq Owed,
         Distinct(requests'),
         \A f \in Items(reader'.frame) \cup Items(frames') : f.kind # "broken"
  PROVE  ConnectionInv'
<1>1. TypesRight'
  BY DEF ConnectionInv, TypesRight, WireTypeOK
<1>2. PeerRight' /\ StagesRight'
  BY DEF ConnectionInv, PeerRight, StagesRight, peer
<1>3. PermitsRight'
  BY DEF ConnectionInv, PermitsRight, InLoop, InWriter
<1>4. FlowRight'
  <2>1. Owed' = Owed
    BY DEF Owed, Outstanding, peer
  <2> QED
    BY <2>1 DEF ConnectionInv, FlowRight
<1>5. LiveRight'
  <2>1. InWriter' = InWriter /\ Serving' = Serving
    BY DEF Serving, InWriter
  <2>2. /\ Entries'[4] = Entries[4] /\ Entries'[5] = Entries[5]
        /\ Entries'[6] = Entries[6] /\ Entries'[7] = Entries[7]
    BY <2>1, EntriesAre, EntriesNext, Zenon
  <2>3. Middle' = Middle
    BY <2>2 DEF Middle
  <2> QED
    BY <2>1, <2>3 DEF ConnectionInv, LiveRight
<1>6. PoliteRight'
  BY DEF ConnectionInv, PoliteRight, Outstanding, peer
<1> QED
  BY <1>1, <1>2, <1>3, <1>4, <1>5, <1>6 DEF ConnectionInv

-----------------------------------------------------------------------------
(* The reader task.                                                        *)

\* Places that a step does not name are as they were.
LEMMA ReaderKeeps ==
  ASSUME ConnectionInv, ReaderStep, UNCHANGED peer
  PROVE  ConnectionInv'
<1>0. /\ Apart(Entries) /\ \A k \in Places : Entries[k] \subseteq Owed
      /\ Distinct(requests)
      /\ requests \in Seq(Frame) /\ Len(requests) <= Buffer /\ clientOpen \in BOOLEAN
      /\ frames \in Seq(Frame) /\ Len(frames) <= 1
      /\ reader.pc \in {"none", "reading", "sending", "ended"} /\ reader.frame \in Seq(Frame)
      /\ Len(reader.frame) = IF reader.pc = "sending" THEN 1 ELSE 0
      /\ loop.pc \in {"hello", "greeting"} => reader.pc = "none"
      /\ Buffer \in Nat
  BY WireAssumption DEF ConnectionInv, TypesRight, WireTypeOK, FlowRight, StagesRight, Reader
<1>1. CASE ReaderRead
  <2>1. /\ requests # <<>> /\ reader.pc = "reading" /\ requests' = Tail(requests)
        /\ reader' = IF Head(requests).kind = "broken" THEN [pc |-> "ended", frame |-> <<>>]
                     ELSE [pc |-> "sending", frame |-> <<Head(requests)>>]
        /\ UNCHANGED <<replies, clientOpen, frames, loop, live, permits, ops, responses,
                       writer, registered>>
    BY <1>1 DEF ReaderRead
  <2> DEFINE x == <<Head(requests).id, Head(requests).tag>>
  <2>2. /\ requests' \in Seq(Frame) /\ Len(requests') = Len(requests) - 1
        /\ Head(requests) \in Frame /\ Head(requests) \in Items(requests)
        /\ Items(requests') \subseteq Items(requests)
        /\ \A e \in Items(requests') : e.tag # Head(requests).tag
        /\ Distinct(requests')
    BY <1>0, <2>1, Taken
  <2>3. /\ reader' \in Reader /\ Len(reader'.frame) = IF reader'.pc = "sending" THEN 1 ELSE 0
        /\ reader'.frame \in Seq(Frame) /\ Items(reader'.frame) \subseteq {Head(requests)}
    <3>1. CASE Head(requests).kind = "broken"
      BY <2>1, <3>1 DEF Reader, Items
    <3>2. CASE Head(requests).kind # "broken"
      <4>1. reader' = [pc |-> "sending", frame |-> <<Head(requests)>>]
        BY <2>1, <3>2
      <4>2. <<Head(requests)>> \in Seq(Frame) /\ Len(<<Head(requests)>>) = 1
            /\ Items(<<Head(requests)>>) = {Head(requests)}
        BY <2>2 DEF Items
      <4> QED
        BY <4>1, <4>2 DEF Reader
    <3> QED
      BY <3>1, <3>2
  <2>4. x \in Entries[1] /\ Entries'[1] \subseteq Entries[1] \ {x}
    <3>1. Names(Items(requests')) \subseteq Names(Items(requests)) \ {x}
      BY <2>2 DEF Names
    <3>2. x \in Names(Items(requests))
      BY <2>2 DEF Names
    <3> QED
      BY <3>1, <3>2, EntriesAre, EntriesNext, Zenon
  <2>5. Entries'[2] \subseteq Entries[2] \cup {x}
    <3>1. Names(Items(reader'.frame)) \subseteq {x}
      BY <2>3, NamesAre
    <3> QED
      BY <3>1, EntriesAre, EntriesNext
  <2>6. \A k \in Places \ {1, 2} : Entries'[k] \subseteq Entries[k]
    BY <2>1 DEF Entries, Places, InWriter
  <2> HIDE DEF x
  <2>7. Apart(Entries') /\ \A k \in Places : Entries'[k] \subseteq Owed
    <3>1. 1 \in Places /\ 2 \in Places /\ 1 # 2
      BY DEF Places
    <3>2. x \in Entries[1] /\ Entries'[1] \subseteq Entries[1] \ {x}
      BY <2>4
    <3>3. Apart(Entries) /\ \A k \in Places : Entries[k] \subseteq Owed
      BY <1>0
    <3> QED
      BY <3>1, <3>2, <3>3, <2>5, <2>6, FrameMoves
  <2>9. \A f \in Items(reader'.frame) \cup Items(frames') : f.kind # "broken"
    <3>1. \A f \in Items(frames') : f.kind # "broken"
      BY <2>1 DEF ConnectionInv, StagesRight
    <3>2. \A f \in Items(reader'.frame) : f.kind # "broken"
      <4>1. CASE Head(requests).kind = "broken"
        <5>1. reader'.frame = <<>>
          BY <2>1, <4>1
        <5> QED
          BY <5>1 DEF Items
      <4>2. CASE Head(requests).kind # "broken"
        BY <2>3, <4>2
      <4> QED
        BY <4>1, <4>2
    <3> QED
      BY <3>1, <3>2
  <2>8. Len(requests') <= Buffer /\ clientOpen' \in BOOLEAN /\ frames' \in Seq(Frame) /\ Len(frames') <= 1
        /\ loop.pc \notin {"hello", "greeting"}
    <3>1. Len(requests) \in Nat
      BY <1>0
    <3> QED
      BY <1>0, <2>1, <2>2, <3>1
  <2> QED
    BY <2>1, <2>2, <2>3, <2>7, <2>8, <2>9, ArrivalKeeps
<1>2. CASE ReaderSend
  <2>1. /\ reader.pc = "sending" /\ frames = <<>> /\ frames' = reader.frame
        /\ reader' = [pc |-> "reading", frame |-> <<>>]
        /\ UNCHANGED <<wire, loop, live, permits, ops, responses, writer, registered>>
    BY <1>2 DEF ReaderSend
  <2> DEFINE x == <<reader.frame[1].id, reader.frame[1].tag>>
  <2>2. Items(reader.frame) = {reader.frame[1]}
    BY <1>0, <2>1, AtMostOne
  <2>3. Items(reader'.frame) = {} /\ Items(frames') = {reader.frame[1]}
    BY <2>1, <2>2 DEF Items
  <2>4. /\ x \in Entries[2] /\ Entries'[2] \subseteq Entries[2] \ {x}
        /\ Entries'[3] \subseteq Entries[3] \cup {x}
    <3>1. Names(Items(reader.frame)) = {x} /\ Names(Items(reader'.frame)) = {}
          /\ Names(Items(frames')) = {x}
      BY <2>2, <2>3, NamesAre
    <3> HIDE DEF x
    <3>2. Entries[2] = {x} /\ Entries'[2] = {} /\ Entries'[3] = {x}
      BY <3>1, EntriesAre, EntriesNext
    <3> QED
      BY <3>2
  <2>5. \A k \in Places \ {2, 3} : Entries'[k] \subseteq Entries[k]
    BY <2>1 DEF Entries, Places, InWriter, wire
  <2> HIDE DEF x
  <2>6. Apart(Entries') /\ \A k \in Places : Entries'[k] \subseteq Owed
    <3>1. 2 \in Places /\ 3 \in Places /\ 2 # 3
      BY DEF Places
    <3>2. Apart(Entries) /\ \A k \in Places : Entries[k] \subseteq Owed
      BY <1>0
    <3> QED
      BY <3>1, <3>2, <2>4, <2>5, FrameMoves
  <2>7. reader' \in Reader /\ Len(reader'.frame) = IF reader'.pc = "sending" THEN 1 ELSE 0
    BY <2>1 DEF Reader
  <2>8. frames' \in Seq(Frame) /\ Len(frames') <= 1 /\ loop.pc \notin {"hello", "greeting"}
    <3>1. reader.frame \in Seq(Frame) /\ Len(reader.frame) = 1 /\ reader.pc # "none"
      BY <1>0, <2>1
    <3>2. frames' \in Seq(Frame) /\ Len(frames') = 1
      BY <2>1, <3>1
    <3>3. loop.pc \notin {"hello", "greeting"}
      BY <1>0, <3>1
    <3> QED
      BY <3>2, <3>3
  <2>9. /\ requests' \in Seq(Frame) /\ Len(requests') <= Buffer /\ clientOpen' \in BOOLEAN
        /\ Distinct(requests') /\ replies' = replies
    BY <1>0, <2>1 DEF wire
  <2>10. \A f \in Items(reader'.frame) \cup Items(frames') : f.kind # "broken"
    BY <2>2, <2>3 DEF ConnectionInv, StagesRight
  <2> QED
    BY <2>1, <2>6, <2>7, <2>8, <2>9, <2>10, ArrivalKeeps
<1>3. CASE ReaderEof \/ ReaderAborted
  <2>1. /\ reader.pc # "none" /\ reader' = [pc |-> "ended", frame |-> <<>>]
        /\ UNCHANGED <<wire, frames, loop, live, permits, ops, responses, writer, registered>>
    BY <1>3 DEF ReaderEof, ReaderAborted
  <2>2. Items(reader'.frame) = {}
    BY <2>1 DEF Items
  <2>3. Entries'[2] = {}
    BY <2>2, NamesAre, EntriesNext
  <2>4. \A k \in Places \ {2} : Entries'[k] \subseteq Entries[k]
    BY <2>1 DEF Entries, Places, InWriter, wire
  <2>5. Apart(Entries') /\ \A k \in Places : Entries'[k] \subseteq Owed
    <3>1. \A k \in Places : Entries'[k] \subseteq Entries[k]
      BY <2>3, <2>4
    <3> QED
      BY <1>0, <3>1, FramesStay
  <2>6. reader' \in Reader /\ Len(reader'.frame) = IF reader'.pc = "sending" THEN 1 ELSE 0
    BY <2>1 DEF Reader
  <2>7. /\ requests' \in Seq(Frame) /\ Len(requests') <= Buffer /\ clientOpen' \in BOOLEAN
        /\ Distinct(requests') /\ replies' = replies
        /\ frames' \in Seq(Frame) /\ Len(frames') <= 1 /\ loop.pc \notin {"hello", "greeting"}
    BY <1>0, <2>1 DEF wire
  <2>8. \A f \in Items(reader'.frame) \cup Items(frames') : f.kind # "broken"
    BY <2>1, <2>2 DEF ConnectionInv, StagesRight
  <2> QED
    BY <2>1, <2>5, <2>6, <2>7, <2>8, ArrivalKeeps
<1> QED
  BY <1>1, <1>2, <1>3 DEF ReaderStep

-----------------------------------------------------------------------------
(* The peer.                                                               *)

\* The requests it waits for are finitely many, numbered up to "sent".
LEMMA OutstandingFinite ==
  ASSUME PeerRight
  PROVE  IsFiniteSet(Outstanding) /\ Cardinality(Outstanding) \in Nat /\ sent \in Nat
<1>1. sent \in Nat /\ Outstanding \in SUBSET (1 .. sent)
  BY WireAssumption DEF PeerRight, Outstanding
<1>2. IsFiniteSet(1 .. sent)
  BY <1>1, FS_Interval
<1> QED
  BY <1>1, <1>2, FS_Subset, FS_CardinalityType

\* Only the ends of the connection change when the peer does something.
LEMMA PeerKeeps ==
  ASSUME ConnectionInv, UNCHANGED server, WireTypeOK', PeerRight', FlowRight', PoliteRight'
  PROVE  ConnectionInv'
<1>1. TypesRight' /\ StagesRight'
  BY DEF ConnectionInv, TypesRight, StagesRight, server
<1>2. PermitsRight'
  BY DEF ConnectionInv, PermitsRight, InLoop, InWriter, server
<1>3. LiveRight'
  <2>1. InWriter' = InWriter /\ Serving' = Serving
    BY DEF Serving, InWriter, server
  <2>2. /\ Entries'[4] = Entries[4] /\ Entries'[5] = Entries[5]
        /\ Entries'[6] = Entries[6] /\ Entries'[7] = Entries[7]
    BY <2>1, EntriesAre, EntriesNext, Zenon DEF server
  <2>3. Middle' = Middle /\ live' = live
    BY <2>2 DEF Middle, server
  <2> QED
    BY <2>1, <2>3 DEF ConnectionInv, LiveRight
<1> QED
  BY <1>1, <1>2, <1>3 DEF ConnectionInv

\* Sending: the new frame has a tag that is nowhere yet.
LEMMA SendKeeps ==
  ASSUME ConnectionInv, NEW f \in Frame, f.tag = sent + 1, sent < MaxTags, Len(requests) < Buffer,
         requests' = Append(requests, f), Sends(f), UNCHANGED <<replies, clientOpen, server>>
  PROVE  ConnectionInv'
<1> DEFINE id  == f.id
           tag == f.tag
           x   == <<id, tag>>
<1>1. /\ sent' = tag
      /\ waiting' = [t \in Outstanding \cup {tag} |-> IF t = tag THEN id ELSE waiting[t]]
      /\ undue' = undue \ Causes(id)
  BY DEF Sends
<1>2. /\ sent \in Nat /\ MaxTags \in Nat /\ IsFiniteSet(Outstanding) /\ Cardinality(Outstanding) \in Nat
      /\ Outstanding \subseteq 1 .. sent /\ \A t \in Outstanding : waiting[t] \in RequestIds
      /\ tag \in Tags /\ id \in RequestIds /\ tag = sent + 1
  BY OutstandingFinite, WireAssumption DEF ConnectionInv, PeerRight, Outstanding, Frame
<1>3. tag \notin Outstanding
  BY <1>2
<1>4. f \in Frame /\ f.id = id /\ f.tag = tag
  OBVIOUS
<1> HIDE DEF id, tag
<1>5. /\ Apart(Entries) /\ \A k \in Places : Entries[k] \subseteq Owed
      /\ Distinct(requests) /\ Distinct(replies)
      /\ \A o, p \in ops : o.tag = p.tag => o = p
      /\ requests \in Seq(Frame) /\ Len(requests) \in Nat /\ Buffer \in Nat
  BY WireAssumption DEF ConnectionInv, FlowRight, TypesRight, WireTypeOK
<1>6. \A k \in Places : x \notin Entries[k]
  <2>1. x \notin Owed
    BY <1>3, OwedIs
  <2> QED
    BY <1>5, <2>1
<1>7. \A e \in Items(requests) : e.tag # f.tag
  <2>1. SUFFICES ASSUME NEW e \in Items(requests), e.tag = tag
                 PROVE  FALSE
    BY <1>4
  <2>2. <<e.id, e.tag>> \in Entries[1] /\ 1 \in Places
    BY EntriesAre DEF Names, Places
  <2>3. e.tag \in Outstanding
    BY <1>5, <2>2, OwedIs
  <2> QED
    BY <1>3, <2>1, <2>3
<1>8. /\ requests' \in Seq(Frame) /\ Len(requests') = Len(requests) + 1
      /\ Items(requests') = Items(requests) \cup {f} /\ Distinct(requests')
  BY <1>1, <1>4, <1>5, <1>7, Added
<1>9. DOMAIN waiting' = Outstanding \cup {tag} /\ waiting'[tag] = id
      /\ \A t \in Outstanding : waiting'[t] = waiting[t]
  BY <1>1, <1>3
<1>10. WireTypeOK'
  <2>1. Len(requests') <= Buffer
    BY <1>1, <1>5, <1>8
  <2> QED
    BY <1>1, <1>8, <2>1 DEF ConnectionInv, TypesRight, WireTypeOK
<1>11. PeerRight'
  <2>1. sent' \in 0 .. MaxTags /\ DOMAIN waiting' \subseteq 1 .. sent'
    BY <1>1, <1>2, <1>9
  <2>2. waiting' \in [DOMAIN waiting' -> RequestIds]
    <3>1. \A t \in Outstanding \cup {tag} : (IF t = tag THEN id ELSE waiting[t]) \in RequestIds
      BY <1>2
    <3> QED
      BY <1>1, <1>9, <3>1
  <2>3. undue' \subseteq Refusals
    BY <1>1 DEF ConnectionInv, PeerRight
  <2> QED
    BY <2>1, <2>2, <2>3 DEF PeerRight
<1>12. Owed' = Owed \cup {x}
  BY <1>3, <1>9 DEF Owed, Outstanding
<1>13. FlowRight'
  <2>1. Entries'[1] = Entries[1] \cup {x}
    <3>1. Names(Items(requests')) = Names(Items(requests)) \cup {<<f.id, f.tag>>}
      BY <1>8, NamesAre
    <3>2. <<f.id, f.tag>> = x
      BY <1>4
    <3> QED
      BY <3>1, <3>2, EntriesAre, EntriesNext
  <2>2. \A k \in Places \ {1} : Entries'[k] = Entries[k]
    BY <1>1 DEF Entries, Places, InWriter, server
  <2> HIDE DEF x
  <2>3. Apart(Entries')
    <3>1. SUFFICES ASSUME NEW k \in Places, NEW l \in Places, k # l
                   PROVE  Entries'[k] \cap Entries'[l] = {}
      BY DEF Apart
    <3>2. Entries[k] \cap Entries[l] = {}
      BY <1>5, <3>1 DEF Apart
    <3> QED
      BY <1>6, <2>1, <2>2, <3>1, <3>2
  <2>4. \A k \in Places : Entries'[k] \subseteq Owed'
    BY <1>5, <1>12, <2>1, <2>2
  <2>5. Distinct(replies') /\ \A o, p \in ops' : o.tag = p.tag => o = p
    BY <1>1, <1>5 DEF server
  <2> QED
    BY <1>8, <2>3, <2>4, <2>5 DEF FlowRight
<1>14. PoliteRight'
  <2>1. undue' \subseteq undue
    BY <1>1
  <2>2. ASSUME "overloaded" \in undue'
        PROVE  Cardinality(Outstanding') <= MaxInFlight
    <3>1. "overloaded" \notin Causes(id)
      BY <1>1, <2>2
    <3>2. Cardinality(Outstanding) < MaxInFlight
      BY <1>2, <3>1, ConnectionAssumption DEF Causes, Refusals
    <3>3. Cardinality(Outstanding \cup {tag}) = Cardinality(Outstanding) + 1
      BY <1>2, <1>3, FS_AddElement
    <3>4. Outstanding' = Outstanding \cup {tag}
      BY <1>9 DEF Outstanding
    <3> QED
      BY <1>2, <3>2, <3>3, <3>4, ConnectionAssumption
  <2>3. ASSUME "duplicate" \in undue'
        PROVE  \A t, u \in Outstanding' : waiting'[t] = waiting'[u] => t = u
    <3>1. \A t, u \in Outstanding : waiting[t] = waiting[u] => t = u
      BY <2>1, <2>3 DEF ConnectionInv, PoliteRight
    <3>2. "duplicate" \notin Causes(id)
      BY <1>1, <2>3
    <3>3. \A t \in Outstanding : waiting[t] # id
      BY <3>2 DEF Causes, Refusals
    <3> QED
      BY <1>9, <3>1, <3>3 DEF Outstanding
  <2>4. UNCHANGED <<replies, loop, responses, writer>>
    BY DEF server
  <2> QED
    BY <2>1, <2>2, <2>3, <2>4 DEF ConnectionInv, PoliteRight
<1> QED
  BY <1>1, <1>10, <1>11, <1>13, <1>14, PeerKeeps

\* Receiving: what is read is nowhere else, so that nothing else ceases to be
\* waited for.
LEMMA ReadKeeps ==
  ASSUME ConnectionInv, replies # <<>>, replies' = Tail(replies), Reads,
         UNCHANGED <<requests, server>>, clientOpen' \in BOOLEAN
  PROVE  ConnectionInv'
<1> DEFINE r == Head(replies)
           x == <<r.id, r.tag>>
<1>1. /\ replies # <<>> /\ replies' = Tail(replies)
      /\ waiting' = [t \in Outstanding \ {r.tag} |-> waiting[t]]
      /\ UNCHANGED <<requests, server, sent, undue>>
  BY DEF Reads
<1>2. /\ Apart(Entries) /\ \A k \in Places : Entries[k] \subseteq Owed
      /\ Distinct(requests) /\ Distinct(replies)
      /\ \A o, p \in ops : o.tag = p.tag => o = p
      /\ replies \in Seq(Reply) /\ Len(replies) \in Nat /\ Len(replies) <= Buffer /\ Buffer \in Nat
  BY WireAssumption DEF ConnectionInv, FlowRight, TypesRight, WireTypeOK
<1>3. /\ replies' \in Seq(Reply) /\ Len(replies') = Len(replies) - 1
      /\ r \in Items(replies) /\ Items(replies') \subseteq Items(replies)
      /\ \A e \in Items(replies') : e.tag # r.tag
      /\ Distinct(replies')
  BY <1>1, <1>2, Taken
<1> HIDE DEF r
<1>4. DOMAIN waiting' = Outstanding \ {r.tag} /\ \A t \in Outstanding \ {r.tag} : waiting'[t] = waiting[t]
  BY <1>1
<1>5. x \in Entries[9] /\ 9 \in Places
  BY <1>3, EntriesAre DEF Names, Places
<1>6. WireTypeOK'
  <2>1. Len(replies') <= Buffer
    BY <1>2, <1>3
  <2> QED
    BY <1>1, <1>3, <2>1 DEF ConnectionInv, TypesRight, WireTypeOK
<1>7. PeerRight'
  BY <1>1, <1>4 DEF ConnectionInv, PeerRight, Outstanding
<1>8. Owed' = Owed \ {x}
  <2>1. waiting[r.tag] = r.id /\ r.tag \in Outstanding
    BY <1>2, <1>5, OwedIs
  <2> QED
    BY <1>4, <2>1 DEF Owed, Outstanding
<1>9. FlowRight'
  <2>1. Entries'[9] \subseteq Entries[9] \ {x}
    <3>1. Names(Items(replies')) \subseteq Names(Items(replies)) \ {x}
      BY <1>3 DEF Names
    <3> QED
      BY <3>1, EntriesAre, EntriesNext, Zenon
  <2>2. \A k \in Places \ {9} : Entries'[k] = Entries[k]
    BY <1>1 DEF Entries, Places, InWriter, server
  <2> HIDE DEF x
  <2>3. \A k \in Places : Entries'[k] \subseteq Entries[k] \ {x}
    BY <1>2, <1>5, <2>1, <2>2 DEF Apart
  <2>4. Apart(Entries') /\ \A k \in Places : Entries'[k] \subseteq Owed
    <3>1. \A k \in Places : Entries'[k] \subseteq Entries[k]
      BY <2>3
    <3> QED
      BY <1>2, <3>1, FramesStay
  <2>5. \A k \in Places : Entries'[k] \subseteq Owed'
    BY <1>8, <2>3, <2>4
  <2>6. Distinct(requests') /\ \A o, p \in ops' : o.tag = p.tag => o = p
    BY <1>1, <1>2 DEF server
  <2> QED
    BY <1>3, <2>4, <2>5, <2>6 DEF FlowRight
<1>10. PoliteRight'
  <2>1. Outstanding' = Outstanding \ {r.tag}
    BY <1>4 DEF Outstanding
  <2>2. ASSUME "overloaded" \in undue
        PROVE  Cardinality(Outstanding') <= MaxInFlight
    <3>1. IsFiniteSet(Outstanding) /\ Cardinality(Outstanding) \in Nat
      BY OutstandingFinite DEF ConnectionInv
    <3>2. Outstanding' \in SUBSET Outstanding
      BY <2>1
    <3>3. IsFiniteSet(Outstanding') /\ Cardinality(Outstanding') <= Cardinality(Outstanding)
      BY <3>1, <3>2, FS_Subset
    <3>4. Cardinality(Outstanding') \in Nat
      BY <3>3, FS_CardinalityType
    <3>5. Cardinality(Outstanding) <= MaxInFlight
      BY <2>2 DEF ConnectionInv, PoliteRight
    <3> QED
      BY <3>1, <3>3, <3>4, <3>5, ConnectionAssumption
  <2>3. ASSUME "duplicate" \in undue
        PROVE  \A t, u \in Outstanding' : waiting'[t] = waiting'[u] => t = u
    <3>1. \A t, u \in Outstanding : waiting[t] = waiting[u] => t = u
      BY <2>3 DEF ConnectionInv, PoliteRight
    <3> QED
      BY <1>4, <2>1, <3>1
  <2>4. UNCHANGED <<loop, responses, writer, undue>>
    BY <1>1 DEF server
  <2> QED
    BY <1>3, <2>2, <2>3, <2>4 DEF ConnectionInv, PoliteRight
<1> QED
  BY <1>1, <1>6, <1>7, <1>9, <1>10, PeerKeeps

\* Closing changes neither end's frames.
LEMMA CloseKeeps ==
  ASSUME ConnectionInv, clientOpen' \in BOOLEAN, UNCHANGED <<requests, replies, server, peer>>
  PROVE  ConnectionInv'
<1>1. clientOpen' \in BOOLEAN /\ UNCHANGED <<requests, replies, server, peer>>
  OBVIOUS
<1>2. WireTypeOK' /\ PeerRight' /\ PoliteRight'
  BY <1>1 DEF ConnectionInv, TypesRight, WireTypeOK, PeerRight, PoliteRight, Outstanding, peer, server
<1>3. Entries' = Entries /\ Owed' = Owed
  BY <1>1 DEF Entries, InWriter, Owed, Outstanding, peer, server
<1>4. FlowRight'
  BY <1>1, <1>3 DEF ConnectionInv, FlowRight, server
<1> QED
  BY <1>1, <1>2, <1>4, PeerKeeps

-----------------------------------------------------------------------------
(* What a step of the broker leaves to show.                               *)

\* The peer's variables stay: the frames have to be accounted for.
LEMMA FlowKeeps ==
  ASSUME UNCHANGED peer, Apart(Entries'), \A k \in Places : Entries'[k] \subseteq Owed,
         Distinct(requests'), Distinct(replies'), \A o, p \in ops' : o.tag = p.tag => o = p
  PROVE  FlowRight'
<1>1. Owed' = Owed
  BY DEF Owed, Outstanding, peer
<1> QED
  BY <1>1 DEF FlowRight

\* A refusal of a polite peer must not come up.
LEMMA PoliteKeeps ==
  ASSUME PoliteRight, UNCHANGED peer,
         \A r \in Items(replies') : r.status \notin undue,
         writer'.pc # "ended" =>
           \A r \in Items(loop'.response) \cup Items(responses') \cup Items(writer'.response) :
             r.status \notin undue
  PROVE  PoliteRight'
  BY DEF PoliteRight, Outstanding, peer

\* Fewer responses, no refusal that was not there.
LEMMA PoliteSame ==
  ASSUME PoliteRight, UNCHANGED <<peer, replies>>, writer.pc = "ended" => writer'.pc = "ended",
         Items(loop'.response) \cup Items(responses') \cup Items(writer'.response)
           \subseteq Items(loop.response) \cup Items(responses) \cup Items(writer.response)
  PROVE  PoliteRight'
<1>1. \A r \in Items(replies') : r.status \notin undue
  BY DEF PoliteRight
<1>2. writer'.pc # "ended" =>
        \A r \in Items(loop'.response) \cup Items(responses') \cup Items(writer'.response) :
          r.status \notin undue
  BY DEF PoliteRight
<1> QED
  BY <1>1, <1>2, PoliteKeeps, Zenon

\* All that makes up the invariant, but the peer's variables.
LEMMA ServerKeeps ==
  ASSUME ConnectionInv, UNCHANGED peer, TypesRight', StagesRight', PermitsRight', FlowRight',
         LiveRight', PoliteRight'
  PROVE  ConnectionInv'
<1>1. PeerRight'
  BY DEF ConnectionInv, PeerRight, peer
<1> QED
  BY <1>1 DEF ConnectionInv

-----------------------------------------------------------------------------
(* The frame loop.                                                         *)

\* It goes from one counter to another, holding nothing.
LEMMA LoopTurns ==
  ASSUME ConnectionInv, UNCHANGED peer,
         NEW pc \in {"select", "leaving", "draining", "done"},
         loop.pc \in {"select", "receipt", "leaving", "draining"},
         pc = "select" => loop.pc = "receipt" /\ ~loop.close,
         LoopAt(pc), UNCHANGED <<wire, reader, frames, live, permits, ops, responses, writer>>,
         registered' \in BOOLEAN
  PROVE  ConnectionInv'
<1>1. loop' = [pc |-> pc, response |-> loop.response, close |-> loop.close, receipt |-> loop.receipt]
  BY TasksAre DEF LoopAt, ConnectionInv
<1>2. loop.response = <<>> /\ loop.close \in BOOLEAN /\ loop.receipt \in {"none", "sent", "dropped"}
  <2>1. Len(loop.response) = 0 /\ loop.response \in Seq(Response)
    BY DEF ConnectionInv, TypesRight, Loop
  <2> QED
    BY <2>1, AtMostOne, TasksAre DEF ConnectionInv
<1>3. loop' \in Loop /\ Len(loop'.response) = 0 /\ loop'.pc = pc /\ loop'.response = loop.response
      /\ loop'.close = loop.close
  BY <1>1, <1>2 DEF Loop
<1>4. TypesRight'
  BY <1>3 DEF ConnectionInv, TypesRight, WireTypeOK, wire
<1>5. StagesRight'
  BY <1>3 DEF ConnectionInv, StagesRight
<1>6. InLoop' = InLoop /\ InWriter' = InWriter
  BY <1>2, <1>3 DEF InLoop, InWriter
<1>7. PermitsRight'
  BY <1>6 DEF ConnectionInv, PermitsRight
<1>8. Entries' = Entries
  BY <1>3, <1>6 DEF Entries, wire
<1>9. FlowRight'
  <2>1. /\ Apart(Entries') /\ \A k \in Places : Entries'[k] \subseteq Owed
        /\ Distinct(requests') /\ Distinct(replies') /\ \A o, p \in ops' : o.tag = p.tag => o = p
    BY <1>8 DEF ConnectionInv, FlowRight, wire
  <2> QED
    BY <2>1, FlowKeeps
<1>10. LiveRight'
  <2>1. Serving' => Serving
    BY <1>3 DEF Serving
  <2>2. Middle' = Middle
    BY <1>8 DEF Middle
  <2> QED
    BY <2>1, <2>2 DEF ConnectionInv, LiveRight
<1>11. PoliteRight'
  BY <1>3, PoliteSame DEF ConnectionInv, wire
<1> QED
  BY <1>4, <1>5, <1>7, <1>9, <1>10, <1>11, ServerKeeps

\* select!, the receipt, the aborts and the last join.
LEMMA LoopTurnsKeep ==
  ASSUME ConnectionInv, UNCHANGED peer,
         LoopSeesEnd \/ LoopReceipt \/ LoopLeave \/ LoopDone
  PROVE  ConnectionInv'
<1>1. registered \in BOOLEAN /\ loop.close \in BOOLEAN
  BY TasksAre DEF ConnectionInv, TypesRight
<1>2. CASE LoopSeesEnd
  BY <1>1, <1>2, LoopTurns DEF LoopSeesEnd
<1>3. CASE LoopReceipt
  <2>1. CASE loop.close
    BY <1>1, <1>3, <2>1, LoopTurns DEF LoopReceipt
  <2>2. CASE ~loop.close
    BY <1>1, <1>3, <2>2, LoopTurns DEF LoopReceipt
  <2> QED
    BY <2>1, <2>2
<1>4. CASE LoopLeave
  BY <1>4, LoopTurns DEF LoopLeave
<1>5. CASE LoopDone
  BY <1>1, <1>5, LoopTurns DEF LoopDone
<1> QED
  BY <1>2, <1>3, <1>4, <1>5

\* Before the frame loop runs nothing is held but, perhaps, the answer to HELLO.
LEMMA BeforeLoop ==
  ASSUME ConnectionInv, loop.pc \in {"hello", "greeting"}
  PROVE  /\ reader.pc = "none" /\ reader.frame = <<>> /\ writer.pc = "none" /\ writer.response = <<>>
         /\ frames = <<>> /\ responses = <<>> /\ live = {} /\ ops = {} /\ permits = MaxInFlight
<1>1. /\ reader.pc = "none" /\ writer.pc = "none"
      /\ frames = <<>> /\ responses = <<>> /\ live = {} /\ ops = {}
  BY DEF ConnectionInv, StagesRight
<1>2. reader.frame = <<>> /\ writer.response = <<>>
  <2>1. Len(reader.frame) = 0 /\ Len(writer.response) = 0
    BY <1>1 DEF ConnectionInv, TypesRight
  <2> QED
    BY <2>1, AtMostOne, TasksAre DEF ConnectionInv
<1>3. permits = MaxInFlight
  <2>1. InLoop = <<>> /\ InWriter = <<>>
    BY <1>1 DEF InLoop, InWriter
  <2>2. Held(<<>>) = 0
    BY DEF Held
  <2>3. permits + 0 + 0 + 0 + 0 = MaxInFlight /\ permits \in Nat
    BY <1>1, <2>1, <2>2, FS_EmptySet DEF ConnectionInv, PermitsRight, TypesRight
  <2> QED
    BY <2>3
<1> QED
  BY <1>1, <1>2, <1>3

\* Then the connection ends: nothing is left to give back.
LEMMA ClosedKeeps ==
  ASSUME ConnectionInv, UNCHANGED <<peer, frames, live, permits, ops, responses, registered>>,
         loop.pc \in {"hello", "greeting"}, Closed, WireTypeOK',
         Distinct(requests'), Distinct(replies'),
         Apart(Entries'), \A k \in Places : Entries'[k] \subseteq Owed,
         \A r \in Items(replies') : r.status \notin undue
  PROVE  ConnectionInv'
<1>1. /\ reader' \in Reader /\ reader'.pc = "ended" /\ reader'.frame = <<>>
      /\ loop' \in Loop /\ loop'.pc = "done" /\ loop'.response = <<>>
      /\ writer' \in Writer /\ writer'.pc = "ended" /\ writer'.response = <<>>
  BY ClosedTypes DEF ConnectionInv
<1>2. Len(<<>>) = 0 /\ Items(<<>>) = {}
  BY DEF Items
<1>3. TypesRight'
  BY <1>1, <1>2 DEF ConnectionInv, TypesRight
<1>4. StagesRight' /\ LiveRight'
  <2>1. \A f \in Items(reader'.frame) \cup Items(frames') : f.kind # "broken"
    BY <1>1, <1>2 DEF ConnectionInv, StagesRight
  <2> QED
    BY <1>1, <2>1 DEF StagesRight, LiveRight, Serving
<1>5. PermitsRight'
  <2>1. InLoop = <<>> /\ InWriter = <<>>
    BY BeforeLoop DEF InLoop, InWriter
  <2>2. InLoop' = <<>> /\ InWriter' = <<>>
    BY <1>1 DEF InLoop, InWriter
  <2> QED
    BY <2>1, <2>2 DEF ConnectionInv, PermitsRight
<1>6. FlowRight'
  <2>1. \A o, p \in ops' : o.tag = p.tag => o = p
    BY DEF ConnectionInv, FlowRight
  <2> QED
    BY <2>1, FlowKeeps
<1>7. PoliteRight'
  <2>1. writer'.pc # "ended" =>
          \A r \in Items(loop'.response) \cup Items(responses') \cup Items(writer'.response) :
            r.status \notin undue
    BY <1>1
  <2> QED
    BY <2>1, PoliteKeeps DEF ConnectionInv
<1> QED
  BY <1>3, <1>4, <1>5, <1>6, <1>7, ServerKeeps

\* The answer to HELLO is no refusal.
LEMMA GreetingIs ==
  ASSUME NEW f \in Frame
  PROVE  f.kind # "broken" => Greeting(f) \in Statuses \ Refusals
  BY DEF Frame, Kinds, Greeting, Statuses, Refusals

\* HELLO is read and answered, or the frame is not even that.
LEMMA HelloReadKeeps ==
  ASSUME ConnectionInv, UNCHANGED peer, HelloRead
  PROVE  ConnectionInv'
<1> DEFINE f == Head(requests)
           x == <<f.id, f.tag>>
           answer == [id |-> f.id, tag |-> f.tag, status |-> Greeting(f),
                      permit |-> FALSE, receipt |-> FALSE]
<1>1. /\ loop.pc = "hello" /\ requests # <<>> /\ requests' = Tail(requests)
      /\ IF f.kind = "broken" THEN Closed
         ELSE /\ loop' = [loop EXCEPT !.pc = "greeting", !.response = <<answer>>,
                                      !.close = answer.status # "answer"]
              /\ UNCHANGED <<reader, writer>>
      /\ UNCHANGED <<replies, clientOpen, frames, live, permits, ops, responses, registered>>
  BY DEF HelloRead
<1>2. /\ Apart(Entries) /\ \A k \in Places : Entries[k] \subseteq Owed
      /\ Distinct(requests) /\ Distinct(replies) /\ requests \in Seq(Frame)
      /\ Len(requests) \in Nat /\ Len(requests) <= Buffer /\ Buffer \in Nat
      /\ \A o, p \in ops : o.tag = p.tag => o = p
  BY WireAssumption DEF ConnectionInv, FlowRight, TypesRight, WireTypeOK
<1>3. /\ requests' \in Seq(Frame) /\ Len(requests') = Len(requests) - 1
      /\ f \in Frame /\ f \in Items(requests) /\ Items(requests') \subseteq Items(requests)
      /\ \A e \in Items(requests') : e.tag # f.tag
      /\ Distinct(requests')
  BY <1>1, <1>2, Taken
<1>4. WireTypeOK'
  <2>1. Len(requests') <= Buffer
    BY <1>2, <1>3
  <2> QED
    BY <1>1, <1>3, <2>1 DEF ConnectionInv, TypesRight, WireTypeOK
<1>5. x \in Entries[1] /\ Entries'[1] \subseteq Entries[1] \ {x}
  <2>1. Names(Items(requests')) \subseteq Names(Items(requests)) \ {x}
    BY <1>3 DEF Names
  <2>2. x \in Names(Items(requests))
    BY <1>3 DEF Names
  <2> QED
    BY <2>1, <2>2, EntriesAre, EntriesNext, Zenon
<1>6. /\ reader.frame = <<>> /\ writer.pc = "none" /\ writer.response = <<>>
      /\ frames = <<>> /\ responses = <<>> /\ live = {} /\ ops = {}
  BY <1>1, BeforeLoop
<1>7. Distinct(replies')
  BY <1>1, <1>2
<1> HIDE DEF f
<1>8. CASE f.kind = "broken"
  <2>1. /\ reader'.frame = <<>> /\ loop'.response = <<>> /\ writer'.pc = "ended" /\ Closed
    BY <1>1, <1>8, ClosedTypes DEF ConnectionInv
  <2>2. \A k \in Places : Entries'[k] \subseteq Entries[k]
    <3>1. Items(<<>>) = {} /\ Names({}) = {}
      BY DEF Items, Names
    <3>2. Names(Items(InWriter')) = {}
      BY <2>1, <3>1 DEF InWriter
    <3>3. /\ Entries'[2] \subseteq Entries[2] /\ Entries'[4] \subseteq Entries[4]
          /\ Entries'[7] \subseteq Entries[7] /\ Entries'[8] \subseteq Entries[8]
      BY <2>1, <3>1, <3>2, EntriesNext
    <3>4. /\ Entries'[3] \subseteq Entries[3] /\ Entries'[5] \subseteq Entries[5]
          /\ Entries'[6] \subseteq Entries[6] /\ Entries'[9] \subseteq Entries[9]
          /\ Entries'[1] \subseteq Entries[1]
      BY <1>1, <1>5, EntriesAre, EntriesNext
    <3> QED
      BY <3>3, <3>4 DEF Places
  <2>3. Apart(Entries') /\ \A k \in Places : Entries'[k] \subseteq Owed
    BY <1>2, <2>2, FramesStay
  <2>4. \A r \in Items(replies') : r.status \notin undue
    BY <1>1 DEF ConnectionInv, PoliteRight
  <2> QED
    BY <1>1, <1>3, <1>4, <1>7, <2>1, <2>3, <2>4, ClosedKeeps
<1>9. CASE f.kind # "broken"
  <2>1. /\ loop' = [loop EXCEPT !.pc = "greeting", !.response = <<answer>>,
                                !.close = answer.status # "answer"]
        /\ UNCHANGED <<reader, writer>>
    BY <1>1, <1>9
  <2>2. /\ answer \in Response /\ answer.status \notin Refusals
        /\ answer.id = f.id /\ answer.tag = f.tag /\ undue \subseteq Refusals
    BY <1>3, <1>9, GreetingIs, NamesKeep DEF ConnectionInv, PeerRight
  <2> HIDE DEF answer
  <2>3. loop' = [pc |-> "greeting", response |-> <<answer>>, close |-> answer.status # "answer",
                 receipt |-> loop.receipt]
    BY <2>1, TasksAre DEF ConnectionInv
  <2>4. /\ loop' \in Loop /\ loop'.pc = "greeting" /\ loop'.response = <<answer>>
        /\ Len(loop'.response) = 1 /\ Items(loop'.response) = {answer}
    <3>1. <<answer>> \in Seq(Response) /\ Len(<<answer>>) = 1 /\ Items(<<answer>>) = {answer}
      BY <2>2 DEF Items
    <3>2. loop.receipt \in {"none", "sent", "dropped"}
      BY TasksAre DEF ConnectionInv
    <3> QED
      BY <2>3, <3>1, <3>2 DEF Loop
  <2>5. TypesRight'
    BY <1>1, <1>4, <2>1, <2>4 DEF ConnectionInv, TypesRight
  <2>6. StagesRight' /\ LiveRight'
    BY <1>1, <2>1, <2>4 DEF ConnectionInv, StagesRight, LiveRight, Serving
  <2>7. PermitsRight'
    <3>1. InLoop' = InLoop /\ InWriter' = InWriter
      BY <1>1, <2>1, <2>4 DEF InLoop, InWriter
    <3> QED
      BY <1>1, <3>1 DEF ConnectionInv, PermitsRight
  <2>8. FlowRight'
    <3>1. Entries'[4] \subseteq Entries[4] \cup {x}
      <4>1. Names(Items(loop'.response)) = {x}
        BY <2>2, <2>4, NamesAre
      <4> QED
        BY <4>1, EntriesNext
    <3>2. \A k \in Places \ {1, 4} : Entries'[k] \subseteq Entries[k]
      BY <1>1, <2>1 DEF Entries, Places, InWriter
    <3> HIDE DEF x
    <3>3. 1 \in Places /\ 4 \in Places /\ 1 # 4
      BY DEF Places
    <3>4. Apart(Entries') /\ \A k \in Places : Entries'[k] \subseteq Owed
      <4>1. x \in Entries[1] /\ Entries'[1] \subseteq Entries[1] \ {x}
        BY <1>5
      <4>2. Apart(Entries) /\ \A k \in Places : Entries[k] \subseteq Owed
        BY <1>2
      <4> QED
        BY <4>1, <4>2, <3>1, <3>2, <3>3, FrameMoves
    <3>5. \A o, p \in ops' : o.tag = p.tag => o = p
      BY <1>1, <1>2
    <3> QED
      BY <1>3, <1>7, <3>4, <3>5, FlowKeeps
  <2>9. PoliteRight'
    <3>1. \A r \in Items(replies') : r.status \notin undue
      BY <1>1 DEF ConnectionInv, PoliteRight
    <3>2. Items(responses') = {} /\ Items(writer'.response) = {}
      BY <1>1, <1>6, <2>1 DEF Items
    <3>3. writer'.pc # "ended" =>
            \A r \in Items(loop'.response) \cup Items(responses') \cup Items(writer'.response) :
              r.status \notin undue
      BY <2>2, <2>4, <3>2
    <3> QED
      BY <3>1, <3>3, PoliteKeeps DEF ConnectionInv
  <2> QED
    BY <2>5, <2>6, <2>7, <2>8, <2>9, ServerKeeps
<1> QED
  BY <1>8, <1>9

\* One tag, one place.
LEMMA Elsewhere ==
  ASSUME FlowRight, NEW k \in Places, NEW l \in Places, k # l,
         NEW i, NEW t, <<i, t>> \in Entries[k], NEW j, NEW u, <<j, u>> \in Entries[l]
  PROVE  t # u
<1>1. SUFFICES ASSUME t = u
               PROVE  FALSE
  OBVIOUS
<1>2. <<i, t>> \in Owed /\ <<j, u>> \in Owed
  BY DEF FlowRight
<1>3. i = j
  BY <1>1, <1>2, OwedIs
<1>4. Entries[k] \cap Entries[l] = {}
  BY DEF FlowRight, Apart
<1> QED
  BY <1>1, <1>3, <1>4

\* A reply that is written has a tag that no reply bears yet, so the replies
\* stay distinct.
LEMMA ReplyIsNew ==
  ASSUME ConnectionInv, NEW k \in Places, k # 9, NEW r \in Response,
         <<r.id, r.tag>> \in Entries[k], Len(replies) < Buffer
  PROVE  /\ Append(replies, ReplyOf(r)) \in Seq(Reply)
         /\ Len(Append(replies, ReplyOf(r))) <= Buffer
         /\ Items(Append(replies, ReplyOf(r))) = Items(replies) \cup {ReplyOf(r)}
         /\ Distinct(Append(replies, ReplyOf(r)))
         /\ Names(Items(Append(replies, ReplyOf(r)))) = Entries[9] \cup {<<r.id, r.tag>>}
<1> DEFINE y == ReplyOf(r)
<1>1. y \in Reply /\ y.id = r.id /\ y.tag = r.tag
  BY DEF ReplyOf, Response, Reply
<1>2. replies \in Seq(Reply) /\ Len(replies) \in Nat /\ Buffer \in Nat /\ Distinct(replies)
  BY WireAssumption DEF ConnectionInv, TypesRight, WireTypeOK, FlowRight
<1>3. \A e \in Items(replies) : e.tag # y.tag
  <2>1. SUFFICES ASSUME NEW e \in Items(replies)
                 PROVE  e.tag # r.tag
    BY <1>1
  <2>2. <<e.id, e.tag>> \in Entries[9] /\ 9 \in Places
    BY EntriesAre DEF Names, Places
  <2> QED
    BY <2>2, Elsewhere DEF ConnectionInv
<1> HIDE DEF y
<1>4. /\ Append(replies, y) \in Seq(Reply) /\ Len(Append(replies, y)) = Len(replies) + 1
      /\ Items(Append(replies, y)) = Items(replies) \cup {y}
      /\ Distinct(Append(replies, y))
  BY <1>1, <1>2, <1>3, Added
<1>5. Len(Append(replies, y)) <= Buffer
  BY <1>2, <1>4
<1>6. Names(Items(Append(replies, y))) = Entries[9] \cup {<<r.id, r.tag>>}
  <2>1. Names(Items(Append(replies, y))) = Names(Items(replies)) \cup {<<y.id, y.tag>>}
    BY <1>4, NamesAre
  <2>2. <<y.id, y.tag>> = <<r.id, r.tag>>
    BY <1>1
  <2> QED
    BY <2>1, <2>2, EntriesAre
<1> QED
  BY <1>4, <1>5, <1>6 DEF y

\* The answer to HELLO is written: the loop and its tasks begin, or the
\* connection ends.
LEMMA HelloGreetsKeeps ==
  ASSUME ConnectionInv, UNCHANGED peer, HelloGreets
  PROVE  ConnectionInv'
<1> DEFINE r == loop.response[1]
           x == <<r.id, r.tag>>
<1>1. /\ loop.pc = "greeting" /\ Len(replies) < Buffer
      /\ replies' = Append(replies, ReplyOf(r))
      /\ IF loop.close
         THEN Closed /\ UNCHANGED registered
         ELSE /\ loop' = [loop EXCEPT !.pc = "select", !.response = <<>>]
              /\ reader' = [reader EXCEPT !.pc = "reading"]
              /\ writer' = [writer EXCEPT !.pc = "receiving"]
              /\ registered' = TRUE
      /\ UNCHANGED <<requests, clientOpen, frames, live, permits, ops, responses>>
  BY DEF HelloGreets
<1>2. /\ Apart(Entries) /\ \A k \in Places : Entries[k] \subseteq Owed
      /\ Distinct(requests) /\ \A o, p \in ops : o.tag = p.tag => o = p
  BY DEF ConnectionInv, FlowRight
<1>3. r \in Response /\ Items(loop.response) = {r}
  <2>1. Len(loop.response) = 1 /\ loop.response \in Seq(Response)
    BY <1>1, TasksAre DEF ConnectionInv, TypesRight
  <2> QED
    BY <2>1, AtMostOne
<1>4. Entries[4] = {x}
  BY <1>3, NamesAre, EntriesAre
<1>5. /\ reader.frame = <<>> /\ writer.pc = "none" /\ writer.response = <<>>
      /\ frames = <<>> /\ responses = <<>> /\ live = {} /\ ops = {}
  BY <1>1, BeforeLoop
<1> HIDE DEF r
<1>6. 4 \in Places /\ 9 \in Places /\ 4 # 9
  BY DEF Places
<1>7. /\ replies' \in Seq(Reply) /\ Len(replies') <= Buffer
      /\ Items(replies') = Items(replies) \cup {ReplyOf(r)} /\ Distinct(replies')
      /\ Names(Items(replies')) = Entries[9] \cup {x}
  BY <1>1, <1>3, <1>4, <1>6, ReplyIsNew
<1>8. WireTypeOK'
  BY <1>1, <1>7 DEF ConnectionInv, TypesRight, WireTypeOK
<1>9. Entries'[9] = Entries[9] \cup {x}
  BY <1>7, EntriesNext
<1>10. \A q \in Items(replies') : q.status \notin undue
  <2>1. r.status \notin undue
    BY <1>3, <1>5 DEF ConnectionInv, PoliteRight
  <2>2. ReplyOf(r).status = r.status
    BY DEF ReplyOf
  <2> QED
    BY <1>7, <2>1, <2>2 DEF ConnectionInv, PoliteRight
<1>11. /\ reader'.frame = <<>> /\ writer'.response = <<>> /\ loop'.response = <<>>
       /\ writer'.pc \notin {"releasing", "writing"}
  <2>1. CASE loop.close
    BY <1>1, <2>1, ClosedTypes DEF ConnectionInv
  <2>2. CASE ~loop.close
    <3>1. /\ loop' = [loop EXCEPT !.pc = "select", !.response = <<>>]
          /\ reader' = [reader EXCEPT !.pc = "reading"]
          /\ writer' = [writer EXCEPT !.pc = "receiving"]
      BY <1>1, <2>2
    <3> QED
      BY <1>5, <3>1, TasksAre DEF ConnectionInv
  <2> QED
    BY <2>1, <2>2
<1>12. Apart(Entries') /\ \A k \in Places : Entries'[k] \subseteq Owed
  <2>1. Items(<<>>) = {} /\ Names({}) = {}
    BY DEF Items, Names
  <2>2. Entries'[4] = {} /\ Entries'[2] = {} /\ Entries'[8] = {}
    BY <1>11, <2>1, EntriesNext
  <2>3. Entries'[7] = {}
    <3>1. InWriter' = <<>>
      BY <1>11 DEF InWriter
    <3> QED
      BY <2>1, <3>1, EntriesNext
  <2>4. Entries'[1] = Entries[1] /\ Entries'[3] = Entries[3] /\ Entries'[5] = Entries[5]
        /\ Entries'[6] = Entries[6]
    BY <1>1, EntriesAre, EntriesNext
  <2>5. \A k \in Places \ {4, 9} : Entries'[k] \subseteq Entries[k]
    BY <2>2, <2>3, <2>4 DEF Places
  <2> HIDE DEF x
  <2>6. x \in Entries[4] /\ Entries'[4] \subseteq Entries[4] \ {x} /\ Entries'[9] \subseteq Entries[9] \cup {x}
    BY <1>4, <1>9, <2>2
  <2>7. Apart(Entries) /\ \A k \in Places : Entries[k] \subseteq Owed
    BY <1>2
  <2> QED
    BY <1>6, <2>5, <2>6, <2>7, FrameMoves
<1>13. Distinct(requests')
  BY <1>1, <1>2
<1>14. CASE loop.close
  BY <1>1, <1>7, <1>8, <1>10, <1>12, <1>13, <1>14, ClosedKeeps
<1>15. CASE ~loop.close
  <2>1. /\ loop' = [pc |-> "select", response |-> <<>>, close |-> loop.close, receipt |-> loop.receipt]
        /\ reader' = [pc |-> "reading", frame |-> <<>>]
        /\ writer' = [pc |-> "receiving", response |-> <<>>]
        /\ registered' = TRUE
    <3>1. /\ loop' = [loop EXCEPT !.pc = "select", !.response = <<>>]
          /\ reader' = [reader EXCEPT !.pc = "reading"]
          /\ writer' = [writer EXCEPT !.pc = "receiving"]
          /\ registered' = TRUE
      BY <1>1, <1>15
    <3> QED
      BY <1>5, <3>1, TasksAre DEF ConnectionInv
  <2>2. TypesRight'
    <3>1. loop.close \in BOOLEAN /\ loop.receipt \in {"none", "sent", "dropped"}
      BY TasksAre DEF ConnectionInv
    <3>2. loop' \in Loop /\ reader' \in Reader /\ writer' \in Writer
      BY <2>1, <3>1 DEF Loop, Reader, Writer
    <3> QED
      BY <1>1, <1>8, <2>1, <3>2 DEF ConnectionInv, TypesRight
  <2>3. StagesRight'
    <3>1. Items(reader'.frame) = {} /\ Items(frames') = {}
      BY <1>1, <1>5, <2>1 DEF Items
    <3> QED
      BY <1>15, <2>1, <3>1 DEF StagesRight
  <2>4. PermitsRight'
    <3>1. InLoop = <<>> /\ InWriter = <<>> /\ InLoop' = <<>> /\ InWriter' = <<>>
      BY <1>1, <1>5, <2>1 DEF InLoop, InWriter
    <3> QED
      BY <1>1, <3>1 DEF ConnectionInv, PermitsRight
  <2>5. FlowRight'
    <3>1. \A o, p \in ops' : o.tag = p.tag => o = p
      BY <1>1, <1>2
    <3> QED
      BY <1>7, <1>12, <1>13, <3>1, FlowKeeps
  <2>6. LiveRight'
    <3>1. Items(<<>>) = {} /\ Names({}) = {}
      BY DEF Items, Names
    <3>2. InWriter' = <<>>
      BY <2>1 DEF InWriter
    <3>3. Entries'[4] = {} /\ Entries'[5] = {} /\ Entries'[6] = {} /\ Entries'[7] = {}
      BY <1>1, <1>5, <2>1, <3>1, <3>2, EntriesNext
    <3>4. Middle' = {}
      BY <3>3 DEF Middle
    <3>5. live' = {}
      BY <1>1, <1>5
    <3> QED
      BY <3>4, <3>5 DEF LiveRight
  <2>7. PoliteRight'
    <3>1. Items(loop'.response) = {} /\ Items(responses') = {} /\ Items(writer'.response) = {}
      BY <1>1, <1>5, <2>1 DEF Items
    <3>2. writer'.pc # "ended" =>
            \A q \in Items(loop'.response) \cup Items(responses') \cup Items(writer'.response) :
              q.status \notin undue
      BY <3>1
    <3> QED
      BY <1>10, <3>2, PoliteKeeps DEF ConnectionInv
  <2> QED
    BY <2>2, <2>3, <2>4, <2>5, <2>6, <2>7, ServerKeeps
<1> QED
  BY <1>14, <1>15

\* HELLO does not come in time, or its answer cannot be written.
LEMMA HelloFailsKeeps ==
  ASSUME ConnectionInv, UNCHANGED peer, HelloFails
  PROVE  ConnectionInv'
<1>1. /\ loop.pc \in {"hello", "greeting"} /\ Closed
      /\ UNCHANGED <<wire, frames, live, permits, ops, responses, registered>>
  BY DEF HelloFails
<1>2. /\ Apart(Entries) /\ \A k \in Places : Entries[k] \subseteq Owed
      /\ Distinct(requests) /\ Distinct(replies)
  BY DEF ConnectionInv, FlowRight
<1>3. reader'.frame = <<>> /\ loop'.response = <<>> /\ writer'.pc = "ended"
  BY <1>1, ClosedTypes DEF ConnectionInv
<1>4. \A k \in Places : Entries'[k] \subseteq Entries[k]
  <2>1. Items(<<>>) = {} /\ Names({}) = {}
    BY DEF Items, Names
  <2>2. InWriter' = <<>>
    BY <1>3 DEF InWriter
  <2>3. Entries'[2] = {} /\ Entries'[4] = {} /\ Entries'[7] = {} /\ Entries'[8] = {}
    BY <1>3, <2>1, <2>2, EntriesNext
  <2>4. /\ Entries'[1] = Entries[1] /\ Entries'[3] = Entries[3] /\ Entries'[5] = Entries[5]
        /\ Entries'[6] = Entries[6] /\ Entries'[9] = Entries[9]
    BY <1>1, EntriesAre, EntriesNext DEF wire
  <2> QED
    BY <2>3, <2>4 DEF Places
<1>5. Apart(Entries') /\ \A k \in Places : Entries'[k] \subseteq Owed
  BY <1>2, <1>4, FramesStay
<1>6. /\ WireTypeOK' /\ Distinct(requests') /\ Distinct(replies')
      /\ \A r \in Items(replies') : r.status \notin undue
  BY <1>1, <1>2 DEF ConnectionInv, TypesRight, WireTypeOK, PoliteRight, wire
<1> QED
  BY <1>1, <1>5, <1>6, ClosedKeeps

-----------------------------------------------------------------------------
(* Counting what is in flight.                                             *)

\* Numbers up to one.
LEMMA NoneOrOne ==
  /\ \A n \in {0, 1} : n <= 1
  /\ \A n \in Nat : n <= 1 => n \in {0, 1}
  /\ \A n \in Nat : n <= 1 /\ n # 0 => n = 1
  OBVIOUS

\* One or no response has one or no name.
LEMMA NamesCount ==
  ASSUME NEW S \in Seq(Response), Len(S) <= 1
  PROVE  IsFiniteSet(Names(Items(S))) /\ Cardinality(Names(Items(S))) = Len(S)
<1>1. Len(S) \in Nat
  BY AtMostOne
<1>2. CASE Len(S) = 0
  <2>1. Names(Items(S)) = {}
    BY <1>2, AtMostOne, NamesAre
  <2> QED
    BY <1>2, <2>1, FS_EmptySet
<1>3. CASE Len(S) = 1
  <2>1. Names(Items(S)) = {<<S[1].id, S[1].tag>>}
    BY <1>3, AtMostOne, NamesAre
  <2> QED
    BY <1>3, <2>1, FS_Singleton
<1>4. Len(S) = 0 \/ Len(S) = 1
  BY <1>1
<1> QED
  BY <1>2, <1>3, <1>4

\* Each operation has a name of its own.
LEMMA OpsCount ==
  ASSUME IsFiniteSet(ops), \A o, p \in ops : o.tag = p.tag => o = p
  PROVE  IsFiniteSet(Names(ops)) /\ Cardinality(Names(ops)) = Cardinality(ops)
<1> DEFINE name == [o \in ops |-> <<o.id, o.tag>>]
<1>1. name \in [ops -> Names(ops)] /\ \A o \in ops : name[o] = <<o.id, o.tag>>
  BY DEF Names
<1>2. \A o, p \in ops : name[o] = name[p] => o = p
  BY <1>1
<1>3. \A e \in Names(ops) : \E o \in ops : name[o] = e
  BY <1>1 DEF Names
<1> HIDE DEF name
<1>4. name \in Bijection(ops, Names(ops))
  BY <1>1, <1>2, <1>3 DEF Bijection, Injection, Surjection, IsInjective
<1> QED
  BY <1>4, FS_Bijection DEF ExistsBijection

\* The parts of a whole that have nothing in common add up.
LEMMA PartsAddUp ==
  ASSUME NEW A, NEW B, NEW C, NEW D, IsFiniteSet(A), IsFiniteSet(B), IsFiniteSet(C), IsFiniteSet(D),
         A \cap B = {}, A \cap C = {}, A \cap D = {}, B \cap C = {}, B \cap D = {}, C \cap D = {}
  PROVE  /\ IsFiniteSet(A \cup B \cup C \cup D)
         /\ Cardinality(A \cup B \cup C \cup D)
              = Cardinality(A) + Cardinality(B) + Cardinality(C) + Cardinality(D)
<1>1. \A S, T : IsFiniteSet(S) /\ IsFiniteSet(T) /\ S \cap T = {} =>
        /\ IsFiniteSet(S \cup T) /\ Cardinality(S \cup T) = Cardinality(S) + Cardinality(T)
        /\ Cardinality(S) \in Nat /\ Cardinality(T) \in Nat
  <2>1. SUFFICES ASSUME NEW S, NEW T, IsFiniteSet(S), IsFiniteSet(T), S \cap T = {}
                 PROVE  /\ IsFiniteSet(S \cup T)
                        /\ Cardinality(S \cup T) = Cardinality(S) + Cardinality(T)
                        /\ Cardinality(S) \in Nat /\ Cardinality(T) \in Nat
    OBVIOUS
  <2>2. Cardinality(S) \in Nat /\ Cardinality(T) \in Nat /\ Cardinality(S \cap T) = 0
    BY <2>1, FS_CardinalityType, FS_EmptySet
  <2>3. IsFiniteSet(S \cup T)
        /\ Cardinality(S \cup T) = Cardinality(S) + Cardinality(T) - Cardinality(S \cap T)
    BY <2>1, FS_Union
  <2> QED
    BY <2>2, <2>3
<1>2. /\ IsFiniteSet(A \cup B) /\ Cardinality(A \cup B) = Cardinality(A) + Cardinality(B)
      /\ Cardinality(A) \in Nat /\ Cardinality(B) \in Nat
  BY <1>1
<1>3. (A \cup B) \cap C = {} /\ (A \cup B \cup C) \cap D = {}
  OBVIOUS
<1>4. /\ IsFiniteSet(A \cup B \cup C)
      /\ Cardinality(A \cup B \cup C) = Cardinality(A \cup B) + Cardinality(C)
      /\ Cardinality(C) \in Nat
  BY <1>1, <1>2, <1>3
<1>5. /\ IsFiniteSet(A \cup B \cup C \cup D)
      /\ Cardinality(A \cup B \cup C \cup D) = Cardinality(A \cup B \cup C) + Cardinality(D)
      /\ Cardinality(D) \in Nat
  BY <1>1, <1>3, <1>4
<1> QED
  BY <1>2, <1>4, <1>5

\* The names between the socket's two directions are as many as the operations
\* and the responses that bear them.
LEMMA MiddleCount ==
  ASSUME TypesRight, FlowRight, loop.pc # "greeting"
  PROVE  /\ IsFiniteSet(Middle)
         /\ Cardinality(Middle) = Cardinality(ops) + Len(InLoop) + Len(responses) + Len(InWriter)
         /\ InLoop = loop.response
         /\ InLoop \in Seq(Response) /\ Len(InLoop) \in {0, 1}
         /\ responses \in Seq(Response) /\ Len(responses) \in {0, 1}
         /\ InWriter \in Seq(Response) /\ Len(InWriter) \in {0, 1}
         /\ Cardinality(ops) \in Nat
<1>1. /\ loop.response \in Seq(Response) /\ writer.response \in Seq(Response)
      /\ responses \in Seq(Response) /\ <<>> \in Seq(Response) /\ Len(<<>>) = 0
      /\ Len(loop.response) = IF loop.pc \in {"greeting", "answering"} THEN 1 ELSE 0
      /\ Len(writer.response) = IF writer.pc \in {"releasing", "writing", "written"} THEN 1 ELSE 0
      /\ Len(responses) <= 1
  BY TasksAre DEF TypesRight
<1>2. InLoop = loop.response
  <2>1. CASE loop.pc = "answering"
    BY <2>1 DEF InLoop
  <2>2. CASE loop.pc # "answering"
    <3>1. Len(loop.response) = 0
      BY <1>1, <2>2
    <3> QED
      BY <1>1, <2>2, <3>1, AtMostOne DEF InLoop
  <2> QED
    BY <2>1, <2>2
<1>3. InLoop \in Seq(Response) /\ Len(InLoop) \in {0, 1}
  BY <1>1, <1>2
<1>4. responses \in Seq(Response) /\ Len(responses) \in {0, 1}
  <2>1. Len(responses) \in Nat
    BY <1>1, AtMostOne
  <2> QED
    BY <1>1, <2>1, NoneOrOne, Zenon
<1>5. InWriter \in Seq(Response) /\ Len(InWriter) \in {0, 1}
  <2>1. CASE writer.pc = "releasing"
    BY <1>1, <2>1 DEF InWriter
  <2>2. CASE writer.pc # "releasing"
    BY <1>1, <2>2 DEF InWriter
  <2> QED
    BY <2>1, <2>2
<1>6. /\ IsFiniteSet(Entries[4]) /\ Cardinality(Entries[4]) = Len(InLoop)
      /\ IsFiniteSet(Entries[6]) /\ Cardinality(Entries[6]) = Len(responses)
      /\ IsFiniteSet(Entries[7]) /\ Cardinality(Entries[7]) = Len(InWriter)
  <2>1. \A S \in Seq(Response) :
          Len(S) \in {0, 1} => IsFiniteSet(Names(Items(S))) /\ Cardinality(Names(Items(S))) = Len(S)
    <3>1. SUFFICES ASSUME NEW S \in Seq(Response), Len(S) \in {0, 1}
                   PROVE  IsFiniteSet(Names(Items(S))) /\ Cardinality(Names(Items(S))) = Len(S)
      OBVIOUS
    <3>2. Len(S) <= 1
      BY <3>1, NoneOrOne, Zenon
    <3> QED
      BY <3>2, NamesCount
  <2> QED
    BY <1>2, <1>3, <1>4, <1>5, <2>1, EntriesAre, Zenon
<1>7. IsFiniteSet(Entries[5]) /\ Cardinality(Entries[5]) = Cardinality(ops)
      /\ Cardinality(ops) \in Nat
  BY OpsCount, FS_CardinalityType, EntriesAre DEF TypesRight, FlowRight
<1>8. \A k, l \in 4 .. 7 : k # l => Entries[k] \cap Entries[l] = {}
  BY DEF FlowRight, Apart, Places
<1>9. /\ IsFiniteSet(Middle)
      /\ Cardinality(Middle) = Cardinality(Entries[4]) + Cardinality(Entries[5])
                                 + Cardinality(Entries[6]) + Cardinality(Entries[7])
  <2>1. /\ Entries[4] \cap Entries[5] = {} /\ Entries[4] \cap Entries[6] = {}
        /\ Entries[4] \cap Entries[7] = {} /\ Entries[5] \cap Entries[6] = {}
        /\ Entries[5] \cap Entries[7] = {} /\ Entries[6] \cap Entries[7] = {}
    BY <1>8
  <2>2. /\ IsFiniteSet(Entries[4]) /\ IsFiniteSet(Entries[5])
        /\ IsFiniteSet(Entries[6]) /\ IsFiniteSet(Entries[7])
    BY <1>6, <1>7
  <2> QED
    <3>1. /\ IsFiniteSet(Entries[4] \cup Entries[5] \cup Entries[6] \cup Entries[7])
          /\ Cardinality(Entries[4] \cup Entries[5] \cup Entries[6] \cup Entries[7])
               = Cardinality(Entries[4]) + Cardinality(Entries[5])
                   + Cardinality(Entries[6]) + Cardinality(Entries[7])
      BY <2>1, <2>2, PartsAddUp
    <3> QED
      BY <3>1 DEF Middle
<1>10. Cardinality(Middle) = Cardinality(ops) + Len(InLoop) + Len(responses) + Len(InWriter)
  BY <1>3, <1>4, <1>5, <1>6, <1>7, <1>9
<1> QED
  BY <1>2, <1>3, <1>4, <1>5, <1>7, <1>9, <1>10

\* A polite peer's requests are as many as the names owed.
LEMMA OwedCount ==
  ASSUME PeerRight
  PROVE  IsFiniteSet(Owed) /\ Cardinality(Owed) = Cardinality(Outstanding)
<1> DEFINE name == [t \in Outstanding |-> <<waiting[t], t>>]
<1>1. name \in [Outstanding -> Owed] /\ \A t \in Outstanding : name[t] = <<waiting[t], t>>
  BY DEF Owed
<1>2. \A t, u \in Outstanding : name[t] = name[u] => t = u
  BY <1>1
<1>3. \A e \in Owed : \E t \in Outstanding : name[t] = e
  BY <1>1 DEF Owed
<1> HIDE DEF name
<1>4. name \in Bijection(Outstanding, Owed)
  BY <1>1, <1>2, <1>3 DEF Bijection, Injection, Surjection, IsInjective
<1> QED
  BY <1>4, OutstandingFinite, FS_Bijection DEF ExistsBijection

-----------------------------------------------------------------------------
(* A polite peer.                                                          *)

\* The frame that the loop looks at.
LEMMA FrameIs ==
  ASSUME ConnectionInv, frames # <<>>
  PROVE  LET f == Head(frames)
         IN  /\ f \in Frame /\ Items(frames) = {f} /\ Entries[3] = {<<f.id, f.tag>>}
             /\ f.tag \in Outstanding /\ waiting[f.tag] = f.id
             /\ <<f.id, f.tag>> \notin Middle
<1> DEFINE f == Head(frames)
<1>1. frames \in Seq(Frame) /\ Len(frames) = 1
  <2>1. frames \in Seq(Frame) /\ Len(frames) <= 1
    BY DEF ConnectionInv, TypesRight
  <2>2. Len(frames) \in Nat /\ Len(frames) # 0
    BY <2>1, AtMostOne
  <2> QED
    BY <2>1, <2>2, NoneOrOne, Zenon
<1>2. f \in Frame /\ Items(frames) = {f}
  BY <1>1, AtMostOne
<1> HIDE DEF f
<1>3. Entries[3] = {<<f.id, f.tag>>}
  BY <1>2, NamesAre, EntriesAre
<1>4. 3 \in Places /\ 4 \in Places /\ 5 \in Places /\ 6 \in Places /\ 7 \in Places
  BY DEF Places
<1>5. <<f.id, f.tag>> \in Owed
  BY <1>3, <1>4 DEF ConnectionInv, FlowRight
<1>6. f.tag \in Outstanding /\ waiting[f.tag] = f.id
  BY <1>5, OwedIs
<1>7. <<f.id, f.tag>> \notin Middle
  BY <1>3, <1>4 DEF ConnectionInv, FlowRight, Apart, Middle
<1> QED
  BY <1>2, <1>3, <1>6, <1>7 DEF f

\* What a polite peer waits for is within its limit, so that there is a permit
\* for its next frame.
LEMMA PermitThere ==
  ASSUME ConnectionInv, loop.pc = "select", frames # <<>>, "overloaded" \in undue
  PROVE  permits # 0
<1> DEFINE x == <<Head(frames).id, Head(frames).tag>>
<1>1. Entries[3] = {x} /\ x \notin Middle
  BY FrameIs
<1> HIDE DEF x
<1>2. Middle \cup {x} \in SUBSET Owed
  <2>1. 3 \in Places /\ 4 \in Places /\ 5 \in Places /\ 6 \in Places /\ 7 \in Places
    BY DEF Places
  <2> QED
    BY <1>1, <2>1 DEF ConnectionInv, FlowRight, Middle
<1>3. /\ IsFiniteSet(Middle)
      /\ Cardinality(Middle) = Cardinality(ops) + Len(InLoop) + Len(responses) + Len(InWriter)
      /\ InLoop \in Seq(Response) /\ Len(InLoop) \in {0, 1}
      /\ responses \in Seq(Response) /\ Len(responses) \in {0, 1}
      /\ InWriter \in Seq(Response) /\ Len(InWriter) \in {0, 1}
      /\ Cardinality(ops) \in Nat
  BY MiddleCount DEF ConnectionInv
<1>4. Cardinality(Middle \cup {x}) = Cardinality(Middle) + 1
  BY <1>1, <1>3, FS_AddElement
<1>5. Cardinality(Middle \cup {x}) <= Cardinality(Owed)
  BY <1>2, OwedCount, FS_Subset DEF ConnectionInv
<1>6. Cardinality(Owed) <= MaxInFlight
  BY OwedCount DEF ConnectionInv, PoliteRight
<1>7. /\ Held(InLoop) \in {0, 1} /\ Held(InLoop) <= Len(InLoop)
      /\ Held(responses) \in {0, 1} /\ Held(responses) <= Len(responses)
      /\ Held(InWriter) \in {0, 1} /\ Held(InWriter) <= Len(InWriter)
  <2>1. \A S \in Seq(Response) : Len(S) \in {0, 1} => Held(S) \in {0, 1} /\ Held(S) <= Len(S)
    <3>1. SUFFICES ASSUME NEW S \in Seq(Response), Len(S) \in {0, 1}
                   PROVE  Held(S) \in {0, 1} /\ Held(S) <= Len(S)
      OBVIOUS
    <3>2. Len(S) <= 1
      BY <3>1, NoneOrOne, Zenon
    <3> QED
      BY <3>2, HeldIs
  <2> QED
    BY <1>3, <2>1
<1>8. permits + Cardinality(ops) + Held(InLoop) + Held(responses) + Held(InWriter) = MaxInFlight
  BY DEF ConnectionInv, PermitsRight
<1>9. Cardinality(Owed) \in Nat /\ permits \in Nat /\ MaxInFlight \in Nat
  BY OwedCount, FS_CardinalityType, ConnectionAssumption DEF ConnectionInv, TypesRight
<1> QED
  <2>1. Cardinality(ops) + Len(InLoop) + Len(responses) + Len(InWriter) + 1 <= MaxInFlight
    BY <1>3, <1>4, <1>5, <1>6, <1>9
  <2> QED
    BY <1>3, <1>7, <1>8, <1>9, <2>1

\* Nor is an identifier taken that it uses again.
LEMMA IdentifierFree ==
  ASSUME ConnectionInv, Serving, frames # <<>>, "duplicate" \in undue
  PROVE  Head(frames).id \notin live
<1> DEFINE f == Head(frames)
<1>1. f.tag \in Outstanding /\ waiting[f.tag] = f.id /\ <<f.id, f.tag>> \notin Middle
  BY FrameIs
<1> HIDE DEF f
<1>2. SUFFICES ASSUME f.id \in live
               PROVE  FALSE
  BY DEF f
<1>3. PICK e \in Middle : e[1] = f.id
  BY <1>2 DEF ConnectionInv, LiveRight
<1>4. e \in Owed
  <2>1. 4 \in Places /\ 5 \in Places /\ 6 \in Places /\ 7 \in Places
    BY DEF Places
  <2> QED
    BY <2>1 DEF ConnectionInv, FlowRight, Middle
<1>5. PICK t \in Outstanding : e = <<waiting[t], t>>
  BY <1>4 DEF Owed
<1>6. waiting[t] = waiting[f.tag]
  BY <1>1, <1>3, <1>5
<1>7. t = f.tag
  BY <1>1, <1>6 DEF ConnectionInv, PoliteRight
<1> QED
  BY <1>1, <1>5, <1>7

-----------------------------------------------------------------------------
(* Frames.                                                                 *)

\* The loop holds nothing while it selects.
LEMMA SelectingIs ==
  ASSUME ConnectionInv, loop.pc \notin {"greeting", "answering"}
  PROVE  loop.response = <<>> /\ InLoop = <<>> /\ Entries[4] = {}
<1>1. loop.response = <<>>
  <2>1. Len(loop.response) = 0
    BY DEF ConnectionInv, TypesRight
  <2> QED
    BY <2>1, AtMostOne, TasksAre DEF ConnectionInv
<1>2. Items(<<>>) = {} /\ Names({}) = {}
  BY DEF Items, Names
<1> QED
  BY <1>1, <1>2, EntriesAre DEF InLoop

\* A frame moves on from one place to another.
LEMMA NameMoves ==
  ASSUME FlowRight, NEW x, NEW a \in Places, NEW b \in Places, b # a,
         x \in Entries[a], Entries'[a] = {}, Entries'[b] \subseteq Entries[b] \cup {x},
         \A k \in Places \ {a, b} : Entries'[k] \subseteq Entries[k]
  PROVE  Apart(Entries') /\ \A k \in Places : Entries'[k] \subseteq Owed
<1>1. \A k \in Places : k # a => x \notin Entries[k]
  BY DEF FlowRight, Apart
<1>2. \A k \in Places : k # b => Entries'[k] \subseteq Entries[k] /\ x \notin Entries'[k]
  BY <1>1
<1>3. x \in Owed
  BY DEF FlowRight
<1>4. Apart(Entries')
  <2>1. SUFFICES ASSUME NEW k \in Places, NEW l \in Places, k # l
                 PROVE  Entries'[k] \cap Entries'[l] = {}
    BY DEF Apart
  <2>2. Entries[k] \cap Entries[l] = {}
    BY <2>1 DEF FlowRight, Apart
  <2>3. CASE k = b
    BY <2>1, <2>2, <2>3, <1>2
  <2>4. CASE l = b
    BY <2>1, <2>2, <2>4, <1>2
  <2>5. CASE k # b /\ l # b
    BY <2>2, <2>5, <1>2
  <2> QED
    BY <2>3, <2>4, <2>5
<1>5. \A k \in Places : Entries'[k] \subseteq Owed
  BY <1>2, <1>3 DEF FlowRight
<1> QED
  BY <1>4, <1>5

\* A live identifier is added with its one name, or the connection closes.
LEMMA LiveGains ==
  ASSUME LiveRight, NEW i, NEW t, Serving' => Serving,
         Serving' => live' = live \cup {i} /\ i \notin live /\ Middle' = Middle \cup {<<i, t>>}
  PROVE  LiveRight'
<1>1. SUFFICES ASSUME Serving'
               PROVE  /\ live' = {e[1] : e \in Middle'}
                      /\ \A d, e \in Middle' : d[1] = e[1] => d = e
  BY DEF LiveRight
<1>2. /\ live = {e[1] : e \in Middle} /\ \A d, e \in Middle : d[1] = e[1] => d = e
  BY <1>1 DEF LiveRight
<1>3. live' = live \cup {i} /\ i \notin live /\ Middle' = Middle \cup {<<i, t>>}
  BY <1>1
<1>4. live' = {e[1] : e \in Middle'}
  <2>1. {e[1] : e \in Middle'} = {e[1] : e \in Middle} \cup {<<i, t>>[1]}
    BY <1>3
  <2>2. <<i, t>>[1] = i
    OBVIOUS
  <2> QED
    BY <1>2, <1>3, <2>1, <2>2
<1>5. \A e \in Middle : e[1] # i
  BY <1>2, <1>3
<1>6. \A d, e \in Middle' : d[1] = e[1] => d = e
  BY <1>2, <1>3, <1>5
<1> QED
  BY <1>4, <1>6

\* Any frame that the loop answers itself.
LEMMA AnsweringKeeps ==
  ASSUME ConnectionInv, UNCHANGED peer, loop.pc = "select", frames # <<>>,
         NEW s \in Statuses, NEW p \in BOOLEAN, NEW c \in BOOLEAN,
         frames' = <<>>, loop' = Answering(Error(Head(frames), s, p), c),
         UNCHANGED <<wire, reader, ops, responses, writer, registered>>,
         permits' \in Nat, p => permits = permits' + 1, ~p => permits = permits',
         live' \subseteq RequestIds,
         ~c => live' = live \cup {Head(frames).id} /\ Head(frames).id \notin live,
         writer.pc # "ended" => s \notin undue
  PROVE  ConnectionInv'
<1> DEFINE f == Head(frames)
           x == <<f.id, f.tag>>
           r == Error(f, s, p)
<1>1. f \in Frame /\ Entries[3] = {x} /\ x \notin Middle
  BY FrameIs
<1>2. /\ r \in Response /\ r.id = f.id /\ r.tag = f.tag /\ r.status = s /\ r.permit = p
  BY <1>1 DEF Error, Frame, Response
<1>3. loop' = [pc |-> "answering", response |-> <<r>>, close |-> c, receipt |-> "none"]
  BY DEF Answering
<1> HIDE DEF r
<1>4. /\ loop' \in Loop /\ loop'.pc = "answering" /\ loop'.response = <<r>> /\ loop'.close = c
      /\ Len(loop'.response) = 1 /\ Items(loop'.response) = {r}
  <2>1. <<r>> \in Seq(Response) /\ Len(<<r>>) = 1 /\ Items(<<r>>) = {r}
    BY <1>2 DEF Items
  <2>2. /\ loop'.pc = "answering" /\ loop'.response = <<r>> /\ loop'.close = c
    BY <1>3
  <2>3. loop' \in Loop
    <3> HIDE DEF f
    <3>1. [pc |-> "answering", response |-> <<r>>, close |-> c, receipt |-> "none"] \in Loop
      BY <2>1 DEF Loop
    <3> QED
      BY <1>3, <3>1
  <2> QED
    BY <2>1, <2>2, <2>3
<1>5. InLoop = <<>> /\ loop.response = <<>> /\ Entries[4] = {}
  BY SelectingIs
<1>6. InLoop' = <<r>> /\ InWriter' = InWriter
  BY <1>4 DEF InLoop, InWriter
<1>7. TypesRight'
  <2>1. frames' \in Seq(Frame) /\ Len(frames') <= 1
    OBVIOUS
  <2> QED
    BY <1>4, <2>1 DEF ConnectionInv, TypesRight, WireTypeOK, wire
<1>8. StagesRight'
  <2>1. Items(frames') = {} /\ reader' = reader /\ writer' = writer
    BY DEF Items
  <2>2. \A q \in Items(reader'.frame) \cup Items(frames') : q.kind # "broken"
    BY <2>1 DEF ConnectionInv, StagesRight
  <2> QED
    BY <1>4, <2>1, <2>2 DEF ConnectionInv, StagesRight
<1>9. PermitsRight'
  <2>1. Held(InLoop) = 0
    BY <1>5 DEF Held
  <2>2. permits' + Held(InLoop') = permits
    <3>1. CASE p
      <4>1. Held(InLoop') = 1
        BY <1>2, <1>6, <3>1 DEF Held
      <4>2. permits = permits' + 1
        BY <3>1, Zenon
      <4>3. permits' \in Nat
        OBVIOUS
      <4> QED
        BY <4>1, <4>2, <4>3
    <3>2. CASE ~p
      <4>1. Held(InLoop') = 0
        BY <1>2, <1>6, <3>2 DEF Held
      <4>2. permits = permits'
        BY <3>2, Zenon
      <4>3. permits' + 0 = permits'
        BY NothingAdded, Zenon
      <4> QED
        BY <4>1, <4>2, <4>3, Zenon
    <3> QED
      BY <3>1, <3>2
  <2>3. /\ Held(responses) \in Nat /\ Held(InWriter) \in Nat /\ Cardinality(ops) \in Nat
        /\ permits \in Nat /\ Held(InLoop') \in Nat
    BY FS_CardinalityType DEF Held, ConnectionInv, TypesRight
  <2>4. permits + Cardinality(ops) + Held(InLoop) + Held(responses) + Held(InWriter) = MaxInFlight
    BY DEF ConnectionInv, PermitsRight
  <2>5. permits' + Cardinality(ops) + Held(InLoop') + Held(responses) + Held(InWriter) = MaxInFlight
    BY <2>1, <2>2, <2>3, <2>4
  <2> QED
    BY <1>6, <2>5 DEF PermitsRight
<1>10. /\ Entries'[4] = {x} /\ Entries'[3] = {}
       /\ \A k \in Places \ {3, 4} : Entries'[k] = Entries[k]
  <2>1. Names(Items(loop'.response)) = {x}
    BY <1>2, <1>4, NamesAre
  <2>2. Items(<<>>) = {} /\ Names({}) = {}
    BY DEF Items, Names
  <2>3. Entries'[4] = {x} /\ Entries'[3] = {}
    BY <2>1, <2>2, EntriesNext
  <2>4. \A k \in Places \ {3, 4} : Entries'[k] = Entries[k]
    BY <1>6 DEF Entries, Places, wire
  <2> QED
    BY <2>3, <2>4
<1> HIDE DEF x
<1>11. FlowRight'
  <2>1. 3 \in Places /\ 4 \in Places /\ 4 # 3
    BY DEF Places
  <2>2. Entries'[4] \subseteq Entries[4] \cup {x} /\ x \in Entries[3] /\ Entries'[3] = {}
    BY <1>1, <1>10
  <2>3. \A k \in Places \ {3, 4} : Entries'[k] \subseteq Entries[k]
    BY <1>10
  <2>4. FlowRight
    BY DEF ConnectionInv
  <2>5. Apart(Entries') /\ \A k \in Places : Entries'[k] \subseteq Owed
    BY <2>1, <2>2, <2>3, <2>4, NameMoves
  <2>6. Distinct(requests') /\ Distinct(replies') /\ \A o, q \in ops' : o.tag = q.tag => o = q
    BY DEF ConnectionInv, FlowRight, wire
  <2> QED
    BY <2>5, <2>6, FlowKeeps
<1>12. LiveRight'
  <2>1. Serving' => ~c /\ Serving
    BY <1>4 DEF Serving, ConnectionInv, StagesRight
  <2>2. Middle' = Middle \cup {x}
    <3>1. /\ Entries'[5] = Entries[5] /\ Entries'[6] = Entries[6] /\ Entries'[7] = Entries[7]
      BY <1>10 DEF Places
    <3> QED
      BY <1>5, <1>10, <3>1 DEF Middle
  <2>3. Serving' => live' = live \cup {f.id} /\ f.id \notin live
    BY <2>1
  <2> HIDE DEF f
  <2> QED
    BY <2>1, <2>2, <2>3, LiveGains DEF ConnectionInv, x
<1>13. PoliteRight'
  <2>1. \A q \in Items(replies') : q.status \notin undue
    BY DEF ConnectionInv, PoliteRight, wire
  <2>2. writer.pc # "ended" =>
          \A q \in Items(responses) \cup Items(writer.response) : q.status \notin undue
    BY DEF ConnectionInv, PoliteRight
  <2>3. writer'.pc # "ended" =>
          \A q \in Items(loop'.response) \cup Items(responses') \cup Items(writer'.response) :
            q.status \notin undue
    BY <1>2, <1>4, <2>2
  <2> QED
    BY <2>1, <2>3, PoliteKeeps DEF ConnectionInv
<1> QED
  BY <1>7, <1>8, <1>9, <1>11, <1>12, <1>13, ServerKeeps

\* A duplicate closes the connection; a polite peer sends none.
LEMMA LoopDuplicateKeeps ==
  ASSUME ConnectionInv, UNCHANGED peer, LoopDuplicate
  PROVE  ConnectionInv'
<1>1. /\ loop.pc = "select" /\ frames # <<>> /\ Head(frames).id \in live
      /\ frames' = <<>> /\ loop' = Answering(Error(Head(frames), "duplicate", FALSE), TRUE)
      /\ UNCHANGED <<wire, reader, live, permits, ops, responses, writer, registered>>
  BY DEF LoopDuplicate
<1>2. writer.pc # "ended" => "duplicate" \notin undue
  BY <1>1, IdentifierFree DEF ConnectionInv, StagesRight, Serving
<1>3. permits' \in Nat /\ permits = permits' /\ live' \subseteq RequestIds
  BY <1>1 DEF ConnectionInv, TypesRight
<1>4. "duplicate" \in Statuses /\ TRUE \in BOOLEAN /\ FALSE \in BOOLEAN
  BY DEF Statuses
<1> QED
  BY <1>1, <1>2, <1>3, <1>4, AnsweringKeeps

\* A frame that is refused takes an identifier and, when there is one, a permit.
LEMMA LoopRefuseKeeps ==
  ASSUME ConnectionInv, UNCHANGED peer, LoopRefuse
  PROVE  ConnectionInv'
<1> DEFINE f == Head(frames)
           p == permits > 0
           s == Refusal(f)
           c == s = "protocol"
<1>1. /\ loop.pc = "select" /\ frames # <<>> /\ f.id \notin live /\ Refused(f)
      /\ live' = live \cup {f.id} /\ permits' = IF p THEN permits - 1 ELSE 0
      /\ loop' = Answering(Error(f, s, p), c) /\ frames' = <<>>
      /\ UNCHANGED <<wire, reader, ops, responses, writer, registered>>
  BY DEF LoopRefuse
<1>2. f \in Frame /\ permits \in Nat
  BY <1>1, FrameIs DEF ConnectionInv, TypesRight
<1>3. permits' \in Nat /\ (p => permits = permits' + 1) /\ (~p => permits = permits')
  BY <1>1, <1>2
<1>4. s \in Statuses /\ (s \in Refusals => f.kind = "op" /\ s = "overloaded")
  <2>1. f.kind \in Kinds
    BY <1>2 DEF Frame
  <2>5. f.kind # "broken"
    <3>1. f \in Items(frames)
      BY <1>1, FrameIs
    <3> QED
      BY <3>1 DEF ConnectionInv, StagesRight
  <2>2. CASE f.kind \in {"hello", "stranger", "protocol"}
    <3>1. s = "protocol"
      BY <2>2 DEF Refusal
    <3> QED
      BY <3>1 DEF Statuses, Refusals
  <2>3. CASE f.kind = "invalid"
    <3>1. s = "invalid"
      BY <2>3 DEF Refusal
    <3> QED
      BY <3>1 DEF Statuses, Refusals
  <2>4. CASE f.kind = "op"
    <3>1. s = "overloaded"
      BY <2>4 DEF Refusal
    <3> HIDE DEF s
    <3> QED
      BY <2>4, <3>1 DEF Statuses
  <2> QED
    <3>1. \/ f.kind \in {"hello", "stranger", "protocol"}
          \/ f.kind = "invalid" \/ f.kind = "op"
      BY <2>1, <2>5 DEF Kinds
    <3> HIDE DEF s, f
    <3> QED
      BY <2>2, <2>3, <2>4, <3>1, Zenon
<1>5. s \notin undue
  <2>1. SUFFICES ASSUME "overloaded" \in undue, f.kind = "op"
                 PROVE  FALSE
    BY <1>4 DEF ConnectionInv, PeerRight
  <2>2. permits = 0
    BY <1>1, <2>1 DEF Refused
  <2> QED
    BY <1>1, <2>1, <2>2, PermitThere
<1>6. live' \subseteq RequestIds
  BY <1>1, <1>2 DEF ConnectionInv, TypesRight, Frame
<1>7. p \in BOOLEAN /\ c \in BOOLEAN
  OBVIOUS
<1> HIDE DEF s, p, c
<1>8. writer.pc # "ended" => s \notin undue
  BY <1>5
<1>9. ~c => live' = live \cup {Head(frames).id} /\ Head(frames).id \notin live
  BY <1>1
<1> QED
  BY <1>1, <1>3, <1>4, <1>6, <1>7, <1>8, <1>9, AnsweringKeeps

\* The identifiers in flight do not change, or the loop does not serve.
LEMMA LiveStays ==
  ASSUME LiveRight, Serving' => Serving /\ live' = live /\ Middle' = Middle
  PROVE  LiveRight'
  BY DEF LiveRight

\* An operation begins, with a tag that no other has.
LEMMA LoopSpawnKeeps ==
  ASSUME ConnectionInv, UNCHANGED peer, LoopSpawn
  PROVE  ConnectionInv'
<1> DEFINE f == Head(frames)
           x == <<f.id, f.tag>>
           o == [id |-> f.id, tag |-> f.tag, pc |-> "running"]
<1>1. /\ loop.pc = "select" /\ frames # <<>> /\ f.id \notin live /\ ~Refused(f)
      /\ live' = live \cup {f.id} /\ ops' = ops \cup {o}
      /\ permits' = permits - 1 /\ frames' = <<>>
      /\ UNCHANGED <<wire, reader, loop, responses, writer, registered>>
  BY DEF LoopSpawn
<1>2. /\ f \in Frame /\ Entries[3] = {x} /\ x \notin Middle
  BY <1>1, FrameIs
<1>3. o \in Op /\ o.id = f.id /\ o.tag = f.tag
  BY <1>2 DEF Op, Frame
<1> HIDE DEF f, o
<1>4. permits \in Nat \ {0} /\ IsFiniteSet(ops) /\ Cardinality(ops) \in Nat
  BY <1>1, FS_CardinalityType DEF Refused, ConnectionInv, TypesRight
<1>5. \A p \in ops : p.tag # o.tag
  <2>1. SUFFICES ASSUME NEW p \in ops
                 PROVE  p.tag # f.tag
    BY <1>3
  <2>2. <<p.id, p.tag>> \in Entries[5] /\ 5 \in Places /\ 3 \in Places /\ 5 # 3
    BY EntriesAre DEF Names, Places
  <2>3. <<f.id, f.tag>> \in Entries[3]
    BY <1>2
  <2> QED
    BY <2>2, <2>3, Elsewhere DEF ConnectionInv
<1>6. IsFiniteSet(ops') /\ Cardinality(ops') = Cardinality(ops) + 1
  <2>1. o \notin ops
    BY <1>5
  <2> QED
    BY <1>1, <1>4, <2>1, FS_AddElement
<1>7. TypesRight'
  <2>1. frames' \in Seq(Frame) /\ Len(frames') <= 1 /\ permits' \in Nat /\ f.id \in RequestIds
    BY <1>1, <1>2, <1>4 DEF Frame
  <2>2. ops' \subseteq Op /\ live' \subseteq RequestIds
    BY <1>1, <1>3, <2>1 DEF ConnectionInv, TypesRight
  <2> QED
    BY <1>1, <1>6, <2>1, <2>2 DEF ConnectionInv, TypesRight, WireTypeOK, wire
<1>8. StagesRight'
  <2>1. Items(frames') = {}
    BY <1>1 DEF Items
  <2>2. \A q \in Items(reader'.frame) \cup Items(frames') : q.kind # "broken"
    BY <1>1, <2>1 DEF ConnectionInv, StagesRight
  <2> QED
    BY <1>1, <2>2 DEF ConnectionInv, StagesRight
<1>9. InLoop' = InLoop /\ InWriter' = InWriter
  BY <1>1 DEF InLoop, InWriter
<1>10. PermitsRight'
  <2>1. Held(InLoop) \in Nat /\ Held(responses) \in Nat /\ Held(InWriter) \in Nat
    BY DEF Held
  <2>2. permits + Cardinality(ops) + Held(InLoop) + Held(responses) + Held(InWriter) = MaxInFlight
    BY DEF ConnectionInv, PermitsRight
  <2>3. permits' + Cardinality(ops') + Held(InLoop) + Held(responses) + Held(InWriter) = MaxInFlight
    BY <1>1, <1>4, <1>6, <2>1, <2>2
  <2> QED
    BY <1>1, <1>9, <2>3 DEF PermitsRight
<1>11. /\ Entries'[5] = Entries[5] \cup {x} /\ Entries'[3] = {}
       /\ \A k \in Places \ {3, 5} : Entries'[k] = Entries[k]
  <2>1. Names(ops') = Names(ops) \cup {x}
    BY <1>1, <1>3, NamesAre
  <2>2. Items(<<>>) = {} /\ Names({}) = {}
    BY DEF Items, Names
  <2>3. Entries'[5] = Entries[5] \cup {x} /\ Entries'[3] = {}
    BY <1>1, <2>1, <2>2, EntriesAre, EntriesNext
  <2>4. \A k \in Places \ {3, 5} : Entries'[k] = Entries[k]
    BY <1>1, <1>9 DEF Entries, Places, wire
  <2> QED
    BY <2>3, <2>4
<1> HIDE DEF x
<1>12. FlowRight'
  <2>1. 3 \in Places /\ 5 \in Places /\ 5 # 3
    BY DEF Places
  <2>2. x \in Entries[3] /\ Entries'[3] = {} /\ Entries'[5] \subseteq Entries[5] \cup {x}
    BY <1>2, <1>11
  <2>3. \A k \in Places \ {3, 5} : Entries'[k] \subseteq Entries[k]
    BY <1>11
  <2>4. FlowRight
    BY DEF ConnectionInv
  <2>5. Apart(Entries') /\ \A k \in Places : Entries'[k] \subseteq Owed
    BY <2>1, <2>2, <2>3, <2>4, NameMoves
  <2>6. Distinct(requests') /\ Distinct(replies')
    BY <1>1 DEF ConnectionInv, FlowRight, wire
  <2>7. \A p, q \in ops' : p.tag = q.tag => p = q
    BY <1>1, <1>5, <2>4 DEF FlowRight
  <2> QED
    BY <2>5, <2>6, <2>7, FlowKeeps
<1>13. LiveRight'
  <2>1. Serving' => Serving
    BY <1>1 DEF Serving
  <2>2. Middle' = Middle \cup {x}
    <3>1. /\ Entries'[4] = Entries[4] /\ Entries'[6] = Entries[6] /\ Entries'[7] = Entries[7]
      BY <1>11 DEF Places
    <3> QED
      BY <1>11, <3>1 DEF Middle
  <2> QED
    BY <1>1, <2>1, <2>2, LiveGains DEF ConnectionInv, x
<1>14. PoliteRight'
  BY <1>1, PoliteSame DEF ConnectionInv, wire
<1> QED
  BY <1>7, <1>8, <1>10, <1>12, <1>13, <1>14, ServerKeeps

\* The loop's answer is queued.
LEMMA LoopAnswerKeeps ==
  ASSUME ConnectionInv, UNCHANGED peer, LoopAnswer
  PROVE  ConnectionInv'
<1> DEFINE r == loop.response[1]
           x == <<r.id, r.tag>>
<1>1. /\ loop.pc = "answering" /\ responses = <<>> /\ writer.pc # "ended"
      /\ responses' = loop.response
      /\ loop' = [loop EXCEPT !.pc = "receipt", !.response = <<>>]
      /\ UNCHANGED <<wire, reader, frames, live, permits, ops, writer, registered>>
  BY DEF LoopAnswer
<1>2. loop' = [pc |-> "receipt", response |-> <<>>, close |-> loop.close, receipt |-> loop.receipt]
  BY <1>1, TasksAre DEF ConnectionInv
<1>3. /\ loop' \in Loop /\ loop'.pc = "receipt" /\ loop'.response = <<>> /\ loop'.close = loop.close
  <2>1. loop.close \in BOOLEAN /\ loop.receipt \in {"none", "sent", "dropped"}
    BY TasksAre DEF ConnectionInv
  <2> QED
    BY <1>2, <2>1 DEF Loop
<1>4. loop.response \in Seq(Response) /\ Len(loop.response) = 1 /\ Items(loop.response) = {r}
  <2>1. loop.response \in Seq(Response) /\ Len(loop.response) = 1
    BY <1>1, TasksAre DEF ConnectionInv, TypesRight
  <2> QED
    BY <2>1, AtMostOne
<1> HIDE DEF r
<1>5. TypesRight'
  <2>1. Len(loop'.response) = 0
    BY <1>3
  <2>2. responses' \in Seq(Response) /\ Len(responses') <= 1
    BY <1>1, <1>4
  <2> QED
    BY <1>1, <1>3, <2>1, <2>2 DEF ConnectionInv, TypesRight, WireTypeOK, wire
<1>6. StagesRight'
  BY <1>1, <1>3 DEF ConnectionInv, StagesRight
<1>7. /\ InLoop = loop.response /\ InLoop' = <<>> /\ InWriter' = InWriter
  BY <1>1, <1>3 DEF InLoop, InWriter
<1>8. PermitsRight'
  <2>1. Held(<<>>) = 0 /\ Held(InLoop) \in Nat /\ Held(InWriter) \in Nat
    BY DEF Held
  <2>2. permits \in Nat /\ Cardinality(ops) \in Nat
    BY FS_CardinalityType DEF ConnectionInv, TypesRight
  <2>3. permits + Cardinality(ops) + Held(InLoop) + 0 + Held(InWriter) = MaxInFlight
    BY <1>1, <2>1 DEF ConnectionInv, PermitsRight
  <2>4. permits + Cardinality(ops) + 0 + Held(InLoop) + Held(InWriter) = MaxInFlight
    BY <2>1, <2>2, <2>3
  <2> QED
    BY <1>1, <1>7, <2>1, <2>4 DEF PermitsRight
<1>9. /\ Entries[4] = {x} /\ Entries[6] = {} /\ Entries'[4] = {} /\ Entries'[6] = {x}
      /\ \A k \in Places \ {4, 6} : Entries'[k] = Entries[k]
  <2>1. Names(Items(loop.response)) = {x}
    BY <1>4, NamesAre
  <2>2. Items(<<>>) = {} /\ Names({}) = {}
    BY DEF Items, Names
  <2>3. Entries[4] = {x} /\ Entries[6] = {} /\ Entries'[4] = {} /\ Entries'[6] = {x}
    BY <1>1, <1>3, <2>1, <2>2, EntriesAre, EntriesNext
  <2>4. \A k \in Places \ {4, 6} : Entries'[k] = Entries[k]
    BY <1>1, <1>7 DEF Entries, Places, wire
  <2> QED
    BY <2>3, <2>4
<1> HIDE DEF x
<1>10. FlowRight'
  <2>1. 4 \in Places /\ 6 \in Places /\ 6 # 4
    BY DEF Places
  <2>2. x \in Entries[4] /\ Entries'[4] = {} /\ Entries'[6] \subseteq Entries[6] \cup {x}
    BY <1>9
  <2>3. \A k \in Places \ {4, 6} : Entries'[k] \subseteq Entries[k]
    BY <1>9
  <2>4. FlowRight
    BY DEF ConnectionInv
  <2>5. Apart(Entries') /\ \A k \in Places : Entries'[k] \subseteq Owed
    BY <2>1, <2>2, <2>3, <2>4, NameMoves
  <2>6. Distinct(requests') /\ Distinct(replies') /\ \A p, q \in ops' : p.tag = q.tag => p = q
    BY <1>1, <2>4 DEF FlowRight, wire
  <2> QED
    BY <2>5, <2>6, FlowKeeps
<1>11. LiveRight'
  <2>1. Serving' => Serving
    BY <1>1, <1>3 DEF Serving
  <2>2. Middle' = Middle
    <3>1. Entries'[5] = Entries[5] /\ Entries'[7] = Entries[7]
      BY <1>9 DEF Places
    <3> QED
      BY <1>9, <3>1 DEF Middle
  <2> QED
    BY <1>1, <2>1, <2>2, LiveStays DEF ConnectionInv
<1>12. PoliteRight'
  <2>1. Items(loop'.response) = {}
    BY <1>3 DEF Items
  <2> QED
    BY <1>1, <2>1, PoliteSame DEF ConnectionInv, wire
<1> QED
  BY <1>5, <1>6, <1>8, <1>10, <1>11, <1>12, ServerKeeps

\* The writer has gone: the loop keeps its answer's permit and leaves.
LEMMA LoopCannotAnswerKeeps ==
  ASSUME ConnectionInv, UNCHANGED peer, LoopCannotAnswer
  PROVE  ConnectionInv'
<1> DEFINE r == loop.response[1]
<1>1. /\ loop.pc = "answering" /\ writer.pc = "ended"
      /\ permits' = PermitBack(r)
      /\ loop' = [loop EXCEPT !.pc = "leaving", !.response = <<>>]
      /\ UNCHANGED <<wire, reader, frames, live, ops, responses, writer, registered>>
  BY DEF LoopCannotAnswer
<1>2. loop' = [pc |-> "leaving", response |-> <<>>, close |-> loop.close, receipt |-> loop.receipt]
  BY <1>1, TasksAre DEF ConnectionInv
<1>3. /\ loop' \in Loop /\ loop'.pc = "leaving" /\ loop'.response = <<>> /\ loop'.close = loop.close
  <2>1. loop.close \in BOOLEAN /\ loop.receipt \in {"none", "sent", "dropped"}
    BY TasksAre DEF ConnectionInv
  <2> QED
    BY <1>2, <2>1 DEF Loop
<1>4. loop.response \in Seq(Response) /\ Len(loop.response) = 1 /\ loop.response # <<>>
  <2>1. loop.response \in Seq(Response) /\ Len(loop.response) = 1
    BY <1>1, TasksAre DEF ConnectionInv, TypesRight
  <2> QED
    BY <2>1, AtMostOne
<1>5. permits \in Nat /\ permits' \in Nat /\ permits' = permits + Held(loop.response)
  <2>1. permits \in Nat
    BY DEF ConnectionInv, TypesRight
  <2>2. CASE r.permit
    <3>1. permits' = permits + 1
      BY <1>1, <2>2 DEF PermitBack
    <3>2. Held(loop.response) = 1
      BY <1>4, <2>2 DEF Held
    <3> QED
      BY <2>1, <3>1, <3>2
  <2>3. CASE ~r.permit
    <3>1. permits' = permits
      BY <1>1, <2>3 DEF PermitBack
    <3>2. Held(loop.response) = 0
      BY <1>4, <2>3 DEF Held
    <3> QED
      BY <2>1, <3>1, <3>2
  <2> QED
    BY <2>2, <2>3
<1> HIDE DEF r
<1>6. TypesRight'
  BY <1>1, <1>3, <1>5 DEF ConnectionInv, TypesRight, WireTypeOK, wire
<1>7. StagesRight'
  BY <1>1, <1>3 DEF ConnectionInv, StagesRight
<1>8. /\ InLoop = loop.response /\ InLoop' = <<>> /\ InWriter' = InWriter
  BY <1>1, <1>3 DEF InLoop, InWriter
<1>9. PermitsRight'
  <2>1. Held(<<>>) = 0 /\ Held(InLoop) \in Nat /\ Held(InWriter) \in Nat /\ Held(responses) \in Nat
    BY DEF Held
  <2>2. Cardinality(ops) \in Nat
    BY FS_CardinalityType DEF ConnectionInv, TypesRight
  <2>3. permits + Cardinality(ops) + Held(InLoop) + Held(responses) + Held(InWriter) = MaxInFlight
    BY DEF ConnectionInv, PermitsRight
  <2>4. permits' + Cardinality(ops) + 0 + Held(responses) + Held(InWriter) = MaxInFlight
    BY <1>5, <1>8, <2>1, <2>2, <2>3
  <2> QED
    BY <1>1, <1>8, <2>1, <2>4 DEF PermitsRight
<1>10. FlowRight'
  <2>1. Items(<<>>) = {} /\ Names({}) = {}
    BY DEF Items, Names
  <2>2. Entries'[4] = {}
    BY <1>3, <2>1, EntriesNext
  <2>3. \A k \in Places \ {4} : Entries'[k] = Entries[k]
    BY <1>1, <1>8 DEF Entries, Places, wire
  <2>4. \A k \in Places : Entries'[k] \subseteq Entries[k]
    BY <2>2, <2>3
  <2>5. Apart(Entries) /\ \A k \in Places : Entries[k] \subseteq Owed
    BY DEF ConnectionInv, FlowRight
  <2>6. Apart(Entries') /\ \A k \in Places : Entries'[k] \subseteq Owed
    BY <2>4, <2>5, FramesStay
  <2>7. Distinct(requests') /\ Distinct(replies') /\ \A p, q \in ops' : p.tag = q.tag => p = q
    BY <1>1 DEF ConnectionInv, FlowRight, wire
  <2> QED
    BY <2>6, <2>7, FlowKeeps
<1>11. LiveRight'
  BY <1>3 DEF LiveRight, Serving
<1>12. PoliteRight'
  <2>1. Items(loop'.response) = {}
    BY <1>3 DEF Items
  <2> QED
    BY <1>1, <2>1, PoliteSame DEF ConnectionInv, wire
<1> QED
  BY <1>6, <1>7, <1>9, <1>10, <1>11, <1>12, ServerKeeps

-----------------------------------------------------------------------------
(* Operations.                                                             *)

\* An operation ends: its task goes on under the same name.
LEMMA OpFinishKeeps ==
  ASSUME ConnectionInv, UNCHANGED peer, NEW op \in ops, OpFinish(op)
  PROVE  ConnectionInv'
<1> DEFINE done == [op EXCEPT !.pc = "sending"]
<1>1. /\ op.pc = "running" /\ ops' = (ops \ {op}) \cup {done}
      /\ UNCHANGED <<wire, reader, frames, loop, live, permits, responses, writer, registered>>
  BY DEF OpFinish
<1>2. op \in Op /\ IsFiniteSet(ops) /\ Cardinality(ops) \in Nat
  BY FS_CardinalityType DEF ConnectionInv, TypesRight
<1>3. done \in Op /\ done.id = op.id /\ done.tag = op.tag /\ done.pc = "sending"
  BY <1>2 DEF Op
<1> HIDE DEF done
<1>4. \A o, p \in ops : o.tag = p.tag => o = p
  BY DEF ConnectionInv, FlowRight
<1>5. \A o \in ops \ {op} : o.tag # done.tag
  BY <1>3, <1>4
<1>6. IsFiniteSet(ops') /\ Cardinality(ops') = Cardinality(ops)
  <2>1. IsFiniteSet(ops \ {op}) /\ Cardinality(ops \ {op}) = Cardinality(ops) - 1
    BY <1>2, FS_RemoveElement
  <2>2. done \notin ops \ {op}
    BY <1>5
  <2>3. IsFiniteSet(ops') /\ Cardinality(ops') = Cardinality(ops \ {op}) + 1
    BY <1>1, <2>1, <2>2, FS_AddElement
  <2> QED
    BY <1>2, <2>1, <2>3
<1>7. TypesRight'
  <2>1. ops' \subseteq Op
    BY <1>1, <1>3 DEF ConnectionInv, TypesRight
  <2> QED
    BY <1>1, <1>6, <2>1 DEF ConnectionInv, TypesRight, WireTypeOK, wire
<1>8. InLoop' = InLoop /\ InWriter' = InWriter
  BY <1>1 DEF InLoop, InWriter
<1>9. StagesRight'
  BY <1>1 DEF ConnectionInv, StagesRight
<1>10. PermitsRight'
  BY <1>1, <1>6, <1>8 DEF ConnectionInv, PermitsRight
<1>11. Entries' = Entries
  <2>1. Names(ops') = Names(ops)
    <3>1. Names(ops') = Names(ops \ {op}) \cup {<<done.id, done.tag>>}
      BY <1>1, NamesAre
    <3>2. ops = (ops \ {op}) \cup {op}
      OBVIOUS
    <3>3. Names(ops) = Names(ops \ {op}) \cup {<<op.id, op.tag>>}
      BY <3>2, NamesAre
    <3> QED
      BY <1>3, <3>1, <3>3
  <2> QED
    BY <1>1, <1>8, <2>1 DEF Entries, wire
<1>12. FlowRight'
  <2>1. \A o, p \in ops' : o.tag = p.tag => o = p
    BY <1>1, <1>4, <1>5
  <2>2. /\ Apart(Entries') /\ \A k \in Places : Entries'[k] \subseteq Owed
        /\ Distinct(requests') /\ Distinct(replies')
    BY <1>1, <1>11 DEF ConnectionInv, FlowRight, wire
  <2> QED
    BY <2>1, <2>2, FlowKeeps
<1>13. LiveRight'
  <2>1. Serving' = Serving /\ Middle' = Middle
    BY <1>1, <1>11 DEF Serving, Middle
  <2> QED
    BY <1>1, <2>1, LiveStays DEF ConnectionInv
<1>14. PoliteRight'
  BY <1>1, PoliteSame DEF ConnectionInv, wire
<1> QED
  BY <1>7, <1>9, <1>10, <1>12, <1>13, <1>14, ServerKeeps

\* What is left of the operations without one of them.
LEMMA OpLeaves ==
  ASSUME ConnectionInv, NEW op \in ops, ops' = ops \ {op}
  PROVE  /\ ops' \subseteq Op /\ IsFiniteSet(ops')
         /\ Cardinality(ops') \in Nat /\ Cardinality(ops) = Cardinality(ops') + 1
         /\ op.id \in RequestIds /\ op.tag \in Tags
         /\ <<op.id, op.tag>> \in Entries[5] /\ Entries'[5] = Entries[5] \ {<<op.id, op.tag>>}
         /\ \A o, p \in ops' : o.tag = p.tag => o = p
<1>1. /\ ops \subseteq Op /\ IsFiniteSet(ops) /\ Cardinality(ops) \in Nat
      /\ \A o, p \in ops : o.tag = p.tag => o = p
  BY FS_CardinalityType DEF ConnectionInv, TypesRight, FlowRight
<1>2. IsFiniteSet(ops') /\ Cardinality(ops') = Cardinality(ops) - 1
  BY <1>1, FS_RemoveElement
<1>3. Cardinality(ops') \in Nat
  BY <1>2, FS_CardinalityType
<1>4. Cardinality(ops) = Cardinality(ops') + 1
  BY <1>1, <1>2
<1>5. op.id \in RequestIds /\ op.tag \in Tags
  BY <1>1 DEF Op
<1>6. <<op.id, op.tag>> \in Names(ops) /\ Names(ops') = Names(ops) \ {<<op.id, op.tag>>}
  BY <1>1 DEF Names
<1>7. <<op.id, op.tag>> \in Entries[5] /\ Entries'[5] = Entries[5] \ {<<op.id, op.tag>>}
  BY <1>6, EntriesAre, EntriesNext
<1> QED
  BY <1>1, <1>2, <1>3, <1>4, <1>5, <1>7

\* Its response is queued and takes the permit along.
LEMMA OpSendKeeps ==
  ASSUME ConnectionInv, UNCHANGED peer, NEW op \in ops, OpSend(op)
  PROVE  ConnectionInv'
<1> DEFINE x == <<op.id, op.tag>>
           r == [id |-> op.id, tag |-> op.tag, status |-> "answer",
                 permit |-> TRUE, receipt |-> FALSE]
<1>1. /\ op.pc = "sending" /\ responses = <<>> /\ writer.pc # "ended"
      /\ ops' = ops \ {op} /\ responses' = <<r>>
      /\ UNCHANGED <<wire, reader, frames, loop, live, permits, writer, registered>>
  BY DEF OpSend
<1>2. /\ ops' \subseteq Op /\ IsFiniteSet(ops')
      /\ Cardinality(ops') \in Nat /\ Cardinality(ops) = Cardinality(ops') + 1
      /\ op.id \in RequestIds /\ op.tag \in Tags
      /\ x \in Entries[5] /\ Entries'[5] = Entries[5] \ {x}
      /\ \A o, p \in ops' : o.tag = p.tag => o = p
  BY <1>1, OpLeaves
<1>3. r \in Response /\ r.id = op.id /\ r.tag = op.tag /\ r.permit = TRUE /\ r.status = "answer"
  BY <1>2 DEF Response, Statuses
<1> HIDE DEF r
<1>4. responses' \in Seq(Response) /\ Len(responses') = 1 /\ Items(responses') = {r}
      /\ Held(responses') = 1
  BY <1>1, <1>3 DEF Items, Held
<1>5. TypesRight'
  BY <1>1, <1>2, <1>4 DEF ConnectionInv, TypesRight, WireTypeOK, wire
<1>6. StagesRight'
  BY <1>1 DEF ConnectionInv, StagesRight
<1>7. InLoop' = InLoop /\ InWriter' = InWriter
  BY <1>1 DEF InLoop, InWriter
<1>8. PermitsRight'
  <2>1. Held(<<>>) = 0 /\ Held(InLoop) \in Nat /\ Held(InWriter) \in Nat /\ permits \in Nat
    BY DEF Held, ConnectionInv, TypesRight
  <2>2. permits + Cardinality(ops) + Held(InLoop) + 0 + Held(InWriter) = MaxInFlight
    BY <1>1, <2>1 DEF ConnectionInv, PermitsRight
  <2>3. permits + Cardinality(ops') + Held(InLoop) + 1 + Held(InWriter) = MaxInFlight
    BY <1>2, <2>1, <2>2
  <2> QED
    BY <1>1, <1>4, <1>7, <2>3 DEF PermitsRight
<1>9. /\ Entries[6] = {} /\ Entries'[6] = {x}
      /\ \A k \in Places \ {5, 6} : Entries'[k] = Entries[k]
  <2>1. Names(Items(responses')) = {x}
    BY <1>3, <1>4, NamesAre
  <2>2. Items(<<>>) = {} /\ Names({}) = {}
    BY DEF Items, Names
  <2>3. Entries[6] = {} /\ Entries'[6] = {x}
    BY <1>1, <2>1, <2>2, EntriesAre, EntriesNext
  <2>4. \A k \in Places \ {5, 6} : Entries'[k] = Entries[k]
    BY <1>1, <1>7 DEF Entries, Places, wire
  <2> QED
    BY <2>3, <2>4
<1> HIDE DEF x
<1>10. FlowRight'
  <2>1. 5 \in Places /\ 6 \in Places /\ 5 # 6
    BY DEF Places
  <2>2. x \in Entries[5] /\ Entries'[5] \subseteq Entries[5] \ {x} /\ Entries'[6] \subseteq Entries[6] \cup {x}
    BY <1>2, <1>9
  <2>3. \A k \in Places \ {5, 6} : Entries'[k] \subseteq Entries[k]
    BY <1>9
  <2>4. Apart(Entries) /\ \A k \in Places : Entries[k] \subseteq Owed
    BY DEF ConnectionInv, FlowRight
  <2>5. Apart(Entries') /\ \A k \in Places : Entries'[k] \subseteq Owed
    BY <2>1, <2>2, <2>3, <2>4, FrameMoves
  <2>6. Distinct(requests') /\ Distinct(replies')
    BY <1>1 DEF ConnectionInv, FlowRight, wire
  <2> QED
    BY <1>2, <2>5, <2>6, FlowKeeps
<1>11. LiveRight'
  <2>1. Serving' => Serving
    BY <1>1 DEF Serving
  <2>2. Middle' = Middle
    <3>1. Entries'[4] = Entries[4] /\ Entries'[7] = Entries[7]
      BY <1>9 DEF Places
    <3> QED
      BY <1>2, <1>9, <3>1 DEF Middle
  <2> QED
    BY <1>1, <2>1, <2>2, LiveStays DEF ConnectionInv
<1>12. PoliteRight'
  <2>1. \A q \in Items(replies') : q.status \notin undue
    BY <1>1 DEF ConnectionInv, PoliteRight, wire
  <2>2. writer'.pc # "ended" =>
          \A q \in Items(loop'.response) \cup Items(responses') \cup Items(writer'.response) :
            q.status \notin undue
    <3>1. r.status \notin undue
      BY <1>3 DEF Refusals, ConnectionInv, PeerRight
    <3> QED
      BY <1>1, <1>4, <3>1 DEF ConnectionInv, PoliteRight
  <2> QED
    BY <2>1, <2>2, PoliteKeeps DEF ConnectionInv
<1> QED
  BY <1>5, <1>6, <1>8, <1>10, <1>11, <1>12, ServerKeeps

\* An operation is dropped with its permit, when the connection ends.
LEMMA OpDroppedKeeps ==
  ASSUME ConnectionInv, UNCHANGED peer, NEW op \in ops, OpDropped(op)
  PROVE  ConnectionInv'
<1>1. /\ writer.pc = "ended" \/ loop.pc = "draining"
      /\ ops' = ops \ {op} /\ permits' = permits + 1
      /\ UNCHANGED <<wire, reader, frames, loop, live, responses, writer, registered>>
  BY DEF OpDropped
<1>2. /\ ops' \subseteq Op /\ IsFiniteSet(ops')
      /\ Cardinality(ops') \in Nat /\ Cardinality(ops) = Cardinality(ops') + 1
      /\ Entries'[5] \subseteq Entries[5]
      /\ \A o, p \in ops' : o.tag = p.tag => o = p
  BY <1>1, OpLeaves
<1>3. permits \in Nat /\ permits' \in Nat
  BY <1>1 DEF ConnectionInv, TypesRight
<1>4. TypesRight'
  BY <1>1, <1>2, <1>3 DEF ConnectionInv, TypesRight, WireTypeOK, wire
<1>5. StagesRight'
  BY <1>1 DEF ConnectionInv, StagesRight
<1>6. InLoop' = InLoop /\ InWriter' = InWriter
  BY <1>1 DEF InLoop, InWriter
<1>7. PermitsRight'
  <2>1. Held(InLoop) \in Nat /\ Held(InWriter) \in Nat /\ Held(responses) \in Nat
    BY DEF Held
  <2>2. permits + Cardinality(ops) + Held(InLoop) + Held(responses) + Held(InWriter) = MaxInFlight
    BY DEF ConnectionInv, PermitsRight
  <2>3. permits' + Cardinality(ops') + Held(InLoop) + Held(responses) + Held(InWriter) = MaxInFlight
    BY <1>1, <1>2, <1>3, <2>1, <2>2
  <2> QED
    BY <1>1, <1>6, <2>3 DEF PermitsRight
<1>8. FlowRight'
  <2>1. \A k \in Places \ {5} : Entries'[k] = Entries[k]
    BY <1>1, <1>6 DEF Entries, Places, wire
  <2>2. \A k \in Places : Entries'[k] \subseteq Entries[k]
    BY <1>2, <2>1
  <2>3. Apart(Entries) /\ \A k \in Places : Entries[k] \subseteq Owed
    BY DEF ConnectionInv, FlowRight
  <2>4. Apart(Entries') /\ \A k \in Places : Entries'[k] \subseteq Owed
    BY <2>2, <2>3, FramesStay
  <2>5. Distinct(requests') /\ Distinct(replies')
    BY <1>1 DEF ConnectionInv, FlowRight, wire
  <2> QED
    BY <1>2, <2>4, <2>5, FlowKeeps
<1>9. LiveRight'
  BY <1>1 DEF LiveRight, Serving
<1>10. PoliteRight'
  BY <1>1, PoliteSame DEF ConnectionInv, wire
<1> QED
  BY <1>4, <1>5, <1>7, <1>8, <1>9, <1>10, ServerKeeps

-----------------------------------------------------------------------------
(* The writer task.                                                        *)

\* What the frame loop learns of its answer changes only its receipt.
LEMMA ReceiptSame ==
  ASSUME ConnectionInv, NEW o \in {"sent", "dropped"}, NEW S, loop' = ReceiptIs(o, S)
  PROVE  /\ loop' \in Loop /\ loop'.pc = loop.pc /\ loop'.response = loop.response
         /\ loop'.close = loop.close
<1>1. loop \in Loop
  BY DEF ConnectionInv, TypesRight
<1>2. CASE loop' = loop
  BY <1>1, <1>2
<1>3. CASE loop' = [loop EXCEPT !.receipt = o]
  <2>1. loop' = [pc |-> loop.pc, response |-> loop.response, close |-> loop.close, receipt |-> o]
    BY <1>3, TasksAre DEF ConnectionInv
  <2>2. loop.pc \in {"hello", "greeting", "select", "answering", "receipt", "leaving",
                     "draining", "done"}
        /\ loop.response \in Seq(Response) /\ loop.close \in BOOLEAN
    BY <1>1 DEF Loop
  <2>3. [pc |-> loop.pc, response |-> loop.response, close |-> loop.close, receipt |-> o] \in Loop
    BY <2>2 DEF Loop
  <2> QED
    BY <2>1, <2>3
<1> QED
  BY <1>2, <1>3 DEF ReceiptIs

\* The writer's response.
LEMMA WriterHolds ==
  ASSUME ConnectionInv, writer.pc \in {"releasing", "writing", "written"}
  PROVE  /\ writer.response = <<writer.response[1]>> /\ writer.response[1] \in Response
         /\ Items(writer.response) = {writer.response[1]}
         /\ Names(Items(writer.response)) = {<<writer.response[1].id, writer.response[1].tag>>}
<1>1. writer.response \in Seq(Response) /\ Len(writer.response) = 1
  BY TasksAre DEF ConnectionInv, TypesRight
<1>2. /\ writer.response = <<writer.response[1]>> /\ writer.response[1] \in Response
      /\ Items(writer.response) = {writer.response[1]}
  BY <1>1, AtMostOne
<1> QED
  BY <1>2, NamesAre

\* The next response is taken from the channel.
LEMMA WriterReceiveKeeps ==
  ASSUME ConnectionInv, UNCHANGED peer, WriterReceive
  PROVE  ConnectionInv'
<1> DEFINE r == responses[1]
           x == <<r.id, r.tag>>
<1>1. /\ writer.pc = "receiving" /\ responses # <<>> /\ responses' = <<>>
      /\ writer' = [pc |-> "releasing", response |-> responses]
      /\ UNCHANGED <<wire, reader, frames, loop, live, permits, ops, registered>>
  BY DEF WriterReceive
<1>2. responses \in Seq(Response) /\ Len(responses) = 1
  <2>1. responses \in Seq(Response) /\ Len(responses) <= 1
    BY DEF ConnectionInv, TypesRight
  <2>2. Len(responses) \in Nat /\ Len(responses) # 0
    BY <1>1, <2>1, AtMostOne
  <2> QED
    BY <2>1, <2>2, NoneOrOne, Zenon
<1>3. Items(responses) = {r}
  BY <1>2, AtMostOne
<1> HIDE DEF r
<1>4. writer' \in Writer /\ writer'.pc = "releasing" /\ writer'.response = responses
  BY <1>1, <1>2 DEF Writer
<1>5. TypesRight'
  <2>1. responses' \in Seq(Response) /\ Len(responses') <= 1
    BY <1>1
  <2> QED
    BY <1>1, <1>2, <1>4, <2>1 DEF ConnectionInv, TypesRight, WireTypeOK, wire
<1>6. StagesRight'
  BY <1>1, <1>4 DEF ConnectionInv, StagesRight
<1>7. InLoop' = InLoop /\ InWriter = <<>> /\ InWriter' = responses
  BY <1>1, <1>4 DEF InLoop, InWriter
<1>8. PermitsRight'
  <2>1. Held(<<>>) = 0 /\ Held(InLoop) \in Nat /\ Held(responses) \in Nat /\ permits \in Nat
    BY DEF Held, ConnectionInv, TypesRight
  <2>2. Cardinality(ops) \in Nat
    BY FS_CardinalityType DEF ConnectionInv, TypesRight
  <2>3. permits + Cardinality(ops) + Held(InLoop) + Held(responses) + 0 = MaxInFlight
    BY <1>7, <2>1 DEF ConnectionInv, PermitsRight
  <2>4. permits + Cardinality(ops) + Held(InLoop) + 0 + Held(responses) = MaxInFlight
    BY <2>1, <2>2, <2>3
  <2> QED
    BY <1>1, <1>7, <2>1, <2>4 DEF PermitsRight
<1>9. /\ Entries[6] = {x} /\ Entries[7] = {} /\ Entries'[6] = {} /\ Entries'[7] = {x}
      /\ \A k \in Places \ {6, 7} : Entries'[k] = Entries[k]
  <2>1. Names(Items(responses)) = {x}
    BY <1>3, NamesAre
  <2>2. Items(<<>>) = {} /\ Names({}) = {}
    BY DEF Items, Names
  <2>3. Entries[6] = {x} /\ Entries[7] = {} /\ Entries'[6] = {} /\ Entries'[7] = {x}
    BY <1>1, <1>7, <2>1, <2>2, EntriesAre, EntriesNext
  <2>4. \A k \in Places \ {6, 7} : Entries'[k] = Entries[k]
    <3>1. Entries'[8] = Entries[8]
      BY <1>1, <1>4, EntriesAre, EntriesNext
    <3> QED
      BY <1>1, <3>1 DEF Entries, Places, wire
  <2> QED
    BY <2>3, <2>4
<1> HIDE DEF x
<1>10. FlowRight'
  <2>1. 6 \in Places /\ 7 \in Places /\ 7 # 6
    BY DEF Places
  <2>2. x \in Entries[6] /\ Entries'[6] = {} /\ Entries'[7] \subseteq Entries[7] \cup {x}
    BY <1>9
  <2>3. \A k \in Places \ {6, 7} : Entries'[k] \subseteq Entries[k]
    BY <1>9
  <2>4. FlowRight
    BY DEF ConnectionInv
  <2>5. Apart(Entries') /\ \A k \in Places : Entries'[k] \subseteq Owed
    BY <2>1, <2>2, <2>3, <2>4, NameMoves
  <2>6. Distinct(requests') /\ Distinct(replies') /\ \A p, q \in ops' : p.tag = q.tag => p = q
    BY <1>1, <2>4 DEF FlowRight, wire
  <2> QED
    BY <2>5, <2>6, FlowKeeps
<1>11. LiveRight'
  <2>1. Serving' => Serving
    BY <1>1 DEF Serving
  <2>2. Middle' = Middle
    <3>1. Entries'[4] = Entries[4] /\ Entries'[5] = Entries[5]
      BY <1>9 DEF Places
    <3> QED
      BY <1>9, <3>1 DEF Middle
  <2> QED
    BY <1>1, <2>1, <2>2, LiveStays DEF ConnectionInv
<1>12. PoliteRight'
  <2>1. Items(responses') = {}
    BY <1>1 DEF Items
  <2> QED
    BY <1>1, <1>4, <2>1, PoliteSame DEF ConnectionInv, wire
<1> QED
  BY <1>5, <1>6, <1>8, <1>10, <1>11, <1>12, ServerKeeps

\* A live identifier goes with its one name.
LEMMA LiveLoses ==
  ASSUME LiveRight, NEW i, NEW t, Serving' => Serving, <<i, t>> \in Middle,
         Serving' => live' = live \ {i} /\ Middle' = Middle \ {<<i, t>>}
  PROVE  LiveRight'
<1>1. SUFFICES ASSUME Serving'
               PROVE  /\ live' = {e[1] : e \in Middle'}
                      /\ \A d, e \in Middle' : d[1] = e[1] => d = e
  BY DEF LiveRight
<1>2. /\ live = {e[1] : e \in Middle} /\ \A d, e \in Middle : d[1] = e[1] => d = e
  BY <1>1 DEF LiveRight
<1>3. live' = live \ {i} /\ Middle' = Middle \ {<<i, t>>}
  BY <1>1
<1>4. <<i, t>>[1] = i
  OBVIOUS
<1>5. \A e \in Middle : e[1] = i => e = <<i, t>>
  BY <1>2, <1>4
<1>6. live' = {e[1] : e \in Middle'}
  BY <1>2, <1>3, <1>4, <1>5
<1> QED
  BY <1>2, <1>3, <1>6

\* Changing the one thing in a sequence.
LEMMA OnlyOne ==
  ASSUME NEW a, NEW b
  PROVE  [<<a>> EXCEPT ![1] = b] = <<b>>
<1>1. DOMAIN <<a>> = {1} /\ DOMAIN <<b>> = {1} /\ <<b>>[1] = b
  OBVIOUS
<1>2. [<<a>> EXCEPT ![1] = b] = [k \in {1} |-> b]
  BY <1>1
<1>3. <<b>> = [k \in {1} |-> b]
  BY <1>1
<1> QED
  BY <1>2, <1>3

\* The writer gives permit and identifier back before it writes.
LEMMA WriterReleaseKeeps ==
  ASSUME ConnectionInv, UNCHANGED peer, WriterRelease
  PROVE  ConnectionInv'
<1> DEFINE r == writer.response[1]
           x == <<r.id, r.tag>>
           s == [r EXCEPT !.permit = FALSE]
<1>1. /\ writer.pc = "releasing" /\ permits' = PermitBack(r) /\ live' = live \ {r.id}
      /\ writer' = [writer EXCEPT !.pc = "writing", !.response[1].permit = FALSE]
      /\ UNCHANGED <<wire, reader, frames, loop, ops, responses, registered>>
  BY DEF WriterRelease, IdBack
<1>2. /\ writer.response = <<r>> /\ r \in Response
      /\ Items(writer.response) = {r} /\ Names(Items(writer.response)) = {x}
  BY <1>1, WriterHolds
<1>3. s \in Response /\ s.id = r.id /\ s.tag = r.tag /\ s.permit = FALSE /\ s.status = r.status
  BY <1>2 DEF Response
<1>4. writer' = [pc |-> "writing", response |-> <<s>>]
  <2>1. writer' = [pc |-> "writing", response |-> [writer.response EXCEPT ![1].permit = FALSE]]
    BY <1>1, TasksAre DEF ConnectionInv
  <2>2. [writer.response EXCEPT ![1].permit = FALSE] = [<<r>> EXCEPT ![1] = s]
    BY <1>2
  <2>3. [<<r>> EXCEPT ![1] = s] = <<s>>
    BY OnlyOne
  <2> QED
    BY <2>1, <2>2, <2>3
<1> HIDE DEF s
<1>5. /\ writer' \in Writer /\ writer'.pc = "writing" /\ writer'.response = <<s>>
      /\ Len(writer'.response) = 1 /\ Items(writer'.response) = {s} /\ writer'.response[1] = s
  <2>1. <<s>> \in Seq(Response) /\ Len(<<s>>) = 1 /\ Items(<<s>>) = {s} /\ <<s>>[1] = s
    BY <1>3 DEF Items
  <2> QED
    BY <1>4, <2>1 DEF Writer
<1>6. permits \in Nat /\ permits' \in Nat /\ permits' = permits + Held(writer.response)
  <2>1. permits \in Nat /\ writer.response # <<>>
    BY <1>2 DEF ConnectionInv, TypesRight
  <2>2. CASE r.permit
    <3>1. permits' = permits + 1
      BY <1>1, <2>2 DEF PermitBack
    <3>2. Held(writer.response) = 1
      BY <2>1, <2>2 DEF Held
    <3> QED
      BY <2>1, <3>1, <3>2
  <2>3. CASE ~r.permit
    <3>1. permits' = permits
      BY <1>1, <2>3 DEF PermitBack
    <3>2. Held(writer.response) = 0
      BY <2>1, <2>3 DEF Held
    <3> QED
      BY <2>1, <3>1, <3>2
  <2> QED
    BY <2>2, <2>3
<1> HIDE DEF r
<1>7. TypesRight'
  <2>1. live' \subseteq RequestIds
    BY <1>1 DEF ConnectionInv, TypesRight
  <2> QED
    BY <1>1, <1>5, <1>6, <2>1 DEF ConnectionInv, TypesRight, WireTypeOK, wire
<1>8. StagesRight'
  <2>1. ~writer'.response[1].permit
    BY <1>3, <1>5
  <2>2. loop.pc \notin {"hello", "greeting"}
    BY <1>1 DEF ConnectionInv, StagesRight
  <2> QED
    BY <1>1, <2>1, <2>2 DEF ConnectionInv, StagesRight
<1>9. InLoop' = InLoop /\ InWriter = writer.response /\ InWriter' = <<>>
  BY <1>1, <1>5 DEF InLoop, InWriter
<1>10. PermitsRight'
  <2>1. Held(<<>>) = 0 /\ Held(InLoop) \in Nat /\ Held(responses) \in Nat /\ Held(InWriter) \in Nat
    BY DEF Held
  <2>2. Cardinality(ops) \in Nat
    BY FS_CardinalityType DEF ConnectionInv, TypesRight
  <2>3. permits + Cardinality(ops) + Held(InLoop) + Held(responses) + Held(InWriter) = MaxInFlight
    BY DEF ConnectionInv, PermitsRight
  <2>4. permits' + Cardinality(ops) + Held(InLoop) + Held(responses) + 0 = MaxInFlight
    BY <1>6, <1>9, <2>1, <2>2, <2>3
  <2> QED
    BY <1>1, <1>9, <2>1, <2>4 DEF PermitsRight
<1>11. /\ Entries[7] = {x} /\ Entries[8] = {} /\ Entries'[7] = {} /\ Entries'[8] = {x}
       /\ \A k \in Places \ {7, 8} : Entries'[k] = Entries[k]
  <2>1. Names(Items(writer'.response)) = {x}
    BY <1>3, <1>5, NamesAre
  <2>2. Items(<<>>) = {} /\ Names({}) = {}
    BY DEF Items, Names
  <2>3. Entries[7] = {x} /\ Entries'[7] = {}
    BY <1>2, <1>9, <2>2, EntriesAre, EntriesNext
  <2>4. Entries[8] = {}
    BY <1>1, <2>2, EntriesAre
  <2>5. Entries'[8] = {x}
    BY <1>5, <2>1, EntriesNext
  <2>6. \A k \in Places \ {7, 8} : Entries'[k] = Entries[k]
    BY <1>1 DEF Entries, Places, wire
  <2> QED
    BY <2>3, <2>4, <2>5, <2>6
<1>12. FlowRight'
  <2> HIDE DEF x
  <2>1. 7 \in Places /\ 8 \in Places /\ 8 # 7
    BY DEF Places
  <2>2. x \in Entries[7] /\ Entries'[7] = {} /\ Entries'[8] \subseteq Entries[8] \cup {x}
    BY <1>11
  <2>3. \A k \in Places \ {7, 8} : Entries'[k] \subseteq Entries[k]
    BY <1>11
  <2>4. FlowRight
    BY DEF ConnectionInv
  <2>5. Apart(Entries') /\ \A k \in Places : Entries'[k] \subseteq Owed
    BY <2>1, <2>2, <2>3, <2>4, NameMoves
  <2>6. Distinct(requests') /\ Distinct(replies') /\ \A p, q \in ops' : p.tag = q.tag => p = q
    BY <1>1, <2>4 DEF FlowRight, wire
  <2> QED
    BY <2>5, <2>6, FlowKeeps
<1>13. LiveRight'
  <2>1. Serving' => Serving
    BY <1>1 DEF Serving
  <2>2. x \in Middle /\ Middle' = Middle \ {x}
    <3> HIDE DEF x
    <3>1. Entries'[4] = Entries[4] /\ Entries'[5] = Entries[5] /\ Entries'[6] = Entries[6]
      BY <1>11 DEF Places
    <3>2. x \notin Entries[4] /\ x \notin Entries[5] /\ x \notin Entries[6]
      BY <1>11 DEF ConnectionInv, FlowRight, Apart, Places
    <3> QED
      BY <1>11, <3>1, <3>2 DEF Middle
  <2> QED
    BY <1>1, <2>1, <2>2, LiveLoses DEF ConnectionInv
<1>14. PoliteRight'
  <2>1. \A q \in Items(replies') : q.status \notin undue
    BY <1>1 DEF ConnectionInv, PoliteRight, wire
  <2>2. writer'.pc # "ended" =>
          \A q \in Items(loop'.response) \cup Items(responses') \cup Items(writer'.response) :
            q.status \notin undue
    BY <1>1, <1>2, <1>3, <1>5 DEF ConnectionInv, PoliteRight
  <2> QED
    BY <2>1, <2>2, PoliteKeeps DEF ConnectionInv
<1> QED
  BY <1>7, <1>8, <1>10, <1>12, <1>13, <1>14, ServerKeeps

\* The reply goes into the socket.
LEMMA WriterWriteKeeps ==
  ASSUME ConnectionInv, UNCHANGED peer, WriterWrite
  PROVE  ConnectionInv'
<1> DEFINE r == writer.response[1]
           x == <<r.id, r.tag>>
<1>1. /\ writer.pc = "writing" /\ Len(replies) < Buffer
      /\ replies' = Append(replies, ReplyOf(r)) /\ writer' = [writer EXCEPT !.pc = "written"]
      /\ UNCHANGED <<requests, clientOpen, reader, frames, loop, live, permits, ops, responses,
                     registered>>
  BY DEF WriterWrite
<1>2. /\ r \in Response /\ Items(writer.response) = {r} /\ Names(Items(writer.response)) = {x}
  BY <1>1, WriterHolds
<1>3. /\ writer' = [pc |-> "written", response |-> writer.response]
      /\ writer.response \in Seq(Response) /\ Len(writer.response) = 1
  BY <1>1, TasksAre DEF ConnectionInv, TypesRight
<1>4. writer' \in Writer /\ writer'.pc = "written" /\ writer'.response = writer.response
  BY <1>3 DEF Writer
<1>5. Entries[8] = {x}
  BY <1>1, <1>2, EntriesAre
<1>6. 8 \in Places /\ 9 \in Places /\ 8 # 9
  BY DEF Places
<1>7. x \in Entries[8]
  BY <1>5
<1>8. /\ replies' \in Seq(Reply) /\ Len(replies') <= Buffer
      /\ Items(replies') = Items(replies) \cup {ReplyOf(r)}
      /\ Distinct(replies')
      /\ Names(Items(replies')) = Entries[9] \cup {x}
  <2> HIDE DEF r
  <2> QED
    BY <1>1, <1>2, <1>6, <1>7, ReplyIsNew
<1>9. ReplyOf(r).status = r.status
  BY DEF ReplyOf
<1> HIDE DEF r
<1>10. TypesRight'
  BY <1>1, <1>3, <1>4, <1>8 DEF ConnectionInv, TypesRight, WireTypeOK
<1>11. StagesRight'
  BY <1>1, <1>4 DEF ConnectionInv, StagesRight
<1>12. InLoop' = InLoop /\ InWriter = <<>> /\ InWriter' = <<>>
  BY <1>1, <1>4 DEF InLoop, InWriter
<1>13. PermitsRight'
  BY <1>1, <1>12 DEF ConnectionInv, PermitsRight
<1>14. /\ Entries'[8] = {} /\ Entries'[9] = Entries[9] \cup {x}
       /\ \A k \in Places \ {8, 9} : Entries'[k] = Entries[k]
  <2>1. Entries'[8] = {}
    BY <1>4, NamesAre, EntriesNext
  <2>2. Entries'[9] = Entries[9] \cup {x}
    BY <1>8, EntriesNext
  <2>3. \A k \in Places \ {8, 9} : Entries'[k] = Entries[k]
    BY <1>1, <1>12 DEF Entries, Places
  <2> QED
    BY <2>1, <2>2, <2>3
<1> HIDE DEF x
<1>15. FlowRight'
  <2>1. Entries'[8] = {} /\ Entries'[9] \subseteq Entries[9] \cup {x}
    BY <1>14
  <2>2. \A k \in Places \ {8, 9} : Entries'[k] \subseteq Entries[k]
    BY <1>14
  <2>3. FlowRight
    BY DEF ConnectionInv
  <2>4. Apart(Entries') /\ \A k \in Places : Entries'[k] \subseteq Owed
    BY <1>6, <1>7, <2>1, <2>2, <2>3, NameMoves
  <2>5. Distinct(requests') /\ Distinct(replies') /\ \A p, q \in ops' : p.tag = q.tag => p = q
    BY <1>1, <1>8, <2>3 DEF FlowRight
  <2> QED
    BY <2>4, <2>5, FlowKeeps
<1>16. LiveRight'
  <2>1. Serving' => Serving
    BY <1>1 DEF Serving
  <2>2. Middle' = Middle
    <3>1. Entries'[4] = Entries[4] /\ Entries'[5] = Entries[5] /\ Entries'[6] = Entries[6]
          /\ Entries'[7] = Entries[7]
      BY <1>14 DEF Places
    <3> QED
      BY <3>1 DEF Middle
  <2> QED
    BY <1>1, <2>1, <2>2, LiveStays DEF ConnectionInv
<1>17. PoliteRight'
  <2>1. r.status \notin undue
    BY <1>1, <1>2 DEF ConnectionInv, PoliteRight
  <2>2. \A q \in Items(replies) : q.status \notin undue
    BY DEF ConnectionInv, PoliteRight
  <2>3. \A q \in Items(replies') : q.status \notin undue
    BY <1>8, <1>9, <2>1, <2>2
  <2>4. writer'.pc # "ended" =>
          \A q \in Items(loop'.response) \cup Items(responses') \cup Items(writer'.response) :
            q.status \notin undue
    BY <1>1, <1>4 DEF ConnectionInv, PoliteRight
  <2> QED
    BY <2>3, <2>4, PoliteKeeps DEF ConnectionInv
<1> QED
  BY <1>10, <1>11, <1>13, <1>15, <1>16, <1>17, ServerKeeps

\* The frame loop learns that its answer was written.
LEMMA WriterConfirmKeeps ==
  ASSUME ConnectionInv, UNCHANGED peer, WriterConfirm
  PROVE  ConnectionInv'
<1>1. /\ writer.pc = "written" /\ writer' = [pc |-> "receiving", response |-> <<>>]
      /\ loop' = ReceiptIs("sent", writer.response)
      /\ UNCHANGED <<wire, reader, frames, live, permits, ops, responses, registered>>
  BY DEF WriterConfirm
<1>2. /\ loop' \in Loop /\ loop'.pc = loop.pc /\ loop'.response = loop.response
      /\ loop'.close = loop.close
  BY <1>1, ReceiptSame
<1>3. /\ writer' \in Writer /\ writer'.pc = "receiving" /\ writer'.response = <<>>
      /\ Len(writer'.response) = 0 /\ Items(writer'.response) = {}
  BY <1>1 DEF Writer, Items
<1>4. TypesRight'
  BY <1>1, <1>2, <1>3 DEF ConnectionInv, TypesRight, WireTypeOK, wire
<1>5. StagesRight'
  <2>1. loop.pc \notin {"hello", "greeting"}
    BY <1>1 DEF ConnectionInv, StagesRight
  <2> QED
    BY <1>1, <1>2, <1>3, <2>1 DEF ConnectionInv, StagesRight
<1>6. InLoop' = InLoop /\ InWriter = <<>> /\ InWriter' = <<>>
  BY <1>1, <1>2, <1>3 DEF InLoop, InWriter
<1>7. PermitsRight'
  BY <1>1, <1>6 DEF ConnectionInv, PermitsRight
<1>8. Entries' = Entries
  <2>1. writer.pc # "writing" /\ writer'.pc # "writing"
    BY <1>1, <1>3
  <2> QED
    BY <1>1, <1>2, <1>6, <2>1 DEF Entries, wire
<1>9. FlowRight'
  <2>1. /\ Apart(Entries') /\ \A k \in Places : Entries'[k] \subseteq Owed
        /\ Distinct(requests') /\ Distinct(replies') /\ \A o, p \in ops' : o.tag = p.tag => o = p
    BY <1>1, <1>8 DEF ConnectionInv, FlowRight, wire
  <2> QED
    BY <2>1, FlowKeeps
<1>10. LiveRight'
  <2>1. (Serving' => Serving) /\ Middle' = Middle
    BY <1>1, <1>2, <1>8 DEF Serving, Middle
  <2> QED
    BY <1>1, <2>1, LiveStays DEF ConnectionInv
<1>11. PoliteRight'
  BY <1>1, <1>2, <1>3, PoliteSame DEF ConnectionInv, wire
<1> QED
  BY <1>4, <1>5, <1>7, <1>9, <1>10, <1>11, ServerKeeps

\* The writer ends: what was queued is dropped with its permits, and what it
\* holds has none.
LEMMA WriterGoneKeeps ==
  ASSUME ConnectionInv, UNCHANGED peer, WriterFails \/ WriterAborted
  PROVE  ConnectionInv'
<1>1. /\ writer.pc \in {"receiving", "writing"}
      /\ writer' = [pc |-> "ended", response |-> <<>>] /\ responses' = <<>>
      /\ permits' = permits + Cardinality({p \in DOMAIN Lost : Lost[p].permit})
      /\ loop' = ReceiptIs("dropped", Lost)
      /\ UNCHANGED <<wire, reader, frames, live, ops, registered>>
  BY DEF WriterFails, WriterAborted, WriterGone
<1>2. /\ loop' \in Loop /\ loop'.pc = loop.pc /\ loop'.response = loop.response
      /\ loop'.close = loop.close
  BY <1>1, ReceiptSame
<1>3. /\ writer' \in Writer /\ writer'.pc = "ended" /\ writer'.response = <<>>
      /\ Len(writer'.response) = 0 /\ Items(writer'.response) = {}
  BY <1>1 DEF Writer, Items
<1>4. /\ responses \in Seq(Response) /\ Len(responses) <= 1
      /\ writer.response \in Seq(Response) /\ Len(writer.response) \in {0, 1}
  BY <1>1, TasksAre DEF ConnectionInv, TypesRight
<1>5. Held(writer.response) = 0
  <2>1. CASE writer.pc = "receiving"
    <3>1. writer.response = <<>>
      BY <1>4, <2>1, AtMostOne DEF ConnectionInv, TypesRight
    <3> QED
      BY <3>1 DEF Held
  <2>2. CASE writer.pc = "writing"
    BY <2>2 DEF ConnectionInv, StagesRight, Held
  <2> QED
    BY <1>1, <2>1, <2>2
<1>6. permits \in Nat /\ permits' \in Nat /\ permits' = permits + Held(responses)
  <2>1. Len(writer.response) <= 1
    BY <1>4, NoneOrOne, Zenon
  <2>2. /\ Cardinality({p \in DOMAIN responses : responses[p].permit}) = Held(responses)
        /\ Held(responses) \in {0, 1}
    BY <1>4, HeldIs
  <2>3. Cardinality({p \in DOMAIN writer.response : writer.response[p].permit}) = 0
    BY <1>4, <1>5, <2>1, HeldIs
  <2>4. Cardinality({p \in DOMAIN Lost : Lost[p].permit})
          = Cardinality({p \in DOMAIN responses : responses[p].permit})
              + Cardinality({p \in DOMAIN writer.response : writer.response[p].permit})
    BY <1>4, PermitsAdd DEF Lost
  <2>5. permits \in Nat
    BY DEF ConnectionInv, TypesRight
  <2> QED
    BY <1>1, <2>2, <2>3, <2>4, <2>5
<1>7. TypesRight'
  <2>1. responses' \in Seq(Response) /\ Len(responses') <= 1
    BY <1>1
  <2> QED
    BY <1>1, <1>2, <1>3, <1>6, <2>1 DEF ConnectionInv, TypesRight, WireTypeOK, wire
<1>8. StagesRight'
  <2>1. loop.pc \notin {"hello", "greeting"}
    BY <1>1 DEF ConnectionInv, StagesRight
  <2> QED
    BY <1>1, <1>2, <1>3, <2>1 DEF ConnectionInv, StagesRight
<1>9. InLoop' = InLoop /\ InWriter = <<>> /\ InWriter' = <<>>
  BY <1>1, <1>2, <1>3 DEF InLoop, InWriter
<1>10. PermitsRight'
  <2>1. Held(<<>>) = 0 /\ Held(InLoop) \in Nat /\ Held(responses) \in Nat
    BY DEF Held
  <2>2. Cardinality(ops) \in Nat
    BY FS_CardinalityType DEF ConnectionInv, TypesRight
  <2>3. permits + Cardinality(ops) + Held(InLoop) + Held(responses) + 0 = MaxInFlight
    BY <1>9, <2>1 DEF ConnectionInv, PermitsRight
  <2>4. permits' + Cardinality(ops) + Held(InLoop) + 0 + 0 = MaxInFlight
    BY <1>6, <2>1, <2>2, <2>3
  <2> QED
    BY <1>1, <1>9, <2>1, <2>4 DEF PermitsRight
<1>11. FlowRight'
  <2>1. Entries'[6] = {} /\ Entries'[8] = {}
    BY <1>1, <1>3, NamesAre, EntriesNext DEF Items
  <2>2. \A k \in Places \ {6, 8} : Entries'[k] = Entries[k]
    BY <1>1, <1>2, <1>9 DEF Entries, Places, wire
  <2>3. \A k \in Places : Entries'[k] \subseteq Entries[k]
    BY <2>1, <2>2
  <2>4. Apart(Entries) /\ \A k \in Places : Entries[k] \subseteq Owed
    BY DEF ConnectionInv, FlowRight
  <2>5. Apart(Entries') /\ \A k \in Places : Entries'[k] \subseteq Owed
    BY <2>3, <2>4, FramesStay
  <2>6. Distinct(requests') /\ Distinct(replies') /\ \A p, q \in ops' : p.tag = q.tag => p = q
    BY <1>1 DEF ConnectionInv, FlowRight, wire
  <2> QED
    BY <2>5, <2>6, FlowKeeps
<1>12. LiveRight'
  BY <1>3 DEF LiveRight, Serving
<1>13. PoliteRight'
  <2>1. Items(responses') = {}
    BY <1>1 DEF Items
  <2> QED
    BY <1>1, <1>2, <1>3, <2>1, PoliteSame DEF ConnectionInv, wire
<1> QED
  BY <1>7, <1>8, <1>10, <1>11, <1>12, <1>13, ServerKeeps

-----------------------------------------------------------------------------
(* The connection.                                                         *)

\* Nothing is on its way yet, and every permit is available.
LEMMA ConnectionInits == ConnectionInit => ConnectionInv
<1>1. SUFFICES ASSUME ConnectionInit
               PROVE  ConnectionInv
  OBVIOUS
<1>2. /\ requests = <<>> /\ replies = <<>> /\ clientOpen = TRUE
      /\ reader = [pc |-> "none", frame |-> <<>>] /\ frames = <<>>
      /\ loop = [pc |-> "hello", response |-> <<>>, close |-> FALSE, receipt |-> "none"]
      /\ live = {} /\ permits = MaxInFlight /\ ops = {} /\ responses = <<>>
      /\ writer = [pc |-> "none", response |-> <<>>] /\ registered = FALSE
      /\ sent = 0 /\ waiting = <<>> /\ undue = Refusals
  BY <1>1 DEF ConnectionInit, Init, WireInit, PeerInit
<1>3. MaxInFlight \in Nat /\ Buffer \in Nat /\ MaxTags \in Nat
  BY ConnectionAssumption, WireAssumption
<1>4. IsFiniteSet({}) /\ Cardinality({}) = 0 /\ Items(<<>>) = {} /\ Names({}) = {}
      /\ Held(<<>>) = 0 /\ DOMAIN <<>> = {}
  BY FS_EmptySet DEF Items, Names, Held
<1>5. TypesRight
  <2>1. reader \in Reader /\ loop \in Loop /\ writer \in Writer
    BY <1>2 DEF Reader, Loop, Writer
  <2>2. /\ Len(reader.frame) = 0 /\ Len(frames) = 0 /\ Len(loop.response) = 0
        /\ Len(responses) = 0 /\ Len(writer.response) = 0 /\ Len(requests) = 0 /\ Len(replies) = 0
    BY <1>2
  <2>3. WireTypeOK
    BY <1>2, <1>3, <2>2 DEF WireTypeOK
  <2> QED
    <3>1. /\ reader.pc = "none" /\ loop.pc = "hello" /\ writer.pc = "none"
          /\ frames \in Seq(Frame) /\ responses \in Seq(Response)
          /\ Len(frames) <= 1 /\ Len(responses) <= 1
      BY <1>2, <2>2
    <3>2. /\ live \subseteq RequestIds /\ permits \in Nat /\ ops \subseteq Op /\ IsFiniteSet(ops)
          /\ registered \in BOOLEAN
      BY <1>2, <1>3, <1>4
    <3> QED
      BY <2>1, <2>2, <2>3, <3>1, <3>2 DEF TypesRight
<1>6. PeerRight
  <2>1. waiting \in [{} -> RequestIds]
    BY <1>2, <1>4
  <2> QED
    BY <1>2, <1>3, <1>4, <2>1 DEF PeerRight
<1>7. StagesRight
  BY <1>2, <1>4 DEF StagesRight
<1>8. InLoop = <<>> /\ InWriter = <<>>
  BY <1>2 DEF InLoop, InWriter
<1>9. PermitsRight
  BY <1>2, <1>3, <1>4, <1>8 DEF PermitsRight
<1>10. FlowRight
  <2>1. \A k \in Places : Entries[k] = {}
    <3>1. /\ reader.frame = <<>> /\ loop.response = <<>> /\ writer.pc # "writing"
      BY <1>2
    <3>2. /\ Entries[1] = {} /\ Entries[2] = {} /\ Entries[3] = {} /\ Entries[4] = {}
          /\ Entries[5] = {} /\ Entries[6] = {} /\ Entries[7] = {} /\ Entries[8] = {}
          /\ Entries[9] = {}
      BY <1>2, <1>4, <1>8, <3>1, EntriesAre
    <3> QED
      BY <3>2 DEF Places
  <2>2. Distinct(<<>>)
    BY <1>4 DEF Distinct
  <2> QED
    BY <1>2, <2>1, <2>2 DEF FlowRight, Apart
<1>11. LiveRight
  BY <1>2 DEF LiveRight, Serving
<1>12. PoliteRight
  BY <1>2, <1>3, <1>4 DEF PoliteRight, Outstanding
<1> QED
  BY <1>5, <1>6, <1>7, <1>9, <1>10, <1>11, <1>12 DEF ConnectionInv

\* Every step of the broker keeps the invariant.
LEMMA BrokerKeeps ==
  ASSUME ConnectionInv, Next, UNCHANGED peer
  PROVE  ConnectionInv'
<1>1. CASE ReaderStep
  BY <1>1, ReaderKeeps
<1>2. CASE LoopStep
  <2>1. CASE HelloRead
    BY <1>2, <2>1, HelloReadKeeps
  <2>2. CASE HelloGreets
    BY <1>2, <2>2, HelloGreetsKeeps
  <2>3. CASE HelloFails
    BY <1>2, <2>3, HelloFailsKeeps
  <2>4. CASE LoopSeesEnd \/ LoopReceipt \/ LoopLeave \/ LoopDone
    BY <1>2, <2>4, LoopTurnsKeep
  <2>5. CASE LoopDuplicate
    BY <1>2, <2>5, LoopDuplicateKeeps
  <2>6. CASE LoopRefuse
    BY <1>2, <2>6, LoopRefuseKeeps
  <2>7. CASE LoopSpawn
    BY <1>2, <2>7, LoopSpawnKeeps
  <2>8. CASE LoopAnswer
    BY <1>2, <2>8, LoopAnswerKeeps
  <2>9. CASE LoopCannotAnswer
    BY <1>2, <2>9, LoopCannotAnswerKeeps
  <2> QED
    BY <1>2, <2>1, <2>2, <2>3, <2>4, <2>5, <2>6, <2>7, <2>8, <2>9 DEF LoopStep
<1>3. ASSUME NEW op \in ops, OpStep(op)
      PROVE  ConnectionInv'
  BY <1>3, OpFinishKeeps, OpSendKeeps, OpDroppedKeeps DEF OpStep
<1>4. CASE WriterStep
  <2>1. CASE WriterReceive
    BY <1>4, <2>1, WriterReceiveKeeps
  <2>2. CASE WriterRelease
    BY <1>4, <2>2, WriterReleaseKeeps
  <2>3. CASE WriterWrite
    BY <1>4, <2>3, WriterWriteKeeps
  <2>4. CASE WriterConfirm
    BY <1>4, <2>4, WriterConfirmKeeps
  <2>5. CASE WriterFails \/ WriterAborted
    BY <1>4, <2>5, WriterGoneKeeps
  <2> QED
    BY <1>4, <2>1, <2>2, <2>3, <2>4, <2>5 DEF WriterStep
<1> QED
  BY <1>1, <1>2, <1>3, <1>4 DEF Next

\* So does every step of the connection.
LEMMA ConnectionSteps ==
  ConnectionInv /\ [(Next /\ UNCHANGED peer) \/ PeerNext]_vars => ConnectionInv'
<1> SUFFICES ASSUME ConnectionInv, [(Next /\ UNCHANGED peer) \/ PeerNext]_vars
             PROVE  ConnectionInv'
  OBVIOUS
<1>1. CASE PeerNext
  <2>1. ASSUME NEW id \in RequestIds, NEW kind \in Kinds, PeerSend(id, kind)
        PROVE  ConnectionInv'
    <3> DEFINE f == [id |-> id, tag |-> sent + 1, kind |-> kind]
    <3>1. /\ sent < MaxTags /\ Len(requests) < Buffer /\ requests' = Append(requests, f)
          /\ Sends(f) /\ UNCHANGED <<replies, clientOpen, server>>
      BY <2>1 DEF PeerSend
    <3>2. f \in Frame /\ f.tag = sent + 1
      BY <3>1, WireAssumption DEF Frame, Tags, ConnectionInv, PeerRight
    <3> HIDE DEF f
    <3> QED
      BY <3>1, <3>2, SendKeeps
  <2>2. CASE PeerReceive
    BY <2>2, ReadKeeps DEF PeerReceive, ConnectionInv, TypesRight, WireTypeOK
  <2>3. CASE PeerClose
    BY <2>3, CloseKeeps DEF PeerClose
  <2> QED
    BY <1>1, <2>1, <2>2, <2>3 DEF PeerNext
<1>2. CASE UNCHANGED vars
  BY <1>2, CloseKeeps DEF vars, wire, ConnectionInv, TypesRight, WireTypeOK
<1> QED
  BY <1>1, <1>2, BrokerKeeps

\* What two sequences hold is what they hold together.
LEMMA ItemsAdd ==
  ASSUME NEW X, NEW S \in Seq(X), NEW T \in Seq(X)
  PROVE  S \o T \in Seq(X) /\ Len(S \o T) = Len(S) + Len(T)
         /\ Items(S \o T) = Items(S) \cup Items(T)
<1>1. /\ Len(S) \in Nat /\ DOMAIN S = 1 .. Len(S) /\ Len(T) \in Nat /\ DOMAIN T = 1 .. Len(T)
      /\ S \o T \in Seq(X) /\ Len(S \o T) = Len(S) + Len(T)
      /\ DOMAIN (S \o T) = 1 .. Len(S) + Len(T)
      /\ \A p \in 1 .. Len(S) + Len(T) : (S \o T)[p] = IF p <= Len(S) THEN S[p] ELSE T[p - Len(S)]
  OBVIOUS
<1>2. Items(S \o T) \subseteq Items(S) \cup Items(T)
  <2>1. SUFFICES ASSUME NEW p \in 1 .. Len(S) + Len(T)
                 PROVE  (S \o T)[p] \in Items(S) \cup Items(T)
    BY <1>1 DEF Items
  <2>2. CASE p <= Len(S)
    BY <1>1, <2>2 DEF Items
  <2>3. CASE ~(p <= Len(S))
    <3>1. p - Len(S) \in 1 .. Len(T) /\ (S \o T)[p] = T[p - Len(S)]
      BY <1>1, <2>3
    <3> QED
      BY <1>1, <3>1 DEF Items
  <2> QED
    BY <2>2, <2>3
<1>3. Items(S) \subseteq Items(S \o T)
  BY <1>1 DEF Items
<1>4. Items(T) \subseteq Items(S \o T)
  <2>1. SUFFICES ASSUME NEW p \in 1 .. Len(T)
                 PROVE  T[p] \in Items(S \o T)
    BY <1>1 DEF Items
  <2>2. p + Len(S) \in 1 .. Len(S) + Len(T) /\ ~(p + Len(S) <= Len(S)) /\ (p + Len(S)) - Len(S) = p
    BY <1>1
  <2>3. (S \o T)[p + Len(S)] = T[p]
    BY <1>1, <2>2
  <2> QED
    BY <1>1, <2>2, <2>3 DEF Items
<1> QED
  BY <1>1, <1>2, <1>3, <1>4

\* The three places of responses that nobody has released, each of one or none.
LEMMA UnreleasedIs ==
  ASSUME TypesRight
  PROVE  /\ InLoop \in Seq(Response) /\ Len(InLoop) <= 1
         /\ responses \in Seq(Response) /\ Len(responses) <= 1
         /\ InWriter \in Seq(Response) /\ Len(InWriter) <= 1
         /\ Unreleased = InLoop \o responses \o InWriter
<1>1. /\ loop.response \in Seq(Response) /\ writer.response \in Seq(Response)
      /\ responses \in Seq(Response) /\ <<>> \in Seq(Response) /\ Len(<<>>) = 0
      /\ Len(loop.response) = IF loop.pc \in {"greeting", "answering"} THEN 1 ELSE 0
      /\ Len(writer.response) = IF writer.pc \in {"releasing", "writing", "written"} THEN 1 ELSE 0
      /\ Len(responses) <= 1
  BY TasksAre DEF TypesRight
<1>2. InLoop \in Seq(Response) /\ Len(InLoop) <= 1
  <2>1. CASE loop.pc = "answering"
    <3>1. InLoop = loop.response /\ Len(loop.response) = 1
      BY <1>1, <2>1 DEF InLoop
    <3> QED
      BY <1>1, <3>1
  <2>2. CASE loop.pc # "answering"
    <3>1. InLoop = <<>>
      BY <2>2 DEF InLoop
    <3> QED
      BY <1>1, <3>1
  <2> QED
    BY <2>1, <2>2
<1>3. InWriter \in Seq(Response) /\ Len(InWriter) <= 1
  <2>1. CASE writer.pc = "releasing"
    <3>1. InWriter = writer.response /\ Len(writer.response) = 1
      BY <1>1, <2>1 DEF InWriter
    <3> QED
      BY <1>1, <3>1
  <2>2. CASE writer.pc # "releasing"
    <3>1. InWriter = <<>>
      BY <2>2 DEF InWriter
    <3> QED
      BY <1>1, <3>1
  <2> QED
    BY <2>1, <2>2
<1> QED
  BY <1>1, <1>2, <1>3 DEF Unreleased, InLoop, InWriter

\* The permits that are not available are held, one each.
LEMMA PermitsFollow ==
  ASSUME TypesRight, PermitsRight
  PROVE  permits \in 0 .. MaxInFlight /\ PermitsConserved
<1>1. /\ InLoop \in Seq(Response) /\ Len(InLoop) <= 1
      /\ responses \in Seq(Response) /\ Len(responses) <= 1
      /\ InWriter \in Seq(Response) /\ Len(InWriter) <= 1
      /\ Unreleased = InLoop \o responses \o InWriter
  BY UnreleasedIs
<1>2. InLoop \o responses \in Seq(Response)
  BY <1>1
<1>3. /\ Held(InLoop) \in {0, 1} /\ Held(responses) \in {0, 1} /\ Held(InWriter) \in {0, 1}
      /\ Cardinality({p \in DOMAIN InLoop : InLoop[p].permit}) = Held(InLoop)
      /\ Cardinality({p \in DOMAIN responses : responses[p].permit}) = Held(responses)
      /\ Cardinality({p \in DOMAIN InWriter : InWriter[p].permit}) = Held(InWriter)
  BY <1>1, HeldIs
<1>4. Cardinality({p \in DOMAIN (InLoop \o responses) : (InLoop \o responses)[p].permit})
        = Held(InLoop) + Held(responses)
  BY <1>1, <1>3, PermitsAdd
<1>5. Cardinality({p \in DOMAIN Unreleased : Unreleased[p].permit})
        = Held(InLoop) + Held(responses) + Held(InWriter)
  BY <1>1, <1>2, <1>3, <1>4, PermitsAdd
<1>6. permits \in Nat /\ Cardinality(ops) \in Nat /\ MaxInFlight \in Nat
  BY ConnectionAssumption, FS_CardinalityType DEF TypesRight
<1>7. permits + Cardinality(ops) + Held(InLoop) + Held(responses) + Held(InWriter) = MaxInFlight
  BY DEF PermitsRight
<1>8. permits \in 0 .. MaxInFlight
  BY <1>3, <1>6, <1>7
<1>9. permits + Cardinality(ops) + (Held(InLoop) + Held(responses) + Held(InWriter)) = MaxInFlight
  BY <1>3, <1>6, <1>7
<1> QED
  BY <1>5, <1>8, <1>9 DEF PermitsConserved

\* While the connection serves, each live identifier is that of one operation or
\* one unreleased response.
LEMMA IdsFollow ==
  ASSUME TypesRight, FlowRight, LiveRight
  PROVE  IdsConserved
<1>1. SUFFICES ASSUME Serving
               PROVE  /\ live = {op.id : op \in ops} \cup {Unreleased[p].id : p \in DOMAIN Unreleased}
                      /\ Cardinality(live) = Cardinality(ops) + Len(Unreleased)
  BY DEF Serving, IdsConserved
<1>2. live = {e[1] : e \in Middle} /\ \A d, e \in Middle : d[1] = e[1] => d = e
  BY <1>1 DEF LiveRight
<1>3. loop.pc # "greeting"
  BY <1>1 DEF Serving
<1>4. /\ IsFiniteSet(Middle)
      /\ Cardinality(Middle) = Cardinality(ops) + Len(InLoop) + Len(responses) + Len(InWriter)
      /\ InLoop = loop.response /\ Cardinality(ops) \in Nat
  BY <1>3, MiddleCount
<1>5. /\ InLoop \in Seq(Response) /\ responses \in Seq(Response) /\ InWriter \in Seq(Response)
      /\ Unreleased = InLoop \o responses \o InWriter
  BY UnreleasedIs
<1>6. /\ InLoop \o responses \in Seq(Response)
      /\ Len(InLoop \o responses) = Len(InLoop) + Len(responses)
      /\ Items(InLoop \o responses) = Items(InLoop) \cup Items(responses)
  BY <1>5, ItemsAdd
<1>7. /\ Len(Unreleased) = Len(InLoop \o responses) + Len(InWriter)
      /\ Items(Unreleased) = Items(InLoop \o responses) \cup Items(InWriter)
  <2> DEFINE S == InLoop \o responses
  <2>1. S \in Seq(Response) /\ InWriter \in Seq(Response) /\ Unreleased = S \o InWriter
    BY <1>5, <1>6
  <2> HIDE DEF S
  <2>2. Len(S \o InWriter) = Len(S) + Len(InWriter)
        /\ Items(S \o InWriter) = Items(S) \cup Items(InWriter)
    BY <2>1, ItemsAdd
  <2> QED
    BY <2>1, <2>2 DEF S
<1>8. Middle = Names(ops) \cup Names(Items(Unreleased))
  <2>1. Middle = Names(Items(InLoop)) \cup Names(ops) \cup Names(Items(responses))
                   \cup Names(Items(InWriter))
    BY <1>4, EntriesAre DEF Middle
  <2>2. Names(Items(Unreleased))
          = Names(Items(InLoop)) \cup Names(Items(responses)) \cup Names(Items(InWriter))
    BY <1>6, <1>7 DEF Names
  <2> QED
    BY <2>1, <2>2
<1>9. live = {op.id : op \in ops} \cup {Unreleased[p].id : p \in DOMAIN Unreleased}
  <2>1. \A S : {e[1] : e \in Names(S)} = {s.id : s \in S}
    <3>1. SUFFICES ASSUME NEW S
                   PROVE  {e[1] : e \in Names(S)} = {s.id : s \in S}
      OBVIOUS
    <3>2. \A s \in S : <<s.id, s.tag>> \in Names(S) /\ <<s.id, s.tag>>[1] = s.id
      BY DEF Names
    <3>3. \A e \in Names(S) : \E s \in S : e[1] = s.id
      BY DEF Names
    <3>4. {e[1] : e \in Names(S)} \subseteq {s.id : s \in S}
      BY <3>3
    <3>5. ASSUME NEW s \in S
          PROVE  s.id \in {e[1] : e \in Names(S)}
      BY <3>2
    <3> QED
      BY <3>4, <3>5
  <2>2. {e[1] : e \in Middle} = {e[1] : e \in Names(ops)} \cup {e[1] : e \in Names(Items(Unreleased))}
    BY <1>8
  <2>3. {s.id : s \in Items(Unreleased)} = {Unreleased[p].id : p \in DOMAIN Unreleased}
    BY DEF Items
  <2> QED
    BY <1>2, <2>1, <2>2, <2>3
<1>10. Cardinality(live) = Cardinality(Middle)
  <2> DEFINE name == [e \in Middle |-> e[1]]
  <2>1. name \in [Middle -> live] /\ \A e \in Middle : name[e] = e[1]
    BY <1>2
  <2>2. \A d, e \in Middle : name[d] = name[e] => d = e
    BY <1>2, <2>1
  <2>3. \A i \in live : \E e \in Middle : name[e] = i
    BY <1>2, <2>1
  <2> HIDE DEF name
  <2>4. name \in Bijection(Middle, live)
    BY <2>1, <2>2, <2>3 DEF Bijection, Injection, Surjection, IsInjective
  <2> QED
    BY <1>4, <2>4, FS_Bijection DEF ExistsBijection
<1>11. Len(InLoop) \in Nat /\ Len(responses) \in Nat /\ Len(InWriter) \in Nat
  BY <1>5, AtMostOne
<1>12. Cardinality(live) = Cardinality(ops) + Len(Unreleased)
  <2>1. Len(Unreleased) = Len(InLoop) + Len(responses) + Len(InWriter)
    BY <1>6, <1>7
  <2>2. Cardinality(live) = Cardinality(ops) + Len(InLoop) + Len(responses) + Len(InWriter)
    BY <1>4, <1>10
  <2> QED
    BY <1>4, <1>11, <2>1, <2>2
<1> QED
  BY <1>9, <1>12

\* A reply is owed, and no other has its tag.
LEMMA RepliesFollow ==
  ASSUME FlowRight
  PROVE  AnsweredOnce
<1>1. SUFFICES ASSUME NEW p \in DOMAIN replies
               PROVE  /\ replies[p].tag \in Outstanding
                      /\ replies[p].id = waiting[replies[p].tag]
                      /\ \A q \in DOMAIN replies : replies[p].tag = replies[q].tag => p = q
  BY DEF AnsweredOnce
<1>2. <<replies[p].id, replies[p].tag>> \in Entries[9] /\ 9 \in Places
  BY EntriesAre DEF Items, Names, Places
<1>3. <<replies[p].id, replies[p].tag>> \in Owed
  BY <1>2 DEF FlowRight
<1>4. replies[p].tag \in Outstanding /\ waiting[replies[p].tag] = replies[p].id
  BY <1>3, OwedIs
<1> QED
  BY <1>4 DEF FlowRight, Distinct

\* What the tasks hold is of the types the model states.
LEMMA TypeFollows ==
  ASSUME ConnectionInv
  PROVE  TypeOK
<1>0. permits \in 0 .. MaxInFlight
  BY PermitsFollow DEF ConnectionInv
<1>1. TypesRight
  BY DEF ConnectionInv
<1>2. /\ WireTypeOK /\ frames \in Seq(Frame) /\ Len(frames) <= 1
      /\ live \subseteq RequestIds /\ responses \in Seq(Response) /\ Len(responses) <= 1
      /\ registered \in BOOLEAN
  BY <1>1 DEF TypesRight
<1>3. /\ reader.pc \in {"none", "reading", "sending", "ended"} /\ reader.frame \in Seq(Frame)
      /\ Len(reader.frame) = 1 <=> reader.pc = "sending"
  BY <1>1, TasksAre DEF TypesRight
<1>4. /\ loop.pc \in {"hello", "greeting", "select", "answering", "receipt", "leaving",
                      "draining", "done"}
      /\ loop.response \in Seq(Response)
      /\ Len(loop.response) = 1 <=> loop.pc \in {"greeting", "answering"}
      /\ loop.close \in BOOLEAN /\ loop.receipt \in {"none", "sent", "dropped"}
  BY <1>1 DEF TypesRight, Loop
<1>5. ops \subseteq [id : RequestIds, tag : Tags, pc : {"running", "sending"}]
  BY <1>1 DEF TypesRight, Op
<1>6. /\ writer.pc \in {"none", "receiving", "releasing", "writing", "written", "ended"}
      /\ writer.response \in Seq(Response)
  BY <1>1 DEF TypesRight, Writer
<1> QED
  BY <1>0, <1>2, <1>3, <1>4, <1>5, <1>6 DEF TypeOK

\* No permit, identifier or answer of a connection is lost or made up, whatever its
\* peer sends, reads or leaves unread, and however its tasks end: for any number of
\* frames, identifiers and permits, and any socket.
THEOREM ConnectionsConserve == Spec => []Conserved
<1>1. ConnectionInv => Conserved
  <2>1. SUFFICES ASSUME ConnectionInv
                 PROVE  Conserved
    OBVIOUS
  <2>2. permits \in 0 .. MaxInFlight /\ PermitsConserved
    BY <2>1, PermitsFollow DEF ConnectionInv
  <2>3. TypeOK
    BY <2>1, TypeFollows
  <2>4. IdsConserved
    BY <2>1, IdsFollow DEF ConnectionInv
  <2>5. AnsweredOnce
    BY <2>1, RepliesFollow DEF ConnectionInv
  <2> QED
    BY <2>2, <2>3, <2>4, <2>5 DEF Conserved
<1> QED
  BY <1>1, ConnectionInits, ConnectionSteps, PTL DEF Spec

\* A peer that has at most MAX_IN_FLIGHT frames unanswered reads no reply that says
\* overloaded, and one whose unanswered frames differ in their identifiers none that
\* says duplicate: write_queued_response returns permit and identifier before the
\* reply is visible, whatever the two sides' pace.
THEOREM PoliteIsNotRefused == Spec => []PoliteNeverRefused
<1>1. ConnectionInv => PoliteNeverRefused
  BY DEF ConnectionInv, PoliteRight, PoliteNeverRefused, Items
<1> QED
  BY <1>1, ConnectionInits, ConnectionSteps, PTL DEF Spec

-----------------------------------------------------------------------------
(* A session of the SDK's client with the broker.                          *)

\* An identifier is free while fewer than all are pending, and one of the free ones
\* is the nearest.
LEMMA FreeIs ==
  ASSUME ClientTypeOK, Cardinality(DOMAIN pending) < maxPendingRequests
  PROVE  FreeId \in RequestIds \ DOMAIN pending
<1> DEFINE Distance(i) == (i + MaxId - nextRequestId) % MaxId
           free        == RequestIds \ DOMAIN pending
           away        == {Distance(i) : i \in free}
<1>1. /\ MaxId \in Nat \ {0} /\ RequestIds = 1 .. MaxId /\ nextRequestId \in 1 .. MaxId
      /\ maxPendingRequests \in 1 .. MaxId /\ DOMAIN pending \subseteq RequestIds
  BY ClientAssumption DEF ClientTypeOK
<1>2. free # {}
  <2>1. Cardinality(RequestIds) = MaxId
    BY <1>1, FS_Interval
  <2>2. DOMAIN pending # RequestIds
    BY <1>1, <2>1
  <2> QED
    BY <1>1, <2>2
<1>3. \A i \in free : Distance(i) \in Nat
  <2>1. SUFFICES ASSUME NEW i \in 1 .. MaxId
                 PROVE  (i + MaxId - nextRequestId) % MaxId \in Nat
    BY <1>1
  <2>2. i + MaxId - nextRequestId \in Nat
    BY <1>1
  <2> QED
    BY <1>1, <2>2
<1>4. away \in SUBSET Nat /\ away # {}
  BY <1>2, <1>3
<1>5. \E d \in away : \A e \in away : d <= e
  <2> HIDE DEF away
  <2> QED
    BY <1>4, LeastThere
<1>6. \E i \in free : \A j \in free : Distance(i) <= Distance(j)
  BY <1>5
<1> QED
  BY <1>6 DEF FreeId

\* What flush() leaves in the queue and gives to the socket is what there was.
LEMMA FlushedIs ==
  ASSUME NEW q \in Seq(Frame), NEW mayWrite \in BOOLEAN, sendBuffer \in Seq(Frame),
         Flushed(q, mayWrite)
  PROVE  /\ sendBuffer' \in Seq(Frame) /\ writeQueue' \in Seq(Frame) /\ blocked' \in BOOLEAN
         /\ Queue' = sendBuffer \o q
<1>1. PICK n \in 0 .. Len(q) :
        /\ sendBuffer' = sendBuffer \o SubSeq(q, 1, n)
        /\ writeQueue' = SubSeq(q, n + 1, Len(q))
        /\ blocked' \in BOOLEAN
  BY DEF Flushed
<1> DEFINE front == SubSeq(q, 1, n)
           back  == SubSeq(q, n + 1, Len(q))
<1>2. Len(q) \in Nat /\ \A k \in 1 .. Len(q) : q[k] \in Frame
  OBVIOUS
<1>3. front \in Seq(Frame)
  <2>1. 1 \in Int /\ n \in Int /\ \A k \in 1 .. n : q[k] \in Frame
    BY <1>2
  <2> QED
    BY <2>1, SubSeqProperties
<1>4. back \in Seq(Frame)
  <2>1. n + 1 \in Int /\ Len(q) \in Int /\ \A k \in n + 1 .. Len(q) : q[k] \in Frame
    BY <1>2
  <2> QED
    BY <2>1, SubSeqProperties
<1>5. front \o back = q
  <2>1. 1 \in 1 .. Len(q) + 1 /\ n \in 1 - 1 .. Len(q) /\ Len(q) \in n .. Len(q)
    BY <1>2
  <2>2. front \o back = SubSeq(q, 1, Len(q))
    BY <2>1, ConcatAdjacentSubSeq
  <2> QED
    BY <2>2, SubSeqFull
<1> HIDE DEF front, back
<1>6. (sendBuffer \o front) \o back = sendBuffer \o (front \o back)
  BY <1>3, <1>4, ConcatAssociative
<1>7. sendBuffer \o front \in Seq(Frame)
  BY <1>3, ConcatProperties
<1>8. sendBuffer' = sendBuffer \o front /\ writeQueue' = back
  BY <1>1 DEF front, back
<1> QED
  BY <1>1, <1>4, <1>5, <1>6, <1>7, <1>8 DEF Queue

LEMMA QueueIs ==
  ASSUME ClientTypeOK
  PROVE  /\ Queue \in Seq(Frame) /\ Len(Queue) \in Nat /\ DOMAIN Queue = 1 .. Len(Queue)
         /\ sendBuffer \in Seq(Frame) /\ writeQueue \in Seq(Frame)
         /\ sendBuffer # <<>> =>
              /\ Queue # <<>> /\ Head(sendBuffer) = Queue[1]
              /\ Tail(sendBuffer) \in Seq(Frame) /\ Tail(sendBuffer) \o writeQueue = Tail(Queue)
<1>1. sendBuffer \in Seq(Frame) /\ writeQueue \in Seq(Frame)
  BY DEF ClientTypeOK
<1>2. /\ Queue \in Seq(Frame) /\ Len(Queue) = Len(sendBuffer) + Len(writeQueue)
      /\ \A k \in 1 .. Len(sendBuffer) + Len(writeQueue) :
           Queue[k] = IF k <= Len(sendBuffer) THEN sendBuffer[k] ELSE writeQueue[k - Len(sendBuffer)]
  BY <1>1, ConcatProperties DEF Queue
<1>3. ASSUME sendBuffer # <<>>
      PROVE  /\ Queue # <<>> /\ Head(sendBuffer) = Queue[1]
             /\ Tail(sendBuffer) \in Seq(Frame) /\ Tail(sendBuffer) \o writeQueue = Tail(Queue)
  <2>1. Len(sendBuffer) \in Nat \ {0} /\ Len(writeQueue) \in Nat /\ Head(sendBuffer) = sendBuffer[1]
        /\ Tail(sendBuffer) \in Seq(Frame) /\ Len(Tail(sendBuffer)) = Len(sendBuffer) - 1
        /\ \A k \in 1 .. Len(sendBuffer) - 1 : Tail(sendBuffer)[k] = sendBuffer[k + 1]
    BY <1>1, <1>3
  <2>2. Queue # <<>> /\ Head(sendBuffer) = Queue[1]
    BY <1>2, <2>1
  <2> DEFINE rest == Tail(sendBuffer) \o writeQueue
  <2>3. /\ rest \in Seq(Frame) /\ Len(rest) = Len(sendBuffer) - 1 + Len(writeQueue)
        /\ \A k \in 1 .. Len(sendBuffer) - 1 + Len(writeQueue) :
             rest[k] = IF k <= Len(sendBuffer) - 1 THEN sendBuffer[k + 1]
                       ELSE writeQueue[k - (Len(sendBuffer) - 1)]
    BY <1>1, <2>1, ConcatProperties
  <2>4. /\ Tail(Queue) \in Seq(Frame) /\ Len(Tail(Queue)) = Len(sendBuffer) - 1 + Len(writeQueue)
        /\ \A k \in 1 .. Len(sendBuffer) - 1 + Len(writeQueue) : Tail(Queue)[k] = Queue[k + 1]
    BY <1>2, <2>1, <2>2
  <2> HIDE DEF rest
  <2>5. \A k \in 1 .. Len(sendBuffer) - 1 + Len(writeQueue) : rest[k] = Tail(Queue)[k]
    <3>1. SUFFICES ASSUME NEW k \in 1 .. Len(sendBuffer) - 1 + Len(writeQueue)
                   PROVE  rest[k] = Queue[k + 1]
      BY <2>4
    <3>2. /\ k + 1 \in 1 .. Len(sendBuffer) + Len(writeQueue)
          /\ k + 1 <= Len(sendBuffer) <=> k <= Len(sendBuffer) - 1
          /\ (k + 1) - Len(sendBuffer) = k - (Len(sendBuffer) - 1)
      BY <2>1
    <3> QED
      BY <1>2, <2>3, <3>2
  <2>6. rest = Tail(Queue)
    BY <2>3, <2>4, <2>5, SeqEqual
  <2> QED
    BY <2>1, <2>2, <2>6 DEF rest
<1> QED
  BY <1>1, <1>2, <1>3

\* The broker takes the first request or none, and nothing of the client's.
LEMMA BrokerTakes ==
  ASSUME Next
  PROVE  /\ requests' # requests => requests # <<>> /\ requests' = Tail(requests)
         /\ clientOpen' = clientOpen
<1>1. CASE ReaderStep
  BY <1>1 DEF ReaderStep, ReaderRead, ReaderSend, ReaderEof, ReaderAborted, wire
<1>2. CASE LoopStep
  BY <1>2 DEF LoopStep, HelloRead, HelloGreets, HelloFails, LoopSeesEnd, LoopDuplicate, LoopRefuse,
              LoopSpawn, LoopAnswer, LoopCannotAnswer, LoopReceipt, LoopLeave, LoopDone, wire
<1>3. ASSUME NEW op \in ops, OpStep(op)
      PROVE  requests' = requests /\ clientOpen' = clientOpen
  BY <1>3 DEF OpStep, OpFinish, OpSend, OpDropped, wire
<1>4. CASE WriterStep
  BY <1>4 DEF WriterStep, WriterReceive, WriterRelease, WriterWrite, WriterConfirm,
              WriterFails, WriterAborted, wire
<1> QED
  BY <1>1, <1>2, <1>3, <1>4 DEF Next

LEMMA FirstIs ==
  ASSUME NEW X, NEW q \in Seq(X), q # <<>>
  PROVE  1 \in DOMAIN q /\ q[1] \in X
  OBVIOUS

\* The rest of an order is in order.
LEMMA TailInOrder ==
  ASSUME NEW q \in Seq(Frame), q # <<>>, InOrder(q)
  PROVE  InOrder(Tail(q))
<1>1. /\ Tail(q) \in Seq(Frame) /\ Len(q) \in Nat /\ DOMAIN q = 1 .. Len(q)
      /\ DOMAIN Tail(q) = 1 .. Len(q) - 1 /\ \A k \in 1 .. Len(q) - 1 : Tail(q)[k] = q[k + 1]
  OBVIOUS
<1>2. SUFFICES ASSUME NEW m \in 1 .. Len(q) - 1, NEW n \in 1 .. Len(q) - 1, m < n
               PROVE  Tail(q)[m].tag < Tail(q)[n].tag
  BY <1>1 DEF InOrder
<1>3. m + 1 \in DOMAIN q /\ n + 1 \in DOMAIN q /\ m + 1 < n + 1
  BY <1>1, <1>2
<1>4. q[m + 1].tag < q[n + 1].tag
  BY <1>3 DEF InOrder
<1> QED
  BY <1>1, <1>4

\* The client's state is of its types, what is pending is what was promised, and its
\* queues hold the calls in their order.
ClientRight == ClientTypeOK /\ PendingRight /\ QueueRight

\* Nothing of the client changes, and nothing it knows of its frames.
LEMMA ClientStays ==
  ASSUME ClientRight, WireTypeOK', UNCHANGED <<client, peer>>
  PROVE  ClientRight'
<1>1. ClientTypeOK'
  BY DEF ClientRight, ClientTypeOK, client
<1>2. PendingRight'
  BY DEF ClientRight, PendingRight, client, Items
<1>3. Queue' = Queue /\ Outstanding' = Outstanding
  BY DEF Queue, Outstanding, client, peer
<1>4. QueueRight'
  BY <1>3 DEF ClientRight, QueueRight, client, peer
<1> QED
  BY <1>1, <1>2, <1>4 DEF ClientRight

LEMMA BrokerStepKeeps ==
  ASSUME SessionInv, Next, UNCHANGED <<client, peer>>
  PROVE  SessionInv'
<1>1. ConnectionInv'
  BY BrokerKeeps DEF SessionInv
<1>2. ClientRight'
  BY <1>1, ClientStays DEF SessionInv, ClientRight, ConnectionInv, TypesRight
<1>3. InOrder(requests')
  BY BrokerTakes, TailInOrder DEF SessionInv, ConnectionInv, TypesRight, WireTypeOK
<1>4. ClientPolite'
  BY DEF SessionInv, ClientPolite, client, peer
<1> QED
  BY <1>1, <1>2, <1>3, <1>4 DEF SessionInv, ClientRight

\* A request on its way has a tag that was sent.
LEMMA RequestIsSent ==
  ASSUME ConnectionInv, NEW p \in DOMAIN requests
  PROVE  requests[p].tag \in 1 .. sent
<1>1. <<requests[p].id, requests[p].tag>> \in Entries[1] /\ 1 \in Places
  BY EntriesAre DEF Items, Names, Places
<1>2. <<requests[p].id, requests[p].tag>> \in Owed
  BY <1>1 DEF ConnectionInv, FlowRight
<1>3. requests[p].tag \in Outstanding
  BY <1>2, OwedIs
<1> QED
  BY <1>3 DEF ConnectionInv, PeerRight, Outstanding

\* A reply on its way to an open client is to the request pending under its
\* identifier.
LEMMA ReplyIsPending ==
  ASSUME ConnectionInv, QueueRight, ~closed, NEW p \in DOMAIN replies
  PROVE  /\ replies[p].tag \in Outstanding /\ replies[p].tag \in 1 .. sent
         /\ waiting[replies[p].tag] = replies[p].id
         /\ replies[p].id \in DOMAIN pending /\ pending[replies[p].id] = replies[p].tag
<1>1. <<replies[p].id, replies[p].tag>> \in Entries[9] /\ 9 \in Places
  BY EntriesAre DEF Items, Names, Places
<1>2. <<replies[p].id, replies[p].tag>> \in Owed
  BY <1>1 DEF ConnectionInv, FlowRight
<1>3. replies[p].tag \in Outstanding /\ waiting[replies[p].tag] = replies[p].id
  BY <1>2, OwedIs
<1> QED
  BY <1>3 DEF ConnectionInv, PeerRight, Outstanding, QueueRight

\* The frame that is transmitted has the next tag, and the client has no other frame
\* unanswered with its identifier, nor more frames than it may have pending.
LEMMA TransmitIs ==
  ASSUME SessionInv, Transmit
  PROVE  /\ ~closed /\ Queue # <<>> /\ Head(sendBuffer) = Queue[1] /\ Queue[1] \in Frame
         /\ Queue[1].tag = sent + 1 /\ sent < MaxTags
         /\ Queue' = Tail(Queue) /\ sendBuffer' \in Seq(Frame)
         /\ \A t \in Outstanding : waiting[t] # Queue[1].id
         /\ Cardinality(Outstanding) < maxPendingRequests
<1> DEFINE f == Queue[1]
<1>1. /\ Queue \in Seq(Frame) /\ Len(Queue) \in Nat /\ DOMAIN Queue = 1 .. Len(Queue)
      /\ Queue # <<>> /\ Head(sendBuffer) = f
      /\ Tail(sendBuffer) \in Seq(Frame) /\ Tail(sendBuffer) \o writeQueue = Tail(Queue)
  BY QueueIs DEF SessionInv, Transmit
<1>2. 1 \in DOMAIN Queue /\ f \in Frame
  <2>1. Queue \in Seq(Frame) /\ Queue # <<>>
    BY <1>1
  <2> QED
    BY <2>1, FirstIs
<1>3. ~closed
  BY DEF SessionInv, PendingRight, Transmit
<1>4. f.tag = sent + 1 /\ f.id \in DOMAIN pending /\ pending[f.id] = f.tag
  <2>1. f.tag = sent + 1
    BY <1>2, <1>3 DEF SessionInv, QueueRight
  <2> QED
    BY <1>2, <1>3, <2>1 DEF SessionInv, QueueRight
<1>5. Queue' = Tail(Queue) /\ sendBuffer' \in Seq(Frame)
  BY <1>1 DEF Transmit, Queue
<1> HIDE DEF f
<1>6. sent \in Nat /\ sent < MaxTags
  <2>1. f.tag \in Tags
    BY <1>2 DEF Frame
  <2> QED
    BY <1>4, <2>1, OutstandingFinite, WireAssumption DEF Tags, SessionInv, ConnectionInv
<1>7. \A t \in Outstanding : t \in 1 .. sent /\ waiting[t] \in DOMAIN pending /\ pending[waiting[t]] = t
  BY <1>3 DEF SessionInv, QueueRight, ConnectionInv, PeerRight, Outstanding
<1>8. \A t \in Outstanding : waiting[t] # f.id
  <2>1. SUFFICES ASSUME NEW t \in Outstanding, waiting[t] = f.id
                 PROVE  FALSE
    OBVIOUS
  <2>2. t = sent + 1
    BY <1>4, <1>7, <2>1
  <2> QED
    BY <1>6, <1>7, <2>2
<1>9. Cardinality(Outstanding) < maxPendingRequests
  <2> DEFINE others == DOMAIN pending \ {f.id}
             under  == [t \in Outstanding |-> waiting[t]]
  <2>1. DOMAIN pending \subseteq 1 .. MaxId /\ MaxId \in Nat
    BY ClientAssumption DEF SessionInv, ClientTypeOK
  <2>2. IsFiniteSet(1 .. MaxId)
    BY <2>1, FS_Interval
  <2>3. IsFiniteSet(DOMAIN pending) /\ Cardinality(DOMAIN pending) \in Nat
    BY <2>1, <2>2, FS_Subset, FS_CardinalityType
  <2>4. IsFiniteSet(others) /\ Cardinality(others) = Cardinality(DOMAIN pending) - 1
    BY <1>4, <2>3, FS_RemoveElement
  <2>5. under \in [Outstanding -> others]
    BY <1>7, <1>8
  <2>6. \A t, u \in Outstanding : under[t] = under[u] => t = u
    BY <1>7
  <2> HIDE DEF others, under
  <2>7. under \in Injection(Outstanding, others)
    BY <2>5, <2>6 DEF Injection, IsInjective
  <2>8. Cardinality(Outstanding) <= Cardinality(others)
    BY <2>4, <2>7, FS_Injection
  <2>9. maxPendingRequests \in Nat /\ Cardinality(DOMAIN pending) <= maxPendingRequests
    BY ClientAssumption DEF SessionInv, ClientTypeOK, PendingRight
  <2>10. Cardinality(Outstanding) \in Nat
    BY OutstandingFinite DEF SessionInv, ConnectionInv
  <2> QED
    BY <2>3, <2>4, <2>8, <2>9, <2>10
<1> QED
  BY <1>1, <1>2, <1>3, <1>4, <1>5, <1>6, <1>8, <1>9 DEF f

\* An order is continued by a greater tag.
LEMMA AppendInOrder ==
  ASSUME NEW q \in Seq(Frame), NEW f \in Frame, InOrder(q), \A p \in DOMAIN q : q[p].tag < f.tag
  PROVE  InOrder(Append(q, f))
<1>1. /\ Len(q) \in Nat /\ DOMAIN q = 1 .. Len(q) /\ DOMAIN Append(q, f) = 1 .. Len(q) + 1
      /\ Append(q, f)[Len(q) + 1] = f /\ \A k \in 1 .. Len(q) : Append(q, f)[k] = q[k]
  OBVIOUS
<1>2. SUFFICES ASSUME NEW m \in 1 .. Len(q) + 1, NEW n \in 1 .. Len(q) + 1, m < n
               PROVE  Append(q, f)[m].tag < Append(q, f)[n].tag
  BY <1>1 DEF InOrder
<1>3. m \in 1 .. Len(q)
  BY <1>1, <1>2
<1>4. CASE n \in 1 .. Len(q)
  BY <1>1, <1>2, <1>3, <1>4 DEF InOrder
<1>5. CASE n = Len(q) + 1
  BY <1>1, <1>3, <1>5
<1> QED
  BY <1>1, <1>4, <1>5

\* The frame that is transmitted gives no cause for a refusal.
LEMMA CausesNothing ==
  ASSUME SessionInv, Transmit
  PROVE  "duplicate" \notin Causes(Queue[1].id)
         /\ (maxPendingRequests <= MaxInFlight => "overloaded" \notin Causes(Queue[1].id))
<1>1. \A t \in Outstanding : waiting[t] # Queue[1].id
  BY TransmitIs
<1>2. Cardinality(Outstanding) < maxPendingRequests /\ Cardinality(Outstanding) \in Nat
      /\ maxPendingRequests \in Nat /\ MaxInFlight \in Nat
  BY TransmitIs, OutstandingFinite, ClientAssumption, ConnectionAssumption
     DEF SessionInv, ConnectionInv, ClientTypeOK
<1>3. maxPendingRequests <= MaxInFlight => ~(Cardinality(Outstanding) >= MaxInFlight)
  BY <1>2
<1> QED
  BY <1>1, <1>3 DEF Causes

LEMMA TransmitKeeps ==
  ASSUME SessionInv, Transmit, Sends(Head(sendBuffer)), UNCHANGED server
  PROVE  SessionInv'
<1> DEFINE f == Queue[1]
<1>1. /\ ~closed /\ Queue # <<>> /\ Head(sendBuffer) = f /\ f \in Frame
      /\ f.tag = sent + 1 /\ sent < MaxTags
      /\ Queue' = Tail(Queue) /\ sendBuffer' \in Seq(Frame)
  BY TransmitIs
<1>2. /\ Len(requests) < Buffer /\ requests' = Append(requests, f)
      /\ UNCHANGED <<replies, clientOpen, maxPendingRequests, pending, nextRequestId,
                     writeQueue, blocked, closed, settled>>
  BY <1>1 DEF Transmit
<1>3. /\ sent' = f.tag
      /\ waiting' = [t \in Outstanding \cup {f.tag} |-> IF t = f.tag THEN f.id ELSE waiting[t]]
      /\ undue' = undue \ Causes(f.id)
  BY <1>1 DEF Sends
<1>4. Queue \in Seq(Frame) /\ Len(Queue) \in Nat /\ DOMAIN Queue = 1 .. Len(Queue) /\ 1 \in DOMAIN Queue
  BY <1>1, QueueIs, FirstIs DEF SessionInv
<1>5. f.id \in DOMAIN pending /\ pending[f.id] = f.tag
  BY <1>1, <1>4 DEF SessionInv, QueueRight
<1>6. "duplicate" \notin Causes(f.id) /\ (maxPendingRequests <= MaxInFlight => "overloaded" \notin Causes(f.id))
  BY CausesNothing
<1>7. Sends(f)
  BY <1>1
<1>8. DOMAIN Tail(Queue) = 1 .. Len(Queue) - 1 /\ Len(Tail(Queue)) = Len(Queue) - 1
      /\ \A k \in 1 .. Len(Queue) - 1 : Tail(Queue)[k] = Queue[k + 1] /\ k + 1 \in DOMAIN Queue
  BY <1>1, <1>4
<1> HIDE DEF f
<1>9. ConnectionInv'
  BY <1>1, <1>2, <1>7, SendKeeps DEF SessionInv
<1>10. sent \in Nat
  BY OutstandingFinite DEF SessionInv, ConnectionInv
<1>11. ClientTypeOK'
  BY <1>1, <1>2, <1>9 DEF SessionInv, ClientTypeOK, ConnectionInv, TypesRight
<1>12. PendingRight'
  BY <1>1, <1>2 DEF SessionInv, PendingRight, Items
<1>13. QueueRight'
  <2>1. \A k \in DOMAIN Queue : Queue[k].tag = sent + k /\ Queue[k].id \in DOMAIN pending
                              /\ pending[Queue[k].id] = Queue[k].tag
    BY <1>1 DEF SessionInv, QueueRight
  <2>2. {t \in Tags : settled[t] # "unused"} = 1 .. sent + Len(Queue)
        /\ \A t \in Outstanding : waiting[t] \in DOMAIN pending /\ pending[waiting[t]] = t
    BY <1>1 DEF SessionInv, QueueRight
  <2>3. \A k \in DOMAIN Queue' : Queue'[k].tag = sent' + k /\ Queue'[k].id \in DOMAIN pending
                               /\ pending[Queue'[k].id] = Queue'[k].tag
    <3>1. SUFFICES ASSUME NEW k \in 1 .. Len(Queue) - 1
                   PROVE  Queue[k + 1].tag = sent' + k /\ Queue[k + 1].id \in DOMAIN pending
                          /\ pending[Queue[k + 1].id] = Queue[k + 1].tag
      BY <1>1, <1>8
    <3>2. k + 1 \in DOMAIN Queue /\ sent' + k = sent + (k + 1)
      BY <1>1, <1>3, <1>8, <1>10
    <3> QED
      BY <2>1, <3>2
  <2>4. sent' + Len(Queue') = sent + Len(Queue)
    BY <1>1, <1>3, <1>4, <1>8, <1>10
  <2>5. \A t \in Outstanding' : waiting'[t] \in DOMAIN pending /\ pending[waiting'[t]] = t
    BY <1>3, <1>5, <2>2 DEF Outstanding
  <2> QED
    BY <1>2, <2>2, <2>3, <2>4, <2>5 DEF QueueRight
<1>14. InOrder(requests')
  <2>1. \A p \in DOMAIN requests : requests[p].tag < f.tag
    BY <1>1, <1>10, RequestIsSent DEF SessionInv
  <2> QED
    BY <1>1, <1>2, <2>1, AppendInOrder DEF SessionInv, ConnectionInv, TypesRight, WireTypeOK
<1>15. ClientPolite'
  BY <1>2, <1>3, <1>6 DEF SessionInv, ClientPolite
<1> QED
  BY <1>9, <1>11, <1>12, <1>13, <1>14, <1>15 DEF SessionInv

\* What happens to the client alone leaves the rest as it is.
LEMMA ClientAlone ==
  ASSUME SessionInv, clientOpen' \in BOOLEAN, UNCHANGED <<requests, replies, server, peer>>,
         maxPendingRequests' = maxPendingRequests
  PROVE  ConnectionInv' /\ InOrder(requests') /\ ClientPolite'
<1>1. ConnectionInv'
  BY CloseKeeps DEF SessionInv
<1> QED
  BY <1>1 DEF SessionInv, ClientPolite, peer

\* Failing the connection settles everything that was pending.
LEMMA FailSettles ==
  ASSUME SessionInv, Fail
  PROVE  PendingRight' /\ QueueRight' /\ clientOpen' \in BOOLEAN
         /\ (WireTypeOK' => ClientTypeOK') /\ maxPendingRequests' = maxPendingRequests
<1>1. /\ closed' = TRUE /\ settled' = Failed(pending) /\ pending' = <<>>
      /\ writeQueue' = <<>> /\ sendBuffer' = <<>> /\ clientOpen' = FALSE
      /\ UNCHANGED <<requests, maxPendingRequests, nextRequestId, blocked>>
  BY DEF Fail
<1>2. \A t \in Tags : settled[t] = "open" => \E i \in DOMAIN pending : pending[i] = t
  BY DEF SessionInv, PendingRight, Items
<1>3. \A t \in Tags : settled'[t] = (IF \E i \in DOMAIN pending : pending[i] = t THEN "failed" ELSE settled[t])
  BY <1>1 DEF Failed
<1>4. \A t \in Tags : settled'[t] # "open"
  BY <1>2, <1>3
<1>5. DOMAIN <<>> = {} /\ Items(<<>>) = {}
  BY DEF Items
<1>6. PendingRight'
  <2>1. Cardinality(DOMAIN pending') <= maxPendingRequests'
    <3>1. Cardinality(DOMAIN pending') = 0
      BY <1>1, <1>5, FS_EmptySet
    <3> QED
      BY <1>1, <3>1, ClientAssumption DEF SessionInv, ClientTypeOK
  <2> QED
    BY <1>1, <1>4, <1>5, <2>1 DEF PendingRight
<1>7. QueueRight'
  BY <1>1 DEF QueueRight
<1>8. ASSUME WireTypeOK'
      PROVE  ClientTypeOK'
  <2>1. settled' \in [Tags -> {"unused", "open", "answered", "failed"}]
    BY <1>1 DEF Failed, SessionInv, ClientTypeOK
  <2> QED
    BY <1>1, <1>5, <1>8, <2>1 DEF SessionInv, ClientTypeOK
<1> QED
  BY <1>1, <1>6, <1>7, <1>8

LEMMA FailKeeps ==
  ASSUME SessionInv, Fail, UNCHANGED <<replies, server, peer>>
  PROVE  SessionInv'
<1>1. /\ PendingRight' /\ QueueRight' /\ clientOpen' \in BOOLEAN
      /\ WireTypeOK' => ClientTypeOK'
      /\ maxPendingRequests' = maxPendingRequests
  BY FailSettles
<1>2. requests' = requests
  BY DEF Fail
<1>3. ConnectionInv' /\ InOrder(requests') /\ ClientPolite'
  BY <1>1, <1>2, ClientAlone
<1> QED
  BY <1>1, <1>3 DEF SessionInv, ConnectionInv, TypesRight

\* Draining moves frames from the queue to the socket.
LEMMA DrainKeeps ==
  ASSUME SessionInv, Drain, UNCHANGED <<server, peer>>
  PROVE  SessionInv'
<1>1. /\ ~closed /\ Flushed(writeQueue, TRUE)
      /\ UNCHANGED <<requests, replies, clientOpen, maxPendingRequests, pending, nextRequestId, closed,
                     settled>>
  BY DEF Drain, wire
<1>2. writeQueue \in Seq(Frame) /\ sendBuffer \in Seq(Frame) /\ TRUE \in BOOLEAN
  BY DEF SessionInv, ClientTypeOK
<1>3. /\ sendBuffer' \in Seq(Frame) /\ writeQueue' \in Seq(Frame) /\ blocked' \in BOOLEAN
      /\ Queue' = Queue
  BY <1>1, <1>2, FlushedIs DEF Queue
<1>4. ConnectionInv' /\ InOrder(requests') /\ ClientPolite'
  <2>1. clientOpen' \in BOOLEAN
    BY <1>1 DEF SessionInv, ConnectionInv, TypesRight, WireTypeOK
  <2> QED
    BY <1>1, <2>1, ClientAlone
<1>5. ClientTypeOK'
  BY <1>1, <1>3, <1>4 DEF SessionInv, ClientTypeOK, ConnectionInv, TypesRight
<1>6. PendingRight'
  BY <1>1 DEF SessionInv, PendingRight, Items
<1>7. QueueRight'
  BY <1>1, <1>3 DEF SessionInv, QueueRight, Outstanding, peer
<1> QED
  BY <1>4, <1>5, <1>6, <1>7 DEF SessionInv

\* Values of a map, with one more or one less.
LEMMA ItemsGain ==
  ASSUME NEW f, NEW k, k \notin DOMAIN f, NEW v,
         NEW g, g = [i \in DOMAIN f \cup {k} |-> IF i = k THEN v ELSE f[i]]
  PROVE  Items(g) = Items(f) \cup {v}
  BY DEF Items

LEMMA ItemsLose ==
  ASSUME NEW f, NEW k \in DOMAIN f, \A i, j \in DOMAIN f : f[i] = f[j] => i = j,
         NEW g, g = [i \in DOMAIN f \ {k} |-> f[i]]
  PROVE  Items(g) = Items(f) \ {f[k]}
  BY DEF Items

\* A call takes the next tag, an identifier that is not pending, and the last place of
\* the queue.
LEMMA CallKeeps ==
  ASSUME SessionInv, NEW kind \in Kinds, Send(kind), UNCHANGED <<server, peer>>
  PROVE  SessionInv'
<1> DEFINE id  == FreeId
           n   == sent + Len(Queue)
           tag == n + 1
           f   == [id |-> id, tag |-> tag, kind |-> kind]
<1>1. ~closed /\ Cardinality(DOMAIN pending) < maxPendingRequests
      /\ UNCHANGED <<requests, replies, clientOpen, maxPendingRequests, closed>>
  BY DEF Send, wire
<1>2. /\ Queue \in Seq(Frame) /\ Len(Queue) \in Nat /\ DOMAIN Queue = 1 .. Len(Queue)
      /\ sendBuffer \in Seq(Frame) /\ writeQueue \in Seq(Frame) /\ sent \in Nat /\ n \in Nat
  <2>1. ClientTypeOK /\ PeerRight
    BY DEF SessionInv, ConnectionInv
  <2>2. /\ Queue \in Seq(Frame) /\ Len(Queue) \in Nat /\ DOMAIN Queue = 1 .. Len(Queue)
        /\ sendBuffer \in Seq(Frame) /\ writeQueue \in Seq(Frame)
    BY <2>1, QueueIs
  <2>3. sent \in Nat
    BY <2>1, OutstandingFinite
  <2> QED
    BY <2>2, <2>3
<1>3. {t \in Tags : settled[t] # "unused"} = 1 .. n
  BY <1>1 DEF SessionInv, QueueRight
<1>4. Cardinality({t \in Tags : settled[t] # "unused"}) = n
  <2>1. 1 \in Int /\ n \in Int /\ (1 > n => n = 0)
    BY <1>2
  <2>2. Cardinality(1 .. n) = n
    BY <2>1, FS_Interval
  <2> QED
    BY <1>3, <2>2
<1>5. id \in RequestIds /\ id \notin DOMAIN pending
  BY <1>1, FreeIs DEF SessionInv
<1>6. /\ tag <= MaxTags
      /\ nextRequestId' = After(id)
      /\ pending' = [i \in DOMAIN pending \cup {id} |-> IF i = id THEN tag ELSE pending[i]]
      /\ settled' = [settled EXCEPT ![tag] = "open"]
      /\ Flushed(Append(writeQueue, f), ~blocked)
  BY <1>4 DEF Send
<1>7. tag \in Tags /\ f \in Frame /\ f.tag = tag /\ f.id = id
  <2>1. tag \in Tags
    BY <1>2, <1>6, WireAssumption DEF Tags
  <2> QED
    BY <1>5, <2>1 DEF Frame
<1> HIDE DEF f, id
<1>8. /\ sendBuffer' \in Seq(Frame) /\ writeQueue' \in Seq(Frame) /\ blocked' \in BOOLEAN
      /\ Queue' = sendBuffer \o Append(writeQueue, f)
  <2>1. Append(writeQueue, f) \in Seq(Frame) /\ (~blocked) \in BOOLEAN
    BY <1>2, <1>7
  <2> QED
    BY <1>2, <1>6, <2>1, FlushedIs
<1>9. Queue' = Append(Queue, f)
  <2>1. Append(writeQueue, f) = writeQueue \o <<f>> /\ <<f>> \in Seq(Frame)
    BY <1>2, <1>7, AppendIsConcat
  <2>2. sendBuffer \o (writeQueue \o <<f>>) = (sendBuffer \o writeQueue) \o <<f>>
    BY <1>2, <2>1, ConcatAssociative
  <2>3. Append(Queue, f) = Queue \o <<f>>
    BY <1>2, <1>7, AppendIsConcat
  <2> QED
    BY <1>8, <2>1, <2>2, <2>3 DEF Queue
<1>10. Items(pending) = {t \in Tags : settled[t] = "open"} /\ Items(pending) \subseteq 1 .. n
  BY <1>3 DEF SessionInv, PendingRight
<1>11. \A i \in DOMAIN pending : pending[i] \in 1 .. n /\ pending[i] # tag
  <2>1. \A i \in DOMAIN pending : pending[i] \in 1 .. n
    BY <1>10 DEF Items
  <2>2. \A m \in 1 .. n : m # n + 1
    BY <1>2
  <2> QED
    BY <2>1, <2>2
<1>12. ConnectionInv' /\ InOrder(requests') /\ ClientPolite'
  <2>1. clientOpen' \in BOOLEAN
    BY <1>1 DEF SessionInv, ConnectionInv, TypesRight, WireTypeOK
  <2> QED
    BY <1>1, <2>1, ClientAlone
<1>13. settled \in [Tags -> {"unused", "open", "answered", "failed"}]
  BY DEF SessionInv, ClientTypeOK
<1>14. \A t \in Tags : settled'[t] = IF t = tag THEN "open" ELSE settled[t]
  BY <1>6, <1>13
<1>15. DOMAIN pending' = DOMAIN pending \cup {id}
       /\ \A i \in DOMAIN pending' : pending'[i] = IF i = id THEN tag ELSE pending[i]
  BY <1>6
<1> HIDE DEF tag
<1>16. ClientTypeOK'
  <2>1. nextRequestId' \in RequestIds
    <3>1. MaxId \in Nat /\ MaxId >= 1 /\ RequestIds = 1 .. MaxId
      BY ClientAssumption
    <3>2. id % MaxId \in 0 .. MaxId - 1
      BY <1>5, <3>1
    <3> QED
      BY <1>6, <3>1, <3>2 DEF After
  <2>2. DOMAIN pending' \subseteq RequestIds /\ \A i \in DOMAIN pending' : pending'[i] \in Tags
    BY <1>5, <1>7, <1>15 DEF SessionInv, ClientTypeOK
  <2>3. settled' \in [Tags -> {"unused", "open", "answered", "failed"}]
    BY <1>6, <1>13
  <2> QED
    BY <1>1, <1>8, <1>12, <2>1, <2>2, <2>3 DEF SessionInv, ClientTypeOK, ConnectionInv, TypesRight
<1>17. PendingRight'
  <2>1. \A i, j \in DOMAIN pending' : pending'[i] = pending'[j] => i = j
    BY <1>11, <1>15 DEF SessionInv, PendingRight
  <2>2. Items(pending') = Items(pending) \cup {tag}
    BY <1>5, <1>6, ItemsGain
  <2>3. {t \in Tags : settled'[t] = "open"} = Items(pending')
    BY <1>7, <1>10, <1>14, <2>2
  <2>4. Cardinality(DOMAIN pending') <= maxPendingRequests'
    <3>1. DOMAIN pending \subseteq 1 .. MaxId /\ MaxId \in Nat /\ maxPendingRequests \in Nat
      BY ClientAssumption DEF SessionInv, ClientTypeOK
    <3>2. IsFiniteSet(1 .. MaxId)
      BY <3>1, FS_Interval
    <3>3. IsFiniteSet(DOMAIN pending) /\ Cardinality(DOMAIN pending) \in Nat
      BY <3>1, <3>2, FS_Subset, FS_CardinalityType
    <3>4. Cardinality(DOMAIN pending') = Cardinality(DOMAIN pending) + 1
      BY <1>5, <1>15, <3>3, FS_AddElement
    <3> QED
      BY <1>1, <3>1, <3>3, <3>4
  <2> QED
    BY <1>1, <2>1, <2>3, <2>4 DEF PendingRight
<1>18. QueueRight'
  <2>1. \A k \in DOMAIN Queue : Queue[k].tag = sent + k /\ Queue[k].id \in DOMAIN pending
                              /\ pending[Queue[k].id] = Queue[k].tag
    BY <1>1 DEF SessionInv, QueueRight
  <2>2. \A t \in Outstanding : waiting[t] \in DOMAIN pending /\ pending[waiting[t]] = t
    BY <1>1 DEF SessionInv, QueueRight
  <2>3. /\ Len(Queue') = Len(Queue) + 1 /\ DOMAIN Queue' = 1 .. Len(Queue) + 1
        /\ Queue'[Len(Queue) + 1] = f /\ \A k \in 1 .. Len(Queue) : Queue'[k] = Queue[k]
    BY <1>2, <1>7, <1>9
  <2>4. tag = sent + (Len(Queue) + 1) /\ tag = n + 1
    BY <1>2 DEF tag
  <2>5. \A k \in DOMAIN Queue' : Queue'[k].tag = sent + k /\ Queue'[k].id \in DOMAIN pending'
                               /\ pending'[Queue'[k].id] = Queue'[k].tag
    <3>1. SUFFICES ASSUME NEW k \in 1 .. Len(Queue) + 1
                   PROVE  Queue'[k].tag = sent + k /\ Queue'[k].id \in DOMAIN pending'
                          /\ pending'[Queue'[k].id] = Queue'[k].tag
      BY <2>3
    <3>2. CASE k = Len(Queue) + 1
      BY <1>7, <1>15, <2>3, <2>4, <3>2
    <3>3. CASE k \in 1 .. Len(Queue)
      <4>1. Queue'[k] = Queue[k] /\ Queue[k].tag = sent + k /\ Queue[k].id \in DOMAIN pending
            /\ pending[Queue[k].id] = Queue[k].tag
        BY <1>2, <2>1, <2>3, <3>3
      <4>2. Queue[k].id # id
        BY <1>5, <4>1
      <4> QED
        BY <1>15, <4>1, <4>2
    <3> QED
      BY <1>2, <3>2, <3>3
  <2>6. {t \in Tags : settled'[t] # "unused"} = 1 .. n + 1
    <3>1. {t \in Tags : settled'[t] # "unused"} = {t \in Tags : settled[t] # "unused"} \cup {tag}
      BY <1>7, <1>14
    <3>2. 1 .. n + 1 = (1 .. n) \cup {n + 1}
      BY <1>2
    <3> QED
      BY <1>3, <2>4, <3>1, <3>2
  <2>7. n + 1 = sent + Len(Queue')
    BY <1>2, <2>3
  <2>8. sent' = sent /\ Outstanding' = Outstanding /\ waiting' = waiting
    BY DEF peer, Outstanding
  <2>9. \A t \in Outstanding : waiting[t] \in DOMAIN pending' /\ pending'[waiting[t]] = t
    BY <1>5, <1>15, <2>2
  <2> HIDE DEF n
  <2> QED
    BY <2>5, <2>6, <2>7, <2>8, <2>9 DEF QueueRight
<1> QED
  BY <1>12, <1>16, <1>17, <1>18 DEF SessionInv

\* Replies that are read are answers to what is pending, or fail the connection.
LEMMA ReceiveKeeps ==
  ASSUME SessionInv, Receive, Reads, UNCHANGED server
  PROVE  SessionInv'
<1> DEFINE r == Head(replies)
<1>1. ~closed /\ replies # <<>> /\ replies' = Tail(replies) /\ requests' = requests
      /\ maxPendingRequests' = maxPendingRequests
  BY DEF Receive, Fail
<1>2. /\ r.tag \in Outstanding /\ r.tag \in 1 .. sent /\ waiting[r.tag] = r.id
      /\ r.id \in DOMAIN pending /\ pending[r.id] = r.tag
  <2>1. replies \in Seq(Reply)
    BY DEF SessionInv, ClientTypeOK, WireTypeOK
  <2>2. r = replies[1] /\ 1 \in DOMAIN replies
    BY <1>1, <2>1
  <2> QED
    BY <1>1, <2>2, ReplyIsPending DEF SessionInv
<1>3. waiting' = [t \in Outstanding \ {r.tag} |-> waiting[t]] /\ UNCHANGED <<sent, undue>>
  BY DEF Reads
<1>4. \/ /\ pending' = Forget(r.id)
         /\ settled' = [settled EXCEPT ![r.tag] = "answered"]
         /\ UNCHANGED <<clientOpen, nextRequestId, writeQueue, sendBuffer, blocked, closed>>
      \/ Fail
  BY <1>2 DEF Receive
<1> HIDE DEF r
<1>5. clientOpen' \in BOOLEAN
  BY <1>4 DEF Fail, SessionInv, ClientTypeOK, WireTypeOK
<1>6. ConnectionInv'
  BY <1>1, <1>5, ReadKeeps DEF SessionInv
<1>7. InOrder(requests') /\ ClientPolite'
  BY <1>1, <1>3 DEF SessionInv, ClientPolite
<1>8. CASE Fail
  BY <1>6, <1>7, <1>8, FailSettles DEF SessionInv, ConnectionInv, TypesRight
<1>9. CASE /\ pending' = Forget(r.id)
           /\ settled' = [settled EXCEPT ![r.tag] = "answered"]
           /\ UNCHANGED <<clientOpen, nextRequestId, writeQueue, sendBuffer, blocked, closed>>
  <2>1. settled \in [Tags -> {"unused", "open", "answered", "failed"}] /\ r.tag \in Tags
    BY <1>2 DEF SessionInv, ClientTypeOK
  <2>2. \A t \in Tags : settled'[t] = IF t = r.tag THEN "answered" ELSE settled[t]
    BY <1>9, <2>1
  <2>3. pending' = [i \in DOMAIN pending \ {r.id} |-> pending[i]]
    BY <1>9 DEF Forget
  <2>4. \A i, j \in DOMAIN pending : pending[i] = pending[j] => i = j
    BY DEF SessionInv, PendingRight
  <2>5. Items(pending') = Items(pending) \ {r.tag}
    BY <1>2, <2>3, <2>4, ItemsLose
  <2>6. {t \in Tags : settled[t] = "open"} = Items(pending)
    BY DEF SessionInv, PendingRight
  <2>7. settled[r.tag] = "open"
    BY <1>2, <2>6 DEF Items
  <2>8. DOMAIN pending' = DOMAIN pending \ {r.id} /\ \A i \in DOMAIN pending' : pending'[i] = pending[i]
    BY <2>3
  <2>9. ClientTypeOK'
    <3>1. settled' \in [Tags -> {"unused", "open", "answered", "failed"}]
      BY <1>9, <2>1
    <3>2. DOMAIN pending' \subseteq RequestIds /\ \A i \in DOMAIN pending' : pending'[i] \in Tags
      BY <2>8 DEF SessionInv, ClientTypeOK
    <3> QED
      BY <1>1, <1>6, <1>9, <3>1, <3>2 DEF SessionInv, ClientTypeOK, ConnectionInv, TypesRight
  <2>10. PendingRight'
    <3>1. \A i, j \in DOMAIN pending' : pending'[i] = pending'[j] => i = j
      BY <2>4, <2>8
    <3>2. {t \in Tags : settled'[t] = "open"} = Items(pending')
      BY <2>2, <2>5, <2>6
    <3>3. Cardinality(DOMAIN pending') <= maxPendingRequests'
      <4>1. DOMAIN pending \subseteq 1 .. MaxId /\ MaxId \in Nat /\ maxPendingRequests \in Nat
        BY ClientAssumption DEF SessionInv, ClientTypeOK
      <4>2. IsFiniteSet(1 .. MaxId)
        BY <4>1, FS_Interval
      <4>3. IsFiniteSet(DOMAIN pending) /\ Cardinality(DOMAIN pending) \in Nat
        BY <4>1, <4>2, FS_Subset, FS_CardinalityType
      <4>4. Cardinality(DOMAIN pending') = Cardinality(DOMAIN pending) - 1
        BY <1>2, <2>8, <4>3, FS_RemoveElement
      <4>5. Cardinality(DOMAIN pending) <= maxPendingRequests
        BY DEF SessionInv, PendingRight
      <4> QED
        BY <1>1, <4>1, <4>3, <4>4, <4>5
    <3> QED
      BY <1>1, <1>9, <3>1, <3>2, <3>3 DEF PendingRight
  <2>11. QueueRight'
    <3>1. \A k \in DOMAIN Queue : Queue[k].tag = sent + k /\ Queue[k].id \in DOMAIN pending
                                /\ pending[Queue[k].id] = Queue[k].tag
      BY <1>1 DEF SessionInv, QueueRight
    <3>2. /\ {t \in Tags : settled[t] # "unused"} = 1 .. sent + Len(Queue)
          /\ \A t \in Outstanding : waiting[t] \in DOMAIN pending /\ pending[waiting[t]] = t
      BY <1>1 DEF SessionInv, QueueRight
    <3>3. Queue' = Queue /\ sent' = sent /\ Outstanding' = Outstanding \ {r.tag}
      BY <1>3, <1>9 DEF Queue, Outstanding
    <3>4. \A k \in DOMAIN Queue : Queue[k].tag # r.tag
      <4>1. /\ DOMAIN Queue = 1 .. Len(Queue) /\ Len(Queue) \in Nat
        BY QueueIs DEF SessionInv
      <4>2. sent \in Nat
        BY OutstandingFinite DEF SessionInv, ConnectionInv
      <4>3. \A k \in 1 .. Len(Queue) : sent + k # r.tag
        BY <1>2, <4>1, <4>2
      <4> QED
        BY <3>1, <4>1, <4>3
    <3>5. \A k \in DOMAIN Queue : Queue[k].id # r.id
      BY <1>2, <3>1, <3>4
    <3>6. \A k \in DOMAIN Queue : Queue[k].tag = sent + k /\ Queue[k].id \in DOMAIN pending'
                                /\ pending'[Queue[k].id] = Queue[k].tag
      BY <2>8, <3>1, <3>5
    <3>7. {t \in Tags : settled'[t] # "unused"} = {t \in Tags : settled[t] # "unused"}
      BY <2>2, <2>7
    <3>8. \A t \in Outstanding' : waiting'[t] \in DOMAIN pending' /\ pending'[waiting'[t]] = t
      <4>1. SUFFICES ASSUME NEW t \in Outstanding, t # r.tag
                     PROVE  waiting[t] \in DOMAIN pending' /\ pending'[waiting[t]] = t
        BY <1>3, <3>3
      <4>2. waiting[t] \in DOMAIN pending /\ pending[waiting[t]] = t
        BY <3>2
      <4>3. waiting[t] # r.id
        BY <1>2, <4>1, <4>2
      <4> QED
        BY <2>8, <4>2, <4>3
    <3> QED
      BY <3>2, <3>3, <3>6, <3>7, <3>8 DEF QueueRight
  <2> QED
    BY <1>6, <1>7, <2>9, <2>10, <2>11 DEF SessionInv
<1> QED
  BY <1>4, <1>8, <1>9

\* HELLO is the first request, queued and pending.
LEMMA SessionInits == SessionInit => SessionInv
<1>1. SUFFICES ASSUME SessionInit
               PROVE  SessionInv
  OBVIOUS
<1>2. ConnectionInv
  BY <1>1, ConnectionInits DEF SessionInit, ConnectionInit
<1>3. PICK f \in {[id |-> 1, tag |-> Hello, kind |-> kind] : kind \in {"hello", "stranger"}} :
        sendBuffer = <<f>>
  BY <1>1 DEF SessionInit, ClientInit
<1>4. /\ maxPendingRequests \in PendingLimits /\ pending = <<Hello>> /\ nextRequestId = 2
      /\ writeQueue = <<>> /\ blocked = FALSE /\ closed = FALSE
      /\ settled = [t \in Tags |-> IF t = Hello THEN "open" ELSE "unused"]
      /\ sent = 0 /\ waiting = <<>> /\ undue = Refusals /\ requests = <<>>
  BY <1>1 DEF SessionInit, ClientInit, PeerInit, Init, WireInit
<1>5. /\ MaxId \in Nat /\ MaxId >= 2 /\ RequestIds = 1 .. MaxId
      /\ maxPendingRequests \in 1 .. MaxId /\ Hello = 1 /\ Hello \in Tags
  BY <1>4, ClientAssumption, WireAssumption DEF Hello, Tags
<1>6. f \in Frame /\ f.id = 1 /\ f.tag = 1
  BY <1>3, <1>5 DEF Frame, Kinds
<1>7. DOMAIN pending = {1} /\ pending[1] = 1 /\ Items(pending) = {1}
  <2>1. DOMAIN <<Hello>> = {1} /\ <<Hello>>[1] = 1
    BY <1>5
  <2> QED
    BY <1>4, <2>1 DEF Items
<1>8. <<f>> \in Seq(Frame) /\ Queue = <<f>>
  <2>1. <<f>> \in Seq(Frame)
    BY <1>6
  <2>2. <<f>> \o <<>> = <<f>>
    BY <2>1, ConcatEmptySeq
  <2> QED
    BY <1>3, <1>4, <2>1, <2>2 DEF Queue
<1>9. ClientTypeOK
  <2>1. settled \in [Tags -> {"unused", "open", "answered", "failed"}]
    BY <1>4
  <2>2. writeQueue \in Seq(Frame) /\ sendBuffer \in Seq(Frame)
    BY <1>3, <1>4, <1>8
  <2>3. DOMAIN pending \subseteq RequestIds /\ \A i \in DOMAIN pending : pending[i] \in Tags
    BY <1>5, <1>7
  <2>4. nextRequestId \in RequestIds
    BY <1>4, <1>5
  <2> QED
    BY <1>2, <1>4, <2>1, <2>2, <2>3, <2>4 DEF ClientTypeOK, ConnectionInv, TypesRight
<1>10. PendingRight
  <2>1. {t \in Tags : settled[t] = "open"} = {1}
    BY <1>4, <1>5
  <2>2. Cardinality(DOMAIN pending) = 1
    BY <1>7, FS_Singleton
  <2> QED
    BY <1>4, <1>5, <1>7, <2>1, <2>2 DEF PendingRight
<1>11. QueueRight
  <2>1. DOMAIN Queue = {1} /\ Queue[1] = f /\ Len(Queue) = 1
    BY <1>8
  <2>2. {t \in Tags : settled[t] # "unused"} = {1} /\ 1 .. 0 + 1 = {1}
    BY <1>4, <1>5
  <2>3. Outstanding = {}
    BY <1>4 DEF Outstanding
  <2> QED
    BY <1>4, <1>6, <1>7, <2>1, <2>2, <2>3 DEF QueueRight
<1>12. InOrder(requests)
  BY <1>4 DEF InOrder
<1>13. ClientPolite
  BY <1>4 DEF ClientPolite, Refusals
<1> QED
  BY <1>2, <1>9, <1>10, <1>11, <1>12, <1>13 DEF SessionInv

LEMMA SessionSteps == SessionInv /\ [SessionNext]_session => SessionInv'
<1> SUFFICES ASSUME SessionInv, [SessionNext]_session
             PROVE  SessionInv'
  OBVIOUS
<1>1. CASE Next /\ UNCHANGED <<client, peer>>
  BY <1>1, BrokerStepKeeps
<1>2. CASE ClientStep /\ UNCHANGED server
  <2>1. CASE Transmit /\ Sends(Head(sendBuffer))
    BY <1>2, <2>1, TransmitKeeps
  <2>2. CASE Receive /\ Reads
    BY <1>2, <2>2, ReceiveKeeps
  <2>3. ASSUME NEW kind \in {"op", "invalid"}, Send(kind), UNCHANGED peer
        PROVE  SessionInv'
    <3>1. kind \in Kinds
      BY DEF Kinds
    <3> QED
      BY <1>2, <2>3, <3>1, CallKeeps
  <2>4. CASE Drain /\ UNCHANGED peer
    BY <1>2, <2>4, DrainKeeps
  <2>5. CASE (Timer \/ CloseCall \/ SocketError) /\ UNCHANGED peer
    BY <1>2, <2>5, FailKeeps DEF Timer, CloseCall, SocketError
  <2> QED
    BY <1>2, <2>1, <2>2, <2>3, <2>4, <2>5 DEF ClientStep
<1>3. CASE BrokerEnds /\ UNCHANGED server
  BY <1>3, FailKeeps DEF BrokerEnds, End
<1>4. CASE UNCHANGED session
  <2>1. UNCHANGED <<client, peer, server, wire>>
    BY <1>4 DEF session
  <2>2. clientOpen' \in BOOLEAN /\ maxPendingRequests' = maxPendingRequests
    BY <2>1 DEF wire, client, SessionInv, ClientTypeOK, WireTypeOK
  <2>3. ConnectionInv' /\ InOrder(requests') /\ ClientPolite'
    BY <2>1, <2>2, ClientAlone DEF wire
  <2>4. ClientRight'
    BY <2>1, <2>3, ClientStays DEF SessionInv, ClientRight, ConnectionInv, TypesRight
  <2> QED
    BY <2>3, <2>4 DEF SessionInv, ClientRight
<1> QED
  BY <1>1, <1>2, <1>3, <1>4 DEF SessionNext

\* Every promise is settled by the answer to its own request: whatever the
\* application calls, whatever fails, and however often identifiers wrap, a reply on
\* its way to an open client belongs to the request pending under its identifier, and
\* no promise is forgotten.
THEOREM SessionsAnswer == SessionSpec => []AnswersOwnRequest
<1>1. ASSUME SessionInv
      PROVE  AnswersOwnRequest
  <2>1. SessionTypeOK
    BY <1>1, TypeFollows DEF SessionInv, SessionTypeOK
  <2>2. OpenIsPending
    <3>1. /\ \A i, j \in DOMAIN pending : pending[i] = pending[j] => i = j
          /\ {t \in Tags : settled[t] = "open"} = Items(pending)
          /\ closed => pending = <<>>
      BY <1>1 DEF SessionInv, PendingRight
    <3>2. IsFiniteSet(DOMAIN pending)
      <4>1. DOMAIN pending \subseteq 1 .. MaxId /\ MaxId \in Nat
        BY <1>1, ClientAssumption DEF SessionInv, ClientTypeOK
      <4>2. IsFiniteSet(1 .. MaxId)
        BY <4>1, FS_Interval
      <4> QED
        BY <4>1, <4>2, FS_Subset
    <3>3. Cardinality(DOMAIN pending) = Cardinality(Items(pending))
      <4> DEFINE value == [i \in DOMAIN pending |-> pending[i]]
      <4>1. value \in [DOMAIN pending -> Items(pending)]
        BY DEF Items
      <4>2. \A i, j \in DOMAIN pending : value[i] = value[j] => i = j
        BY <3>1
      <4>3. \A v \in Items(pending) : \E i \in DOMAIN pending : value[i] = v
        BY DEF Items
      <4> HIDE DEF value
      <4>4. value \in Bijection(DOMAIN pending, Items(pending))
        BY <4>1, <4>2, <4>3 DEF Bijection, Injection, Surjection, IsInjective
      <4> QED
        BY <3>2, <4>4, FS_Bijection DEF ExistsBijection
    <3> QED
      BY <3>1, <3>3 DEF OpenIsPending, Items
  <2>3. ASSUME ~closed, NEW p \in DOMAIN replies
        PROVE  replies[p].id \in DOMAIN pending /\ pending[replies[p].id] = replies[p].tag
    BY <1>1, <2>3, ReplyIsPending DEF SessionInv
  <2> QED
    BY <2>1, <2>2, <2>3 DEF AnswersOwnRequest
<1> QED
  BY <1>1, SessionInits, SessionSteps, PTL DEF SessionSpec

\* The broker never answers a client of the SDK that an identifier is taken, nor, if it
\* keeps to the broker's limit, that too many are in flight; and it gets the frames in
\* the order of the calls: for any number of calls, identifiers and limits.
THEOREM SessionsAreNotRefused == SessionSpec => []NeverRefused
<1>1. ASSUME SessionInv
      PROVE  NeverRefused
  <2>1. ASSUME NEW p \in DOMAIN replies
        PROVE  /\ replies[p].status # "duplicate"
               /\ maxPendingRequests <= MaxInFlight => replies[p].status # "overloaded"
    <3>1. replies[p].status \notin undue
      BY <1>1 DEF SessionInv, ConnectionInv, PoliteRight, Items
    <3> QED
      BY <1>1, <3>1 DEF SessionInv, ClientPolite
  <2> DEFINE way == requests \o sendBuffer \o writeQueue
  <2>2. ASSUME NEW p \in DOMAIN way, NEW q \in DOMAIN way, p < q
        PROVE  way[p].tag < way[q].tag
    <3>1. /\ requests \in Seq(Frame) /\ sendBuffer \in Seq(Frame) /\ writeQueue \in Seq(Frame)
          /\ Queue \in Seq(Frame) /\ Len(Queue) \in Nat /\ DOMAIN Queue = 1 .. Len(Queue)
      BY <1>1, QueueIs DEF SessionInv, ClientTypeOK, WireTypeOK
    <3>2. way = requests \o Queue
      BY <3>1, ConcatAssociative DEF Queue
    <3> HIDE DEF way
    <3>3. /\ Len(requests) \in Nat /\ DOMAIN requests = 1 .. Len(requests)
          /\ DOMAIN way = 1 .. Len(requests) + Len(Queue)
          /\ \A k \in 1 .. Len(requests) + Len(Queue) :
               way[k] = IF k <= Len(requests) THEN requests[k] ELSE Queue[k - Len(requests)]
      BY <3>1, <3>2
    <3>4. CASE q <= Len(requests)
      <4>1. /\ p \in DOMAIN requests /\ q \in DOMAIN requests
            /\ way[p] = requests[p] /\ way[q] = requests[q]
        BY <2>2, <3>3, <3>4
      <4> QED
        BY <1>1, <2>2, <4>1 DEF SessionInv, InOrder
    <3>5. CASE ~(q <= Len(requests))
      <4>1. /\ q - Len(requests) \in DOMAIN Queue /\ way[q] = Queue[q - Len(requests)]
        BY <3>1, <3>3, <3>5
      <4>2. ~closed
        <5>1. ASSUME closed
              PROVE  FALSE
          <6>1. Queue = <<>> \o <<>>
            BY <1>1, <5>1 DEF SessionInv, PendingRight, Queue
          <6>2. Queue = <<>>
            BY <6>1
          <6> QED
            BY <4>1, <6>2
        <5> QED
          BY <5>1
      <4>3. \A k \in DOMAIN Queue : Queue[k].tag = sent + k
        BY <1>1, <4>2 DEF SessionInv, QueueRight
      <4>4. sent \in Nat
        BY <1>1, OutstandingFinite DEF SessionInv, ConnectionInv
      <4>5. CASE p <= Len(requests)
        <5>1. p \in DOMAIN requests /\ way[p] = requests[p]
          BY <3>3, <4>5
        <5>2. requests[p].tag \in 1 .. sent
          BY <1>1, <5>1, RequestIsSent DEF SessionInv
        <5>3. way[q].tag = sent + (q - Len(requests)) /\ q - Len(requests) >= 1
          BY <3>1, <4>1, <4>3
        <5> QED
          BY <3>3, <4>4, <5>1, <5>2, <5>3
      <4>6. CASE ~(p <= Len(requests))
        <5>1. p - Len(requests) \in DOMAIN Queue /\ way[p] = Queue[p - Len(requests)]
          BY <3>1, <3>3, <4>6
        <5>2. way[p].tag = sent + (p - Len(requests)) /\ way[q].tag = sent + (q - Len(requests))
          BY <4>1, <4>3, <5>1
        <5> QED
          BY <2>2, <3>3, <4>4, <5>2
      <4> QED
        BY <4>5, <4>6
    <3> QED
      BY <3>4, <3>5
  <2> QED
    BY <2>1, <2>2 DEF NeverRefused
<1> QED
  BY <1>1, SessionInits, SessionSteps, PTL DEF SessionSpec
=============================================================================
