------------------------- MODULE ClusterClientProofs --------------------------
(***************************************************************************)
(* Requests over several brokers: each is dispatched once at most, loads   *)
(* are exact, late failures spare the new client, and close() leaves no    *)
(* connection; for any number of brokers, requests and clients.            *)
(***************************************************************************)
EXTENDS ClusterClient, ContainerLemmas, FiniteSetTheorems, TLAPS

Calls == [pc : {"new", "sent", "resumed", "settled"}, client : Clients \cup {<<>>},
          tried : SUBSET Nodes, result : Results, outcome : Outcomes]

CallsRight(R) ==
  /\ R \in [Requests -> Calls]
  /\ \A r \in Requests : R[r].pc \in {"sent", "resumed"} => R[r].client \in Clients
  /\ \A r \in Requests : R[r].pc = "resumed" <=> R[r].result # "none"

\* TypeOK but for the range of the loads, which LoadRight gives; a call has a client
\* from its first attempt on, and a result when it resumes.
TypesRight ==
  /\ client \in [Nodes -> Clients] /\ pings \in [Nodes -> Clients]
  /\ open \subseteq Clients
  /\ made \in [Nodes -> 0 .. MaxClients]
  /\ connecting \in [Nodes -> {"no", "connecting", "connected", "attaching"}]
  /\ pending \in [Nodes -> Int]
  /\ CallsRight(requests)
  /\ wire \subseteq Requests \X Clients /\ dispatched \subseteq Requests \X Clients
  /\ closing \in {"no", "closing", "closed"}

\* A client belongs to its node and has a number other than that of undefined; while a
\* connection is made the node has no client; close() closes every client.
ClientsRight ==
  /\ \A n \in Nodes : client[n][1] = n /\ pings[n][1] = n
  /\ \A c \in open : c[2] # 0
  /\ \A n \in Nodes : connecting[n] # "no" => made[n] # 0
  /\ \A n \in Nodes : connecting[n] \in {"connecting", "connected"} => client[n] = Undefined(n)
  /\ stopped => \A n \in Nodes : client[n] \notin open
  /\ closing = "closed" => \A n \in Nodes : connecting[n] = "no"

ConnectionInv == TypesRight /\ ClientsRight /\ ClosedLeavesNothing

ActiveAt(n) == {r \in Active : requests[r].client[1] = n}
PingAt(n)   == IF pings[n] # Undefined(n) THEN 1 ELSE 0

LoadRight ==
  \A n \in Nodes :
    /\ IsFiniteSet(ActiveAt(n))
    /\ pending[n] = Cardinality(ActiveAt(n)) + PingAt(n)
    /\ pending[n] <= Cap

\* What a call's state says of B, the clients by which it may be or has been dispatched, and
\* of D, those by which it has been.
WhereAt(q, B, D) ==
  /\ q.pc = "new" => B = {}
  /\ q.pc = "sent" => B = {q.client}
  /\ q.pc \in {"resumed", "settled"} => B \subseteq {q.client}
  /\ q.pc = "resumed" /\ q.result = "refused" => B = {}
  /\ q.pc = "resumed" /\ q.result = "answer" => D = {q.client}
  /\ q.pc = "resumed" /\ q.result = "error" => B = D
  /\ q.pc # "settled" => q.outcome = "none"
  /\ q.outcome \in {"refused", "deadline", "busy", "unavailable"} => B = {}
  /\ q.outcome = "answer" => D = {q.client}
  /\ q.outcome = "error" => B = D

WhereRight ==
  /\ wire \cap dispatched = {}
  /\ \A r \in Requests :
       WhereAt(requests[r], Brokers(wire \cup dispatched, r), Brokers(dispatched, r))

ClusterInv == ConnectionInv /\ LoadRight /\ WhereRight

-----------------------------------------------------------------------------
(* Types.                                                                  *)

\* A client more fits the bound: the sum of numbers is no less than each of them.
LEMMA MadeBound ==
  ASSUME TypesRight, SumFunction(made) < MaxClients, NEW n \in Nodes
  PROVE  made[n] + 1 \in 0 .. MaxClients
<1>1. IsFiniteSet(Nodes) /\ MaxClients \in Nat /\ DOMAIN made = Nodes
      /\ \A m \in Nodes : made[m] \in Nat
  BY ClusterAssumption DEF TypesRight
<1>2. SumFunctionOnSet(made, Nodes) = made[n] + SumFunctionOnSet(made, Nodes \ {n})
  BY <1>1, SumRemove
<1>3. IsFiniteSet(Nodes \ {n})
  BY <1>1, FS_Difference
<1>4. SumFunctionOnSet(made, Nodes \ {n}) \in Nat
  BY <1>1, <1>3, SumType
<1> QED
  BY <1>1, <1>2, <1>4 DEF SumFunction

\* What request()'s continuation makes of a call that it resumes: two fields change.
LEMMA ResumedFields ==
  ASSUME NEW q \in Calls, NEW b
  PROVE  [q EXCEPT !.pc = "resumed", !.result = b]
           = [pc |-> "resumed", client |-> q.client, tried |-> q.tried, result |-> b,
              outcome |-> q.outcome]
<1> DEFINE Fields == {"pc", "client", "tried", "result", "outcome"}
<1>1. /\ q = [pc |-> q.pc, client |-> q.client, tried |-> q.tried, result |-> q.result,
              outcome |-> q.outcome]
      /\ DOMAIN q = Fields
  BY DEF Calls
<1>2. [q EXCEPT !.pc = "resumed", !.result = b]
        = [x \in Fields |-> IF x = "pc" THEN "resumed" ELSE IF x = "result" THEN b ELSE q[x]]
  BY <1>1
<1> QED
  BY <1>2

\* What request() makes of a call that it settles: what it tried is forgotten.
LEMMA SettledFields ==
  ASSUME NEW q \in Calls, NEW c
  PROVE  [q EXCEPT !.pc = "settled", !.outcome = c, !.tried = {}, !.result = "none"]
           = [pc |-> "settled", client |-> q.client, tried |-> {}, result |-> "none",
              outcome |-> c]
<1> DEFINE Fields == {"pc", "client", "tried", "result", "outcome"}
<1>1. /\ q = [pc |-> q.pc, client |-> q.client, tried |-> q.tried, result |-> q.result,
              outcome |-> q.outcome]
      /\ DOMAIN q = Fields
  BY DEF Calls
<1>2. [q EXCEPT !.pc = "settled", !.outcome = c, !.tried = {}, !.result = "none"]
        = [x \in Fields |-> IF x = "pc" THEN "settled" ELSE IF x = "outcome" THEN c
                            ELSE IF x = "tried" THEN {} ELSE IF x = "result" THEN "none" ELSE q[x]]
  BY <1>1
<1> QED
  BY <1>2

\* A request that settles: its call ends, every other stays as it was.
LEMMA SettledIs ==
  ASSUME TypesRight, NEW r \in Requests, NEW outcome \in Outcomes
  PROVE  /\ Settled(r, outcome) \in [Requests -> Calls]
         /\ Settled(r, outcome)[r] = [pc |-> "settled", client |-> requests[r].client, tried |-> {},
                                     result |-> "none", outcome |-> outcome]
         /\ \A s \in Requests : s # r => Settled(r, outcome)[s] = requests[s]
<1> DEFINE q == [pc |-> "settled", client |-> requests[r].client, tried |-> {},
                 result |-> "none", outcome |-> outcome]
<1>1. requests \in [Requests -> Calls] /\ requests[r] \in Calls
  BY DEF TypesRight, CallsRight
<1>2. [requests[r] EXCEPT !.pc = "settled", !.outcome = outcome, !.tried = {}, !.result = "none"] = q
  <2> DEFINE p == requests[r]
  <2>1. p \in Calls
    BY <1>1
  <2> HIDE DEF p
  <2>2. [p EXCEPT !.pc = "settled", !.outcome = outcome, !.tried = {}, !.result = "none"]
          = [pc |-> "settled", client |-> p.client, tried |-> {}, result |-> "none",
             outcome |-> outcome]
    BY <2>1, SettledFields
  <2> QED
    BY <2>2 DEF p
<1>3. q \in Calls
  BY <1>1 DEF Calls, Results
<1>4. Settled(r, outcome) = [requests EXCEPT ![r] = q]
  BY <1>2 DEF Settled
<1> HIDE DEF q
<1>5. /\ [requests EXCEPT ![r] = q] \in [Requests -> Calls]
      /\ [requests EXCEPT ![r] = q][r] = q
      /\ \A s \in Requests : s # r => [requests EXCEPT ![r] = q][s] = requests[s]
  BY <1>1, <1>3
<1> QED
  BY <1>4, <1>5 DEF q

\* A request that is told how its send went remembers what it tried.
LEMMA ResumedIs ==
  ASSUME TypesRight, NEW r \in Requests, NEW result \in Results, Resumed(r, result)
  PROVE  /\ requests' \in [Requests -> Calls]
         /\ requests'[r] = [pc |-> "resumed", client |-> requests[r].client,
                           tried |-> requests[r].tried, result |-> result,
                           outcome |-> requests[r].outcome]
         /\ \A s \in Requests : s # r => requests'[s] = requests[s]
<1>1. requests \in [Requests -> Calls] /\ requests[r] \in Calls
  BY DEF TypesRight, CallsRight
<1> DEFINE q == [pc |-> "resumed", client |-> requests[r].client, tried |-> requests[r].tried,
                 result |-> result, outcome |-> requests[r].outcome]
<1>2. q \in Calls
  BY <1>1 DEF Calls
<1>3. requests' = [requests EXCEPT ![r] = q]
  <2>1. requests' = [requests EXCEPT ![r] = [requests[r] EXCEPT !.pc = "resumed", !.result = result]]
    BY <1>1 DEF Resumed
  <2>2. [requests[r] EXCEPT !.pc = "resumed", !.result = result] = q
    <3> DEFINE p == requests[r]
    <3>1. p \in Calls
      BY <1>1
    <3> HIDE DEF p
    <3>2. [p EXCEPT !.pc = "resumed", !.result = result]
            = [pc |-> "resumed", client |-> p.client, tried |-> p.tried, result |-> result,
               outcome |-> p.outcome]
      BY <3>1, ResumedFields
    <3> QED
      BY <3>2 DEF p
  <2> QED
    BY <2>1, <2>2
<1> HIDE DEF q
<1> QED
  BY <1>1, <1>2, <1>3 DEF q

\* Losing a connection resumes the calls that were sent on it and no other.
LEMMA LostIs ==
  ASSUME TypesRight, NEW c
  PROVE  /\ Lost(c) \in [Requests -> Calls]
         /\ \A r \in Requests :
              Lost(c)[r] = IF r \in Sent(c)
                           THEN [pc |-> "resumed", client |-> requests[r].client,
                                 tried |-> requests[r].tried, result |-> "lost",
                                 outcome |-> requests[r].outcome]
                           ELSE requests[r]
<1>1. requests \in [Requests -> Calls] /\ \A r \in Requests : requests[r] \in Calls
  BY DEF TypesRight, CallsRight
<1> DEFINE q(r) == [pc |-> "resumed", client |-> requests[r].client, tried |-> requests[r].tried,
                    result |-> "lost", outcome |-> requests[r].outcome]
<1>2. \A r \in Requests : q(r) \in Calls
  BY <1>1 DEF Calls, Results
<1>3. \A r \in Requests : [requests[r] EXCEPT !.pc = "resumed", !.result = "lost"] = q(r)
  <2> TAKE r \in Requests
  <2> DEFINE p == requests[r]
  <2>1. p \in Calls
    BY <1>1
  <2> HIDE DEF p
  <2>2. [p EXCEPT !.pc = "resumed", !.result = "lost"]
          = [pc |-> "resumed", client |-> p.client, tried |-> p.tried, result |-> "lost",
             outcome |-> p.outcome]
    BY <2>1, ResumedFields
  <2> QED
    BY <2>2 DEF p
<1>4. Lost(c) = [r \in Requests |-> IF r \in Sent(c) THEN q(r) ELSE requests[r]]
  BY <1>3 DEF Lost
<1> HIDE DEF q
<1>5. /\ Lost(c) \in [Requests -> Calls]
      /\ \A r \in Requests : Lost(c)[r] = IF r \in Sent(c) THEN q(r) ELSE requests[r]
  BY <1>1, <1>2, <1>4
<1> QED
  BY <1>5 DEF q

\* What a step leaves of the calls it does not settle or send: those that are sent may be
\* resumed, with no answer.
Loses(R) ==
  \A r \in Requests :
    \/ R[r] = requests[r]
    \/ /\ requests[r].pc = "sent"
       /\ R[r] = [pc |-> "resumed", client |-> requests[r].client,
                  tried |-> requests[r].tried, result |-> "lost", outcome |-> requests[r].outcome]

\* A client that fails leaves right calls.
LEMMA LosesTypes ==
  ASSUME TypesRight, NEW R, R = [r \in Requests |-> R[r]], Loses(R)
  PROVE  CallsRight(R)
<1>1. \A r \in Requests : requests[r] \in Calls
  BY DEF TypesRight, CallsRight
<1>2. ASSUME NEW r \in Requests
      PROVE  /\ R[r] \in Calls
             /\ R[r].pc \in {"sent", "resumed"} => R[r].client \in Clients
             /\ R[r].pc = "resumed" <=> R[r].result # "none"
  <2>1. CASE R[r] = requests[r]
    BY <2>1, <1>1 DEF TypesRight, CallsRight
  <2>2. CASE /\ requests[r].pc = "sent"
             /\ R[r] = [pc |-> "resumed", client |-> requests[r].client,
                  tried |-> requests[r].tried, result |-> "lost", outcome |-> requests[r].outcome]
    <3>1. requests[r] \in Calls /\ requests[r].client \in Clients
      BY <2>2, <1>1 DEF TypesRight, CallsRight
    <3>2. R[r] \in Calls
      BY <2>2, <3>1 DEF Calls, Results
    <3> QED
      BY <2>2, <3>1, <3>2
  <2> QED
    BY <2>1, <2>2 DEF Loses
<1>3. R \in [Requests -> Calls]
  BY <1>2
<1> QED
  BY <1>2, <1>3 DEF CallsRight

\* So only sent calls change, and what they turn into is a call.
LEMMA LostLoses ==
  ASSUME TypesRight, NEW c
  PROVE  Lost(c) = [r \in Requests |-> Lost(c)[r]] /\ Loses(Lost(c)) /\ CallsRight(Lost(c))
<1>1. Lost(c) = [r \in Requests |-> Lost(c)[r]]
  BY DEF Lost
<1>2. Loses(Lost(c))
  BY LostIs DEF Loses, Sent
<1> QED
  BY <1>1, <1>2, LosesTypes

\* What a turn of request()'s loop comes to: the call is settled with an error that
\* another attempt would not have, or sent to a node that has room.
NotSent == {"refused", "deadline", "busy", "unavailable"}

Settles(r, outcomes) ==
  \E outcome \in outcomes :
    requests'[r] = [pc |-> "settled", client |-> requests[r].client, tried |-> {},
                    result |-> "none", outcome |-> outcome]

Sends(r, n, load) ==
  /\ load[n] < Cap
  /\ pending' = [load EXCEPT ![n] = @ + 1]
  /\ wire' = wire \cup {<<r, client[n]>>}
  /\ requests'[r] = [pc |-> "sent", client |-> client[n], tried |-> requests[r].tried \cup {n},
                     result |-> "none", outcome |-> "none"]

Others(r) == \A s \in Requests : s # r => requests'[s] = requests[s]

\* A call that is settled, and one that is sent, are right calls.
LEMMA SettlesTypes ==
  ASSUME TypesRight, NEW r \in Requests, NEW outcome \in Outcomes, requests' = Settled(r, outcome)
  PROVE  CallsRight(requests') /\ Others(r)
         /\ requests'[r] = [pc |-> "settled", client |-> requests[r].client, tried |-> {},
                            result |-> "none", outcome |-> outcome]
<1>1. /\ requests' \in [Requests -> Calls]
      /\ requests'[r] = [pc |-> "settled", client |-> requests[r].client, tried |-> {},
                         result |-> "none", outcome |-> outcome]
      /\ \A s \in Requests : s # r => requests'[s] = requests[s]
  BY SettledIs
<1>2. requests'[r].pc = "settled" /\ requests'[r].result = "none"
  BY <1>1
<1> QED
  BY <1>1, <1>2 DEF CallsRight, TypesRight, Others

\* A call that is sent goes to one node, which counts as tried.
LEMMA SendsTypes ==
  ASSUME TypesRight, NEW r \in Requests, NEW n \in Nodes,
         requests' = [requests EXCEPT ![r] =
           [pc |-> "sent", client |-> client[n], tried |-> requests[r].tried \cup {n},
            result |-> "none", outcome |-> "none"]]
  PROVE  CallsRight(requests') /\ Others(r)
         /\ requests'[r] = [pc |-> "sent", client |-> client[n],
                            tried |-> requests[r].tried \cup {n},
                            result |-> "none", outcome |-> "none"]
<1> DEFINE q == [pc |-> "sent", client |-> client[n], tried |-> requests[r].tried \cup {n},
                 result |-> "none", outcome |-> "none"]
<1>1. requests \in [Requests -> Calls] /\ requests[r] \in Calls /\ client[n] \in Clients
  BY DEF TypesRight, CallsRight
<1>2. requests[r].tried \cup {n} \subseteq Nodes
  BY <1>1 DEF Calls
<1>3. q \in Calls
  BY <1>1, <1>2 DEF Calls, Results, Outcomes
<1>4. q.pc = "sent" /\ q.client \in Clients /\ q.result = "none"
  BY <1>1
<1>5. requests' = [requests EXCEPT ![r] = q]
  OBVIOUS
<1> HIDE DEF q
<1>6. requests' \in [Requests -> Calls] /\ requests'[r] = q
      /\ \A s \in Requests : s # r => requests'[s] = requests[s]
  BY <1>1, <1>3, <1>5
<1>7. CallsRight(requests') /\ Others(r) /\ requests'[r] = q
  BY <1>4, <1>6 DEF CallsRight, TypesRight, Others
<1> QED
  BY <1>7 DEF q

\* An attempt settles its request unsent or sends it to one candidate.
LEMMA AttemptIs ==
  ASSUME TypesRight, NEW r \in Requests, NEW last \in {"none", "refused"},
         NEW load \in [Nodes -> Int], Attempt(r, last, load)
  PROVE  /\ CallsRight(requests') /\ Others(r) /\ pending' \in [Nodes -> Int]
         /\ \/ Settles(r, NotSent) /\ pending' = load /\ UNCHANGED wire
            \/ \E n \in Nodes : Sends(r, n, load)
<1>1. ASSUME NEW outcome \in NotSent,
             requests' = Settled(r, outcome), pending' = load, UNCHANGED wire
      PROVE  /\ CallsRight(requests') /\ Others(r) /\ pending' \in [Nodes -> Int]
             /\ Settles(r, NotSent)
  <2>1. outcome \in Outcomes
    BY DEF NotSent, Outcomes
  <2>2. CallsRight(requests') /\ Others(r)
        /\ requests'[r] = [pc |-> "settled", client |-> requests[r].client, tried |-> {},
                           result |-> "none", outcome |-> outcome]
    BY <1>1, <2>1, SettlesTypes
  <2> QED
    BY <1>1, <2>2 DEF Settles
<1>2. ASSUME NEW n \in Choice(requests[r].tried, load),
             requests' = [requests EXCEPT ![r] =
                [pc |-> "sent", client |-> client[n], tried |-> requests[r].tried \cup {n},
                 result |-> "none", outcome |-> "none"]],
             pending' = [load EXCEPT ![n] = @ + 1],
             wire' = wire \cup {<<r, client[n]>>}
      PROVE  /\ CallsRight(requests') /\ Others(r) /\ pending' \in [Nodes -> Int]
             /\ n \in Nodes /\ Sends(r, n, load)
  <2>1. n \in Nodes /\ load[n] < Cap
    BY <1>2 DEF Choice, Candidates
  <2>2. CallsRight(requests') /\ Others(r)
        /\ requests'[r] = [pc |-> "sent", client |-> client[n],
                           tried |-> requests[r].tried \cup {n},
                           result |-> "none", outcome |-> "none"]
    BY <1>2, <2>1, SendsTypes
  <2>3. pending' \in [Nodes -> Int]
    BY <1>2, <2>1
  <2> QED
    BY <1>2, <2>1, <2>2, <2>3 DEF Sends
<1>3. Exhausted(last) \in NotSent /\ "deadline" \in NotSent
  BY DEF Exhausted, NotSent
<1>4. \/ requests' = Settled(r, Exhausted(last)) /\ pending' = load /\ UNCHANGED wire
      \/ requests' = Settled(r, "deadline") /\ pending' = load /\ UNCHANGED wire
      \/ \E n \in Choice(requests[r].tried, load) :
           /\ requests' = [requests EXCEPT ![r] =
                [pc |-> "sent", client |-> client[n], tried |-> requests[r].tried \cup {n},
                 result |-> "none", outcome |-> "none"]]
           /\ pending' = [load EXCEPT ![n] = @ + 1]
           /\ wire' = wire \cup {<<r, client[n]>>}
  BY Zenon DEF Attempt
<1>5. CASE requests' = Settled(r, Exhausted(last)) /\ pending' = load /\ UNCHANGED wire
  BY <1>1, <1>3, <1>5
<1>6. CASE requests' = Settled(r, "deadline") /\ pending' = load /\ UNCHANGED wire
  BY <1>1, <1>3, <1>6
<1>7. CASE \E n \in Choice(requests[r].tried, load) :
           /\ requests' = [requests EXCEPT ![r] =
                [pc |-> "sent", client |-> client[n], tried |-> requests[r].tried \cup {n},
                 result |-> "none", outcome |-> "none"]]
           /\ pending' = [load EXCEPT ![n] = @ + 1]
           /\ wire' = wire \cup {<<r, client[n]>>}
  <2>1. PICK n \in Choice(requests[r].tried, load) :
           /\ requests' = [requests EXCEPT ![r] =
                [pc |-> "sent", client |-> client[n], tried |-> requests[r].tried \cup {n},
                 result |-> "none", outcome |-> "none"]]
           /\ pending' = [load EXCEPT ![n] = @ + 1]
           /\ wire' = wire \cup {<<r, client[n]>>}
    BY <1>7
  <2>2. /\ CallsRight(requests') /\ Others(r) /\ pending' \in [Nodes -> Int]
        /\ n \in Nodes /\ Sends(r, n, load)
    BY <1>2, <2>1
  <2> QED
    BY <2>2
<1> QED
  BY <1>4, <1>5, <1>6, <1>7

\* request() settles the call at once or attempts it; it touches nothing else.
LEMMA RequestIs ==
  ASSUME TypesRight, NEW r \in Requests, Request(r)
  PROVE  /\ CallsRight(requests') /\ Others(r) /\ pending' \in [Nodes -> Int]
         /\ \/ Settles(r, NotSent) /\ pending' = pending /\ UNCHANGED wire
            \/ \E n \in Nodes : Sends(r, n, pending)
<1>1. pending \in [Nodes -> Int]
  BY DEF TypesRight
<1>2. CASE stopped \/ Cardinality(Active) >= MaxPending
  <2> DEFINE outcome == IF stopped THEN "unavailable" ELSE "busy"
  <2>1. requests' = Settled(r, outcome) /\ UNCHANGED <<pending, wire>>
    BY <1>2 DEF Request
  <2>2. outcome \in Outcomes /\ outcome \in NotSent
    BY DEF Outcomes, NotSent
  <2> HIDE DEF outcome
  <2>3. CallsRight(requests') /\ Others(r)
        /\ requests'[r] = [pc |-> "settled", client |-> requests[r].client, tried |-> {},
                           result |-> "none", outcome |-> outcome]
    BY <2>1, <2>2, SettlesTypes
  <2> QED
    BY <1>1, <2>1, <2>2, <2>3 DEF Settles
<1>3. CASE ~(stopped \/ Cardinality(Active) >= MaxPending)
  <2>1. Attempt(r, "none", pending)
    BY <1>3 DEF Request
  <2> QED
    BY <1>1, <2>1, AttemptIs
<1> QED
  BY <1>2, <1>3

\* A call that resumes gives back its unit of load, and is settled with what it got or
\* attempted again when it was refused.
LEMMA ResumeIs ==
  ASSUME TypesRight, NEW r \in Requests, Resume(r)
  PROVE  /\ CallsRight(requests') /\ Others(r) /\ pending' \in [Nodes -> Int]
         /\ Lighter(r) \in [Nodes -> Int]
         /\ \/ /\ requests[r].result # "refused" /\ Settles(r, {OutcomeOf(requests[r].result)})
               /\ pending' = Lighter(r) /\ UNCHANGED wire
            \/ /\ requests[r].result = "refused"
               /\ \/ Settles(r, NotSent) /\ pending' = Lighter(r) /\ UNCHANGED wire
                  \/ \E n \in Nodes : Sends(r, n, Lighter(r))
<1>1. requests[r].pc = "resumed" /\ requests[r].client \in Clients /\ requests[r].result \in Results
      /\ requests[r].result # "none"
  BY DEF Resume, TypesRight, CallsRight, Calls
<1>2. Lighter(r) \in [Nodes -> Int]
  <2>1. requests[r].client[1] \in Nodes
    BY <1>1 DEF Clients
  <2> QED
    BY <2>1 DEF Lighter, TypesRight
<1>3. CASE requests[r].result \in Elsewhere
  <2>1. Attempt(r, "refused", Lighter(r)) /\ requests[r].result = "refused"
    BY <1>3 DEF Resume, Elsewhere
  <2> QED
    BY <1>2, <2>1, AttemptIs
<1>4. CASE requests[r].result \notin Elsewhere
  <2> DEFINE outcome == OutcomeOf(requests[r].result)
  <2>1. requests' = Settled(r, outcome) /\ pending' = Lighter(r) /\ UNCHANGED wire
        /\ requests[r].result # "refused"
    BY <1>4 DEF Resume, Elsewhere
  <2>2. outcome \in Outcomes
    BY <1>1 DEF Outcomes, OutcomeOf, Results
  <2> HIDE DEF outcome
  <2>3. CallsRight(requests') /\ Others(r)
        /\ requests'[r] = [pc |-> "settled", client |-> requests[r].client, tried |-> {},
                           result |-> "none", outcome |-> outcome]
    BY <2>1, <2>2, SettlesTypes
  <2>4. Settles(r, {outcome})
    BY <2>3 DEF Settles
  <2> QED
    BY <1>2, <2>1, <2>3, <2>4 DEF outcome
<1> QED
  BY <1>3, <1>4

\* A broker's refusal or response resumes the call.
LEMMA ResumedTypes ==
  ASSUME TypesRight, NEW r \in Requests, NEW result \in Results \ {"none"},
         requests[r].pc = "sent", Resumed(r, result)
  PROVE  /\ CallsRight(requests') /\ Others(r)
         /\ requests'[r] = [pc |-> "resumed", client |-> requests[r].client,
                           tried |-> requests[r].tried, result |-> result,
                           outcome |-> requests[r].outcome]
<1>1. /\ requests' \in [Requests -> Calls]
      /\ requests'[r] = [pc |-> "resumed", client |-> requests[r].client,
                         tried |-> requests[r].tried, result |-> result,
                         outcome |-> requests[r].outcome]
      /\ \A s \in Requests : s # r => requests'[s] = requests[s]
  BY ResumedIs
<1>2. requests'[r].pc = "resumed" /\ requests'[r].result = result
      /\ requests'[r].client = requests[r].client
  BY <1>1
<1>3. requests[r].client \in Clients
  BY DEF TypesRight, CallsRight
<1> QED
  BY <1>1, <1>2, <1>3 DEF CallsRight, TypesRight, Others

\* close() rejects what the nodes' clients have pending.
LEMMA CloseLoses ==
  ASSUME TypesRight, Close
  PROVE  Loses(requests') /\ CallsRight(requests')
<1>1. requests' = [r \in Requests |->
       IF \E n \in Nodes : IsOpen(n) /\ r \in Sent(client[n]) THEN Lost(requests[r].client)[r]
       ELSE requests[r]]
  BY DEF Close
<1>2. \A r \in Requests :
        \/ Lost(requests[r].client)[r] = requests[r]
        \/ /\ requests[r].pc = "sent"
           /\ Lost(requests[r].client)[r] =
                [pc |-> "resumed", client |-> requests[r].client,
                 tried |-> requests[r].tried, result |-> "lost", outcome |-> requests[r].outcome]
  BY LostLoses DEF Loses
<1>3. Loses(requests')
  <2> HIDE DEF Lost
  <2>1. \A r \in Requests : requests'[r] \in {Lost(requests[r].client)[r], requests[r]}
    BY <1>1
  <2> QED
    BY <1>2, <2>1 DEF Loses
<1>4. requests' = [r \in Requests |-> requests'[r]]
  BY <1>1
<1> QED
  BY <1>3, <1>4, LosesTypes

\* No step breaks a type.
LEMMA TypesNext ==
  ASSUME TypesRight, ClientsRight, [Next]_vars
  PROVE  TypesRight'
<1> USE DEF TypesRight
<1>0. (\A n \in Nodes : Undefined(n) \in Clients) /\ (\A c \in Clients : c[1] \in Nodes)
  BY ClusterAssumption DEF Undefined, Clients
<1>1. \A c \in Clients : RetireOf(c) =>
        client' \in [Nodes -> Clients] /\ open' \subseteq Clients
  BY <1>0 DEF RetireOf
<1>2. ASSUME NEW r \in Requests, Request(r) PROVE TypesRight'
  <2>1. CallsRight(requests') /\ pending' \in [Nodes -> Int]
    BY <1>2, RequestIs
  <2>2. wire' \subseteq Requests \X Clients
    <3>1. wire' = wire \/ \E n \in Nodes : wire' = wire \cup {<<r, client[n]>>}
      BY <1>2, RequestIs DEF Sends
    <3> QED
      BY <3>1
  <2> QED
    BY <1>2, <2>1, <2>2 DEF Request
<1>3. ASSUME NEW r \in Requests, Resume(r) PROVE TypesRight'
  <2>1. CallsRight(requests') /\ pending' \in [Nodes -> Int]
    BY <1>3, ResumeIs
  <2>2. wire' \subseteq Requests \X Clients
    <3>1. wire' = wire \/ \E n \in Nodes : wire' = wire \cup {<<r, client[n]>>}
      BY <1>3, ResumeIs DEF Sends
    <3> QED
      BY <3>1
  <2>3. requests[r].client \in Clients
    BY <1>3 DEF Resume, CallsRight
  <2>4. client' \in [Nodes -> Clients] /\ open' \subseteq Clients
    <3>1. RetireOf(requests[r].client) \/ UNCHANGED <<client, open>>
      BY <1>3 DEF Resume
    <3> QED
      BY <1>1, <2>3, <3>1
  <2> QED
    BY <1>3, <2>1, <2>2, <2>4 DEF Resume
<1>4. ASSUME NEW r \in Requests, Refuse(r) \/ Withdraw(r) PROVE TypesRight'
  <2>1. PICK result \in {"refused", "error"} : Undispatched(r, result)
    BY <1>4 DEF Refuse, Withdraw
  <2>2. CallsRight(requests')
    BY <2>1, ResumedTypes DEF Undispatched, Results
  <2> QED
    BY <2>1, <2>2 DEF Undispatched
<1>5. ASSUME NEW r \in Requests, Answer(r) PROVE TypesRight'
  <2>1. CallsRight(requests')
    BY <1>5, ResumedTypes DEF Answer, Results
  <2> QED
    BY <1>5, <2>1 DEF Answer, net
<1>6. ASSUME NEW w \in wire, Dispatch(w) PROVE TypesRight'
  BY <1>6 DEF Dispatch
<1>7. ASSUME NEW c \in open, ClientFails(c) PROVE TypesRight'
  <2>1. CallsRight(requests')
    BY <1>7, LostLoses DEF ClientFails
  <2>2. client' \in [Nodes -> Clients]
    BY <1>7, <1>0 DEF ClientFails
  <2> QED
    BY <1>7, <2>1, <2>2 DEF ClientFails, net
<1>8. ASSUME NEW n \in Nodes, Ping(n) PROVE TypesRight'
  BY <1>8 DEF Ping, Counted, net
<1>9. ASSUME NEW n \in Nodes, PingSettles(n) PROVE TypesRight'
  <2>1. CallsRight(requests')
    BY <1>9, LostLoses DEF PingSettles
  <2>2. client' \in [Nodes -> Clients] /\ open' \subseteq Clients
    <3>1. RetireOf(pings[n]) \/ UNCHANGED <<client, open>>
      BY <1>9 DEF PingSettles
    <3> QED
      BY <1>1, <3>1
  <2>3. pings' \in [Nodes -> Clients] /\ pending' \in [Nodes -> Int]
    BY <1>9, <1>0 DEF PingSettles
  <2> QED
    BY <1>9, <2>1, <2>2, <2>3 DEF PingSettles, net
<1>10. ASSUME NEW n \in Nodes, Connect(n) PROVE TypesRight'
  <2>1. made[n] + 1 \in 0 .. MaxClients
    BY <1>10, MadeBound DEF Connect
  <2>2. made' \in [Nodes -> 0 .. MaxClients]
    BY <1>10, <2>1 DEF Connect
  <2>3. client' \in [Nodes -> Clients]
    BY <1>10, <1>0 DEF Connect
  <2> QED
    BY <1>10, <2>2, <2>3 DEF Connect, net
<1>11. ASSUME NEW n \in Nodes, ConnectSettles(n) PROVE TypesRight'
  <2>1. open' \subseteq Clients
    BY <1>11 DEF ConnectSettles, Clients
  <2> QED
    BY <1>11, <2>1 DEF ConnectSettles, net
<1>12. ASSUME NEW n \in Nodes, Publish(n) PROVE TypesRight'
  <2>1. client' \in [Nodes -> Clients] /\ open' \subseteq Clients
    BY <1>12 DEF Publish, Clients
  <2> QED
    BY <1>12, <2>1 DEF Publish, net
<1>13. ASSUME NEW n \in Nodes, Connected(n) PROVE TypesRight'
  BY <1>13 DEF Connected, net
<1>14. ASSUME NEW n \in Nodes, RetireDead(n) PROVE TypesRight'
  BY <1>14, <1>0 DEF RetireDead, net
<1>15. ASSUME Close PROVE TypesRight'
  <2>1. CallsRight(requests')
    BY <1>15, CloseLoses
  <2> QED
    BY <1>15, <2>1 DEF Close, net
<1>16. ASSUME Closed PROVE TypesRight'
  BY <1>16, <1>0 DEF Closed, net
<1>17. CASE UNCHANGED vars
  BY <1>17 DEF vars, CallsRight
<1> QED
  BY <1>2, <1>3, <1>4, <1>5, <1>6, <1>7, <1>8, <1>9, <1>10, <1>11, <1>12, <1>13, <1>14, <1>15,
     <1>16, <1>17 DEF Next, NodeStep

-----------------------------------------------------------------------------
(* Connections.                                                            *)

\* Retiring the client of a node closes it; the client of another node stays.
LEMMA RetireKeeps ==
  ASSUME ConnectionInv, NEW c \in Clients, RetireOf(c),
         UNCHANGED <<made, connecting, closing>>,
         \A n \in Nodes : pings'[n] = pings[n] \/ pings'[n] = Undefined(n)
  PROVE  ClientsRight' /\ ClosedLeavesNothing'
<1>1. /\ client \in [Nodes -> Clients] /\ open \subseteq Clients /\ c[1] \in Nodes
      /\ \A d \in Clients : d = <<d[1], d[2]>>
      /\ \A n \in Nodes : Undefined(n)[1] = n /\ Undefined(n)[2] = 0
  BY DEF ConnectionInv, TypesRight, Clients, Undefined
<1>2. /\ \A n \in Nodes : client'[n] \in {client[n], Undefined(n)}
      /\ \A d \in open' : d \in open /\ client'[d[1]] = client[d[1]]
  BY <1>1 DEF RetireOf, ConnectionInv, ClientsRight, ClosedLeavesNothing
<1>3. ClientsRight'
  BY <1>1, <1>2 DEF ConnectionInv, ClientsRight, stopped
<1>4. ClosedLeavesNothing'
  BY <1>1, <1>2 DEF ConnectionInv, ClosedLeavesNothing
<1> QED
  BY <1>3, <1>4

\* No step loses track of a connection, and none is left when close() resolves.
LEMMA ConnectionNext ==
  ASSUME ConnectionInv, [Next]_vars
  PROVE  ConnectionInv'
<1>1. TypesRight'
  BY TypesNext DEF ConnectionInv
<1>2. /\ client \in [Nodes -> Clients] /\ open \subseteq Clients /\ made \in [Nodes -> 0 .. MaxClients]
      /\ connecting \in [Nodes -> {"no", "connecting", "connected", "attaching"}]
      /\ pings \in [Nodes -> Clients] /\ closing \in {"no", "closing", "closed"}
      /\ \A d \in Clients : d = <<d[1], d[2]>> /\ d[1] \in Nodes
      /\ \A n \in Nodes : Undefined(n)[1] = n /\ Undefined(n)[2] = 0
  BY DEF ConnectionInv, TypesRight, Clients, Undefined
<1> SUFFICES ClientsRight' /\ ClosedLeavesNothing'
  BY <1>1 DEF ConnectionInv
<1>3. CASE UNCHANGED <<client, open, made, connecting, closing>> /\ UNCHANGED pings
  BY <1>3 DEF ConnectionInv, ClientsRight, ClosedLeavesNothing, IsOpen, stopped
<1>4. ASSUME NEW r \in Requests, Resume(r) PROVE ClientsRight' /\ ClosedLeavesNothing'
  <2>1. CASE requests[r].result = "lost"
    <3>1. requests[r].client \in Clients
      BY <1>4 DEF Resume, ConnectionInv, TypesRight, CallsRight
    <3>2. RetireOf(requests[r].client) /\ UNCHANGED <<made, connecting, closing>>
          /\ \A n \in Nodes : pings'[n] = pings[n]
      BY <1>4, <2>1 DEF Resume
    <3> QED
      BY <3>1, <3>2, RetireKeeps
  <2>2. CASE requests[r].result # "lost"
    BY <1>3, <1>4, <2>2 DEF Resume
  <2> QED
    BY <2>1, <2>2
<1>5. ASSUME NEW c \in open, ClientFails(c) PROVE ClientsRight' /\ ClosedLeavesNothing'
  <2>1. /\ \A n \in Nodes : client'[n] \in {client[n], Undefined(n)}
        /\ \A d \in open' : d \in open /\ client'[d[1]] = client[d[1]]
    BY <1>2, <1>5 DEF ClientFails, ConnectionInv, ClientsRight, ClosedLeavesNothing
  <2>2. UNCHANGED <<made, connecting, pings, closing>>
    BY <1>5 DEF ClientFails
  <2>3. ClientsRight'
    BY <1>2, <2>1, <2>2 DEF ConnectionInv, ClientsRight, stopped
  <2>4. ClosedLeavesNothing'
    BY <1>2, <2>1, <2>2 DEF ConnectionInv, ClosedLeavesNothing
  <2> QED
    BY <2>3, <2>4
<1>6. ASSUME NEW n \in Nodes, Ping(n) PROVE ClientsRight' /\ ClosedLeavesNothing'
  BY <1>2, <1>6 DEF Ping, ConnectionInv, ClientsRight, ClosedLeavesNothing, IsOpen, stopped
<1>7. ASSUME NEW n \in Nodes, PingSettles(n) PROVE ClientsRight' /\ ClosedLeavesNothing'
  <2>1. /\ UNCHANGED <<made, connecting, closing>>
        /\ pings' = [pings EXCEPT ![n] = Undefined(n)]
        /\ RetireOf(pings[n]) \/ UNCHANGED <<client, open>>
    BY <1>7 DEF PingSettles
  <2>2. \A m \in Nodes : pings'[m] = pings[m] \/ pings'[m] = Undefined(m)
    BY <1>2, <2>1
  <2>3. CASE RetireOf(pings[n])
    BY <1>2, <2>1, <2>2, <2>3, RetireKeeps
  <2>4. CASE UNCHANGED <<client, open>>
    BY <1>2, <2>1, <2>2, <2>4 DEF ConnectionInv, ClientsRight, ClosedLeavesNothing, stopped
  <2> QED
    BY <2>1, <2>3, <2>4
<1>8. ASSUME NEW n \in Nodes, Connect(n) PROVE ClientsRight' /\ ClosedLeavesNothing'
  <2>1. /\ ~stopped /\ client[n] \notin open /\ connecting[n] = "no"
        /\ client' = [client EXCEPT ![n] = Undefined(n)]
        /\ made' = [made EXCEPT ![n] = @ + 1]
        /\ connecting' = [connecting EXCEPT ![n] = "connecting"]
        /\ UNCHANGED <<open, pings, closing>>
    BY <1>8 DEF Connect, MayConnect, IsOpen
  <2>2. \A d \in open : d[1] # n
    BY <1>2, <2>1 DEF ConnectionInv, ClosedLeavesNothing
  <2>3. ClientsRight'
    BY <1>2, <2>1, <2>2 DEF ConnectionInv, ClientsRight, stopped
  <2>4. ClosedLeavesNothing'
    BY <1>2, <2>1, <2>2 DEF ConnectionInv, ClosedLeavesNothing, stopped
  <2> QED
    BY <2>3, <2>4
<1>9. ASSUME NEW n \in Nodes, ConnectSettles(n) PROVE ClientsRight' /\ ClosedLeavesNothing'
  <2>1. /\ connecting[n] = "connecting" /\ UNCHANGED <<client, made, pings, closing>>
        /\ \/ open' = open \cup {<<n, made[n]>>} /\ connecting' = [connecting EXCEPT ![n] = "connected"]
           \/ open' = open /\ connecting' = [connecting EXCEPT ![n] = "no"]
    BY <1>9 DEF ConnectSettles
  <2>2. client[n] = Undefined(n) /\ made[n] # 0 /\ closing # "closed"
    BY <2>1 DEF ConnectionInv, ClientsRight
  <2>3. \A d \in open : d[1] # n
    BY <1>2, <2>1, <2>2 DEF ConnectionInv, ClientsRight, ClosedLeavesNothing
  <2>4. \A m \in Nodes : client[m] # <<n, made[n]>>
    BY <1>2, <2>2 DEF ConnectionInv, ClientsRight
  <2>5. ClientsRight'
    BY <1>2, <2>1, <2>2, <2>4 DEF ConnectionInv, ClientsRight, stopped
  <2>6. ClosedLeavesNothing'
    BY <1>2, <2>1, <2>2, <2>3 DEF ConnectionInv, ClosedLeavesNothing
  <2> QED
    BY <2>5, <2>6
<1>10. ASSUME NEW n \in Nodes, Publish(n) PROVE ClientsRight' /\ ClosedLeavesNothing'
  <2>1. /\ connecting[n] = "connected" /\ UNCHANGED <<made, pings, closing>>
        /\ connecting' = [connecting EXCEPT ![n] = "attaching"]
        /\ \/ stopped /\ open' = open \ {<<n, made[n]>>} /\ UNCHANGED client
           \/ ~stopped /\ client' = [client EXCEPT ![n] = <<n, made[n]>>] /\ UNCHANGED open
    BY <1>10 DEF Publish, Unwanted
  <2>2. client[n] = Undefined(n) /\ made[n] # 0 /\ closing # "closed"
    BY <2>1 DEF ConnectionInv, ClientsRight
  <2>3. \A d \in open : d[1] = n => d = <<n, made[n]>>
    BY <1>2, <2>2 DEF ConnectionInv, ClientsRight, ClosedLeavesNothing
  <2>4. ClientsRight'
    BY <1>2, <2>1, <2>2 DEF ConnectionInv, ClientsRight, stopped
  <2>5. ASSUME NEW d \in open'
        PROVE  client'[d[1]] = d \/ (connecting'[d[1]] = "connected" /\ d[2] = made'[d[1]])
    <3>1. /\ d \in open /\ d[1] \in Nodes
          /\ client[d[1]] = d \/ (connecting[d[1]] = "connected" /\ d[2] = made[d[1]])
      BY <1>2, <2>1 DEF ConnectionInv, ClosedLeavesNothing
    <3>2. CASE d[1] # n
      <4>1. client'[d[1]] = client[d[1]] /\ connecting'[d[1]] = connecting[d[1]] /\ made' = made
        BY <1>2, <2>1, <3>1, <3>2
      <4> QED
        BY <3>1, <4>1
    <3>3. CASE d[1] = n
      <4>1. d = <<n, made[n]>>
        BY <2>3, <3>1, <3>3
      <4>2. client'[n] = d
        BY <1>2, <2>1, <4>1
      <4> QED
        BY <3>3, <4>2
    <3> QED
      BY <3>2, <3>3
  <2>6. ClosedLeavesNothing'
    BY <2>1, <2>2, <2>5 DEF ClosedLeavesNothing
  <2> QED
    BY <2>4, <2>6
<1>11. ASSUME NEW n \in Nodes, Connected(n) PROVE ClientsRight' /\ ClosedLeavesNothing'
  BY <1>2, <1>11 DEF Connected, ConnectionInv, ClientsRight, ClosedLeavesNothing, stopped
<1>12. ASSUME NEW n \in Nodes, RetireDead(n) PROVE ClientsRight' /\ ClosedLeavesNothing'
  BY <1>2, <1>12 DEF RetireDead, ConnectionInv, ClientsRight, ClosedLeavesNothing, IsOpen, stopped
<1>13. ASSUME Close PROVE ClientsRight' /\ ClosedLeavesNothing'
  BY <1>2, <1>13 DEF Close, ConnectionInv, ClientsRight, ClosedLeavesNothing, stopped
<1>14. ASSUME Closed PROVE ClientsRight' /\ ClosedLeavesNothing'
  <2>1. open = {}
    BY <1>2, <1>14 DEF Closed, ConnectionInv, ClientsRight, ClosedLeavesNothing, stopped
  <2> QED
    BY <1>2, <1>14, <2>1 DEF Closed, ConnectionInv, ClientsRight, ClosedLeavesNothing, stopped
<1>15. \A r \in Requests : Request(r) \/ Refuse(r) \/ Withdraw(r) \/ Answer(r)
         => UNCHANGED <<client, open, made, connecting, closing>> /\ UNCHANGED pings
  BY DEF Request, Refuse, Withdraw, Undispatched, Answer
<1>16. \A w \in wire : Dispatch(w)
         => UNCHANGED <<client, open, made, connecting, closing>> /\ UNCHANGED pings
  BY DEF Dispatch
<1>17. UNCHANGED vars => UNCHANGED <<client, open, made, connecting, closing>> /\ UNCHANGED pings
  BY DEF vars
<1> QED
  BY <1>3, <1>4, <1>5, <1>6, <1>7, <1>8, <1>9, <1>10, <1>11, <1>12, <1>13, <1>14, <1>15, <1>16,
     <1>17 DEF Next, NodeStep

-----------------------------------------------------------------------------
(* Loads.                                                                  *)

\* The loads, the call r left out: what the loop of request() starts from.
LoadWithout(r, load) ==
  \A n \in Nodes :
    /\ IsFiniteSet(ActiveAt(n) \ {r})
    /\ load[n] = Cardinality(ActiveAt(n) \ {r}) + PingAt(n)
    /\ load[n] <= Cap

\* A call that is settled counts nowhere.
LEMMA SettlesLoad ==
  ASSUME NEW r \in Requests, NEW load, LoadWithout(r, load), Others(r), UNCHANGED pings,
         requests'[r].pc = "settled", pending' = load
  PROVE  LoadRight'
<1>1. \A n \in Nodes : ActiveAt(n)' = ActiveAt(n) \ {r}
  BY DEF ActiveAt, Active, Others
<1>2. \A n \in Nodes : PingAt(n)' = PingAt(n)
  BY DEF PingAt
<1> HIDE DEF ActiveAt, PingAt
<1> QED
  BY <1>1, <1>2 DEF LoadRight, LoadWithout

\* A call that is sent counts at its node, which had room.
LEMMA SendsLoad ==
  ASSUME NEW r \in Requests, NEW load \in [Nodes -> Int], LoadWithout(r, load), Others(r),
         UNCHANGED pings, NEW n \in Nodes, Sends(r, n, load), client[n][1] = n
  PROVE  LoadRight'
<1>1. requests'[r].pc = "sent" /\ requests'[r].client[1] = n
  BY DEF Sends
<1>2. \A m \in Nodes : ActiveAt(m)' = IF m = n THEN (ActiveAt(m) \ {r}) \cup {r} ELSE ActiveAt(m) \ {r}
  BY <1>1 DEF ActiveAt, Active, Others
<1>3. \A m \in Nodes : PingAt(m)' = PingAt(m)
  BY DEF PingAt
<1>4. /\ load[n] < Cap /\ Cap \in Nat /\ pending'[n] = load[n] + 1
      /\ \A m \in Nodes : m # n => pending'[m] = load[m]
  BY ClusterAssumption DEF Sends
<1> HIDE DEF ActiveAt, PingAt
<1>5. ASSUME NEW m \in Nodes
      PROVE  /\ IsFiniteSet(ActiveAt(m)')
             /\ pending'[m] = Cardinality(ActiveAt(m)') + PingAt(m)'
             /\ pending'[m] <= Cap
  <2>1. /\ IsFiniteSet(ActiveAt(m) \ {r}) /\ load[m] = Cardinality(ActiveAt(m) \ {r}) + PingAt(m)
        /\ load[m] <= Cap
    BY DEF LoadWithout
  <2>2. CASE m # n
    BY <1>2, <1>3, <1>4, <2>1, <2>2
  <2>3. CASE m = n
    <3>1. /\ IsFiniteSet((ActiveAt(m) \ {r}) \cup {r})
          /\ Cardinality((ActiveAt(m) \ {r}) \cup {r}) = Cardinality(ActiveAt(m) \ {r}) + 1
      BY <2>1, FS_AddElement
    <3>2. Cardinality(ActiveAt(m) \ {r}) \in Nat /\ PingAt(m) \in Nat
      BY <2>1, FS_CardinalityType DEF PingAt
    <3>3. /\ ActiveAt(m)' = (ActiveAt(m) \ {r}) \cup {r} /\ PingAt(m)' = PingAt(m)
          /\ pending'[m] = load[m] + 1 /\ load[m] < Cap /\ Cap \in Nat
      BY <1>2, <1>3, <1>4, <2>3
    <3>4. pending'[m] = Cardinality((ActiveAt(m) \ {r}) \cup {r}) + PingAt(m)
      BY <2>1, <3>1, <3>2, <3>3
    <3>5. pending'[m] <= Cap
      BY <2>1, <3>2, <3>3
    <3> QED
      BY <3>1, <3>3, <3>4, <3>5
  <2> QED
    BY <2>2, <2>3
<1> QED
  BY <1>5 DEF LoadRight

\* finally { node.pending-- } takes the call that resumes out of the load.
LEMMA ResumeLightens ==
  ASSUME TypesRight, LoadRight, NEW r \in Requests, requests[r].pc = "resumed"
  PROVE  LoadWithout(r, Lighter(r))
<1>1. pending \in [Nodes -> Int] /\ requests[r].client[1] \in Nodes
  BY DEF TypesRight, CallsRight, Clients
<1>2. \A m \in Nodes : r \in ActiveAt(m) <=> m = requests[r].client[1]
  BY <1>1 DEF ActiveAt, Active
<1>3. \A m \in Nodes : Lighter(r)[m] = IF m = requests[r].client[1] THEN pending[m] - 1 ELSE pending[m]
  BY <1>1 DEF Lighter
<1> HIDE DEF ActiveAt, PingAt, Lighter
<1>4. ASSUME NEW m \in Nodes
      PROVE  /\ IsFiniteSet(ActiveAt(m) \ {r})
             /\ Lighter(r)[m] = Cardinality(ActiveAt(m) \ {r}) + PingAt(m)
             /\ Lighter(r)[m] <= Cap
  <2>1. /\ IsFiniteSet(ActiveAt(m)) /\ pending[m] = Cardinality(ActiveAt(m)) + PingAt(m)
        /\ pending[m] <= Cap /\ Cap \in Nat
    BY ClusterAssumption DEF LoadRight
  <2>2. Cardinality(ActiveAt(m)) \in Nat /\ PingAt(m) \in Nat
    BY <2>1, FS_CardinalityType DEF PingAt
  <2>3. CASE r \in ActiveAt(m)
    <3>1. /\ IsFiniteSet(ActiveAt(m) \ {r})
          /\ Cardinality(ActiveAt(m) \ {r}) = Cardinality(ActiveAt(m)) - 1
      BY <2>1, <2>3, FS_RemoveElement
    <3> QED
      BY <1>1, <1>2, <1>3, <2>1, <2>2, <2>3, <3>1
  <2>4. CASE r \notin ActiveAt(m)
    <3>1. ActiveAt(m) \ {r} = ActiveAt(m)
      BY <2>4
    <3> QED
      BY <1>2, <1>3, <2>1, <2>4, <3>1
  <2> QED
    BY <2>3, <2>4
<1> QED
  BY <1>4 DEF LoadWithout

\* A new call counts nowhere.
LEMMA NewIsLight ==
  ASSUME LoadRight, NEW r \in Requests, requests[r].pc = "new"
  PROVE  LoadWithout(r, pending)
<1>1. \A m \in Nodes : ActiveAt(m) \ {r} = ActiveAt(m)
  BY DEF ActiveAt, Active
<1> HIDE DEF ActiveAt, PingAt
<1> QED
  BY <1>1 DEF LoadWithout, LoadRight

\* A call that is resumed, for whatever reason, counts until its continuation has run.
LEMMA SameLoad ==
  ASSUME LoadRight, UNCHANGED <<pings, pending>>,
         \A r \in Requests :
           \/ requests'[r] = requests[r]
           \/ /\ requests[r].pc = "sent" /\ requests'[r].pc = "resumed"
              /\ requests'[r].client = requests[r].client
  PROVE  LoadRight'
<1>1. \A n \in Nodes : ActiveAt(n)' = ActiveAt(n) /\ PingAt(n)' = PingAt(n)
  BY DEF ActiveAt, Active, PingAt
<1> HIDE DEF ActiveAt, PingAt
<1> QED
  BY <1>1 DEF LoadRight

\* What losing its client leaves of a call: it is resumed, with the same client.
LEMMA LosesFields ==
  ASSUME NEW R, Loses(R), NEW r \in Requests
  PROVE  \/ R[r] = requests[r]
         \/ /\ requests[r].pc = "sent" /\ R[r].pc = "resumed" /\ R[r].result = "lost"
            /\ R[r].client = requests[r].client /\ R[r].outcome = requests[r].outcome
<1>1. CASE R[r] = requests[r]
  BY <1>1
<1>2. CASE /\ requests[r].pc = "sent"
           /\ R[r] = [pc |-> "resumed", client |-> requests[r].client,
                tried |-> requests[r].tried, result |-> "lost", outcome |-> requests[r].outcome]
  <2>1. /\ R[r].pc = "resumed" /\ R[r].result = "lost"
        /\ R[r].client = requests[r].client /\ R[r].outcome = requests[r].outcome
    BY <1>2
  <2> QED
    BY <1>2, <2>1
<1> QED
  BY <1>1, <1>2 DEF Loses

\* No step miscounts the load of a node.
LEMMA LoadNext ==
  ASSUME ConnectionInv, LoadRight, [Next]_vars
  PROVE  LoadRight'
<1>1. TypesRight /\ \A n \in Nodes : client[n][1] = n
  BY DEF ConnectionInv, ClientsRight
<1>2. pings \in [Nodes -> Clients] /\ pending \in [Nodes -> Int] /\ Cap \in Nat \ {0}
  BY <1>1, ClusterAssumption DEF TypesRight
<1>3. ASSUME NEW r \in Requests, Request(r) PROVE LoadRight'
  <2>1. LoadWithout(r, pending) /\ UNCHANGED pings
    BY <1>3, NewIsLight DEF Request
  <2>2. /\ Others(r)
        /\ \/ Settles(r, NotSent) /\ pending' = pending
           \/ \E n \in Nodes : Sends(r, n, pending)
    BY <1>1, <1>3, RequestIs
  <2>3. CASE Settles(r, NotSent) /\ pending' = pending
    <3>1. requests'[r].pc = "settled"
      BY <2>3 DEF Settles
    <3> QED
      BY <2>1, <2>2, <2>3, <3>1, SettlesLoad
  <2>4. ASSUME NEW n \in Nodes, Sends(r, n, pending) PROVE LoadRight'
    BY <1>1, <1>2, <2>1, <2>2, <2>4, SendsLoad
  <2> QED
    BY <2>2, <2>3, <2>4
<1>4. ASSUME NEW r \in Requests, Resume(r) PROVE LoadRight'
  <2>1. LoadWithout(r, Lighter(r)) /\ UNCHANGED pings
    BY <1>1, <1>4, ResumeLightens DEF Resume
  <2>2. /\ Others(r) /\ Lighter(r) \in [Nodes -> Int]
        /\ \/ \E outcomes : Settles(r, outcomes) /\ pending' = Lighter(r)
           \/ \E n \in Nodes : Sends(r, n, Lighter(r))
    BY <1>1, <1>4, ResumeIs
  <2>3. ASSUME NEW outcomes, Settles(r, outcomes), pending' = Lighter(r) PROVE LoadRight'
    <3>1. requests'[r].pc = "settled"
      BY <2>3 DEF Settles
    <3> QED
      BY <2>1, <2>2, <2>3, <3>1, SettlesLoad
  <2>4. ASSUME NEW n \in Nodes, Sends(r, n, Lighter(r)) PROVE LoadRight'
    BY <1>1, <2>1, <2>2, <2>4, SendsLoad
  <2> QED
    BY <2>2, <2>3, <2>4
<1>5. ASSUME NEW r \in Requests, Refuse(r) \/ Withdraw(r) \/ Answer(r) PROVE LoadRight'
  <2>1. PICK result \in Results \ {"none"} : Resumed(r, result) /\ requests[r].pc = "sent"
    BY <1>5 DEF Refuse, Withdraw, Undispatched, Answer, Results
  <2>2. /\ Others(r)
        /\ requests'[r] = [pc |-> "resumed", client |-> requests[r].client,
                           tried |-> requests[r].tried, result |-> result,
                           outcome |-> requests[r].outcome]
    BY <1>1, <2>1, ResumedTypes
  <2>3. UNCHANGED <<pings, pending>>
    BY <1>5 DEF Refuse, Withdraw, Undispatched, Answer
  <2> QED
    BY <2>1, <2>2, <2>3, SameLoad DEF Others
<1>6. ASSUME Loses(requests'), UNCHANGED <<pings, pending>> PROVE LoadRight'
  <2>1. \A r \in Requests :
           \/ requests'[r] = requests[r]
           \/ /\ requests[r].pc = "sent" /\ requests'[r].pc = "resumed"
              /\ requests'[r].client = requests[r].client
    BY <1>6, LosesFields
  <2> QED
    BY <1>6, <2>1, SameLoad
<1>7. ASSUME UNCHANGED <<requests, pings, pending>> PROVE LoadRight'
  BY <1>7, SameLoad
<1>8. ASSUME NEW c \in open, ClientFails(c) PROVE LoadRight'
  BY <1>1, <1>6, <1>8, LostLoses DEF ClientFails
<1>9. ASSUME Close PROVE LoadRight'
  BY <1>1, <1>6, <1>9, CloseLoses DEF Close
<1>10. ASSUME NEW n \in Nodes, Ping(n) PROVE LoadRight'
  <2>1. /\ client[n] # Undefined(n) /\ pending[n] = 0 /\ pings[n] = Undefined(n)
        /\ pings' = [pings EXCEPT ![n] = client[n]] /\ pending' = [pending EXCEPT ![n] = @ + 1]
        /\ UNCHANGED requests
    BY <1>10 DEF Ping, Counted, IsOpen, ConnectionInv, ClientsRight, Undefined
  <2>2. \A m \in Nodes : ActiveAt(m)' = ActiveAt(m)
    BY <2>1 DEF ActiveAt, Active
  <2>3. /\ PingAt(n) = 0 /\ PingAt(n)' = 1 /\ pending'[n] = pending[n] + 1
        /\ \A m \in Nodes : m # n => PingAt(m)' = PingAt(m) /\ pending'[m] = pending[m]
    BY <1>2, <2>1 DEF PingAt, Undefined
  <2> HIDE DEF ActiveAt, PingAt
  <2>4. ASSUME NEW m \in Nodes
        PROVE  /\ IsFiniteSet(ActiveAt(m)')
               /\ pending'[m] = Cardinality(ActiveAt(m)') + PingAt(m)'
               /\ pending'[m] <= Cap
    <3>1. /\ IsFiniteSet(ActiveAt(m)) /\ pending[m] = Cardinality(ActiveAt(m)) + PingAt(m)
          /\ pending[m] <= Cap
      BY DEF LoadRight
    <3>2. Cardinality(ActiveAt(m)) \in Nat
      BY <3>1, FS_CardinalityType
    <3>3. CASE m # n
      BY <2>2, <2>3, <3>1, <3>3
    <3>4. CASE m = n
      <4>1. pending'[m] = 1 /\ Cardinality(ActiveAt(m)) = 0 /\ PingAt(m)' = 1
        BY <2>1, <2>3, <3>1, <3>2, <3>4
      <4> QED
        BY <1>2, <2>2, <3>1, <4>1
    <3> QED
      BY <3>3, <3>4
  <2> QED
    BY <2>4 DEF LoadRight
<1>11. ASSUME NEW n \in Nodes, PingSettles(n) PROVE LoadRight'
  <2>1. /\ pings[n] # Undefined(n)
        /\ pings' = [pings EXCEPT ![n] = Undefined(n)] /\ pending' = [pending EXCEPT ![n] = @ - 1]
        /\ UNCHANGED requests \/ requests' = Lost(pings[n])
    BY <1>11 DEF PingSettles
  <2>2. \A m \in Nodes : ActiveAt(m)' = ActiveAt(m)
    <3>1. \A r \in Requests :
           \/ requests'[r] = requests[r]
           \/ /\ requests[r].pc = "sent" /\ requests'[r].pc = "resumed"
              /\ requests'[r].client = requests[r].client
      <4>1. CASE UNCHANGED requests
        BY <4>1
      <4>2. CASE requests' = Lost(pings[n])
        BY <1>1, <4>2, LostLoses, LosesFields
      <4> QED
        BY <2>1, <4>1, <4>2
    <3> QED
      BY <3>1 DEF ActiveAt, Active
  <2>3. /\ PingAt(n) = 1 /\ PingAt(n)' = 0 /\ pending'[n] = pending[n] - 1
        /\ \A m \in Nodes : m # n => PingAt(m)' = PingAt(m) /\ pending'[m] = pending[m]
    BY <1>2, <2>1 DEF PingAt, Undefined
  <2> HIDE DEF ActiveAt, PingAt
  <2>4. ASSUME NEW m \in Nodes
        PROVE  /\ IsFiniteSet(ActiveAt(m)')
               /\ pending'[m] = Cardinality(ActiveAt(m)') + PingAt(m)'
               /\ pending'[m] <= Cap
    <3>1. /\ IsFiniteSet(ActiveAt(m)) /\ pending[m] = Cardinality(ActiveAt(m)) + PingAt(m)
          /\ pending[m] <= Cap
      BY DEF LoadRight
    <3>2. Cardinality(ActiveAt(m)) \in Nat
      BY <3>1, FS_CardinalityType
    <3>3. CASE m # n
      BY <2>2, <2>3, <3>1, <3>3
    <3>4. CASE m = n
      <4>1. pending'[m] = Cardinality(ActiveAt(m)) /\ PingAt(m)' = 0 /\ pending'[m] <= Cap
        BY <1>2, <2>3, <3>1, <3>2, <3>4
      <4> QED
        BY <2>2, <3>1, <3>2, <4>1
    <3> QED
      BY <3>3, <3>4
  <2> QED
    BY <2>4 DEF LoadRight
<1>12. \A n \in Nodes : Connect(n) \/ ConnectSettles(n) \/ Publish(n) \/ Connected(n) \/ RetireDead(n)
         => UNCHANGED <<requests, pings, pending>>
  BY DEF Connect, ConnectSettles, Publish, Connected, RetireDead
<1>13. (\E w \in wire : Dispatch(w)) \/ Closed \/ UNCHANGED vars => UNCHANGED <<requests, pings, pending>>
  BY DEF Dispatch, Closed, vars
<1> QED
  BY <1>3, <1>4, <1>5, <1>7, <1>8, <1>9, <1>10, <1>11, <1>12, <1>13 DEF Next, NodeStep

-----------------------------------------------------------------------------
(* Where a call may be dispatched.                                         *)

\* The clients that have a request, one by one.
LEMMA BrokersAre ==
  ASSUME NEW S, S \subseteq Requests \X Clients, NEW r, NEW c
  PROVE  c \in Brokers(S, r) <=> <<r, c>> \in S
<1>1. ASSUME <<r, c>> \in S PROVE c \in Brokers(S, r)
  <2>1. <<r, c>> \in {v \in S : v[1] = r} /\ <<r, c>>[2] = c
    BY <1>1
  <2> QED
    BY <2>1 DEF Brokers
<1>2. ASSUME c \in Brokers(S, r) PROVE <<r, c>> \in S
  <2>1. PICK w \in S : w[1] = r /\ w[2] = c
    BY <1>2 DEF Brokers
  <2>2. w = <<w[1], w[2]>>
    BY <2>1
  <2> QED
    BY <2>1, <2>2
<1> QED
  BY <1>1, <1>2

\* A call that is refused, or new, is nowhere; attempted, it is with one client at most.
LEMMA AttemptWhere ==
  ASSUME TypesRight, WhereRight, NEW r \in Requests, NEW load, Others(r), UNCHANGED dispatched,
         wire' \subseteq Requests \X Clients,
         Brokers(wire \cup dispatched, r) = {},
         (Settles(r, NotSent) /\ UNCHANGED wire) \/ \E n \in Nodes : Sends(r, n, load)
  PROVE  WhereRight'
<1>1. wire \subseteq Requests \X Clients /\ dispatched \subseteq Requests \X Clients
  BY DEF TypesRight
<1>2. CASE Settles(r, NotSent) /\ UNCHANGED wire
  <2>1. /\ requests'[r].pc = "settled" /\ requests'[r].outcome \in NotSent
    BY <1>2 DEF Settles
  <2>2. WhereAt(requests'[r], Brokers(wire \cup dispatched, r), Brokers(dispatched, r))
    BY <2>1 DEF WhereAt, NotSent
  <2> QED
    BY <1>2, <2>2 DEF WhereRight, Others
<1>3. ASSUME NEW n \in Nodes, Sends(r, n, load) PROVE WhereRight'
  <2>1. /\ requests'[r].pc = "sent" /\ requests'[r].client = client[n]
        /\ requests'[r].outcome = "none" /\ wire' = wire \cup {<<r, client[n]>>}
    BY <1>3 DEF Sends
  <2>7. wire' \cup dispatched \subseteq Requests \X Clients
        /\ wire \cup dispatched \subseteq Requests \X Clients
    BY <1>1
  <2>2. ASSUME NEW c PROVE c \in Brokers(wire' \cup dispatched, r) <=> c = client[n]
    <3>1. c \in Brokers(wire' \cup dispatched, r) <=> <<r, c>> \in wire' \cup dispatched
      BY <2>7, BrokersAre
    <3>2. c \in Brokers(wire \cup dispatched, r) <=> <<r, c>> \in wire \cup dispatched
      BY <2>7, BrokersAre
    <3>3. c \notin Brokers(wire \cup dispatched, r)
      OBVIOUS
    <3>4. <<r, c>> \in wire' \cup dispatched <=> <<r, c>> \in wire \cup dispatched \/ c = client[n]
      BY <2>1
    <3> QED
      BY <3>1, <3>2, <3>3, <3>4
  <2>3. Brokers(wire' \cup dispatched, r) = {client[n]}
    BY <2>2
  <2>4. \A s \in Requests : s # r => Brokers(wire' \cup dispatched, s) = Brokers(wire \cup dispatched, s)
    <3> TAKE s \in Requests
    <3> HAVE s # r
    <3>1. \A c : c \in Brokers(wire' \cup dispatched, s) <=> c \in Brokers(wire \cup dispatched, s)
      <4> TAKE c
      <4>1. c \in Brokers(wire' \cup dispatched, s) <=> <<s, c>> \in wire' \cup dispatched
        BY <2>7, BrokersAre
      <4>2. c \in Brokers(wire \cup dispatched, s) <=> <<s, c>> \in wire \cup dispatched
        BY <2>7, BrokersAre
      <4>3. <<s, c>> \in wire' \cup dispatched <=> <<s, c>> \in wire \cup dispatched
        BY <2>1
      <4> QED
        BY <4>1, <4>2, <4>3
    <3> QED
      BY <3>1 DEF Brokers
  <2>5. wire' \cap dispatched = {}
    <3>1. client[n] \notin Brokers(wire \cup dispatched, r)
      OBVIOUS
    <3>2. <<r, client[n]>> \notin dispatched
      BY <1>1, <3>1, BrokersAre
    <3> QED
      BY <2>1, <3>2 DEF WhereRight
  <2>6. WhereAt(requests'[r], Brokers(wire' \cup dispatched, r), Brokers(dispatched, r))
    BY <2>1, <2>3 DEF WhereAt
  <2> QED
    BY <2>4, <2>5, <2>6 DEF WhereRight, Others
<1> QED
  BY <1>2, <1>3

\* A call that loses its client stays where it is.
LEMMA LosesWhere ==
  ASSUME WhereRight, Loses(requests'), UNCHANGED <<wire, dispatched>>
  PROVE  WhereRight'
<1>1. ASSUME NEW r \in Requests
      PROVE  WhereAt(requests'[r], Brokers(wire \cup dispatched, r), Brokers(dispatched, r))
  <2>1. WhereAt(requests[r], Brokers(wire \cup dispatched, r), Brokers(dispatched, r))
    BY DEF WhereRight
  <2>2. \/ requests'[r] = requests[r]
        \/ /\ requests[r].pc = "sent" /\ requests'[r].pc = "resumed" /\ requests'[r].result = "lost"
           /\ requests'[r].client = requests[r].client /\ requests'[r].outcome = requests[r].outcome
    BY LosesFields
  <2> QED
    BY <2>1, <2>2 DEF WhereAt
<1> QED
  BY <1>1 DEF WhereRight

\* No step sends a call that may be dispatched elsewhere, or tells its caller otherwise.
LEMMA WhereNext ==
  ASSUME ConnectionInv, WhereRight, [Next]_vars
  PROVE  WhereRight'
<1>1. TypesRight /\ wire \subseteq Requests \X Clients /\ dispatched \subseteq Requests \X Clients
      /\ wire' \subseteq Requests \X Clients
  <2>1. TypesRight'
    BY TypesNext DEF ConnectionInv
  <2> QED
    BY <2>1 DEF ConnectionInv, TypesRight
<1>2. ASSUME NEW r \in Requests, Request(r) PROVE WhereRight'
  <2>1. Brokers(wire \cup dispatched, r) = {} /\ UNCHANGED dispatched
    BY <1>2 DEF Request, WhereRight, WhereAt
  <2>2. Others(r) /\ ((Settles(r, NotSent) /\ UNCHANGED wire) \/ \E n \in Nodes : Sends(r, n, pending))
    BY <1>1, <1>2, RequestIs
  <2> QED
    BY <1>1, <2>1, <2>2, AttemptWhere
<1>3. ASSUME NEW r \in Requests, Resume(r) PROVE WhereRight'
  <2>1. requests[r].pc = "resumed" /\ UNCHANGED dispatched /\ Others(r)
        /\ requests[r].result \in Results /\ requests[r].result # "none"
    BY <1>1, <1>3, ResumeIs DEF Resume, TypesRight, CallsRight, Calls
  <2>2. CASE requests[r].result = "refused"
    <3>1. Brokers(wire \cup dispatched, r) = {}
      BY <2>1, <2>2 DEF WhereRight, WhereAt
    <3>2. (Settles(r, NotSent) /\ UNCHANGED wire) \/ \E n \in Nodes : Sends(r, n, Lighter(r))
      BY <1>1, <1>3, <2>2, ResumeIs
    <3> QED
      BY <1>1, <2>1, <3>1, <3>2, AttemptWhere
  <2>3. CASE requests[r].result # "refused"
    <3>1. Settles(r, {OutcomeOf(requests[r].result)}) /\ UNCHANGED wire
      BY <1>1, <1>3, <2>3, ResumeIs
    <3>2. /\ requests'[r].pc = "settled" /\ requests'[r].client = requests[r].client
          /\ requests'[r].outcome = OutcomeOf(requests[r].result)
      BY <3>1 DEF Settles
    <3>3. \/ requests'[r].outcome = "ambiguous"
          \/ /\ requests'[r].outcome = requests[r].result
             /\ requests[r].result \in {"answer", "error"}
             /\ requests'[r].outcome \notin NotSent
      BY <2>1, <2>3, <3>2 DEF OutcomeOf, Results, NotSent
    <3>4. WhereAt(requests[r], Brokers(wire \cup dispatched, r), Brokers(dispatched, r))
      BY DEF WhereRight
    <3>5. WhereAt(requests'[r], Brokers(wire \cup dispatched, r), Brokers(dispatched, r))
      BY <2>1, <3>2, <3>3, <3>4 DEF WhereAt
    <3> QED
      BY <2>1, <3>1, <3>5 DEF WhereRight, Others
  <2> QED
    BY <2>2, <2>3
<1>4. ASSUME NEW r \in Requests, Refuse(r) \/ Withdraw(r) PROVE WhereRight'
  <2> PICK result \in {"refused", "error"} : Undispatched(r, result)
    BY <1>4 DEF Refuse, Withdraw
  <2>1. /\ requests[r].pc = "sent" /\ <<r, requests[r].client>> \in wire
        /\ wire' = wire \ {<<r, requests[r].client>>} /\ UNCHANGED dispatched
        /\ Resumed(r, result)
    BY DEF Undispatched
  <2>2. /\ Others(r) /\ requests'[r].pc = "resumed" /\ requests'[r].result = result
        /\ requests'[r].outcome = requests[r].outcome
    <3>1. result \in Results \ {"none"}
      BY DEF Results
    <3>2. /\ Others(r)
          /\ requests'[r] = [pc |-> "resumed", client |-> requests[r].client,
                             tried |-> requests[r].tried, result |-> result,
                             outcome |-> requests[r].outcome]
      BY <1>1, <2>1, <3>1, ResumedTypes
    <3> QED
      BY <3>2
  <2>3. Brokers(wire \cup dispatched, r) = {requests[r].client} /\ requests[r].outcome = "none"
        /\ wire \cap dispatched = {}
    BY <2>1 DEF WhereRight, WhereAt
  <2>4. wire' \cup dispatched \subseteq Requests \X Clients
        /\ wire \cup dispatched \subseteq Requests \X Clients
    BY <1>1
  <2>5. ASSUME NEW c PROVE c \notin Brokers(wire' \cup dispatched, r)
    <3>1. c \in Brokers(wire' \cup dispatched, r) <=> <<r, c>> \in wire' \cup dispatched
      BY <2>4, BrokersAre
    <3>2. c \in Brokers(wire \cup dispatched, r) <=> <<r, c>> \in wire \cup dispatched
      BY <2>4, BrokersAre
    <3> QED
      BY <2>1, <2>3, <3>1, <3>2
  <2>6. Brokers(wire' \cup dispatched, r) = {}
    BY <2>5
  <2>7. ASSUME NEW s \in Requests, s # r
        PROVE  Brokers(wire' \cup dispatched, s) = Brokers(wire \cup dispatched, s)
    <3>1. ASSUME NEW c PROVE c \in Brokers(wire' \cup dispatched, s) <=> c \in Brokers(wire \cup dispatched, s)
      <4>1. c \in Brokers(wire' \cup dispatched, s) <=> <<s, c>> \in wire' \cup dispatched
        BY <2>4, BrokersAre
      <4>2. c \in Brokers(wire \cup dispatched, s) <=> <<s, c>> \in wire \cup dispatched
        BY <2>4, BrokersAre
      <4>3. <<s, c>> \in wire' \cup dispatched <=> <<s, c>> \in wire \cup dispatched
        BY <2>1, <2>7
      <4> QED
        BY <4>1, <4>2, <4>3
    <3> QED
      BY <3>1 DEF Brokers
  <2>9. Brokers(dispatched, r) \subseteq Brokers(wire' \cup dispatched, r)
    BY DEF Brokers
  <2>8. WhereAt(requests'[r], Brokers(wire' \cup dispatched, r), Brokers(dispatched, r))
    BY <2>2, <2>3, <2>6, <2>9 DEF WhereAt
  <2> QED
    BY <2>1, <2>2, <2>3, <2>7, <2>8 DEF WhereRight, Others
<1>5. ASSUME NEW r \in Requests, Answer(r) PROVE WhereRight'
  <2>1. PICK result \in {"answer", "error"} :
          /\ requests[r].pc = "sent" /\ <<r, requests[r].client>> \in dispatched
          /\ UNCHANGED <<wire, dispatched>> /\ Resumed(r, result)
    BY <1>5 DEF Answer, net
  <2>2. /\ Others(r) /\ requests'[r].pc = "resumed" /\ requests'[r].result = result
        /\ requests'[r].client = requests[r].client /\ requests'[r].outcome = requests[r].outcome
    <3>1. result \in Results \ {"none"}
      BY DEF Results
    <3>2. /\ Others(r)
          /\ requests'[r] = [pc |-> "resumed", client |-> requests[r].client,
                             tried |-> requests[r].tried, result |-> result,
                             outcome |-> requests[r].outcome]
      BY <1>1, <2>1, <3>1, ResumedTypes
    <3> QED
      BY <3>2
  <2>3. Brokers(wire \cup dispatched, r) = {requests[r].client} /\ requests[r].outcome = "none"
    BY <2>1 DEF WhereRight, WhereAt
  <2>4. Brokers(dispatched, r) \subseteq Brokers(wire \cup dispatched, r)
    BY DEF Brokers
  <2>5. requests[r].client \in Brokers(dispatched, r)
    BY <1>1, <2>1, BrokersAre
  <2>6. WhereAt(requests'[r], Brokers(wire \cup dispatched, r), Brokers(dispatched, r))
    BY <2>2, <2>3, <2>4, <2>5 DEF WhereAt
  <2> QED
    BY <2>1, <2>2, <2>6 DEF WhereRight, Others
<1>6. ASSUME NEW w \in wire, Dispatch(w) PROVE WhereRight'
  <2>1. /\ wire' = wire \ {w} /\ dispatched' = dispatched \cup {w} /\ UNCHANGED requests
        /\ wire' \cup dispatched' = wire \cup dispatched
    BY <1>6 DEF Dispatch
  <2>2. ASSUME NEW r \in Requests
        PROVE  WhereAt(requests[r], Brokers(wire \cup dispatched, r), Brokers(dispatched', r))
    <3>1. WhereAt(requests[r], Brokers(wire \cup dispatched, r), Brokers(dispatched, r))
      BY DEF WhereRight
    <3>2. /\ Brokers(dispatched, r) \subseteq Brokers(dispatched', r)
          /\ Brokers(dispatched', r) \subseteq Brokers(wire \cup dispatched, r)
      BY <2>1 DEF Brokers
    <3>3. requests[r].outcome \in {"answer", "error"} => requests[r].pc = "settled"
      BY <3>1 DEF WhereAt
    <3> QED
      BY <3>1, <3>2, <3>3 DEF WhereAt
  <2> QED
    BY <2>1, <2>2 DEF WhereRight
<1>7. ASSUME UNCHANGED <<requests, wire, dispatched>> PROVE WhereRight'
  BY <1>7 DEF WhereRight
<1>8. ASSUME NEW c \in open, ClientFails(c) PROVE WhereRight'
  BY <1>1, <1>8, LostLoses, LosesWhere DEF ClientFails, net
<1>9. ASSUME Close PROVE WhereRight'
  BY <1>1, <1>9, CloseLoses, LosesWhere DEF Close, net
<1>10. ASSUME NEW n \in Nodes, PingSettles(n) PROVE WhereRight'
  <2>1. (UNCHANGED requests \/ requests' = Lost(pings[n])) /\ UNCHANGED <<wire, dispatched>>
    BY <1>10 DEF PingSettles, net
  <2> QED
    BY <1>1, <1>7, <2>1, LostLoses, LosesWhere
<1>11. \A n \in Nodes : Ping(n) \/ Connect(n) \/ ConnectSettles(n) \/ Publish(n) \/ Connected(n)
         \/ RetireDead(n) => UNCHANGED <<requests, wire, dispatched>>
  BY DEF Ping, Connect, ConnectSettles, Publish, Connected, RetireDead, net
<1>12. Closed \/ UNCHANGED vars => UNCHANGED <<requests, wire, dispatched>>
  BY DEF Closed, vars, net
<1> QED
  BY <1>2, <1>3, <1>4, <1>5, <1>6, <1>7, <1>8, <1>9, <1>10, <1>11, <1>12 DEF Next, NodeStep

-----------------------------------------------------------------------------
(* What has replaced a client.                                             *)

\* No number is used again, ...
NumbersRight ==
  /\ \A n \in Nodes : client[n][2] <= made[n]
  /\ \A r \in Requests, n \in Nodes, i \in 0 .. MaxClients :
       requests[r].client = <<n, i>> =>
         i <= made[n] /\ (connecting[n] = "connecting" => i # made[n])

\* ... so the client that lost a request is closed for good.
LostRight ==
  \A r \in Requests :
    requests[r].pc = "resumed" /\ requests[r].result = "lost" => requests[r].client \notin open

\* A call that a step resumes, settles or sends: its client, and whether it is lost.
LEMMA CallsChange ==
  ASSUME TypesRight, [Next]_vars, NEW r \in Requests
  PROVE  /\ requests'[r].client = requests[r].client
              \/ \E n \in Nodes : requests'[r].client = client[n]
         /\ requests'[r].pc = "resumed" /\ requests'[r].result = "lost" =>
              \/ requests'[r] = requests[r]
              \/ requests'[r].client = requests[r].client /\ requests[r].pc = "sent" /\ Loses(requests')
<1> DEFINE Steadfast(q) == \/ q.client = requests[r].client
                           \/ \E n \in Nodes : q.client = client[n]
           NotLost(q) == ~(q.pc = "resumed" /\ q.result = "lost")
<1>1. ASSUME Settles(r, NotSent) \/ (\E outcome \in Outcomes : Settles(r, {outcome}))
      PROVE  Steadfast(requests'[r]) /\ NotLost(requests'[r])
  <2>1. PICK outcome :
          requests'[r] = [pc |-> "settled", client |-> requests[r].client, tried |-> {},
                          result |-> "none", outcome |-> outcome]
    BY <1>1 DEF Settles
  <2>2. requests'[r].client = requests[r].client /\ requests'[r].pc = "settled"
    BY <2>1
  <2> QED
    BY <2>2
<1>2. ASSUME NEW n \in Nodes, NEW load, Sends(r, n, load)
      PROVE  Steadfast(requests'[r]) /\ NotLost(requests'[r])
  BY <1>2 DEF Sends
<1>3. ASSUME NEW s \in Requests, Request(s)
      PROVE  requests'[r] = requests[r] \/ (Steadfast(requests'[r]) /\ NotLost(requests'[r]))
  <2>1. Others(s) /\ (Settles(s, NotSent) \/ \E n \in Nodes : Sends(s, n, pending))
    BY <1>3, RequestIs
  <2> QED
    BY <1>1, <1>2, <2>1 DEF Others
<1>4. ASSUME NEW s \in Requests, Resume(s)
      PROVE  requests'[r] = requests[r] \/ (Steadfast(requests'[r]) /\ NotLost(requests'[r]))
  <2>1. /\ Others(s)
        /\ \/ Settles(s, {OutcomeOf(requests[s].result)})
           \/ Settles(s, NotSent)
           \/ \E n \in Nodes : Sends(s, n, Lighter(s))
    BY <1>4, ResumeIs
  <2>2. OutcomeOf(requests[s].result) \in Outcomes
    BY DEF TypesRight, CallsRight, Calls, Results, Outcomes, OutcomeOf
  <2> QED
    BY <1>1, <1>2, <2>1, <2>2 DEF Others
<1>5. ASSUME NEW s \in Requests, Refuse(s) \/ Withdraw(s) \/ Answer(s)
      PROVE  requests'[r] = requests[r] \/ (Steadfast(requests'[r]) /\ NotLost(requests'[r]))
  <2>1. PICK result \in {"refused", "error", "answer"} : Resumed(s, result) /\ requests[s].pc = "sent"
    BY <1>5 DEF Refuse, Withdraw, Undispatched, Answer
  <2>2. result \in Results \ {"none"}
    BY DEF Results
  <2>3. /\ Others(s)
        /\ requests'[s] = [pc |-> "resumed", client |-> requests[s].client,
                           tried |-> requests[s].tried, result |-> result,
                           outcome |-> requests[s].outcome]
    BY <2>1, <2>2, ResumedTypes
  <2>4. requests'[s].client = requests[s].client /\ requests'[s].result # "lost"
    BY <2>3
  <2> QED
    BY <2>3, <2>4 DEF Others
<1>6. ASSUME Loses(requests')
      PROVE  \/ requests'[r] = requests[r]
             \/ requests'[r].client = requests[r].client /\ requests[r].pc = "sent"
  BY <1>6, LosesFields
<1>7. (\E c \in open : ClientFails(c)) \/ Close => Loses(requests')
  BY LostLoses, CloseLoses DEF ClientFails
<1>8. \A n \in Nodes : PingSettles(n) => UNCHANGED requests \/ Loses(requests')
  BY LostLoses DEF PingSettles
<1>9. \A n \in Nodes : Ping(n) \/ Connect(n) \/ ConnectSettles(n) \/ Publish(n) \/ Connected(n)
         \/ RetireDead(n) => UNCHANGED requests
  BY DEF Ping, Connect, ConnectSettles, Publish, Connected, RetireDead
<1>10. (\E w \in wire : Dispatch(w)) \/ Closed \/ UNCHANGED vars => UNCHANGED requests
  BY DEF Dispatch, Closed, vars
<1>11. \/ requests'[r] = requests[r]
       \/ Steadfast(requests'[r]) /\ NotLost(requests'[r])
       \/ Loses(requests')
  <2> HIDE DEF Steadfast, NotLost
  <2> QED
    BY <1>3, <1>4, <1>5, <1>7, <1>8, <1>9, <1>10 DEF Next, NodeStep
<1> QED
  BY <1>6, <1>11

\* A client that is made gets a number that no call and no node has seen.
LEMMA NumbersNext ==
  ASSUME ConnectionInv, NumbersRight, [Next]_vars
  PROVE  NumbersRight'
<1>1. /\ client \in [Nodes -> Clients] /\ made \in [Nodes -> 0 .. MaxClients] /\ MaxClients \in Nat
      /\ made' \in [Nodes -> 0 .. MaxClients] /\ client' \in [Nodes -> Clients]
      /\ connecting \in [Nodes -> {"no", "connecting", "connected", "attaching"}]
      /\ \A n \in Nodes : client[n] = <<n, client[n][2]>> /\ client[n][2] \in 0 .. MaxClients
  <2>1. TypesRight'
    BY TypesNext DEF ConnectionInv
  <2> QED
    BY <2>1, ClusterAssumption DEF ConnectionInv, TypesRight, ClientsRight, Clients
<1>2. ASSUME NEW n \in Nodes
      PROVE  \/ made'[n] = made[n] /\ (connecting'[n] = "connecting" => connecting[n] = "connecting")
             \/ made'[n] = made[n] + 1
  <2>1. ASSUME NEW m \in Nodes, Connect(m)
        PROVE  \/ made'[n] = made[n] /\ connecting'[n] = connecting[n]
               \/ made'[n] = made[n] + 1
    BY <1>1, <2>1 DEF Connect
  <2>2. ASSUME NEW m \in Nodes, ConnectSettles(m) \/ Publish(m) \/ Connected(m)
        PROVE  made' = made /\ (connecting'[n] = "connecting" => connecting[n] = "connecting")
    BY <1>1, <2>2 DEF ConnectSettles, Publish, Connected
  <2>3. ASSUME NEW r \in Requests, Request(r) \/ Resume(r) \/ Refuse(r) \/ Withdraw(r) \/ Answer(r)
        PROVE  UNCHANGED <<made, connecting>>
    BY <2>3 DEF Request, Resume, Refuse, Withdraw, Undispatched, Answer
  <2>4. \A m \in Nodes : Ping(m) \/ PingSettles(m) \/ RetireDead(m) => UNCHANGED <<made, connecting>>
    BY DEF Ping, PingSettles, RetireDead
  <2>5. (\E w \in wire : Dispatch(w)) \/ (\E c \in open : ClientFails(c)) \/ Close \/ Closed
          \/ UNCHANGED vars => UNCHANGED <<made, connecting>>
    BY DEF Dispatch, ClientFails, Close, Closed, vars
  <2> QED
    BY <2>1, <2>2, <2>3, <2>4, <2>5 DEF Next, NodeStep
<1>3. ASSUME NEW n \in Nodes
      PROVE  client'[n] \in {client[n], Undefined(n), <<n, made[n]>>}
  <2>1. ASSUME NEW c, RetireOf(c) PROVE client'[n] \in {client[n], Undefined(n)}
    BY <1>1, <2>1 DEF RetireOf
  <2>2. ASSUME NEW r \in Requests, Request(r) \/ Resume(r) \/ Refuse(r) \/ Withdraw(r) \/ Answer(r)
        PROVE  client'[n] \in {client[n], Undefined(n)}
    BY <2>1, <2>2 DEF Request, Resume, Refuse, Withdraw, Undispatched, Answer
  <2>3. ASSUME NEW m \in Nodes, Ping(m) \/ PingSettles(m) \/ ConnectSettles(m) \/ Connected(m)
        PROVE  client'[n] \in {client[n], Undefined(n)}
    BY <2>1, <2>3 DEF Ping, PingSettles, ConnectSettles, Connected
  <2>4. ASSUME NEW m \in Nodes, Connect(m) \/ RetireDead(m)
        PROVE  client'[n] \in {client[n], Undefined(n)}
    BY <1>1, <2>4 DEF Connect, RetireDead
  <2>5. ASSUME NEW m \in Nodes, Publish(m)
        PROVE  client'[n] \in {client[n], <<n, made[n]>>}
    BY <1>1, <2>5 DEF Publish
  <2>6. ASSUME NEW c \in open, ClientFails(c)
        PROVE  client'[n] \in {client[n], Undefined(n)}
    BY <1>1, <2>6 DEF ClientFails
  <2>7. (\E w \in wire : Dispatch(w)) \/ Close \/ Closed \/ UNCHANGED vars
          => client'[n] \in {client[n], Undefined(n)}
    BY DEF Dispatch, Close, Closed, vars
  <2> QED
    BY <2>2, <2>3, <2>4, <2>5, <2>6, <2>7 DEF Next, NodeStep
<1>4. \A n \in Nodes : made[n] \in 0 .. MaxClients /\ client[n][2] <= made[n]
  BY <1>1 DEF NumbersRight
<1>5. ASSUME NEW n \in Nodes PROVE client'[n][2] <= made'[n]
  <2>1. client'[n][2] <= made[n]
    <3>1. Undefined(n)[2] = 0 /\ <<n, made[n]>>[2] = made[n] /\ made[n] \in Nat
      BY <1>1, <1>4 DEF Undefined
    <3> QED
      BY <1>3, <1>4, <3>1
  <2>2. client'[n][2] \in Nat
    BY <1>1 DEF Clients
  <2> QED
    BY <1>2, <1>4, <2>1, <2>2
<1>6. ASSUME NEW r \in Requests, NEW n \in Nodes, NEW i \in 0 .. MaxClients,
             requests'[r].client = <<n, i>>
      PROVE  i <= made'[n] /\ (connecting'[n] = "connecting" => i # made'[n])
  <2>1. requests[r].client = <<n, i>> \/ client[n] = <<n, i>>
    <3>1. requests'[r].client = requests[r].client \/ \E m \in Nodes : requests'[r].client = client[m]
      BY CallsChange DEF ConnectionInv
    <3>2. ASSUME NEW m \in Nodes, client[m] = <<n, i>> PROVE m = n
      BY <1>1, <3>2
    <3> QED
      BY <1>6, <3>1, <3>2
  <2>2. i <= made[n]
    BY <1>4, <2>1 DEF NumbersRight
  <2>3. connecting[n] = "connecting" => i # made[n]
    <3>1. CASE requests[r].client = <<n, i>>
      BY <3>1 DEF NumbersRight
    <3>2. CASE client[n] = <<n, i>>
      BY <3>2 DEF ConnectionInv, ClientsRight, Undefined
    <3> QED
      BY <2>1, <3>1, <3>2
  <2> QED
    BY <1>2, <1>4, <2>2, <2>3
<1> QED
  BY <1>5, <1>6 DEF NumbersRight

\* A client that lost a request stays closed: the one that is opened is new.
LEMMA LostNext ==
  ASSUME ConnectionInv, NumbersRight, LostRight, [Next]_vars
  PROVE  LostRight'
<1>1. TypesRight /\ client \in [Nodes -> Clients]
  BY DEF ConnectionInv, TypesRight
<1> SUFFICES ASSUME NEW r \in Requests, requests'[r].pc = "resumed", requests'[r].result = "lost"
             PROVE  requests'[r].client \notin open'
  BY DEF LostRight
<1>2. \/ requests'[r] = requests[r]
      \/ requests'[r].client = requests[r].client /\ requests[r].pc = "sent" /\ Loses(requests')
  BY <1>1, CallsChange
<1>3. requests[r].client \in Clients /\ requests'[r].client = requests[r].client
  BY <1>1, <1>2 DEF TypesRight, CallsRight
<1>4. ASSUME requests'[r] = requests[r], open' \subseteq open
      PROVE  requests'[r].client \notin open'
  BY <1>4 DEF LostRight
<1>5. ASSUME NEW c, requests' = Lost(c), open' = open \ {c}
      PROVE  requests'[r].client \notin open'
  <2>1. CASE r \in Sent(c)
    BY <1>3, <1>5, <2>1 DEF Sent
  <2>2. CASE r \notin Sent(c)
    <3>1. requests'[r] = requests[r]
      BY <1>1, <1>5, <2>2, LostIs
    <3> QED
      BY <1>4, <1>5, <3>1
  <2> QED
    BY <2>1, <2>2
<1>6. ASSUME NEW c \in open, ClientFails(c) PROVE requests'[r].client \notin open'
  BY <1>5, <1>6 DEF ClientFails
<1>7. ASSUME NEW n \in Nodes, PingSettles(n) PROVE requests'[r].client \notin open'
  <2>1. pings[n][1] = n
    BY <1>7 DEF ConnectionInv, ClientsRight
  <2>2. \/ UNCHANGED <<requests, open>>
        \/ requests' = Lost(pings[n]) /\ open' = open \ {pings[n]}
    BY <1>7, <2>1 DEF PingSettles, RetireOf
  <2>3. CASE UNCHANGED <<requests, open>>
    BY <1>4, <2>3
  <2> QED
    BY <1>5, <2>2, <2>3
<1>8. ASSUME Close PROVE requests'[r].client \notin open'
  <2>1. open' = open \ {client[n] : n \in Nodes}
    BY <1>8 DEF Close
  <2>2. CASE \E n \in Nodes : IsOpen(n) /\ r \in Sent(client[n])
    BY <1>3, <2>1, <2>2 DEF Sent
  <2>3. CASE ~ \E n \in Nodes : IsOpen(n) /\ r \in Sent(client[n])
    <3>1. requests'[r] = requests[r]
      BY <1>8, <2>3 DEF Close
    <3> QED
      BY <1>4, <2>1, <3>1
  <2> QED
    BY <2>2, <2>3
<1>9. ASSUME NEW n \in Nodes, ConnectSettles(n) PROVE requests'[r].client \notin open'
  <2>1. UNCHANGED requests /\ connecting[n] = "connecting" /\ open' \subseteq open \cup {<<n, made[n]>>}
    BY <1>9 DEF ConnectSettles
  <2>2. requests[r].client \notin open
    BY <2>1 DEF LostRight
  <2>3. made[n] \in 0 .. MaxClients
    BY <1>1 DEF TypesRight
  <2>4. requests[r].client # <<n, made[n]>>
    BY <2>1, <2>3 DEF NumbersRight
  <2> QED
    BY <2>1, <2>2, <2>4
<1>10. ASSUME NEW s \in Requests,
              Request(s) \/ Resume(s) \/ Refuse(s) \/ Withdraw(s) \/ Answer(s)
       PROVE  requests'[r].client \notin open'
  <2>1. open' \subseteq open
    BY <1>10 DEF Request, Resume, RetireOf, Refuse, Withdraw, Undispatched, Answer
  <2>2. CASE requests'[r] = requests[r]
    BY <1>4, <2>1, <2>2
  <2>3. CASE requests'[r] # requests[r]
    <3>1. requests[r].pc = "sent" /\ ~Request(s) /\ ~Resume(s)
      <4>1. s # r => ~Request(s) /\ ~Resume(s)
        BY <1>1, <2>3, RequestIs, ResumeIs DEF Others
      <4>2. requests[r].pc = "sent"
        BY <1>2, <2>3
      <4>3. ~Request(r) /\ ~Resume(r)
        BY <4>2 DEF Request, Resume
      <4> QED
        BY <4>1, <4>2, <4>3
    <3>2. PICK result \in {"refused", "error", "answer"} : Resumed(s, result) /\ requests[s].pc = "sent"
      BY <1>10, <3>1 DEF Refuse, Withdraw, Undispatched, Answer
    <3>3. result \in Results \ {"none"}
      BY DEF Results
    <3>4. /\ Others(s)
          /\ requests'[s] = [pc |-> "resumed", client |-> requests[s].client,
                             tried |-> requests[s].tried, result |-> result,
                             outcome |-> requests[s].outcome]
      BY <1>1, <3>2, <3>3, ResumedTypes
    <3>5. requests'[s].result # "lost"
      BY <3>4
    <3> QED
      BY <2>3, <3>4, <3>5 DEF Others
  <2> QED
    BY <2>2, <2>3
<1>11. \A n \in Nodes : Ping(n) \/ Connect(n) \/ Publish(n) \/ Connected(n) \/ RetireDead(n)
         => UNCHANGED requests /\ open' \subseteq open
  BY DEF Ping, Connect, Publish, Connected, RetireDead
<1>12. (\E w \in wire : Dispatch(w)) \/ Closed \/ UNCHANGED vars
         => UNCHANGED requests /\ open' \subseteq open
  BY DEF Dispatch, Closed, vars
<1> QED
  BY <1>4, <1>6, <1>7, <1>8, <1>9, <1>10, <1>11, <1>12 DEF Next, NodeStep

\* Only its own failure, its own health check and close() end a node's open client.
LEMMA OpenClientStays ==
  ASSUME ConnectionInv, LostRight, [Next]_vars, NEW n \in Nodes, IsOpen(n)
  PROVE  \/ client'[n] = client[n] /\ client[n] \in open'
         \/ ClientFails(client[n])
         \/ pings[n] = client[n] /\ PingSettles(n)
         \/ Close
<1> DEFINE Stays == client'[n] = client[n] /\ client[n] \in open'
<1>1. /\ client \in [Nodes -> Clients] /\ client[n] \in open /\ client[n] # Undefined(n)
      /\ client[n][1] = n /\ ~(stopped /\ closing = "closed")
  BY DEF ConnectionInv, TypesRight, ClientsRight, IsOpen, Undefined
<1>2. ASSUME NEW c, c # client[n], c \notin open \/ c[1] # n, RetireOf(c) PROVE Stays
  BY <1>1, <1>2 DEF RetireOf
<1>3. ASSUME NEW r \in Requests, Resume(r) PROVE Stays
  <2>1. CASE requests[r].result = "lost"
    <3>1. requests[r].client \notin open /\ RetireOf(requests[r].client)
      BY <1>3, <2>1 DEF Resume, LostRight
    <3> QED
      BY <1>1, <1>2, <3>1
  <2>2. CASE requests[r].result # "lost"
    BY <1>1, <1>3, <2>2 DEF Resume
  <2> QED
    BY <2>1, <2>2
<1>4. ASSUME NEW c \in open, ClientFails(c) PROVE Stays \/ ClientFails(client[n])
  <2>1. CASE c = client[n]
    BY <1>4, <2>1
  <2>2. CASE c # client[n]
    BY <1>1, <1>4, <2>2 DEF ClientFails
  <2> QED
    BY <2>1, <2>2
<1>5. ASSUME NEW m \in Nodes, PingSettles(m)
      PROVE  Stays \/ (pings[n] = client[n] /\ PingSettles(n))
  <2>1. pings[m][1] = m
    BY DEF ConnectionInv, ClientsRight
  <2>2. CASE m = n /\ pings[n] = client[n]
    BY <1>5, <2>2
  <2>3. CASE m # n \/ pings[n] # client[n]
    <3>1. RetireOf(pings[m]) \/ UNCHANGED <<client, open>>
      BY <1>5 DEF PingSettles
    <3> QED
      BY <1>1, <2>1, <2>3, <3>1 DEF RetireOf
  <2> QED
    BY <2>2, <2>3
<1>6. ASSUME NEW m \in Nodes, Connect(m) \/ RetireDead(m) PROVE Stays
  <2>1. m # n /\ client' = [client EXCEPT ![m] = Undefined(m)] /\ UNCHANGED open
    BY <1>6 DEF Connect, MayConnect, RetireDead
  <2> QED
    BY <1>1, <2>1
<1>7. ASSUME NEW m \in Nodes, Publish(m) PROVE Stays
  <2>1. m # n
    BY <1>1, <1>7 DEF Publish, ConnectionInv, ClientsRight
  <2> QED
    BY <1>1, <1>7, <2>1 DEF Publish
<1>8. ASSUME NEW m \in Nodes, Ping(m) \/ ConnectSettles(m) \/ Connected(m) PROVE Stays
  BY <1>1, <1>8 DEF Ping, ConnectSettles, Connected
<1>9. ASSUME NEW r \in Requests, Request(r) \/ Refuse(r) \/ Withdraw(r) \/ Answer(r) PROVE Stays
  BY <1>1, <1>9 DEF Request, Refuse, Withdraw, Undispatched, Answer
<1>10. ~Closed
  BY <1>1 DEF Closed, ConnectionInv, ClientsRight, stopped
<1>11. (\E w \in wire : Dispatch(w)) \/ UNCHANGED vars => Stays
  BY <1>1 DEF Dispatch, vars
<1> QED
  BY <1>3, <1>4, <1>5, <1>6, <1>7, <1>8, <1>9, <1>10, <1>11 DEF Next, NodeStep

-----------------------------------------------------------------------------
(* The theorems.                                                           *)

\* Nothing is connected, sent or loaded at first.
LEMMA ClusterInit ==
  ASSUME Init
  PROVE  ClusterInv
<1>1. TypesRight
  <2>1. \A n \in Nodes : Undefined(n) \in Clients
    BY ClusterAssumption DEF Undefined, Clients
  <2>2. 0 \in 0 .. MaxClients /\ 0 \in Int
    BY ClusterAssumption
  <2>3. CallsRight(requests)
    <3> DEFINE q == [pc |-> "new", client |-> <<>>, tried |-> {}, result |-> "none", outcome |-> "none"]
    <3>1. q \in Calls /\ q.pc = "new" /\ q.result = "none"
      BY DEF Calls, Results, Outcomes
    <3>2. requests = [r \in Requests |-> q]
      BY DEF Init
    <3> HIDE DEF q
    <3> QED
      BY <3>1, <3>2 DEF CallsRight
  <2> QED
    BY <2>1, <2>2, <2>3 DEF Init, TypesRight
<1>2. ClientsRight /\ ClosedLeavesNothing
  BY DEF Init, ClientsRight, ClosedLeavesNothing, Undefined, stopped
<1>3. LoadRight
  <2>1. \A n \in Nodes : ActiveAt(n) = {} /\ PingAt(n) = 0 /\ pending[n] = 0
    BY DEF Init, ActiveAt, Active, PingAt
  <2> HIDE DEF ActiveAt, PingAt
  <2> QED
    BY <2>1, FS_EmptySet, ClusterAssumption DEF LoadRight
<1>4. WhereRight
  <2>1. wire \cup dispatched = {} /\ dispatched = {} /\ wire = {}
    BY DEF Init
  <2>2. \A r \in Requests : Brokers({}, r) = {}
    BY DEF Brokers
  <2>3. \A r \in Requests : requests[r].pc = "new" /\ requests[r].outcome = "none"
    BY DEF Init
  <2> QED
    BY <2>1, <2>2, <2>3 DEF WhereRight, WhereAt
<1> QED
  BY <1>1, <1>2, <1>3, <1>4 DEF ClusterInv, ConnectionInv

\* The invariant of ClusterClient, for any number of brokers, requests and clients.
LEMMA ClusterInvariant == Spec => []ClusterInv
<1>1. Init => ClusterInv
  BY ClusterInit
<1>2. ClusterInv /\ [Next]_vars => ClusterInv'
  BY ConnectionNext, LoadNext, WhereNext DEF ClusterInv
<1> QED
  BY <1>1, <1>2, PTL DEF Spec

\* However many brokers, clients and retries there are, a request is dispatched by one
\* broker at most.  An error that says it was not sent is true, a response is from the
\* broker that dispatched it, and after any other error of a broker no broker will.
THEOREM DispatchesOnce == Spec => []DispatchedOnce
<1>1. ClusterInv => DispatchedOnce
  <2> SUFFICES ASSUME ClusterInv, NEW r \in Requests
               PROVE  /\ Cardinality(Brokers(wire \cup dispatched, r)) <= 1
                      /\ requests[r].outcome \in {"refused", "deadline", "busy", "unavailable"}
                           => Brokers(wire \cup dispatched, r) = {}
                      /\ requests[r].outcome = "answer"
                           => Brokers(dispatched, r) = {requests[r].client}
                      /\ requests[r].outcome \notin {"none", "ambiguous"}
                           => Brokers(wire, r) = {}
    BY DEF DispatchedOnce
  <2>1. WhereAt(requests[r], Brokers(wire \cup dispatched, r), Brokers(dispatched, r))
    BY DEF ClusterInv, WhereRight
  <2>2. requests[r].pc \in {"new", "sent", "resumed", "settled"}
    BY DEF ClusterInv, ConnectionInv, TypesRight, CallsRight, Calls
  <2>3. Brokers(wire \cup dispatched, r) \subseteq {requests[r].client}
    BY <2>1, <2>2 DEF WhereAt
  <2>4. Brokers(wire \cup dispatched, r) = {} \/ Brokers(wire \cup dispatched, r) = {requests[r].client}
    BY <2>3
  <2>5. Cardinality(Brokers(wire \cup dispatched, r)) \in {0, 1}
    BY <2>4, FS_EmptySet, FS_Singleton
  <2>6. ASSUME requests[r].outcome \notin {"none", "ambiguous"}
        PROVE  Brokers(wire, r) = {}
    <3>1. Brokers(wire \cup dispatched, r) = Brokers(dispatched, r)
      <4>1. Brokers(dispatched, r) \subseteq Brokers(wire \cup dispatched, r)
        BY DEF Brokers
      <4>2. requests[r].outcome \in NotSent \cup {"answer", "error"}
        BY <2>6 DEF ClusterInv, ConnectionInv, TypesRight, CallsRight, Calls, Outcomes, NotSent
      <4> QED
        BY <2>1, <2>3, <4>1, <4>2 DEF WhereAt, NotSent
    <3>2. /\ wire \subseteq Requests \X Clients /\ dispatched \subseteq Requests \X Clients
          /\ wire \cup dispatched \subseteq Requests \X Clients /\ wire \cap dispatched = {}
      BY DEF ClusterInv, ConnectionInv, TypesRight, WhereRight
    <3>3. ASSUME NEW c \in Brokers(wire, r) PROVE FALSE
      <4>1. <<r, c>> \in wire
        BY <3>2, BrokersAre
      <4>2. c \in Brokers(wire \cup dispatched, r)
        BY <3>2, <4>1, BrokersAre
      <4>3. <<r, c>> \in dispatched
        BY <3>1, <3>2, <4>2, BrokersAre
      <4> QED
        BY <3>2, <4>1, <4>3
    <3> QED
      BY <3>3
  <2> QED
    BY <2>1, <2>5, <2>6 DEF WhereAt
<1> QED
  BY <1>1, ClusterInvariant, PTL

\* The load by which choose() picks a node is exactly what the node has still to settle,
\* and no client is ever given more than its transport takes.
THEOREM LoadsAreExact == Spec => []LoadIsExact
<1>1. ClusterInv => LoadIsExact
  <2> SUFFICES ASSUME ClusterInv PROVE LoadIsExact
    OBVIOUS
  <2>1. TypesRight /\ ClientsRight /\ LoadRight
    BY DEF ClusterInv, ConnectionInv
  <2>2. ASSUME NEW n \in Nodes
        PROVE  /\ IsFiniteSet(ActiveAt(n)) /\ Cardinality(ActiveAt(n)) \in Nat
               /\ pending[n] = Cardinality(ActiveAt(n)) + PingAt(n) /\ pending[n] <= Cap
               /\ PingAt(n) \in Nat
    BY <2>1, FS_CardinalityType DEF LoadRight, PingAt
  <2>3. pending \in [Nodes -> 0 .. Cap]
    <3>1. \A n \in Nodes : pending[n] \in 0 .. Cap
      BY <2>2, ClusterAssumption
    <3> QED
      BY <2>1, <3>1 DEF TypesRight
  <2>4. TypeOK
    <3>1. \A r \in Requests :
             /\ requests[r].pc \in {"new", "sent", "resumed", "settled"}
             /\ requests[r].tried \subseteq Nodes
             /\ requests[r].result \in Results
             /\ requests[r].outcome \in Outcomes
      BY <2>1 DEF TypesRight, CallsRight, Calls
    <3> QED
      BY <2>1, <2>3, <3>1 DEF TypeOK, TypesRight
  <2>5. \A n \in Nodes :
          pending[n] = Cardinality({r \in Active : requests[r].client[1] = n})
                         + (IF pings[n] # Undefined(n) THEN 1 ELSE 0)
    BY <2>2 DEF ActiveAt, PingAt
  <2>6. ASSUME NEW c \in open
        PROVE  Cardinality(Sent(c)) + (IF pings[c[1]] = c THEN 1 ELSE 0) <= Cap
    <3>1. c[1] \in Nodes /\ c[2] # 0
      BY <2>1 DEF TypesRight, ClientsRight, Clients
    <3>2. Sent(c) \subseteq ActiveAt(c[1])
      BY DEF Sent, ActiveAt, Active
    <3>3. IsFiniteSet(Sent(c)) /\ Cardinality(Sent(c)) <= Cardinality(ActiveAt(c[1]))
      BY <2>2, <3>1, <3>2, FS_Subset
    <3>4. Cardinality(Sent(c)) \in Nat
      BY <3>3, FS_CardinalityType
    <3>5. pings[c[1]] = c => PingAt(c[1]) = 1
      BY <3>1 DEF PingAt, Undefined
    <3>6. /\ Cardinality(ActiveAt(c[1])) \in Nat /\ PingAt(c[1]) \in Nat
          /\ Cardinality(ActiveAt(c[1])) + PingAt(c[1]) <= Cap
      BY <2>2, <3>1
    <3> HIDE DEF ActiveAt, PingAt
    <3>7. CASE pings[c[1]] = c
      BY <3>3, <3>4, <3>5, <3>6, <3>7, ClusterAssumption
    <3>8. CASE pings[c[1]] # c
      BY <3>3, <3>4, <3>6, <3>8, ClusterAssumption
    <3> QED
      BY <3>7, <3>8
  <2> QED
    BY <2>4, <2>5, <2>6 DEF LoadIsExact
<1> QED
  BY <1>1, ClusterInvariant, PTL

\* Every open connection has an owner that will close it, and when close() resolves none is
\* open: not one that was being made, and not one that failed as it was published.
THEOREM CloseLeavesNothing == Spec => []ClosedLeavesNothing
<1>1. ClusterInv => ClosedLeavesNothing
  BY DEF ClusterInv, ConnectionInv
<1> QED
  BY <1>1, ClusterInvariant, PTL

\* A node's open client is ended by its own failure, by its own health check or by
\* close(), and never by what an earlier client of the node still had under way.
THEOREM NewClientsAreSpared == Spec => NewClientSpared
<1>1. Init => NumbersRight /\ LostRight
  <2> SUFFICES ASSUME Init PROVE NumbersRight /\ LostRight
    OBVIOUS
  <2>1. \A r \in Requests : requests[r].client = <<>> /\ requests[r].pc = "new"
    BY DEF Init
  <2>2. \A n \in Nodes : client[n][2] = 0 /\ made[n] = 0
    BY DEF Init, Undefined
  <2> QED
    BY <2>1, <2>2 DEF NumbersRight, LostRight
<1>2. ConnectionInv /\ NumbersRight /\ LostRight /\ [Next]_vars => NumbersRight' /\ LostRight'
  BY NumbersNext, LostNext
<1>3. ASSUME ConnectionInv, LostRight, [Next]_vars
      PROVE  [\A n \in Nodes :
                IsOpen(n) =>
                  \/ client'[n] = client[n] /\ client[n] \in open'
                  \/ ClientFails(client[n])
                  \/ pings[n] = client[n] /\ PingSettles(n)
                  \/ Close]_vars
  BY <1>3, OpenClientStays
<1>4. ClusterInv => ConnectionInv
  BY DEF ClusterInv
<1> QED
  BY <1>1, <1>2, <1>3, <1>4, ClusterInvariant, PTL DEF Spec, NewClientSpared

=============================================================================
