-------------------------- MODULE UdpExchange_proofs --------------------------
(***************************************************************************)
(* Theorems about UdpExchange, for any number of threads and ports, any    *)
(* requests, any queue and every mode of the simulator, and for a kernel    *)
(* that keeps ports back and one that does not.  The invariant follows a   *)
(* port: everything on its way from or to it belongs to the call that      *)
(* waits on it or to one that is over; to the waiting one alone, if ports  *)
(* are kept back.                                                          *)
(***************************************************************************)
EXTENDS UdpExchange, TLAPS

Pcs == {"idle", "made", "waiting", "close"}
Bodies == UNION {Answers(r) : r \in Requests}

Types ==
  /\ pc \in [Clients -> Pcs]
  /\ request \in [Clients -> Requests \cup {None}]
  /\ port \in [Clients -> Ports \cup {None}]
  /\ queue \in [Ports -> Seq(Bodies)]
  /\ open \subseteq Clients
  /\ over \subseteq Requests
  /\ \A m \in network : m.to \in {"sim", "client"} /\ m.port \in Ports
  /\ sim # None => sim.port \in Ports

\* The port of c is open, and c waits on it.
Calling ==
  \A c \in Clients :
    /\ pc[c] \in {"made", "waiting"} => request[c] \in Requests
    /\ pc[c] = "waiting" => port[c] \in Ports
    /\ pc[c] \in {"idle", "made"} => port[c] = None

\* The requests that a datagram to or from port p may belong to.
Waiting(p) == {request[c] : c \in {d \in Clients : pc[d] = "waiting" /\ port[d] = p}}
Sources(p) == Waiting(p) \cup over

\* Datagram m carries request r or an answer to it.
Suits(m, r) ==
  /\ m.to = "sim" => m.body = r
  /\ m.to = "client" => m.body \in Answers(r)

\* Datagram m belongs to one of the requests of S.
Belongs(m, S) == \E r \in S : Suits(m, r)

Origin ==
  /\ \A m \in network : Belongs(m, Sources(m.port))
  /\ sim # None => sim.body \in Sources(sim.port)
  /\ \A p \in Ports : \A i \in 1..Len(queue[p]) : \E r \in Sources(p) : queue[p][i] \in Answers(r)

Own ==
  Fresh => \A c \in Clients : pc[c] = "waiting" =>
    /\ \A m \in network : m.port = port[c] => Suits(m, request[c])
    /\ sim # None /\ sim.port = port[c] => sim.body = request[c]
    /\ \A i \in 1..Len(queue[port[c]]) : queue[port[c]][i] \in Answers(request[c])

\* What the simulator takes from the network and sends is well-formed.
Formed ==
  /\ \A m \in network : m.to = "client" => m.body \in Bodies
  /\ \A m \in network : m.to = "sim" => m.body \in Requests
  /\ sim # None => sim.body \in Requests

Inductive == Types /\ Calling /\ SocketsAreReturned /\ Origin /\ Own /\ Formed

LEMMA InitInductive == Init => Inductive
BY ExchangeAssumption
   DEF Init, Inductive, Types, Calling, SocketsAreReturned, Origin, Own, Formed, Pcs, Errors, Unsent

\* What the simulator sends belongs to what it was sent.
LEMMA RepliesBelong ==
  ASSUME sim # None, sim.body \in Requests, NEW m \in Reply(sim.body)
  PROVE  m.to = "client" /\ m.port = sim.port /\ m.body \in Answers(sim.body)
BY DEF Reply, Incoming, Answers

\* No call of a thread takes a request from those a datagram may belong to.
LEMMA SourcesStay ==
  ASSUME Inductive, NEW c \in Clients, Client(c), NEW p \in Ports, NEW r \in Sources(p)
  PROVE  r \in Sources(p)'
<1> USE DEF Inductive, Types, Calling, Pcs
<1>1. over \subseteq over'
  BY DEF Client, Call, NoSocketLeft, Send, Recv, Timeout, Close, Returns
<1>2. CASE r \in over
  BY <1>1, <1>2 DEF Sources
<1>3. CASE r \in Waiting(p)
  <2>1. PICK d \in Clients : pc[d] = "waiting" /\ port[d] = p /\ r = request[d]
    BY <1>3 DEF Waiting
  <2>2. CASE d # c
    <3>1. pc'[d] = "waiting" /\ port'[d] = p /\ request'[d] = r
      BY <2>1, <2>2 DEF Client, Call, NoSocketLeft, Send, Recv, Timeout, Close, Returns, Leave
    <3> QED BY <3>1 DEF Sources, Waiting
  <2>3. CASE d = c
    <3>1. \E x \in Bodies \cup {NotReceived} : Returns(c, x)
      <4>1. CASE Recv(c)
        <5>1. Len(queue[port[c]]) \in Nat /\ 1 \in 1..Len(queue[port[c]])
              /\ Head(queue[port[c]]) = queue[port[c]][1] /\ queue[port[c]][1] \in Bodies
          BY <2>1, <2>3, <4>1 DEF Recv
        <5> QED BY <4>1, <5>1 DEF Recv
      <4>2. CASE Timeout(c)
        BY <4>2 DEF Timeout
      <4> QED BY <2>1, <2>3, <4>1, <4>2 DEF Client, Call, NoSocketLeft, Send, Close
    <3>2. PICK x \in Bodies \cup {NotReceived} : Returns(c, x)
      BY <3>1
    <3>3. x \notin Unsent
      BY <3>2 DEF Bodies, Answers, Echo, Ack, NotReceived, Unsent, NoSocket, BadHost, NotSent
    <3>4. r \in over'
      BY <2>1, <2>3, <3>2, <3>3 DEF Returns
    <3> QED BY <3>4 DEF Sources
  <2> QED BY <2>2, <2>3
<1> QED BY <1>2, <1>3 DEF Sources

\* What belongs to one of some requests belongs to one of more.
LEMMA BelongsToMore ==
  ASSUME NEW m, NEW S, NEW T, S \subseteq T, Belongs(m, S) PROVE Belongs(m, T)
BY DEF Belongs

\* The datagrams that were there still belong where they did.
LEMMA OriginStays ==
  ASSUME Inductive, NEW c \in Clients, Client(c)
  PROVE  /\ \A m \in network : Belongs(m, Sources(m.port)')
         /\ \A p \in Ports : sim # None /\ sim.port = p => sim.body \in Sources(p)'
         /\ \A p \in Ports : \A i \in 1..Len(queue[p]) :
              \E r \in Sources(p)' : queue[p][i] \in Answers(r)
<1>1. \A p \in Ports : Sources(p) \subseteq Sources(p)'
  BY SourcesStay
<1>2. \A m \in network : Sources(m.port) \subseteq Sources(m.port)'
  BY <1>1 DEF Inductive, Types
<1>3. \A m \in network : Belongs(m, Sources(m.port)')
  BY <1>2, BelongsToMore DEF Inductive, Origin
<1>4. \A p \in Ports : sim # None /\ sim.port = p => sim.body \in Sources(p)'
  BY <1>1 DEF Inductive, Types, Origin
<1>5. \A p \in Ports : \A i \in 1..Len(queue[p]) :
        \E r \in Sources(p)' : queue[p][i] \in Answers(r)
  BY <1>1 DEF Inductive, Origin
<1> QED BY <1>3, <1>4, <1>5

\* A call that leaves the network, the simulator and the queues alone, or takes
\* from a queue, leaves Origin.
LEMMA QuietOrigin ==
  ASSUME Inductive, NEW c \in Clients, Client(c), UNCHANGED <<network, sim>>,
         \A p \in Ports : queue'[p] \in {queue[p], <<>>} \/ (queue[p] # <<>> /\ queue'[p] = Tail(queue[p]))
  PROVE  Origin'
<1>1. \A m \in network' : Belongs(m, Sources(m.port)')
  BY OriginStays
<1>3. ASSUME NEW p \in Ports, NEW i \in 1..Len(queue'[p])
      PROVE  \E r \in Sources(p)' : queue'[p][i] \in Answers(r)
  <2>0. queue[p] \in Seq(Bodies) /\ \A k \in 1..Len(queue[p]) : \E r \in Sources(p)' : queue[p][k] \in Answers(r)
    BY OriginStays DEF Inductive, Types
  <2>1. CASE queue'[p] = queue[p]
    BY <2>0, <2>1, <1>3
  <2>2. CASE queue'[p] = <<>>
    BY <2>2, <1>3
  <2>3. CASE queue[p] # <<>> /\ queue'[p] = Tail(queue[p])
    <3>1. i + 1 \in 1..Len(queue[p]) /\ queue'[p][i] = queue[p][i + 1]
      BY <1>3, <2>0, <2>3
    <3> QED BY <2>0, <3>1
  <2> QED BY <2>1, <2>2, <2>3
<1>4. sim' # None => sim'.body \in Sources(sim.port)'
  BY OriginStays DEF Inductive, Types
<1> QED BY <1>1, <1>3, <1>4 DEF Origin

LEMMA ClientInductive ==
  ASSUME Inductive, NEW c \in Clients, Client(c) PROVE Inductive'
<1> USE ExchangeAssumption DEF Inductive, Types, Calling, SocketsAreReturned, Pcs, Errors, Unsent
<1>1. CASE Call(c)
  <2>1. Origin'
    BY <1>1, QuietOrigin DEF Call
  <2>5. Types' /\ Calling' /\ Formed'
    BY <1>1, <2>1 DEF Call, Formed
  <2>6. SocketsAreReturned'
    BY <1>1, <2>1 DEF Call
  <2>7. Own'
    BY <1>1, <2>1 DEF Call, Own
  <2> QED BY <2>1, <2>5, <2>6, <2>7
<1>2. CASE NoSocketLeft(c)
  <2>1. Origin'
    BY <1>2, QuietOrigin DEF NoSocketLeft
  <2> QED BY <1>2, <2>1 DEF NoSocketLeft, Leave, Own, Formed
<1>3. CASE Send(c)
  <2>1. CASE UNCHANGED <<port, network>> /\ (Returns(c, BadHost) \/ Returns(c, NotSent))
    <3>1. Origin'
      BY <1>3, <2>1, QuietOrigin DEF Send
    <3>2. Types' /\ Calling' /\ Formed'
      <4>1. UNCHANGED over
        BY <2>1 DEF Returns
      <4>2. pc' = [pc EXCEPT ![c] = "close"] /\ request' = [request EXCEPT ![c] = None]
        BY <2>1 DEF Returns
      <4>3. Types'
        BY <1>3, <2>1, <4>1, <4>2 DEF Send
      <4>4. Calling' /\ Formed'
        BY <1>3, <2>1, <4>2 DEF Send, Formed
      <4> QED BY <4>3, <4>4
    <3>3. SocketsAreReturned'
      BY <1>3, <2>1 DEF Send, Returns
    <3>4. Own'
      BY <1>3, <2>1 DEF Send, Returns, Own
    <3> QED BY <3>1, <3>2, <3>3, <3>4
  <2>2. ASSUME NEW p \in Free,
               port' = [port EXCEPT ![c] = p],
               network' = Sent({Outgoing(p, request[c])}),
               pc' = [pc EXCEPT ![c] = "waiting"],
               UNCHANGED <<request, result, over>>
        PROVE  Inductive'
    <3> DEFINE out == Outgoing(p, request[c])
    <3>1. p \in Ports /\ queue[p] = <<>> /\ \A d \in Clients : port[d] # p
      BY <2>2 DEF Free
    <3>2. Fresh => (\A m \in network : m.port # p) /\ (sim # None => sim.port # p)
      BY <2>2 DEF Free
    <3>3. out.to = "sim" /\ out.port = p /\ out.body = request[c] /\ request[c] \in Requests
      BY <1>3 DEF Outgoing, Send
    <3>4. \A m \in network' : m \in network \/ m = out
      BY <2>2 DEF Sent
    <3>5. Types' /\ Calling' /\ Formed'
      <4>1. \A m \in network' : m.to \in {"sim", "client"} /\ m.port \in Ports
        BY <3>1, <3>3, <3>4
      <4>2. Types'
        BY <1>3, <2>2, <3>1, <4>1 DEF Send
      <4>3. Calling'
        BY <1>3, <2>2, <3>1 DEF Send
      <4>4. Formed'
        BY <1>3, <3>3, <3>4 DEF Send, Formed
      <4> QED BY <4>2, <4>3, <4>4
    <3>6. SocketsAreReturned'
      BY <1>3, <2>2, <3>1 DEF Send
    <3>7. request[c] \in Sources(p)'
      BY <2>2 DEF Sources, Waiting
    <3>8. Belongs(Outgoing(p, request[c]), Sources(p)')
      BY <3>3, <3>7 DEF Belongs, Suits
    <3>9. UNCHANGED <<sim, queue>>
      BY <1>3 DEF Send
    <3>10. Origin'
      <4>1. \A m \in network' : Belongs(m, Sources(m.port)')
        BY <3>3, <3>4, <3>8, OriginStays
      <4>2. sim' # None => sim'.body \in Sources(sim.port)'
        BY <3>9, OriginStays
      <4>3. \A q \in Ports : \A i \in 1..Len(queue'[q]) : \E r \in Sources(q)' : queue'[q][i] \in Answers(r)
        BY <3>9, OriginStays
      <4> QED BY <4>1, <4>2, <4>3 DEF Origin
    <3>11. Own'
      <4>1. ASSUME Fresh, NEW d \in Clients, pc'[d] = "waiting", d # c
            PROVE  pc[d] = "waiting" /\ port'[d] = port[d] /\ port[d] # p /\ request'[d] = request[d]
        BY <2>2, <3>1, <4>1
      <4>2. ASSUME Fresh, NEW d \in Clients, pc'[d] = "waiting", d # c
            PROVE  /\ \A m \in network' : m.port = port'[d] => Suits(m, request'[d])
                   /\ sim' # None /\ sim'.port = port'[d] => sim'.body = request'[d]
                   /\ \A i \in 1..Len(queue'[port'[d]]) : queue'[port'[d]][i] \in Answers(request'[d])
        BY <3>3, <3>4, <3>9, <4>1, <4>2 DEF Own
      <4>3. pc'[c] = "waiting" /\ port'[c] = p /\ request'[c] = request[c]
        BY <2>2
      <4>4. ASSUME Fresh
            PROVE  /\ \A m \in network' : m.port = p => Suits(m, request[c])
                   /\ ~(sim' # None /\ sim'.port = p)
                   /\ Len(queue'[p]) = 0
        BY <3>1, <3>2, <3>3, <3>4, <3>9, <4>4 DEF Belongs, Suits
      <4>5. Fresh => /\ \A m \in network' : m.port = port'[c] => Suits(m, request'[c])
                     /\ sim' # None /\ sim'.port = port'[c] => sim'.body = request'[c]
                     /\ \A i \in 1..Len(queue'[port'[c]]) : queue'[port'[c]][i] \in Answers(request'[c])
        BY <4>3, <4>4
      <4> QED BY <4>2, <4>5 DEF Own
    <3> QED BY <3>5, <3>6, <3>10, <3>11
  <2> QED BY <1>3, <2>1, <2>2 DEF Send
<1>4. CASE Recv(c)
  <2>1. Len(queue[port[c]]) \in Nat /\ 1 \in 1..Len(queue[port[c]])
        /\ Head(queue[port[c]]) = queue[port[c]][1] /\ queue[port[c]][1] \in Bodies
    BY <1>4 DEF Recv
  <2>2. Origin'
    BY <1>4, QuietOrigin DEF Recv
  <2>3. over' \subseteq Requests
    BY <1>4 DEF Recv, Returns
  <2>5. Types' /\ Calling' /\ Formed'
    BY <1>4, <2>2, <2>3 DEF Recv, Returns, Formed
  <2>6. SocketsAreReturned'
    BY <1>4, <2>2, <2>3 DEF Recv, Returns
  <2>7. Own'
    BY <1>4, <2>2, <2>3 DEF Recv, Returns, Own
  <2> QED BY <2>2, <2>3, <2>5, <2>6, <2>7
<1>5. CASE Timeout(c)
  <2>1. Origin'
    BY <1>5, QuietOrigin DEF Timeout
  <2> QED BY <1>5, <2>1 DEF Timeout, Returns, Own, Formed
<1>6. CASE Close(c)
  <2>1. Origin'
    BY <1>6, QuietOrigin DEF Close
  <2>5. Types' /\ Calling' /\ Formed'
    BY <1>6, <2>1 DEF Close, Leave, Formed
  <2>6. SocketsAreReturned'
    BY <1>6, <2>1 DEF Close, Leave
  <2>7. Own'
    BY <1>6, <2>1 DEF Close, Leave, Own
  <2> QED BY <2>1, <2>5, <2>6, <2>7
<1> QED BY <1>1, <1>2, <1>3, <1>4, <1>5, <1>6 DEF Client

\* The network and the simulator leave the calls alone.
LEMMA SourcesUnchanged ==
  ASSUME UNCHANGED clientVars, NEW p PROVE Sources(p)' = Sources(p)
BY DEF clientVars, Sources, Waiting

LEMMA NetworkInductive ==
  ASSUME Inductive, NEW m \in network, Lose(m) \/ Deliver(m) \/ SimReceive(m)
  PROVE  Inductive'
<1> USE ExchangeAssumption DEF Inductive, Types, Calling, SocketsAreReturned, Pcs
<1>0. UNCHANGED clientVars
  BY DEF Lose, Deliver, SimReceive
<1>1. network' \subseteq network
  BY DEF Lose, Deliver, SimReceive
<1>2. \A n \in network' : Belongs(n, Sources(n.port)')
  BY <1>0, <1>1, SourcesUnchanged DEF Origin
<1>3. m.port \in Ports /\ Sources(m.port)' = Sources(m.port) /\ Belongs(m, Sources(m.port))
  BY <1>0, SourcesUnchanged DEF Origin
<1>4. \A p \in Ports : Sources(p)' = Sources(p)
  BY <1>0, SourcesUnchanged
<1>5. CASE Lose(m)
  <2>1. Origin'
    BY <1>2, <1>4, <1>5 DEF Lose, Origin
  <2> QED BY <1>5, <2>1 DEF Lose, Own, Formed, clientVars
<1>6. CASE Deliver(m)
  <2>1. m.to = "client" /\ m.body \in Bodies
    BY <1>6 DEF Deliver, Formed
  <2>2. queue'[m.port] = Append(queue[m.port], m.body) /\ \A p \in Ports \ {m.port} : queue'[p] = queue[p]
    BY <1>3, <1>6 DEF Deliver
  <2>3. Types' /\ Formed' /\ Calling' /\ SocketsAreReturned'
    BY <1>3, <1>6, <2>1, <2>2 DEF Deliver, Formed, clientVars
  <2>4. ASSUME NEW i \in 1..Len(queue'[m.port])
        PROVE  \/ queue'[m.port][i] = m.body
               \/ i \in 1..Len(queue[m.port]) /\ queue'[m.port][i] = queue[m.port][i]
    <3>1. queue[m.port] \in Seq(Bodies)
      BY <1>3
    <3> QED BY <2>1, <2>2, <2>4, <3>1
  <2>5. \E r \in Sources(m.port) : m.body \in Answers(r)
    BY <1>3, <2>1 DEF Belongs, Suits
  <2>6. \A p \in Ports : \A i \in 1..Len(queue'[p]) : \E r \in Sources(p)' : queue'[p][i] \in Answers(r)
    <3>1. ASSUME NEW i \in 1..Len(queue'[m.port])
          PROVE  \E r \in Sources(m.port) : queue'[m.port][i] \in Answers(r)
      BY <1>3, <2>4, <2>5, <3>1 DEF Origin
    <3>2. ASSUME NEW p \in Ports \ {m.port}, NEW i \in 1..Len(queue'[p])
          PROVE  \E r \in Sources(p) : queue'[p][i] \in Answers(r)
      BY <2>2, <3>2 DEF Origin
    <3> QED BY <1>4, <3>1, <3>2
  <2>7. Origin'
    BY <1>2, <1>4, <1>6, <2>6 DEF Deliver, Origin
  <2>8. Own'
    <3>1. ASSUME Fresh, NEW d \in Clients, pc[d] = "waiting", port[d] = m.port
          PROVE  \A i \in 1..Len(queue'[m.port]) : queue'[m.port][i] \in Answers(request[d])
      <4>1. m.body \in Answers(request[d])
        BY <2>1, <3>1 DEF Own, Suits
      <4>2. \A i \in 1..Len(queue[m.port]) : queue[m.port][i] \in Answers(request[d])
        BY <3>1 DEF Own
      <4>3. ASSUME NEW i \in 1..Len(queue'[m.port]) PROVE queue'[m.port][i] \in Answers(request[d])
        <5>1. CASE queue'[m.port][i] = m.body
          BY <4>1, <5>1
        <5>2. CASE i \in 1..Len(queue[m.port]) /\ queue'[m.port][i] = queue[m.port][i]
          BY <4>2, <5>2
        <5> QED BY <2>4, <4>3, <5>1, <5>2
      <4> QED BY <4>3
    <3>2. UNCHANGED <<pc, port, request, sim>>
      BY <1>6 DEF Deliver, clientVars
    <3>3. ASSUME Fresh, NEW d \in Clients, pc[d] = "waiting"
          PROVE  \A i \in 1..Len(queue'[port[d]]) : queue'[port[d]][i] \in Answers(request[d])
      <4>1. CASE port[d] = m.port
        BY <3>1, <3>3, <4>1
      <4>2. CASE port[d] \in Ports \ {m.port}
        BY <2>2, <3>3, <4>2 DEF Own
      <4> QED BY <3>3, <4>1, <4>2
    <3>4. ASSUME Fresh, NEW d \in Clients, pc[d] = "waiting"
          PROVE  /\ \A n \in network' : n.port = port[d] => Suits(n, request[d])
                 /\ sim # None /\ sim.port = port[d] => sim.body = request[d]
      BY <1>1, <3>4 DEF Own
    <3> QED BY <3>2, <3>3, <3>4 DEF Own
  <2> QED BY <2>3, <2>7, <2>8
<1>7. CASE SimReceive(m)
  <2>1. m.to = "sim" /\ m.body \in Sources(m.port)
    BY <1>3, <1>7 DEF SimReceive, Belongs, Suits
  <2>2. Origin'
    BY <1>2, <1>3, <1>4, <1>7, <2>1 DEF SimReceive, Origin
  <2>3. Own'
    BY <1>1, <1>7, <2>1 DEF SimReceive, Own, Suits, clientVars
  <2> QED BY <1>7, <2>1, <2>2, <2>3 DEF SimReceive, Formed, clientVars
<1> QED BY <1>5, <1>6, <1>7

LEMMA AnswerInductive == ASSUME Inductive, SimAnswer PROVE Inductive'
<1> USE DEF Inductive, Types, Calling, SocketsAreReturned, Pcs
<1>1. \A m \in Reply(sim.body) :
        m.to = "client" /\ m.port = sim.port /\ m.body \in Answers(sim.body)
  BY RepliesBelong DEF SimAnswer, Formed
<1>2. \A m \in network' : m \in network \/ m \in Reply(sim.body)
  BY DEF SimAnswer, Sent
<1>3. UNCHANGED clientVars /\ UNCHANGED queue /\ sim' = None
  BY DEF SimAnswer
<1>4. sim.port \in Ports /\ sim.body \in Sources(sim.port)
  BY DEF SimAnswer, Origin
<1>5. \A m \in network' : Belongs(m, Sources(m.port))
  BY <1>1, <1>2, <1>4 DEF Origin, Belongs, Suits
<1>6. Origin'
  BY <1>3, <1>5, SourcesUnchanged DEF Origin
<1>7. Own'
  BY <1>1, <1>2, <1>3 DEF SimAnswer, Own, Suits, clientVars
<1>8. Formed' /\ Types'
  BY <1>1, <1>2, <1>3 DEF SimAnswer, Formed, Bodies, clientVars
<1> QED BY <1>3, <1>6, <1>7, <1>8 DEF clientVars

LEMMA InductiveInvariant == Spec => []Inductive
<1>1. Inductive /\ [Next]_vars => Inductive'
  <2>1. ASSUME Inductive, UNCHANGED vars PROVE Inductive'
    <3>1. UNCHANGED clientVars
      BY <2>1 DEF vars
    <3>2. \A p : Sources(p)' = Sources(p)
      BY <3>1, SourcesUnchanged
    <3>3. Origin'
      BY <2>1, <3>2 DEF vars, Inductive, Origin
    <3> QED BY <2>1, <3>3 DEF vars, clientVars, Inductive, Types, Calling, SocketsAreReturned, Own, Formed
  <2> QED BY <2>1, ClientInductive, NetworkInductive, AnswerInductive DEF Next
<1> QED BY <1>1, InitInductive, PTL DEF Spec

\* No path of a call keeps its socket, and no two calls share a port.
THEOREM SocketsReturned == Spec => []SocketsAreReturned
<1>1. Inductive => SocketsAreReturned
  BY DEF Inductive
<1> QED BY <1>1, InductiveInvariant, PTL

-------------------------------------------------------------------------------
(* The refinement: a call is answered when recvfrom has an answer, and fails *)
(* when it leaves for the close.                                             *)

LEMMA ReturnStep ==
  ASSUME Inductive, NEW c \in Clients, pc[c] \in {"made", "waiting"}, NEW label \in {"idle", "close"},
         NEW x \in Errors \cup Bodies,
         x \in Errors \cup Answers(request[c]) \/ (~Fresh /\ \E r \in over : x \in Answers(r)),
         result' = [result EXCEPT ![c] = x],
         over' = (IF x \in Unsent THEN over ELSE over \cup {request[c]}),
         pc' = [pc EXCEPT ![c] = label],
         \A d \in Clients \ {c} : request'[d] = request[d]
  PROVE  Abstract!Next
<1>1. request[c] \in Requests /\ request[c] # None
  BY ExchangeAssumption DEF Inductive, Calling
<1>2. Abstract!Return(c, x)
  BY <1>1 DEF Abstract!Return, Abstract!Acceptable, Inductive, Types, Pcs
<1>3. x \in (UNION {Answers(r) : r \in Requests}) \cup Errors
  BY DEF Bodies
<1> QED BY <1>2, <1>3 DEF Abstract!Next

LEMMA ClientStep ==
  ASSUME Inductive, NEW c \in Clients, Client(c) PROVE [Abstract!Next]_Abstract!replyVars
<1> USE ExchangeAssumption DEF Inductive, Types, Pcs
<1>1. CASE Call(c)
  <2>1. PICK r \in Requests : request' = [request EXCEPT ![c] = r]
    BY <1>1 DEF Call
  <2>2. Abstract!Ask(c, r)
    BY <1>1, <2>1 DEF Call, Abstract!Ask
  <2> QED BY <2>2 DEF Abstract!Next
<1>2. CASE NoSocketLeft(c)
  BY <1>2, ReturnStep DEF NoSocketLeft, Leave, Errors, Unsent
<1>3. CASE Send(c)
  <2>1. CASE Returns(c, BadHost) \/ Returns(c, NotSent)
    BY <1>3, <2>1, ReturnStep DEF Send, Returns, Errors, Unsent
  <2>2. CASE pc' = [pc EXCEPT ![c] = "waiting"] /\ UNCHANGED <<request, result, over>>
    BY <1>3, <2>2 DEF Send, Abstract!replyVars
  <2> QED BY <1>3, <2>1, <2>2 DEF Send
<1>4. CASE Recv(c)
  <2> DEFINE p == port[c]
  <2>1. p \in Ports /\ Len(queue[p]) \in Nat /\ 1 \in 1..Len(queue[p])
        /\ Head(queue[p]) = queue[p][1] /\ queue[p][1] \in Bodies
    BY <1>4 DEF Recv, Calling
  <2>2. PICK r \in Sources(p) : Head(queue[p]) \in Answers(r)
    BY <2>1 DEF Origin
  <2>3. r = request[c] \/ r \in over
    BY <1>4, <2>1, <2>2 DEF Recv, Sources, Waiting, SocketsAreReturned
  <2>4. Fresh => Head(queue[p]) \in Answers(request[c])
    BY <1>4, <2>1 DEF Recv, Own
  <2> QED BY <1>4, <2>1, <2>2, <2>3, <2>4, ReturnStep DEF Recv, Returns
<1>5. CASE Timeout(c)
  BY <1>5, ReturnStep DEF Timeout, Returns, Errors
<1>6. CASE Close(c)
  <2>1. Abstract!Take(c)
    BY <1>6 DEF Close, Leave, Abstract!Take
  <2> QED BY <2>1 DEF Abstract!Next
<1> QED BY <1>1, <1>2, <1>3, <1>4, <1>5, <1>6 DEF Client

\* A call returns a code, an answer to its own request, or, if the kernel gives
\* out ports again while datagrams for them are under way, one to the request
\* of a call that is over: never the answer that another waiting call is owed.
THEOREM ExchangeImplementsRequestReply == Spec => ImplementsRequestReply
<1>1. Init => Abstract!Init
  BY ExchangeAssumption DEF Init, Abstract!Init
<1>2. Inductive /\ [Next]_vars => [Abstract!Next]_Abstract!replyVars
  <2>1. ASSUME UNCHANGED clientVars PROVE UNCHANGED Abstract!replyVars
    BY <2>1 DEF clientVars, Abstract!replyVars
  <2>2. ASSUME NEW m \in network, Lose(m) \/ Deliver(m) \/ SimReceive(m) PROVE UNCHANGED clientVars
    BY <2>2 DEF Lose, Deliver, SimReceive
  <2>3. SimAnswer \/ UNCHANGED vars => UNCHANGED clientVars
    BY DEF SimAnswer, vars
  <2> QED BY <2>1, <2>2, <2>3, ClientStep DEF Next
<1> QED BY <1>1, <1>2, InductiveInvariant, PTL DEF Spec, ImplementsRequestReply, Abstract!Spec
===============================================================================
