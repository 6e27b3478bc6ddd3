---------------------------- MODULE UdpExchange ----------------------------
(***************************************************************************)
(* cammon_send_udp_and_recv, called by several threads, and the simulator  *)
(* (or a device) that answers, over a network that loses, delays, reorders *)
(* and duplicates datagrams.  Nothing in a datagram is compared with what  *)
(* was sent: an answer belongs to a call because it comes to its port.     *)
(***************************************************************************)
EXTENDS Integers, Sequences, FiniteSets

CONSTANTS
  Clients,    \* threads
  Servo,      \* servo frames
  Camera,     \* standard frames
  Odd,        \* datagrams the simulator cannot parse
  Ports,      \* ephemeral ports
  None,
  Mode,       \* of the simulator: "plain", "noReply", "ackAll" or "echoAll"
  Limit,      \* what the kernel queues for a port
  Flight,     \* bound: how many datagrams are under way; what is more is lost
  Fresh,      \* does the kernel keep a port back while a datagram for it is under way?
  Timeouts,   \* may timeout_ms be positive (TRUE), zero or less (FALSE)?
  Failures    \* of "socket", "host", "sendto"

Requests == Servo \cup Camera \cup Odd

ASSUME ExchangeAssumption ==
  /\ Servo \cap Camera = {} /\ Servo \cap Odd = {} /\ Camera \cap Odd = {}
  /\ None \notin Requests \cup Ports
  /\ Mode \in {"plain", "noReply", "ackAll", "echoAll"}
  /\ Limit \in Nat /\ Flight \in Nat
  /\ Fresh \in BOOLEAN
  /\ Timeouts \subseteq BOOLEAN
  /\ Failures \subseteq {"socket", "host", "sendto"}

VARIABLES
  pc,         \* pc[c]: "idle", "made", "waiting", "close"
  request,    \* request[c]: what c sends, until it is answered or given up
  timed,      \* timed[c]: SO_RCVTIMEO is set
  open,       \* the threads whose socket is open
  port,       \* port[c]: the port of its socket, or None
  result,     \* result[c]: the bytes or the code its call returns
  over,       \* history: the requests of calls that sent them and have returned
  queue,      \* queue[p]: what the kernel has for port p
  network,    \* datagrams under way
  sim         \* the datagram the simulator works on, or None

clientVars == <<pc, request, timed, open, port, result, over>>
vars == <<clientVars, queue, network, sim>>

\* A datagram: to or from the simulator, at which port, and what is in it.
Outgoing(p, r) == [to |-> "sim", port |-> p, body |-> r]
Incoming(p, b) == [to |-> "client", port |-> p, body |-> b]

\* What is under way once the datagrams of S are sent.
Sent(S) == IF Cardinality(network) < Flight THEN network \cup S ELSE network

\* The codes of the paths that fail; errno is not told apart.
NoSocket == [code |-> -1]
BadHost == [code |-> -2]
NotSent == [code |-> -3]
NotReceived == [code |-> -10]
Unsent == {NoSocket, BadHost, NotSent}
Errors == Unsent \cup {NotReceived}

\* What ServerSimulator sends back: the servo frame, a standard frame with
\* the function code of the request and 0x80, or the raw bytes.
Echo(r) == [is |-> "echo", of |-> r]
Ack(r) == [is |-> "ack", of |-> r]
Answers(r) == {Echo(r), Ack(r)}

Init ==
  /\ pc = [c \in Clients |-> "idle"]
  /\ request = [c \in Clients |-> None]
  /\ timed = [c \in Clients |-> FALSE]
  /\ open = {}
  /\ port = [c \in Clients |-> None]
  /\ result = [c \in Clients |-> None]
  /\ over = {}
  /\ queue = [p \in Ports |-> <<>>]
  /\ network = {}
  /\ sim = None

---------------------------------------------------------------------------
(* The calling threads.                                                    *)

\* A call returns x and leaves its socket to be closed.
Returns(c, x) ==
  /\ result' = [result EXCEPT ![c] = x]
  /\ request' = [request EXCEPT ![c] = None]
  /\ over' = IF x \in Unsent THEN over ELSE over \cup {request[c]}
  /\ pc' = [pc EXCEPT ![c] = "close"]

\* The call is over, and with it its locals.
Leave(c) ==
  /\ pc' = [pc EXCEPT ![c] = "idle"]
  /\ timed' = [timed EXCEPT ![c] = FALSE]

\* cammon_send_camera_command, _packet and _servo_command build the frame;
\* without a socket there is nothing to close.
Call(c) ==
  /\ pc[c] = "idle"
  /\ \E r \in Requests, t \in Timeouts :
       /\ request' = [request EXCEPT ![c] = r]
       /\ timed' = [timed EXCEPT ![c] = t]
  /\ pc' = [pc EXCEPT ![c] = "made"]
  /\ result' = [result EXCEPT ![c] = None]
  /\ UNCHANGED <<open, port, over, queue, network, sim>>

NoSocketLeft(c) ==
  /\ pc[c] = "made" /\ "socket" \in Failures
  /\ result' = [result EXCEPT ![c] = NoSocket]
  /\ request' = [request EXCEPT ![c] = None]
  /\ Leave(c)
  /\ UNCHANGED <<open, port, over, queue, network, sim>>

\* Fault: every socket is bound to a port of the library's own, with SO_REUSEADDR.
Free_shared == Ports

\* The ports sendto may give a socket that is bound to none: those of no open
\* socket.  Whether a datagram of an earlier call is still under way to a port
\* is nothing that the kernel asks, unless Fresh.
Free ==
  {p \in Ports \ {port[c] : c \in Clients} :
     Fresh => (\A m \in network : m.port # p) /\ (sim # None => sim.port # p)}

\* socket, inet_pton and sendto.
Send(c) ==
  /\ pc[c] = "made"
  /\ open' = open \cup {c}
  /\ \/ "host" \in Failures /\ Returns(c, BadHost) /\ UNCHANGED <<port, network>>
     \/ "sendto" \in Failures /\ Returns(c, NotSent) /\ UNCHANGED <<port, network>>
     \/ \E p \in Free :
          /\ port' = [port EXCEPT ![c] = p]
          /\ network' = Sent({Outgoing(p, request[c])})
          /\ pc' = [pc EXCEPT ![c] = "waiting"]
          /\ UNCHANGED <<request, result, over>>
  /\ UNCHANGED <<timed, queue, sim>>

\* The first datagram that comes to the port is the answer.
Recv(c) ==
  /\ pc[c] = "waiting"
  /\ queue[port[c]] # <<>>
  /\ Returns(c, Head(queue[port[c]]))
  /\ queue' = [queue EXCEPT ![port[c]] = Tail(@)]
  /\ UNCHANGED <<timed, open, port, network, sim>>

\* Fault: the timeout is set after recvfrom.
Timeout_late(c) ==
  /\ pc[c] = "waiting" /\ queue[port[c]] # <<>>
  /\ timed[c]
  /\ Returns(c, NotReceived)
  /\ UNCHANGED <<timed, open, port, queue, network, sim>>

\* recvfrom gives up, if it was told to.
Timeout(c) ==
  /\ pc[c] = "waiting"
  /\ timed[c]
  /\ Returns(c, NotReceived)
  /\ UNCHANGED <<timed, open, port, queue, network, sim>>

\* Fault: the path of a host that is none returns without close.
Close_not_after_host(c) ==
  /\ pc[c] = "close"
  /\ Leave(c)
  /\ open' = IF result[c] = BadHost THEN open ELSE open \ {c}
  /\ port' = [port EXCEPT ![c] = None]
  /\ queue' = [p \in Ports |-> IF p = port[c] THEN <<>> ELSE queue[p]]
  /\ result' = [result EXCEPT ![c] = None]
  /\ UNCHANGED <<request, over, network, sim>>

\* close: what the kernel still had for the port is gone.  The caller has what
\* it was returned.
Close(c) ==
  /\ pc[c] = "close"
  /\ Leave(c)
  /\ open' = open \ {c}
  /\ port' = [port EXCEPT ![c] = None]
  /\ queue' = [p \in Ports |-> IF p = port[c] THEN <<>> ELSE queue[p]]
  /\ result' = [result EXCEPT ![c] = None]
  /\ UNCHANGED <<request, over, network, sim>>

---------------------------------------------------------------------------
(* The network and the simulator.                                          *)

\* A datagram is lost, or a copy of it was all there was.
Lose(m) ==
  /\ network' = network \ {m}
  /\ UNCHANGED <<clientVars, queue, sim>>

\* An answer reaches its port, again and again if it is duplicated.  If
\* nobody has the port, or its queue is full, it is lost.
Deliver(m) ==
  /\ m.to = "client"
  /\ m.port \in {port[c] : c \in Clients} /\ Len(queue[m.port]) < Limit
  /\ queue' = [queue EXCEPT ![m.port] = Append(@, m.body)]
  /\ network' \in {network, network \ {m}}
  /\ UNCHANGED <<clientVars, sim>>

SimReceive(m) ==
  /\ sim = None /\ m.to = "sim"
  /\ sim' = m
  /\ network' \in {network, network \ {m}}
  /\ UNCHANGED <<clientVars, queue>>

\* What the simulator sends for the datagram it has, if it sends anything.
Reply(r) ==
  IF Mode = "echoAll" \/ (r \in Odd /\ Mode = "ackAll") THEN {Incoming(sim.port, Echo(r))}
  ELSE IF r \in Odd \/ Mode = "noReply" THEN {}
  ELSE IF r \in Servo THEN {Incoming(sim.port, Echo(r))}
  ELSE {Incoming(sim.port, Ack(r))}

SimAnswer ==
  /\ sim # None
  /\ network' = Sent(Reply(sim.body))
  /\ sim' = None
  /\ UNCHANGED <<clientVars, queue>>

Client(c) == Call(c) \/ NoSocketLeft(c) \/ Send(c) \/ Recv(c) \/ Timeout(c) \/ Close(c)

Next ==
  \/ \E c \in Clients : Client(c)
  \/ \E m \in network : Lose(m) \/ Deliver(m) \/ SimReceive(m)
  \/ SimAnswer

Spec == Init /\ [][Next]_vars

\* The scheduler runs a thread that is inside a call; nothing is promised of
\* the network or of the simulator.
FairSpec ==
  Spec /\ \A c \in Clients : WF_vars(NoSocketLeft(c) \/ Send(c) \/ Recv(c) \/ Timeout(c) \/ Close(c))

---------------------------------------------------------------------------
(* Properties.                                                             *)

\* No path of a call keeps its socket, those that fail before a port is given
\* included; no two calls share a port, and nothing is queued for a closed one.
SocketsAreReturned ==
  /\ \A c \in open : pc[c] \in {"waiting", "close"}
  /\ \A c \in Clients : port[c] # None => c \in open
  /\ \A c, d \in Clients : port[c] # None /\ port[c] = port[d] => c = d
  /\ \A p \in Ports : queue[p] # <<>> => \E c \in Clients : port[c] = p

\* A call never returns what another call under way is to be told, though
\* neither the sequence number nor the sender of an answer is looked at.  It may
\* return the late or duplicated answer to a call that is over, whose port the
\* kernel has given it: only where ports are Fresh is the answer its own.
Abstract ==
  INSTANCE RequestReply WITH
    Late <- ~Fresh,
    asking <- [c \in Clients |-> IF pc[c] \in {"made", "waiting"} THEN request[c] ELSE None]

ImplementsRequestReply == Abstract!Spec

\* A call with a positive timeout returns, whatever is lost.
TimedCallsReturn ==
  \A c \in Clients : pc[c] # "idle" /\ timed[c] ~> pc[c] = "idle"
=============================================================================
