------------------------- MODULE MulticastReceiver -------------------------
(***************************************************************************)
(* class MulticastReceiver, its thread and the application thread that     *)
(* owns it, in a process where other code opens and closes sockets too: a  *)
(* number that was closed is given out again.                              *)
(***************************************************************************)
EXTENDS Integers, Sequences, FiniteSets

CONSTANTS
  Fds,        \* descriptor numbers
  Reports,    \* datagrams that deserialize as a report
  Others,     \* datagrams that do not
  Empty,      \* a datagram without bytes
  None,       \* no datagram, no owner
  Limit,      \* what the kernel queues for a socket
  Failures,   \* of "iface", "socket", "bind", "join", "thread": what may fail
  Orders      \* of "reinit", "abandon", "restart": calls the owner does not avoid

INVALID_SOCKET == -1
Datagrams == Reports \cup Others \cup {Empty}

ASSUME ReceiverAssumption ==
  /\ Fds \subseteq Nat
  /\ None \notin Datagrams \cup {"receiver", "other", "raw", "report"}
  /\ Empty \notin Reports \cup Others
  /\ Reports \cap Others = {}
  /\ Limit \in Nat
  /\ Failures \subseteq {"iface", "socket", "bind", "join", "thread"}
  /\ Orders \subseteq {"reinit", "abandon", "restart"}

VARIABLES
  sock_, initialized_, running_,   \* members, as in the class
  handlers,   \* which of "raw" and "report" are set
  owner,      \* owner[fd]: who holds the descriptor, or None
  bound,      \* descriptors that receive from the multicast port
  queue,      \* queue[fd]: what the kernel has for it
  app,        \* where the owner is: "idle", or in init or stop
  thread,     \* "none", "test", "recv", "raw", "report", "ended"
  arg,        \* the descriptor the thread passed to recvfrom
  held        \* the datagram in the thread's buffer

members == <<sock_, initialized_, running_>>
kernel == <<owner, bound, queue>>
threadVars == <<thread, arg, held>>
vars == <<members, handlers, kernel, app, threadVars>>

Init ==
  /\ sock_ = INVALID_SOCKET /\ initialized_ = FALSE /\ running_ = FALSE
  /\ handlers = {}
  /\ owner = [fd \in Fds |-> None]
  /\ bound = {}
  /\ queue = [fd \in Fds |-> <<>>]
  /\ app = "idle"
  /\ thread = "none" /\ arg = INVALID_SOCKET /\ held = None

---------------------------------------------------------------------------
(* The kernel.                                                             *)

\* socket(): the lowest number that is free.
NewFd(fd, who) ==
  /\ owner[fd] = None
  /\ \A g \in Fds : g < fd => owner[g] # None
  /\ owner' = [owner EXCEPT ![fd] = who]

\* closesocket(fd): whoever holds the number loses it.
Close(fd) ==
  /\ owner' = [owner EXCEPT ![fd] = None]
  /\ bound' = bound \ {fd}
  /\ queue' = [queue EXCEPT ![fd] = <<>>]

\* A datagram comes to the port; a full queue drops it.
Arrive(fd, d) ==
  /\ fd \in bound /\ Len(queue[fd]) < Limit
  /\ queue' = [queue EXCEPT ![fd] = Append(@, d)]
  /\ UNCHANGED <<members, handlers, owner, bound, app, threadVars>>

\* Other code of the process.
OtherOpens ==
  /\ \E fd \in Fds : NewFd(fd, "other")
  /\ UNCHANGED <<members, handlers, bound, queue, app, threadVars>>

OtherCloses ==
  /\ \E fd \in Fds : owner[fd] = "other" /\ Close(fd)
  /\ UNCHANGED <<members, handlers, app, threadVars>>

---------------------------------------------------------------------------
(* The owner.  Joinable: thread_ stands for a thread that was not joined.  *)

Joinable == thread # "none"

Allowed(order) == order \in Orders

\* Both setters, called while no thread reads the members.
setHandlers ==
  /\ app = "idle" /\ ~Joinable
  /\ handlers' \in SUBSET {"raw", "report"}
  /\ UNCHANGED <<members, kernel, app, threadVars>>

\* init: no interface was found, or socket() failed; sock_ is overwritten then.
InitFails ==
  /\ app = "idle"
  /\ sock_ # INVALID_SOCKET \/ running_ => Allowed("reinit")
  /\ \/ "iface" \in Failures /\ UNCHANGED sock_
     \/ "socket" \in Failures /\ sock_' = INVALID_SOCKET
  /\ UNCHANGED <<initialized_, running_, handlers, kernel, app, threadVars>>

InitSocket ==
  /\ app = "idle"
  /\ sock_ # INVALID_SOCKET \/ running_ => Allowed("reinit")
  /\ \E fd \in Fds : NewFd(fd, "receiver") /\ sock_' = fd
  /\ app' = "bind"
  /\ UNCHANGED <<initialized_, running_, handlers, bound, queue, threadVars>>

\* Fault: a failed bind that forgets to close.
InitBind_leaks ==
  /\ app = "bind"
  /\ \/ bound' = bound \cup {sock_} /\ app' = "join_group" /\ UNCHANGED <<owner, queue, sock_>>
     \/ "bind" \in Failures /\ sock_' = INVALID_SOCKET /\ app' = "idle" /\ UNCHANGED kernel
  /\ UNCHANGED <<initialized_, running_, handlers, threadVars>>

\* bind, or the end of init when it fails.
InitBind ==
  /\ app = "bind"
  /\ \/ /\ bound' = bound \cup {sock_}
        /\ app' = "join_group"
        /\ UNCHANGED <<owner, queue, sock_>>
     \/ /\ "bind" \in Failures
        /\ Close(sock_)
        /\ sock_' = INVALID_SOCKET
        /\ app' = "idle"
  /\ UNCHANGED <<initialized_, running_, handlers, threadVars>>

InitJoin ==
  /\ app = "join_group"
  /\ \/ /\ initialized_' = TRUE
        /\ UNCHANGED <<sock_, kernel>>
     \/ /\ "join" \in Failures
        /\ Close(sock_)
        /\ sock_' = INVALID_SOCKET
        /\ UNCHANGED initialized_
  /\ app' = "idle"
  /\ UNCHANGED <<running_, handlers, threadVars>>

\* start; std::thread may throw, with running_ set.
start ==
  /\ app = "idle"
  /\ initialized_ /\ ~running_
  /\ sock_ = INVALID_SOCKET => Allowed("restart")
  /\ running_' = TRUE
  /\ \/ thread' = "test"
     \/ "thread" \in Failures /\ UNCHANGED thread
  /\ UNCHANGED <<sock_, initialized_, handlers, kernel, app, arg, held>>

\* Fault: a stop that closes the socket to wake the thread, and joins it then.
StopFlag_closes ==
  /\ app = "idle"
  /\ running_
  /\ running_' = FALSE
  /\ IF sock_ # INVALID_SOCKET THEN Close(sock_) ELSE UNCHANGED kernel
  /\ app' = "join"
  /\ UNCHANGED <<sock_, initialized_, handlers, threadVars>>

\* stop, and the destructor's call of it, up to the join.
StopFlag ==
  /\ app = "idle"
  /\ running_
  /\ running_' = FALSE
  /\ app' = "join"
  /\ UNCHANGED <<sock_, initialized_, handlers, kernel, threadVars>>

\* Fault: a stop that detaches its thread.
StopJoin_detaches ==
  /\ app = "join"
  /\ app' = "close"
  /\ UNCHANGED <<members, handlers, kernel, threadVars>>

StopJoin ==
  /\ app = "join"
  /\ thread \in {"none", "ended"}
  /\ thread' = "none"
  /\ app' = "close"
  /\ UNCHANGED <<members, handlers, kernel, arg, held>>

\* The group is left with the socket.
StopClose ==
  /\ app = "close"
  /\ IF initialized_ /\ sock_ # INVALID_SOCKET
     THEN Close(sock_) /\ sock_' = INVALID_SOCKET
     ELSE UNCHANGED <<sock_, kernel>>
  /\ app' = "idle"
  /\ UNCHANGED <<initialized_, running_, handlers, threadVars>>


\* The object dies when the destructor's stop has nothing to do, and another
\* is constructed.
Renew ==
  /\ app = "idle" /\ ~running_
  /\ sock_ # INVALID_SOCKET => Allowed("abandon")
  /\ sock_' = INVALID_SOCKET /\ initialized_' = FALSE
  /\ handlers' = {}
  /\ UNCHANGED <<running_, kernel, app, threadVars>>

---------------------------------------------------------------------------
(* receiverThreadFunc.                                                     *)

\* The test of running_, and the read of sock_ for recvfrom.
ThreadTest ==
  /\ thread = "test"
  /\ IF running_ THEN thread' = "recv" /\ arg' = sock_
     ELSE thread' = "ended" /\ UNCHANGED arg
  /\ UNCHANGED <<members, handlers, kernel, app, held>>

\* recvfrom gives a datagram.  One without bytes is for nobody.
ThreadRecv ==
  /\ thread = "recv" /\ arg \in bound
  /\ queue[arg] # <<>>
  /\ held' = Head(queue[arg])
  /\ queue' = [queue EXCEPT ![arg] = Tail(@)]
  /\ thread' = IF held' # Empty /\ "raw" \in handlers THEN "raw"
               ELSE IF held' \in Reports /\ "report" \in handlers THEN "report"
               ELSE "test"
  /\ UNCHANGED <<sock_, initialized_, running_, handlers, owner, bound, app, arg>>

\* SO_RCVTIMEO, or an error: the loop goes on at once.
ThreadNothing ==
  /\ thread = "recv"
  /\ arg \in bound => queue[arg] = <<>>
  /\ thread' = "test"
  /\ UNCHANGED <<members, handlers, kernel, app, arg, held>>

\* The raw handler returns and parseReceivedPacket looks at the datagram.
ThreadRaw ==
  /\ thread = "raw"
  /\ thread' = IF held \in Reports /\ "report" \in handlers THEN "report" ELSE "test"
  /\ UNCHANGED <<members, handlers, kernel, app, arg, held>>

\* Fault: a loop that reads running_ only when nothing was received.
ThreadReport_loops ==
  /\ thread = "report"
  /\ thread' = "recv"
  /\ UNCHANGED <<members, handlers, kernel, app, arg, held>>

ThreadReport ==
  /\ thread = "report"
  /\ thread' = "test"
  /\ UNCHANGED <<members, handlers, kernel, app, arg, held>>

Thread == ThreadTest \/ ThreadRecv \/ ThreadNothing \/ ThreadRaw \/ ThreadReport
Owner ==
  \/ setHandlers \/ InitFails \/ InitSocket \/ InitBind \/ InitJoin
  \/ start \/ StopFlag \/ StopJoin \/ StopClose \/ Renew

Next ==
  \/ Thread \/ Owner \/ OtherOpens \/ OtherCloses
  \/ \E fd \in Fds, d \in Datagrams : Arrive(fd, d)

Spec == Init /\ [][Next]_vars

\* The scheduler runs both threads; recvfrom times out; handlers return.  A
\* call that has begun goes on, and nothing else is promised.
FairSpec == Spec /\ WF_vars(Thread) /\ WF_vars(InitBind \/ InitJoin \/ StopJoin \/ StopClose)

---------------------------------------------------------------------------
(* Properties.                                                             *)

\* The types: what the members, the kernel and the thread may hold.
TypeOK ==
  /\ sock_ \in Fds \cup {INVALID_SOCKET}
  /\ initialized_ \in BOOLEAN /\ running_ \in BOOLEAN
  /\ handlers \subseteq {"raw", "report"}
  /\ owner \in [Fds -> {None, "receiver", "other"}]
  /\ bound \subseteq Fds
  /\ queue \in [Fds -> Seq(Datagrams)]
  /\ app \in {"idle", "bind", "join_group", "join", "close"}
  /\ thread \in {"none", "test", "recv", "raw", "report", "ended"}
  /\ arg \in Fds \cup {INVALID_SOCKET}
  /\ held \in Datagrams \cup {None}

\* Whatever fails on the way, every socket init opened is in sock_, and
\* sock_ names no socket of other code: stop closes the right one.
NoSocketLost ==
  \A fd \in Fds : owner[fd] = "receiver" <=> fd = sock_

\* While the thread may be in recvfrom the descriptor it passed is the
\* receiver's: stop does not close it, and nobody else is given its number,
\* before the thread has ended.
ThreadUsesOwnSocket ==
  thread = "recv" /\ arg # INVALID_SOCKET => arg = sock_ /\ owner[arg] = "receiver"

\* init, stop and the thread implement the mailbox: no datagram is handled
\* twice or out of order, a report reaches the report handler after the raw
\* one, and no handler runs after stop.
Feed ==
  INSTANCE ReportFeed WITH
    open <- sock_ \in bound,
    inbox <- IF sock_ \in bound THEN queue[sock_] ELSE <<>>,
    calling <- IF thread \in {"raw", "report"} THEN thread ELSE None,
    datagram <- IF thread \in {"raw", "report"} THEN held ELSE None

ImplementsFeed == Feed!Spec

\* stop returns: the thread looks at running_ at least every second, and
\* under any number of datagrams.
StopReturns == app = "join" ~> app = "idle"

============================================================================
