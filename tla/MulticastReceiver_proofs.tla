----------------------- MODULE MulticastReceiver_proofs -----------------------
(***************************************************************************)
(* Theorems about MulticastReceiver, for any number of descriptors and any *)
(* datagrams.  All but type correctness are about owners that do not call  *)
(* init twice and do not drop a receiver that was initialised and never    *)
(* started (Careful): what these two do is in the README.                  *)
(***************************************************************************)
EXTENDS MulticastReceiver, TLAPS

Careful == Orders \subseteq {"restart"}

\* closesocket, of whatever sock_ holds.
KernelTypes ==
  /\ owner \in [Fds -> {None, "receiver", "other"}]
  /\ bound \subseteq Fds
  /\ queue \in [Fds -> Seq(Datagrams)]

LEMMA CloseTypes ==
  ASSUME KernelTypes, NEW fd, Close(fd)
  PROVE  KernelTypes'
<1>1. <<>> \in Seq(Datagrams)
  OBVIOUS
<1>2. queue' \in [Fds -> Seq(Datagrams)]
  BY <1>1 DEF Close, KernelTypes
<1>3. owner' \in [Fds -> {None, "receiver", "other"}] /\ bound' \subseteq Fds
  BY DEF Close, KernelTypes
<1> QED BY <1>2, <1>3 DEF KernelTypes

\* While init binds, sock_ holds the socket it has just opened.
Opening == app = "bind" => sock_ \in Fds

LEMMA OpeningInductive == TypeOK /\ Opening /\ [Next]_vars => Opening'
BY DEF Opening, Next, vars, Thread, ThreadTest, ThreadRecv, ThreadNothing, ThreadRaw, ThreadReport,
       Owner, setHandlers, InitFails, InitSocket, InitBind, InitJoin, start, StopFlag, StopJoin,
       StopClose, Renew, OtherOpens, OtherCloses, Arrive, NewFd, members, kernel, threadVars

LEMMA TypeInductive == TypeOK /\ Opening /\ [Next]_vars => TypeOK'
<1> SUFFICES ASSUME TypeOK, Opening, [Next]_vars PROVE TypeOK'
  OBVIOUS
<1> USE ReceiverAssumption DEF TypeOK, Datagrams
<1>1. CASE UNCHANGED vars
  BY <1>1 DEF vars, members, kernel, threadVars
<1>2. CASE Thread
  <2>1. CASE ThreadTest
    BY <2>1 DEF ThreadTest, members, kernel
  <2>2. CASE ThreadRecv
    <3>1. arg \in Fds /\ queue[arg] \in Seq(Datagrams) /\ queue[arg] # <<>>
      BY <2>2 DEF ThreadRecv
    <3>2. Head(queue[arg]) \in Datagrams /\ Tail(queue[arg]) \in Seq(Datagrams)
      BY <3>1
    <3>3. queue' \in [Fds -> Seq(Datagrams)] /\ held' \in Datagrams
      BY <2>2, <3>1, <3>2 DEF ThreadRecv
    <3> QED BY <2>2, <3>3 DEF ThreadRecv
  <2>3. CASE ThreadNothing
    BY <2>3 DEF ThreadNothing, members, kernel
  <2>4. CASE ThreadRaw
    BY <2>4 DEF ThreadRaw, members, kernel
  <2>5. CASE ThreadReport
    BY <2>5 DEF ThreadReport, members, kernel
  <2> QED BY <1>2, <2>1, <2>2, <2>3, <2>4, <2>5 DEF Thread
<1>3. CASE Owner
  <2>1. CASE setHandlers
    BY <2>1 DEF setHandlers, members, kernel, threadVars
  <2>2. CASE InitFails
    BY <2>2 DEF InitFails, kernel, threadVars
  <2>3. CASE InitSocket
    BY <2>3 DEF InitSocket, NewFd, threadVars
  <2>4. CASE InitBind
    <3>1. KernelTypes'
      BY <2>4, CloseTypes DEF InitBind, KernelTypes, Opening
    <3> QED BY <2>4, <3>1 DEF InitBind, KernelTypes, threadVars
  <2>5. CASE InitJoin
    <3>1. KernelTypes'
      BY <2>5, CloseTypes DEF InitJoin, KernelTypes, kernel
    <3> QED BY <2>5, <3>1 DEF InitJoin, KernelTypes, threadVars
  <2>6. CASE start
    BY <2>6 DEF start, kernel
  <2>7. CASE StopFlag
    BY <2>7 DEF StopFlag, kernel, threadVars
  <2>8. CASE StopJoin
    BY <2>8 DEF StopJoin, members, kernel
  <2>9. CASE StopClose
    <3>1. KernelTypes'
      BY <2>9, CloseTypes DEF StopClose, KernelTypes, kernel
    <3> QED BY <2>9, <3>1 DEF StopClose, KernelTypes, threadVars
  <2>10. CASE Renew
    BY <2>10 DEF Renew, kernel, threadVars
  <2> QED BY <1>3, <2>1, <2>2, <2>3, <2>4, <2>5, <2>6, <2>7, <2>8, <2>9, <2>10 DEF Owner
<1>4. CASE OtherOpens
  BY <1>4 DEF OtherOpens, NewFd, members, threadVars
<1>5. CASE OtherCloses
  BY <1>5 DEF OtherCloses, Close, members, threadVars
<1>6. ASSUME NEW fd \in Fds, NEW d \in Datagrams, Arrive(fd, d) PROVE TypeOK'
  <2>1. Append(queue[fd], d) \in Seq(Datagrams)
    BY <1>6
  <2> QED BY <1>6, <2>1 DEF Arrive, members, threadVars
<1> QED BY <1>1, <1>2, <1>3, <1>4, <1>5, <1>6 DEF Next

LEMMA TypeInvariant == Spec => [](TypeOK /\ Opening)
<1>1. Init => TypeOK /\ Opening
  <2>1. <<>> \in Seq(Datagrams)
    OBVIOUS
  <2> QED BY <2>1 DEF Init, TypeOK, Opening
<1> QED BY <1>1, TypeInductive, OpeningInductive, PTL DEF Spec

\* Members, kernel and thread keep their types, whatever the owner calls.
THEOREM TypeCorrect == Spec => []TypeOK
BY TypeInvariant, PTL

-------------------------------------------------------------------------------
(* What the owner does one after the other: there is a thread only while     *)
(* the flag is set or stop waits for it, and init runs while there is none.  *)
Lifecycle ==
  /\ running_ => app = "idle"
  /\ thread # "none" => running_ \/ app = "join"
  /\ thread = "ended" => ~running_

LEMMA LifecycleInductive ==
  ASSUME Careful, TypeOK, Lifecycle, [Next]_vars PROVE Lifecycle'
<1> USE DEF Lifecycle, TypeOK
<1>1. CASE UNCHANGED vars
  BY <1>1 DEF vars, members, threadVars
<1>2. CASE Thread
  BY <1>2 DEF Thread, ThreadTest, ThreadRecv, ThreadNothing, ThreadRaw, ThreadReport, members
<1>3. CASE Owner
  <2>1. CASE setHandlers \/ InitFails \/ InitSocket \/ InitBind \/ InitJoin \/ StopClose \/ Renew
    BY <1>3, <2>1 DEF Careful, Allowed, setHandlers, InitFails, InitSocket, InitBind, InitJoin,
         StopClose, Renew, members, threadVars
  <2>2. CASE start \/ StopFlag \/ StopJoin
    BY <2>2 DEF start, StopFlag, StopJoin, members, threadVars
  <2> QED BY <1>3, <2>1, <2>2 DEF Owner
<1>4. CASE OtherOpens \/ OtherCloses \/ \E fd \in Fds, d \in Datagrams : Arrive(fd, d)
  BY <1>4 DEF OtherOpens, OtherCloses, Arrive, members, threadVars
<1> QED BY <1>1, <1>2, <1>3, <1>4 DEF Next

\* NoSocketLost, and what the kernel has for each descriptor: only the
\* receiver's is bound, and not before init has bound it.
Sockets ==
  /\ NoSocketLost
  /\ bound \subseteq {sock_}
  /\ app = "bind" => bound = {}
  /\ \A fd \in Fds : fd \notin bound => queue[fd] = <<>>

LEMMA SocketClosed ==
  ASSUME TypeOK, Sockets, Close(sock_), sock_' = INVALID_SOCKET PROVE Sockets'
<1>1. INVALID_SOCKET \notin Fds /\ None # "receiver"
  BY ReceiverAssumption DEF INVALID_SOCKET
<1>2. bound' = {}
  BY DEF Close, Sockets
<1>3. ASSUME NEW fd \in Fds PROVE owner'[fd] # "receiver"
  <2>1. CASE fd = sock_
    BY <1>1, <2>1 DEF Close, TypeOK
  <2>2. CASE fd # sock_
    BY <2>2 DEF Close, TypeOK, Sockets, NoSocketLost
  <2> QED BY <2>1, <2>2
<1>4. ASSUME NEW fd \in Fds PROVE queue'[fd] = <<>>
  <2>1. CASE fd = sock_
    BY <2>1 DEF Close, TypeOK
  <2>2. CASE fd # sock_
    BY <2>2 DEF Close, TypeOK, Sockets
  <2> QED BY <2>1, <2>2
<1> QED BY <1>1, <1>2, <1>3, <1>4 DEF Sockets, NoSocketLost

LEMMA SocketsInductive ==
  ASSUME Careful, TypeOK, Opening, Lifecycle, Sockets, [Next]_vars PROVE Sockets'
<1> USE ReceiverAssumption DEF Sockets, NoSocketLost, TypeOK, INVALID_SOCKET
<1>1. CASE UNCHANGED vars
  BY <1>1 DEF vars, members, kernel
<1>2. CASE Thread
  <2>1. CASE ThreadRecv
    BY <2>1 DEF ThreadRecv
  <2>2. CASE ThreadTest \/ ThreadNothing \/ ThreadRaw \/ ThreadReport
    BY <2>2 DEF ThreadTest, ThreadNothing, ThreadRaw, ThreadReport, members, kernel
  <2> QED BY <1>2, <2>1, <2>2 DEF Thread
<1>3. CASE Owner
  <2>1. CASE setHandlers \/ start \/ StopFlag \/ StopJoin
    BY <2>1 DEF setHandlers, start, StopFlag, StopJoin, members, kernel
  <2>2. CASE InitFails
    BY <2>2 DEF InitFails, Careful, Allowed, kernel
  <2>3. CASE InitSocket
    BY <2>3 DEF InitSocket, NewFd, Careful, Allowed
  <2>4. CASE InitBind
    <3>1. CASE Close(sock_) /\ sock_' = INVALID_SOCKET
      BY <3>1, SocketClosed
    <3>2. CASE bound' = bound \cup {sock_} /\ app' = "join_group" /\ UNCHANGED <<owner, queue, sock_>>
      BY <2>4, <3>2 DEF InitBind
    <3> QED BY <2>4, <3>1, <3>2 DEF InitBind
  <2>5. CASE InitJoin
    <3>1. CASE Close(sock_) /\ sock_' = INVALID_SOCKET
      BY <3>1, SocketClosed
    <3>2. CASE UNCHANGED <<sock_, kernel>>
      BY <2>5, <3>2 DEF InitJoin, kernel
    <3> QED BY <2>5, <3>1, <3>2 DEF InitJoin
  <2>6. CASE StopClose
    <3>1. CASE Close(sock_) /\ sock_' = INVALID_SOCKET
      BY <3>1, SocketClosed
    <3>2. CASE UNCHANGED <<sock_, kernel>>
      BY <2>6, <3>2 DEF StopClose, kernel
    <3> QED BY <2>6, <3>1, <3>2 DEF StopClose
  <2>7. CASE Renew
    BY <2>7 DEF Renew, Careful, Allowed, kernel
  <2> QED BY <1>3, <2>1, <2>2, <2>3, <2>4, <2>5, <2>6, <2>7 DEF Owner
<1>4. CASE OtherOpens
  BY <1>4 DEF OtherOpens, NewFd, members
<1>5. CASE OtherCloses
  BY <1>5 DEF OtherCloses, Close, members
<1>6. CASE \E fd \in Fds, d \in Datagrams : Arrive(fd, d)
  BY <1>6 DEF Arrive, members
<1> QED BY <1>1, <1>2, <1>3, <1>4, <1>5, <1>6 DEF Next

\* From the test of running_ to the next one sock_ is not changed.
LEMMA ThreadInductive ==
  ASSUME Careful, TypeOK, Lifecycle, Sockets, ThreadUsesOwnSocket, [Next]_vars
  PROVE  ThreadUsesOwnSocket'
<1> USE ReceiverAssumption DEF ThreadUsesOwnSocket, TypeOK, Lifecycle, Sockets, NoSocketLost, INVALID_SOCKET
<1>1. CASE UNCHANGED vars
  BY <1>1 DEF vars, members, kernel, threadVars
<1>2. CASE Thread
  BY <1>2 DEF Thread, ThreadTest, ThreadRecv, ThreadNothing, ThreadRaw, ThreadReport, members, kernel
<1>3. CASE Owner
  <2>1. CASE setHandlers \/ start \/ StopFlag \/ StopJoin
    BY <2>1 DEF setHandlers, start, StopFlag, StopJoin, members, kernel, threadVars
  <2>2. CASE InitFails \/ InitSocket \/ InitBind \/ InitJoin \/ StopClose \/ Renew
    <3>1. thread # "recv"
      BY <2>2 DEF InitFails, InitSocket, InitBind, InitJoin, StopClose, Renew, Careful, Allowed
    <3> QED BY <2>2, <3>1 DEF InitFails, InitSocket, InitBind, InitJoin, StopClose, Renew, threadVars
  <2> QED BY <1>3, <2>1, <2>2 DEF Owner
<1>4. CASE OtherOpens
  BY <1>4 DEF OtherOpens, NewFd, members, threadVars
<1>5. CASE OtherCloses
  BY <1>5 DEF OtherCloses, Close, members, threadVars
<1>6. CASE \E fd \in Fds, d \in Datagrams : Arrive(fd, d)
  BY <1>6 DEF Arrive, members, threadVars
<1> QED BY <1>1, <1>2, <1>3, <1>4, <1>5, <1>6 DEF Next

Inductive == TypeOK /\ Opening /\ Lifecycle /\ Sockets /\ ThreadUsesOwnSocket

LEMMA InductiveInvariant == ASSUME Careful PROVE Spec => []Inductive
<1>1. Init => Inductive
  <2>1. <<>> \in Seq(Datagrams)
    OBVIOUS
  <2>2. Init => TypeOK /\ Opening /\ Lifecycle /\ ThreadUsesOwnSocket
    BY <2>1 DEF Init, TypeOK, Opening, Lifecycle, ThreadUsesOwnSocket
  <2>3. INVALID_SOCKET \notin Fds /\ None # "receiver"
    BY ReceiverAssumption DEF INVALID_SOCKET
  <2>4. Init => Sockets
    BY <2>3 DEF Init, Sockets, NoSocketLost
  <2> QED BY <2>2, <2>4 DEF Inductive
<1>2. Inductive /\ [Next]_vars => Inductive'
  BY TypeInductive, OpeningInductive, LifecycleInductive, SocketsInductive, ThreadInductive
     DEF Inductive
<1> QED BY <1>1, <1>2, PTL DEF Spec

\* Every socket init opened is in sock_, whatever failed, and sock_ never
\* names a socket of other code.
THEOREM SocketsAreKept == ASSUME Careful PROVE Spec => []NoSocketLost
<1>1. Inductive => NoSocketLost
  BY DEF Inductive, Sockets
<1> QED BY <1>1, InductiveInvariant, PTL

\* recvfrom is called on the receiver's own socket, and it stays the
\* receiver's until it returns.
THEOREM ReceivesOnOwnSocket == ASSUME Careful PROVE Spec => []ThreadUsesOwnSocket
<1>1. Inductive => ThreadUsesOwnSocket
  BY DEF Inductive
<1> QED BY <1>1, InductiveInvariant, PTL

-------------------------------------------------------------------------------
(* The refinement.                                                           *)

Idle == thread \notin {"raw", "report"}

\* No step but those of ThreadRecv, ThreadRaw and ThreadReport touches what
\* the handlers have.
LEMMA FeedUnchanged ==
  ASSUME UNCHANGED <<sock_, thread, held>>, sock_ \in bound <=> sock_ \in bound',
         sock_ \in bound => queue'[sock_] = queue[sock_]
  PROVE  UNCHANGED Feed!feedVars
BY DEF Feed!feedVars

LEMMA FeedOpens ==
  ASSUME Sockets, UNCHANGED <<sock_, thread, held, queue>>, sock_ \in Fds, bound = {},
         bound' = {sock_}
  PROVE  Feed!Open
BY DEF Feed!Open, Sockets

\* When the socket is closed no handler is running.
LEMMA FeedCloses ==
  ASSUME TypeOK, Sockets, Idle, Idle', Close(sock_), sock_' = INVALID_SOCKET
  PROVE  [Feed!Next]_Feed!feedVars
<1>1. bound' = {} /\ sock_' \notin bound'
  BY DEF Close, Sockets
<1>2. CASE sock_ \in bound
  <2>1. Feed!Close
    BY <1>1, <1>2 DEF Feed!Close, Idle
  <2> QED BY <2>1 DEF Feed!Next
<1>3. CASE sock_ \notin bound
  BY <1>1, <1>3 DEF Feed!feedVars, Idle
<1> QED BY <1>2, <1>3

LEMMA OwnerStep ==
  ASSUME Careful, Inductive, Owner PROVE [Feed!Next]_Feed!feedVars
<1> USE DEF Inductive
<1>1. CASE setHandlers \/ start \/ StopFlag
  BY <1>1 DEF setHandlers, start, StopFlag, Feed!feedVars, Lifecycle, members, kernel, threadVars
<1>2. CASE InitFails \/ Renew
  <2>1. UNCHANGED sock_
    BY <1>2 DEF InitFails, Renew, Careful, Allowed
  <2> QED BY <1>2, <2>1 DEF InitFails, Renew, Feed!feedVars, kernel, threadVars
<1>3. CASE InitSocket
  <2>1. sock_ = INVALID_SOCKET /\ bound = {}
    BY <1>3, ReceiverAssumption DEF InitSocket, Careful, Allowed, Sockets, TypeOK, INVALID_SOCKET
  <2> QED BY <1>3, <2>1 DEF InitSocket, Feed!feedVars, threadVars
<1>4. CASE InitBind
  <2>1. Idle /\ Idle' /\ sock_ \in Fds
    BY <1>4 DEF InitBind, Idle, Lifecycle, Opening, threadVars
  <2>2. CASE Close(sock_) /\ sock_' = INVALID_SOCKET
    BY <2>1, <2>2, FeedCloses
  <2>3. CASE bound' = bound \cup {sock_} /\ UNCHANGED <<owner, queue, sock_>>
    <3>1. Feed!Open
      BY <1>4, <2>1, <2>3, FeedOpens DEF InitBind, Sockets, threadVars
    <3> QED BY <3>1 DEF Feed!Next
  <2> QED BY <1>4, <2>2, <2>3 DEF InitBind
<1>5. CASE InitJoin \/ StopClose
  <2>1. Idle /\ Idle'
    BY <1>5 DEF InitJoin, StopClose, Idle, Lifecycle, threadVars
  <2>2. CASE Close(sock_) /\ sock_' = INVALID_SOCKET
    BY <2>1, <2>2, FeedCloses
  <2>3. CASE UNCHANGED <<sock_, kernel>>
    BY <1>5, <2>3 DEF InitJoin, StopClose, Feed!feedVars, kernel, threadVars
  <2> QED BY <1>5, <2>2, <2>3 DEF InitJoin, StopClose
<1>6. CASE StopJoin
  BY <1>6 DEF StopJoin, Feed!feedVars, members, kernel
<1> QED BY <1>1, <1>2, <1>3, <1>4, <1>5, <1>6 DEF Owner

LEMMA ThreadStep ==
  ASSUME Inductive, Thread PROVE [Feed!Next]_Feed!feedVars
<1> USE ReceiverAssumption DEF Inductive
<1>1. CASE ThreadTest \/ ThreadNothing
  BY <1>1 DEF ThreadTest, ThreadNothing, Feed!feedVars, members, kernel
<1>2. CASE ThreadRecv
  <2>1. arg = sock_ /\ sock_ \in bound /\ sock_ \in Fds
    BY <1>2 DEF ThreadRecv, ThreadUsesOwnSocket, TypeOK, INVALID_SOCKET
  <2>2. queue'[sock_] = Tail(queue[sock_]) /\ held' = Head(queue[sock_]) /\ queue[sock_] # <<>>
    BY <1>2, <2>1 DEF ThreadRecv, TypeOK
  <2>3. Feed!Take
    BY <1>2, <2>1, <2>2 DEF ThreadRecv, Feed!Take
  <2> QED BY <2>3 DEF Feed!Next
<1>3. CASE ThreadRaw \/ ThreadReport
  <2>1. Feed!Return
    BY <1>3 DEF ThreadRaw, ThreadReport, Feed!Return, members, kernel
  <2> QED BY <2>1 DEF Feed!Next
<1> QED BY <1>1, <1>2, <1>3 DEF Thread

LEMMA OthersStep ==
  ASSUME Inductive,
         OtherOpens \/ OtherCloses \/ \E fd \in Fds, d \in Datagrams : Arrive(fd, d)
  PROVE  [Feed!Next]_Feed!feedVars
<1> USE DEF Inductive
<1>1. CASE OtherOpens
  BY <1>1 DEF OtherOpens, Feed!feedVars, members, threadVars
<1>2. CASE OtherCloses
  <2>1. PICK fd \in Fds : owner[fd] = "other" /\ Close(fd)
    BY <1>2 DEF OtherCloses
  <2>2. fd # sock_
    BY <2>1 DEF Sockets, NoSocketLost
  <2>3. sock_ \in bound <=> sock_ \in bound'
    BY <2>1, <2>2 DEF Close
  <2>4. sock_ \in bound => queue'[sock_] = queue[sock_]
    BY <2>1, <2>2 DEF Close, TypeOK
  <2>5. UNCHANGED <<sock_, thread, held>>
    BY <1>2 DEF OtherCloses, members, threadVars
  <2> QED BY <2>3, <2>4, <2>5, FeedUnchanged
<1>3. ASSUME NEW fd \in Fds, NEW d \in Datagrams, Arrive(fd, d)
      PROVE  Feed!Next
  <2>1. fd = sock_ /\ sock_ \in bound
    BY <1>3 DEF Arrive, Sockets
  <2>2. queue'[sock_] = Append(queue[sock_], d)
    BY <1>3, <2>1 DEF Arrive, TypeOK
  <2>3. Feed!Arrive(d)
    BY <1>3, <2>1, <2>2 DEF Arrive, Feed!Arrive, members, threadVars
  <2> QED BY <2>3 DEF Feed!Next, Datagrams
<1> QED BY <1>1, <1>2, <1>3

\* The receiver is the mailbox of ReportFeed: every step of the owner, of the
\* thread, of the kernel and of other code is a step of it, or none.
THEOREM ReceiverImplementsFeed == ASSUME Careful PROVE Spec => ImplementsFeed
<1>1. Init => Feed!Init
  BY DEF Init, Feed!Init
<1>2. Inductive /\ [Next]_vars => [Feed!Next]_Feed!feedVars
  <2>1. ASSUME Inductive, UNCHANGED vars PROVE UNCHANGED Feed!feedVars
    BY <2>1 DEF vars, members, kernel, threadVars, Feed!feedVars
  <2> QED BY <2>1, OwnerStep, ThreadStep, OthersStep DEF Next
<1> QED BY <1>1, <1>2, InductiveInvariant, PTL DEF Spec, ImplementsFeed, Feed!Spec
===============================================================================
