--------------------------- MODULE CamController ---------------------------
(***************************************************************************)
(* The CamController objects of one process (cam_controller.cpp, the Linux *)
(* build): application threads that create, start, stop, destroy and read  *)
(* controllers and send PTZ commands, one listener thread per started      *)
(* controller, and the descriptor table of the process they all share.     *)
(*                                                                         *)
(* Every system call on a descriptor is a step of its own, because the     *)
(* descriptor may have been closed and its number given to another socket  *)
(* since the previous call.  The code between two accesses to shared state *)
(* is one step.  A controller is started, stopped and destroyed by one     *)
(* thread only (OwnerOf), as every caller in the repository does.          *)
(***************************************************************************)
EXTENDS StatusPackets

CONSTANTS
  Controllers,   \* the CamController objects
  Threads,       \* application threads
  OwnerOf,       \* the thread that starts, stops and destroys a controller
  Readers,       \* the threads that call get_last and get_ptz
  Senders,       \* the threads that call set_ptz
  McastArgs,     \* whether start_ex is given a multicast group
  Timeouts,      \* whether set_ptz is given a positive timeout_ms
  Failures,      \* the calls that may fail for reasons outside the process
  MaxFd          \* the number of descriptors available to these sockets

ASSUME ControllerAssumption ==
  /\ Controllers \cap Threads = {}
  /\ Sockets = Controllers \cup Threads
  /\ OwnerOf \in [Controllers -> Threads]
  /\ Readers \subseteq Threads
  /\ Senders \subseteq Threads
  /\ McastArgs \subseteq BOOLEAN
  /\ Timeouts \subseteq BOOLEAN
  /\ Failures \subseteq {"thread", "bind", "join", "send"}
  /\ MaxFd \in Nat \ {0}

Fds == 1..MaxFd
NoFd == -1

VARIABLES
  \* struct CamController
  exists,            \* exists[c]: created and not yet deleted
  running,           \* running[c]: the atomic flag
  sock,              \* sock[c]: the descriptor stop will close
  is_multicast,      \* is_multicast[c], with a group that is not empty
  mtx,               \* mtx[c]: the listener holds the mutex
  last_packet,       \* last_packet[c]
  packets_by_ip,     \* packets_by_ip[c][h]; NoPacket when h has no entry
  \* the listener thread of c and its locals
  lpc,               \* where it is; "none" when thr is not joinable
  lfd,               \* its local copy of the descriptor
  buf,               \* the datagram it received and has not yet stored
  \* the application threads and their locals
  pc,                \* where the call of t is; "idle" outside the library
  target,            \* the controller a stop or destroy of t is about
  tfd,               \* the descriptor of the set_ptz of t
  ret,               \* the last result t got
  \* the kernel
  fds,               \* fds[f]: the socket descriptor f names, or None
  skt,               \* skt[s]: the options that are set on socket s
  held               \* held[p]: the recvfrom that p is blocked in

objVars    == <<exists, running, sock, is_multicast>>
cacheVars  == <<mtx, last_packet, packets_by_ip>>
lsnVars    == <<lpc, lfd, buf>>
apiVars    == <<pc, target, tfd, ret>>
kernelVars == <<fds, skt, held>>
vars == <<objVars, cacheVars, lsnVars, apiVars, kernelVars>>

StopPcs == {"stopSock", "stopClose", "stopJoin"}
SendPcs == {"sendTo", "sendRecv", "sendBlocked", "sendClose"}
ListenerPcs == {"socket", "bind", "config", "loop", "recv", "blocked",
                "store", "storeIp", "close", "clear", "exited"}

\* "bound" to a local port, "timeo": has SO_RCVTIMEO, "member" of the group.
SocketOptions == {"bound", "timeo", "member"}

\* A blocked recvfrom keeps the socket it was called on, whatever happens to
\* the descriptor, and the timeout that socket had at the time.
NotBlocked == [on |-> None, timed |-> FALSE]

TypeOK ==
  /\ exists \in [Controllers -> BOOLEAN]
  /\ running \in [Controllers -> BOOLEAN]
  /\ sock \in [Controllers -> Fds \cup {NoFd}]
  /\ is_multicast \in [Controllers -> BOOLEAN]
  /\ mtx \in [Controllers -> BOOLEAN]
  /\ last_packet \in [Controllers -> Packet]
  /\ packets_by_ip \in [Controllers -> [Hosts -> Packet]]
  /\ lpc \in [Controllers -> ListenerPcs \cup {"none"}]
  /\ lfd \in [Controllers -> Fds \cup {NoFd}]
  /\ buf \in [Controllers -> Packet]
  /\ pc \in [Threads -> {"idle"} \cup StopPcs \cup SendPcs]
  /\ target \in [Threads -> [on : Controllers \cup {None}, delete : BOOLEAN]]
  /\ tfd \in [Threads -> Fds \cup {NoFd}]
  /\ ret \in [Threads -> Result]
  /\ fds \in [Fds -> Sockets \cup {None}]
  /\ skt \in [Sockets -> SUBSET SocketOptions]
  /\ held \in [Sockets -> [on : Sockets \cup {None}, timed : BOOLEAN]]

NoTarget == [on |-> None, delete |-> FALSE]

Init ==
  /\ exists = [c \in Controllers |-> FALSE]
  /\ running = [c \in Controllers |-> FALSE]
  /\ sock = [c \in Controllers |-> NoFd]
  /\ is_multicast = [c \in Controllers |-> FALSE]
  /\ mtx = [c \in Controllers |-> FALSE]
  /\ last_packet = [c \in Controllers |-> NoPacket]
  /\ packets_by_ip = [c \in Controllers |-> [h \in Hosts |-> NoPacket]]
  /\ lpc = [c \in Controllers |-> "none"]
  /\ lfd = [c \in Controllers |-> NoFd]
  /\ buf = [c \in Controllers |-> NoPacket]
  /\ pc = [t \in Threads |-> "idle"]
  /\ target = [t \in Threads |-> NoTarget]
  /\ tfd = [t \in Threads |-> NoFd]
  /\ ret = [t \in Threads |-> NoResult]
  /\ fds = [f \in Fds |-> None]
  /\ skt = [s \in Sockets |-> {}]
  /\ held = [s \in Sockets |-> NotBlocked]

-----------------------------------------------------------------------------
(***************************************************************************)
(* The descriptor table.  A new socket gets the lowest free number.        *)
(***************************************************************************)

\* The socket a system call on descriptor f reaches; None is EBADF.
At(f) == IF f \in Fds THEN fds[f] ELSE None

Lowest(f) == fds[f] = None /\ \A g \in 1..(f - 1) : fds[g] # None
Full == \A f \in Fds : fds[f] # None

Open(f, s) ==
  /\ Lowest(f)
  /\ fds' = [fds EXCEPT ![f] = s]
  /\ skt' = [skt EXCEPT ![s] = {}]

Close(f) == fds' = IF f \in Fds THEN [fds EXCEPT ![f] = None] ELSE fds

Bindable(s) == s # None /\ "bound" \notin skt[s]

\* recvfrom on s begins: from here p no longer depends on the descriptor.
Block(p, s) == held' = [held EXCEPT ![p] = [on |-> s, timed |-> "timeo" \in skt'[s]]]
Unblock(p) == held' = [held EXCEPT ![p] = NotBlocked]

\* The datagrams the network may hand to a recvfrom of p.
Arrival(p) ==
  IF held[p].on # None /\ "bound" \in skt[held[p].on]
  THEN Datagram(held[p].on)
  ELSE {}

-----------------------------------------------------------------------------
(***************************************************************************)
(* Calls on a controller by its owner.                                     *)
(***************************************************************************)

Outside(t) == pc[t] = "idle"

Returns(t, call, code, p) ==
  ret' = [ret EXCEPT ![t] = [call |-> call, code |-> code, pkt |-> p]]

\* Fault: the members without their initialisers, so that sock is 0.
create_zeroed(t, c) ==
  /\ Outside(t) /\ OwnerOf[c] = t /\ ~exists[c]
  /\ exists' = [exists EXCEPT ![c] = TRUE]
  /\ sock' = [sock EXCEPT ![c] = 0]
  /\ last_packet' = [last_packet EXCEPT ![c] = NoPacket]
  /\ packets_by_ip' = [packets_by_ip EXCEPT ![c] = [h \in Hosts |-> NoPacket]]
  /\ UNCHANGED <<running, is_multicast, mtx, lsnVars, apiVars, kernelVars>>

cam_controller_create(t, c) ==
  /\ Outside(t) /\ OwnerOf[c] = t /\ ~exists[c]
  /\ exists' = [exists EXCEPT ![c] = TRUE]
  /\ running' = [running EXCEPT ![c] = FALSE]
  /\ sock' = [sock EXCEPT ![c] = NoFd]
  /\ is_multicast' = [is_multicast EXCEPT ![c] = FALSE]
  /\ last_packet' = [last_packet EXCEPT ![c] = NoPacket]
  /\ packets_by_ip' = [packets_by_ip EXCEPT ![c] = [h \in Hosts |-> NoPacket]]
  /\ UNCHANGED <<mtx, lsnVars, apiVars, kernelVars>>

\* start_ex returns before the listener has made any system call.
StartAccepted(t, c) ==
  /\ running' = [running EXCEPT ![c] = TRUE]
  /\ lpc' = [lpc EXCEPT ![c] = "socket"]
  /\ Returns(t, "start", 0, NoPacket)

StartNoThread(t, c) ==
  /\ "thread" \in Failures
  /\ Returns(t, "start", -3, NoPacket)
  /\ UNCHANGED <<running, lpc>>

cam_controller_start_ex(t, c) ==
  /\ Outside(t) /\ OwnerOf[c] = t /\ exists[c]
  /\ \/ /\ running[c]
        /\ Returns(t, "start", -2, NoPacket)
        /\ UNCHANGED <<running, is_multicast, lpc>>
     \/ /\ ~running[c]
        /\ \E group \in McastArgs :
             is_multicast' = [is_multicast EXCEPT ![c] = group]
        /\ StartAccepted(t, c) \/ StartNoThread(t, c)
  /\ UNCHANGED <<exists, sock, cacheVars, lfd, buf, pc, target, tfd, kernelVars>>

\* cam_controller_stop, and cam_controller_destroy which calls it first: the
\* flag is cleared, then the descriptor is read, closed and forgotten, then
\* the thread is joined.
StopFlag(t, c, delete) ==
  /\ running' = [running EXCEPT ![c] = FALSE]
  /\ pc' = [pc EXCEPT ![t] = "stopSock"]
  /\ target' = [target EXCEPT ![t] = [on |-> c, delete |-> delete]]

cam_controller_stop(t, c) ==
  /\ Outside(t) /\ OwnerOf[c] = t /\ exists[c]
  /\ running[c]
  /\ StopFlag(t, c, FALSE)
  /\ UNCHANGED <<exists, sock, is_multicast, cacheVars, lsnVars, tfd, ret, kernelVars>>

cam_controller_destroy(t, c) ==
  /\ Outside(t) /\ OwnerOf[c] = t /\ exists[c]
  /\ \/ /\ running[c]
        /\ StopFlag(t, c, TRUE)
        /\ UNCHANGED exists
     \/ /\ ~running[c]
        /\ exists' = [exists EXCEPT ![c] = FALSE]
        /\ UNCHANGED <<running, pc, target>>
  /\ UNCHANGED <<sock, is_multicast, cacheVars, lsnVars, tfd, ret, kernelVars>>

\* IP_DROP_MEMBERSHIP is best effort: it may have no effect.
LeaveGroup(s) ==
  \/ skt' = [skt EXCEPT ![s] = @ \ {"member"}]
  \/ UNCHANGED skt

\* Fault: a controller without a socket is taken to have no thread to join.
StopSock_early_return(t) ==
  /\ pc[t] = "stopSock"
  /\ IF sock[target[t].on] = NoFd
     THEN /\ pc' = [pc EXCEPT ![t] = "idle"]
          /\ target' = [target EXCEPT ![t] = NoTarget]
     ELSE /\ pc' = [pc EXCEPT ![t] = "stopClose"]
          /\ UNCHANGED target
  /\ UNCHANGED <<objVars, cacheVars, lsnVars, tfd, ret, kernelVars>>

StopSock(t) ==
  LET c == target[t].on
      s == At(sock[c])
  IN
  /\ pc[t] = "stopSock"
  /\ IF sock[c] = NoFd
     THEN /\ pc' = [pc EXCEPT ![t] = "stopJoin"]
          /\ UNCHANGED skt
     ELSE /\ pc' = [pc EXCEPT ![t] = "stopClose"]
          /\ IF is_multicast[c] /\ s # None THEN LeaveGroup(s) ELSE UNCHANGED skt
  /\ UNCHANGED <<objVars, cacheVars, lsnVars, target, tfd, ret, fds, held>>

\* h->sock is read again here: the listener may have set it to -1.
StopClose(t) ==
  LET c == target[t].on IN
  /\ pc[t] = "stopClose"
  /\ Close(sock[c])
  /\ sock' = [sock EXCEPT ![c] = NoFd]
  /\ pc' = [pc EXCEPT ![t] = "stopJoin"]
  /\ UNCHANGED <<exists, running, is_multicast, cacheVars, lsnVars, target, tfd,
                 ret, skt, held>>

\* Fault: the thread is detached instead of joined.
StopJoin_detaches(t) ==
  LET c == target[t].on IN
  /\ pc[t] = "stopJoin"
  /\ exists' = [exists EXCEPT ![c] = ~target[t].delete]
  /\ pc' = [pc EXCEPT ![t] = "idle"]
  /\ target' = [target EXCEPT ![t] = NoTarget]
  /\ UNCHANGED <<running, sock, is_multicast, cacheVars, lsnVars, tfd, ret, kernelVars>>

StopJoin(t) ==
  LET c == target[t].on IN
  /\ pc[t] = "stopJoin"
  /\ lpc[c] = "exited"
  /\ lpc' = [lpc EXCEPT ![c] = "none"]
  /\ exists' = [exists EXCEPT ![c] = ~target[t].delete]
  /\ pc' = [pc EXCEPT ![t] = "idle"]
  /\ target' = [target EXCEPT ![t] = NoTarget]
  /\ UNCHANGED <<running, sock, is_multicast, cacheVars, lfd, buf, tfd, ret,
                 kernelVars>>

-----------------------------------------------------------------------------
(***************************************************************************)
(* Reads.  Each is one step: the body runs with mtx held, and the other    *)
(* side of the mutex, the listener, takes two steps to store a datagram.   *)
(***************************************************************************)

cam_controller_get_last(t, c) ==
  /\ Outside(t) /\ t \in Readers /\ exists[c]
  /\ ~mtx[c]
  /\ ret' = [ret EXCEPT ![t] = LastResult(last_packet[c])]
  /\ UNCHANGED <<objVars, cacheVars, lsnVars, pc, target, tfd, kernelVars>>

\* Fault: the body without lock_guard.
get_ptz_unlocked(t, c, h) ==
  /\ Outside(t) /\ t \in Readers /\ exists[c]
  /\ ret' = [ret EXCEPT ![t] =
               PtzResult(IF h = None THEN last_packet[c] ELSE packets_by_ip[c][h])]
  /\ UNCHANGED <<objVars, cacheVars, lsnVars, pc, target, tfd, kernelVars>>

\* h is None when ip is null or empty.
cam_controller_get_ptz(t, c, h) ==
  /\ Outside(t) /\ t \in Readers /\ exists[c]
  /\ ~mtx[c]
  /\ ret' = [ret EXCEPT ![t] =
               PtzResult(IF h = None THEN last_packet[c] ELSE packets_by_ip[c][h])]
  /\ UNCHANGED <<objVars, cacheVars, lsnVars, pc, target, tfd, kernelVars>>

-----------------------------------------------------------------------------
(***************************************************************************)
(* cam_controller_set_ptz: cammon_send_udp_and_recv with a socket of its   *)
(* own.  It uses no field of the controller.                               *)
(***************************************************************************)

SendSocket(t) ==
  /\ Outside(t) /\ t \in Senders
  /\ \/ /\ Full
        /\ Returns(t, "set_ptz", -1, NoPacket)
        /\ UNCHANGED <<pc, tfd, fds, skt>>
     \/ \E f \in Fds :
          /\ Open(f, t)
          /\ tfd' = [tfd EXCEPT ![t] = f]
          /\ pc' = [pc EXCEPT ![t] = "sendTo"]
          /\ ret' = [ret EXCEPT ![t] = NoResult]
  /\ UNCHANGED <<objVars, cacheVars, lsnVars, target, held>>

\* A bad address (-2) or a failed sendto (-3), or the datagram leaves and the
\* kernel gives the socket a local port.
SendTo(t) ==
  LET s == At(tfd[t]) IN
  /\ pc[t] = "sendTo"
  /\ \/ /\ s = None \/ "send" \in Failures
        /\ \E code \in {-2, -3} : Returns(t, "set_ptz", code, NoPacket)
        /\ pc' = [pc EXCEPT ![t] = "sendClose"]
        /\ UNCHANGED skt
     \/ /\ s # None
        /\ skt' = [skt EXCEPT ![s] = @ \cup {"bound"}]
        /\ pc' = [pc EXCEPT ![t] = "sendRecv"]
        /\ UNCHANGED ret
  /\ UNCHANGED <<objVars, cacheVars, lsnVars, target, tfd, fds, held>>

\* SO_RCVTIMEO when timeout_ms > 0, then recvfrom.
SendRecv(t) ==
  LET s == At(tfd[t]) IN
  /\ pc[t] = "sendRecv"
  /\ \/ /\ s = None
        /\ Returns(t, "set_ptz", -10, NoPacket)
        /\ pc' = [pc EXCEPT ![t] = "sendClose"]
        /\ UNCHANGED <<skt, held>>
     \/ /\ s # None
        /\ \E timeout \in Timeouts :
             skt' = [skt EXCEPT ![s] = @ \cup (IF timeout THEN {"timeo"} ELSE {})]
        /\ Block(t, s)
        /\ pc' = [pc EXCEPT ![t] = "sendBlocked"]
        /\ UNCHANGED ret
  /\ UNCHANGED <<objVars, cacheVars, lsnVars, target, tfd, fds>>

SendTimeout(t) ==
  /\ pc[t] = "sendBlocked"
  /\ held[t].timed
  /\ Returns(t, "set_ptz", -10, NoPacket)
  /\ Unblock(t)
  /\ pc' = [pc EXCEPT ![t] = "sendClose"]
  /\ UNCHANGED <<objVars, cacheVars, lsnVars, target, tfd, fds, skt>>

SendReply(t) ==
  /\ pc[t] = "sendBlocked"
  /\ \E p \in Arrival(t) :
       Returns(t, "set_ptz", IF p.kind = "empty" THEN 0 ELSE 1, p)
  /\ Unblock(t)
  /\ pc' = [pc EXCEPT ![t] = "sendClose"]
  /\ UNCHANGED <<objVars, cacheVars, lsnVars, target, tfd, fds, skt>>

\* Fault: a return that forgets the close.
SendClose_leaks(t) ==
  /\ pc[t] = "sendClose"
  /\ tfd' = [tfd EXCEPT ![t] = NoFd]
  /\ pc' = [pc EXCEPT ![t] = "idle"]
  /\ UNCHANGED <<objVars, cacheVars, lsnVars, target, ret, kernelVars>>

SendClose(t) ==
  /\ pc[t] = "sendClose"
  /\ Close(tfd[t])
  /\ tfd' = [tfd EXCEPT ![t] = NoFd]
  /\ pc' = [pc EXCEPT ![t] = "idle"]
  /\ UNCHANGED <<objVars, cacheVars, lsnVars, target, ret, skt, held>>

-----------------------------------------------------------------------------
(***************************************************************************)
(* listener_loop.                                                          *)
(***************************************************************************)

\* If socket() fails the thread ends and running stays true.
LsnSocket(c) ==
  /\ lpc[c] = "socket"
  /\ \/ /\ Full
        /\ lpc' = [lpc EXCEPT ![c] = "exited"]
        /\ UNCHANGED <<sock, lfd, fds, skt>>
     \/ \E f \in Fds :
          /\ Open(f, c)
          /\ lfd' = [lfd EXCEPT ![c] = f]
          /\ sock' = [sock EXCEPT ![c] = f]
          /\ lpc' = [lpc EXCEPT ![c] = "bind"]
  /\ UNCHANGED <<exists, running, is_multicast, cacheVars, buf, apiVars, held>>

\* Fault: the error path of bind forgets the close.
LsnBind_leaks(c) ==
  LET s == At(lfd[c]) IN
  /\ lpc[c] = "bind"
  /\ \/ /\ Bindable(s)
        /\ skt' = [skt EXCEPT ![s] = @ \cup {"bound"}]
        /\ lpc' = [lpc EXCEPT ![c] = "config"]
     \/ /\ ~Bindable(s) \/ "bind" \in Failures
        /\ lpc' = [lpc EXCEPT ![c] = "clear"]
        /\ UNCHANGED skt
  /\ UNCHANGED <<objVars, cacheVars, lfd, buf, apiVars, fds, held>>

\* The error path of bind and the end of the loop both close the descriptor.
LsnBind(c) ==
  LET s == At(lfd[c]) IN
  /\ lpc[c] = "bind"
  /\ \/ /\ Bindable(s)
        /\ skt' = [skt EXCEPT ![s] = @ \cup {"bound"}]
        /\ lpc' = [lpc EXCEPT ![c] = "config"]
     \/ /\ ~Bindable(s) \/ "bind" \in Failures
        /\ lpc' = [lpc EXCEPT ![c] = "close"]
        /\ UNCHANGED skt
  /\ UNCHANGED <<objVars, cacheVars, lfd, buf, apiVars, fds, held>>

\* Fault: a failed IP_ADD_MEMBERSHIP is only logged.
LsnConfig_stays_multicast(c) ==
  LET s == At(lfd[c]) IN
  /\ lpc[c] = "config"
  /\ skt' = IF s = None THEN skt
            ELSE [skt EXCEPT ![s] = @ \cup {"timeo"} \cup
                   (IF is_multicast[c] /\ "join" \notin Failures THEN {"member"} ELSE {})]
  /\ lpc' = [lpc EXCEPT ![c] = "loop"]
  /\ UNCHANGED <<objVars, cacheVars, lfd, buf, apiVars, fds, held>>

\* Fault: SO_RCVTIMEO is never set.
LsnConfig_no_timeout(c) ==
  LET s == At(lfd[c]) IN
  /\ lpc[c] = "config"
  /\ skt' = IF s = None \/ ~is_multicast[c] THEN skt
            ELSE [skt EXCEPT ![s] = @ \cup {"member"}]
  /\ lpc' = [lpc EXCEPT ![c] = "loop"]
  /\ UNCHANGED <<objVars, cacheVars, lfd, buf, apiVars, fds, held>>

\* IP_ADD_MEMBERSHIP, whose failure turns multicast off, then SO_RCVTIMEO.
LsnConfig(c) ==
  LET s == At(lfd[c])
      joins == is_multicast[c] /\ s # None
      fails == is_multicast[c] /\ (s = None \/ "join" \in Failures)
      Set(options) ==
        skt' = IF s = None THEN skt ELSE [skt EXCEPT ![s] = @ \cup options]
  IN
  /\ lpc[c] = "config"
  /\ \/ /\ joins
        /\ Set({"timeo", "member"})
        /\ UNCHANGED is_multicast
     \/ /\ fails
        /\ Set({"timeo"})
        /\ is_multicast' = [is_multicast EXCEPT ![c] = FALSE]
     \/ /\ ~is_multicast[c]
        /\ Set({"timeo"})
        /\ UNCHANGED is_multicast
  /\ lpc' = [lpc EXCEPT ![c] = "loop"]
  /\ UNCHANGED <<exists, running, sock, cacheVars, lfd, buf, apiVars, fds, held>>

\* while (c->running.load())
LsnLoop(c) ==
  /\ lpc[c] = "loop"
  /\ lpc' = [lpc EXCEPT ![c] = IF running[c] THEN "recv" ELSE "close"]
  /\ UNCHANGED <<objVars, cacheVars, lfd, buf, apiVars, kernelVars>>

\* recvfrom fails at once on a descriptor that names no socket.
LsnRecv(c) ==
  LET s == At(lfd[c]) IN
  /\ lpc[c] = "recv"
  /\ IF s = None
     THEN /\ lpc' = [lpc EXCEPT ![c] = "loop"]
          /\ UNCHANGED <<skt, held>>
     ELSE /\ lpc' = [lpc EXCEPT ![c] = "blocked"]
          /\ UNCHANGED skt
          /\ Block(c, s)
  /\ UNCHANGED <<objVars, cacheVars, lfd, buf, apiVars, fds>>

LsnTimeout(c) ==
  /\ lpc[c] = "blocked"
  /\ held[c].timed
  /\ Unblock(c)
  /\ lpc' = [lpc EXCEPT ![c] = "loop"]
  /\ UNCHANGED <<objVars, cacheVars, lfd, buf, apiVars, fds, skt>>

LsnDatagram(c) ==
  /\ lpc[c] = "blocked"
  /\ \E p \in Arrival(c) : buf' = [buf EXCEPT ![c] = p]
  /\ Unblock(c)
  /\ lpc' = [lpc EXCEPT ![c] = "store"]
  /\ UNCHANGED <<objVars, cacheVars, lfd, apiVars, fds, skt>>

\* Fault: the lock is taken for packets_by_ip only.
LsnStore_unlocked(c) ==
  /\ lpc[c] = "store"
  /\ last_packet' = [last_packet EXCEPT ![c] = buf[c]]
  /\ lpc' = [lpc EXCEPT ![c] = "storeIp"]
  /\ UNCHANGED <<objVars, mtx, packets_by_ip, lfd, buf, apiVars, kernelVars>>

LsnStore(c) ==
  /\ lpc[c] = "store"
  /\ ~mtx[c]
  /\ mtx' = [mtx EXCEPT ![c] = TRUE]
  /\ last_packet' = [last_packet EXCEPT ![c] = buf[c]]
  /\ lpc' = [lpc EXCEPT ![c] = "storeIp"]
  /\ UNCHANGED <<objVars, packets_by_ip, lfd, buf, apiVars, kernelVars>>

LsnStoreIp(c) ==
  /\ lpc[c] = "storeIp"
  /\ packets_by_ip' = [packets_by_ip EXCEPT ![c][buf[c].src] = buf[c]]
  /\ mtx' = [mtx EXCEPT ![c] = FALSE]
  /\ buf' = [buf EXCEPT ![c] = NoPacket]
  /\ lpc' = [lpc EXCEPT ![c] = "loop"]
  /\ UNCHANGED <<objVars, last_packet, lfd, apiVars, kernelVars>>

\* stop has usually closed this descriptor already.
LsnClose(c) ==
  /\ lpc[c] = "close"
  /\ Close(lfd[c])
  /\ lfd' = [lfd EXCEPT ![c] = NoFd]
  /\ lpc' = [lpc EXCEPT ![c] = "clear"]
  /\ UNCHANGED <<objVars, cacheVars, buf, apiVars, skt, held>>

LsnClear(c) ==
  /\ lpc[c] = "clear"
  /\ sock' = [sock EXCEPT ![c] = NoFd]
  /\ lpc' = [lpc EXCEPT ![c] = "exited"]
  /\ UNCHANGED <<exists, running, is_multicast, cacheVars, lfd, buf, apiVars,
                 kernelVars>>

-----------------------------------------------------------------------------

\* What a listener does when it is scheduled, the arrival of a datagram aside.
ListenerStep(c) ==
  \/ LsnSocket(c) \/ LsnBind(c) \/ LsnConfig(c) \/ LsnLoop(c) \/ LsnRecv(c)
  \/ LsnTimeout(c) \/ LsnStore(c) \/ LsnStoreIp(c) \/ LsnClose(c) \/ LsnClear(c)

\* What a thread inside a call does when it is scheduled.
CallStep(t) ==
  \/ StopSock(t) \/ StopClose(t) \/ StopJoin(t)
  \/ SendTo(t) \/ SendRecv(t) \/ SendTimeout(t) \/ SendClose(t)

\* A thread outside the library makes a call.
Call(t) ==
  \/ SendSocket(t)
  \/ \E c \in Controllers :
       \/ cam_controller_create(t, c) \/ cam_controller_start_ex(t, c)
       \/ cam_controller_stop(t, c) \/ cam_controller_destroy(t, c)
       \/ cam_controller_get_last(t, c)
       \/ \E h \in Hosts \cup {None} : cam_controller_get_ptz(t, c, h)

Next ==
  \/ \E c \in Controllers : ListenerStep(c) \/ LsnDatagram(c)
  \/ \E t \in Threads : Call(t) \/ CallStep(t) \/ SendReply(t)

Spec == Init /\ [][Next]_vars

\* Threads are scheduled, a recvfrom with a timeout returns, a join returns
\* once the thread has ended.  No datagram need ever arrive and no thread need
\* ever make another call.
Fairness ==
  /\ \A c \in Controllers : WF_vars(ListenerStep(c))
  /\ \A t \in Threads : WF_vars(CallStep(t))

FairSpec == Spec /\ Fairness

-----------------------------------------------------------------------------
(***************************************************************************)
(* Properties that hold for every set of controllers and threads.          *)
(***************************************************************************)

\* No descriptor is left open by a thread that is done with it: the socket of
\* a listener that has ended, on any of its paths, and the socket of a
\* set_ptz that has returned, with any code, are closed (the closes at
\* cam_controller.cpp:143, 222 and 312, cammon_api.cpp:119-126).
NoSocketLeak ==
  \A f \in Fds :
    /\ \A c \in Controllers :
         fds[f] = c => lpc[c] \notin {"none", "clear", "exited"}
    /\ \A t \in Threads : fds[f] = t => ~Outside(t)

\* Whenever start_ex would create a thread, or destroy would delete the
\* controller without stopping it, thr is not joinable: assigning to or
\* deleting a joinable std::thread ends the process.  A deleted controller
\* has no listener that could still use it (cam_controller.cpp:261-283, 316).
ThreadJoined ==
  \A c \in Controllers :
    /\ exists[c] /\ ~running[c] /\ Outside(OwnerOf[c]) => lpc[c] = "none"
    /\ ~exists[c] => lpc[c] = "none"

\* Outside the critical section of the listener the two caches agree: the last
\* packet is also the last packet of its own source, so get_ptz with the
\* address of the last sender and get_ptz without an address give the same
\* answer (cam_controller.cpp:207-214).
CachesAgree ==
  \A c \in Controllers :
    ~mtx[c] /\ last_packet[c].src # None
      => packets_by_ip[c][last_packet[c].src] = last_packet[c]

\* Once stop has returned, what get_last and get_ptz read does not change
\* until the controller is started again or deleted and created anew
\* (cam_controller.cpp:290-317: the join, not the flag, is what ensures it).
FrozenAfterStop ==
  [][\A c \in Controllers :
       exists[c] /\ exists'[c] /\ ~running[c] /\ Outside(OwnerOf[c])
         => UNCHANGED <<last_packet[c], packets_by_ip[c]>>]_vars

(***************************************************************************)
(* The controller implements the register of StatusCache: a datagram is    *)
(* received when the listener has stored it under its source, or is about  *)
(* to with the mutex held.                                                 *)
(***************************************************************************)
received ==
  [c \in Controllers |->
     IF lpc[c] = "storeIp"
     THEN [packets_by_ip[c] EXCEPT ![buf[c].src] = buf[c]]
     ELSE packets_by_ip[c]]

joinable == [c \in Controllers |-> lpc[c] # "none"]

lastRead ==
  [t \in Threads |->
     IF ret[t].call \in {"get_last", "get_ptz"} THEN ret[t] ELSE NoResult]

Cache == INSTANCE StatusCache WITH
  listening <- joinable, last <- last_packet, byHost <- received, result <- lastRead

\* Every read returns a datagram as a whole and the two caches of one instant;
\* nothing is received while no listener runs (the mutex and the join of
\* cam_controller.cpp:207-214, 316, 319-360).
ImplementsCache == Cache!Spec

-----------------------------------------------------------------------------
(***************************************************************************)
(* Properties of a process in which one thread makes every call on its     *)
(* only controller.                                                        *)
(***************************************************************************)

\* A system call is made on a descriptor only while the descriptor names the
\* caller's own socket, or nothing.  The descriptor of a listener is closed
\* by stop as well as by the listener, so this rests on the join: nobody opens
\* a socket between the two closes (cam_controller.cpp:219-223, 312).
OwnSocketOnly ==
  /\ \A c \in Controllers :
       /\ At(lfd[c]) \in {c, None}
       /\ pc[OwnerOf[c]] = "stopClose" /\ target[OwnerOf[c]].on = c
            => At(sock[c]) \in {c, None}
  /\ \A t \in Threads : At(tfd[t]) \in {t, None}

\* While the listener of a running controller waits for datagrams, multicast
\* mode means that the group has been joined (cam_controller.cpp:175-178).
McastMeansJoined ==
  \A c \in Controllers :
    running[c] /\ is_multicast[c] /\ lpc[c] \in {"loop", "recv", "blocked", "store"}
      => "member" \in skt[c]

\* A set_ptz without a timeout whose device has not answered.
Unanswered(t) == pc[t] = "sendBlocked" /\ ~held[t].timed

\* Every call returns, whether or not a datagram ever arrives, but for a
\* set_ptz without a timeout, which waits for its answer and for nothing else
\* (cam_controller.cpp:186-194: the receive timeout is there so that the flag
\* is looked at again; cammon_api.cpp:122-124).
CallsReturn == \A t \in Threads : ~Outside(t) ~> Outside(t) \/ Unanswered(t)

\* Unless it is stopped, a listener gets a socket, as long as the process may
\* have one for the listener and one for the call under way, however often it
\* was started and however set_ptz has failed; and with a socket it comes to
\* wait for datagrams, or ends because it gets no port (cam_controller.cpp:
\* 116-147, 196, 219-223; cammon_api.cpp:119-126).
Listening(c) == lpc[c] \in {"recv", "blocked", "store", "storeIp"}
StartListens ==
  \A c \in Controllers :
    /\ lpc[c] = "socket" ~> lpc[c] = "bind" \/ ~running[c]
    /\ lpc[c] = "bind" ~> Listening(c) \/ lpc[c] = "exited" \/ ~running[c]

=============================================================================
