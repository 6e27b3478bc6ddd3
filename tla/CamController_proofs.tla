----------------------- MODULE CamController_proofs -----------------------
(***************************************************************************)
(* Theorems about CamController for every set of controllers, threads,     *)
(* hosts and descriptors.                                                  *)
(***************************************************************************)
EXTENDS CamController, TLAPS

\* Constants of the right kind, and the facts about packets and results that
\* type correctness needs.
LEMMA PacketTypes ==
  /\ NoPacket \in Packet
  /\ NoResult \in Result
  /\ \A s \in Sockets : Datagram(s) \subseteq Packet
  /\ \A p \in Packet : LastResult(p) \in Result /\ PtzResult(p) \in Result
BY DEF NoPacket, Packet, NoResult, Result, Codes, Datagram, LastResult,
       PtzResult, HasPtz

\* Every controller and every thread has a socket.
LEMMA SocketsExist ==
  /\ Controllers \subseteq Sockets
  /\ Threads \subseteq Sockets
  /\ Controllers \cap Threads = {}
  /\ None \notin Sockets
  /\ None \notin Hosts
BY ControllerAssumption, PacketAssumption

\* A system call reaches a socket or nothing.
LEMMA AtType ==
  ASSUME TypeOK, NEW f
  PROVE  At(f) \in Sockets \cup {None}
BY DEF TypeOK, At

\* close leaves a descriptor table behind.
LEMMA CloseType ==
  ASSUME TypeOK, NEW f, Close(f)
  PROVE  fds' \in [Fds -> Sockets \cup {None}]
BY DEF TypeOK, Close

\* A result is typed when its parts are.
LEMMA ReturnsType ==
  ASSUME TypeOK, NEW t \in Threads, NEW code \in Codes, NEW p \in Packet,
         NEW call \in {"none", "start", "get_last", "get_ptz", "set_ptz"},
         Returns(t, call, code, p)
  PROVE  ret' \in [Threads -> Result]
BY DEF TypeOK, Returns, Result

\* A blocked recvfrom is on a socket.
LEMMA BlockType ==
  ASSUME TypeOK, NEW p \in Sockets, NEW s \in Sockets, Block(p, s)
  PROVE  held' \in [Sockets -> [on : Sockets \cup {None}, timed : BOOLEAN]]
BY DEF Block, TypeOK

\* Setting or clearing options of a socket.
LEMMA OptionsType ==
  ASSUME TypeOK, NEW s \in Sockets, NEW o \in SUBSET SocketOptions,
         skt' \in {skt, [skt EXCEPT ![s] = @ \cup o], [skt EXCEPT ![s] = @ \ o]}
  PROVE  skt' \in [Sockets -> SUBSET SocketOptions]
<1>1. skt \in [Sockets -> SUBSET SocketOptions]
  BY DEF TypeOK
<1>2. /\ skt[s] \cup o \in SUBSET SocketOptions
      /\ skt[s] \ o \in SUBSET SocketOptions
  BY <1>1
<1> QED
  BY <1>1, <1>2

\* socket() gives a descriptor to a socket with no option set.
LEMMA OpenType ==
  ASSUME TypeOK, NEW f \in Fds, NEW s \in Sockets, Open(f, s)
  PROVE  /\ fds' \in [Fds -> Sockets \cup {None}]
         /\ skt' \in [Sockets -> SUBSET SocketOptions]
<1>1. /\ skt \in [Sockets -> SUBSET SocketOptions]
      /\ fds \in [Fds -> Sockets \cup {None}]
  BY DEF TypeOK
<1> QED
  BY <1>1 DEF Open

\* A recvfrom returns a packet sent to the socket it was called on.
LEMMA ArrivalType ==
  ASSUME TypeOK, NEW s \in Sockets, NEW p \in Arrival(s)
  PROVE  /\ p \in Packet
         /\ p.src \in Hosts
BY PacketTypes DEF TypeOK, Arrival, Datagram, Packet

\* Every variable keeps its type: a descriptor is a number of the table or -1,
\* a cached packet came from a host or was never received.
THEOREM TypeCorrect == Spec => []TypeOK
<1>1. Init => TypeOK
  BY PacketTypes, SocketsExist DEF Init, TypeOK, NoFd, NoTarget, NotBlocked
<1>2. TypeOK /\ [Next]_vars => TypeOK'
  <2> SUFFICES ASSUME TypeOK, [Next]_vars
               PROVE  TypeOK'
    OBVIOUS
  <2> USE SocketsExist DEF objVars, cacheVars, lsnVars, apiVars, kernelVars
  <2>1. ASSUME NEW t \in Threads, NEW c \in Controllers, cam_controller_create(t, c)
        PROVE  TypeOK'
    BY <2>1, PacketTypes DEF cam_controller_create, TypeOK, NoFd
  <2>2. ASSUME NEW t \in Threads, NEW c \in Controllers, cam_controller_start_ex(t, c)
        PROVE  TypeOK'
    <3>1. ret' \in [Threads -> Result]
      <4>1. PICK code \in {-3, -2, 0} : Returns(t, "start", code, NoPacket)
        BY <2>2 DEF cam_controller_start_ex, StartAccepted, StartNoThread
      <4> QED
        BY <4>1, ReturnsType, PacketTypes DEF Codes
    <3>2. \/ UNCHANGED is_multicast
          \/ \E b \in BOOLEAN : is_multicast' = [is_multicast EXCEPT ![c] = b]
      BY <2>2, ControllerAssumption DEF cam_controller_start_ex
    <3>3. \/ UNCHANGED <<running, lpc>>
          \/ /\ running' = [running EXCEPT ![c] = TRUE]
             /\ lpc' = [lpc EXCEPT ![c] = "socket"]
      BY <2>2 DEF cam_controller_start_ex, StartAccepted, StartNoThread
    <3>4. UNCHANGED <<exists, sock, cacheVars, lfd, buf, pc, target, tfd, kernelVars>>
      BY <2>2 DEF cam_controller_start_ex
    <3> QED
      BY <3>1, <3>2, <3>3, <3>4 DEF TypeOK, ListenerPcs
  <2>3. ASSUME NEW t \in Threads, NEW c \in Controllers, cam_controller_stop(t, c)
        PROVE  TypeOK'
    BY <2>3 DEF cam_controller_stop, StopFlag, StopPcs, TypeOK
  <2>4. ASSUME NEW t \in Threads, NEW c \in Controllers, cam_controller_destroy(t, c)
        PROVE  TypeOK'
    <3>1. CASE StopFlag(t, c, TRUE) /\ UNCHANGED exists
      BY <2>4, <3>1 DEF cam_controller_destroy, StopFlag, StopPcs, TypeOK
    <3>2. CASE exists' = [exists EXCEPT ![c] = FALSE] /\ UNCHANGED <<running, pc, target>>
      BY <2>4, <3>2 DEF cam_controller_destroy, TypeOK
    <3> QED
      BY <2>4, <3>1, <3>2 DEF cam_controller_destroy
  <2>5. ASSUME NEW t \in Threads, StopSock(t)
        PROVE  TypeOK'
    <3>1. skt' \in [Sockets -> SUBSET SocketOptions]
      <4>1. \/ UNCHANGED skt
            \/ \E s \in Sockets : skt' = [skt EXCEPT ![s] = @ \ {"member"}]
        BY <2>5, AtType DEF StopSock, LeaveGroup
      <4>2. {"member"} \in SUBSET SocketOptions
        BY DEF SocketOptions
      <4>3. skt \in [Sockets -> SUBSET SocketOptions]
        BY DEF TypeOK
      <4> QED
        BY <4>1, <4>2, <4>3, OptionsType
    <3>2. \E p \in StopPcs : pc' = [pc EXCEPT ![t] = p]
      BY <2>5 DEF StopSock, StopPcs
    <3>3. UNCHANGED <<objVars, cacheVars, lsnVars, target, tfd, ret, fds, held>>
      BY <2>5 DEF StopSock
    <3> QED
      BY <3>1, <3>2, <3>3 DEF TypeOK
  <2>6. ASSUME NEW t \in Threads, StopClose(t)
        PROVE  TypeOK'
    BY <2>6, CloseType DEF StopClose, StopPcs, NoFd, TypeOK
  <2>7. ASSUME NEW t \in Threads, StopJoin(t)
        PROVE  TypeOK'
    BY <2>7 DEF StopJoin, NoTarget, TypeOK
  <2>8. ASSUME NEW t \in Threads, NEW c \in Controllers, cam_controller_get_last(t, c)
        PROVE  TypeOK'
    BY <2>8, PacketTypes DEF cam_controller_get_last, TypeOK
  <2>9. ASSUME NEW t \in Threads, NEW c \in Controllers, NEW h \in Hosts \cup {None},
               cam_controller_get_ptz(t, c, h)
        PROVE  TypeOK'
    BY <2>9, PacketTypes DEF cam_controller_get_ptz, TypeOK
  <2>10. ASSUME NEW t \in Threads, SendSocket(t)
         PROVE  TypeOK'
    <3>1. CASE Returns(t, "set_ptz", -1, NoPacket) /\ UNCHANGED <<pc, tfd, fds, skt>>
      <4>1. ret' \in [Threads -> Result]
        BY <3>1, ReturnsType, PacketTypes DEF Codes
      <4> QED
        BY <2>10, <3>1, <4>1 DEF SendSocket, TypeOK
    <3>2. ASSUME NEW f \in Fds, Open(f, t),
                 tfd' = [tfd EXCEPT ![t] = f],
                 pc' = [pc EXCEPT ![t] = "sendTo"],
                 ret' = [ret EXCEPT ![t] = NoResult]
          PROVE  TypeOK'
      BY <2>10, <3>2, PacketTypes DEF SendSocket, Open, SendPcs, TypeOK
    <3> QED
      BY <2>10, <3>1, <3>2 DEF SendSocket
  <2>11. ASSUME NEW t \in Threads, SendTo(t)
         PROVE  TypeOK'
    <3>1. UNCHANGED ret \/ ret' \in [Threads -> Result]
      BY <2>11, ReturnsType, PacketTypes DEF SendTo, Codes
    <3>2. skt' \in [Sockets -> SUBSET SocketOptions]
      <4>1. \/ UNCHANGED skt
            \/ \E s \in Sockets : skt' = [skt EXCEPT ![s] = @ \cup {"bound"}]
        BY <2>11, AtType DEF SendTo
      <4>2. {"bound"} \in SUBSET SocketOptions
        BY DEF SocketOptions
      <4>3. skt \in [Sockets -> SUBSET SocketOptions]
        BY DEF TypeOK
      <4> QED
        BY <4>1, <4>2, <4>3, OptionsType
    <3>3. \E p \in SendPcs : pc' = [pc EXCEPT ![t] = p]
      BY <2>11 DEF SendTo, SendPcs
    <3>4. UNCHANGED <<objVars, cacheVars, lsnVars, target, tfd, fds, held>>
      BY <2>11 DEF SendTo
    <3> QED
      BY <3>1, <3>2, <3>3, <3>4 DEF TypeOK
  <2>12. ASSUME NEW t \in Threads, SendRecv(t)
         PROVE  TypeOK'
    <3>1. UNCHANGED ret \/ ret' \in [Threads -> Result]
      BY <2>12, ReturnsType, PacketTypes DEF SendRecv, Codes
    <3>2. skt' \in [Sockets -> SUBSET SocketOptions]
      <4>1. \/ UNCHANGED skt
            \/ \E s \in Sockets, o \in SUBSET SocketOptions :
                 skt' = [skt EXCEPT ![s] = @ \cup o]
        BY <2>12, AtType DEF SendRecv, SocketOptions
      <4>2. skt \in [Sockets -> SUBSET SocketOptions]
        BY DEF TypeOK
      <4> QED
        BY <4>1, <4>2, OptionsType
    <3>3. UNCHANGED held \/ \E s \in Sockets : Block(t, s)
      BY <2>12, AtType DEF SendRecv
    <3>6. held' \in [Sockets -> [on : Sockets \cup {None}, timed : BOOLEAN]]
      BY <3>3, BlockType DEF TypeOK
    <3>4. \E p \in SendPcs : pc' = [pc EXCEPT ![t] = p]
      BY <2>12 DEF SendRecv, SendPcs
    <3>5. UNCHANGED <<objVars, cacheVars, lsnVars, target, tfd, fds>>
      BY <2>12 DEF SendRecv
    <3> QED
      BY <3>1, <3>2, <3>4, <3>5, <3>6 DEF TypeOK
  <2>13. ASSUME NEW t \in Threads, SendTimeout(t)
         PROVE  TypeOK'
    <3>1. ret' \in [Threads -> Result]
      BY <2>13, ReturnsType, PacketTypes DEF SendTimeout, Codes
    <3> QED
      BY <2>13, <3>1 DEF SendTimeout, Unblock, NotBlocked, SendPcs, TypeOK
  <2>14. ASSUME NEW t \in Threads, SendReply(t)
         PROVE  TypeOK'
    <3>1. ret' \in [Threads -> Result]
      <4>1. PICK p \in Arrival(t) :
              Returns(t, "set_ptz", IF p.kind = "empty" THEN 0 ELSE 1, p)
        BY <2>14 DEF SendReply
      <4>2. p \in Packet
        BY ArrivalType
      <4> QED
        BY <4>1, <4>2, ReturnsType DEF Codes
    <3> QED
      BY <2>14, <3>1 DEF SendReply, Unblock, NotBlocked, SendPcs, TypeOK
  <2>15. ASSUME NEW t \in Threads, SendClose(t)
         PROVE  TypeOK'
    BY <2>15, CloseType DEF SendClose, NoFd, TypeOK
  <2>16. ASSUME NEW c \in Controllers, LsnSocket(c)
         PROVE  TypeOK'
    <3>1. UNCHANGED <<fds, skt>> \/ \E f \in Fds : Open(f, c)
      BY <2>16 DEF LsnSocket
    <3>2. \/ UNCHANGED <<sock, lfd>>
          \/ \E f \in Fds : /\ sock' = [sock EXCEPT ![c] = f]
                            /\ lfd' = [lfd EXCEPT ![c] = f]
      BY <2>16 DEF LsnSocket
    <3>3. \E p \in ListenerPcs : lpc' = [lpc EXCEPT ![c] = p]
      BY <2>16 DEF LsnSocket, ListenerPcs
    <3>4. UNCHANGED <<exists, running, is_multicast, cacheVars, buf, apiVars, held>>
      BY <2>16 DEF LsnSocket
    <3>5. fds' \in [Fds -> Sockets \cup {None}] /\ skt' \in [Sockets -> SUBSET SocketOptions]
      BY <3>1, OpenType DEF TypeOK
    <3>6. /\ sock' \in [Controllers -> Fds \cup {NoFd}]
          /\ lfd' \in [Controllers -> Fds \cup {NoFd}]
      <4>1. /\ sock \in [Controllers -> Fds \cup {NoFd}]
            /\ lfd \in [Controllers -> Fds \cup {NoFd}]
        BY DEF TypeOK
      <4> QED
        BY <3>2, <4>1
    <3>7. lpc' \in [Controllers -> ListenerPcs \cup {"none"}]
      BY <3>3 DEF TypeOK
    <3> QED
      BY <3>4, <3>5, <3>6, <3>7 DEF TypeOK
  <2>17. ASSUME NEW c \in Controllers, LsnBind(c)
         PROVE  TypeOK'
    <3>1. skt' \in [Sockets -> SUBSET SocketOptions]
      <4>1. \/ UNCHANGED skt
            \/ \E s \in Sockets : skt' = [skt EXCEPT ![s] = @ \cup {"bound"}]
        BY <2>17, AtType DEF LsnBind, Bindable
      <4>2. {"bound"} \in SUBSET SocketOptions
        BY DEF SocketOptions
      <4>3. skt \in [Sockets -> SUBSET SocketOptions]
        BY DEF TypeOK
      <4> QED
        BY <4>1, <4>2, <4>3, OptionsType
    <3>2. \E p \in ListenerPcs : lpc' = [lpc EXCEPT ![c] = p]
      BY <2>17 DEF LsnBind, ListenerPcs
    <3>3. UNCHANGED <<objVars, cacheVars, lfd, buf, apiVars, fds, held>>
      BY <2>17 DEF LsnBind
    <3> QED
      BY <3>1, <3>2, <3>3 DEF TypeOK
  <2>18. ASSUME NEW c \in Controllers, LsnConfig(c)
         PROVE  TypeOK'
    <3>1. skt' \in [Sockets -> SUBSET SocketOptions]
      <4>1. \/ UNCHANGED skt
            \/ \E s \in Sockets, o \in SUBSET SocketOptions :
                 skt' = [skt EXCEPT ![s] = @ \cup o]
        BY <2>18, AtType DEF LsnConfig, SocketOptions
      <4>2. skt \in [Sockets -> SUBSET SocketOptions]
        BY DEF TypeOK
      <4> QED
        BY <4>1, <4>2, OptionsType
    <3>2. \/ UNCHANGED is_multicast
          \/ is_multicast' = [is_multicast EXCEPT ![c] = FALSE]
      BY <2>18 DEF LsnConfig
    <3>3. lpc' = [lpc EXCEPT ![c] = "loop"]
      BY <2>18 DEF LsnConfig
    <3>4. UNCHANGED <<exists, running, sock, cacheVars, lfd, buf, apiVars, fds, held>>
      BY <2>18 DEF LsnConfig
    <3> QED
      BY <3>1, <3>2, <3>3, <3>4 DEF TypeOK, ListenerPcs
  <2>19. ASSUME NEW c \in Controllers, LsnLoop(c) \/ LsnClear(c)
         PROVE  TypeOK'
    BY <2>19 DEF LsnLoop, LsnClear, ListenerPcs, NoFd, TypeOK
  <2>20. ASSUME NEW c \in Controllers, LsnRecv(c)
         PROVE  TypeOK'
    <3>1. UNCHANGED held \/ \E s \in Sockets : Block(c, s)
      BY <2>20, AtType DEF LsnRecv
    <3>4. held' \in [Sockets -> [on : Sockets \cup {None}, timed : BOOLEAN]]
      BY <3>1, BlockType DEF TypeOK
    <3>2. \E p \in ListenerPcs : lpc' = [lpc EXCEPT ![c] = p]
      BY <2>20 DEF LsnRecv, ListenerPcs
    <3>3. UNCHANGED <<objVars, cacheVars, lfd, buf, apiVars, fds, skt>>
      BY <2>20 DEF LsnRecv
    <3> QED
      BY <3>2, <3>3, <3>4 DEF TypeOK
  <2>21. ASSUME NEW c \in Controllers, LsnTimeout(c)
         PROVE  TypeOK'
    BY <2>21 DEF LsnTimeout, Unblock, NotBlocked, ListenerPcs, TypeOK
  <2>22. ASSUME NEW c \in Controllers, LsnDatagram(c)
         PROVE  TypeOK'
    BY <2>22, ArrivalType DEF LsnDatagram, Unblock, NotBlocked, ListenerPcs, TypeOK
  <2>23. ASSUME NEW c \in Controllers, LsnStore(c)
         PROVE  TypeOK'
    BY <2>23 DEF LsnStore, ListenerPcs, TypeOK
  <2>24. ASSUME NEW c \in Controllers, LsnStoreIp(c)
         PROVE  TypeOK'
    BY <2>24, PacketTypes DEF LsnStoreIp, ListenerPcs, TypeOK
  <2>25. ASSUME NEW c \in Controllers, LsnClose(c)
         PROVE  TypeOK'
    BY <2>25, CloseType DEF LsnClose, ListenerPcs, NoFd, TypeOK
  <2>26. CASE UNCHANGED vars
    BY <2>26 DEF vars, TypeOK
  <2> QED
    BY <2>1, <2>2, <2>3, <2>4, <2>5, <2>6, <2>7, <2>8, <2>9, <2>10, <2>11, <2>12,
       <2>13, <2>14, <2>15, <2>16, <2>17, <2>18, <2>19, <2>20, <2>21, <2>22,
       <2>23, <2>24, <2>25, <2>26 DEF Next, ListenerStep, CallStep, Call
<1> QED
  BY <1>1, <1>2, PTL DEF Spec
-----------------------------------------------------------------------------
(***************************************************************************)
(* The life of a controller.  A controller with a joinable listener either *)
(* runs or is being stopped by its owner; nothing stops a controller twice *)
(* or deletes one whose listener has not been joined.                      *)
(***************************************************************************)
LifecycleInv ==
  \A c \in Controllers :
    /\ running[c] => exists[c] /\ lpc[c] # "none"
    /\ lpc[c] # "none" /\ ~running[c] =>
         /\ exists[c]
         /\ pc[OwnerOf[c]] \in StopPcs
         /\ target[OwnerOf[c]].on = c

StopInv ==
  \A t \in Threads : pc[t] \in StopPcs =>
    /\ target[t].on \in Controllers
    /\ OwnerOf[target[t].on] = t
    /\ ~running[target[t].on]
    /\ lpc[target[t].on] # "none"

\* LifecycleInv and StopInv are inductive together: running controllers have a
\* thread to join, and only the owner inside stop or destroy sees one that has
\* a thread and no longer runs.
THEOREM LifecycleInvariant == Spec => [](LifecycleInv /\ StopInv)
<1>1. Init => LifecycleInv /\ StopInv
  BY DEF Init, LifecycleInv, StopInv, StopPcs
<1>2. TypeOK /\ LifecycleInv /\ StopInv /\ [Next]_vars => (LifecycleInv /\ StopInv)'
  <2> SUFFICES ASSUME TypeOK, LifecycleInv, StopInv, [Next]_vars
               PROVE  LifecycleInv' /\ StopInv'
    OBVIOUS
  <2> USE DEF objVars, cacheVars, lsnVars, apiVars, kernelVars
  <2>0. OwnerOf \in [Controllers -> Threads]
    BY ControllerAssumption
  <2>a. /\ exists \in [Controllers -> BOOLEAN]
        /\ running \in [Controllers -> BOOLEAN]
        /\ lpc \in [Controllers -> ListenerPcs \cup {"none"}]
        /\ pc \in [Threads -> {"idle"} \cup StopPcs \cup SendPcs]
        /\ target \in [Threads -> [on : Controllers \cup {None}, delete : BOOLEAN]]
    BY DEF TypeOK
  \* Steps that touch none of exists, running, target, and move a listener or
  \* a thread without changing what the invariant says of it.
  <2>b. ASSUME UNCHANGED <<exists, running, target, lpc>>,
               \A t \in Threads : pc[t] \in StopPcs <=> pc'[t] \in StopPcs
        PROVE  LifecycleInv' /\ StopInv'
    BY <2>0, <2>a, <2>b DEF LifecycleInv, StopInv
  <2>c. ASSUME UNCHANGED <<exists, running, target, pc>>,
               \A c \in Controllers : lpc[c] = "none" <=> lpc'[c] = "none"
        PROVE  LifecycleInv' /\ StopInv'
    BY <2>0, <2>a, <2>c DEF LifecycleInv, StopInv
  <2>1. ASSUME NEW t \in Threads, NEW c \in Controllers, cam_controller_create(t, c)
        PROVE  LifecycleInv' /\ StopInv'
    BY <2>0, <2>a, <2>1 DEF cam_controller_create, LifecycleInv, StopInv, Outside, StopPcs
  <2>2. ASSUME NEW t \in Threads, NEW c \in Controllers, cam_controller_start_ex(t, c)
        PROVE  LifecycleInv' /\ StopInv'
    <3>1. CASE UNCHANGED <<running, lpc>>
      BY <2>b, <2>2, <3>1 DEF cam_controller_start_ex
    <3>2. CASE ~running[c] /\ StartAccepted(t, c)
      <4>1. /\ running' = [running EXCEPT ![c] = TRUE]
            /\ lpc' = [lpc EXCEPT ![c] = "socket"]
            /\ UNCHANGED <<exists, pc, target>>
            /\ pc[t] \notin StopPcs /\ OwnerOf[c] = t /\ exists[c]
        BY <2>2, <3>2 DEF cam_controller_start_ex, StartAccepted, Outside, StopPcs
      <4> QED
        BY <2>0, <2>a, <4>1 DEF LifecycleInv, StopInv
    <3> QED
      BY <2>2, <3>1, <3>2 DEF cam_controller_start_ex, StartNoThread
  <2>3. ASSUME NEW t \in Threads, NEW c \in Controllers, NEW delete \in BOOLEAN,
               Outside(t), OwnerOf[c] = t, running[c], StopFlag(t, c, delete),
               UNCHANGED <<exists, lpc>>
        PROVE  LifecycleInv' /\ StopInv'
    BY <2>0, <2>a, <2>3 DEF StopFlag, Outside, LifecycleInv, StopInv, StopPcs
  <2>4. ASSUME NEW t \in Threads, NEW c \in Controllers, cam_controller_stop(t, c)
        PROVE  LifecycleInv' /\ StopInv'
    BY <2>3, <2>4 DEF cam_controller_stop
  <2>5. ASSUME NEW t \in Threads, NEW c \in Controllers, cam_controller_destroy(t, c)
        PROVE  LifecycleInv' /\ StopInv'
    <3>1. CASE running[c]
      BY <2>3, <2>5, <3>1 DEF cam_controller_destroy
    <3>2. CASE ~running[c]
      <4>1. /\ exists' = [exists EXCEPT ![c] = FALSE]
            /\ UNCHANGED <<running, pc, target, lpc>>
        BY <2>5, <3>2 DEF cam_controller_destroy
      <4>2. lpc[c] = "none"
        BY <2>5, <3>2 DEF cam_controller_destroy, Outside, LifecycleInv, StopPcs
      <4> QED
        BY <2>0, <2>a, <3>2, <4>1, <4>2 DEF LifecycleInv, StopInv
    <3> QED
      BY <3>1, <3>2
  <2>6. ASSUME NEW t \in Threads, StopSock(t) \/ StopClose(t)
        PROVE  LifecycleInv' /\ StopInv'
    <3>1. UNCHANGED <<exists, running, target, lpc>>
      BY <2>6 DEF StopSock, StopClose
    <3>2. \A u \in Threads : pc[u] \in StopPcs <=> pc'[u] \in StopPcs
      BY <2>a, <2>6 DEF StopSock, StopClose, StopPcs
    <3> QED
      BY <2>b, <3>1, <3>2
  <2>7. ASSUME NEW t \in Threads, StopJoin(t)
        PROVE  LifecycleInv' /\ StopInv'
    BY <2>0, <2>a, <2>7 DEF StopJoin, LifecycleInv, StopInv, StopPcs
  <2>8. ASSUME NEW t \in Threads, NEW c \in Controllers, NEW h \in Hosts \cup {None},
               cam_controller_get_last(t, c) \/ cam_controller_get_ptz(t, c, h)
        PROVE  LifecycleInv' /\ StopInv'
    BY <2>b, <2>8 DEF cam_controller_get_last, cam_controller_get_ptz
  <2>9. ASSUME NEW t \in Threads,
               \/ SendSocket(t) \/ SendTo(t) \/ SendRecv(t)
               \/ SendTimeout(t) \/ SendReply(t) \/ SendClose(t)
        PROVE  LifecycleInv' /\ StopInv'
    <3>1. UNCHANGED <<exists, running, target, lpc>>
      BY <2>9 DEF SendSocket, SendTo, SendRecv, SendTimeout, SendReply, SendClose
    <3>2. /\ pc[t] \notin StopPcs
          /\ UNCHANGED pc \/ \E p \in {"idle"} \cup SendPcs : pc' = [pc EXCEPT ![t] = p]
      BY <2>9 DEF SendSocket, SendTo, SendRecv, SendTimeout, SendReply, SendClose,
                  Outside, StopPcs, SendPcs
    <3>3. \A u \in Threads : pc[u] \in StopPcs <=> pc'[u] \in StopPcs
      BY <2>a, <3>2 DEF StopPcs, SendPcs
    <3> QED
      BY <2>b, <3>1, <3>3
  <2>10. ASSUME NEW c \in Controllers, ListenerStep(c) \/ LsnDatagram(c)
         PROVE  LifecycleInv' /\ StopInv'
    <3>1. UNCHANGED <<exists, running, target, pc>>
      BY <2>10 DEF ListenerStep, LsnSocket, LsnBind, LsnConfig, LsnLoop, LsnRecv,
                   LsnTimeout, LsnDatagram, LsnStore, LsnStoreIp, LsnClose, LsnClear
    <3>2. /\ lpc[c] # "none"
          /\ \E p \in ListenerPcs : lpc' = [lpc EXCEPT ![c] = p]
      BY <2>10 DEF ListenerStep, LsnSocket, LsnBind, LsnConfig, LsnLoop, LsnRecv,
                   LsnTimeout, LsnDatagram, LsnStore, LsnStoreIp, LsnClose, LsnClear,
                   ListenerPcs
    <3>3. \A d \in Controllers : lpc[d] = "none" <=> lpc'[d] = "none"
      BY <2>a, <3>2 DEF ListenerPcs
    <3> QED
      BY <2>c, <3>1, <3>3
  <2>11. CASE UNCHANGED vars
    BY <2>b, <2>11 DEF vars
  <2> QED
    BY <2>1, <2>2, <2>4, <2>5, <2>6, <2>7, <2>8, <2>9, <2>10, <2>11
       DEF Next, CallStep, Call
<1> QED
  BY <1>1, <1>2, TypeCorrect, PTL DEF Spec

\* The owner is outside the library, so no joinable thread is left.
LEMMA JoinedFromLifecycle == LifecycleInv => ThreadJoined
BY DEF LifecycleInv, ThreadJoined, Outside, StopPcs

\* start_ex never assigns to a joinable thread, destroy never deletes one.
THEOREM JoinedBeforeReuse == Spec => []ThreadJoined
BY LifecycleInvariant, JoinedFromLifecycle, PTL

\* Nothing is stored in a controller that has been stopped.
THEOREM NothingStoredAfterStop == Spec => FrozenAfterStop
<1> DEFINE Frozen ==
      \A c \in Controllers :
        exists[c] /\ exists'[c] /\ ~running[c] /\ Outside(OwnerOf[c])
          => UNCHANGED <<last_packet[c], packets_by_ip[c]>>
<1>1. TypeOK /\ LifecycleInv /\ [Next]_vars => [Frozen]_vars
  <2> SUFFICES ASSUME TypeOK, LifecycleInv, Next,
                      NEW c \in Controllers,
                      exists[c], ~running[c], Outside(OwnerOf[c])
               PROVE  UNCHANGED <<last_packet[c], packets_by_ip[c]>>
    OBVIOUS
  <2> USE DEF objVars, cacheVars, lsnVars, apiVars, kernelVars
  <2>1. lpc[c] = "none"
    BY DEF LifecycleInv, Outside, StopPcs
  <2>2. /\ last_packet \in [Controllers -> Packet]
        /\ packets_by_ip \in [Controllers -> [Hosts -> Packet]]
    BY DEF TypeOK
  <2>3. ASSUME NEW d \in Controllers, LsnStore(d)
        PROVE  UNCHANGED <<last_packet[c], packets_by_ip[c]>>
    <3>1. c # d
      BY <2>1, <2>3 DEF LsnStore
    <3> QED
      BY <2>2, <2>3, <3>1 DEF LsnStore
  <2>4. ASSUME NEW d \in Controllers, LsnStoreIp(d)
        PROVE  UNCHANGED <<last_packet[c], packets_by_ip[c]>>
    <3>1. c # d
      BY <2>1, <2>4 DEF LsnStoreIp
    <3> QED
      BY <2>2, <2>4, <3>1 DEF LsnStoreIp
  <2>5. ASSUME NEW t \in Threads, NEW d \in Controllers, cam_controller_create(t, d)
        PROVE  UNCHANGED <<last_packet[c], packets_by_ip[c]>>
    <3>1. c # d
      BY <2>5 DEF cam_controller_create
    <3> QED
      BY <2>2, <2>5, <3>1 DEF cam_controller_create
  <2>6. ASSUME NEW d \in Controllers,
               \/ LsnSocket(d) \/ LsnBind(d) \/ LsnConfig(d) \/ LsnLoop(d) \/ LsnRecv(d)
               \/ LsnTimeout(d) \/ LsnDatagram(d) \/ LsnClose(d) \/ LsnClear(d)
        PROVE  UNCHANGED <<last_packet, packets_by_ip>>
    BY <2>6 DEF LsnSocket, LsnBind, LsnConfig, LsnLoop, LsnRecv, LsnTimeout,
                LsnDatagram, LsnClose, LsnClear
  <2>7. ASSUME NEW t \in Threads, NEW d \in Controllers, NEW h \in Hosts \cup {None},
               \/ cam_controller_start_ex(t, d) \/ cam_controller_stop(t, d)
               \/ cam_controller_destroy(t, d) \/ cam_controller_get_last(t, d)
               \/ cam_controller_get_ptz(t, d, h)
        PROVE  UNCHANGED <<last_packet, packets_by_ip>>
    BY <2>7 DEF cam_controller_start_ex, cam_controller_stop, cam_controller_destroy,
                cam_controller_get_last, cam_controller_get_ptz
  <2>8. ASSUME NEW t \in Threads,
               \/ CallStep(t) \/ SendSocket(t) \/ SendReply(t)
        PROVE  UNCHANGED <<last_packet, packets_by_ip>>
    BY <2>8 DEF CallStep, StopSock, StopClose, StopJoin, SendSocket, SendTo,
                SendRecv, SendTimeout, SendReply, SendClose
  <2> QED
    BY <2>3, <2>4, <2>5, <2>6, <2>7, <2>8 DEF Next, ListenerStep, Call
<1> QED
  BY <1>1, TypeCorrect, LifecycleInvariant, PTL DEF Spec, FrozenAfterStop

-----------------------------------------------------------------------------
(***************************************************************************)
(* Descriptors.  A number names the socket of a listener, or of a set_ptz, *)
(* only while that thread is between its socket() and its close(), and     *)
(* then it is the number the thread holds.  The converse does not hold:    *)
(* the number a thread holds may name nothing, or the socket of another.   *)
(***************************************************************************)
OpenPcs == {"bind", "config", "loop", "recv", "blocked", "store", "storeIp", "close"}

DescriptorInv ==
  \A f \in Fds :
    /\ \A c \in Controllers : fds[f] = c => lfd[c] = f /\ lpc[c] \in OpenPcs
    /\ \A t \in Threads : fds[f] = t => tfd[t] = f /\ pc[t] \in SendPcs

\* DescriptorInv is inductive, since a socket is opened only by a thread that
\* has none.
THEOREM DescriptorInvariant == Spec => []DescriptorInv
<1>1. Init => DescriptorInv
  BY SocketsExist DEF Init, DescriptorInv
<1>2. TypeOK /\ LifecycleInv /\ DescriptorInv /\ [Next]_vars => DescriptorInv'
  <2> SUFFICES ASSUME TypeOK, LifecycleInv, DescriptorInv, [Next]_vars
               PROVE  DescriptorInv'
    OBVIOUS
  <2> USE SocketsExist DEF objVars, cacheVars, lsnVars, apiVars, kernelVars
  <2>a. /\ fds \in [Fds -> Sockets \cup {None}]
        /\ lpc \in [Controllers -> ListenerPcs \cup {"none"}]
        /\ pc \in [Threads -> {"idle"} \cup StopPcs \cup SendPcs]
        /\ lfd \in [Controllers -> Fds \cup {NoFd}]
        /\ tfd \in [Threads -> Fds \cup {NoFd}]
    BY DEF TypeOK
  \* Closing a descriptor only frees a number.
  <2>b. ASSUME NEW f, Close(f)
        PROVE  \A g \in Fds : fds'[g] \in {fds[g], None}
    BY <2>a, <2>b DEF Close
  \* The number given to a new socket names it, and no other number changes.
  <2>c. ASSUME NEW f \in Fds, NEW s \in Sockets, Open(f, s)
        PROVE  \A g \in Fds : fds'[g] = IF g = f THEN s ELSE fds[g]
    BY <2>a, <2>c DEF Open
  <2>d. ASSUME UNCHANGED <<lfd, tfd>>,
               \A g \in Fds : fds'[g] \in {fds[g], None},
               \A c \in Controllers : lpc[c] \in OpenPcs => lpc'[c] \in OpenPcs,
               \A t \in Threads : pc[t] \in SendPcs => pc'[t] \in SendPcs
        PROVE  DescriptorInv'
    BY <2>d DEF DescriptorInv
  <2>1. ASSUME NEW t \in Threads, NEW c \in Controllers, NEW h \in Hosts \cup {None},
               \/ cam_controller_create(t, c) \/ cam_controller_start_ex(t, c)
               \/ cam_controller_stop(t, c) \/ cam_controller_destroy(t, c)
               \/ cam_controller_get_last(t, c) \/ cam_controller_get_ptz(t, c, h)
        PROVE  DescriptorInv'
    <3>1. UNCHANGED <<lfd, tfd, fds>>
      BY <2>1 DEF cam_controller_create, cam_controller_start_ex,
                  cam_controller_stop, cam_controller_destroy,
                  cam_controller_get_last, cam_controller_get_ptz
    <3>2. /\ pc[t] \notin SendPcs
          /\ UNCHANGED pc \/ \E p \in StopPcs : pc' = [pc EXCEPT ![t] = p]
      BY <2>1 DEF cam_controller_create, cam_controller_start_ex, cam_controller_stop,
                  cam_controller_destroy, cam_controller_get_last,
                  cam_controller_get_ptz, StopFlag, Outside, StopPcs, SendPcs
    <3>3. \A d \in Controllers : lpc[d] \in OpenPcs => lpc'[d] = lpc[d]
      <4>1. CASE UNCHANGED lpc
        BY <4>1
      <4>2. CASE cam_controller_start_ex(t, c) /\ ~running[c] /\ StartAccepted(t, c)
        <5>1. lpc[c] = "none"
          BY <4>2 DEF cam_controller_start_ex, LifecycleInv, Outside, StopPcs
        <5> QED
          BY <2>a, <4>2, <5>1 DEF StartAccepted, OpenPcs
      <4> QED
        BY <2>1, <4>1, <4>2 DEF cam_controller_create, cam_controller_start_ex,
           StartNoThread, cam_controller_stop, cam_controller_destroy,
           cam_controller_get_last, cam_controller_get_ptz
    <3>4. \A u \in Threads : pc[u] \in SendPcs => pc'[u] \in SendPcs
      BY <2>a, <3>2
    <3> QED
      BY <2>d, <3>1, <3>3, <3>4
  <2>2. ASSUME NEW t \in Threads, StopSock(t) \/ StopClose(t) \/ StopJoin(t)
        PROVE  DescriptorInv'
    <3>1. UNCHANGED <<lfd, tfd>> /\ \A g \in Fds : fds'[g] \in {fds[g], None}
      BY <2>2, <2>b DEF StopSock, StopClose, StopJoin
    <3>2. pc[t] \notin SendPcs /\ \E p \in {"idle"} \cup StopPcs : pc' = [pc EXCEPT ![t] = p]
      BY <2>2 DEF StopSock, StopClose, StopJoin, StopPcs, SendPcs
    <3>3. \A c \in Controllers : lpc[c] \in OpenPcs => lpc'[c] \in OpenPcs
      BY <2>a, <2>2 DEF StopSock, StopClose, StopJoin, OpenPcs
    <3>4. \A u \in Threads : pc[u] \in SendPcs => pc'[u] \in SendPcs
      BY <2>a, <3>2
    <3> QED
      BY <2>d, <3>1, <3>3, <3>4
  <2>3. ASSUME NEW t \in Threads, SendSocket(t)
        PROVE  DescriptorInv'
    <3>1. CASE UNCHANGED <<pc, tfd, fds>>
      BY <2>d, <2>3, <3>1 DEF SendSocket
    <3>2. ASSUME NEW f \in Fds, Open(f, t),
                 tfd' = [tfd EXCEPT ![t] = f],
                 pc' = [pc EXCEPT ![t] = "sendTo"]
          PROVE  DescriptorInv'
      <4>1. \A g \in Fds : fds'[g] = IF g = f THEN t ELSE fds[g]
        BY <2>c, <3>2
      <4>2. \A g \in Fds : fds[g] # t
        BY <2>3 DEF SendSocket, Outside, DescriptorInv, SendPcs
      <4>3. UNCHANGED <<lfd, lpc>>
        BY <2>3 DEF SendSocket
      <4> QED
        BY <2>a, <3>2, <4>1, <4>2, <4>3 DEF DescriptorInv, SendPcs
    <3> QED
      BY <2>3, <3>1, <3>2 DEF SendSocket
  <2>4. ASSUME NEW t \in Threads, SendTo(t) \/ SendRecv(t) \/ SendTimeout(t) \/ SendReply(t)
        PROVE  DescriptorInv'
    <3>1. UNCHANGED <<lfd, tfd, fds, lpc>>
      BY <2>4 DEF SendTo, SendRecv, SendTimeout, SendReply
    <3>2. \E p \in SendPcs : pc' = [pc EXCEPT ![t] = p]
      BY <2>4 DEF SendTo, SendRecv, SendTimeout, SendReply, SendPcs
    <3>3. \A u \in Threads : pc[u] \in SendPcs => pc'[u] \in SendPcs
      BY <2>a, <3>2
    <3> QED
      BY <2>d, <3>1, <3>3
  <2>5. ASSUME NEW t \in Threads, SendClose(t)
        PROVE  DescriptorInv'
    <3>1. \A g \in Fds : fds'[g] \in {fds[g], None}
      BY <2>5, <2>b DEF SendClose
    <3>2. \A g \in Fds : fds'[g] # t
      BY <2>a, <2>5 DEF SendClose, Close, DescriptorInv
    <3>3. /\ tfd' = [tfd EXCEPT ![t] = NoFd]
          /\ pc' = [pc EXCEPT ![t] = "idle"]
          /\ UNCHANGED <<lfd, lpc>>
      BY <2>5 DEF SendClose
    <3> QED
      BY <2>a, <3>1, <3>2, <3>3 DEF DescriptorInv
  <2>6. ASSUME NEW c \in Controllers, LsnSocket(c)
        PROVE  DescriptorInv'
    <3>0. lpc[c] \notin OpenPcs /\ UNCHANGED <<tfd, pc>>
      BY <2>6 DEF LsnSocket, OpenPcs
    <3>1. CASE UNCHANGED <<lfd, fds>> /\ lpc' = [lpc EXCEPT ![c] = "exited"]
      BY <2>a, <2>d, <3>0, <3>1
    <3>2. ASSUME NEW f \in Fds, Open(f, c),
                 lfd' = [lfd EXCEPT ![c] = f],
                 lpc' = [lpc EXCEPT ![c] = "bind"]
          PROVE  DescriptorInv'
      <4>1. \A g \in Fds : fds'[g] = IF g = f THEN c ELSE fds[g]
        BY <2>c, <3>2
      <4>2. \A g \in Fds : fds[g] # c
        BY <3>0 DEF DescriptorInv
      <4> QED
        BY <2>a, <3>0, <3>2, <4>1, <4>2 DEF DescriptorInv, OpenPcs
    <3> QED
      BY <2>6, <3>1, <3>2 DEF LsnSocket
  <2>7. ASSUME NEW c \in Controllers,
               \/ LsnBind(c) \/ LsnConfig(c) \/ LsnLoop(c) \/ LsnRecv(c) \/ LsnTimeout(c)
               \/ LsnDatagram(c) \/ LsnStore(c) \/ LsnStoreIp(c)
        PROVE  DescriptorInv'
    <3>1. UNCHANGED <<lfd, tfd, fds, pc>>
      BY <2>7 DEF LsnBind, LsnConfig, LsnLoop, LsnRecv, LsnTimeout, LsnDatagram,
                  LsnStore, LsnStoreIp
    <3>2. \E p \in OpenPcs : lpc' = [lpc EXCEPT ![c] = p]
      BY <2>7 DEF LsnBind, LsnConfig, LsnLoop, LsnRecv, LsnTimeout, LsnDatagram,
                  LsnStore, LsnStoreIp, OpenPcs
    <3>3. \A d \in Controllers : lpc[d] \in OpenPcs => lpc'[d] \in OpenPcs
      BY <2>a, <3>2
    <3> QED
      BY <2>d, <3>1, <3>3
  <2>8. ASSUME NEW c \in Controllers, LsnClose(c)
        PROVE  DescriptorInv'
    <3>1. \A g \in Fds : fds'[g] \in {fds[g], None}
      BY <2>8, <2>b DEF LsnClose
    <3>2. \A g \in Fds : fds'[g] # c
      BY <2>a, <2>8 DEF LsnClose, Close, DescriptorInv
    <3>3. /\ lfd' = [lfd EXCEPT ![c] = NoFd]
          /\ lpc' = [lpc EXCEPT ![c] = "clear"]
          /\ UNCHANGED <<tfd, pc>>
      BY <2>8 DEF LsnClose
    <3> QED
      BY <2>a, <3>1, <3>2, <3>3 DEF DescriptorInv
  <2>9. ASSUME NEW c \in Controllers, LsnClear(c)
        PROVE  DescriptorInv'
    <3>1. /\ UNCHANGED <<lfd, tfd, fds, pc>>
          /\ lpc[c] \notin OpenPcs
          /\ lpc' = [lpc EXCEPT ![c] = "exited"]
      BY <2>9 DEF LsnClear, OpenPcs
    <3> QED
      BY <2>a, <2>d, <3>1
  <2>10. CASE UNCHANGED vars
    BY <2>d, <2>10 DEF vars
  <2> QED
    BY <2>1, <2>2, <2>3, <2>4, <2>5, <2>6, <2>7, <2>8, <2>9, <2>10
       DEF Next, ListenerStep, CallStep, Call
<1> QED
  BY <1>1, <1>2, TypeCorrect, LifecycleInvariant, PTL DEF Spec

\* A thread that is done is not between its socket() and its close().
LEMMA NoLeakFromDescriptors == DescriptorInv => NoSocketLeak
BY DEF DescriptorInv, NoSocketLeak, OpenPcs, SendPcs, Outside

\* Every socket is closed by the time its listener or its call has ended.
THEOREM SocketsAreClosed == Spec => []NoSocketLeak
BY DescriptorInvariant, NoLeakFromDescriptors, PTL

-----------------------------------------------------------------------------
(***************************************************************************)
(* The cache.  The mutex is held exactly between the two stores of a       *)
(* datagram, what is stored came from a host, and outside the critical     *)
(* section the entry of the last sender is the last packet.                *)
(***************************************************************************)
FromHost == [kind : Kinds, src : Hosts, dst : Sockets]

CacheInv ==
  \A c \in Controllers :
    /\ mtx[c] <=> lpc[c] = "storeIp"
    /\ lpc[c] \in {"store", "storeIp"} => buf[c] \in FromHost
    /\ lpc[c] = "storeIp" => last_packet[c] = buf[c]
    /\ lpc[c] # "storeIp" /\ last_packet[c].src # None
         => packets_by_ip[c][last_packet[c].src] = last_packet[c]

\* CacheInv is inductive, given that a deleted controller has no listener.
THEOREM CacheInvariant == Spec => []CacheInv
<1>1. Init => CacheInv
  BY DEF Init, CacheInv, NoPacket
<1>2. TypeOK /\ LifecycleInv /\ CacheInv /\ [Next]_vars => CacheInv'
  <2> SUFFICES ASSUME TypeOK, LifecycleInv, CacheInv, [Next]_vars
               PROVE  CacheInv'
    OBVIOUS
  <2> USE DEF objVars, cacheVars, lsnVars, apiVars, kernelVars
  <2>a. /\ lpc \in [Controllers -> ListenerPcs \cup {"none"}]
        /\ mtx \in [Controllers -> BOOLEAN]
        /\ last_packet \in [Controllers -> Packet]
        /\ packets_by_ip \in [Controllers -> [Hosts -> Packet]]
        /\ buf \in [Controllers -> Packet]
    BY DEF TypeOK
  \* Steps that leave the cache alone and move the listener, if at all,
  \* between places outside the critical section.
  <2>b. ASSUME UNCHANGED <<cacheVars, buf>>,
               \A c \in Controllers :
                 lpc'[c] = lpc[c] \/ {lpc[c], lpc'[c]} \cap {"store", "storeIp"} = {}
        PROVE  CacheInv'
    BY <2>b DEF CacheInv
  <2>1. ASSUME NEW t \in Threads, NEW d \in Controllers, cam_controller_create(t, d)
        PROVE  CacheInv'
    <3>1. lpc[d] = "none"
      BY <2>1 DEF cam_controller_create, LifecycleInv
    <3>2. UNCHANGED <<mtx, lpc, buf>>
      BY <2>1 DEF cam_controller_create
    <3>3. /\ last_packet'[d] = NoPacket
          /\ \A c \in Controllers \ {d} : /\ last_packet'[c] = last_packet[c]
                                          /\ packets_by_ip'[c] = packets_by_ip[c]
      BY <2>a, <2>1 DEF cam_controller_create
    <3> QED
      BY <3>1, <3>2, <3>3 DEF CacheInv, NoPacket
  <2>2. ASSUME NEW t \in Threads, NEW d \in Controllers, cam_controller_start_ex(t, d)
        PROVE  CacheInv'
    <3>1. UNCHANGED <<cacheVars, buf>>
      BY <2>2 DEF cam_controller_start_ex
    <3>2. ~running[d] => lpc[d] = "none"
      BY <2>2 DEF cam_controller_start_ex, LifecycleInv, Outside, StopPcs
    <3>3. UNCHANGED lpc \/ (~running[d] /\ lpc' = [lpc EXCEPT ![d] = "socket"])
      BY <2>2 DEF cam_controller_start_ex, StartAccepted, StartNoThread
    <3> QED
      BY <2>a, <2>b, <3>1, <3>2, <3>3
  <2>3. ASSUME NEW t \in Threads, NEW d \in Controllers, NEW h \in Hosts \cup {None},
               \/ cam_controller_stop(t, d) \/ cam_controller_destroy(t, d)
               \/ cam_controller_get_last(t, d) \/ cam_controller_get_ptz(t, d, h)
        PROVE  CacheInv'
    <3>1. UNCHANGED <<cacheVars, buf, lpc>>
      BY <2>3 DEF cam_controller_stop, cam_controller_destroy, cam_controller_get_last,
                  cam_controller_get_ptz
    <3> QED
      BY <2>b, <3>1
  <2>4. ASSUME NEW t \in Threads, StopJoin(t)
        PROVE  CacheInv'
    <3>1. /\ UNCHANGED <<cacheVars, buf>>
          /\ \A c \in Controllers : lpc'[c] = lpc[c] \/ (lpc[c] = "exited" /\ lpc'[c] = "none")
      BY <2>a, <2>4 DEF StopJoin
    <3> QED
      BY <2>b, <3>1
  <2>5. ASSUME NEW d \in Controllers,
               \/ LsnSocket(d) \/ LsnBind(d) \/ LsnConfig(d) \/ LsnLoop(d)
               \/ LsnRecv(d) \/ LsnTimeout(d) \/ LsnClose(d) \/ LsnClear(d)
        PROVE  CacheInv'
    <3>1. UNCHANGED <<cacheVars, buf>>
      BY <2>5 DEF LsnSocket, LsnBind, LsnConfig, LsnLoop, LsnRecv, LsnTimeout,
                  LsnClose, LsnClear
    <3>2. /\ lpc[d] \notin {"store", "storeIp"}
          /\ \E p \in ListenerPcs \ {"store", "storeIp"} : lpc' = [lpc EXCEPT ![d] = p]
      BY <2>5 DEF LsnSocket, LsnBind, LsnConfig, LsnLoop, LsnRecv, LsnTimeout,
                  LsnClose, LsnClear, ListenerPcs
    <3>3. \A c \in Controllers :
            lpc'[c] = lpc[c] \/ {lpc[c], lpc'[c]} \cap {"store", "storeIp"} = {}
      BY <2>a, <3>2
    <3> QED
      BY <2>b, <3>1, <3>3
  <2>6. ASSUME NEW d \in Controllers, LsnDatagram(d)
        PROVE  CacheInv'
    <3>1. PICK p \in Arrival(d) : buf' = [buf EXCEPT ![d] = p]
      BY <2>6 DEF LsnDatagram
    <3>2. p \in FromHost
      BY <3>1, SocketsExist DEF TypeOK, Arrival, Datagram, FromHost
    <3>3. /\ lpc[d] = "blocked"
          /\ lpc' = [lpc EXCEPT ![d] = "store"]
          /\ UNCHANGED cacheVars
      BY <2>6 DEF LsnDatagram
    <3> QED
      BY <2>a, <3>1, <3>2, <3>3 DEF CacheInv
  <2>7. ASSUME NEW d \in Controllers, LsnStore(d)
        PROVE  CacheInv'
    BY <2>a, <2>7 DEF LsnStore, CacheInv
  <2>8. ASSUME NEW d \in Controllers, LsnStoreIp(d)
        PROVE  CacheInv'
    <3>1. /\ lpc[d] = "storeIp"
          /\ lpc' = [lpc EXCEPT ![d] = "loop"]
          /\ mtx' = [mtx EXCEPT ![d] = FALSE]
          /\ buf' = [buf EXCEPT ![d] = NoPacket]
          /\ UNCHANGED last_packet
      BY <2>8 DEF LsnStoreIp
    <3>2. last_packet[d] = buf[d] /\ buf[d].src \in Hosts
      BY <3>1 DEF CacheInv, FromHost
    <3>3. /\ packets_by_ip'[d] = [packets_by_ip[d] EXCEPT ![buf[d].src] = buf[d]]
          /\ \A c \in Controllers \ {d} : packets_by_ip'[c] = packets_by_ip[c]
      BY <2>a, <2>8 DEF LsnStoreIp
    <3>4. packets_by_ip'[d][buf[d].src] = buf[d]
      BY <2>a, <3>2, <3>3
    <3>5. /\ lpc'[d] = "loop" /\ ~mtx'[d]
      BY <2>a, <3>1
    <3>7. packets_by_ip'[d][last_packet'[d].src] = last_packet'[d]
      BY <3>1, <3>2, <3>4
    <3>6. \A c \in Controllers \ {d} :
            /\ lpc'[c] = lpc[c] /\ mtx'[c] = mtx[c] /\ buf'[c] = buf[c]
            /\ last_packet'[c] = last_packet[c]
      BY <2>a, <3>1
    <3>8. SUFFICES ASSUME NEW c \in Controllers
                   PROVE  /\ mtx'[c] <=> lpc'[c] = "storeIp"
                          /\ lpc'[c] \in {"store", "storeIp"} => buf'[c] \in FromHost
                          /\ lpc'[c] = "storeIp" => last_packet'[c] = buf'[c]
                          /\ lpc'[c] # "storeIp" /\ last_packet'[c].src # None
                               => packets_by_ip'[c][last_packet'[c].src] = last_packet'[c]
      BY DEF CacheInv
    <3>9. CASE c = d
      BY <3>5, <3>7, <3>9
    <3>10. CASE c # d
      BY <3>3, <3>6, <3>10 DEF CacheInv
    <3> QED
      BY <3>9, <3>10
  <2>9. ASSUME NEW t \in Threads,
                \/ StopSock(t) \/ StopClose(t) \/ SendSocket(t) \/ SendTo(t)
                \/ SendRecv(t) \/ SendTimeout(t) \/ SendReply(t) \/ SendClose(t)
         PROVE  CacheInv'
    <3>1. UNCHANGED <<cacheVars, buf, lpc>>
      BY <2>9 DEF StopSock, StopClose, SendSocket, SendTo, SendRecv, SendTimeout,
                   SendReply, SendClose
    <3> QED
      BY <2>b, <3>1
  <2>10. CASE UNCHANGED vars
    BY <2>b, <2>10 DEF vars
  <2> QED
    BY <2>1, <2>2, <2>3, <2>4, <2>5, <2>6, <2>7, <2>8, <2>9, <2>10
       DEF Next, ListenerStep, CallStep, Call
<1> QED
  BY <1>1, <1>2, TypeCorrect, LifecycleInvariant, PTL DEF Spec

\* CachesAgree is the last part of CacheInv.
LEMMA AgreementFromCache == CacheInv => CachesAgree
BY DEF CacheInv, CachesAgree

\* get_ptz by the address of the last sender and get_ptz without an address
\* agree, for any number of controllers, threads and hosts.
THEOREM OneLastPacket == Spec => []CachesAgree
BY CacheInvariant, AgreementFromCache, PTL

-----------------------------------------------------------------------------
(***************************************************************************)
(* The controllers implement the registers of StatusCache.                 *)
(***************************************************************************)

\* Both specifications speak of the same packets and results.
LEMMA SamePackets ==
  /\ Cache!NoPacket = NoPacket
  /\ Cache!NoResult = NoResult
  /\ \A s : Cache!Datagram(s) = Datagram(s)
  /\ \A p : Cache!LastResult(p) = LastResult(p)
  /\ \A p : Cache!PtzResult(p) = PtzResult(p)
BY DEF Cache!NoPacket, NoPacket, Cache!NoResult, NoResult, Cache!Datagram, Datagram,
       Cache!LastResult, LastResult, Cache!PtzResult, PtzResult, Cache!HasPtz, HasPtz

\* What a call returns is the result of a read, or makes the thread forget it.
LEMMA ResultMaps ==
  ASSUME TypeOK, NEW t \in Threads, NEW r, ret' = [ret EXCEPT ![t] = r]
  PROVE  lastRead' = [lastRead EXCEPT ![t] =
                        IF r.call \in {"get_last", "get_ptz"} THEN r ELSE NoResult]
BY DEF TypeOK, lastRead

\* get_last and get_ptz answer with their own names, in every case.
LEMMA ReadsAreReads ==
  \A p : /\ LastResult(p).call = "get_last"
         /\ PtzResult(p).call = "get_ptz"
BY DEF LastResult, PtzResult

\* Every step of the controllers, the threads and the network is a step of the
\* registers or leaves them alone: every read is atomic, nothing is received
\* while no listener runs, and a controller keeps what it has received until
\* it is created anew.
THEOREM ReadsAreAtomic == Spec => ImplementsCache
<1>1. Init => Cache!Init
  <2> SUFFICES ASSUME Init
               PROVE  Cache!Init
    OBVIOUS
  <2>1. joinable = [c \in Controllers |-> FALSE]
    BY DEF Init, joinable
  <2>2. received = [c \in Controllers |-> [h \in Hosts |-> NoPacket]]
    BY DEF Init, received
  <2>3. lastRead = [t \in Threads |-> NoResult]
    BY DEF Init, lastRead
  <2>4. last_packet = [c \in Controllers |-> NoPacket]
    BY DEF Init
  <2> QED
    BY <2>1, <2>2, <2>3, <2>4, SamePackets DEF Cache!Init
<1>2. TypeOK /\ LifecycleInv /\ CacheInv /\ [Next]_vars => [Cache!Next]_(Cache!cacheVars)
  <2> SUFFICES ASSUME TypeOK, LifecycleInv, CacheInv, [Next]_vars
               PROVE  Cache!Next \/ UNCHANGED Cache!cacheVars
    OBVIOUS
  <2> USE DEF objVars, cacheVars, lsnVars, apiVars, kernelVars
  <2>a. /\ lpc \in [Controllers -> ListenerPcs \cup {"none"}]
        /\ last_packet \in [Controllers -> Packet]
        /\ packets_by_ip \in [Controllers -> [Hosts -> Packet]]
        /\ buf \in [Controllers -> Packet]
    BY DEF TypeOK
  \* A listener that moves inside or outside the critical section.
  <2>b. ASSUME UNCHANGED packets_by_ip,
               \A c \in Controllers : (lpc[c] = "none") <=> (lpc'[c] = "none"),
               \A c \in Controllers : lpc[c] = "storeIp" \/ lpc'[c] = "storeIp"
                 => lpc'[c] = lpc[c] /\ buf'[c] = buf[c]
        PROVE  UNCHANGED <<joinable, received>>
    BY <2>b DEF joinable, received
  <2>c. ASSUME UNCHANGED <<last_packet, joinable, received>>, UNCHANGED ret
        PROVE  UNCHANGED Cache!cacheVars
    BY <2>c DEF Cache!cacheVars, lastRead
  <2>d. ASSUME UNCHANGED <<last_packet, joinable, received>>,
               NEW t \in Threads, NEW r, ret' = [ret EXCEPT ![t] = r],
               r.call \notin {"get_last", "get_ptz"}
        PROVE  Cache!Next
    <3>1. Cache!Forget(t)
      BY <2>d, ResultMaps, SamePackets DEF Cache!Forget
    <3> QED
      BY <2>d, <3>1 DEF Cache!Next
  <2>1. ASSUME NEW t \in Threads, NEW c \in Controllers, cam_controller_create(t, c)
        PROVE  Cache!Next
    <3>1. lpc[c] = "none"
      BY <2>1 DEF cam_controller_create, LifecycleInv
    <3>2. /\ UNCHANGED <<lpc, buf, ret>>
          /\ last_packet' = [last_packet EXCEPT ![c] = NoPacket]
          /\ packets_by_ip' = [packets_by_ip EXCEPT ![c] = [h \in Hosts |-> NoPacket]]
      BY <2>1 DEF cam_controller_create
    <3>3. UNCHANGED <<joinable, lastRead>> /\ ~joinable[c]
      BY <3>1, <3>2 DEF joinable, lastRead
    <3>4. received' = [received EXCEPT ![c] = [h \in Hosts |-> NoPacket]]
      BY <2>a, <3>1, <3>2 DEF received
    <3>5. Cache!Create(c)
      BY <3>2, <3>3, <3>4, SamePackets DEF Cache!Create
    <3> QED
      BY <3>5 DEF Cache!Next
  <2>2. ASSUME NEW t \in Threads, NEW c \in Controllers, cam_controller_start_ex(t, c)
        PROVE  Cache!Next
    <3>1. UNCHANGED <<cacheVars, buf>>
      BY <2>2 DEF cam_controller_start_ex
    <3>2. CASE UNCHANGED lpc
      <4>1. PICK code : Returns(t, "start", code, NoPacket)
        BY <2>2 DEF cam_controller_start_ex, StartAccepted, StartNoThread
      <4>2. UNCHANGED <<joinable, received>>
        BY <2>b, <3>1, <3>2
      <4> QED
        BY <2>d, <3>1, <4>1, <4>2 DEF Returns
    <3>3. CASE ~running[c] /\ StartAccepted(t, c)
      <4>1. lpc[c] = "none"
        BY <2>2, <3>3 DEF cam_controller_start_ex, LifecycleInv, Outside, StopPcs
      <4>2. lpc' = [lpc EXCEPT ![c] = "socket"]
        BY <3>3 DEF StartAccepted
      <4>3. /\ ~joinable[c]
            /\ joinable' = [joinable EXCEPT ![c] = TRUE]
        BY <2>a, <4>1, <4>2 DEF joinable
      <4>4. UNCHANGED received
        BY <2>a, <3>1, <4>1, <4>2 DEF received
      <4>5. Cache!Forget(t)
        BY <3>1, <3>3, <4>4, ResultMaps, SamePackets
           DEF StartAccepted, Returns, Cache!Forget
      <4> QED
        BY <3>1, <4>3, <4>4, <4>5 DEF Cache!Next, Cache!Listen
    <3> QED
      BY <2>2, <3>2, <3>3 DEF cam_controller_start_ex, StartNoThread
  <2>3. ASSUME NEW t \in Threads, NEW c \in Controllers,
               cam_controller_stop(t, c) \/ cam_controller_destroy(t, c)
        PROVE  UNCHANGED Cache!cacheVars
    <3>1. UNCHANGED <<cacheVars, lpc, buf, ret>>
      BY <2>3 DEF cam_controller_stop, cam_controller_destroy
    <3> QED
      BY <2>b, <2>c, <3>1
  <2>4. ASSUME NEW t \in Threads, StopSock(t) \/ StopClose(t)
        PROVE  UNCHANGED Cache!cacheVars
    <3>1. UNCHANGED <<cacheVars, lpc, buf, ret>>
      BY <2>4 DEF StopSock, StopClose
    <3> QED
      BY <2>b, <2>c, <3>1
  <2>5. ASSUME NEW t \in Threads, NEW c \in Controllers, lpc[c] = "exited",
               lpc' = [lpc EXCEPT ![c] = "none"], UNCHANGED <<cacheVars, buf, ret>>
        PROVE  Cache!Next
    <3>1. /\ joinable[c]
          /\ joinable' = [joinable EXCEPT ![c] = FALSE]
      BY <2>a, <2>5 DEF joinable
    <3>2. UNCHANGED <<received, lastRead>>
      BY <2>a, <2>5 DEF received, lastRead
    <3>3. Cache!Quiet(c)
      BY <2>5, <3>1, <3>2 DEF Cache!Quiet
    <3> QED
      BY <3>3 DEF Cache!Next
  <2>6. ASSUME NEW t \in Threads, StopJoin(t)
        PROVE  Cache!Next \/ UNCHANGED Cache!cacheVars
    <3>1. /\ lpc[target[t].on] = "exited"
          /\ lpc' = [lpc EXCEPT ![target[t].on] = "none"]
          /\ UNCHANGED <<cacheVars, buf, ret>>
      BY <2>6 DEF StopJoin
    <3>2. CASE target[t].on \in Controllers
      BY <2>5, <3>1, <3>2
    <3>3. CASE target[t].on \notin Controllers
      <4>1. lpc' = lpc
        BY <2>a, <3>1, <3>3
      <4> QED
        BY <2>b, <2>c, <3>1, <4>1
    <3> QED
      BY <3>2, <3>3
  <2>7. ASSUME NEW t \in Threads, NEW c \in Controllers, cam_controller_get_last(t, c)
        PROVE  Cache!Next
    <3>1. UNCHANGED <<cacheVars, lpc, buf>>
      BY <2>7 DEF cam_controller_get_last
    <3>2. UNCHANGED <<joinable, received>>
      BY <2>b, <3>1
    <3>3. ret' = [ret EXCEPT ![t] = LastResult(last_packet[c])]
      BY <2>7 DEF cam_controller_get_last
    <3>4. lastRead' = [lastRead EXCEPT ![t] = LastResult(last_packet[c])]
      BY <3>3, ResultMaps, ReadsAreReads
    <3>5. Cache!ReadLast(t, c)
      BY <3>1, <3>2, <3>4, SamePackets DEF Cache!ReadLast
    <3> QED
      BY <3>5 DEF Cache!Next
  <2>8. ASSUME NEW t \in Threads, NEW c \in Controllers, NEW h \in Hosts \cup {None},
               cam_controller_get_ptz(t, c, h)
        PROVE  Cache!Next
    <3> DEFINE p == IF h = None THEN last_packet[c] ELSE packets_by_ip[c][h]
    <3>1. UNCHANGED <<cacheVars, lpc, buf>>
      BY <2>8 DEF cam_controller_get_ptz
    <3>2. UNCHANGED <<joinable, received>>
      BY <2>b, <3>1
    <3>3. ret' = [ret EXCEPT ![t] = PtzResult(p)]
      BY <2>8 DEF cam_controller_get_ptz
    <3>4. received[c] = packets_by_ip[c]
      BY <2>8 DEF cam_controller_get_ptz, CacheInv, received
    <3>5. lastRead' = [lastRead EXCEPT ![t] = PtzResult(p)]
      BY <3>3, ResultMaps, ReadsAreReads
    <3>6. Cache!ReadPtz(t, c, h)
      BY <3>1, <3>2, <3>4, <3>5, SamePackets DEF Cache!ReadPtz
    <3> QED
      BY <3>6 DEF Cache!Next
  <2>9. ASSUME NEW t \in Threads,
               \/ SendSocket(t) \/ SendTo(t) \/ SendRecv(t)
               \/ SendTimeout(t) \/ SendReply(t) \/ SendClose(t)
        PROVE  Cache!Next \/ UNCHANGED Cache!cacheVars
    <3>1. UNCHANGED <<cacheVars, lpc, buf>>
      BY <2>9 DEF SendSocket, SendTo, SendRecv, SendTimeout, SendReply, SendClose
    <3>2. UNCHANGED <<joinable, received>>
      BY <2>b, <3>1
    <3>3. \/ UNCHANGED ret
          \/ \E r : ret' = [ret EXCEPT ![t] = r] /\ r.call \notin {"get_last", "get_ptz"}
      <4>1. \/ UNCHANGED ret
            \/ ret' = [ret EXCEPT ![t] = NoResult]
            \/ \E code, p : Returns(t, "set_ptz", code, p)
        BY <2>9 DEF SendSocket, SendTo, SendRecv, SendTimeout, SendReply, SendClose
      <4>2. ASSUME NEW code, NEW p, Returns(t, "set_ptz", code, p)
            PROVE  \E r : ret' = [ret EXCEPT ![t] = r] /\ r.call \notin {"get_last", "get_ptz"}
        <5> DEFINE r == [call |-> "set_ptz", code |-> code, pkt |-> p]
        <5>1. ret' = [ret EXCEPT ![t] = r] /\ r.call \notin {"get_last", "get_ptz"}
          BY <4>2 DEF Returns
        <5> QED
          BY <5>1
      <4>3. NoResult.call \notin {"get_last", "get_ptz"}
        BY DEF NoResult
      <4> QED
        BY <4>1, <4>2, <4>3
    <3> QED
      BY <2>c, <2>d, <3>1, <3>2, <3>3
  <2>10. ASSUME NEW c \in Controllers,
                \/ LsnSocket(c) \/ LsnBind(c) \/ LsnConfig(c) \/ LsnLoop(c) \/ LsnRecv(c)
                \/ LsnTimeout(c) \/ LsnDatagram(c) \/ LsnClose(c) \/ LsnClear(c)
         PROVE  UNCHANGED Cache!cacheVars
    <3>1. UNCHANGED <<cacheVars, ret>> /\ \A d \in Controllers \ {c} : buf'[d] = buf[d]
      BY <2>a, <2>10 DEF LsnSocket, LsnBind, LsnConfig, LsnLoop, LsnRecv, LsnTimeout,
                         LsnDatagram, LsnClose, LsnClear
    <3>2. /\ lpc[c] \notin {"none", "storeIp"}
          /\ \E p \in ListenerPcs \ {"storeIp"} : lpc' = [lpc EXCEPT ![c] = p]
      BY <2>10 DEF LsnSocket, LsnBind, LsnConfig, LsnLoop, LsnRecv, LsnTimeout,
                   LsnDatagram, LsnClose, LsnClear, ListenerPcs
    <3>3. lpc'[c] \notin {"none", "storeIp"} /\ \A d \in Controllers \ {c} : lpc'[d] = lpc[d]
      BY <2>a, <3>2 DEF ListenerPcs
    <3>4. UNCHANGED <<joinable, received>>
      BY <2>b, <3>1, <3>2, <3>3
    <3> QED
      BY <2>c, <3>1, <3>4
  <2>11. ASSUME NEW c \in Controllers, LsnStore(c)
         PROVE  Cache!Next
    <3>1. /\ lpc[c] = "store"
          /\ lpc' = [lpc EXCEPT ![c] = "storeIp"]
          /\ last_packet' = [last_packet EXCEPT ![c] = buf[c]]
          /\ UNCHANGED <<packets_by_ip, buf, ret>>
      BY <2>11 DEF LsnStore
    <3>2. PICK s \in Sockets : buf[c] \in Datagram(s)
      BY <3>1 DEF CacheInv, FromHost, Datagram
    <3>3. UNCHANGED <<joinable, lastRead>> /\ joinable[c]
      BY <2>a, <3>1 DEF joinable, lastRead
    <3>4. received' = [received EXCEPT ![c][buf[c].src] = buf[c]]
      BY <2>a, <3>1 DEF received
    <3>5. Cache!Receive(c, buf[c])
      BY <3>1, <3>3, <3>4 DEF Cache!Receive
    <3> QED
      BY <3>2, <3>5, SamePackets DEF Cache!Next
  <2>12. ASSUME NEW c \in Controllers, LsnStoreIp(c)
         PROVE  UNCHANGED Cache!cacheVars
    <3>1. /\ lpc[c] = "storeIp"
          /\ lpc' = [lpc EXCEPT ![c] = "loop"]
          /\ packets_by_ip' = [packets_by_ip EXCEPT ![c][buf[c].src] = buf[c]]
          /\ buf' = [buf EXCEPT ![c] = NoPacket]
          /\ UNCHANGED <<last_packet, ret>>
      BY <2>12 DEF LsnStoreIp
    <3>2. UNCHANGED joinable
      BY <2>a, <3>1 DEF joinable
    <3>3. UNCHANGED received
      BY <2>a, <3>1 DEF received
    <3> QED
      BY <2>c, <3>1, <3>2, <3>3
  <2>13. CASE UNCHANGED vars
    BY <2>b, <2>c, <2>13 DEF vars
  <2> QED
    BY <2>1, <2>2, <2>3, <2>4, <2>6, <2>7, <2>8, <2>9, <2>10, <2>11, <2>12, <2>13
       DEF Next, ListenerStep, CallStep, Call
<1> QED
  BY <1>1, <1>2, TypeCorrect, LifecycleInvariant, CacheInvariant, PTL
     DEF Spec, Cache!Spec, ImplementsCache

-------------------------------------------------------------------------------
(***************************************************************************)
(* Theorems about CamController in a process with one controller, whose    *)
(* owner is also the thread that sends commands.  No other socket can get  *)
(* the number of the listener's between the two closes, and what the       *)
(* listener sets it sets on its own socket.                                *)
(***************************************************************************)

OneCaller ==
  \A c \in Controllers : (\A d \in Controllers : c = d) /\ (\A t \in Senders : t = OwnerOf[c])

\* Until the owner is in the join the descriptor of the listener names its
\* socket; that of a set_ptz names its socket throughout.
OwnInv ==
  /\ \A c \in Controllers :
       /\ lpc[c] \in OpenPcs /\ pc[OwnerOf[c]] # "stopJoin" => lfd[c] \in Fds /\ fds[lfd[c]] = c
       /\ lpc[c] \notin OpenPcs => lfd[c] = NoFd
  /\ \A t \in Threads :
       /\ pc[t] \in SendPcs => t \in Senders /\ tfd[t] \in Fds /\ fds[tfd[t]] = t
       /\ pc[t] \notin SendPcs => tfd[t] = NoFd

JoinedPcs == {"loop", "recv", "blocked", "store", "storeIp"}

\* A controller that runs in multicast mode and has been configured is a member.
MemberInv ==
  \A c \in Controllers :
    running[c] /\ is_multicast[c] /\ lpc[c] \in JoinedPcs => "member" \in skt[c]

LEMMA Types ==
  ASSUME TypeOK
  PROVE  /\ fds \in [Fds -> Sockets \cup {None}]
         /\ lpc \in [Controllers -> ListenerPcs \cup {"none"}]
         /\ pc \in [Threads -> {"idle"} \cup StopPcs \cup SendPcs]
         /\ lfd \in [Controllers -> Fds \cup {NoFd}]
         /\ tfd \in [Threads -> Fds \cup {NoFd}]
         /\ skt \in [Sockets -> SUBSET SocketOptions]
         /\ running \in [Controllers -> BOOLEAN] /\ is_multicast \in [Controllers -> BOOLEAN]
         /\ NoFd \notin Fds
BY DEF TypeOK, Fds, NoFd

LEMMA Labels ==
  StopPcs \cap SendPcs = {} /\ "idle" \notin StopPcs \cup SendPcs /\ "stopJoin" \notin SendPcs
BY DEF StopPcs, SendPcs

\* The listener, and a stop about to close, reach no socket but the listener's.
LEMMA ListenerReaches ==
  ASSUME OneCaller, TypeOK, DescriptorInv, OwnInv, NEW c \in Controllers
  PROVE  /\ At(lfd[c]) \in {c, None}
         /\ pc[OwnerOf[c]] \in StopPcs => \A f \in Fds : fds[f] \in {c, None}
<1> USE SocketsExist, Types, Labels
<1>1. \A f \in Fds, t \in Threads : fds[f] = t => t = OwnerOf[c] /\ pc[t] \in SendPcs
  BY DEF DescriptorInv, OwnInv, OneCaller
<1>2. \A f \in Fds, d \in Controllers : fds[f] = d => d = c
  BY DEF OneCaller
<1>3. \A f \in Fds : fds[f] \in Controllers \cup Threads \cup {None}
  BY ControllerAssumption
<1>4. pc[OwnerOf[c]] \in StopPcs => \A f \in Fds : fds[f] \in {c, None}
  BY <1>1, <1>2, <1>3
<1>5. At(lfd[c]) \in {c, None}
  <2>1. CASE lfd[c] \notin Fds
    BY <2>1 DEF At
  <2>2. CASE lfd[c] \in Fds /\ fds[lfd[c]] \in Threads
    <3>1. lpc[c] \in OpenPcs
      BY <2>2 DEF OwnInv
    <3>2. pc[OwnerOf[c]] # "stopJoin"
      BY <1>1, <2>2
    <3> QED BY <2>2, <3>1, <3>2 DEF OwnInv
  <2>3. CASE lfd[c] \in Fds /\ fds[lfd[c]] \notin Threads
    BY <1>2, <1>3, <2>3 DEF At
  <2> QED BY <2>1, <2>2, <2>3
<1> QED BY <1>4, <1>5

\* A call that opens and closes nothing.
LEMMA OwnFrame ==
  ASSUME TypeOK, OwnInv, UNCHANGED <<lfd, tfd, fds>>,
         \A c \in Controllers :
           /\ lpc'[c] \in OpenPcs <=> lpc[c] \in OpenPcs
           /\ pc[OwnerOf[c]] = "stopJoin" /\ lpc'[c] \in OpenPcs => pc'[OwnerOf[c]] = "stopJoin",
         \A t \in Threads : pc'[t] \in SendPcs <=> pc[t] \in SendPcs
  PROVE  OwnInv'
BY DEF OwnInv

LEMMA OwnCalls ==
  ASSUME TypeOK, LifecycleInv, OwnInv, NEW t \in Threads, NEW c \in Controllers,
         NEW h \in Hosts \cup {None},
         \/ cam_controller_create(t, c) \/ cam_controller_start_ex(t, c)
         \/ cam_controller_stop(t, c) \/ cam_controller_destroy(t, c)
         \/ cam_controller_get_last(t, c) \/ cam_controller_get_ptz(t, c, h)
  PROVE  OwnInv'
<1> USE Types, Labels
<1>1. UNCHANGED <<lfd, tfd, fds>>
  BY DEF cam_controller_create, cam_controller_start_ex, cam_controller_stop,
         cam_controller_destroy, cam_controller_get_last, cam_controller_get_ptz,
         lsnVars, apiVars, kernelVars
<1>2. pc[t] = "idle" /\ (UNCHANGED pc \/ \E label \in StopPcs : pc' = [pc EXCEPT ![t] = label])
  BY DEF cam_controller_create, cam_controller_start_ex, cam_controller_stop,
         cam_controller_destroy, cam_controller_get_last, cam_controller_get_ptz,
         apiVars, Outside, StopFlag, StopPcs
<1>3. \A d \in Controllers : lpc'[d] \in OpenPcs <=> lpc[d] \in OpenPcs
  <2>1. CASE UNCHANGED lpc
    BY <2>1
  <2>2. CASE cam_controller_start_ex(t, c) /\ ~running[c] /\ StartAccepted(t, c)
    <3>1. lpc[c] = "none"
      BY <2>2 DEF cam_controller_start_ex, LifecycleInv, Outside, StopPcs
    <3> QED BY <2>2, <3>1 DEF StartAccepted, OpenPcs
  <2> QED
    BY <2>1, <2>2 DEF cam_controller_create, cam_controller_start_ex, StartNoThread,
       cam_controller_stop, cam_controller_destroy, cam_controller_get_last,
       cam_controller_get_ptz, lsnVars
<1>4. \A u \in Threads : /\ pc'[u] \in SendPcs <=> pc[u] \in SendPcs
                         /\ pc[u] = "stopJoin" => pc'[u] = "stopJoin"
  BY <1>2
<1> QED BY <1>1, <1>3, <1>4, OwnFrame, ControllerAssumption

LEMMA OwnStops ==
  ASSUME OneCaller, TypeOK, StopInv, DescriptorInv, OwnInv, NEW t \in Threads,
         StopSock(t) \/ StopClose(t) \/ StopJoin(t)
  PROVE  OwnInv'
<1> USE Types, Labels, ControllerAssumption
<1> DEFINE c == target[t].on
<1>0. pc[t] \in StopPcs /\ c \in Controllers /\ OwnerOf[c] = t
  BY DEF StopSock, StopClose, StopJoin, StopPcs, StopInv
<1>1. CASE StopSock(t)
  <2>1. /\ UNCHANGED <<lfd, tfd, fds, lpc>> /\ pc[t] = "stopSock"
        /\ \E label \in {"stopJoin", "stopClose"} : pc' = [pc EXCEPT ![t] = label]
    BY <1>1 DEF StopSock, lsnVars
  <2> QED BY <2>1, OwnFrame DEF SendPcs
<1>2. CASE StopClose(t)
  <2>1. /\ Close(sock[c]) /\ UNCHANGED <<lfd, tfd, lpc>> /\ pc[t] = "stopClose"
        /\ pc' = [pc EXCEPT ![t] = "stopJoin"]
    BY <1>2 DEF StopClose, lsnVars
  <2>2. \A f \in Fds : fds[f] # None /\ fds[f] \notin Controllers => fds'[f] = fds[f]
    BY <1>0, ListenerReaches, SocketsExist
  <2>3. \A d \in Controllers : d = c
    BY <1>0 DEF OneCaller
  <2>4. \A u \in Threads : pc'[u] \in SendPcs => pc[u] \in SendPcs /\ fds'[tfd[u]] = u
    BY <2>1, <2>2, SocketsExist DEF OwnInv
  <2> QED BY <1>0, <2>1, <2>3, <2>4 DEF OwnInv
<1>3. CASE StopJoin(t)
  <2>1. /\ UNCHANGED <<lfd, tfd, fds>> /\ pc[t] = "stopJoin" /\ lpc[c] = "exited"
        /\ pc' = [pc EXCEPT ![t] = "idle"] /\ lpc' = [lpc EXCEPT ![c] = "none"]
    BY <1>3 DEF StopJoin, kernelVars
  <2>2. \A d \in Controllers : d = c
    BY <1>0 DEF OneCaller
  <2> QED BY <1>0, <2>1, <2>2, OwnFrame DEF OpenPcs
<1> QED BY <1>1, <1>2, <1>3

LEMMA OwnSends ==
  ASSUME OneCaller, TypeOK, DescriptorInv, OwnInv, NEW t \in Threads,
         \/ SendSocket(t) \/ SendTo(t) \/ SendRecv(t) \/ SendTimeout(t) \/ SendReply(t)
         \/ SendClose(t)
  PROVE  OwnInv'
<1> USE Types, Labels, SocketsExist, ControllerAssumption
<1>1. CASE SendTo(t) \/ SendRecv(t) \/ SendTimeout(t) \/ SendReply(t)
  <2>1. /\ UNCHANGED <<lfd, tfd, fds, lpc>> /\ pc[t] \in SendPcs
        /\ \E label \in SendPcs : pc' = [pc EXCEPT ![t] = label]
    BY <1>1 DEF SendTo, SendRecv, SendTimeout, SendReply, SendPcs, lsnVars
  <2> QED BY <2>1, OwnFrame
<1>2. CASE SendSocket(t)
  <2>1. UNCHANGED <<lfd, lpc>> /\ pc[t] = "idle" /\ t \in Senders
    BY <1>2 DEF SendSocket, Outside, lsnVars
  <2>2. CASE UNCHANGED <<pc, tfd, fds>>
    BY <2>1, <2>2, OwnFrame
  <2>3. ASSUME NEW f \in Fds, Open(f, t), tfd' = [tfd EXCEPT ![t] = f],
               pc' = [pc EXCEPT ![t] = "sendTo"]
        PROVE  OwnInv'
    <3>1. fds[f] = None /\ fds' = [fds EXCEPT ![f] = t]
      BY <2>3 DEF Open, Lowest
    <3>2. \A d \in Controllers : lpc[d] \in OpenPcs /\ pc[OwnerOf[d]] # "stopJoin"
                                   => lfd[d] \in Fds /\ fds'[lfd[d]] = d
      BY <3>1 DEF OwnInv
    <3>3. \A u \in Threads \ {t} : pc[u] \in SendPcs => tfd[u] \in Fds /\ fds'[tfd[u]] = u
      BY <3>1 DEF OwnInv
    <3> QED BY <2>1, <2>3, <3>1, <3>2, <3>3 DEF OwnInv, SendPcs
  <2> QED BY <1>2, <2>2, <2>3 DEF SendSocket
<1>3. CASE SendClose(t)
  <2>1. /\ Close(tfd[t]) /\ UNCHANGED <<lfd, lpc>> /\ pc[t] \in SendPcs
        /\ pc' = [pc EXCEPT ![t] = "idle"] /\ tfd' = [tfd EXCEPT ![t] = NoFd]
    BY <1>3 DEF SendClose, SendPcs, lsnVars
  <2>2. fds' = [fds EXCEPT ![tfd[t]] = None] /\ fds[tfd[t]] = t /\ tfd[t] \in Fds
    BY <2>1 DEF OwnInv, Close
  <2>3. \A d \in Controllers : lpc[d] \in OpenPcs /\ pc[OwnerOf[d]] # "stopJoin"
                                 => lfd[d] \in Fds /\ fds'[lfd[d]] = d
    BY <2>2 DEF OwnInv
  <2>4. \A u \in Threads \ {t} : pc[u] \in SendPcs => tfd[u] \in Fds /\ fds'[tfd[u]] = u
    BY <2>2 DEF OwnInv
  <2> QED BY <2>1, <2>3, <2>4 DEF OwnInv
<1> QED BY <1>1, <1>2, <1>3

LEMMA OwnListener ==
  ASSUME OneCaller, TypeOK, DescriptorInv, OwnInv, NEW c \in Controllers,
         ListenerStep(c) \/ LsnDatagram(c)
  PROVE  OwnInv'
<1> USE Types, Labels, SocketsExist, ControllerAssumption
<1>0. \A d \in Controllers : d = c
  BY DEF OneCaller
<1>1. CASE \/ LsnBind(c) \/ LsnConfig(c) \/ LsnLoop(c) \/ LsnRecv(c) \/ LsnTimeout(c)
           \/ LsnDatagram(c) \/ LsnStore(c) \/ LsnStoreIp(c)
  <2>1. /\ UNCHANGED <<lfd, tfd, fds, pc>> /\ lpc[c] \in OpenPcs
        /\ \E label \in OpenPcs : lpc' = [lpc EXCEPT ![c] = label]
    BY <1>1 DEF LsnBind, LsnConfig, LsnLoop, LsnRecv, LsnTimeout, LsnDatagram, LsnStore,
                LsnStoreIp, OpenPcs, apiVars, kernelVars
  <2> QED BY <2>1, OwnFrame
<1>2. CASE LsnClear(c)
  <2>1. /\ UNCHANGED <<lfd, tfd, fds, pc>> /\ lpc[c] \notin OpenPcs
        /\ lpc' = [lpc EXCEPT ![c] = "exited"]
    BY <1>2 DEF LsnClear, OpenPcs, apiVars, kernelVars
  <2> QED BY <2>1, OwnFrame DEF OpenPcs
<1>3. CASE LsnSocket(c)
  <2>1. UNCHANGED <<tfd, pc>> /\ lpc[c] \notin OpenPcs
    BY <1>3 DEF LsnSocket, OpenPcs, apiVars
  <2>2. CASE UNCHANGED <<lfd, fds>> /\ lpc' = [lpc EXCEPT ![c] = "exited"]
    BY <2>1, <2>2, OwnFrame DEF OpenPcs
  <2>3. ASSUME NEW f \in Fds, Open(f, c), lfd' = [lfd EXCEPT ![c] = f],
               lpc' = [lpc EXCEPT ![c] = "bind"]
        PROVE  OwnInv'
    <3>1. fds[f] = None /\ fds' = [fds EXCEPT ![f] = c]
      BY <2>3 DEF Open, Lowest
    <3>2. \A u \in Threads : pc[u] \in SendPcs => tfd[u] \in Fds /\ fds'[tfd[u]] = u
      BY <3>1 DEF OwnInv
    <3> QED BY <1>0, <2>1, <2>3, <3>1, <3>2 DEF OwnInv, OpenPcs
  <2> QED BY <1>3, <2>2, <2>3 DEF LsnSocket
<1>4. CASE LsnClose(c)
  <2>1. /\ Close(lfd[c]) /\ UNCHANGED <<tfd, pc>>
        /\ lfd' = [lfd EXCEPT ![c] = NoFd] /\ lpc' = [lpc EXCEPT ![c] = "clear"]
    BY <1>4 DEF LsnClose, apiVars
  <2>2. \A f \in Fds : fds[f] \in Threads => fds'[f] = fds[f]
    <3>1. At(lfd[c]) \notin Threads
      BY ListenerReaches
    <3> QED BY <2>1, <3>1 DEF Close, At
  <2>3. \A u \in Threads : pc[u] \in SendPcs => tfd[u] \in Fds /\ fds'[tfd[u]] = u
    BY <2>2 DEF OwnInv
  <2> QED BY <1>0, <2>1, <2>3 DEF OwnInv, OpenPcs
<1> QED BY <1>1, <1>2, <1>3, <1>4 DEF ListenerStep

THEOREM OwnInvariant == ASSUME OneCaller PROVE Spec => []OwnInv
<1>1. Init => OwnInv
  BY ControllerAssumption DEF Init, OwnInv, OpenPcs, SendPcs
<1>2. TypeOK /\ LifecycleInv /\ StopInv /\ DescriptorInv /\ OwnInv /\ [Next]_vars => OwnInv'
  <2> SUFFICES ASSUME TypeOK, LifecycleInv, StopInv, DescriptorInv, OwnInv, [Next]_vars
               PROVE  OwnInv'
    OBVIOUS
  <2>1. CASE UNCHANGED vars
    BY <2>1, OwnFrame DEF vars, lsnVars, apiVars, kernelVars
  <2>2. ASSUME NEW c \in Controllers, ListenerStep(c) \/ LsnDatagram(c) PROVE OwnInv'
    BY <2>2, OwnListener
  <2>3. ASSUME NEW t \in Threads, Call(t) \/ CallStep(t) \/ SendReply(t) PROVE OwnInv'
    <3>1. CASE SendSocket(t) \/ CallStep(t) \/ SendReply(t)
      BY <3>1, OwnSends, OwnStops DEF CallStep
    <3>2. ASSUME NEW c \in Controllers, NEW h \in Hosts \cup {None},
                 \/ cam_controller_create(t, c) \/ cam_controller_start_ex(t, c)
                 \/ cam_controller_stop(t, c) \/ cam_controller_destroy(t, c)
                 \/ cam_controller_get_last(t, c) \/ cam_controller_get_ptz(t, c, h)
          PROVE  OwnInv'
      BY <3>2, OwnCalls
    <3> QED BY <2>3, <3>1, <3>2 DEF Call
  <2> QED BY <2>1, <2>2, <2>3 DEF Next
<1> QED BY <1>1, <1>2, TypeCorrect, LifecycleInvariant, DescriptorInvariant, PTL DEF Spec

\* Every system call is made on the caller's own socket, though the descriptor
\* of the listener is closed twice.
THEOREM CallsReachOwnSocket == ASSUME OneCaller PROVE Spec => []OwnSocketOnly
<1>1. TypeOK /\ DescriptorInv /\ OwnInv => OwnSocketOnly
  <2> SUFFICES ASSUME TypeOK, DescriptorInv, OwnInv PROVE OwnSocketOnly
    OBVIOUS
  <2>1. \A c \in Controllers : At(lfd[c]) \in {c, None}
    BY ListenerReaches
  <2>2. \A c \in Controllers : pc[OwnerOf[c]] = "stopClose" => At(sock[c]) \in {c, None}
    BY ListenerReaches DEF At, StopPcs
  <2>3. \A t \in Threads : At(tfd[t]) \in {t, None}
    BY Types DEF OwnInv, At
  <2> QED BY <2>1, <2>2, <2>3 DEF OwnSocketOnly
<1> QED BY <1>1, TypeCorrect, DescriptorInvariant, OwnInvariant, PTL

-------------------------------------------------------------------------------

\* Where nothing that has been joined is left and no controller becomes one
\* that must have been.
LEMMA MemberFrame ==
  ASSUME MemberInv,
         \A c \in Controllers :
           /\ running'[c] => running[c]
           /\ is_multicast'[c] => is_multicast[c]
           /\ lpc'[c] \in JoinedPcs => lpc[c] \in JoinedPcs
           /\ running'[c] /\ "member" \in skt[c] => "member" \in skt'[c]
  PROVE  MemberInv'
BY DEF MemberInv

\* Options are only added to a socket that is open.
LEMMA MembersStay ==
  ASSUME TypeOK, NEW s \in Sockets, NEW o,
         skt' = skt \/ skt' = [skt EXCEPT ![s] = @ \cup o], NEW c \in Controllers, "member" \in skt[c]
  PROVE  "member" \in skt'[c]
BY Types, SocketsExist

LEMMA MemberCalls ==
  ASSUME TypeOK, LifecycleInv, MemberInv, NEW t \in Threads, NEW c \in Controllers,
         NEW h \in Hosts \cup {None},
         \/ cam_controller_create(t, c) \/ cam_controller_start_ex(t, c)
         \/ cam_controller_stop(t, c) \/ cam_controller_destroy(t, c)
         \/ cam_controller_get_last(t, c) \/ cam_controller_get_ptz(t, c, h)
  PROVE  MemberInv'
<1> USE Types
<1>1. UNCHANGED skt
  BY DEF cam_controller_create, cam_controller_start_ex, cam_controller_stop,
         cam_controller_destroy, cam_controller_get_last, cam_controller_get_ptz, kernelVars
<1>2. CASE UNCHANGED <<is_multicast, lpc>> /\ (UNCHANGED running \/ running' = [running EXCEPT ![c] = FALSE])
  BY <1>1, <1>2, MemberFrame
<1>3. CASE cam_controller_create(t, c)
  <2>1. /\ running' = [running EXCEPT ![c] = FALSE] /\ UNCHANGED lpc
        /\ is_multicast' = [is_multicast EXCEPT ![c] = FALSE]
    BY <1>3 DEF cam_controller_create, lsnVars
  <2> QED BY <1>1, <2>1, MemberFrame
<1>4. CASE cam_controller_start_ex(t, c) /\ ~running[c]
  <2>1. PICK group \in McastArgs : is_multicast' = [is_multicast EXCEPT ![c] = group]
    BY <1>4 DEF cam_controller_start_ex
  <2>2. CASE StartAccepted(t, c)
    <3>1. running' = [running EXCEPT ![c] = TRUE] /\ lpc' = [lpc EXCEPT ![c] = "socket"]
      BY <2>2 DEF StartAccepted
    <3> QED BY <1>1, <2>1, <3>1 DEF MemberInv, JoinedPcs
  <2>3. CASE StartNoThread(t, c)
    <3>1. UNCHANGED <<running, lpc>>
      BY <2>3 DEF StartNoThread
    <3> QED BY <1>1, <1>4, <2>1, <3>1 DEF MemberInv
  <2> QED BY <1>4, <2>2, <2>3 DEF cam_controller_start_ex
<1> QED
  BY <1>2, <1>3, <1>4 DEF cam_controller_start_ex, cam_controller_stop, cam_controller_destroy,
     cam_controller_get_last, cam_controller_get_ptz, StopFlag, objVars, lsnVars

LEMMA MemberStops ==
  ASSUME OneCaller, TypeOK, StopInv, MemberInv, NEW t \in Threads,
         StopSock(t) \/ StopClose(t) \/ StopJoin(t)
  PROVE  MemberInv'
<1> USE Types, ControllerAssumption
<1>1. \A c \in Controllers : ~running[c]
  BY DEF StopSock, StopClose, StopJoin, StopPcs, StopInv, OneCaller
<1>2. UNCHANGED running
  BY DEF StopSock, StopClose, StopJoin, objVars
<1> QED BY <1>1, <1>2 DEF MemberInv

LEMMA MemberSends ==
  ASSUME TypeOK, OwnInv, MemberInv, NEW t \in Threads,
         \/ SendSocket(t) \/ SendTo(t) \/ SendRecv(t) \/ SendTimeout(t) \/ SendReply(t)
         \/ SendClose(t)
  PROVE  MemberInv'
<1> USE Types, SocketsExist
<1>1. UNCHANGED <<running, is_multicast, lpc>>
  BY DEF SendSocket, SendTo, SendRecv, SendTimeout, SendReply, SendClose, objVars, lsnVars
<1>2. CASE SendTo(t) \/ SendRecv(t)
  <2>1. \/ UNCHANGED skt
        \/ \E s \in Sockets, o \in SUBSET SocketOptions : skt' = [skt EXCEPT ![s] = @ \cup o]
    BY <1>2, AtType DEF SendTo, SendRecv, SocketOptions
  <2> QED BY <1>1, <2>1, MembersStay, MemberFrame
<1>3. CASE SendSocket(t)
  <2>1. UNCHANGED skt \/ skt' = [skt EXCEPT ![t] = {}]
    BY <1>3 DEF SendSocket, Open
  <2>2. \A c \in Controllers : skt'[c] = skt[c]
    BY <2>1
  <2> QED BY <1>1, <2>2, MemberFrame
<1>4. CASE SendTimeout(t) \/ SendReply(t) \/ SendClose(t)
  <2>1. UNCHANGED skt
    BY <1>4 DEF SendTimeout, SendReply, SendClose
  <2> QED BY <1>1, <2>1, MemberFrame
<1> QED BY <1>2, <1>3, <1>4

LEMMA MemberListener ==
  ASSUME OneCaller, TypeOK, StopInv, OwnInv, MemberInv, NEW c \in Controllers,
         ListenerStep(c) \/ LsnDatagram(c)
  PROVE  MemberInv'
<1> USE Types, SocketsExist, ControllerAssumption
<1>0. UNCHANGED running /\ \A d \in Controllers : d = c
  BY DEF OneCaller, ListenerStep, LsnSocket, LsnBind, LsnConfig, LsnLoop, LsnRecv, LsnTimeout,
         LsnDatagram, LsnStore, LsnStoreIp, LsnClose, LsnClear, objVars
<1>1. CASE \/ LsnSocket(c) \/ LsnBind(c) \/ LsnClose(c) \/ LsnClear(c)
  <2>1. \E label : label \notin JoinedPcs /\ lpc' = [lpc EXCEPT ![c] = label]
    BY <1>1 DEF LsnSocket, LsnBind, LsnClose, LsnClear, JoinedPcs
  <2> QED BY <1>0, <2>1 DEF MemberInv
<1>2. CASE \/ LsnLoop(c) \/ LsnRecv(c) \/ LsnTimeout(c) \/ LsnDatagram(c)
           \/ LsnStore(c) \/ LsnStoreIp(c)
  <2>1. /\ UNCHANGED <<skt, is_multicast>> /\ lpc[c] \in JoinedPcs
        /\ \E label : lpc' = [lpc EXCEPT ![c] = label]
    BY <1>2 DEF LsnLoop, LsnRecv, LsnTimeout, LsnDatagram, LsnStore, LsnStoreIp, JoinedPcs,
                objVars, kernelVars
  <2> QED BY <1>0, <2>1, MemberFrame
<1>3. CASE LsnConfig(c)
  <2>1. CASE ~running[c]
    BY <1>0, <2>1 DEF MemberInv
  <2>2. CASE running[c]
    <3>1. pc[OwnerOf[c]] # "stopJoin"
      BY <2>2 DEF StopInv, StopPcs, OneCaller
    <3>2. At(lfd[c]) = c
      BY <1>3, <3>1 DEF LsnConfig, OwnInv, OpenPcs, At
    <3>3. is_multicast'[c] => "member" \in skt'[c]
      BY <1>3, <3>2 DEF LsnConfig
    <3> QED BY <1>0, <3>3 DEF MemberInv
  <2> QED BY <2>1, <2>2
<1> QED BY <1>1, <1>2, <1>3 DEF ListenerStep

\* A running listener that waits in multicast mode has joined its group: what
\* it configures is its own socket, and only stop leaves the group.
THEOREM MulticastIsJoined == ASSUME OneCaller PROVE Spec => []McastMeansJoined
<1>1. Init => MemberInv
  BY DEF Init, MemberInv
<1>2. TypeOK /\ LifecycleInv /\ StopInv /\ OwnInv /\ MemberInv /\ [Next]_vars => MemberInv'
  <2> SUFFICES ASSUME TypeOK, LifecycleInv, StopInv, OwnInv, MemberInv, [Next]_vars
               PROVE  MemberInv'
    OBVIOUS
  <2>1. CASE UNCHANGED vars
    BY <2>1, MemberFrame DEF vars, objVars, lsnVars, kernelVars
  <2>2. ASSUME NEW c \in Controllers, ListenerStep(c) \/ LsnDatagram(c) PROVE MemberInv'
    BY <2>2, MemberListener
  <2>3. ASSUME NEW t \in Threads, Call(t) \/ CallStep(t) \/ SendReply(t) PROVE MemberInv'
    <3>1. CASE SendSocket(t) \/ CallStep(t) \/ SendReply(t)
      BY <3>1, MemberSends, MemberStops DEF CallStep
    <3>2. ASSUME NEW c \in Controllers, NEW h \in Hosts \cup {None},
                 \/ cam_controller_create(t, c) \/ cam_controller_start_ex(t, c)
                 \/ cam_controller_stop(t, c) \/ cam_controller_destroy(t, c)
                 \/ cam_controller_get_last(t, c) \/ cam_controller_get_ptz(t, c, h)
          PROVE  MemberInv'
      BY <3>2, MemberCalls
    <3> QED BY <2>3, <3>1, <3>2 DEF Call
  <2> QED BY <2>1, <2>2, <2>3 DEF Next
<1>3. MemberInv => McastMeansJoined
  BY DEF MemberInv, McastMeansJoined, JoinedPcs
<1> QED
  BY <1>1, <1>2, <1>3, TypeCorrect, LifecycleInvariant, OwnInvariant, PTL DEF Spec
============================================================================
