----------------------------- MODULE CamAJFLib -----------------------------
(***************************************************************************)
(* One CamAJFLib object (cam_ajf_lib.cpp): its owner, which initialises,   *)
(* starts, stops and shuts it down, application threads that send commands *)
(* and read the status, and the status listener thread.  Three mutexes,    *)
(* two callbacks that run with mutexes held.                               *)
(*                                                                         *)
(* A step ends where a thread can be made to wait or can be interfered     *)
(* with: at a lock, at a system call, and inside the critical section that *)
(* writes several fields.  cmd_sock_ and status_sock_ are TRUE while they  *)
(* are not -1.  Both sockets are non-blocking, so nothing waits in the     *)
(* kernel as long as the listener reads its own; but stop closes the       *)
(* status socket before it joins, and the number may by then be that of    *)
(* another socket of the process, which the listener then reads (number).  *)
(***************************************************************************)
EXTENDS PtzData

CONSTANTS
  Owner,                \* the application thread that starts and stops
  Senders,              \* the application threads that send commands
  Readers,              \* the application threads that call get_ptz
  Listener,             \* the listener thread
  Overloads,            \* the set_ptz overloads that are called
  PacketCallbackReads,  \* whether the packet callback calls get_ptz
  Failures              \* the calls that may fail for outside reasons

ASSUME LibAssumption ==
  /\ Owner \in Apps
  /\ Senders \subseteq Apps
  /\ Readers \subseteq Apps
  /\ Listener \notin Apps
  /\ None # Listener
  /\ Overloads \subseteq {"pan_tilt", "pan_tilt_zoom"}
  /\ PacketCallbackReads \subseteq BOOLEAN /\ PacketCallbackReads # {}
  /\ Failures \subseteq {"socket", "bind", "thread", "send"}

Processes == Apps \cup {Listener}
Mutexes == {"ptz", "callback", "packet"}

VARIABLES
  \* class CamAJFLib
  cmd_sock_,         \* the command socket is open
  status_sock_,      \* the status socket is not -1
  running_,          \* the atomic flag
  current_ptz_,      \* the status
  ptz_callback_,     \* the PTZ callback, or None
  packet_callback_,  \* a packet callback is registered
  holder,            \* holder[m]: the thread that holds mutex m, or None
  \* the listener thread
  lpc,               \* where it is; "none" when listener_thread_ is not joinable
  lsock,             \* the recvfrom in progress was not given -1
  buf,               \* the report being stored, or None
  calling,           \* the PTZ callback in progress and its arguments
  \* the application threads
  pc,                \* where the call of t is; "idle" outside the library
  call,              \* the call t is in, or "none"
  arg,               \* its zoom or focus argument
  ret,               \* what the last call of t returned
  got,               \* the status the last get_ptz of t returned
  servo,             \* the servo command of its last call: "none" when there
                     \* is none that left, "untold" until the packet callback
                     \* registered then has been given it, and "sent"
  \* the kernel and the device
  number,            \* what the number of the status socket names: "free" when
                     \* nothing; "own"; "untimed" when another socket of the
                     \* process, where a recvfrom can wait for ever, "timed"
                     \* when the listener has set its timeout on that socket
  zoomSent           \* the zoom of the last command that left, or None

libVars  == <<cmd_sock_, status_sock_, running_>>
dataVars == <<current_ptz_, ptz_callback_, packet_callback_>>
lsnVars  == <<lpc, lsock, buf, calling>>
appVars  == <<pc, call, arg, ret, got, servo>>
envVars  == <<number, zoomSent>>
vars == <<libVars, dataVars, holder, lsnVars, appVars, envVars>>

StopPcs == {"stopClose", "stopReset", "stopJoin", "closeAll", "openCmd"}
SendPcs == {"readFocus", "sendServo", "notify", "callbackRead", "packetCallback",
            "sendFocus", "storeFocus", "sendZoom", "storeZoom"}
ListenerPcs == {"loop", "option", "read", "recv", "blocked", "store", "storeRest",
                "broadcast", "broadcastPtz", "calling", "exited"}
Calls == {"none", "init", "start", "stop", "shutdown", "set_ptz", "set_zoom", "set_focus"}

TypeOK ==
  /\ cmd_sock_ \in BOOLEAN /\ status_sock_ \in BOOLEAN /\ running_ \in BOOLEAN
  /\ current_ptz_ \in Ptz
  /\ ptz_callback_ \in Callbacks \cup {None}
  /\ packet_callback_ \in BOOLEAN
  /\ holder \in [Mutexes -> Processes \cup {None}]
  /\ lpc \in ListenerPcs \cup {"none"}
  /\ lsock \in BOOLEAN
  /\ buf \in Reports \cup {None} /\ (lpc \in {"store", "storeRest"} => buf # None)
  /\ calling \in Delivery
  /\ pc \in [Apps -> {"idle", "gotPtz"} \cup StopPcs \cup SendPcs]
  /\ call \in [Apps -> Calls]
  /\ arg \in [Apps -> Values]
  /\ ret \in [Apps -> {"none", "true", "false", "threw"}]
  /\ got \in [Apps -> Ptz]
  /\ servo \in [Apps -> {"none", "untold", "sent"}]
  /\ number \in {"free", "own", "timed", "untimed"}
  /\ zoomSent \in (0..255) \cup {None}

Init ==
  /\ cmd_sock_ = FALSE /\ status_sock_ = FALSE /\ running_ = FALSE
  /\ current_ptz_ = Unknown
  /\ ptz_callback_ = None
  /\ packet_callback_ = FALSE
  /\ holder = [m \in Mutexes |-> None]
  /\ lpc = "none"
  /\ lsock = FALSE
  /\ buf = None
  /\ calling = NotCalling
  /\ pc = [t \in Apps |-> "idle"]
  /\ call = [t \in Apps |-> "none"]
  /\ arg = [t \in Apps |-> 0]
  /\ ret = [t \in Apps |-> "none"]
  /\ got = [t \in Apps |-> Unknown]
  /\ servo = [t \in Apps |-> "none"]
  /\ number = "free"
  /\ zoomSent = None

-----------------------------------------------------------------------------
(***************************************************************************)
(* Mutexes.  A critical section that is one step only waits for the mutex. *)
(***************************************************************************)

Free(m) == holder[m] = None
Lock(m, p) == Free(m) /\ holder' = [holder EXCEPT ![m] = p]
Unlock(ms) == holder' = [m \in Mutexes |-> IF m \in ms THEN None ELSE holder[m]]

Outside(t) == pc[t] = "idle"

Goto(t, label) == pc' = [pc EXCEPT ![t] = label]

Begins(t, c, label) ==
  /\ Goto(t, label)
  /\ call' = [call EXCEPT ![t] = c]
  /\ ret' = [ret EXCEPT ![t] = "none"]
  /\ servo' = [servo EXCEPT ![t] = "none"]

\* The locals of a call are gone when it returns.
Returns(t, result) ==
  /\ Goto(t, "idle")
  /\ call' = [call EXCEPT ![t] = "none"]
  /\ arg' = [arg EXCEPT ![t] = 0]
  /\ ret' = [ret EXCEPT ![t] = result]

\* A call that is over in one step.
Answers(t, result) ==
  /\ ret' = [ret EXCEPT ![t] = result]
  /\ servo' = [servo EXCEPT ![t] = "none"]
  /\ UNCHANGED <<pc, call>>

-----------------------------------------------------------------------------
(***************************************************************************)
(* init, start, stop and shutdown, called by the owner.                    *)
(***************************************************************************)

\* Fault: the flag is not cleared.
StopFlag_keeps_running(t, c) ==
  /\ running_
  /\ UNCHANGED running_
  /\ Begins(t, c, "stopClose")

\* stop clears the flag first; shutdown and init call it and go on afterwards.
StopFlag(t, c) ==
  /\ running_
  /\ running_' = FALSE
  /\ Begins(t, c, "stopClose")

\* A second init shuts down first.
initWithConfig(t) ==
  /\ Outside(t) /\ t = Owner
  /\ \/ cmd_sock_ /\ StopFlag(t, "init")
     \/ /\ ~(cmd_sock_ /\ running_)
        /\ Begins(t, "init", IF cmd_sock_ THEN "closeAll" ELSE "openCmd")
        /\ UNCHANGED running_
  /\ UNCHANGED <<cmd_sock_, status_sock_, dataVars, holder, lsnVars, arg, got, envVars>>

shutdown(t) ==
  /\ Outside(t) /\ t = Owner
  /\ \/ StopFlag(t, "shutdown")
     \/ ~running_ /\ Begins(t, "shutdown", "closeAll") /\ UNCHANGED running_
  /\ UNCHANGED <<cmd_sock_, status_sock_, dataVars, holder, lsnVars, arg, got, envVars>>

stop(t) ==
  /\ Outside(t) /\ t = Owner
  /\ \/ StopFlag(t, "stop")
     \/ ~running_ /\ Answers(t, "none") /\ UNCHANGED running_
  /\ UNCHANGED <<cmd_sock_, status_sock_, dataVars, holder, lsnVars, arg, got, envVars>>

\* close, and then the assignment of -1: from here on the number may be given
\* to another socket, and the listener may still use it.
StopClose(t) ==
  /\ pc[t] = "stopClose"
  /\ number' = IF status_sock_ THEN "free" ELSE number
  /\ Goto(t, "stopReset")
  /\ UNCHANGED <<libVars, dataVars, holder, lsnVars, call, arg, ret, got, servo,
                 zoomSent>>

StopReset(t) ==
  /\ pc[t] = "stopReset"
  /\ status_sock_' = FALSE
  /\ Goto(t, "stopJoin")
  /\ UNCHANGED <<cmd_sock_, running_, dataVars, holder, lsnVars, call, arg, ret,
                 got, servo, envVars>>

\* Fault: the thread is detached instead of joined.
StopJoin_detaches(t) ==
  /\ pc[t] = "stopJoin"
  /\ \/ call[t] = "stop" /\ Returns(t, "none")
     \/ call[t] # "stop" /\ Goto(t, "closeAll") /\ UNCHANGED <<call, arg, ret>>
  /\ UNCHANGED <<libVars, dataVars, holder, lsnVars, got, servo, envVars>>

\* Nothing in the library refers to the number any longer.
StopJoin(t) ==
  /\ pc[t] = "stopJoin"
  /\ lpc \in {"none", "exited"}
  /\ lpc' = "none"
  /\ number' = "free"
  /\ \/ call[t] = "stop" /\ Returns(t, "none")
     \/ call[t] # "stop" /\ Goto(t, "closeAll") /\ UNCHANGED <<call, arg, ret>>
  /\ UNCHANGED <<libVars, dataVars, holder, lsock, buf, calling, got, servo, zoomSent>>

CloseAll(t) ==
  /\ pc[t] = "closeAll"
  /\ cmd_sock_' = FALSE /\ status_sock_' = FALSE
  /\ number' = IF status_sock_ THEN "free" ELSE number
  /\ \/ call[t] = "shutdown" /\ Returns(t, "none")
     \/ call[t] = "init" /\ Goto(t, "openCmd") /\ UNCHANGED <<call, arg, ret>>
  /\ UNCHANGED <<running_, dataVars, holder, lsnVars, got, servo, zoomSent>>

OpenCmd(t) ==
  /\ pc[t] = "openCmd"
  /\ \/ cmd_sock_' = TRUE /\ Returns(t, "true")
     \/ "socket" \in Failures /\ Returns(t, "false") /\ UNCHANGED cmd_sock_
  /\ UNCHANGED <<status_sock_, running_, dataVars, holder, lsnVars, got, servo, envVars>>

StartRefused(t) ==
  /\ running_ \/ ~cmd_sock_
  /\ Answers(t, "false")
  /\ UNCHANGED <<status_sock_, running_, lpc, number>>

\* Fault: the error path of bind forgets the close.
StartNoSocket_leaks(t) ==
  /\ ~running_ /\ cmd_sock_
  /\ Failures \cap {"socket", "bind"} # {}
  /\ status_sock_' = ("bind" \in Failures)
  /\ number' = IF "bind" \in Failures THEN "own" ELSE number
  /\ Answers(t, "false")
  /\ UNCHANGED <<running_, lpc>>

\* No socket, or a bind that fails, after which the new socket is closed.
StartNoSocket(t) ==
  /\ ~running_ /\ cmd_sock_
  /\ Failures \cap {"socket", "bind"} # {}
  /\ status_sock_' = FALSE
  /\ Answers(t, "false")
  /\ UNCHANGED <<running_, lpc, number>>

\* std::thread throws: running_ is set by then, and nothing resets it.
StartThrows(t) ==
  /\ ~running_ /\ cmd_sock_ /\ "thread" \in Failures
  /\ running_' = TRUE /\ status_sock_' = TRUE /\ number' = "own"
  /\ Answers(t, "threw")
  /\ UNCHANGED lpc

StartListener(t) ==
  /\ ~running_ /\ cmd_sock_
  /\ running_' = TRUE /\ status_sock_' = TRUE /\ number' = "own"
  /\ lpc' = "loop"
  /\ Answers(t, "true")

start(t) ==
  /\ Outside(t) /\ t = Owner
  /\ StartRefused(t) \/ StartNoSocket(t) \/ StartThrows(t) \/ StartListener(t)
  /\ UNCHANGED <<cmd_sock_, dataVars, holder, lsock, buf, calling, arg, got,
                 zoomSent>>

-----------------------------------------------------------------------------
(***************************************************************************)
(* Reads and registrations, by any application thread.                     *)
(***************************************************************************)

get_ptz(t) ==
  /\ Outside(t) /\ t \in Readers
  /\ Free("ptz")
  /\ got' = [got EXCEPT ![t] = current_ptz_]
  /\ Goto(t, "gotPtz")
  /\ UNCHANGED <<libVars, dataVars, holder, lsnVars, call, arg, ret, servo, envVars>>

\* The copy is the application's when get_ptz returns.
GotPtz(t) ==
  /\ pc[t] = "gotPtz"
  /\ got' = [got EXCEPT ![t] = Unknown]
  /\ Goto(t, "idle")
  /\ UNCHANGED <<libVars, dataVars, holder, lsnVars, call, arg, ret, servo, envVars>>

on_ptz_update(t) ==
  /\ Outside(t)
  /\ Free("callback")
  /\ ptz_callback_' \in Callbacks \cup {None}
  /\ UNCHANGED <<libVars, current_ptz_, packet_callback_, holder, lsnVars, appVars, envVars>>

on_packet_sent(t) ==
  /\ Outside(t)
  /\ Free("packet")
  /\ packet_callback_' \in BOOLEAN
  /\ UNCHANGED <<libVars, current_ptz_, ptz_callback_, holder, lsnVars, appVars, envVars>>

-----------------------------------------------------------------------------
(***************************************************************************)
(* Commands.  sendto reaches the network when the socket is open, and may  *)
(* fail on a non-blocking socket that is.                                  *)
(***************************************************************************)

Sent == cmd_sock_
SendFails == ~cmd_sock_ \/ "send" \in Failures

BeginsCommand(t, c, v, label) ==
  /\ Outside(t) /\ t \in Senders
  /\ arg' = [arg EXCEPT ![t] = v]
  /\ Begins(t, c, label)
  /\ UNCHANGED <<libVars, dataVars, lsnVars, got, envVars>>

set_zoom(t) ==
  \E v \in Levels : BeginsCommand(t, "set_zoom", v, "sendZoom") /\ UNCHANGED holder

set_focus(t) ==
  \E v \in Levels : BeginsCommand(t, "set_focus", v, "sendFocus") /\ UNCHANGED holder

\* set_ptz(azimuth, elevation, zoom, ...)
set_ptz_zoom(t) ==
  /\ "pan_tilt_zoom" \in Overloads
  /\ \E v \in Levels : BeginsCommand(t, "set_ptz", v, "readFocus")
  /\ UNCHANGED holder

\* set_ptz(azimuth, elevation) calls the other with ptz_mutex_ held.
set_ptz(t) ==
  /\ "pan_tilt" \in Overloads
  /\ Lock("ptz", t)
  /\ BeginsCommand(t, "set_ptz", current_ptz_.zoom, "readFocus")

ReadFocus(t) ==
  /\ pc[t] = "readFocus"
  /\ Free("ptz")
  /\ Goto(t, "sendServo")
  /\ UNCHANGED <<libVars, dataVars, holder, lsnVars, call, arg, ret, got, servo, envVars>>

ServoLeaves(t) ==
  /\ Sent
  /\ servo' = [servo EXCEPT ![t] = IF packet_callback_ THEN "untold" ELSE "sent"]

\* Fault: the branch that wraps the servo frame does not notify.
SendServo_silent(t) ==
  /\ pc[t] = "sendServo"
  /\ \/ ServoLeaves(t) /\ Goto(t, "sendFocus") /\ UNCHANGED <<call, arg, ret>>
     \/ SendFails /\ Returns(t, "false") /\ UNCHANGED servo
  /\ UNCHANGED <<libVars, dataVars, holder, lsnVars, got, envVars>>

SendServo(t) ==
  /\ pc[t] = "sendServo"
  /\ \/ ServoLeaves(t) /\ Goto(t, "notify") /\ UNCHANGED <<call, arg, ret>>
     \/ SendFails /\ Returns(t, "false") /\ UNCHANGED servo
  /\ UNCHANGED <<libVars, dataVars, holder, lsnVars, got, envVars>>

\* set_ptz goes on to the focus unless the zoom is negative.
ServoDone(t) ==
  \/ arg[t] >= 0 /\ Goto(t, "sendFocus") /\ UNCHANGED <<call, arg, ret>>
  \/ arg[t] < 0 /\ Returns(t, "true")

\* notify_packet_sent: the callback runs with packet_callback_mutex_ held.
Notify(t) ==
  /\ pc[t] = "notify"
  /\ \/ /\ packet_callback_
        /\ Lock("packet", t)
        /\ \E reads \in PacketCallbackReads :
             Goto(t, IF reads THEN "callbackRead" ELSE "packetCallback")
        /\ UNCHANGED <<call, arg, ret>>
     \/ /\ ~packet_callback_
        /\ Free("packet") /\ UNCHANGED holder
        /\ ServoDone(t)
  /\ servo' = [servo EXCEPT ![t] = "sent"]
  /\ UNCHANGED <<libVars, dataVars, lsnVars, got, envVars>>

\* What the callback reads is not recorded.
CallbackRead(t) ==
  /\ pc[t] = "callbackRead"
  /\ Free("ptz")
  /\ Goto(t, "packetCallback")
  /\ UNCHANGED <<libVars, dataVars, holder, lsnVars, call, arg, ret, got, servo, envVars>>

PacketCallback(t) ==
  /\ pc[t] = "packetCallback"
  /\ Unlock({"packet"})
  /\ ServoDone(t)
  /\ UNCHANGED <<libVars, dataVars, lsnVars, got, servo, envVars>>

\* set_focus, on its own or from set_ptz, which ignores its failure.
SendFocus(t) ==
  /\ pc[t] = "sendFocus"
  /\ \/ Sent /\ Goto(t, "storeFocus") /\ UNCHANGED <<call, arg, ret>>
     \/ SendFails /\ Returns(t, IF call[t] = "set_ptz" THEN "true" ELSE "false")
  /\ UNCHANGED <<libVars, dataVars, holder, lsnVars, got, servo, envVars>>

StoreFocus(t) ==
  /\ pc[t] = "storeFocus"
  /\ Free("ptz")
  /\ current_ptz_' = [current_ptz_ EXCEPT !.focus = arg[t]]
  /\ Returns(t, "true")
  /\ UNCHANGED <<libVars, ptz_callback_, packet_callback_, holder, lsnVars, got,
                 servo, envVars>>

\* Fault: the result of sendto is not looked at.
SendZoom_unchecked(t) ==
  /\ pc[t] = "sendZoom"
  /\ Goto(t, "storeZoom")
  /\ \/ Sent /\ zoomSent' = ZoomByte(arg[t])
     \/ SendFails /\ UNCHANGED zoomSent
  /\ UNCHANGED <<libVars, dataVars, holder, lsnVars, call, arg, ret, got, servo, number>>

\* What leaves is a byte, what is recorded afterwards is the argument itself.
SendZoom(t) ==
  /\ pc[t] = "sendZoom"
  /\ \/ /\ Sent /\ Goto(t, "storeZoom")
        /\ zoomSent' = ZoomByte(arg[t])
        /\ UNCHANGED <<call, arg, ret>>
     \/ SendFails /\ Returns(t, "false") /\ UNCHANGED zoomSent
  /\ UNCHANGED <<libVars, dataVars, holder, lsnVars, got, servo, number>>

StoreZoom(t) ==
  /\ pc[t] = "storeZoom"
  /\ Free("ptz")
  /\ current_ptz_' = [current_ptz_ EXCEPT !.zoom = arg[t]]
  /\ Returns(t, "true")
  /\ UNCHANGED <<libVars, ptz_callback_, packet_callback_, holder, lsnVars, got,
                 servo, envVars>>

-----------------------------------------------------------------------------
(***************************************************************************)
(* status_listener_thread.                                                 *)
(***************************************************************************)

ListenerGoto(label) == lpc' = label

\* while (running_)
LsnLoop ==
  /\ lpc = "loop"
  /\ ListenerGoto(IF running_ THEN "option" ELSE "exited")
  /\ UNCHANGED <<libVars, dataVars, holder, lsock, buf, calling, appVars, envVars>>

\* setsockopt(SO_RCVTIMEO) on what the number names now.
LsnOption ==
  /\ lpc = "option"
  /\ number' = IF status_sock_ /\ number = "untimed" THEN "timed" ELSE number
  /\ ListenerGoto("read")
  /\ UNCHANGED <<libVars, dataVars, holder, lsock, buf, calling, appVars, zoomSent>>

\* status_sock_ is read again for recvfrom.
LsnRead ==
  /\ lpc = "read"
  /\ lsock' = status_sock_
  /\ ListenerGoto("recv")
  /\ UNCHANGED <<libVars, dataVars, holder, buf, calling, appVars, envVars>>

\* Nothing has arrived, or a datagram that parse_status_report rejects, or
\* the number names nothing: back to the flag.
LsnNothing ==
  /\ lpc = "recv"
  /\ lsock' = FALSE
  /\ ListenerGoto("loop")
  /\ UNCHANGED <<libVars, dataVars, holder, buf, calling, appVars, envVars>>

LsnBlocks ==
  /\ lpc = "recv"
  /\ lsock /\ number = "untimed"
  /\ ListenerGoto("blocked")
  /\ UNCHANGED <<libVars, dataVars, holder, lsock, buf, calling, appVars, envVars>>

\* A datagram for the other socket: recvfrom returns although the number may
\* have been closed since.
LsnStranger ==
  /\ lpc = "blocked"
  /\ lsock' = FALSE
  /\ ListenerGoto("loop")
  /\ UNCHANGED <<libVars, dataVars, holder, buf, calling, appVars, envVars>>

\* A report is taken for the device's wherever it was received.
LsnReport ==
  /\ \/ lpc = "recv" /\ lsock /\ number # "free"
     \/ lpc = "blocked"
  /\ lsock' = FALSE
  /\ buf' \in Reports
  /\ ListenerGoto("store")
  /\ UNCHANGED <<libVars, dataVars, holder, calling, appVars, envVars>>

\* The fields are written one after the other.
LsnStore ==
  /\ lpc = "store"
  /\ Lock("ptz", Listener)
  /\ current_ptz_' = [current_ptz_ EXCEPT !.pos = buf]
  /\ ListenerGoto("storeRest")
  /\ UNCHANGED <<libVars, ptz_callback_, packet_callback_, lsock, buf, calling, appVars,
                 envVars>>

\* Fault: broadcast_ptz_update is called inside the scope of the lock.
LsnStoreRest_locked ==
  /\ lpc = "storeRest"
  /\ current_ptz_' = [current_ptz_ EXCEPT !.focus = buf, !.valid = TRUE]
  /\ buf' = None
  /\ ListenerGoto("broadcast")
  /\ UNCHANGED <<libVars, ptz_callback_, packet_callback_, holder, lsock, calling, appVars,
                 envVars>>

LsnStoreRest ==
  /\ lpc = "storeRest"
  /\ current_ptz_' = [current_ptz_ EXCEPT !.focus = buf, !.valid = TRUE]
  /\ buf' = None
  /\ Unlock({"ptz"})
  /\ ListenerGoto("broadcast")
  /\ UNCHANGED <<libVars, ptz_callback_, packet_callback_, lsock, calling, appVars, envVars>>

\* broadcast_ptz_update
LsnBroadcast ==
  /\ lpc = "broadcast"
  /\ Lock("callback", Listener)
  /\ ListenerGoto("broadcastPtz")
  /\ UNCHANGED <<libVars, dataVars, lsock, buf, calling, appVars, envVars>>

\* Fault: the callback is copied and called with no mutex held.
LsnBroadcastPtz_unlocked ==
  /\ lpc = "broadcastPtz"
  /\ Free("ptz")
  /\ Unlock({"callback"})
  /\ \/ /\ ptz_callback_ # None
        /\ calling' = [to |-> ptz_callback_, ptz |-> current_ptz_]
        /\ ListenerGoto("calling")
     \/ /\ ptz_callback_ = None
        /\ ListenerGoto("loop")
        /\ UNCHANGED calling
  /\ UNCHANGED <<libVars, dataVars, lsock, buf, appVars, envVars>>

\* Fault: a report that nobody is registered for is offered again.
LsnBroadcastPtz_retries ==
  /\ lpc = "broadcastPtz"
  /\ \/ /\ ptz_callback_ # None
        /\ Lock("ptz", Listener)
        /\ calling' = [to |-> ptz_callback_, ptz |-> current_ptz_]
        /\ ListenerGoto("calling")
     \/ /\ ptz_callback_ = None
        /\ Free("ptz")
        /\ Unlock({"callback"})
        /\ ListenerGoto("broadcast")
        /\ UNCHANGED calling
  /\ UNCHANGED <<libVars, dataVars, lsock, buf, appVars, envVars>>

\* With no callback both mutexes are released at once.
LsnBroadcastPtz ==
  /\ lpc = "broadcastPtz"
  /\ \/ /\ ptz_callback_ # None
        /\ Lock("ptz", Listener)
        /\ calling' = [to |-> ptz_callback_, ptz |-> current_ptz_]
        /\ ListenerGoto("calling")
     \/ /\ ptz_callback_ = None
        /\ Free("ptz")
        /\ Unlock({"callback"})
        /\ ListenerGoto("loop")
        /\ UNCHANGED calling
  /\ UNCHANGED <<libVars, dataVars, lsock, buf, appVars, envVars>>

LsnCallback ==
  /\ lpc = "calling"
  /\ calling' = NotCalling
  /\ Unlock({"ptz", "callback"})
  /\ ListenerGoto("loop")
  /\ UNCHANGED <<libVars, dataVars, lsock, buf, appVars, envVars>>

-----------------------------------------------------------------------------
(***************************************************************************)
(* The rest of the process opens and closes sockets of its own.  It is     *)
(* followed while the library may still use the number.                    *)
(***************************************************************************)

OtherOpens ==
  /\ number = "free" /\ (status_sock_ \/ lsock)
  /\ number' = "untimed"
  /\ UNCHANGED <<libVars, dataVars, holder, lsnVars, appVars, zoomSent>>

OtherCloses ==
  /\ number \in {"timed", "untimed"}
  /\ number' = "free"
  /\ UNCHANGED <<libVars, dataVars, holder, lsnVars, appVars, zoomSent>>

-----------------------------------------------------------------------------

\* What the listener does when it is scheduled, the arrival of a datagram aside.
ListenerStep ==
  \/ LsnLoop \/ LsnOption \/ LsnRead \/ LsnNothing \/ LsnBlocks
  \/ LsnStore \/ LsnStoreRest
  \/ LsnBroadcast \/ LsnBroadcastPtz \/ LsnCallback

Arrives == LsnReport \/ LsnStranger

\* What a thread inside a call does when it is scheduled.
CallStep(t) ==
  \/ StopClose(t) \/ StopReset(t) \/ StopJoin(t) \/ CloseAll(t) \/ OpenCmd(t) \/ GotPtz(t)
  \/ ReadFocus(t) \/ SendServo(t) \/ Notify(t) \/ CallbackRead(t) \/ PacketCallback(t)
  \/ SendFocus(t) \/ StoreFocus(t) \/ SendZoom(t) \/ StoreZoom(t)

\* A thread outside the library makes a call.
MakesCall(t) ==
  \/ initWithConfig(t) \/ shutdown(t) \/ stop(t) \/ start(t)
  \/ get_ptz(t) \/ on_ptz_update(t) \/ on_packet_sent(t)
  \/ set_zoom(t) \/ set_focus(t) \/ set_ptz_zoom(t) \/ set_ptz(t)

Next ==
  \/ ListenerStep \/ Arrives
  \/ OtherOpens \/ OtherCloses
  \/ \E t \in Apps : MakesCall(t) \/ CallStep(t)

Spec == Init /\ [][Next]_vars

\* Threads are scheduled and the callbacks of the application return.  A mutex
\* is not handed over fairly: a thread that waits for one that others keep
\* taking may wait for ever.  No report need ever arrive.
FairSpec == Spec /\ WF_vars(ListenerStep) /\ \A t \in Apps : WF_vars(CallStep(t))

-----------------------------------------------------------------------------
(***************************************************************************)
(* Properties.                                                             *)
(***************************************************************************)

\* The one process p is waiting for: the holder of a mutex it wants, or the
\* listener it joins; None when it can go on.
WaitsFor(p) ==
  IF p = Listener
  THEN CASE lpc \in {"store", "broadcastPtz"} -> holder["ptz"]
         [] lpc = "broadcast" -> holder["callback"]
         [] OTHER -> None
  ELSE CASE pc[p] \in {"readFocus", "callbackRead", "storeFocus", "storeZoom"} -> holder["ptz"]
         [] pc[p] = "notify" -> holder["packet"]
         [] pc[p] = "stopJoin" /\ lpc \notin {"none", "exited"} -> Listener
         [] OTHER -> None

InACircle(ring) == ring # {} /\ \A p \in ring : WaitsFor(p) \in ring

\* No threads wait for each other, or one for itself, in a circle (the code
\* does not keep this: see LocksTwice).
NoWaitCycle == ~ \E ring \in SUBSET Processes : InACircle(ring)

\* set_ptz(azimuth, elevation) waits for the mutex it holds.
LocksTwice(t) == pc[t] = "readFocus" /\ holder["ptz"] = t

\* But for a set_ptz that waits for itself, and those who want the mutex it
\* keeps, no threads wait for each other in a circle, through the three mutexes
\* and the join of stop: the locks are nested as packet before ptz and callback
\* before ptz, and nobody joins with a lock held (cam_ajf_lib.cpp:228, 268,
\* 381, 419, 438, 500, 517-518).
NoOtherCycle ==
  ~ \E ring \in SUBSET (Processes \ {t \in Apps : LocksTwice(t)}) : InACircle(ring)

\* Once stop or shutdown has returned no report changes the status and no PTZ
\* callback begins or is still running (cam_ajf_lib.cpp:217-230: a report
\* received before the flag was cleared is dealt with before the join).
SilentAfterStop ==
  [][~running_ /\ Outside(Owner)
       => UNCHANGED <<current_ptz_.pos, current_ptz_.valid, calling>>]_vars

\* Between the calls of the owner the status socket is open exactly while
\* running_ is set, never without a command socket, and a thread exists only
\* while running_ is set: neither a failed start nor a stop leaves a socket,
\* or a joinable thread that the next start would assign to (cam_ajf_lib.cpp:
\* 122-124, 150-161, 182, 204-206, 223-230).
NothingLeftBehind ==
  Outside(Owner) =>
    /\ status_sock_ = running_ /\ (number = "own") = running_
    /\ running_ => cmd_sock_
    /\ lpc # "none" => running_

\* While no command is under way the recorded zoom is the one whose byte the
\* device was sent last, provided that one thread sends the commands: a zoom
\* that did not leave is not recorded (cam_ajf_lib.cpp:360, 371-383).
ZoomIsLastSent ==
  (\A t \in Senders : Outside(t)) =>
    IF zoomSent = None THEN current_ptz_.zoom = 0
    ELSE zoomSent = ZoomByte(current_ptz_.zoom)

\* A servo command that left is reported to the packet callback before set_ptz
\* returns, and set_ptz answers true, whether or not the focus command that
\* follows can be sent (cam_ajf_lib.cpp:320-353).
ServoReported ==
  \A t \in Apps : Outside(t) =>
    /\ servo[t] # "untold"
    /\ servo[t] = "sent" => ret[t] = "true"

(***************************************************************************)
(* The library implements PtzFeed: a report is accepted when ptz_mutex_ is *)
(* taken to store it, and offered when the callback is called.             *)
(***************************************************************************)
listening == lpc # "none"
settled == IF lpc = "storeRest" THEN Reported(current_ptz_, buf) ELSE current_ptz_
offering == lpc \in {"storeRest", "broadcast", "broadcastPtz"}

Feed == INSTANCE PtzFeed WITH
  on <- listening, status <- settled, pending <- offering, callback <- ptz_callback_,
  delivering <- calling, read <- got

\* Every report is stored as a whole and given to the registered callback
\* exactly once, before the next one is accepted and before stop returns; the
\* status does not change under a running callback, and a callback that has
\* been replaced is not called again (cam_ajf_lib.cpp:235-239, 427-430,
\* 499-524).
ImplementsFeed == Feed!Spec

\* stop, shutdown and init return although the listener may be in the middle of
\* a report, or in a callback that returns (cam_ajf_lib.cpp:217-230, 451): only
\* a listener that receives on another socket of the process, one without a
\* timeout, to which no datagram ever comes, keeps them (cam_ajf_lib.cpp:224,
\* 460, 462), or a set_ptz that keeps ptz_mutex_ from it for good (244).
StopReturns ==
  pc[Owner] \in StopPcs ~>
    Outside(Owner) \/ [](lpc = "blocked") \/ (\E t \in Apps : LocksTwice(t))

\* A report that was received is dealt with: the listener comes back to its
\* loop, unless a set_ptz keeps ptz_mutex_ from it (cam_ajf_lib.cpp:244, 470, 511).
ReportsAreDealtWith ==
  lpc = "store" ~> lpc \in {"loop", "exited", "none"} \/ (\E t \in Apps : LocksTwice(t))

=============================================================================
