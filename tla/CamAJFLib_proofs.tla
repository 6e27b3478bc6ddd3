-------------------------- MODULE CamAJFLib_proofs --------------------------
(***************************************************************************)
(* Theorems about CamAJFLib for every set of application threads, reports, *)
(* commands and callbacks.                                                 *)
(***************************************************************************)
EXTENDS CamAJFLib, TLAPS

Results == {"none", "true", "false", "threw"}
Labels == {"idle", "gotPtz"} \cup StopPcs \cup SendPcs

\* The types of the variables of an application thread, and of the mutexes.
CallTypes ==
  /\ pc \in [Apps -> Labels]
  /\ call \in [Apps -> Calls]
  /\ arg \in [Apps -> Values]
  /\ ret \in [Apps -> Results]

HolderType == holder \in [Mutexes -> Processes \cup {None}]

LEMMA PartsOfTypeOK == TypeOK => CallTypes /\ HolderType
BY DEF TypeOK, CallTypes, HolderType, Labels, Results

Servos == {"none", "untold", "sent"}

\* What is left of TypeOK.
DataTypes ==
  /\ cmd_sock_ \in BOOLEAN /\ status_sock_ \in BOOLEAN /\ running_ \in BOOLEAN
  /\ current_ptz_ \in Ptz
  /\ ptz_callback_ \in Callbacks \cup {None}
  /\ packet_callback_ \in BOOLEAN
  /\ lpc \in ListenerPcs \cup {"none"}
  /\ lsock \in BOOLEAN
  /\ buf \in Reports \cup {None} /\ (lpc \in {"store", "storeRest"} => buf # None)
  /\ calling \in Delivery
  /\ got \in [Apps -> Ptz]
  /\ servo \in [Apps -> Servos]
  /\ number \in {"free", "own", "timed", "untimed"}
  /\ zoomSent \in (0..255) \cup {None}

LEMMA TypeOKFromParts == CallTypes /\ HolderType /\ DataTypes <=> TypeOK
BY DEF TypeOK, CallTypes, HolderType, DataTypes, Labels, Results, Servos

LEMMA ReturnsType ==
  ASSUME CallTypes, NEW t \in Apps, NEW r \in Results, Returns(t, r)
  PROVE  CallTypes'
BY DEF CallTypes, Returns, Goto, Labels, Calls, Values

LEMMA BeginsType ==
  ASSUME CallTypes, NEW t \in Apps, NEW c \in Calls, NEW label \in Labels,
         NEW v \in Values,
         Begins(t, c, label), UNCHANGED arg \/ arg' = [arg EXCEPT ![t] = v]
  PROVE  CallTypes'
BY DEF CallTypes, Begins, Goto, Results

LEMMA AnswersType ==
  ASSUME CallTypes, NEW t \in Apps, NEW r \in Results, Answers(t, r), UNCHANGED arg
  PROVE  CallTypes'
BY DEF CallTypes, Answers

LEMMA GotoType ==
  ASSUME CallTypes, NEW t \in Apps, NEW label \in Labels,
         Goto(t, label), UNCHANGED <<call, arg, ret>>
  PROVE  CallTypes'
BY DEF CallTypes, Goto

LEMMA LockType ==
  ASSUME HolderType, NEW m \in Mutexes, NEW p \in Processes, Lock(m, p)
  PROVE  HolderType'
BY DEF HolderType, Lock

LEMMA UnlockType ==
  ASSUME HolderType, NEW ms, Unlock(ms)
  PROVE  HolderType'
BY DEF HolderType, Unlock


LEMMA InitialTypes == Unknown \in Ptz /\ NotCalling \in Delivery
BY DEF Unknown, Ptz, NotCalling, Delivery, Values

\* A servo command is forgotten when a call begins.
LEMMA ServoType ==
  ASSUME DataTypes, NEW t \in Apps,
         ServoLeaves(t) \/ \E s \in Servos : servo' = [servo EXCEPT ![t] = s]
  PROVE  servo' \in [Apps -> Servos]
BY DEF DataTypes, ServoLeaves, Servos

\* set_zoom sends a byte.
LEMMA ZoomIsAByte ==
  ASSUME NEW v \in Values
  PROVE  ZoomByte(v) \in 0..255
<1>1. v \in Int
  BY DataAssumption DEF Values
<1> QED
  BY <1>1 DEF ZoomByte

\* Every step changes the locals of one thread by entering, leaving or going
\* on in a call.
LEMMA CallTypesStep ==
  ASSUME TypeOK, CallTypes, [Next]_vars
  PROVE  CallTypes'
<1> USE DEF appVars, libVars, dataVars, lsnVars
<1>a. ASSUME UNCHANGED <<pc, call, arg, ret>>
      PROVE  CallTypes'
  BY <1>a DEF CallTypes
<1>b. {"init", "start", "stop", "shutdown", "set_ptz", "set_zoom", "set_focus"} \subseteq Calls
  BY DEF Calls
<1>c. StopPcs \cup SendPcs \subseteq Labels
  BY DEF Labels
<1>1. ASSUME NEW t \in Apps, initWithConfig(t) \/ shutdown(t) \/ stop(t)
      PROVE  CallTypes'
  <2>1. UNCHANGED arg
    BY <1>1 DEF initWithConfig, shutdown, stop
  <2>2. \/ \E c \in {"init", "shutdown", "stop"}, label \in {"stopClose", "closeAll", "openCmd"} :
             Begins(t, c, label)
        \/ Answers(t, "none")
    BY <1>1 DEF initWithConfig, shutdown, stop, StopFlag
  <2>3. {"stopClose", "closeAll", "openCmd"} \subseteq Labels
    BY <1>c DEF StopPcs
  <2>4. 0 \in Values /\ "none" \in Results
    BY DEF Values, Results
  <2>5. ASSUME NEW c \in {"init", "shutdown", "stop"},
               NEW label \in {"stopClose", "closeAll", "openCmd"}, Begins(t, c, label)
        PROVE  CallTypes'
    BY <1>b, <2>1, <2>3, <2>4, <2>5, BeginsType
  <2> QED
    BY <2>1, <2>2, <2>4, <2>5, AnswersType
<1>2. ASSUME NEW t \in Apps, start(t)
      PROVE  CallTypes'
  <2>1. UNCHANGED arg /\ \E r \in Results : Answers(t, r)
    BY <1>2 DEF start, StartRefused, StartNoSocket, StartThrows, StartListener, Results
  <2> QED
    BY <2>1, AnswersType
<1>3. ASSUME NEW t \in Apps, StopClose(t) \/ StopReset(t)
      PROVE  CallTypes'
  BY <1>3, <1>c, GotoType DEF StopClose, StopReset, StopPcs
<1>4. ASSUME NEW t \in Apps, StopJoin(t) \/ CloseAll(t) \/ OpenCmd(t)
      PROVE  CallTypes'
  <2>1. \/ \E r \in Results : Returns(t, r)
        \/ \E label \in StopPcs : Goto(t, label) /\ UNCHANGED <<call, arg, ret>>
    BY <1>4 DEF StopJoin, CloseAll, OpenCmd, StopPcs, Results
  <2> QED
    BY <1>c, <2>1, ReturnsType, GotoType
<1>5. ASSUME NEW t \in Apps, on_ptz_update(t) \/ on_packet_sent(t)
      PROVE  CallTypes'
  BY <1>a, <1>5 DEF on_ptz_update, on_packet_sent
<1>11. ASSUME NEW t \in Apps, get_ptz(t) \/ GotPtz(t)
       PROVE  CallTypes'
  BY <1>11, GotoType DEF get_ptz, GotPtz, Labels
<1>6. ASSUME NEW t \in Apps, set_zoom(t) \/ set_focus(t) \/ set_ptz_zoom(t)
      PROVE  CallTypes'
  <2>1. PICK v \in Levels, c \in {"set_ptz", "set_zoom", "set_focus"},
             label \in {"sendZoom", "sendFocus", "readFocus"} :
               Begins(t, c, label) /\ arg' = [arg EXCEPT ![t] = v]
    BY <1>6 DEF set_zoom, set_focus, set_ptz_zoom, BeginsCommand
  <2>2. label \in Labels /\ v \in Values
    BY <1>c DEF SendPcs, Values
  <2> QED
    BY <1>b, <2>1, <2>2, BeginsType
<1>7. ASSUME NEW t \in Apps, set_ptz(t)
      PROVE  CallTypes'
  <2>3. current_ptz_.zoom \in Values
    BY DEF TypeOK, Ptz
  <2>1. Begins(t, "set_ptz", "readFocus") /\ arg' = [arg EXCEPT ![t] = current_ptz_.zoom]
    BY <1>7 DEF set_ptz, BeginsCommand
  <2>2. "readFocus" \in Labels
    BY <1>c DEF SendPcs
  <2> QED
    BY <1>b, <2>1, <2>2, <2>3, BeginsType
<1>8. ASSUME NEW t \in Apps,
             \/ ReadFocus(t) \/ SendServo(t) \/ Notify(t) \/ CallbackRead(t)
             \/ PacketCallback(t)
      PROVE  CallTypes'
  <2>1. \/ \E r \in Results : Returns(t, r)
        \/ \E label \in SendPcs : Goto(t, label) /\ UNCHANGED <<call, arg, ret>>
    BY <1>8 DEF ReadFocus, SendServo, Notify, CallbackRead, PacketCallback, ServoDone,
                SendPcs, Results
  <2> QED
    BY <1>c, <2>1, ReturnsType, GotoType
<1>9. ASSUME NEW t \in Apps,
             SendFocus(t) \/ StoreFocus(t) \/ SendZoom(t) \/ StoreZoom(t)
      PROVE  CallTypes'
  <2>1. \/ \E r \in Results : Returns(t, r)
        \/ \E label \in SendPcs : Goto(t, label) /\ UNCHANGED <<call, arg, ret>>
    BY <1>9 DEF SendFocus, StoreFocus, SendZoom, StoreZoom, SendPcs, Results
  <2> QED
    BY <1>c, <2>1, ReturnsType, GotoType
<1>10. CASE ListenerStep \/ Arrives \/ OtherOpens \/ OtherCloses \/ UNCHANGED vars
  BY <1>a, <1>10 DEF ListenerStep, Arrives, LsnLoop, LsnOption, LsnRead, LsnNothing, LsnBlocks,
                     LsnStranger, LsnReport, LsnStore, LsnStoreRest,
                     LsnBroadcast, LsnBroadcastPtz, LsnCallback, OtherOpens, OtherCloses, vars
<1> QED
  BY <1>1, <1>2, <1>3, <1>4, <1>5, <1>6, <1>7, <1>8, <1>9, <1>10, <1>11
     DEF Next, MakesCall, CallStep

\* A mutex is held by a thread of the library's process or by none.
LEMMA HolderTypeStep ==
  ASSUME HolderType, [Next]_vars
  PROVE  HolderType'
<1> USE DEF appVars, libVars, dataVars, lsnVars
<1>a. ASSUME UNCHANGED holder
      PROVE  HolderType'
  BY <1>a DEF HolderType
<1>b. {"ptz", "callback", "packet"} \subseteq Mutexes /\ Listener \in Processes
      /\ Apps \subseteq Processes
  BY DEF Mutexes, Processes
<1>1. ASSUME NEW t \in Apps, MakesCall(t)
      PROVE  HolderType'
  <2>1. UNCHANGED holder \/ Lock("ptz", t)
    BY <1>1 DEF MakesCall, initWithConfig, shutdown, stop, start, get_ptz, on_ptz_update,
                on_packet_sent, set_zoom, set_focus, set_ptz_zoom, set_ptz
  <2> QED
    BY <1>a, <1>b, <2>1, LockType
<1>2. ASSUME NEW t \in Apps, CallStep(t)
      PROVE  HolderType'
  <2>1. UNCHANGED holder \/ Lock("packet", t) \/ Unlock({"packet"})
    BY <1>2 DEF CallStep, StopClose, StopReset, StopJoin, CloseAll, OpenCmd, GotPtz, ReadFocus,
                SendServo, Notify, CallbackRead, PacketCallback, SendFocus, StoreFocus, SendZoom,
                StoreZoom
  <2> QED
    BY <1>a, <1>b, <2>1, LockType, UnlockType
<1>3. CASE ListenerStep \/ Arrives
  <2>1. \/ UNCHANGED holder
        \/ \E m \in Mutexes : Lock(m, Listener)
        \/ \E ms : Unlock(ms)
    BY <1>b, <1>3 DEF ListenerStep, Arrives, LsnLoop, LsnOption, LsnRead, LsnNothing, LsnBlocks,
                LsnStranger, LsnReport, LsnStore, LsnStoreRest,
                LsnBroadcast, LsnBroadcastPtz, LsnCallback
  <2> QED
    BY <1>a, <1>b, <2>1, LockType, UnlockType
<1>4. CASE OtherOpens \/ OtherCloses
  BY <1>a, <1>4 DEF OtherOpens, OtherCloses
<1> QED
  BY <1>a, <1>1, <1>2, <1>3, <1>4 DEF Next, vars

\* The object, the listener and what threads have read and sent.
LEMMA DataTypesStep ==
  ASSUME TypeOK, DataTypes, [Next]_vars
  PROVE  DataTypes'
<1> USE DEF appVars, libVars, dataVars, lsnVars, envVars
<1>a. /\ current_ptz_ \in Ptz
      /\ arg \in [Apps -> Values]
  BY DEF TypeOK
<1>b. ASSUME NEW label \in ListenerPcs, lpc' = label, label \notin {"store", "storeRest"},
             buf' = buf \/ buf' = None
      PROVE  /\ lpc' \in ListenerPcs \cup {"none"}
             /\ buf' \in Reports \cup {None}
             /\ lpc' \in {"store", "storeRest"} => buf' # None
  BY <1>b DEF DataTypes
<1>1. ASSUME NEW t \in Apps, initWithConfig(t) \/ shutdown(t) \/ stop(t) \/ start(t)
      PROVE  DataTypes'
  <2>1. /\ cmd_sock_' = cmd_sock_
        /\ UNCHANGED <<dataVars, lsock, buf, calling, got, zoomSent>>
    BY <1>1 DEF initWithConfig, shutdown, stop, start
  <2>2. /\ status_sock_' \in BOOLEAN /\ running_' \in BOOLEAN
        /\ lpc' \in ListenerPcs \cup {"none"} /\ (UNCHANGED lpc \/ lpc' = "loop")
    BY <1>1, ZenonT(60) DEF initWithConfig, shutdown, stop, StopFlag, start, StartRefused,
              StartNoSocket, StartThrows, StartListener, DataTypes, ListenerPcs
  <2>3. number' \in {"free", "own", "timed", "untimed"}
    BY <1>1, ZenonT(60) DEF initWithConfig, shutdown, stop, StopFlag, start, StartRefused,
              StartNoSocket, StartThrows, StartListener, DataTypes
  <2>4. servo' = [servo EXCEPT ![t] = "none"]
    BY <1>1 DEF initWithConfig, shutdown, stop, StopFlag, start, StartRefused,
              StartNoSocket, StartThrows, StartListener, Begins, Answers
  <2>5. servo' \in [Apps -> Servos]
    BY <2>4, ServoType DEF Servos
  <2> QED
    BY <2>1, <2>2, <2>3, <2>5 DEF DataTypes
<1>2. ASSUME NEW t \in Apps, StopClose(t) \/ StopReset(t) \/ StopJoin(t) \/ CloseAll(t) \/ OpenCmd(t)
      PROVE  DataTypes'
  <2>1. UNCHANGED <<dataVars, lsock, buf, calling, got, servo, zoomSent>>
    BY <1>2 DEF StopClose, StopReset, StopJoin, CloseAll, OpenCmd
  <2>2. /\ cmd_sock_' \in BOOLEAN /\ status_sock_' \in BOOLEAN /\ running_' \in BOOLEAN
        /\ UNCHANGED lpc \/ lpc' = "none"
    BY <1>2 DEF StopClose, StopReset, StopJoin, CloseAll, OpenCmd, DataTypes
  <2>3. UNCHANGED number \/ number' = "free"
    BY <1>2 DEF StopClose, StopReset, StopJoin, CloseAll, OpenCmd
  <2> QED
    BY <2>1, <2>2, <2>3 DEF DataTypes
<1>3. ASSUME NEW t \in Apps, get_ptz(t) \/ GotPtz(t) \/ on_ptz_update(t) \/ on_packet_sent(t)
      PROVE  DataTypes'
  BY <1>3, InitialTypes DEF get_ptz, GotPtz, on_ptz_update, on_packet_sent, DataTypes
<1>4. ASSUME NEW t \in Apps, set_zoom(t) \/ set_focus(t) \/ set_ptz_zoom(t) \/ set_ptz(t)
      PROVE  DataTypes'
  <2>1. /\ servo' = [servo EXCEPT ![t] = "none"]
        /\ UNCHANGED <<libVars, dataVars, lsnVars, got, envVars>>
    BY <1>4 DEF set_zoom, set_focus, set_ptz_zoom, set_ptz, BeginsCommand, Begins
  <2>2. servo' \in [Apps -> Servos]
    BY <2>1, ServoType DEF Servos
  <2> QED
    BY <2>1, <2>2 DEF DataTypes
<1>5. ASSUME NEW t \in Apps, ReadFocus(t) \/ CallbackRead(t) \/ PacketCallback(t)
      PROVE  DataTypes'
  BY <1>5 DEF ReadFocus, CallbackRead, PacketCallback, DataTypes
<1>6. ASSUME NEW t \in Apps, Notify(t)
      PROVE  DataTypes'
  <2>1. /\ servo' = [servo EXCEPT ![t] = "sent"]
        /\ UNCHANGED <<libVars, dataVars, lsnVars, got, envVars>>
    BY <1>6 DEF Notify
  <2>2. servo' \in [Apps -> Servos]
    BY <2>1, ServoType DEF Servos
  <2> QED
    BY <2>1, <2>2 DEF DataTypes
<1>7. ASSUME NEW t \in Apps, SendServo(t) \/ SendFocus(t) \/ SendZoom(t)
      PROVE  DataTypes'
  <2>1. /\ UNCHANGED servo \/ ServoLeaves(t)
        /\ UNCHANGED zoomSent \/ zoomSent' = ZoomByte(arg[t])
        /\ UNCHANGED <<libVars, dataVars, lsnVars, got, number>>
    BY <1>7 DEF SendServo, SendFocus, SendZoom
  <2>2. servo' \in [Apps -> Servos]
    BY <2>1, ServoType DEF DataTypes
  <2>3. zoomSent' \in (0..255) \cup {None}
    BY <1>a, <2>1, ZoomIsAByte DEF DataTypes
  <2> QED
    BY <2>1, <2>2, <2>3 DEF DataTypes
<1>8. ASSUME NEW t \in Apps, StoreFocus(t) \/ StoreZoom(t)
      PROVE  DataTypes'
  <2>1. /\ \/ current_ptz_' = [current_ptz_ EXCEPT !.focus = arg[t]]
           \/ current_ptz_' = [current_ptz_ EXCEPT !.zoom = arg[t]]
        /\ UNCHANGED <<libVars, ptz_callback_, packet_callback_, lsnVars, got, servo, envVars>>
    BY <1>8 DEF StoreFocus, StoreZoom
  <2>2. current_ptz_' \in Ptz
    BY <1>a, <2>1 DEF Ptz
  <2> QED
    BY <2>1, <2>2 DEF DataTypes
<1>9. CASE \/ LsnLoop \/ LsnRead \/ LsnNothing \/ LsnBlocks \/ LsnStranger \/ LsnReport
           \/ LsnBroadcast
  <2>1. UNCHANGED <<libVars, dataVars, calling, got, servo, envVars>>
    BY <1>9 DEF LsnLoop, LsnRead, LsnNothing, LsnBlocks, LsnStranger, LsnReport, LsnBroadcast
  <2>2. lsock' \in BOOLEAN
    BY <1>9 DEF LsnLoop, LsnRead, LsnNothing, LsnBlocks, LsnStranger, LsnReport, LsnBroadcast,
                DataTypes
  <2>3. CASE LsnReport
    <3>1. buf' \in Reports /\ lpc' = "store" /\ "store" \in ListenerPcs
      BY <2>3 DEF LsnReport, ListenerGoto, ListenerPcs
    <3> QED
      BY <2>1, <2>2, <3>1, DataAssumption DEF DataTypes
  <2>4. CASE ~LsnReport
    <3>1. \E label \in ListenerPcs \ {"store", "storeRest"} : lpc' = label
      BY <1>9, <2>4 DEF LsnLoop, LsnRead, LsnNothing, LsnBlocks, LsnStranger, LsnBroadcast,
                        ListenerGoto, ListenerPcs
    <3>2. buf' = buf
      BY <1>9, <2>4 DEF LsnLoop, LsnRead, LsnNothing, LsnBlocks, LsnStranger, LsnBroadcast
    <3> QED
      BY <1>b, <2>1, <2>2, <3>1, <3>2 DEF DataTypes
  <2> QED
    BY <2>3, <2>4
<1>13. CASE LsnOption
  <2>1. /\ lpc' = "read" /\ "read" \in ListenerPcs
        /\ UNCHANGED number \/ number' = "timed"
        /\ UNCHANGED <<libVars, dataVars, lsock, buf, calling, got, servo, zoomSent>>
    BY <1>13 DEF LsnOption, ListenerGoto, ListenerPcs
  <2> QED
    BY <1>b, <2>1 DEF DataTypes
<1>14. CASE OtherOpens \/ OtherCloses
  BY <1>14 DEF OtherOpens, OtherCloses, DataTypes
<1>10. CASE LsnStore \/ LsnStoreRest
  <2>1. /\ \/ current_ptz_' = [current_ptz_ EXCEPT !.pos = buf]
           \/ current_ptz_' = [current_ptz_ EXCEPT !.focus = buf, !.valid = TRUE]
        /\ lpc \in {"store", "storeRest"}
        /\ \/ UNCHANGED buf
           \/ buf' = None /\ lpc' = "broadcast"
        /\ lpc' \in ListenerPcs
        /\ UNCHANGED <<libVars, ptz_callback_, packet_callback_, lsock, calling, got, servo, envVars>>
    BY <1>10 DEF LsnStore, LsnStoreRest, ListenerGoto, ListenerPcs
  <2>2. buf \in Reports
    BY <2>1 DEF DataTypes
  <2>3. current_ptz_' \in Ptz
    BY <1>a, <2>1, <2>2 DEF Ptz
  <2> QED
    BY <2>1, <2>2, <2>3 DEF DataTypes
<1>11. CASE LsnBroadcastPtz \/ LsnCallback
  <2>1. /\ \/ UNCHANGED calling
           \/ calling' = NotCalling
           \/ calling' = [to |-> ptz_callback_, ptz |-> current_ptz_]
        /\ \E label \in ListenerPcs \ {"store", "storeRest"} : lpc' = label
        /\ UNCHANGED <<libVars, dataVars, lsock, buf, got, servo, envVars>>
    BY <1>11 DEF LsnBroadcastPtz, LsnCallback, ListenerGoto, ListenerPcs
  <2>2. calling' \in Delivery
    BY <2>1, InitialTypes DEF DataTypes, Delivery
  <2> QED
    BY <1>b, <2>1, <2>2 DEF DataTypes
<1>12. CASE UNCHANGED vars
  BY <1>12 DEF vars, DataTypes
<1> QED
  BY <1>1, <1>2, <1>3, <1>4, <1>5, <1>6, <1>7, <1>8, <1>9, <1>10, <1>11, <1>12, <1>13, <1>14
     DEF Next, MakesCall, CallStep, ListenerStep, Arrives

\* Every variable keeps its type.
THEOREM TypeCorrect == Spec => []TypeOK
<1>1. Init => TypeOK
  <2> SUFFICES ASSUME Init
               PROVE  TypeOK
    OBVIOUS
  <2>1. CallTypes
    BY DEF Init, CallTypes, Labels, Calls, Results, Values
  <2>2. HolderType
    BY DEF Init, HolderType
  <2>3. DataTypes
    BY InitialTypes DEF Init, DataTypes, Servos
  <2> QED
    BY <2>1, <2>2, <2>3, TypeOKFromParts
<1>2. TypeOK /\ [Next]_vars => TypeOK'
  <2> SUFFICES ASSUME TypeOK, [Next]_vars
               PROVE  TypeOK'
    OBVIOUS
  <2>1. CallTypes /\ HolderType /\ DataTypes
    BY TypeOKFromParts
  <2>2. CallTypes' /\ HolderType' /\ DataTypes'
    BY <2>1, CallTypesStep, HolderTypeStep, DataTypesStep
  <2> QED
    BY <2>2 DEF TypeOK, CallTypes, HolderType, DataTypes, Labels, Results, Servos
<1> QED
  BY <1>1, <1>2, PTL DEF Spec

-----------------------------------------------------------------------------
(***************************************************************************)
(* The sockets and the thread through start and stop.                      *)
(***************************************************************************)

BeforeJoin == {"stopClose", "stopReset", "stopJoin"}

\* Only the owner is ever in stop; the flag means two open sockets and no stop
\* under way, and without the flag a thread, a status socket or its number
\* exists only inside a stop that has not got to them.
LifeInv ==
  /\ \A t \in Apps : pc[t] \in StopPcs => t = Owner
  /\ lpc # "none" => running_ \/ pc[Owner] \in BeforeJoin
  /\ running_ => status_sock_ /\ cmd_sock_ /\ number = "own" /\ pc[Owner] \notin StopPcs
  /\ status_sock_ => running_ \/ pc[Owner] \in {"stopClose", "stopReset"}
  /\ number = "own" => running_ \/ pc[Owner] = "stopClose"
  /\ pc[Owner] = "stopClose" => status_sock_

\* The listener, the threads and None can be told apart.
LEMMA Distinct ==
  /\ None \notin Apps /\ Listener \notin Apps /\ None # Listener
  /\ Owner \in Apps
BY LibAssumption, DataAssumption

\* A thread that goes on outside stop, when the owner does not leave it.
LEMMA LifeStutter ==
  ASSUME TypeOK, LifeInv, NEW t \in Apps, NEW label,
         UNCHANGED <<libVars, lpc, number>>, Goto(t, label),
         pc[t] \notin StopPcs, label \notin StopPcs
  PROVE  LifeInv'
<1>1. pc \in [Apps -> Labels]
  BY TypeOKFromParts DEF CallTypes
<1>2. pc' = [pc EXCEPT ![t] = label]
  BY DEF Goto
<1>3. /\ pc'[t] = label
      /\ \A u \in Apps \ {t} : pc'[u] = pc[u]
  BY <1>1, <1>2
<1>4. pc'[Owner] = pc[Owner] \/ (pc'[Owner] \notin StopPcs /\ pc[Owner] \notin StopPcs)
  BY <1>3, Distinct
<1>6. BeforeJoin \subseteq StopPcs /\ {"stopClose", "stopReset"} \subseteq StopPcs
  BY DEF StopPcs, BeforeJoin
<1>5. \A u \in Apps : pc'[u] \in StopPcs => u = Owner
  BY <1>3 DEF LifeInv
<1> QED
  BY <1>4, <1>5, <1>6 DEF LifeInv, libVars

\* What LifeInv becomes when the owner moves.
LEMMA LifeOwner ==
  ASSUME TypeOK, LifeInv, NEW label, Goto(Owner, label),
         lpc' # "none" => running_' \/ label \in BeforeJoin,
         running_' => status_sock_' /\ cmd_sock_' /\ number' = "own" /\ label \notin StopPcs,
         status_sock_' => running_' \/ label \in {"stopClose", "stopReset"},
         number' = "own" => running_' \/ label = "stopClose",
         label = "stopClose" => status_sock_'
  PROVE  LifeInv'
<1>1. pc \in [Apps -> Labels] /\ Owner \in Apps
  BY TypeOKFromParts, Distinct DEF CallTypes
<1>2. pc' = [pc EXCEPT ![Owner] = label]
  BY DEF Goto
<1>3. /\ pc'[Owner] = label
      /\ \A u \in Apps \ {Owner} : pc'[u] = pc[u]
  BY <1>1, <1>2
<1>4. \A u \in Apps : pc'[u] \in StopPcs => u = Owner
  BY <1>3 DEF LifeInv
<1> QED
  BY <1>3, <1>4 DEF LifeInv

THEOREM LifecycleInvariant == Spec => []LifeInv
<1>1. Init => LifeInv
  BY Distinct DEF Init, LifeInv, StopPcs
<1>2. TypeOK /\ LifeInv /\ [Next]_vars => LifeInv'
  <2> SUFFICES ASSUME TypeOK, LifeInv, [Next]_vars
               PROVE  LifeInv'
    OBVIOUS
  <2> USE DEF libVars
  <2>a. ASSUME UNCHANGED <<libVars, lpc, pc, number>>
        PROVE  LifeInv'
    BY <2>a DEF LifeInv
  <2>b. /\ running_ => status_sock_ /\ cmd_sock_ /\ number = "own" /\ pc[Owner] \notin StopPcs
        /\ lpc # "none" => running_ \/ pc[Owner] \in BeforeJoin
        /\ status_sock_ => running_ \/ pc[Owner] \in {"stopClose", "stopReset"}
        /\ number = "own" => running_ \/ pc[Owner] = "stopClose"
        /\ pc[Owner] = "stopClose" => status_sock_
        /\ \A t \in Apps : pc[t] \in StopPcs => t = Owner
    BY DEF LifeInv
  <2>1. ASSUME NEW t \in Apps, initWithConfig(t) \/ shutdown(t) \/ stop(t)
        PROVE  LifeInv'
    <3>1. /\ t = Owner /\ pc[Owner] = "idle"
          /\ UNCHANGED <<cmd_sock_, status_sock_, lpc, number>>
      BY <2>1 DEF initWithConfig, shutdown, stop, Outside, lsnVars, envVars
    <3>2. \/ running_ /\ ~running_' /\ Goto(Owner, "stopClose")
          \/ ~running_ /\ ~running_' /\ \E label \in {"closeAll", "openCmd"} : Goto(Owner, label)
          \/ UNCHANGED <<running_, pc>>
      BY <2>1, <2>b, <3>1 DEF initWithConfig, shutdown, stop, StopFlag, Begins, Answers
    <3>3. CASE running_ /\ ~running_' /\ Goto(Owner, "stopClose")
      BY <2>b, <3>1, <3>3, LifeOwner DEF BeforeJoin
    <3>4. CASE ~running_ /\ ~running_' /\ \E label \in {"closeAll", "openCmd"} : Goto(Owner, label)
      BY <2>b, <3>1, <3>4, LifeOwner DEF BeforeJoin
    <3> QED
      BY <2>a, <3>1, <3>2, <3>3, <3>4
  <2>2. ASSUME NEW t \in Apps, start(t)
        PROVE  LifeInv'
    <3>1. /\ t = Owner /\ pc[Owner] = "idle"
          /\ UNCHANGED <<cmd_sock_, pc>>
          /\ \/ UNCHANGED <<status_sock_, running_, lpc, number>>
             \/ ~status_sock_' /\ ~running_ /\ ~running_' /\ UNCHANGED <<lpc, number>>
             \/ cmd_sock_ /\ running_' /\ status_sock_' /\ number' = "own"
      BY <2>2 DEF start, StartRefused, StartNoSocket, StartThrows, StartListener, Answers, Outside
    <3> QED
      BY <2>b, <3>1 DEF LifeInv, StopPcs
  <2>3. ASSUME NEW t \in Apps, StopClose(t) \/ StopReset(t) \/ StopJoin(t) \/ CloseAll(t) \/ OpenCmd(t)
        PROVE  LifeInv'
    <3>1. pc[t] \in StopPcs /\ t = Owner /\ ~running_ /\ UNCHANGED running_
      BY <2>3, <2>b DEF StopClose, StopReset, StopJoin, CloseAll, OpenCmd, StopPcs
    <3>2. CASE StopClose(t)
      <4>1. /\ pc[Owner] = "stopClose" /\ Goto(Owner, "stopReset")
            /\ UNCHANGED <<lpc, status_sock_>>
            /\ number' = IF status_sock_ THEN "free" ELSE number
        BY <3>1, <3>2 DEF StopClose, lsnVars
      <4>2. number' = "free"
        BY <2>b, <4>1
      <4> QED
        BY <3>1, <4>1, <4>2, LifeOwner DEF BeforeJoin
    <3>6. CASE StopReset(t)
      <4>1. /\ pc[Owner] = "stopReset" /\ Goto(Owner, "stopJoin")
            /\ ~status_sock_' /\ UNCHANGED <<lpc, number>>
        BY <3>1, <3>6 DEF StopReset, lsnVars, envVars
      <4> QED
        BY <2>b, <3>1, <4>1, LifeOwner DEF BeforeJoin
    <3>3. CASE StopJoin(t)
      <4>1. /\ lpc' = "none" /\ number' = "free" /\ UNCHANGED status_sock_
            /\ pc[Owner] = "stopJoin"
            /\ \E label \in {"idle", "closeAll"} : Goto(Owner, label)
        BY <3>1, <3>3 DEF StopJoin, Returns
      <4> QED
        BY <2>b, <3>1, <4>1, LifeOwner
    <3>4. CASE CloseAll(t)
      <4>1. /\ ~status_sock_' /\ UNCHANGED lpc /\ pc[Owner] = "closeAll"
            /\ number' = IF status_sock_ THEN "free" ELSE number
            /\ \E label \in {"idle", "openCmd"} : Goto(Owner, label)
        BY <3>1, <3>4 DEF CloseAll, Returns, lsnVars
      <4>2. number' # "own" /\ lpc' = "none"
        BY <2>b, <3>1, <4>1 DEF BeforeJoin
      <4> QED
        BY <3>1, <4>1, <4>2, LifeOwner
    <3>5. CASE OpenCmd(t)
      <4>1. /\ UNCHANGED <<lpc, status_sock_, number>> /\ pc[Owner] = "openCmd"
            /\ Goto(Owner, "idle")
        BY <3>1, <3>5 DEF OpenCmd, Returns, lsnVars, envVars
      <4> QED
        BY <2>b, <3>1, <4>1, LifeOwner DEF BeforeJoin
    <3> QED
      BY <2>3, <3>2, <3>3, <3>4, <3>5, <3>6
  <2>4. ASSUME NEW t \in Apps, on_ptz_update(t) \/ on_packet_sent(t)
        PROVE  LifeInv'
    BY <2>a, <2>4 DEF on_ptz_update, on_packet_sent, lsnVars, appVars, envVars
  <2>5. ASSUME NEW t \in Apps,
               \/ set_zoom(t) \/ set_focus(t) \/ set_ptz_zoom(t) \/ set_ptz(t)
               \/ get_ptz(t) \/ GotPtz(t)
               \/ ReadFocus(t) \/ SendServo(t) \/ Notify(t) \/ CallbackRead(t)
               \/ PacketCallback(t)
               \/ SendFocus(t) \/ StoreFocus(t) \/ SendZoom(t) \/ StoreZoom(t)
        PROVE  LifeInv'
    <3> USE DEF lsnVars, envVars
    <3>1. /\ UNCHANGED <<libVars, lpc, number>>
          /\ pc[t] \in SendPcs \cup {"idle", "gotPtz"}
          /\ \E label \in SendPcs \cup {"idle", "gotPtz"} : Goto(t, label)
      <4>1. CASE set_zoom(t) \/ set_focus(t) \/ set_ptz_zoom(t) \/ set_ptz(t)
        BY <4>1 DEF set_zoom, set_focus, set_ptz_zoom, set_ptz, BeginsCommand, Begins,
                    Outside, SendPcs
      <4>2. CASE ReadFocus(t) \/ SendServo(t) \/ Notify(t) \/ CallbackRead(t) \/ PacketCallback(t)
        BY <4>2 DEF ReadFocus, SendServo, Notify, CallbackRead, PacketCallback, ServoDone,
                    Returns, SendPcs
      <4>3. CASE SendFocus(t) \/ StoreFocus(t) \/ SendZoom(t) \/ StoreZoom(t)
        BY <4>3 DEF SendFocus, StoreFocus, SendZoom, StoreZoom, Returns, SendPcs
      <4>4. CASE get_ptz(t) \/ GotPtz(t)
        BY <4>4 DEF get_ptz, GotPtz, Outside
      <4> QED
        BY <2>5, <4>1, <4>2, <4>3, <4>4
    <3>2. (SendPcs \cup {"idle", "gotPtz"}) \cap StopPcs = {}
      BY DEF SendPcs, StopPcs
    <3> QED
      BY <3>1, <3>2, LifeStutter
  <2>6. CASE ListenerStep \/ Arrives \/ OtherOpens \/ OtherCloses
    <3>1. /\ UNCHANGED <<libVars, pc>>
          /\ lpc # "none" \/ UNCHANGED lpc
          /\ UNCHANGED number \/ (number # "own" /\ number' # "own")
      <4>1. CASE LsnOption
        BY <4>1 DEF LsnOption, appVars
      <4>2. CASE OtherOpens \/ OtherCloses
        BY <4>2 DEF OtherOpens, OtherCloses, lsnVars, appVars
      <4>3. CASE (ListenerStep /\ ~LsnOption) \/ Arrives
        BY <4>3 DEF ListenerStep, Arrives, LsnLoop, LsnRead, LsnNothing, LsnBlocks, LsnStranger,
                    LsnReport, LsnStore, LsnStoreRest, LsnBroadcast, LsnBroadcastPtz, LsnCallback,
                    appVars, envVars
      <4> QED
        BY <2>6, <4>1, <4>2, <4>3
    <3> QED
      BY <2>b, <3>1 DEF LifeInv
  <2>7. CASE UNCHANGED vars
    BY <2>a, <2>7 DEF vars, lsnVars, appVars, envVars
  <2> QED
    BY <2>1, <2>2, <2>3, <2>4, <2>5, <2>6, <2>7 DEF Next, MakesCall, CallStep
<1> QED
  BY <1>1, <1>2, TypeCorrect, PTL DEF Spec

\* Between calls the sockets and the thread are those of the flag.
THEOREM NothingIsLeftBehind == Spec => []NothingLeftBehind
<1>1. TypeOK /\ LifeInv => NothingLeftBehind
  <2> SUFFICES ASSUME TypeOK, LifeInv, Outside(Owner)
               PROVE  /\ status_sock_ = running_ /\ (number = "own") = running_
                      /\ running_ => cmd_sock_
                      /\ lpc # "none" => running_
    BY DEF NothingLeftBehind
  <2>1. running_ \in BOOLEAN /\ status_sock_ \in BOOLEAN
    BY DEF TypeOK
  <2>2. pc[Owner] \notin BeforeJoin /\ pc[Owner] \notin {"stopClose", "stopReset"}
        /\ pc[Owner] # "stopClose"
    BY DEF Outside, BeforeJoin
  <2>3. (status_sock_ <=> running_) /\ (number = "own" <=> running_)
    BY <2>2 DEF LifeInv
  <2> QED
    BY <2>1, <2>2, <2>3 DEF LifeInv
<1> QED
  BY <1>1, TypeCorrect, LifecycleInvariant, PTL

-----------------------------------------------------------------------------
(***************************************************************************)
(* Who holds which mutex.                                                  *)
(***************************************************************************)

InPacketCallback == {"callbackRead", "packetCallback"}

\* Where the listener has no report.
Receiving == {"loop", "option", "read", "recv", "blocked"}

\* A mutex is held where the code says: ptz_mutex_ by the listener while it
\* stores or calls back, or for ever by a set_ptz without zoom; callback_mutex_
\* by the listener while it broadcasts; packet_callback_mutex_ by the thread
\* whose packet callback runs.
LockInv ==
  /\ holder["ptz"] = Listener <=> lpc \in {"storeRest", "calling"}
  /\ \A t \in Apps : holder["ptz"] = t => pc[t] = "readFocus" /\ "pan_tilt" \in Overloads
  /\ holder["callback"] = Listener <=> lpc \in {"broadcastPtz", "calling"}
  /\ holder["callback"] \in {None, Listener}
  /\ \A t \in Apps : holder["packet"] = t <=> pc[t] \in InPacketCallback
  /\ holder["packet"] # Listener

\* A step of one thread that takes and releases no mutex.
LEMMA LockStutter ==
  ASSUME TypeOK, LockInv, NEW t \in Apps, NEW label, UNCHANGED <<holder, lpc>>,
         Goto(t, label), holder["ptz"] # t,
         pc[t] \in InPacketCallback <=> label \in InPacketCallback
  PROVE  LockInv'
<1>1. pc \in [Apps -> Labels]
  BY TypeOKFromParts DEF CallTypes
<1>2. pc' = [pc EXCEPT ![t] = label]
  BY DEF Goto
<1>3. /\ pc'[t] = label
      /\ \A u \in Apps \ {t} : pc'[u] = pc[u]
  BY <1>1, <1>2
<1>4. \A u \in Apps : holder'["packet"] = u <=> pc'[u] \in InPacketCallback
  BY <1>3 DEF LockInv
<1>5. \A u \in Apps : holder'["ptz"] = u => pc'[u] = "readFocus" /\ "pan_tilt" \in Overloads
  BY <1>3 DEF LockInv
<1> QED
  BY <1>4, <1>5 DEF LockInv

THEOREM LockInvariant == Spec => []LockInv
<1>1. Init => LockInv
  BY Distinct DEF Init, LockInv, InPacketCallback, Mutexes
<1>2. TypeOK /\ LifeInv /\ LockInv /\ [Next]_vars => LockInv'
  <2> SUFFICES ASSUME TypeOK, LifeInv, LockInv, [Next]_vars
               PROVE  LockInv'
    OBVIOUS
  <2> USE DEF appVars, libVars, dataVars, lsnVars
  <2>a. /\ pc \in [Apps -> Labels]
        /\ holder \in [Mutexes -> Processes \cup {None}]
        /\ {"ptz", "callback", "packet"} \subseteq Mutexes
    BY TypeOKFromParts DEF CallTypes, HolderType, Mutexes
  <2>b. ASSUME UNCHANGED <<pc, holder, lpc>>
        PROVE  LockInv'
    BY <2>b DEF LockInv
  \* A thread that waits for a free ptz_mutex_, or is not at readFocus, does not hold it.
  <2>c. \A t \in Apps : holder["ptz"] = t => pc[t] = "readFocus" /\ ~Free("ptz")
    BY Distinct DEF LockInv, Free
  <2>1. ASSUME NEW t \in Apps,
               \/ initWithConfig(t) \/ shutdown(t) \/ stop(t)
               \/ set_zoom(t) \/ set_focus(t) \/ set_ptz_zoom(t)
        PROVE  LockInv'
    <3>1. /\ UNCHANGED <<holder, lpc>>
          /\ pc[t] = "idle"
          /\ UNCHANGED pc \/ \E label \in (StopPcs \cup SendPcs) \ InPacketCallback : Goto(t, label)
      BY <2>1 DEF initWithConfig, shutdown, stop, StopFlag, set_zoom, set_focus, set_ptz_zoom,
                  BeginsCommand, Begins, Answers, Outside, StopPcs, SendPcs, InPacketCallback
    <3>2. pc[t] \notin InPacketCallback
      BY <3>1 DEF InPacketCallback
    <3> QED
      BY <2>b, <2>c, <3>1, <3>2, LockStutter
  <2>2. ASSUME NEW t \in Apps, start(t)
        PROVE  LockInv'
    <3>1. /\ UNCHANGED <<pc, holder>>
          /\ UNCHANGED lpc \/ (~running_ /\ lpc' = "loop")
          /\ pc[Owner] = "idle"
      BY <2>2 DEF start, StartRefused, StartNoSocket, StartThrows, StartListener, Answers,
                  Outside
    <3>2. CASE UNCHANGED lpc
      BY <2>b, <3>1, <3>2
    <3>3. CASE ~running_ /\ lpc' = "loop"
      <4>1. lpc = "none"
        BY <3>1, <3>3 DEF LifeInv, BeforeJoin
      <4> QED
        BY <3>1, <3>3, <4>1 DEF LockInv
    <3> QED
      BY <3>1, <3>2, <3>3
  <2>3. ASSUME NEW t \in Apps, on_ptz_update(t) \/ on_packet_sent(t)
        PROVE  LockInv'
    BY <2>b, <2>3 DEF on_ptz_update, on_packet_sent
  <2>17. ASSUME NEW t \in Apps, get_ptz(t) \/ GotPtz(t)
         PROVE  LockInv'
    <3>1. /\ UNCHANGED <<holder, lpc>>
          /\ pc[t] \in {"idle", "gotPtz"}
          /\ \E label \in {"idle", "gotPtz"} : Goto(t, label)
      BY <2>17 DEF get_ptz, GotPtz, Outside
    <3> QED
      BY <2>c, <3>1, LockStutter DEF InPacketCallback
  <2>4. ASSUME NEW t \in Apps, set_ptz(t)
        PROVE  LockInv'
    <3>1. /\ pc[t] = "idle" /\ holder["ptz"] = None /\ "pan_tilt" \in Overloads
          /\ holder' = [holder EXCEPT !["ptz"] = t]
          /\ pc' = [pc EXCEPT ![t] = "readFocus"]
          /\ UNCHANGED lpc
      BY <2>4 DEF set_ptz, Lock, Free, BeginsCommand, Begins, Goto, Outside
    <3>2. /\ holder'["ptz"] = t
          /\ holder'["callback"] = holder["callback"] /\ holder'["packet"] = holder["packet"]
      BY <2>a, <3>1
    <3>3. pc'[t] = "readFocus" /\ \A u \in Apps \ {t} : pc'[u] = pc[u]
      BY <2>a, <3>1
    <3>4. \A u \in Apps : holder'["packet"] = u <=> pc'[u] \in InPacketCallback
      BY <3>1, <3>2, <3>3 DEF LockInv, InPacketCallback
    <3>5. lpc' \notin {"storeRest", "calling"}
      BY <3>1, Distinct DEF LockInv
    <3> QED
      BY <3>1, <3>2, <3>3, <3>4, <3>5, Distinct DEF LockInv
  <2>5. ASSUME NEW t \in Apps, StopClose(t) \/ StopReset(t) \/ CloseAll(t) \/ OpenCmd(t)
        PROVE  LockInv'
    <3>1. /\ UNCHANGED <<holder, lpc>>
          /\ pc[t] \in StopPcs
          /\ \E label \in StopPcs \cup {"idle"} : Goto(t, label)
      BY <2>5 DEF StopClose, StopReset, CloseAll, OpenCmd, Returns, StopPcs
    <3> QED
      BY <2>c, <3>1, LockStutter DEF InPacketCallback, StopPcs
  <2>6. ASSUME NEW t \in Apps, StopJoin(t)
        PROVE  LockInv'
    <3>1. /\ UNCHANGED holder
          /\ lpc \in {"none", "exited"} /\ lpc' = "none"
          /\ pc[t] = "stopJoin"
          /\ \E label \in {"idle", "closeAll"} : Goto(t, label)
      BY <2>6 DEF StopJoin, Returns
    <3>2. PICK label \in {"idle", "closeAll"} : pc' = [pc EXCEPT ![t] = label]
      BY <3>1 DEF Goto
    <3>3. pc'[t] \in {"idle", "closeAll"} /\ \A u \in Apps \ {t} : pc'[u] = pc[u]
      BY <2>a, <3>2
    <3>4. \A u \in Apps : holder'["packet"] = u <=> pc'[u] \in InPacketCallback
      BY <3>1, <3>3 DEF LockInv, InPacketCallback
    <3>5. \A u \in Apps : holder'["ptz"] = u => pc'[u] = "readFocus" /\ "pan_tilt" \in Overloads
      BY <3>1, <3>3 DEF LockInv
    <3> QED
      BY <3>1, <3>4, <3>5 DEF LockInv
  <2>7. ASSUME NEW t \in Apps,
               \/ ReadFocus(t) \/ SendServo(t) \/ SendFocus(t) \/ StoreFocus(t)
               \/ SendZoom(t) \/ StoreZoom(t)
        PROVE  LockInv'
    <3>1. /\ UNCHANGED <<holder, lpc>>
          /\ pc[t] \in {"readFocus", "sendServo", "sendFocus", "storeFocus", "sendZoom", "storeZoom"}
          /\ pc[t] = "readFocus" => Free("ptz")
          /\ \E label \in (SendPcs \cup {"idle"}) \ InPacketCallback : Goto(t, label)
      BY <2>7 DEF ReadFocus, SendServo, SendFocus, StoreFocus, SendZoom, StoreZoom, Returns,
                  SendPcs, InPacketCallback
    <3>2. pc[t] \notin InPacketCallback
      BY <3>1 DEF InPacketCallback
    <3> QED
      BY <2>c, <3>1, <3>2, LockStutter
  <2>8. ASSUME NEW t \in Apps, Notify(t)
        PROVE  LockInv'
    <3>1. CASE UNCHANGED holder /\ ServoDone(t)
      <4>1. /\ UNCHANGED <<holder, lpc>> /\ pc[t] = "notify"
            /\ \E label \in {"sendFocus", "idle"} : Goto(t, label)
        BY <2>8, <3>1 DEF Notify, ServoDone, Returns
      <4> QED
        BY <2>c, <4>1, LockStutter DEF InPacketCallback
    <3>2. CASE Lock("packet", t) /\ \E label \in InPacketCallback : Goto(t, label)
      <4>1. PICK label \in InPacketCallback : pc' = [pc EXCEPT ![t] = label]
        BY <3>2 DEF Goto
      <4>2. /\ holder["packet"] = None
            /\ holder' = [holder EXCEPT !["packet"] = t]
            /\ UNCHANGED lpc /\ pc[t] = "notify"
        BY <2>8, <3>2 DEF Lock, Free, Notify
      <4>3. /\ holder'["packet"] = t
            /\ holder'["callback"] = holder["callback"] /\ holder'["ptz"] = holder["ptz"]
        BY <2>a, <4>2
      <4>4. pc'[t] \in InPacketCallback /\ \A u \in Apps \ {t} : pc'[u] = pc[u]
        BY <2>a, <4>1
      <4>5. \A u \in Apps \ {t} : pc[u] \notin InPacketCallback
        BY <4>2, Distinct DEF LockInv
      <4>6. \A u \in Apps : holder'["ptz"] = u => pc'[u] = "readFocus" /\ "pan_tilt" \in Overloads
        BY <2>c, <4>2, <4>3, <4>4 DEF LockInv
      <4>7. \A u \in Apps : holder'["packet"] = u <=> pc'[u] \in InPacketCallback
        BY <4>3, <4>4, <4>5
      <4> QED
        BY <4>2, <4>3, <4>6, <4>7, Distinct DEF LockInv
    <3> QED
      BY <2>8, <3>1, <3>2 DEF Notify, InPacketCallback
  <2>9. ASSUME NEW t \in Apps, CallbackRead(t)
        PROVE  LockInv'
    <3>1. /\ UNCHANGED <<holder, lpc>> /\ pc[t] = "callbackRead"
          /\ Goto(t, "packetCallback")
      BY <2>9 DEF CallbackRead
    <3> QED
      BY <2>c, <3>1, LockStutter DEF InPacketCallback
  <2>10. ASSUME NEW t \in Apps, PacketCallback(t)
         PROVE  LockInv'
    <3>1. /\ holder' = [m \in Mutexes |-> IF m \in {"packet"} THEN None ELSE holder[m]]
          /\ UNCHANGED lpc /\ pc[t] = "packetCallback"
          /\ \E label \in {"sendFocus", "idle"} : pc' = [pc EXCEPT ![t] = label]
      BY <2>10 DEF PacketCallback, Unlock, ServoDone, Returns, Goto
    <3>2. /\ holder'["packet"] = None
          /\ holder'["callback"] = holder["callback"] /\ holder'["ptz"] = holder["ptz"]
      BY <2>a, <3>1
    <3>3. pc'[t] \in {"sendFocus", "idle"} /\ \A u \in Apps \ {t} : pc'[u] = pc[u]
      BY <2>a, <3>1
    <3>4. \A u \in Apps \ {t} : pc[u] \notin InPacketCallback
      BY <3>1 DEF LockInv, InPacketCallback
    <3>5. \A u \in Apps : holder'["ptz"] = u => pc'[u] = "readFocus" /\ "pan_tilt" \in Overloads
      BY <2>c, <3>1, <3>2, <3>3 DEF LockInv
    <3>6. \A u \in Apps : holder'["packet"] = u <=> pc'[u] \in InPacketCallback
      BY <3>2, <3>3, <3>4, Distinct DEF InPacketCallback
    <3> QED
      BY <3>1, <3>2, <3>5, <3>6, Distinct DEF LockInv
  <2>11. CASE \/ LsnLoop \/ LsnOption \/ LsnRead \/ LsnNothing \/ LsnBlocks \/ LsnStranger
              \/ LsnReport
    <3>1. /\ UNCHANGED <<holder, pc>>
          /\ lpc \in Receiving /\ lpc' \in Receiving \cup {"exited", "store"}
      BY <2>11 DEF LsnLoop, LsnOption, LsnRead, LsnNothing, LsnBlocks, LsnStranger, LsnReport,
                   ListenerGoto, Receiving
    <3> QED
      BY <3>1 DEF LockInv, Receiving
  <2>18. CASE OtherOpens \/ OtherCloses
    BY <2>b, <2>18 DEF OtherOpens, OtherCloses
  <2>12. CASE LsnStore \/ LsnBroadcast
    <3>1. /\ UNCHANGED pc
          /\ \/ /\ lpc = "store" /\ lpc' = "storeRest" /\ holder["ptz"] = None
                /\ holder' = [holder EXCEPT !["ptz"] = Listener]
             \/ /\ lpc = "broadcast" /\ lpc' = "broadcastPtz"
                /\ holder' = [holder EXCEPT !["callback"] = Listener]
      BY <2>12 DEF LsnStore, LsnBroadcast, Lock, Free, ListenerGoto
    <3> QED
      BY <2>a, <3>1, Distinct DEF LockInv
  <2>13. CASE LsnStoreRest
    <3>1. /\ UNCHANGED pc /\ lpc = "storeRest" /\ lpc' = "broadcast"
          /\ holder' = [m \in Mutexes |-> IF m \in {"ptz"} THEN None ELSE holder[m]]
      BY <2>13 DEF LsnStoreRest, Unlock, ListenerGoto
    <3> QED
      BY <2>a, <3>1, Distinct DEF LockInv
  <2>14. CASE LsnBroadcastPtz
    <3>1. /\ UNCHANGED pc /\ lpc = "broadcastPtz" /\ holder["ptz"] = None
          /\ \/ /\ lpc' = "calling"
                /\ holder' = [holder EXCEPT !["ptz"] = Listener]
             \/ /\ lpc' = "loop"
                /\ holder' = [m \in Mutexes |-> IF m \in {"callback"} THEN None ELSE holder[m]]
      BY <2>14 DEF LsnBroadcastPtz, Lock, Unlock, Free, ListenerGoto
    <3> QED
      BY <2>a, <3>1, Distinct DEF LockInv
  <2>15. CASE LsnCallback
    <3>1. /\ UNCHANGED pc /\ lpc = "calling" /\ lpc' = "loop"
          /\ holder' = [m \in Mutexes |-> IF m \in {"ptz", "callback"} THEN None ELSE holder[m]]
      BY <2>15 DEF LsnCallback, Unlock, ListenerGoto
    <3> QED
      BY <2>a, <3>1, Distinct DEF LockInv
  <2>16. CASE UNCHANGED vars
    BY <2>b, <2>16 DEF vars
  <2> QED
    BY <2>1, <2>2, <2>3, <2>4, <2>5, <2>6, <2>7, <2>8, <2>9, <2>10, <2>11, <2>12, <2>13,
       <2>14, <2>15, <2>16, <2>17, <2>18 DEF Next, MakesCall, CallStep, ListenerStep, Arrives
<1> QED
  BY <1>1, <1>2, TypeCorrect, LifecycleInvariant, PTL DEF Spec

\* Of all circles of threads that wait for each other, the only ones are those
\* of a set_ptz(azimuth, elevation) that waits for itself.
THEOREM NoDeadlock == Spec => []NoOtherCycle
<1>1. TypeOK /\ LockInv => NoOtherCycle
  <2> SUFFICES ASSUME TypeOK, LockInv,
                      NEW ring \in SUBSET (Processes \ {t \in Apps : LocksTwice(t)}),
                      NEW first \in ring,
                      \A p \in ring : WaitsFor(p) \in ring
               PROVE  FALSE
    BY DEF NoOtherCycle, InACircle
  <2>1. /\ None \notin ring
        /\ \A p \in ring : p \in Apps \/ p = Listener
    BY Distinct DEF Processes
  \* A thread that keeps ptz_mutex_ is one that locks it twice.
  <2>2. /\ holder["ptz"] \notin ring \/ holder["ptz"] = Listener
        /\ holder["packet"] \in Apps \cup {None}
    <3>1. {holder["ptz"], holder["packet"]} \subseteq Apps \cup {Listener, None}
      BY TypeOKFromParts DEF HolderType, Mutexes, Processes
    <3>2. holder["ptz"] \in Apps => LocksTwice(holder["ptz"])
      BY DEF LockInv, LocksTwice
    <3> QED
      BY <2>1, <3>1, <3>2 DEF LockInv
  \* The listener waits for mutexes it does not hold, and only threads that
  \* do not wait could hold them.
  <2>3. Listener \notin ring
    <3>1. WaitsFor(Listener) \notin ring
      <4>1. lpc \in {"store", "broadcastPtz"} => holder["ptz"] \notin ring
        BY <2>2 DEF LockInv
      <4>2. lpc = "broadcast" => holder["callback"] = None
        BY DEF LockInv
      <4> QED
        BY <2>1, <4>1, <4>2 DEF WaitsFor
    <3> QED
      BY <3>1
  <2>4. \A p \in ring : p \in Apps /\ p # Listener
    BY <2>1, <2>3
  <2>5. \A p \in ring : pc[p] = "notify" /\ WaitsFor(p) = holder["packet"]
    <3> SUFFICES ASSUME NEW p \in ring
                 PROVE  pc[p] = "notify" /\ WaitsFor(p) = holder["packet"]
      OBVIOUS
    <3>1. WaitsFor(p) \notin {None, Listener}
      BY <2>1, <2>3
    <3> QED
      BY <2>2, <2>4, <3>1 DEF WaitsFor
  \* The one they wait for runs its packet callback, and does not notify.
  <2>6. holder["packet"] \in ring
    BY <2>5
  <2>7. pc[holder["packet"]] \in InPacketCallback
    BY <2>4, <2>6 DEF LockInv
  <2> QED
    BY <2>5, <2>6, <2>7 DEF InPacketCallback
<1> QED
  BY <1>1, TypeCorrect, LockInvariant, PTL

-----------------------------------------------------------------------------
(***************************************************************************)
(* What happens to reports.                                                *)
(***************************************************************************)

\* After stop no report is stored and no callback runs: there is no listener.
THEOREM NoReportAfterStop == Spec => SilentAfterStop
<1>1. TypeOK /\ LifeInv /\ [Next]_vars
      => [~running_ /\ Outside(Owner)
            => UNCHANGED <<current_ptz_.pos, current_ptz_.valid, calling>>]_vars
  <2> SUFFICES ASSUME TypeOK, LifeInv, Next, ~running_, Outside(Owner)
               PROVE  UNCHANGED <<current_ptz_.pos, current_ptz_.valid, calling>>
    BY DEF vars
  <2> USE DEF dataVars, lsnVars, appVars
  <2>1. lpc = "none"
    BY DEF LifeInv, Outside, BeforeJoin
  <2>2. ~ (ListenerStep \/ Arrives)
    BY <2>1 DEF ListenerStep, Arrives, LsnLoop, LsnOption, LsnRead, LsnNothing, LsnBlocks,
                LsnStranger, LsnReport, LsnStore, LsnStoreRest,
                LsnBroadcast, LsnBroadcastPtz, LsnCallback
  <2>6. CASE OtherOpens \/ OtherCloses
    BY <2>6 DEF OtherOpens, OtherCloses
  <2>3. CASE \E t \in Apps : MakesCall(t) \/ CallStep(t)
    <3>3. PICK t \in Apps : MakesCall(t) \/ CallStep(t)
     BY <2>3
    <3>1. CASE StoreFocus(t) \/ StoreZoom(t)
      <4>1. /\ \/ current_ptz_' = [current_ptz_ EXCEPT !.focus = arg[t]]
             \/ current_ptz_' = [current_ptz_ EXCEPT !.zoom = arg[t]]
          /\ UNCHANGED calling
      BY <3>1 DEF StoreFocus, StoreZoom
      <4>2. current_ptz_ \in Ptz
      BY DEF TypeOK
      <4> QED
      BY <4>1, <4>2 DEF Ptz
    <3>2. CASE ~ (StoreFocus(t) \/ StoreZoom(t))
      <4>1. CASE MakesCall(t)
      BY <4>1 DEF MakesCall, initWithConfig, shutdown, stop, start, get_ptz,
                  on_ptz_update, on_packet_sent, set_zoom, set_focus, set_ptz_zoom,
                  set_ptz, BeginsCommand
      <4>2. CASE CallStep(t)
      BY <3>2, <4>2 DEF CallStep, StopClose, StopReset, StopJoin, CloseAll, OpenCmd, GotPtz,
                  ReadFocus, SendServo, Notify, CallbackRead, PacketCallback, SendFocus, SendZoom
      <4> QED
      BY <3>3, <4>1, <4>2
    <3> QED
     BY <3>1, <3>2
  <2> QED
    BY <2>2, <2>3, <2>6 DEF Next
<1> QED
  BY <1>1, TypeCorrect, LifecycleInvariant, PTL DEF Spec, SilentAfterStop

\* The report in the listener's hands is whole, and a callback runs only while
\* the listener is in it.
ReportInv ==
  /\ lpc \in {"store", "storeRest"} => buf \in Reports
  /\ lpc = "storeRest" => current_ptz_.pos = buf
  /\ lpc = "calling" <=> calling # NotCalling
\* Application threads leave the listener's variables and the position alone;
\* the owner creates and joins the thread.
LEMMA AppsAndListener ==
  ASSUME TypeOK, LifeInv, NEW t \in Apps, MakesCall(t) \/ CallStep(t)
  PROVE  /\ UNCHANGED <<buf, calling>>
         /\ current_ptz_'.pos = current_ptz_.pos
         /\ \/ UNCHANGED lpc
            \/ lpc = "none" /\ lpc' = "loop"
            \/ lpc \in {"none", "exited"} /\ lpc' = "none"
<1> USE DEF dataVars, lsnVars
<1>1. CASE start(t)
  <2>1. /\ UNCHANGED <<buf, calling, current_ptz_>>
        /\ pc[Owner] = "idle"
        /\ UNCHANGED lpc \/ (~running_ /\ lpc' = "loop")
    BY <1>1 DEF start, StartRefused, StartNoSocket, StartThrows, StartListener, Outside
  <2> QED
    BY <2>1 DEF LifeInv, BeforeJoin
<1>2. CASE MakesCall(t) /\ ~start(t)
  BY <1>2 DEF MakesCall, initWithConfig, shutdown, stop, get_ptz, on_ptz_update,
              on_packet_sent, set_zoom, set_focus, set_ptz_zoom, set_ptz, BeginsCommand
<1>3. CASE StoreFocus(t) \/ StoreZoom(t)
  <2>1. /\ \/ current_ptz_' = [current_ptz_ EXCEPT !.focus = arg[t]]
           \/ current_ptz_' = [current_ptz_ EXCEPT !.zoom = arg[t]]
        /\ UNCHANGED lsnVars
    BY <1>3 DEF StoreFocus, StoreZoom
  <2>2. current_ptz_ \in Ptz
    BY DEF TypeOK
  <2> QED
    BY <2>1, <2>2 DEF Ptz
<1>4. CASE CallStep(t) /\ ~(StoreFocus(t) \/ StoreZoom(t))
  BY <1>4 DEF CallStep, StopClose, StopReset, StopJoin, CloseAll, OpenCmd, GotPtz, ReadFocus,
              SendServo, Notify, CallbackRead, PacketCallback, SendFocus, SendZoom
<1> QED
  BY <1>1, <1>2, <1>3, <1>4

THEOREM ReportInvariant == Spec => []ReportInv
<1>1. Init => ReportInv
  BY DEF Init, ReportInv
<1>2. TypeOK /\ LifeInv /\ ReportInv /\ [Next]_vars => ReportInv'
  <2> SUFFICES ASSUME TypeOK, LifeInv, ReportInv, [Next]_vars
               PROVE  ReportInv'
    OBVIOUS
  <2> USE DEF dataVars, lsnVars
  <2>1. ASSUME NEW t \in Apps, MakesCall(t) \/ CallStep(t)
        PROVE  ReportInv'
    BY <2>1, AppsAndListener DEF ReportInv
  <2>2. CASE \/ LsnLoop \/ LsnOption \/ LsnRead \/ LsnNothing \/ LsnBlocks \/ LsnStranger
             \/ LsnBroadcast
    BY <2>2 DEF LsnLoop, LsnOption, LsnRead, LsnNothing, LsnBlocks, LsnStranger, LsnBroadcast,
                ListenerGoto, ReportInv
  <2>9. CASE OtherOpens \/ OtherCloses
    BY <2>9 DEF OtherOpens, OtherCloses, ReportInv
  <2>3. CASE LsnReport
    BY <2>3 DEF LsnReport, ListenerGoto, ReportInv
  <2>4. CASE LsnStore
    <3>1. /\ current_ptz_' = [current_ptz_ EXCEPT !.pos = buf]
          /\ lpc = "store" /\ lpc' = "storeRest" /\ UNCHANGED <<buf, calling>>
      BY <2>4 DEF LsnStore, ListenerGoto
    <3>2. current_ptz_ \in Ptz
      BY DEF TypeOK
    <3>3. current_ptz_'.pos = buf
      BY <3>1, <3>2 DEF Ptz
    <3> QED
      BY <3>1, <3>3 DEF ReportInv
  <2>5. CASE LsnStoreRest
    BY <2>5 DEF LsnStoreRest, ListenerGoto, ReportInv
  <2>6. CASE LsnBroadcastPtz
    <3>1. /\ lpc = "broadcastPtz"
          /\ \/ /\ ptz_callback_ # None /\ lpc' = "calling"
                /\ calling' = [to |-> ptz_callback_, ptz |-> current_ptz_]
             \/ lpc' = "loop" /\ UNCHANGED calling
      BY <2>6 DEF LsnBroadcastPtz, ListenerGoto
    <3>2. ptz_callback_ # None => [to |-> ptz_callback_, ptz |-> current_ptz_] # NotCalling
      BY DEF NotCalling
    <3> QED
      BY <3>1, <3>2 DEF ReportInv
  <2>7. CASE LsnCallback
    BY <2>7 DEF LsnCallback, ListenerGoto, ReportInv
  <2>8. CASE UNCHANGED vars
    BY <2>8 DEF vars, ReportInv
  <2> QED
    BY <2>1, <2>2, <2>3, <2>4, <2>5, <2>6, <2>7, <2>8, <2>9 DEF Next, ListenerStep, Arrives
<1> QED
  BY <1>1, <1>2, TypeCorrect, LifecycleInvariant, PTL DEF Spec

-----------------------------------------------------------------------------
(***************************************************************************)
(* The library implements PtzFeed.                                         *)
(***************************************************************************)

feedState == <<listening, settled, offering, ptz_callback_, calling, got>>

LEMMA FeedInit == Init => Feed!Init
BY DEF Init, Feed!Init, listening, settled, offering, NotCalling, Feed!NotCalling,
       Unknown, Feed!Unknown

LEMMA SameValues == Values = Feed!Values
BY DEF Values, Feed!Values

\* A step of an application thread, as the feed sees it.
LEMMA FeedApp ==
  ASSUME TypeOK, LifeInv, LockInv, ReportInv,
         NEW t \in Apps, MakesCall(t) \/ CallStep(t)
  PROVE  Feed!Next \/ UNCHANGED feedState
<1> USE DEF dataVars, lsnVars, appVars, feedState
<1>a. /\ Free("ptz") => lpc \notin {"storeRest", "calling"}
      /\ Free("callback") => lpc # "calling"
      /\ lpc # "calling" => calling = Feed!NotCalling
  BY Distinct DEF LockInv, Free, ReportInv, NotCalling, Feed!NotCalling, Unknown, Feed!Unknown
<1>1. CASE start(t)
  <2>1. /\ UNCHANGED <<buf, calling, current_ptz_, ptz_callback_, got>>
        /\ UNCHANGED lpc \/ (lpc = "none" /\ lpc' = "loop")
    <3>1. /\ UNCHANGED <<buf, calling, current_ptz_, ptz_callback_, got>>
          /\ pc[Owner] = "idle"
          /\ UNCHANGED lpc \/ (~running_ /\ lpc' = "loop")
      BY <1>1 DEF start, StartRefused, StartNoSocket, StartThrows, StartListener, Outside
    <3> QED
      BY <3>1 DEF LifeInv, BeforeJoin
  <2>2. CASE UNCHANGED lpc
    BY <2>1, <2>2 DEF listening, settled, offering
  <2>3. CASE lpc = "none" /\ lpc' = "loop"
    <3>1. Feed!TurnOn
      BY <2>1, <2>3 DEF Feed!TurnOn, listening, settled, offering
    <3> QED
      BY <3>1 DEF Feed!Next
  <2> QED
    BY <2>1, <2>2, <2>3
<1>2. CASE StopJoin(t)
  <2>1. /\ UNCHANGED <<buf, calling, current_ptz_, ptz_callback_, got>>
        /\ lpc \in {"none", "exited"} /\ lpc' = "none"
    BY <1>2 DEF StopJoin
  <2>2. CASE lpc = "none"
    BY <2>1, <2>2 DEF listening, settled, offering
  <2>3. CASE lpc = "exited"
    <3>1. Feed!TurnOff
      BY <1>a, <2>1, <2>3 DEF Feed!TurnOff, listening, settled, offering
    <3> QED
      BY <3>1 DEF Feed!Next
  <2> QED
    BY <2>1, <2>2, <2>3
<1>3. CASE get_ptz(t)
  <2>1. /\ Free("ptz") /\ got' = [got EXCEPT ![t] = current_ptz_]
        /\ UNCHANGED <<lpc, buf, calling, current_ptz_, ptz_callback_>>
    BY <1>3 DEF get_ptz
  <2>2. Feed!Read(t)
    BY <1>a, <2>1 DEF Feed!Read, listening, settled, offering
  <2> QED
    BY <2>2 DEF Feed!Next
<1>8. CASE GotPtz(t)
  <2>1. /\ got' = [got EXCEPT ![t] = Feed!Unknown]
        /\ UNCHANGED <<lpc, buf, calling, current_ptz_, ptz_callback_>>
    BY <1>8 DEF GotPtz, Unknown, Feed!Unknown
  <2>2. Feed!Forget(t)
    BY <2>1 DEF Feed!Forget, listening, settled, offering
  <2> QED
    BY <2>2 DEF Feed!Next
<1>4. CASE on_ptz_update(t)
  <2>1. /\ Free("callback") /\ ptz_callback_' \in Callbacks \cup {None}
        /\ UNCHANGED <<lpc, buf, calling, current_ptz_, got>>
    BY <1>4 DEF on_ptz_update
  <2>2. Feed!Register
    BY <1>a, <2>1 DEF Feed!Register, listening, settled, offering
  <2> QED
    BY <2>2 DEF Feed!Next
<1>5. CASE StoreFocus(t) \/ StoreZoom(t)
  <2>1. /\ Free("ptz")
        /\ \/ current_ptz_' = [current_ptz_ EXCEPT !.focus = arg[t]]
           \/ current_ptz_' = [current_ptz_ EXCEPT !.zoom = arg[t]]
        /\ UNCHANGED <<lpc, buf, calling, ptz_callback_, got>>
    BY <1>5 DEF StoreFocus, StoreZoom
  <2>2. arg[t] \in Feed!Values
    BY TypeOKFromParts, SameValues DEF CallTypes
  <2>3. Feed!Command
    BY <1>a, <2>1, <2>2 DEF Feed!Command, listening, settled, offering
  <2> QED
    BY <2>3 DEF Feed!Next
<1>6. CASE \/ initWithConfig(t) \/ shutdown(t) \/ stop(t) \/ on_packet_sent(t)
           \/ set_zoom(t) \/ set_focus(t) \/ set_ptz_zoom(t) \/ set_ptz(t)
  <2>1. UNCHANGED <<lpc, buf, calling, current_ptz_, ptz_callback_, got>>
    BY <1>6 DEF initWithConfig, shutdown, stop, on_packet_sent, set_zoom, set_focus,
                set_ptz_zoom, set_ptz, BeginsCommand
  <2> QED
    BY <2>1 DEF listening, settled, offering
<1>7. CASE \/ StopClose(t) \/ StopReset(t) \/ CloseAll(t) \/ OpenCmd(t) \/ ReadFocus(t)
           \/ SendServo(t) \/ Notify(t) \/ CallbackRead(t) \/ PacketCallback(t)
           \/ SendFocus(t) \/ SendZoom(t)
  <2>1. UNCHANGED <<lpc, buf, calling, current_ptz_, ptz_callback_, got>>
    BY <1>7 DEF StopClose, StopReset, CloseAll, OpenCmd, ReadFocus, SendServo, Notify, CallbackRead,
                PacketCallback, SendFocus, SendZoom
  <2> QED
    BY <2>1 DEF listening, settled, offering
<1> QED
  BY <1>1, <1>2, <1>3, <1>4, <1>5, <1>6, <1>7, <1>8 DEF MakesCall, CallStep

\* A step of the listener, as the feed sees it.
LEMMA FeedListener ==
  ASSUME TypeOK, ReportInv, ListenerStep \/ Arrives
  PROVE  Feed!Next \/ UNCHANGED feedState
<1> USE DEF dataVars, lsnVars, appVars, feedState
<1>a. /\ current_ptz_ \in Ptz
      /\ calling # NotCalling <=> lpc = "calling"
      /\ NotCalling = Feed!NotCalling
  BY DEF TypeOK, ReportInv, NotCalling, Feed!NotCalling, Unknown, Feed!Unknown
<1>b. UNCHANGED <<ptz_callback_, got>>
  BY DEF ListenerStep, Arrives, LsnLoop, LsnOption, LsnRead, LsnNothing, LsnBlocks, LsnStranger,
         LsnReport, LsnStore, LsnStoreRest, LsnBroadcast, LsnBroadcastPtz, LsnCallback
<1>1. CASE \/ LsnLoop \/ LsnOption \/ LsnRead \/ LsnNothing \/ LsnBlocks \/ LsnStranger
           \/ LsnReport
  <2>1. /\ UNCHANGED <<current_ptz_, calling>>
        /\ lpc \in Receiving /\ lpc' \in Receiving \cup {"store", "exited"}
    BY <1>1 DEF LsnLoop, LsnOption, LsnRead, LsnNothing, LsnBlocks, LsnStranger, LsnReport,
                ListenerGoto, Receiving
  <2> QED
    BY <1>b, <2>1 DEF listening, settled, offering, Receiving
<1>2. CASE LsnStore
  <2>1. /\ lpc = "store" /\ lpc' = "storeRest"
        /\ current_ptz_' = [current_ptz_ EXCEPT !.pos = buf]
        /\ UNCHANGED <<buf, calling>>
    BY <1>2 DEF LsnStore, ListenerGoto
  <2>2. buf \in Reports
    BY <2>1 DEF ReportInv
  <2>3. settled = current_ptz_ /\ settled' = Feed!Reported(current_ptz_, buf)
    BY <1>a, <2>1 DEF settled, Reported, Feed!Reported, Ptz
  <2>4. Feed!Report(buf)
    BY <1>a, <1>b, <2>1, <2>3 DEF Feed!Report, listening, offering
  <2> QED
    BY <2>2, <2>4 DEF Feed!Next
<1>3. CASE LsnStoreRest
  <2>1. /\ lpc = "storeRest" /\ lpc' = "broadcast"
        /\ current_ptz_' = [current_ptz_ EXCEPT !.focus = buf, !.valid = TRUE]
        /\ UNCHANGED calling
    BY <1>3 DEF LsnStoreRest, ListenerGoto
  <2>2. current_ptz_.pos = buf
    BY <2>1 DEF ReportInv
  <2>3. settled' = settled
    BY <1>a, <2>1, <2>2 DEF settled, Reported, Ptz
  <2> QED
    BY <1>b, <2>1, <2>3 DEF listening, offering
<1>4. CASE LsnBroadcast
  <2>1. /\ lpc = "broadcast" /\ lpc' = "broadcastPtz"
        /\ UNCHANGED <<current_ptz_, calling>>
    BY <1>4 DEF LsnBroadcast, ListenerGoto
  <2> QED
    BY <1>b, <2>1 DEF listening, settled, offering
<1>5. CASE LsnBroadcastPtz
  <2>1. /\ lpc = "broadcastPtz" /\ UNCHANGED current_ptz_
        /\ \/ /\ ptz_callback_ # None /\ lpc' = "calling"
              /\ calling' = [to |-> ptz_callback_, ptz |-> current_ptz_]
           \/ /\ ptz_callback_ = None /\ lpc' = "loop"
              /\ UNCHANGED calling
    BY <1>5 DEF LsnBroadcastPtz, ListenerGoto
  <2>2. calling = Feed!NotCalling
    BY <1>a, <2>1
  <2>3. Feed!Deliver
    BY <1>b, <2>1, <2>2 DEF Feed!Deliver, listening, settled, offering
  <2> QED
    BY <2>3 DEF Feed!Next
<1>6. CASE LsnCallback
  <2>1. /\ lpc = "calling" /\ lpc' = "loop" /\ calling' = NotCalling
        /\ UNCHANGED current_ptz_
    BY <1>6 DEF LsnCallback, ListenerGoto
  <2>2. Feed!Delivered
    BY <1>a, <1>b, <2>1 DEF Feed!Delivered, listening, settled, offering
  <2> QED
    BY <2>2 DEF Feed!Next
<1> QED
  BY <1>1, <1>2, <1>3, <1>4, <1>5, <1>6 DEF ListenerStep, Arrives

\* Every behaviour of the library is one of the feed.
THEOREM LibraryImplementsFeed == Spec => ImplementsFeed
<1>1. Init => Feed!Init
  BY FeedInit
<1>2. TypeOK /\ LifeInv /\ LockInv /\ ReportInv /\ [Next]_vars => [Feed!Next]_(Feed!feedVars)
  <2> SUFFICES ASSUME TypeOK, LifeInv, LockInv, ReportInv, [Next]_vars
               PROVE  Feed!Next \/ UNCHANGED Feed!feedVars
    OBVIOUS
  <2>1. CASE \E t \in Apps : MakesCall(t) \/ CallStep(t)
    BY <2>1, FeedApp DEF feedState, Feed!feedVars
  <2>2. CASE ListenerStep \/ Arrives
    BY <2>2, FeedListener DEF feedState, Feed!feedVars
  <2>3. CASE OtherOpens \/ OtherCloses \/ UNCHANGED vars
    BY <2>3 DEF vars, lsnVars, dataVars, appVars, OtherOpens, OtherCloses,
                Feed!feedVars, listening, settled, offering
  <2> QED
    BY <2>1, <2>2, <2>3 DEF Next
<1> QED
  BY <1>1, <1>2, TypeCorrect, LifecycleInvariant, LockInvariant, ReportInvariant, PTL
     DEF Spec, ImplementsFeed, Feed!Spec

-------------------------------------------------------------------------------
(***************************************************************************)
(* Theorems about the commands of CamAJFLib: what is reported of them and  *)
(* what is recorded of them.                                               *)
(***************************************************************************)

InServo == {"readFocus", "sendServo", "notify", "callbackRead", "packetCallback"}
AfterServo == {"notify", "callbackRead", "packetCallback", "sendFocus", "storeFocus"}

\* The device was sent the byte of the recorded zoom.
Recorded ==
  IF zoomSent = None THEN current_ptz_.zoom = 0
  ELSE zoomSent = ZoomByte(current_ptz_.zoom)

\* From when its servo command has left a call is a set_ptz that is not over, or
\* one that has answered true; a servo command that the packet callback has not
\* been given yet is about to be given to it.
Told(s, p, c, r) ==
  /\ p \in InServo => c = "set_ptz"
  /\ s = "untold" => p = "notify"
  /\ s # "none" => \/ p \in AfterServo /\ c = "set_ptz"
                   \/ p \in {"idle", "gotPtz"} /\ r = "true"

ReportingInv == \A t \in Apps : Told(servo[t], pc[t], call[t], ret[t])

\* A zoom that was sent and is not recorded is about to be recorded.
RecordingInv ==
  /\ \A t \in Apps : pc[t] \in SendPcs => t \in Senders
  /\ \A t \in Apps : pc[t] = "storeZoom" => zoomSent = ZoomByte(arg[t])
  /\ Recorded \/ \E t \in Apps : pc[t] = "storeZoom"

OneSender == \A s, t \in Senders : s = t

\* The listener and the rest of the process change neither.
LEMMA ListenerCommands ==
  ASSUME TypeOK, ListenerStep \/ Arrives \/ OtherOpens \/ OtherCloses \/ UNCHANGED vars
  PROVE  /\ UNCHANGED <<pc, call, arg, ret, servo, zoomSent>>
         /\ current_ptz_'.zoom = current_ptz_.zoom
<1> USE DEF ListenerStep, Arrives, LsnLoop, LsnOption, LsnRead, LsnNothing, LsnBlocks, LsnStranger,
         LsnReport, LsnStore, LsnStoreRest, LsnBroadcast, LsnBroadcastPtz, LsnCallback,
         OtherOpens, OtherCloses
<1>1. UNCHANGED <<pc, call, arg, ret, servo, zoomSent>>
  BY DEF appVars, envVars, vars
<1>2. \/ UNCHANGED current_ptz_
      \/ current_ptz_' = [current_ptz_ EXCEPT !.pos = buf]
      \/ current_ptz_' = [current_ptz_ EXCEPT !.focus = buf, !.valid = TRUE]
  BY DEF dataVars, vars
<1>3. current_ptz_ \in Ptz
  BY DEF TypeOK
<1> QED BY <1>1, <1>2, <1>3 DEF Ptz

\* A thread changes its own locals.
LEMMA LocalsStep ==
  ASSUME NEW t \in Apps, MakesCall(t) \/ CallStep(t)
  PROVE  /\ UNCHANGED pc \/ \E v : pc' = [pc EXCEPT ![t] = v]
         /\ UNCHANGED call \/ \E v : call' = [call EXCEPT ![t] = v]
         /\ UNCHANGED ret \/ \E v : ret' = [ret EXCEPT ![t] = v]
         /\ UNCHANGED servo \/ \E v : servo' = [servo EXCEPT ![t] = v]
<1> USE DEF MakesCall, CallStep, Goto, Begins, Returns, Answers, BeginsCommand, initWithConfig,
       shutdown, stop, start, StopFlag, StartRefused, StartNoSocket, StartThrows, StartListener,
       get_ptz, GotPtz, on_ptz_update, on_packet_sent, set_zoom, set_focus, set_ptz_zoom, set_ptz,
       StopClose, StopReset, StopJoin, CloseAll, OpenCmd, ReadFocus, SendServo, ServoLeaves,
       ServoDone, Notify, CallbackRead, PacketCallback, SendFocus, StoreFocus, SendZoom, StoreZoom,
       appVars
<1>1. UNCHANGED pc \/ \E v : pc' = [pc EXCEPT ![t] = v]
  OBVIOUS
<1>2. UNCHANGED call \/ \E v : call' = [call EXCEPT ![t] = v]
  OBVIOUS
<1>3. UNCHANGED ret \/ \E v : ret' = [ret EXCEPT ![t] = v]
  OBVIOUS
<1>4. UNCHANGED servo \/ \E v : servo' = [servo EXCEPT ![t] = v]
  OBVIOUS
<1> QED
  BY <1>1, <1>2, <1>3, <1>4

\* What a thread in a call is told.
LEMMA ReportingCall ==
  ASSUME TypeOK, ReportingInv, NEW t \in Apps, CallStep(t)
  PROVE  Told(servo'[t], pc'[t], call'[t], ret'[t])
<1>1. /\ servo \in [Apps -> Servos]
      /\ pc \in [Apps -> Labels] /\ call \in [Apps -> Calls] /\ ret \in [Apps -> Results]
  BY TypeOKFromParts DEF CallTypes, DataTypes
<1>2. Told(servo[t], pc[t], call[t], ret[t])
  BY DEF ReportingInv
\* Outside the servo command there is none.
<1>3. ASSUME servo[t] = "none", UNCHANGED servo, pc'[t] \notin InServo
      PROVE  Told(servo'[t], pc'[t], call'[t], ret'[t])
  BY <1>3 DEF Told
<1>4. CASE StopClose(t) \/ StopReset(t) \/ StopJoin(t) \/ CloseAll(t) \/ OpenCmd(t)
  <2>1. /\ UNCHANGED servo
        /\ pc[t] \in StopPcs
        /\ \E label \in StopPcs \cup {"idle"} : pc' = [pc EXCEPT ![t] = label]
    BY <1>4 DEF StopClose, StopReset, StopJoin, CloseAll, OpenCmd, Returns, Goto, StopPcs
  <2>2. servo[t] = "none"
    BY <1>2, <2>1 DEF Told, StopPcs, AfterServo
  <2>3. pc'[t] \notin InServo
    BY <1>1, <2>1 DEF StopPcs, InServo
  <2> QED BY <1>3, <2>1, <2>2, <2>3
<1>5. CASE SendZoom(t) \/ StoreZoom(t)
  <2>1. /\ UNCHANGED servo
        /\ pc[t] \in {"sendZoom", "storeZoom"}
        /\ \E label \in {"storeZoom", "idle"} : pc' = [pc EXCEPT ![t] = label]
    BY <1>5 DEF SendZoom, StoreZoom, Returns, Goto
  <2>2. servo[t] = "none"
    BY <1>2, <2>1 DEF Told, AfterServo
  <2>3. pc'[t] \notin InServo
    BY <1>1, <2>1 DEF InServo
  <2> QED BY <1>3, <2>1, <2>2, <2>3
<1>6. CASE GotPtz(t)
  <2>1. /\ UNCHANGED <<servo, call, ret>> /\ pc[t] = "gotPtz" /\ pc' = [pc EXCEPT ![t] = "idle"]
    BY <1>6 DEF GotPtz, Goto
  <2> QED BY <1>1, <1>2, <2>1 DEF Told, InServo, AfterServo
<1>7. CASE ReadFocus(t)
  <2>1. /\ UNCHANGED <<servo, call>> /\ pc[t] = "readFocus" /\ pc' = [pc EXCEPT ![t] = "sendServo"]
    BY <1>7 DEF ReadFocus, Goto
  <2> QED BY <1>1, <1>2, <2>1 DEF Told, InServo, AfterServo
<1>8. CASE SendServo(t)
  <2>1. pc[t] = "sendServo"
    BY <1>8 DEF SendServo
  <2>2. servo[t] = "none" /\ call[t] = "set_ptz"
    BY <1>2, <2>1 DEF Told, InServo, AfterServo
  <2>3. CASE ServoLeaves(t) /\ Goto(t, "notify") /\ UNCHANGED call
    <3>1. servo'[t] \in Servos /\ pc'[t] = "notify" /\ call'[t] = "set_ptz"
      BY <1>1, <2>2, <2>3 DEF ServoLeaves, Goto, Servos
    <3> QED BY <3>1 DEF Told, AfterServo
  <2>4. CASE Returns(t, "false") /\ UNCHANGED servo
    <3>1. pc'[t] = "idle"
      BY <1>1, <2>4 DEF Returns, Goto
    <3> QED BY <1>3, <2>2, <2>4, <3>1 DEF InServo
  <2> QED BY <1>8, <2>3, <2>4 DEF SendServo
\* With the callback called, or none to call, the call goes on to the focus.
<1>9. ASSUME ServoDone(t), call[t] = "set_ptz", servo'[t] # "untold"
      PROVE  Told(servo'[t], pc'[t], call'[t], ret'[t])
  <2>1. CASE Goto(t, "sendFocus") /\ UNCHANGED call
    <3>1. pc'[t] = "sendFocus" /\ call'[t] = "set_ptz"
      BY <1>1, <1>9, <2>1 DEF Goto
    <3> QED BY <1>9, <3>1 DEF Told, InServo, AfterServo
  <2>2. CASE Returns(t, "true")
    <3>1. pc'[t] = "idle" /\ ret'[t] = "true"
      BY <1>1, <2>2 DEF Returns, Goto
    <3> QED BY <1>9, <3>1 DEF Told, InServo
  <2> QED BY <1>9, <2>1, <2>2 DEF ServoDone
<1>10. CASE Notify(t)
  <2>1. /\ pc[t] = "notify" /\ servo' = [servo EXCEPT ![t] = "sent"]
        /\ \/ ServoDone(t)
           \/ /\ UNCHANGED call
              /\ \E label \in {"callbackRead", "packetCallback"} : pc' = [pc EXCEPT ![t] = label]
    BY <1>10 DEF Notify, Goto
  <2>2. call[t] = "set_ptz" /\ servo'[t] = "sent"
    BY <1>1, <1>2, <2>1 DEF Told, InServo
  <2>3. CASE ServoDone(t)
    BY <1>9, <2>2, <2>3
  <2>4. CASE UNCHANGED call /\ \E label \in {"callbackRead", "packetCallback"} : pc' = [pc EXCEPT ![t] = label]
    <3>1. pc'[t] \in {"callbackRead", "packetCallback"} /\ call'[t] = "set_ptz"
      BY <1>1, <2>2, <2>4
    <3> QED BY <2>2, <3>1 DEF Told, AfterServo
  <2> QED BY <2>1, <2>3, <2>4
<1>11. CASE CallbackRead(t)
  <2>1. /\ UNCHANGED <<servo, call>> /\ pc[t] = "callbackRead"
        /\ pc' = [pc EXCEPT ![t] = "packetCallback"]
    BY <1>11 DEF CallbackRead, Goto
  <2> QED BY <1>1, <1>2, <2>1 DEF Told, InServo, AfterServo
<1>12. CASE PacketCallback(t)
  <2>1. pc[t] = "packetCallback" /\ ServoDone(t) /\ UNCHANGED servo
    BY <1>12 DEF PacketCallback
  <2>2. call[t] = "set_ptz" /\ servo'[t] # "untold"
    BY <1>2, <2>1 DEF Told, InServo
  <2> QED BY <1>9, <2>1, <2>2
<1>13. CASE SendFocus(t)
  <2>1. pc[t] = "sendFocus" /\ UNCHANGED servo
    BY <1>13 DEF SendFocus
  <2>2. CASE Goto(t, "storeFocus") /\ UNCHANGED call
    <3>1. pc'[t] = "storeFocus" /\ call'[t] = call[t]
      BY <1>1, <2>2 DEF Goto
    <3> QED BY <1>2, <2>1, <3>1 DEF Told, InServo, AfterServo
  <2>3. CASE Returns(t, IF call[t] = "set_ptz" THEN "true" ELSE "false")
    <3>1. pc'[t] = "idle" /\ (call[t] = "set_ptz" => ret'[t] = "true")
      BY <1>1, <2>3 DEF Returns, Goto
    <3> QED BY <1>2, <2>1, <3>1 DEF Told, InServo, AfterServo
  <2> QED BY <1>13, <2>2, <2>3 DEF SendFocus
<1>14. CASE StoreFocus(t)
  <2>1. /\ pc[t] = "storeFocus" /\ UNCHANGED servo
        /\ pc'[t] = "idle" /\ ret'[t] = "true"
    BY <1>1, <1>14 DEF StoreFocus, Returns, Goto
  <2> QED BY <1>2, <2>1 DEF Told, InServo
<1> QED BY <1>4, <1>5, <1>6, <1>7, <1>8, <1>10, <1>11, <1>12, <1>13, <1>14 DEF CallStep

\* A call that begins.
LEMMA ReportingBegin ==
  ASSUME TypeOK, ReportingInv, NEW t \in Apps, MakesCall(t)
  PROVE  Told(servo'[t], pc'[t], call'[t], ret'[t])
<1>1. /\ servo \in [Apps -> Servos]
      /\ pc \in [Apps -> Labels] /\ call \in [Apps -> Calls] /\ ret \in [Apps -> Results]
  BY TypeOKFromParts DEF CallTypes, DataTypes
<1>2. Told(servo[t], pc[t], call[t], ret[t])
  BY DEF ReportingInv
<1>3. CASE set_zoom(t) \/ set_focus(t) \/ set_ptz_zoom(t) \/ set_ptz(t)
  <2>1. /\ servo' = [servo EXCEPT ![t] = "none"]
        /\ \/ \E label \in {"sendZoom", "sendFocus"} : pc' = [pc EXCEPT ![t] = label]
           \/ call' = [call EXCEPT ![t] = "set_ptz"]
    BY <1>3 DEF set_zoom, set_focus, set_ptz_zoom, set_ptz, BeginsCommand, Begins, Goto
  <2> QED BY <1>1, <2>1 DEF Told, InServo
<1>4. CASE initWithConfig(t) \/ shutdown(t) \/ stop(t) \/ start(t)
  <2>1. /\ servo' = [servo EXCEPT ![t] = "none"]
        /\ \/ \E label \in StopPcs : pc' = [pc EXCEPT ![t] = label]
           \/ UNCHANGED pc /\ pc[t] = "idle"
    BY <1>4 DEF initWithConfig, shutdown, stop, start, StopFlag, StartRefused, StartNoSocket,
                StartThrows, StartListener, Begins, Answers, Goto, Outside, StopPcs
  <2> QED BY <1>1, <2>1 DEF Told, InServo, StopPcs
<1>5. CASE get_ptz(t)
  <2>1. /\ UNCHANGED <<servo, call, ret>> /\ pc[t] = "idle"
        /\ pc' = [pc EXCEPT ![t] = "gotPtz"]
    BY <1>5 DEF get_ptz, Outside, Goto
  <2> QED BY <1>1, <1>2, <2>1 DEF Told, InServo, AfterServo
<1>6. CASE on_ptz_update(t) \/ on_packet_sent(t)
  <2>1. UNCHANGED <<servo, pc, call, ret>>
    BY <1>6 DEF on_ptz_update, on_packet_sent, appVars
  <2> QED BY <1>2, <2>1
<1> QED BY <1>3, <1>4, <1>5, <1>6 DEF MakesCall

LEMMA ReportingStep ==
  ASSUME TypeOK, ReportingInv, NEW t \in Apps, MakesCall(t) \/ CallStep(t)
  PROVE  ReportingInv'
<1>1. /\ servo \in [Apps -> Servos]
      /\ pc \in [Apps -> Labels] /\ call \in [Apps -> Calls] /\ ret \in [Apps -> Results]
  BY TypeOKFromParts DEF CallTypes, DataTypes
<1>2. Told(servo'[t], pc'[t], call'[t], ret'[t])
  BY ReportingBegin, ReportingCall
<1>3. ASSUME NEW u \in Apps, u # t
      PROVE  /\ servo'[u] = servo[u] /\ pc'[u] = pc[u]
             /\ call'[u] = call[u] /\ ret'[u] = ret[u]
  BY <1>1, <1>3, LocalsStep
<1>4. ASSUME NEW u \in Apps
      PROVE  Told(servo'[u], pc'[u], call'[u], ret'[u])
  BY <1>2, <1>3 DEF ReportingInv
<1> QED BY <1>4 DEF ReportingInv

\* The packet callback is given every servo command that leaves before set_ptz
\* returns.
THEOREM ServoIsReported == Spec => []ServoReported
<1>1. Init => ReportingInv
  <2> SUFFICES ASSUME Init, NEW t \in Apps
               PROVE  Told(servo[t], pc[t], call[t], ret[t])
    BY Zenon DEF ReportingInv
  <2>1. servo[t] = "none" /\ pc[t] = "idle"
    BY DEF Init
  <2> QED
    BY <2>1, Zenon DEF Told, InServo
<1>2. TypeOK /\ ReportingInv /\ [Next]_vars => ReportingInv'
  <2> SUFFICES ASSUME TypeOK, ReportingInv, [Next]_vars PROVE ReportingInv'
    OBVIOUS
  <2>1. CASE ListenerStep \/ Arrives \/ OtherOpens \/ OtherCloses \/ UNCHANGED vars
    BY <2>1, ListenerCommands DEF ReportingInv
  <2> QED BY <2>1, ReportingStep DEF Next
<1>3. ReportingInv => ServoReported
  BY DEF ReportingInv, Told, AfterServo, ServoReported, Outside
<1> QED BY <1>1, <1>2, <1>3, TypeCorrect, PTL DEF Spec

-------------------------------------------------------------------------------

\* The zoom of the status, and of the device, in a step that does neither.
LEMMA RecordingFrame ==
  ASSUME TypeOK, RecordingInv, NEW t \in Apps, NEW label,
         pc' = [pc EXCEPT ![t] = label], label # "storeZoom", pc[t] # "storeZoom",
         label \in SendPcs => t \in Senders,
         \A u \in Apps \ {t} : arg'[u] = arg[u],
         current_ptz_'.zoom = current_ptz_.zoom, UNCHANGED zoomSent
  PROVE  RecordingInv'
<1>1. pc \in [Apps -> Labels]
  BY TypeOKFromParts DEF CallTypes
<1> QED BY <1>1 DEF RecordingInv, Recorded

\* Where the calls of a thread go next.
LEMMA RecordingStep ==
  ASSUME OneSender, TypeOK, RecordingInv, NEW t \in Apps, MakesCall(t) \/ CallStep(t)
  PROVE  RecordingInv'
<1>1. pc \in [Apps -> Labels] /\ arg \in [Apps -> Values] /\ current_ptz_ \in Ptz
  BY TypeOKFromParts DEF CallTypes, DataTypes
<1>2. CASE set_zoom(t) \/ set_focus(t) \/ set_ptz_zoom(t) \/ set_ptz(t)
  <2>1. /\ \E label \in {"sendZoom", "sendFocus", "readFocus"} : pc' = [pc EXCEPT ![t] = label]
        /\ pc[t] = "idle" /\ t \in Senders
        /\ \E v : arg' = [arg EXCEPT ![t] = v]
        /\ UNCHANGED <<current_ptz_, zoomSent>>
    BY <1>2 DEF set_zoom, set_focus, set_ptz_zoom, set_ptz, BeginsCommand, Outside, Begins, Goto,
                dataVars, envVars
  <2> QED BY <1>1, <2>1, RecordingFrame
<1>3. CASE \/ initWithConfig(t) \/ shutdown(t) \/ StopClose(t) \/ StopReset(t) \/ StopJoin(t)
           \/ CloseAll(t) \/ OpenCmd(t)
  <2>1. /\ \E label \in StopPcs \cup {"idle"} : pc' = [pc EXCEPT ![t] = label]
        /\ pc[t] \in StopPcs \cup {"idle"}
        /\ UNCHANGED arg \/ \E v : arg' = [arg EXCEPT ![t] = v]
        /\ UNCHANGED <<current_ptz_, zoomSent>>
    BY <1>3 DEF initWithConfig, shutdown, StopFlag, StopClose, StopReset, StopJoin, CloseAll, OpenCmd,
                Outside, Begins, Returns, Goto, dataVars, envVars, StopPcs
  <2>2. StopPcs \cap SendPcs = {} /\ "idle" \notin SendPcs /\ "storeZoom" \notin StopPcs
    BY DEF StopPcs, SendPcs
  <2> QED BY <1>1, <2>1, <2>2, RecordingFrame
<1>8. CASE get_ptz(t) \/ GotPtz(t)
  <2>1. /\ \E label \in {"idle", "gotPtz"} : pc' = [pc EXCEPT ![t] = label]
        /\ pc[t] \in {"idle", "gotPtz"}
        /\ UNCHANGED <<arg, current_ptz_, zoomSent>>
    BY <1>8 DEF get_ptz, GotPtz, Goto, Outside, dataVars, envVars
  <2>2. {"idle", "gotPtz"} \cap SendPcs = {}
    BY DEF SendPcs
  <2> QED BY <1>1, <2>1, <2>2, RecordingFrame
<1>4. CASE stop(t) \/ start(t) \/ on_ptz_update(t) \/ on_packet_sent(t)
  <2>1. CASE UNCHANGED <<pc, arg, current_ptz_, zoomSent>>
    BY <2>1 DEF RecordingInv, Recorded
  <2>2. CASE pc' = [pc EXCEPT ![t] = "stopClose"] /\ pc[t] = "idle"
             /\ UNCHANGED <<arg, current_ptz_, zoomSent>>
    BY <2>2, RecordingFrame DEF SendPcs
  <2> QED BY <1>4, <2>1, <2>2 DEF stop, start, on_ptz_update, on_packet_sent, StartRefused,
       StartNoSocket, StartThrows, StartListener, Answers, StopFlag, Begins, Goto, Outside, dataVars,
       appVars, envVars
<1> USE DEF envVars
<1>5. CASE \/ ReadFocus(t) \/ SendServo(t) \/ Notify(t) \/ CallbackRead(t) \/ PacketCallback(t)
           \/ SendFocus(t) \/ StoreFocus(t)
  <2>1. /\ \E label : /\ pc' = [pc EXCEPT ![t] = label]
                      /\ label # "storeZoom" /\ label \in SendPcs \cup {"idle"}
        /\ pc[t] # "storeZoom" /\ pc[t] \in SendPcs
        /\ UNCHANGED arg \/ \E v : arg' = [arg EXCEPT ![t] = v]
        /\ UNCHANGED zoomSent
    <3>1. CASE ReadFocus(t)
      BY <3>1 DEF ReadFocus, Goto, SendPcs
    <3>2. CASE CallbackRead(t)
      BY <3>2 DEF CallbackRead, Goto, SendPcs
    <3>3. CASE SendServo(t)
      BY <3>3 DEF SendServo, Returns, Goto, SendPcs
    <3>4. CASE SendFocus(t)
      BY <3>4 DEF SendFocus, Returns, Goto, SendPcs
    <3>5. CASE StoreFocus(t)
      BY <3>5 DEF StoreFocus, Returns, Goto, SendPcs
    <3>6. ASSUME ServoDone(t)
          PROVE  /\ \E label \in {"sendFocus", "idle"} : pc' = [pc EXCEPT ![t] = label]
                 /\ UNCHANGED arg \/ \E v : arg' = [arg EXCEPT ![t] = v]
      BY <3>6 DEF ServoDone, Returns, Goto
    <3>7. CASE Notify(t)
      <4>1. pc[t] = "notify" /\ UNCHANGED zoomSent
        BY <3>7 DEF Notify
      <4>2. \/ ServoDone(t)
            \/ UNCHANGED arg /\ \E reads \in BOOLEAN :
                 pc' = [pc EXCEPT ![t] = IF reads THEN "callbackRead" ELSE "packetCallback"]
        BY <3>7, LibAssumption DEF Notify, Goto
      <4> QED BY <3>6, <4>1, <4>2 DEF SendPcs
    <3>8. CASE PacketCallback(t)
      <4>1. pc[t] = "packetCallback" /\ ServoDone(t) /\ UNCHANGED zoomSent
        BY <3>8 DEF PacketCallback
      <4> QED BY <3>6, <4>1 DEF SendPcs
    <3> QED BY <1>5, <3>1, <3>2, <3>3, <3>4, <3>5, <3>7, <3>8
  <2>2. UNCHANGED current_ptz_ \/ current_ptz_' = [current_ptz_ EXCEPT !.focus = arg[t]]
    BY <1>5 DEF ReadFocus, SendServo, Notify, CallbackRead, PacketCallback, SendFocus, StoreFocus,
                dataVars
  <2>3. t \in Senders /\ "idle" \notin SendPcs
    BY <2>1 DEF RecordingInv, SendPcs
  <2>4. current_ptz_'.zoom = current_ptz_.zoom
    BY <1>1, <2>2 DEF Ptz
  <2> QED BY <1>1, <2>1, <2>3, <2>4, RecordingFrame
<1>6. CASE SendZoom(t)
  <2>1. t \in Senders /\ pc[t] = "sendZoom" /\ UNCHANGED current_ptz_
    BY <1>6 DEF SendZoom, RecordingInv, SendPcs, dataVars
  <2>2. CASE Goto(t, "storeZoom") /\ zoomSent' = ZoomByte(arg[t]) /\ UNCHANGED arg
    <3>1. \A u \in Apps \ {t} : pc[u] # "storeZoom"
      BY <2>1 DEF RecordingInv, OneSender, SendPcs
    <3>2. pc'[t] = "storeZoom" /\ \A u \in Apps \ {t} : pc'[u] = pc[u]
      BY <1>1, <2>2 DEF Goto
    <3> QED BY <1>1, <2>1, <2>2, <3>1, <3>2 DEF RecordingInv, SendPcs
  <2>3. CASE Returns(t, "false") /\ UNCHANGED zoomSent
    BY <1>1, <2>1, <2>3, RecordingFrame DEF Returns, Goto, SendPcs
  <2> QED BY <1>6, <2>2, <2>3 DEF SendZoom
<1>7. CASE StoreZoom(t)
  <2>1. /\ pc[t] = "storeZoom" /\ pc' = [pc EXCEPT ![t] = "idle"]
        /\ arg' = [arg EXCEPT ![t] = 0]
        /\ current_ptz_' = [current_ptz_ EXCEPT !.zoom = arg[t]]
        /\ UNCHANGED zoomSent
    BY <1>7 DEF StoreZoom, Returns, Goto
  <2>2. zoomSent = ZoomByte(arg[t]) /\ current_ptz_'.zoom = arg[t]
    BY <1>1, <2>1 DEF RecordingInv, Ptz
  <2>3. zoomSent # None
    BY <1>1, <2>2, ZoomIsAByte, DataAssumption
  <2>4. Recorded'
    BY <2>1, <2>2, <2>3 DEF Recorded
  <2>5. /\ pc'[t] = "idle" /\ \A u \in Apps \ {t} : pc'[u] = pc[u] /\ arg'[u] = arg[u]
    BY <1>1, <2>1
  <2> QED BY <2>1, <2>4, <2>5 DEF RecordingInv, SendPcs
<1> QED BY <1>2, <1>3, <1>4, <1>5, <1>6, <1>7, <1>8 DEF MakesCall, CallStep

\* With one thread that sends commands the recorded zoom is the one whose byte,
\* cut off and without its fraction, was sent last.
THEOREM ZoomIsRecorded == ASSUME OneSender PROVE Spec => []ZoomIsLastSent
<1>1. Init => RecordingInv
  BY DEF Init, RecordingInv, Recorded, SendPcs, Unknown
<1>2. TypeOK /\ RecordingInv /\ [Next]_vars => RecordingInv'
  <2> SUFFICES ASSUME TypeOK, RecordingInv, [Next]_vars PROVE RecordingInv'
    OBVIOUS
  <2>1. CASE ListenerStep \/ Arrives \/ OtherOpens \/ OtherCloses \/ UNCHANGED vars
    BY <2>1, ListenerCommands DEF RecordingInv, Recorded
  <2> QED BY <2>1, RecordingStep DEF Next
<1>3. RecordingInv => ZoomIsLastSent
  BY DEF RecordingInv, Recorded, SendPcs, ZoomIsLastSent, Outside
<1> QED BY <1>1, <1>2, <1>3, TypeCorrect, PTL DEF Spec
=============================================================================
