---------------------------- MODULE CamMonNative ----------------------------
(***************************************************************************)
(* A program over the C interface: CamMonNative with its static handle,    *)
(* the thread that runs main, the shutdown hook of TestListener, and what  *)
(* the library keeps for the whole process.  Every native call reads the   *)
(* handle anew, and nothing is synchronised.                               *)
(***************************************************************************)
EXTENDS Integers, FiniteSets

CONSTANTS
  Handles,     \* what cam_controller_create may return
  Files,       \* configuration files
  PortOf,      \* PortOf[f]: p2p.listen_port of f, or None if it cannot be read
  Failures,    \* "thread": std::thread may throw in start_ex
  None

ASSUME ProcessAssumption ==
  /\ None \notin Handles \cup Files \cup Int
  /\ PortOf \in [Files -> Int \cup {None}]
  /\ Failures \subseteq {"thread"}

Threads == {"main", "hook"}
DefaultPort == 5001

VARIABLES
  g_controller,     \* the handle, or None
  pc,               \* pc[t]: where thread t is
  arg,              \* arg[t]: the handle it passed to the call it is in
  created, alive,   \* controllers made by new, and not yet deleted
  running,          \* those whose flag is set
  joinable,         \* those whose thread has not been joined
  port,             \* port[c]: the port c was started on, or None
  config,           \* the file main named when it started last, or None
  conf_file,        \* static of load_settings: the file
  log_initialized,  \* static of cam_controller_create
  appenders,        \* how often the appender was added to the logger
  hooked,           \* the shutdown hook is registered
  interrupted,      \* a signal has come
  process,          \* "up", "ending" (hooks run), "exited" or "crashed"
  wild,             \* a call has used a deleted controller
  overlapped        \* history: a call has begun while the other thread was in one

statics == <<conf_file, log_initialized, appenders>>
controllers == <<created, alive, running, joinable, port>>
settings == <<config, statics>>
vars == <<g_controller, pc, arg, controllers, settings, hooked, interrupted, process, wild, overlapped>>

Init ==
  /\ g_controller = None
  /\ pc = [t \in Threads |-> IF t = "main" THEN "idle" ELSE "waits"]
  /\ arg = [t \in Threads |-> None]
  /\ created = {} /\ alive = {} /\ running = {} /\ joinable = {}
  /\ port = [c \in Handles |-> None]
  /\ config = None
  /\ conf_file = None
  /\ log_initialized = FALSE
  /\ appenders = 0
  /\ hooked = FALSE /\ interrupted = FALSE
  /\ process = "up"
  /\ wild = FALSE /\ overlapped = FALSE

Runs(t) == process \in {"up", "ending"} /\ pc[t] # "waits"
Goto(t, label) == pc' = [pc EXCEPT ![t] = label]

\* A call returns: main goes on with its program, the hook ends.
Back(t) == IF t = "main" THEN "idle" ELSE "done"

---------------------------------------------------------------------------
(* startStatusListener.  TestListener does not start again once it has     *)
(* registered its hook.                                                    *)

\* Fault: the logger is initialised for every controller.
cam_controller_create_forgets ==
  /\ appenders' = appenders + 1
  /\ UNCHANGED log_initialized

\* The first controller of the process initialises the logger.
cam_controller_create ==
  /\ log_initialized' = TRUE
  /\ appenders' = IF log_initialized THEN appenders ELSE appenders + 1

startStatusListener ==
  /\ Runs("main") /\ pc["main"] = "idle" /\ ~hooked
  /\ g_controller = None
  /\ cam_controller_create
  /\ \E c \in Handles \ created :
       /\ g_controller' = c
       /\ created' = created \cup {c}
       /\ alive' = alive \cup {c}
  /\ Goto("main", "start")
  /\ UNCHANGED <<arg, running, joinable, port, config, conf_file, hooked, interrupted, process, wild, overlapped>>

\* start_ex with port p, on a controller that is not running.
Starts(p) ==
  \/ /\ running' = running \cup {g_controller}
     /\ joinable' = joinable \cup {g_controller}
     /\ port' = [port EXCEPT ![g_controller] = p]
     /\ Goto("main", "idle")
  \/ /\ "thread" \in Failures
     /\ Goto("main", "undo")
     /\ UNCHANGED <<running, joinable, port>>

cam_controller_start_ex ==
  /\ Runs("main") /\ pc["main"] = "start"
  /\ config' = None
  /\ Starts(DefaultPort)
  /\ UNCHANGED <<g_controller, arg, created, alive, statics, hooked, interrupted, process, wild, overlapped>>

\* What loadSetting finds in the file that conf_file names.
Loaded(f) == IF f = None THEN None ELSE PortOf[f]

\* Fault: the setting is loaded before the file is set.
Configured_late(f) ==
  /\ conf_file' = f
  /\ \/ Loaded(conf_file) \in Int /\ Loaded(conf_file) > 0 /\ Starts(Loaded(conf_file))
     \/ Loaded(conf_file) = None /\ Goto("main", "undo") /\ UNCHANGED <<running, joinable, port>>


\* No file, no such setting, or none that is a positive number: -3 or -4.
Configured(f) ==
  /\ conf_file' = f
  /\ \/ Loaded(f) # None /\ Loaded(f) > 0 /\ Starts(Loaded(f))
     \/ /\ Loaded(f) # None => Loaded(f) <= 0
        /\ Goto("main", "undo")
        /\ UNCHANGED <<running, joinable, port>>

\* How the C++ example starts when it is given a file.
cam_controller_start_with_config ==
  /\ Runs("main") /\ pc["main"] = "start"
  /\ \E f \in Files : config' = f /\ Configured(f)
  /\ UNCHANGED <<g_controller, arg, created, alive, log_initialized, appenders, hooked,
                 interrupted, process, wild, overlapped>>

\* Fault: a start that fails only forgets the handle.
Undo_leaks ==
  /\ Runs("main") /\ pc["main"] = "undo"
  /\ g_controller' = None
  /\ Goto("main", "idle")
  /\ UNCHANGED <<arg, controllers, settings, hooked, interrupted, process, wild, overlapped>>

\* A start that fails destroys the controller.
Undo ==
  /\ Runs("main") /\ pc["main"] = "undo"
  /\ alive' = alive \ {g_controller}
  /\ g_controller' = None
  /\ Goto("main", "idle")
  /\ UNCHANGED <<arg, created, running, joinable, port, settings, hooked, interrupted, process, wild, overlapped>>

addShutdownHook ==
  /\ Runs("main") /\ pc["main"] = "idle"
  /\ g_controller # None /\ ~hooked
  /\ hooked' = TRUE
  /\ UNCHANGED <<g_controller, pc, arg, controllers, settings, interrupted, process, wild, overlapped>>

---------------------------------------------------------------------------
(* Native calls on arg[t].                                                 *)

Deleted(c) == c # None /\ c \notin alive

\* The calls that use the controller: setPTZ does not.
InCall(t) ==
  pc[t] \in {"get", "getting", "stop", "stopping", "flag", "join", "joining", "stuck",
             "destroy", "destroying", "null"}

\* Thread t has tested the handle and goes on to use it.
Begins(t, label) ==
  /\ Goto(t, label)
  /\ overlapped' = (overlapped \/ \E u \in Threads \ {t} : InCall(u))

\* What a call on a deleted controller does is undefined: the process may
\* crash, or the call goes on to one of the labels.
Wild(t, labels) ==
  /\ wild' = TRUE
  /\ \/ process' = "crashed" /\ UNCHANGED pc
     \/ UNCHANGED process /\ \E l \in labels : Goto(t, l)

\* Thread t reads the handle for its next native call.
Reads(t, from, to) ==
  /\ Runs(t) /\ pc[t] = from
  /\ arg' = [arg EXCEPT ![t] = g_controller]
  /\ Goto(t, to)
  /\ UNCHANGED <<g_controller, controllers, settings, hooked, interrupted, process, wild, overlapped>>

\* getLastStatus and getPTZ: the test for null, the call, and its answer,
\* which is nothing if it was passed null after all.
getLastStatus ==
  /\ Runs("main") /\ pc["main"] = "idle"
  /\ g_controller # None
  /\ Begins("main", "get")
  /\ UNCHANGED <<g_controller, arg, controllers, settings, hooked, interrupted, process, wild>>

GetRead == Reads("main", "get", "getting")

cam_controller_get_last ==
  /\ Runs("main") /\ pc["main"] = "getting"
  /\ IF Deleted(arg["main"]) THEN Wild("main", {"idle"})
     ELSE Goto("main", "idle") /\ UNCHANGED <<process, wild>>
  /\ UNCHANGED <<g_controller, arg, controllers, settings, hooked, interrupted, overlapped>>

\* setPTZ and its overloads.
setPTZ ==
  /\ Runs("main") /\ pc["main"] = "idle"
  /\ g_controller # None
  /\ Goto("main", "set")
  /\ UNCHANGED <<g_controller, arg, controllers, settings, hooked, interrupted, process, wild, overlapped>>

SetRead == Reads("main", "set", "setting")

\* It never looks at the handle it was passed, be it null or deleted.
cam_controller_set_ptz ==
  /\ Runs("main") /\ pc["main"] = "setting"
  /\ Goto("main", "idle")
  /\ UNCHANGED <<g_controller, arg, controllers, settings, hooked, interrupted, process, wild, overlapped>>

---------------------------------------------------------------------------
(* stopStatusListener, by main or by the hook.                             *)

stopStatusListener(t) ==
  /\ Runs(t) /\ pc[t] = IF t = "main" THEN "idle" ELSE "begin"
  /\ IF g_controller # None THEN Begins(t, "stop") ELSE Goto(t, Back(t)) /\ UNCHANGED overlapped
  /\ UNCHANGED <<g_controller, arg, controllers, settings, hooked, interrupted, process, wild>>

StopRead(t) == Reads(t, "stop", "stopping")

\* cam_controller_stop: the flag is loaded, and the call is over if another
\* has cleared it, though that one may still be at work.
StopTest(t) ==
  /\ Runs(t) /\ pc[t] = "stopping"
  /\ IF Deleted(arg[t]) THEN Wild(t, {"flag", "destroy"})
     ELSE Goto(t, IF arg[t] \in running THEN "flag" ELSE "destroy") /\ UNCHANGED <<process, wild>>
  /\ UNCHANGED <<g_controller, arg, controllers, settings, hooked, interrupted, overlapped>>

\* Fault: the flag is not cleared.
StopFlag_keeps(t) ==
  /\ Runs(t) /\ pc[t] = "flag"
  /\ Goto(t, "join")
  /\ UNCHANGED <<g_controller, arg, controllers, settings, hooked, interrupted, process, wild, overlapped>>

\* The flag is cleared and the socket closed, by two threads if both found it set.
StopFlag(t) ==
  /\ Runs(t) /\ pc[t] = "flag"
  /\ IF Deleted(arg[t]) THEN Wild(t, {"join"}) /\ UNCHANGED running
     ELSE /\ running' = running \ {arg[t]}
          /\ Goto(t, "join")
          /\ UNCHANGED <<process, wild>>
  /\ UNCHANGED <<g_controller, arg, created, alive, joinable, port, settings, hooked, interrupted, overlapped>>

\* joinable() and the call of join().  To join a thread that another joins is
\* undefined: it may throw, which ends the process, return, or never return.
StopJoin(t) ==
  /\ Runs(t) /\ pc[t] = "join"
  /\ \/ /\ Deleted(arg[t])
        /\ Wild(t, {"joining", "stuck", "destroy"})
     \/ /\ ~Deleted(arg[t]) /\ arg[t] \notin joinable
        /\ Goto(t, "destroy")
        /\ UNCHANGED <<process, wild>>
     \/ /\ ~Deleted(arg[t]) /\ arg[t] \in joinable
        /\ ~\E u \in Threads \ {t} : pc[u] = "joining" /\ arg[u] = arg[t]
        /\ Goto(t, "joining")
        /\ UNCHANGED <<process, wild>>
     \/ /\ ~Deleted(arg[t]) /\ arg[t] \in joinable
        /\ \E u \in Threads \ {t} : pc[u] = "joining" /\ arg[u] = arg[t]
        /\ \/ process' = "crashed" /\ UNCHANGED pc
           \/ UNCHANGED process /\ \E l \in {"stuck", "destroy"} : Goto(t, l)
        /\ UNCHANGED wild
  /\ UNCHANGED <<g_controller, arg, controllers, settings, hooked, interrupted, overlapped>>

\* The listener ends when it sees that the flag is cleared.
JoinReturns(t) ==
  /\ Runs(t) /\ pc[t] = "joining"
  /\ arg[t] \notin running
  /\ joinable' = joinable \ {arg[t]}
  /\ IF Deleted(arg[t]) THEN Wild(t, {"destroy", "stuck"})
     ELSE Goto(t, "destroy") /\ UNCHANGED <<process, wild>>
  /\ UNCHANGED <<g_controller, arg, created, alive, running, port, settings, hooked, interrupted, overlapped>>

\* Fault: the handle is set to null before it is used for the last time.
DestroyRead_nulled(t) ==
  /\ Runs(t) /\ pc[t] = "destroy"
  /\ g_controller' = None
  /\ arg' = [arg EXCEPT ![t] = None]
  /\ Goto(t, "destroying")
  /\ UNCHANGED <<controllers, settings, hooked, interrupted, process, wild, overlapped>>

DestroyRead(t) == Reads(t, "destroy", "destroying")

\* Its own cam_controller_stop finds the flag cleared.  delete with the thread
\* still to be joined ends the process.
cam_controller_destroy(t) ==
  /\ Runs(t) /\ pc[t] = "destroying"
  /\ \/ Deleted(arg[t]) /\ Wild(t, {"null"}) /\ UNCHANGED alive
     \/ /\ arg[t] \in alive \cap joinable
        /\ process' = "crashed"
        /\ UNCHANGED <<pc, alive, wild>>
     \/ /\ arg[t] \in {None} \cup (alive \ joinable)
        /\ alive' = alive \ {arg[t]}
        /\ Goto(t, "null")
        /\ UNCHANGED <<process, wild>>
  /\ UNCHANGED <<g_controller, arg, created, running, joinable, port, settings, hooked, interrupted, overlapped>>

\* Fault: the handle is kept.
StopNull_keeps(t) ==
  /\ Runs(t) /\ pc[t] = "null"
  /\ Goto(t, Back(t))
  /\ UNCHANGED <<g_controller, arg, controllers, settings, hooked, interrupted, process, wild, overlapped>>

StopNull(t) ==
  /\ Runs(t) /\ pc[t] = "null"
  /\ g_controller' = None
  /\ Goto(t, Back(t))
  /\ UNCHANGED <<arg, controllers, settings, hooked, interrupted, process, wild, overlapped>>

---------------------------------------------------------------------------
(* The end of the process.                                                 *)

\* Hooks run beside the threads that still run; main goes on at label.
Ends(label) ==
  /\ process' = IF hooked THEN "ending" ELSE "exited"
  /\ pc' = [pc EXCEPT !["main"] = label, !["hook"] = IF hooked THEN "begin" ELSE "waits"]

MainReturns ==
  /\ process = "up" /\ pc["main"] = "idle"
  /\ Ends("done")
  /\ UNCHANGED <<g_controller, arg, controllers, settings, hooked, interrupted, wild, overlapped>>

Interrupt ==
  /\ process = "up"
  /\ interrupted' = TRUE
  /\ Ends(pc["main"])
  /\ UNCHANGED <<g_controller, arg, controllers, settings, hooked, wild, overlapped>>

Exit ==
  /\ process = "ending" /\ pc["hook"] = "done"
  /\ process' = "exited"
  /\ UNCHANGED <<g_controller, pc, arg, controllers, settings, hooked, interrupted, wild, overlapped>>

Stops(t) ==
  \/ StopRead(t) \/ StopTest(t) \/ StopFlag(t) \/ StopJoin(t) \/ JoinReturns(t)
  \/ DestroyRead(t) \/ cam_controller_destroy(t) \/ StopNull(t)

Next ==
  \/ startStatusListener \/ cam_controller_start_ex \/ cam_controller_start_with_config
  \/ Undo \/ addShutdownHook
  \/ getLastStatus \/ GetRead \/ cam_controller_get_last
  \/ setPTZ \/ SetRead \/ cam_controller_set_ptz
  \/ \E t \in Threads : stopStatusListener(t) \/ Stops(t)
  \/ MainReturns \/ Interrupt \/ Exit

Spec == Init /\ [][Next]_vars

\* Both threads are scheduled inside a call, and so are the hook and the exit.
FairSpec ==
  /\ Spec
  /\ \A t \in Threads : WF_vars(Stops(t))
  /\ WF_vars(stopStatusListener("hook")) /\ WF_vars(Exit)

---------------------------------------------------------------------------
(* Properties.                                                             *)

\* The types.  A controller is never started on a port that is not positive.
TypeOK ==
  /\ g_controller \in Handles \cup {None}
  /\ pc \in [Threads -> {"idle", "start", "undo", "get", "getting", "set", "setting", "waits", "begin",
                         "stop", "stopping", "flag", "join", "joining", "stuck", "destroy",
                         "destroying", "null", "done"}]
  /\ arg \in [Threads -> Handles \cup {None}]
  /\ created \subseteq Handles /\ alive \subseteq created /\ running \subseteq created
  /\ joinable \subseteq created
  /\ port \in [Handles -> (Nat \ {0}) \cup {None}]
  /\ config \in Files \cup {None} /\ conf_file \in Files \cup {None}
  /\ log_initialized \in BOOLEAN /\ appenders \in Nat
  /\ hooked \in BOOLEAN /\ interrupted \in BOOLEAN /\ wild \in BOOLEAN
  /\ overlapped \in BOOLEAN
  /\ process \in {"up", "ending", "exited", "crashed"}

\* However often the program starts and stops, a record is written once.
LogOnce == appenders <= 1

\* A listener is on the port it was started with: a file named by an earlier
\* start, which conf_file still holds, decides nothing.
PortIsConfigured ==
  \A c \in running : port[c] = IF config = None THEN DefaultPort ELSE PortOf[config]

\* A controller that exists is the one the handle names, though main and the
\* hook both test, use and clear the handle: none is lost with its thread.
ControllerIsHeld == alive \subseteq {g_controller}

\* When the hook has run, no controller is left, whatever main was doing when
\* the signal came.  That the process gets so far is not said: see the next two.
ExitLeavesNothing == process = "exited" /\ hooked => alive = {}

\* The process crashes, hangs in a join or uses a deleted controller only if a
\* signal has let the hook stop the listener while main was in a call, or main
\* has begun one while the hook was stopping it: nothing else the program does
\* on the two threads can.
OnlySignalsReachDeleted ==
  wild \/ process = "crashed" \/ (\E t \in Threads : pc[t] = "stuck") => interrupted /\ overlapped

\* Unless the two threads overlapped, the end of the process is reached once it
\* has begun: what main left half done does not keep the hook from its end.
ShutdownEnds == process = "ending" ~> process = "exited" \/ overlapped

=============================================================================
