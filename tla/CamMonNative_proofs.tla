-------------------------- MODULE CamMonNative_proofs --------------------------
(***************************************************************************)
(* Proofs about CamMonNative, for every set of handles and files.  What    *)
(* makes the invariants inductive is how far each thread of a stop can be  *)
(* behind the other: Held and Hooked relate the handle a thread was passed *)
(* and the progress of the hook to the controllers that are left, and Calm *)
(* says what holds until a call overlaps another.                          *)
(***************************************************************************)
EXTENDS CamMonNative, TLAPS

Steps == {"idle", "start", "undo", "get", "getting", "set", "setting", "waits", "begin", "stop",
          "stopping", "flag", "join", "joining", "stuck", "destroy", "destroying", "null", "done"}

\* The set-up of the library: one appender, and the port of the last start.
SetUp ==
  /\ appenders = IF log_initialized THEN 1 ELSE 0
  /\ PortIsConfigured

\* A stop that is about to destroy destroys what is left, and one that has
\* destroyed leaves nothing.
Held ==
  /\ ControllerIsHeld
  /\ \A t \in Threads : pc[t] = "destroying" => arg[t] = g_controller \/ alive = {}
  /\ \A t \in Threads : pc[t] = "null" => alive = {}

\* Until the hook is registered main is alone, a controller runs from its start
\* to its stop, and a signal ends the process.
Alone ==
  ~hooked =>
    /\ pc["hook"] = "waits"
    /\ interrupted => process = "exited"
    /\ running \subseteq {g_controller} \ {None}
    /\ pc["main"] \in {"start", "undo", "join", "joining", "destroy", "destroying", "null"} => running = {}
    /\ pc["main"] = "start" => g_controller \in created
    /\ pc["main"] \in {"stopping", "flag"} => arg["main"] = g_controller

\* After that no controller is made.  The hook runs when the process ends.
Hooked ==
  /\ process = "up" => pc["hook"] = "waits" /\ ~interrupted
  /\ hooked => pc["main"] \notin {"start", "undo"}
  /\ pc["hook"] = "done" => hooked /\ alive = {}
  /\ process = "exited" /\ hooked => pc["hook"] = "done"

\* Until two calls overlap, which takes a signal, one thread at most is in a
\* call.  What it was passed exists, and what it deletes has been joined.
Calm ==
  /\ overlapped => interrupted
  /\ ~interrupted => pc["hook"] = "waits" \/ pc["main"] = "done"
  /\ ~overlapped =>
       /\ ~wild /\ process # "crashed"
       /\ ~(InCall("main") /\ InCall("hook"))
       /\ joinable \subseteq {g_controller} \ {None}
       /\ \A t \in Threads :
            /\ pc[t] # "stuck"
            /\ pc[t] = "stop" => g_controller # None
            /\ pc[t] \in {"getting", "stopping", "flag", "join", "joining", "destroying"} =>
                 arg[t] = g_controller
            /\ pc[t] \in {"get", "getting", "stop", "stopping", "flag", "join", "joining", "destroy", "destroying"} =>
                 g_controller \in alive
            /\ pc[t] \in {"start", "undo", "destroy", "destroying", "null"} => joinable = {}
       /\ (\A t \in Threads : ~InCall(t)) => g_controller \in alive \cup {None}
       /\ joinable \subseteq running \/ \E t \in Threads : pc[t] \in {"join", "joining"}

Inductive == TypeOK /\ SetUp /\ Held /\ Alone /\ Hooked /\ Calm

USE ProcessAssumption DEF Threads

LEMMA InitInductive == Init => Inductive
<1> SUFFICES ASSUME Init PROVE Inductive
  OBVIOUS
<1> USE DEF Init
<1>1. TypeOK BY DEF TypeOK
<1>2. SetUp BY DEF SetUp, PortIsConfigured
<1>3. Held BY DEF Held, ControllerIsHeld
<1>4. Alone BY DEF Alone
<1>5. Hooked BY DEF Hooked
<1>6. Calm BY DEF Calm, InCall
<1> QED BY <1>1, <1>2, <1>3, <1>4, <1>5, <1>6 DEF Inductive

LEMMA Stutter == ASSUME Inductive, UNCHANGED vars PROVE Inductive'
<1> USE DEF vars, controllers, settings, statics
<1>1. TypeOK' BY DEF Inductive, TypeOK
<1>2. SetUp' BY DEF Inductive, SetUp, PortIsConfigured
<1>3. Held' BY DEF Inductive, Held, ControllerIsHeld
<1>4. Alone' BY DEF Inductive, Alone
<1>5. Hooked' BY DEF Inductive, Hooked
<1>6. Calm' BY DEF Inductive, Calm, InCall
<1> QED BY <1>1, <1>2, <1>3, <1>4, <1>5, <1>6 DEF Inductive

LEMMA CreateInductive == ASSUME Inductive, startStatusListener PROVE Inductive'
<1> USE DEF startStatusListener, cam_controller_create, Goto, Runs
<1>1. PICK c \in Handles \ created :
        g_controller' = c /\ created' = created \cup {c} /\ alive' = alive \cup {c}
  OBVIOUS
<1>2. TypeOK' BY <1>1 DEF Inductive, TypeOK
<1>3. SetUp' BY <1>1 DEF Inductive, SetUp, PortIsConfigured
<1>4. Held' BY <1>1 DEF Inductive, TypeOK, Held, ControllerIsHeld, Alone
<1>5. Alone' BY <1>1 DEF Inductive, TypeOK, Alone
<1>6. Hooked' BY <1>1 DEF Inductive, TypeOK, Hooked
<1>7. Calm' BY <1>1 DEF Inductive, TypeOK, Calm, InCall, Alone, Hooked
<1> QED BY <1>2, <1>3, <1>4, <1>5, <1>6, <1>7 DEF Inductive

\* The start of a controller on port p, however p is found.
StartStep(f, p) ==
  /\ Runs("main") /\ pc["main"] = "start"
  /\ config' = f
  /\ \/ Starts(p)
     \/ Goto("main", "undo") /\ UNCHANGED <<running, joinable, port>>
  /\ conf_file' \in Files \cup {None}
  /\ UNCHANGED <<g_controller, arg, created, alive, log_initialized, appenders, hooked,
                 interrupted, process, wild, overlapped>>

LEMMA StartInductive ==
  ASSUME Inductive, NEW f \in Files \cup {None}, NEW p \in Nat \ {0}, StartStep(f, p),
         running' # running => p = IF f = None THEN DefaultPort ELSE PortOf[f]
  PROVE  Inductive'
<1> USE DEF StartStep, Starts, Goto, Runs
<1>1. running = {} /\ ~hooked /\ g_controller \in created /\ g_controller \in Handles
  BY DEF Inductive, TypeOK, Alone, Hooked
<1>2. TypeOK' BY <1>1 DEF Inductive, TypeOK
<1>3. SetUp' BY <1>1 DEF Inductive, TypeOK, SetUp, PortIsConfigured
<1>4. Held' BY <1>1 DEF Inductive, TypeOK, Held, ControllerIsHeld, Alone
<1>5. Alone' BY <1>1 DEF Inductive, TypeOK, Alone
<1>6. Hooked' BY <1>1 DEF Inductive, TypeOK, Hooked
<1>7. Calm' BY <1>1 DEF Inductive, TypeOK, Calm, InCall, Alone, Hooked
<1> QED BY <1>2, <1>3, <1>4, <1>5, <1>6, <1>7 DEF Inductive

LEMMA StartExInductive == ASSUME Inductive, cam_controller_start_ex PROVE Inductive'
<1>1. StartStep(None, DefaultPort)
  BY DEF cam_controller_start_ex, StartStep, Starts, settings, statics, Inductive, TypeOK
<1> QED BY <1>1, StartInductive DEF DefaultPort

LEMMA StartConfigInductive == ASSUME Inductive, cam_controller_start_with_config PROVE Inductive'
<1>1. PICK f \in Files : config' = f /\ Configured(f)
  BY DEF cam_controller_start_with_config
<1>2. f # None
  OBVIOUS
<1>3. CASE Loaded(f) # None /\ Loaded(f) > 0 /\ Starts(Loaded(f))
  <2>1. Loaded(f) \in Nat \ {0} /\ Loaded(f) = PortOf[f]
    BY <1>2, <1>3 DEF Loaded
  <2>2. StartStep(f, Loaded(f))
    BY <1>1, <1>3 DEF cam_controller_start_with_config, Configured, StartStep
  <2> QED BY <1>2, <2>1, <2>2, StartInductive
<1>4. CASE Goto("main", "undo") /\ UNCHANGED <<running, joinable, port>>
  <2>1. StartStep(f, 1)
    BY <1>1, <1>4 DEF cam_controller_start_with_config, Configured, StartStep
  <2> QED BY <1>4, <2>1, StartInductive
<1> QED BY <1>1, <1>3, <1>4 DEF Configured

LEMMA UndoInductive == ASSUME Inductive, Undo PROVE Inductive'
<1> USE DEF Undo, settings, statics, Goto, Runs
<1>1. TypeOK' BY DEF Inductive, TypeOK
<1>2. SetUp' BY DEF Inductive, SetUp, PortIsConfigured
<1>3. Held' BY DEF Inductive, TypeOK, Held, ControllerIsHeld
<1>4. Alone' BY DEF Inductive, TypeOK, Alone
<1>5. Hooked' BY DEF Inductive, TypeOK, Hooked
<1>6. Calm' BY DEF Inductive, TypeOK, Calm, InCall, Alone, Hooked
<1> QED BY <1>1, <1>2, <1>3, <1>4, <1>5, <1>6 DEF Inductive

LEMMA HookInductive ==
  ASSUME Inductive, addShutdownHook PROVE Inductive'
<1> USE DEF addShutdownHook, controllers, settings, statics, Runs
<1>1. TypeOK' BY DEF Inductive, TypeOK
<1>2. SetUp' BY DEF Inductive, SetUp, PortIsConfigured
<1>3. Held' BY DEF Inductive, TypeOK, Held, ControllerIsHeld
<1>4. Alone' BY DEF Inductive, TypeOK, Alone
<1>5. Hooked' BY DEF Inductive, TypeOK, Hooked, Held, ControllerIsHeld
<1>6. Calm' BY DEF Inductive, TypeOK, Calm, InCall, Alone, Hooked
<1> QED BY <1>1, <1>2, <1>3, <1>4, <1>5, <1>6 DEF Inductive

LEMMA GetInductive ==
  ASSUME Inductive, getLastStatus PROVE Inductive'
<1> USE DEF getLastStatus, Begins, InCall, controllers, settings, statics, Goto, Runs
<1>1. TypeOK' BY DEF Inductive, TypeOK
<1>2. SetUp' BY DEF Inductive, SetUp, PortIsConfigured
<1>3. Held' BY DEF Inductive, TypeOK, Held, ControllerIsHeld
<1>4. Alone' BY DEF Inductive, TypeOK, Alone
<1>5. Hooked' BY DEF Inductive, TypeOK, Hooked, Held, ControllerIsHeld
<1>6. Calm' BY DEF Inductive, TypeOK, Calm, InCall, Alone, Hooked
<1> QED BY <1>1, <1>2, <1>3, <1>4, <1>5, <1>6 DEF Inductive

LEMMA GetReadInductive ==
  ASSUME Inductive, GetRead PROVE Inductive'
<1> USE DEF GetRead, Reads, controllers, settings, statics, Goto, Runs
<1>1. TypeOK' BY DEF Inductive, TypeOK
<1>2. SetUp' BY DEF Inductive, SetUp, PortIsConfigured
<1>3. Held' BY DEF Inductive, TypeOK, Held, ControllerIsHeld
<1>4. Alone' BY DEF Inductive, TypeOK, Alone
<1>5. Hooked' BY DEF Inductive, TypeOK, Hooked, Held, ControllerIsHeld
<1>6. Calm' BY DEF Inductive, TypeOK, Calm, InCall, Alone, Hooked
<1> QED BY <1>1, <1>2, <1>3, <1>4, <1>5, <1>6 DEF Inductive

LEMMA GetLastInductive ==
  ASSUME Inductive, cam_controller_get_last PROVE Inductive'
<1> USE DEF cam_controller_get_last, Deleted, Wild, controllers, settings, statics, Goto, Runs
<1>1. TypeOK' BY ZenonT(60) DEF Inductive, TypeOK
<1>2. SetUp' BY DEF Inductive, SetUp, PortIsConfigured
<1>3. Held' BY DEF Inductive, TypeOK, Held, ControllerIsHeld
<1>4. Alone' BY DEF Inductive, TypeOK, Alone
<1>5. Hooked' BY DEF Inductive, TypeOK, Hooked, Held, ControllerIsHeld
<1>6. Calm' BY DEF Inductive, TypeOK, Calm, InCall, Alone, Hooked
<1> QED BY <1>1, <1>2, <1>3, <1>4, <1>5, <1>6 DEF Inductive

LEMMA SetInductive ==
  ASSUME Inductive, setPTZ PROVE Inductive'
<1> USE DEF setPTZ, controllers, settings, statics, Goto, Runs
<1>1. TypeOK' BY DEF Inductive, TypeOK
<1>2. SetUp' BY DEF Inductive, SetUp, PortIsConfigured
<1>3. Held' BY DEF Inductive, TypeOK, Held, ControllerIsHeld
<1>4. Alone' BY DEF Inductive, TypeOK, Alone
<1>5. Hooked' BY DEF Inductive, TypeOK, Hooked, Held, ControllerIsHeld
<1>6. Calm' BY DEF Inductive, TypeOK, Calm, InCall, Alone, Hooked
<1> QED BY <1>1, <1>2, <1>3, <1>4, <1>5, <1>6 DEF Inductive

LEMMA SetReadInductive ==
  ASSUME Inductive, SetRead PROVE Inductive'
<1> USE DEF SetRead, Reads, controllers, settings, statics, Goto, Runs
<1>1. TypeOK' BY DEF Inductive, TypeOK
<1>2. SetUp' BY DEF Inductive, SetUp, PortIsConfigured
<1>3. Held' BY DEF Inductive, TypeOK, Held, ControllerIsHeld
<1>4. Alone' BY DEF Inductive, TypeOK, Alone
<1>5. Hooked' BY DEF Inductive, TypeOK, Hooked, Held, ControllerIsHeld
<1>6. Calm' BY DEF Inductive, TypeOK, Calm, InCall, Alone, Hooked
<1> QED BY <1>1, <1>2, <1>3, <1>4, <1>5, <1>6 DEF Inductive

LEMMA SetPtzInductive ==
  ASSUME Inductive, cam_controller_set_ptz PROVE Inductive'
<1> USE DEF cam_controller_set_ptz, controllers, settings, statics, Goto, Runs
<1>1. TypeOK' BY DEF Inductive, TypeOK
<1>2. SetUp' BY DEF Inductive, SetUp, PortIsConfigured
<1>3. Held' BY DEF Inductive, TypeOK, Held, ControllerIsHeld
<1>4. Alone' BY DEF Inductive, TypeOK, Alone
<1>5. Hooked' BY DEF Inductive, TypeOK, Hooked, Held, ControllerIsHeld
<1>6. Calm' BY DEF Inductive, TypeOK, Calm, InCall, Alone, Hooked
<1> QED BY <1>1, <1>2, <1>3, <1>4, <1>5, <1>6 DEF Inductive

LEMMA StopBeginInductive ==
  ASSUME Inductive, NEW t \in Threads, stopStatusListener(t) PROVE Inductive'
<1> USE DEF stopStatusListener, Begins, InCall, Back, controllers, settings, statics, Goto, Runs
<1>1. TypeOK'
  <2>1. \E l \in {"stop", "idle", "done"} : pc' = [pc EXCEPT ![t] = l]
    OBVIOUS
  <2>2. pc' \in [Threads -> Steps]
    BY <2>1 DEF Inductive, TypeOK, Steps
  <2>3. overlapped' \in BOOLEAN
    BY ZenonT(60) DEF Inductive, TypeOK
  <2> QED BY <2>2, <2>3 DEF Inductive, TypeOK, Steps
<1>2. SetUp' BY DEF Inductive, SetUp, PortIsConfigured
<1>3. Held' BY DEF Inductive, TypeOK, Held, ControllerIsHeld
<1>4. Alone' BY DEF Inductive, TypeOK, Alone
<1>5. Hooked' BY DEF Inductive, TypeOK, Hooked, Held, ControllerIsHeld, Alone
<1>6. Calm' BY DEF Inductive, TypeOK, Calm, InCall, Alone, Hooked
<1> QED BY <1>1, <1>2, <1>3, <1>4, <1>5, <1>6 DEF Inductive

LEMMA StopReadInductive ==
  ASSUME Inductive, NEW t \in Threads, StopRead(t) PROVE Inductive'
<1> USE DEF StopRead, Reads, controllers, settings, statics, Goto, Runs
<1>1. TypeOK' BY DEF Inductive, TypeOK
<1>2. SetUp' BY DEF Inductive, SetUp, PortIsConfigured
<1>3. Held' BY DEF Inductive, TypeOK, Held, ControllerIsHeld
<1>4. Alone' BY DEF Inductive, TypeOK, Alone
<1>5. Hooked' BY DEF Inductive, TypeOK, Hooked, Held, ControllerIsHeld
<1>6. Calm' BY DEF Inductive, TypeOK, Calm, InCall, Alone, Hooked
<1> QED BY <1>1, <1>2, <1>3, <1>4, <1>5, <1>6 DEF Inductive

LEMMA StopTestInductive ==
  ASSUME Inductive, NEW t \in Threads, StopTest(t) PROVE Inductive'
<1> USE DEF StopTest, Deleted, Wild, settings, statics, Goto, Runs, controllers
<1>1. TypeOK'
  <2>1. /\ pc' = pc \/ \E l \in Steps : pc' = [pc EXCEPT ![t] = l]
        /\ running' \subseteq running /\ joinable' \subseteq joinable
        /\ process' \in {process, "crashed"} /\ wild' \in {wild, TRUE}
    BY DEF Inductive, TypeOK, Steps
  <2>2. pc' \in [Threads -> Steps]
    BY <2>1 DEF Inductive, TypeOK, Steps
  <2>3. process' \in {"up", "ending", "exited", "crashed"} /\ wild' \in BOOLEAN
    BY <2>1 DEF Inductive, TypeOK
  <2>4. running' \subseteq created' /\ joinable' \subseteq created'
    BY <2>1 DEF Inductive, TypeOK
  <2> QED BY <2>2, <2>3, <2>4 DEF Inductive, TypeOK, Steps
<1>2. SetUp' BY DEF Inductive, SetUp, PortIsConfigured
<1>3. Held' BY DEF Inductive, TypeOK, Held, ControllerIsHeld
<1>4. Alone' BY DEF Inductive, TypeOK, Alone, Calm
<1>5. Hooked' BY DEF Inductive, TypeOK, Hooked, Held, ControllerIsHeld
<1>6. Calm' BY DEF Inductive, TypeOK, Calm, InCall, Alone, Hooked
<1> QED BY <1>1, <1>2, <1>3, <1>4, <1>5, <1>6 DEF Inductive

LEMMA StopFlagInductive ==
  ASSUME Inductive, NEW t \in Threads, StopFlag(t) PROVE Inductive'
<1> USE DEF StopFlag, Deleted, Wild, settings, statics, Goto, Runs
<1>1. TypeOK'
  <2>1. /\ pc' = pc \/ \E l \in Steps : pc' = [pc EXCEPT ![t] = l]
        /\ running' \subseteq running /\ joinable' \subseteq joinable
        /\ process' \in {process, "crashed"} /\ wild' \in {wild, TRUE}
    BY DEF Inductive, TypeOK, Steps
  <2>2. pc' \in [Threads -> Steps]
    BY <2>1 DEF Inductive, TypeOK, Steps
  <2>3. process' \in {"up", "ending", "exited", "crashed"} /\ wild' \in BOOLEAN
    BY <2>1 DEF Inductive, TypeOK
  <2>4. running' \subseteq created' /\ joinable' \subseteq created'
    BY <2>1 DEF Inductive, TypeOK
  <2> QED BY <2>2, <2>3, <2>4 DEF Inductive, TypeOK, Steps
<1>2. SetUp' BY DEF Inductive, SetUp, PortIsConfigured
<1>3. Held' BY DEF Inductive, TypeOK, Held, ControllerIsHeld
<1>4. Alone' BY DEF Inductive, TypeOK, Alone, Calm
<1>5. Hooked' BY DEF Inductive, TypeOK, Hooked, Held, ControllerIsHeld
<1>6. Calm' BY DEF Inductive, TypeOK, Calm, InCall, Alone, Hooked
<1> QED BY <1>1, <1>2, <1>3, <1>4, <1>5, <1>6 DEF Inductive

LEMMA StopJoinInductive ==
  ASSUME Inductive, NEW t \in Threads, StopJoin(t) PROVE Inductive'
<1> USE DEF StopJoin, Deleted, Wild, settings, statics, Goto, Runs, controllers
<1>1. TypeOK'
  <2>1. /\ pc' = pc \/ \E l \in Steps : pc' = [pc EXCEPT ![t] = l]
        /\ running' \subseteq running /\ joinable' \subseteq joinable
        /\ process' \in {process, "crashed"} /\ wild' \in {wild, TRUE}
    BY DEF Inductive, TypeOK, Steps
  <2>2. pc' \in [Threads -> Steps]
    BY <2>1 DEF Inductive, TypeOK, Steps
  <2>3. process' \in {"up", "ending", "exited", "crashed"} /\ wild' \in BOOLEAN
    BY <2>1 DEF Inductive, TypeOK
  <2>4. running' \subseteq created' /\ joinable' \subseteq created'
    BY <2>1 DEF Inductive, TypeOK
  <2> QED BY <2>2, <2>3, <2>4 DEF Inductive, TypeOK, Steps
<1>2. SetUp' BY DEF Inductive, SetUp, PortIsConfigured
<1>3. Held' BY DEF Inductive, TypeOK, Held, ControllerIsHeld
<1>4. Alone' BY DEF Inductive, TypeOK, Alone, Calm
<1>5. Hooked' BY DEF Inductive, TypeOK, Hooked, Held, ControllerIsHeld
<1>6. Calm' BY DEF Inductive, TypeOK, Calm, InCall, Alone, Hooked
<1> QED BY <1>1, <1>2, <1>3, <1>4, <1>5, <1>6 DEF Inductive

LEMMA JoinReturnsInductive ==
  ASSUME Inductive, NEW t \in Threads, JoinReturns(t) PROVE Inductive'
<1> USE DEF JoinReturns, Deleted, Wild, settings, statics, Goto, Runs
<1>1. TypeOK'
  <2>1. /\ pc' = pc \/ \E l \in Steps : pc' = [pc EXCEPT ![t] = l]
        /\ running' \subseteq running /\ joinable' \subseteq joinable
        /\ process' \in {process, "crashed"} /\ wild' \in {wild, TRUE}
    BY DEF Inductive, TypeOK, Steps
  <2>2. pc' \in [Threads -> Steps]
    BY <2>1 DEF Inductive, TypeOK, Steps
  <2>3. process' \in {"up", "ending", "exited", "crashed"} /\ wild' \in BOOLEAN
    BY <2>1 DEF Inductive, TypeOK
  <2>4. running' \subseteq created' /\ joinable' \subseteq created'
    BY <2>1 DEF Inductive, TypeOK
  <2> QED BY <2>2, <2>3, <2>4 DEF Inductive, TypeOK, Steps
<1>2. SetUp' BY DEF Inductive, SetUp, PortIsConfigured
<1>3. Held' BY DEF Inductive, TypeOK, Held, ControllerIsHeld
<1>4. Alone' BY DEF Inductive, TypeOK, Alone, Calm
<1>5. Hooked' BY DEF Inductive, TypeOK, Hooked, Held, ControllerIsHeld
<1>6. Calm' BY DEF Inductive, TypeOK, Calm, InCall, Alone, Hooked
<1> QED BY <1>1, <1>2, <1>3, <1>4, <1>5, <1>6 DEF Inductive

LEMMA DestroyReadInductive ==
  ASSUME Inductive, NEW t \in Threads, DestroyRead(t) PROVE Inductive'
<1> USE DEF DestroyRead, Reads, controllers, settings, statics, Goto, Runs
<1>1. TypeOK' BY DEF Inductive, TypeOK
<1>2. SetUp' BY DEF Inductive, SetUp, PortIsConfigured
<1>3. Held' BY DEF Inductive, TypeOK, Held, ControllerIsHeld
<1>4. Alone' BY DEF Inductive, TypeOK, Alone
<1>5. Hooked' BY DEF Inductive, TypeOK, Hooked, Held, ControllerIsHeld
<1>6. Calm' BY DEF Inductive, TypeOK, Calm, InCall, Alone, Hooked
<1> QED BY <1>1, <1>2, <1>3, <1>4, <1>5, <1>6 DEF Inductive

LEMMA DestroyInductive ==
  ASSUME Inductive, NEW t \in Threads, cam_controller_destroy(t) PROVE Inductive'
<1> USE DEF cam_controller_destroy, Deleted, Wild, settings, statics, Goto, Runs
<1>1. TypeOK'
  <2>1. pc' = pc \/ \E l \in Steps : pc' = [pc EXCEPT ![t] = l]
    BY DEF Steps
  <2>2. alive' \subseteq alive /\ process' \in {process, "crashed"} /\ wild' \in {wild, TRUE}
    OBVIOUS
  <2>3. pc' \in [Threads -> Steps]
    BY <2>1 DEF Inductive, TypeOK, Steps
  <2>4. process' \in {"up", "ending", "exited", "crashed"} /\ wild' \in BOOLEAN
    BY <2>2 DEF Inductive, TypeOK
  <2>5. alive' \subseteq created'
    BY <2>2 DEF Inductive, TypeOK
  <2> QED BY <2>3, <2>4, <2>5 DEF Inductive, TypeOK, Steps
<1>2. SetUp' BY DEF Inductive, SetUp, PortIsConfigured
<1>3. Held' BY DEF Inductive, TypeOK, Held, ControllerIsHeld
<1>4. Alone' BY DEF Inductive, TypeOK, Alone
<1>5. Hooked' BY DEF Inductive, TypeOK, Hooked, Held, ControllerIsHeld
<1>6. Calm' BY DEF Inductive, TypeOK, Calm, InCall, Alone, Hooked
<1> QED BY <1>1, <1>2, <1>3, <1>4, <1>5, <1>6 DEF Inductive

LEMMA StopNullInductive ==
  ASSUME Inductive, NEW t \in Threads, StopNull(t) PROVE Inductive'
<1> USE DEF StopNull, Back, controllers, settings, statics, Goto, Runs
<1>1. TypeOK' BY DEF Inductive, TypeOK
<1>2. SetUp' BY DEF Inductive, SetUp, PortIsConfigured
<1>3. Held' BY DEF Inductive, TypeOK, Held, ControllerIsHeld
<1>4. Alone' BY DEF Inductive, TypeOK, Alone
<1>5. Hooked' BY DEF Inductive, TypeOK, Hooked, Held, ControllerIsHeld, Alone
<1>6. Calm' BY DEF Inductive, TypeOK, Calm, InCall, Alone, Hooked
<1> QED BY <1>1, <1>2, <1>3, <1>4, <1>5, <1>6 DEF Inductive

LEMMA ReturnInductive ==
  ASSUME Inductive, MainReturns PROVE Inductive'
<1> USE DEF MainReturns, Ends, controllers, settings, statics
<1>1. TypeOK' BY DEF Inductive, TypeOK
<1>2. SetUp' BY DEF Inductive, SetUp, PortIsConfigured
<1>3. Held' BY DEF Inductive, TypeOK, Held, ControllerIsHeld
<1>4. Alone' BY DEF Inductive, TypeOK, Alone
<1>5. Hooked' BY DEF Inductive, TypeOK, Hooked, Held, ControllerIsHeld
<1>6. Calm' BY DEF Inductive, TypeOK, Calm, InCall, Alone, Hooked
<1> QED BY <1>1, <1>2, <1>3, <1>4, <1>5, <1>6 DEF Inductive

LEMMA InterruptInductive ==
  ASSUME Inductive, Interrupt PROVE Inductive'
<1> USE DEF Interrupt, Ends, controllers, settings, statics
<1>1. TypeOK' BY DEF Inductive, TypeOK
<1>2. SetUp' BY DEF Inductive, SetUp, PortIsConfigured
<1>3. Held' BY DEF Inductive, TypeOK, Held, ControllerIsHeld
<1>4. Alone' BY DEF Inductive, TypeOK, Alone
<1>5. Hooked' BY DEF Inductive, TypeOK, Hooked, Held, ControllerIsHeld
<1>6. Calm' BY DEF Inductive, TypeOK, Calm, InCall, Alone, Hooked
<1> QED BY <1>1, <1>2, <1>3, <1>4, <1>5, <1>6 DEF Inductive

LEMMA ExitInductive ==
  ASSUME Inductive, Exit PROVE Inductive'
<1> USE DEF Exit, controllers, settings, statics
<1>1. TypeOK' BY DEF Inductive, TypeOK
<1>2. SetUp' BY DEF Inductive, SetUp, PortIsConfigured
<1>3. Held' BY DEF Inductive, TypeOK, Held, ControllerIsHeld
<1>4. Alone' BY DEF Inductive, TypeOK, Alone
<1>5. Hooked' BY DEF Inductive, TypeOK, Hooked, Held, ControllerIsHeld
<1>6. Calm' BY DEF Inductive, TypeOK, Calm, InCall, Alone, Hooked
<1> QED BY <1>1, <1>2, <1>3, <1>4, <1>5, <1>6 DEF Inductive

LEMMA InductiveInvariant == Spec => []Inductive
<1>1. ASSUME Inductive, Next PROVE Inductive'
  <2>1. ASSUME NEW t \in Threads, stopStatusListener(t) \/ Stops(t) PROVE Inductive'
    BY <1>1, <2>1, StopBeginInductive, StopReadInductive, StopTestInductive,
       StopFlagInductive, StopJoinInductive, JoinReturnsInductive, DestroyReadInductive, DestroyInductive, StopNullInductive DEF Stops
  <2> QED
    BY <1>1, <2>1, CreateInductive, StartExInductive, StartConfigInductive, UndoInductive,
       HookInductive, GetInductive, GetReadInductive, GetLastInductive, SetInductive,
       SetReadInductive, SetPtzInductive, ReturnInductive, InterruptInductive, ExitInductive DEF Next
<1>2. Inductive /\ [Next]_vars => Inductive'
  BY <1>1, Stutter
<1> QED BY <1>2, InitInductive, PTL DEF Spec

-------------------------------------------------------------------------------
(* The theorems.                                                             *)

\* Type correctness: no controller is started on a port that is none.
THEOREM TypeCorrect == Spec => []TypeOK
<1>1. Inductive => TypeOK BY DEF Inductive
<1> QED BY <1>1, InductiveInvariant, PTL

\* The logger of the process gets its appender once.
THEOREM LogsOnce == Spec => []LogOnce
<1>1. Inductive => LogOnce BY DEF Inductive, SetUp, LogOnce
<1> QED BY <1>1, InductiveInvariant, PTL

\* The file of an earlier start does not decide the port of a later one.
THEOREM ListensAsConfigured == Spec => []PortIsConfigured
<1>1. Inductive => PortIsConfigured BY DEF Inductive, SetUp
<1> QED BY <1>1, InductiveInvariant, PTL

\* The unsynchronised handle loses no controller.
THEOREM ControllersAreHeld == Spec => []ControllerIsHeld
<1>1. Inductive => ControllerIsHeld BY DEF Inductive, Held
<1> QED BY <1>1, InductiveInvariant, PTL

\* A process whose hook has ended, and that has neither crashed nor hung in a
\* join, has deleted every controller.
THEOREM ExitLeavesNone == Spec => []ExitLeavesNothing
<1>1. Inductive => ExitLeavesNothing BY DEF Inductive, Hooked, ExitLeavesNothing
<1> QED BY <1>1, InductiveInvariant, PTL

\* A crash, a join that hangs and the use of a deleted controller take a signal
\* and two calls that overlap.
THEOREM DeletedNeedsSignal == Spec => []OnlySignalsReachDeleted
<1>1. Inductive => OnlySignalsReachDeleted
  BY DEF Inductive, TypeOK, Calm, OnlySignalsReachDeleted
<1> QED BY <1>1, InductiveInvariant, PTL
===============================================================================
