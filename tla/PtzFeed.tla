------------------------------ MODULE PtzFeed ------------------------------
(***************************************************************************)
(* What CamAJFLib promises its application: a PTZ status that reports of   *)
(* the device and commands of the application change in one step, and a    *)
(* callback that is given every report once, in order, with the status as  *)
(* it then is.  While the callback runs neither the status nor the         *)
(* callback changes; when the feed stops, no report is on its way.  No     *)
(* thread, lock or socket is visible.                                      *)
(***************************************************************************)
EXTENDS PtzData

VARIABLES
  on,          \* reports are accepted
  status,      \* the PTZ status
  pending,     \* a report has been accepted and not yet been offered
  callback,    \* the registered callback, or None
  delivering,  \* the callback in progress and its arguments
  read         \* read[t]: the status thread t has read and not yet let go of

feedVars == <<on, status, pending, callback, delivering, read>>

Init ==
  /\ on = FALSE
  /\ status = Unknown
  /\ pending = FALSE
  /\ callback = None
  /\ delivering = NotCalling
  /\ read = [t \in Apps |-> Unknown]

TurnOn ==
  /\ ~on
  /\ on' = TRUE
  /\ UNCHANGED <<status, pending, callback, delivering, read>>

TurnOff ==
  /\ on /\ ~pending /\ delivering = NotCalling
  /\ on' = FALSE
  /\ UNCHANGED <<status, pending, callback, delivering, read>>

\* The device reports.
Report(r) ==
  /\ on /\ ~pending /\ delivering = NotCalling
  /\ status' = Reported(status, r)
  /\ pending' = TRUE
  /\ UNCHANGED <<on, callback, delivering, read>>

Deliver ==
  /\ pending
  /\ pending' = FALSE
  /\ delivering' = IF callback = None THEN NotCalling ELSE [to |-> callback, ptz |-> status]
  /\ UNCHANGED <<on, status, callback, read>>

Delivered ==
  /\ delivering # NotCalling
  /\ delivering' = NotCalling
  /\ UNCHANGED <<on, status, pending, callback, read>>

Command ==
  /\ delivering = NotCalling
  /\ \E v \in Values :
       status' \in {[status EXCEPT !.zoom = v], [status EXCEPT !.focus = v]}
  /\ UNCHANGED <<on, pending, callback, delivering, read>>

Register ==
  /\ delivering = NotCalling
  /\ callback' \in Callbacks \cup {None}
  /\ UNCHANGED <<on, status, pending, delivering, read>>

Read(t) ==
  /\ read' = [read EXCEPT ![t] = status]
  /\ UNCHANGED <<on, status, pending, callback, delivering>>

Forget(t) ==
  /\ read' = [read EXCEPT ![t] = Unknown]
  /\ UNCHANGED <<on, status, pending, callback, delivering>>

Next ==
  \/ TurnOn \/ TurnOff
  \/ \E r \in Reports : Report(r)
  \/ Deliver \/ Delivered \/ Command \/ Register
  \/ \E t \in Apps : Read(t) \/ Forget(t)

Spec == Init /\ [][Next]_feedVars
============================================================================
