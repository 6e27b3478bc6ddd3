------------------------------ MODULE PtzData ------------------------------
(***************************************************************************)
(* The values CamAJFLib and its abstract specification speak of.           *)
(***************************************************************************)
EXTENDS Integers

CONSTANTS
  Apps,        \* the application threads
  Reports,     \* what the device may report: a position with a focus
  Levels,      \* the zooms and focuses of commands, in tenths: 37 is 3.7
  Callbacks,   \* the functions an application may register
  None         \* no callback, no thread; a position never reported

ASSUME DataAssumption ==
  /\ Levels \subseteq Int
  /\ None \notin Apps \cup Reports \cup (0..255) \cup Callbacks
  /\ Reports \cap (Levels \cup {0}) = {}

\* A zoom or focus that was never set is 0.
Values == Levels \cup {0}

\* PTZStatus: azimuth and elevation are one position.
Ptz == [pos   : Reports \cup {None},
        zoom  : Values,
        focus : Reports \cup Values,
        valid : BOOLEAN]

\* Fault: a PTZStatus without its initialisers holds anything.
Unknown_garbage == [pos |-> 0, zoom |-> 0, focus |-> 0, valid |-> FALSE]

Unknown == [pos |-> None, zoom |-> 0, focus |-> 0, valid |-> FALSE]

\* A report sets the position and the focus.  It says nothing of the zoom.
Reported(s, r) == [s EXCEPT !.pos = r, !.focus = r, !.valid = TRUE]

\* The zoom of the command set_zoom sends: cut off at 0.0 and 255.0, and without
\* its fraction.
ZoomByte(v) == IF v < 0 THEN 0 ELSE IF v > 2550 THEN 255 ELSE v \div 10

\* A PTZ callback in progress: the function and the arguments it was given.
Delivery == [to : Callbacks \cup {None}, ptz : Ptz]
NotCalling == [to |-> None, ptz |-> Unknown]
============================================================================
