---------------------------- MODULE StatusCache ----------------------------
(***************************************************************************)
(* What a CamController promises the threads that read it: a register per  *)
(* controller that holds the last datagram received and the last datagram  *)
(* of every source, written in one step and only while the controller      *)
(* listens, and read in one step.  No thread, lock or socket is visible.   *)
(***************************************************************************)
EXTENDS StatusPackets

CONSTANTS
  Controllers,   \* the controllers
  Threads        \* the threads that read them

VARIABLES
  listening,   \* listening[c]: start has been accepted, stop has not returned
  last,        \* last[c]: the last datagram received
  byHost,      \* byHost[c][h]: the last datagram received from h
  result       \* result[t]: what the last read of thread t returned

cacheVars == <<listening, last, byHost, result>>

Init ==
  /\ listening = [c \in Controllers |-> FALSE]
  /\ last = [c \in Controllers |-> NoPacket]
  /\ byHost = [c \in Controllers |-> [h \in Hosts |-> NoPacket]]
  /\ result = [t \in Threads |-> NoResult]

\* A new controller has received nothing.
Create(c) ==
  /\ ~listening[c]
  /\ last' = [last EXCEPT ![c] = NoPacket]
  /\ byHost' = [byHost EXCEPT ![c] = [h \in Hosts |-> NoPacket]]
  /\ UNCHANGED <<listening, result>>

Listen(c) ==
  /\ ~listening[c]
  /\ listening' = [listening EXCEPT ![c] = TRUE]
  /\ UNCHANGED <<last, byHost>>

Quiet(c) ==
  /\ listening[c]
  /\ listening' = [listening EXCEPT ![c] = FALSE]
  /\ UNCHANGED <<last, byHost, result>>

Receive(c, p) ==
  /\ listening[c]
  /\ last' = [last EXCEPT ![c] = p]
  /\ byHost' = [byHost EXCEPT ![c][p.src] = p]
  /\ UNCHANGED <<listening, result>>

ReadLast(t, c) ==
  /\ result' = [result EXCEPT ![t] = LastResult(last[c])]
  /\ UNCHANGED <<listening, last, byHost>>

\* ReadPtz with no host reads the last datagram of any source.
ReadPtz(t, c, h) ==
  /\ result' = [result EXCEPT ![t] =
                  PtzResult(IF h = None THEN last[c] ELSE byHost[c][h])]
  /\ UNCHANGED <<listening, last, byHost>>

\* The thread goes on to a call that reads nothing.
Forget(t) ==
  /\ result' = [result EXCEPT ![t] = NoResult]
  /\ UNCHANGED <<last, byHost>>

Next ==
  \/ \E c \in Controllers :
       \/ Create(c)
       \/ Listen(c) /\ \E t \in Threads : Forget(t)
       \/ Quiet(c)
       \/ \E s \in Sockets : \E p \in Datagram(s) : Receive(c, p)
  \/ \E t \in Threads :
       \/ Forget(t) /\ UNCHANGED listening
       \/ \E c \in Controllers :
            ReadLast(t, c) \/ \E h \in Hosts \cup {None} : ReadPtz(t, c, h)

Spec == Init /\ [][Next]_cacheVars
============================================================================
