----------------------------- MODULE ReportFeed -----------------------------
(***************************************************************************)
(* What MulticastReceiver promises: a mailbox between two calls of the     *)
(* application.  While it is open datagrams are put in, at most Limit of   *)
(* them; they are taken out in order and each is offered once, first to    *)
(* the raw handler and then, if it is a report, to the report handler.     *)
(* Closing it ends both: no handler runs then.                             *)
(***************************************************************************)
EXTENDS Naturals, Sequences

CONSTANTS
  Reports,   \* datagrams that deserialize as a report
  Others,    \* datagrams that do not
  Empty,     \* a datagram without bytes
  None,      \* no datagram
  Limit      \* what the mailbox holds

VARIABLES
  open,      \* datagrams are received
  inbox,     \* received and not yet taken
  calling,   \* the handler that runs: "raw", "report" or None
  datagram   \* what it was given

feedVars == <<open, inbox, calling, datagram>>

Init == open = FALSE /\ inbox = <<>> /\ calling = None /\ datagram = None

Open ==
  /\ ~open
  /\ open' = TRUE
  /\ UNCHANGED <<inbox, calling, datagram>>

Arrive(d) ==
  /\ open /\ Len(inbox) < Limit
  /\ inbox' = Append(inbox, d)
  /\ UNCHANGED <<open, calling, datagram>>

\* The next datagram goes to a handler that wants it, or to none.
Take ==
  /\ open /\ inbox # <<>> /\ calling = None
  /\ inbox' = Tail(inbox)
  /\ LET d == Head(inbox) IN
       \/ calling' = None /\ datagram' = None
       \/ d # Empty /\ calling' = "raw" /\ datagram' = d
       \/ d \in Reports /\ calling' = "report" /\ datagram' = d
  /\ UNCHANGED open

\* A handler returns; a report goes on to the report handler, if there is one.
Return ==
  /\ calling # None
  /\ \/ calling' = None /\ datagram' = None
     \/ calling = "raw" /\ datagram \in Reports /\ calling' = "report" /\ datagram' = datagram
  /\ UNCHANGED <<open, inbox>>

\* Datagrams nobody took are lost.
Close ==
  /\ open /\ calling = None
  /\ open' = FALSE
  /\ inbox' = <<>>
  /\ UNCHANGED <<calling, datagram>>

Next ==
  \/ Open \/ Take \/ Return \/ Close
  \/ \E d \in Reports \cup Others \cup {Empty} : Arrive(d)

Spec == Init /\ [][Next]_feedVars
=============================================================================
