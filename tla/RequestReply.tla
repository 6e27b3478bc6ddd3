---------------------------- MODULE RequestReply ----------------------------
(***************************************************************************)
(* What the UDP functions of cammon_api promise each thread: a call ends   *)
(* with a negative code, or with an answer to its own request; where Late, *)
(* the answer may also be to a request of a call that is over.             *)
(***************************************************************************)
CONSTANTS
  Clients,    \* the threads
  Requests,   \* what they may send
  Answers(_), \* Answers(r): what the device may say to request r
  Errors,     \* the negative codes
  Unsent,     \* those that say the request was not sent
  Late,       \* may the answer to an earlier call come to a later one?
  None        \* no request, no result

VARIABLES
  asking,     \* asking[c]: the request c waits for, or None
  result,     \* result[c]: what its call returned
  over        \* the requests that were sent by calls that are over

replyVars == <<asking, result, over>>

Init ==
  /\ asking = [c \in Clients |-> None]
  /\ result = [c \in Clients |-> None]
  /\ over = {}

Ask(c, r) ==
  /\ asking[c] = None
  /\ asking' = [asking EXCEPT ![c] = r]
  /\ result' = [result EXCEPT ![c] = None]
  /\ UNCHANGED over

Acceptable(c) ==
  Errors \cup Answers(asking[c])
    \cup (IF Late THEN UNION {Answers(r) : r \in over} ELSE {})

Return(c, x) ==
  /\ asking[c] # None
  /\ x \in Acceptable(c)
  /\ asking' = [asking EXCEPT ![c] = None]
  /\ result' = [result EXCEPT ![c] = x]
  /\ over' = IF x \in Unsent THEN over ELSE over \cup {asking[c]}

\* The caller has the result.
Take(c) ==
  /\ asking[c] = None
  /\ result' = [result EXCEPT ![c] = None]
  /\ UNCHANGED <<asking, over>>

Next ==
  \E c \in Clients :
    \/ \E r \in Requests : Ask(c, r)
    \/ Take(c)
    \/ \E x \in (UNION {Answers(r) : r \in Requests}) \cup Errors : Return(c, x)

Spec == Init /\ [][Next]_replyVars
=============================================================================
