--------------------------- MODULE StatusPackets ---------------------------
(***************************************************************************)
(* The datagrams a controller caches, reduced to what cam_controller.cpp   *)
(* tells apart: where a datagram came from, which socket it was sent to,   *)
(* and the class of its size and content.                                  *)
(***************************************************************************)
EXTENDS Integers

CONSTANTS
  Sockets,   \* the sockets of the process, one name per creator
  Hosts,     \* source addresses of datagrams
  Kinds,     \* the classes of datagrams the network may deliver
  None       \* no socket, no host

\* "empty": 0 bytes; "short": 1..33 bytes; "other": 34 bytes or more that are
\* not a status report; "status": a load status report (49 bytes).
AllKinds == {"empty", "short", "other", "status"}

ASSUME PacketAssumption ==
  /\ Kinds \subseteq AllKinds
  /\ None \notin Sockets \cup Hosts

\* A vector that was never assigned: what last_packet holds at first.
NoPacket == [kind |-> "empty", src |-> None, dst |-> None]

Datagram(s) == [kind : Kinds, src : Hosts, dst : {s}]

Packet == {NoPacket} \cup [kind : Kinds, src : Hosts, dst : Sockets]

\* buf.size() >= 14 and buf.size() >= 34: the only checks of get_ptz.
HasPtz(p) == p.kind \in {"other", "status"}

(***************************************************************************)
(* What a call returned: which entry point, its return code and the        *)
(* datagram the answer was taken from.                                     *)
(***************************************************************************)
Codes == {-10, -3, -2, -1, 0, 1}

NoResult == [call |-> "none", code |-> 0, pkt |-> NoPacket]

Result == [call : {"none", "start", "get_last", "get_ptz", "set_ptz"},
           code : Codes, pkt : Packet]

\* cam_controller_get_last: nothing to copy when the vector is empty.
LastResult(p) ==
  IF p.kind = "empty"
  THEN [call |-> "get_last", code |-> 0, pkt |-> NoPacket]
  ELSE [call |-> "get_last", code |-> 1, pkt |-> p]

\* cam_controller_get_ptz: 1 as soon as the bytes it reads exist.
PtzResult(p) ==
  IF HasPtz(p)
  THEN [call |-> "get_ptz", code |-> 1, pkt |-> p]
  ELSE [call |-> "get_ptz", code |-> 0, pkt |-> NoPacket]
============================================================================
