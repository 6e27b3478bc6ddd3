--------------------------- MODULE MCUdpExchange ---------------------------
(***************************************************************************)
(* Instances of UdpExchange for TLC.                                       *)
(***************************************************************************)
EXTENDS UdpExchange
============================================================================
