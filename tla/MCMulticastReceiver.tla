------------------------ MODULE MCMulticastReceiver ------------------------
(***************************************************************************)
(* Instances of MulticastReceiver for TLC.                                 *)
(***************************************************************************)
EXTENDS MulticastReceiver
============================================================================
