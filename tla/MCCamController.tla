-------------------------- MODULE MCCamController --------------------------
(***************************************************************************)
(* Instances of CamController for TLC.                                     *)
(***************************************************************************)
EXTENDS CamController

CONSTANTS c1, c2, t1, t2

OneOwner == [c \in Controllers |-> t1]
============================================================================
