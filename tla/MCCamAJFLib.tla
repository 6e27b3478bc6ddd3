---------------------------- MODULE MCCamAJFLib ----------------------------
(***************************************************************************)
(* Instances of CamAJFLib for TLC.                                         *)
(***************************************************************************)
EXTENDS CamAJFLib

CONSTANTS t1, t2

\* Below the range of the byte set_zoom sends, and with a fraction.
SomeLevels == {-10, 37}
============================================================================
