--------------------------- MODULE MCCamMonNative ---------------------------
(***************************************************************************)
(* Instances of CamMonNative for TLC.                                      *)
(***************************************************************************)
EXTENDS CamMonNative

CONSTANTS good, zero, missing

MCPortOf == [f \in Files |-> CASE f = good -> 6001 [] f = zero -> 0 [] f = missing -> None]
=============================================================================
