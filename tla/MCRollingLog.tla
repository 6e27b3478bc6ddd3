---------------------------- MODULE MCRollingLog ----------------------------
(***************************************************************************)
(* Instances of RollingLog for TLC.                                        *)
(***************************************************************************)
EXTENDS RollingLog, TLC

AnyThread == Permutations(Threads)
=============================================================================
