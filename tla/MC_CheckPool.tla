---------------------------- MODULE MC_CheckPool ----------------------------
(***************************************************************************)
(* CheckPool for TLC.                                                      *)
(***************************************************************************)
EXTENDS CheckPool

CONSTANTS p1, p2, w1, w2, s1, s2, s3
=============================================================================
