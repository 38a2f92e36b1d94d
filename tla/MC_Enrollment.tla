---------------------------- MODULE MC_Enrollment ---------------------------
(***************************************************************************)
(* Enrollment for TLC: one student with two requests, one with one.        *)
(***************************************************************************)
EXTENDS Enrollment, TLC

CONSTANTS u1, u2, owner, e1, e2, e3

RequesterOf == (e1 :> u1) @@ (e2 :> u1) @@ (e3 :> u2)
=============================================================================
