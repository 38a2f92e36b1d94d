----------------------------- MODULE MC_Runner -----------------------------
(***************************************************************************)
(* Runner for TLC: one language of each sort.                              *)
(***************************************************************************)
EXTENDS Runner
=============================================================================
