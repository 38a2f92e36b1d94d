--------------------------- MODULE MC_OutputCheck ---------------------------
(***************************************************************************)
(* OutputCheck for TLC.                                                    *)
(***************************************************************************)
EXTENDS OutputCheck
=============================================================================
