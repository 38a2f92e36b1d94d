---------------------------- MODULE MC_Authoring ----------------------------
(***************************************************************************)
(* Authoring for TLC: a module of two tasks, two reorderings, two          *)
(* creations and one edit.                                                 *)
(***************************************************************************)
EXTENDS Authoring

CONSTANTS a, b, n1, n2, r1, r2, c1, c2, e1

NewTaskOf == (c1 :> n1) @@ (c2 :> n2)

(* Orders of the tasks without the second new one, with and without the    *)
(* first, a list that lacks one and a list with a repetition.              *)
SomeLists == {<<a, b>>, <<b, a>>, <<n1, b, a>>, <<b, n1, a>>, <<b>>, <<a, a>>}
=============================================================================
