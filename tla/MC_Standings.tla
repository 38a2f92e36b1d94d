---------------------------- MODULE MC_Standings ----------------------------
(***************************************************************************)
(* Standings for TLC: two submissions of either of two users, an olympiad, *)
(* the same one started later and so no longer than its freeze, and an     *)
(* exam that is no olympiad.                                               *)
(***************************************************************************)
EXTENDS Standings, TLC
CONSTANTS u1, u2, t1, s1, s2
MCAuthors == (s1 :> {u1}) @@ (s2 :> {u1, u2})
MCTaskOf == (s1 :> t1) @@ (s2 :> t1)
Olympiad == [olimpiad |-> TRUE, exam |-> FALSE, start |-> 0, end |-> 3]
Shorter == [Olympiad EXCEPT !.start = 1]
Exam == [Olympiad EXCEPT !.olimpiad = FALSE, !.exam = TRUE]
MCCourses == {Olympiad, Shorter, Exam}
=============================================================================
