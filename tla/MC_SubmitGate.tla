--------------------------- MODULE MC_SubmitGate ---------------------------
EXTENDS SubmitGate, TLC

CONSTANTS r1, r2, r3, r4, u1, u2, c1

(* Three requests of one user and one of another, all to one course.       *)
TwoUsers == [r \in Reqs |-> IF r = r4 THEN u2 ELSE u1]
OneCourse == [r \in Reqs |-> c1]

(* An olympiad that ends before the clock stops, and an ordinary course.   *)
Olympiad == [olimpiad |-> TRUE, start |-> 1, end |-> 1]
Ordinary == [olimpiad |-> FALSE, start |-> 1, end |-> 1]
Both == {Olympiad, Ordinary}

NoPairs == {}
OnePair == {<<u2, c1>>}

Alike == Permutations({r1, r2, r3})
=============================================================================
