------------------------ MODULE MC_SubmissionCheck ------------------------
(***************************************************************************)
(* SubmissionCheck for TLC: one submission with everything happening to    *)
(* it, or two submissions sharing one task.                                *)
(***************************************************************************)
EXTENDS SubmissionCheck

CONSTANTS s1, s2, t1, t2, u1, u2

OneOwner == [s \in {s1} |-> u1]
TwoOwners == [s \in {s1, s2} |-> IF s = s1 THEN u1 ELSE u2]
============================================================================
