-------------------------- MODULE MC_Registration --------------------------
(***************************************************************************)
(* Registration for TLC: two registrations of one address under different  *)
(* names, one of them another's address, and a third that wants the name   *)
(* of the first for that address, which it spells with a capital domain    *)
(* (E2); Google may know the two spellings as two addresses.               *)
(***************************************************************************)
EXTENDS Registration, TLC
CONSTANTS r1, r2, r3, e1, e2, E2, n1, v1, v2
MCEmailOf == (r1 :> e1) @@ (r2 :> e1) @@ (r3 :> E2)
MCNameOf == (r1 :> n1) @@ (r2 :> e2) @@ (r3 :> n1)
MCFold == (e1 :> e1) @@ (e2 :> e2) @@ (E2 :> e2)
Symmetry == Permutations(Verifies)
=============================================================================
