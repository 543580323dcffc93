---------------------------- MODULE MCQueryServing ----------------------------
(***************************************************************************)
(* Small instances of QueryServing: with two metrics there is one to grow  *)
(* over; the player counts are the limits of int32 and of a2s.             *)
(***************************************************************************)
EXTENDS QueryServing, TLC

Symmetry == Permutations(Callers)
Limits == {-1, 255, MaxInt32}
=============================================================================
