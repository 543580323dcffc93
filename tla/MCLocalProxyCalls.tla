-------------------------- MODULE MCLocalProxyCalls --------------------------
(***************************************************************************)
(* Small instances of LocalProxyCalls.                                     *)
(***************************************************************************)
EXTENDS LocalProxyCalls, TLC

Symmetry == Permutations(Callers)
=============================================================================
