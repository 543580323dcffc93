----------------------------- MODULE MCQueryBase -----------------------------
(***************************************************************************)
(* Instances of QueryBase: clients, purges and bounds are in the           *)
(* configuration.                                                          *)
(***************************************************************************)
EXTENDS QueryBase
=============================================================================
