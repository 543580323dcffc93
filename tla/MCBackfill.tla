------------------------------ MODULE MCBackfill ------------------------------
(***************************************************************************)
(* Instances of Backfill: the bounds are in the configurations.            *)
(***************************************************************************)
EXTENDS Backfill
=============================================================================
