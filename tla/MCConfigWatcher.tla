--------------------------- MODULE MCConfigWatcher ---------------------------
(***************************************************************************)
(* Instances of ConfigWatcher: the bounds are in the configurations.       *)
(***************************************************************************)
EXTENDS ConfigWatcher
=============================================================================
