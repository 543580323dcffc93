-------------------------- MODULE MCServerLifecycle --------------------------
(***************************************************************************)
(* Instances of ServerLifecycle, which is finite as it stands.             *)
(***************************************************************************)
EXTENDS ServerLifecycle

AllFaults == {"config", "query", "watcher", "listener"}
=============================================================================
