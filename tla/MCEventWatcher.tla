--------------------------- MODULE MCEventWatcher ---------------------------
(***************************************************************************)
(* Small instances of EventWatcher.                                        *)
(***************************************************************************)
EXTENDS EventWatcher

AllFaults == {"serverID", "subscribe", "connect"}
=============================================================================
