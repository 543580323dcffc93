----------------------------- MODULE ConfigFeed -----------------------------
(***************************************************************************)
(* What Config() and OnConfigurationChanged() promise a game together,     *)
(* without saying how: the configuration in force only moves forward       *)
(* through the versions of server.json, its known fields never newer than  *)
(* its Extra and never older than the Extra before, and after each change  *)
(* of the configuration the game is told, once or more. All of it ends if  *)
(* the process falls.                                                      *)
(***************************************************************************)
EXTENDS Naturals

CONSTANT Versions       \* the versions of the file, in the order of writing

VARIABLES
  written,              \* the newest version
  config,               \* the configuration in force: [known, extra]
  unread,               \* a change the game has not been told of
  down                  \* the process has fallen

feedVars == <<written, config, unread, down>>

Init ==
  /\ written = 1
  /\ config = [known |-> 0, extra |-> 0]
  /\ unread = FALSE /\ down = FALSE

Write ==
  /\ written + 1 \in Versions
  /\ written' = written + 1
  /\ UNCHANGED <<config, unread, down>>

(* Versions may be skipped, and the two halves may be of two versions.     *)
Follow(known, extra) ==
  /\ ~down /\ config.extra <= known /\ known <= extra /\ extra <= written
  /\ config' = [known |-> known, extra |-> extra]
  /\ unread' = TRUE
  /\ UNCHANGED <<written, down>>

Tell ==
  /\ ~down /\ unread /\ unread' = FALSE
  /\ UNCHANGED <<written, config, down>>

Fall ==
  /\ ~down /\ down' = TRUE
  /\ UNCHANGED <<written, config, unread>>

Next == Write \/ Tell \/ Fall \/ \E known, extra \in Versions : Follow(known, extra)

Spec == Init /\ [][Next]_feedVars

(* The game is eventually told, as long as it keeps listening.             *)
LiveSpec == Spec /\ WF_feedVars(Tell)
=============================================================================
