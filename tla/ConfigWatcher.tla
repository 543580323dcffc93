---------------------------- MODULE ConfigWatcher ----------------------------
(***************************************************************************)
(* server.json from the daemon that rewrites it to the game that is told:  *)
(* newConfigFromFile (config.go), watchForConfigChanges                    *)
(* (config_watcher.go), setConfig, Config and OnConfigurationChanged       *)
(* (server.go).                                                            *)
(*                                                                         *)
(* The content of the file is the number of its version, 0 when it is      *)
(* empty. A configuration is decoded in two passes over the file, its      *)
(* known fields first and Extra second, so it is a pair of versions. The   *)
(* file system's notifications (fsnotify) are external.                    *)
(***************************************************************************)
EXTENDS Naturals, Sequences

CONSTANTS
  MaxVersions,          \* bound: versions the daemon writes
  MaxNoise,             \* bound: notifications that are not writes of server.json
  WatchFails            \* whether the watch may fail to come into being

ASSUME BoundsAssumption == MaxVersions \in Nat \ {0} /\ MaxNoise \in Nat
ASSUME WatchFailsAssumption == WatchFails \in BOOLEAN

Empty == 0
Running == {"serving", "deaf"}  \* the loop runs, with a watch or without

VARIABLES
  file,                 \* the version in server.json, or Empty
  written,              \* how many versions were written so far
  watched,              \* how many of them before the watch existed
  events,               \* notifications not yet received: "write" or "noise"
  noise,                \* how many were noise
  watcher,              \* where Start's load, then watchForConfigChanges is
  loader,               \* the load in progress: [at, first, known, extra]
  currentConfig,
  chanConfigurationChanged,
  errors,               \* how many errors OnError holds
  done,
  told,                 \* history: the last configuration the game was told
  seen                  \* history: what Config() was when it was told

daemonVars == <<file, written, noise>>
gameVars == <<told, seen>>
vars == <<daemonVars, watched, events, watcher, loader, currentConfig,
          chanConfigurationChanged, errors, done, gameVars>>

Version == [known : Nat, extra : Nat]
Nothing == [known |-> 0, extra |-> 0]
At(pc, first, known, extra) ==
  [at |-> pc, first |-> first, known |-> known, extra |-> extra]
Idle == At("idle", 0, 0, 0)
Open == At("open", 0, 0, 0)

Init ==
  /\ file = 1 /\ written = 1 /\ watched = 1
  /\ events = <<>> /\ noise = 0
  /\ watcher = "starting" /\ loader = Open
  /\ currentConfig = Nothing /\ chanConfigurationChanged = <<>>
  /\ errors = 0 /\ done = FALSE /\ told = Nothing /\ seen = Nothing

-----------------------------------------------------------------------------
(* The daemon and the file system. The daemon truncates the file and then  *)
(* writes the new version, each a write of its own. Writes are notified    *)
(* once there is a watch; a notification equal to the last one pending may *)
(* be merged with it.                                                      *)
Notify(e) ==
  IF watcher # "serving" THEN UNCHANGED events
  ELSE \/ events' = Append(events, e)
       \/ events # <<>> /\ events[Len(events)] = e /\ UNCHANGED events

Truncate ==
  /\ file # Empty /\ written < MaxVersions
  /\ file' = Empty /\ Notify("write")
  /\ UNCHANGED <<written, noise, watched, watcher, loader, currentConfig,
                 chanConfigurationChanged, errors, done, gameVars>>

WriteVersion ==
  /\ file = Empty
  /\ written' = written + 1 /\ file' = written + 1
  /\ watched' = IF watcher \in {"starting", "adding"} THEN written + 1 ELSE watched
  /\ Notify("write")
  /\ UNCHANGED <<noise, watcher, loader, currentConfig, chanConfigurationChanged,
                 errors, done, gameVars>>

(* Another file of the directory changes, or server.json's attributes do.  *)
OtherChange ==
  /\ noise < MaxNoise /\ noise' = noise + 1 /\ Notify("noise")
  /\ UNCHANGED <<file, written, watched, watcher, loader, currentConfig,
                 chanConfigurationChanged, errors, done, gameVars>>

-----------------------------------------------------------------------------
(* newConfigFromFile. Each pass reads a first block; a file that does not  *)
(* fit in it, and changed since, may not parse.                            *)
ReadFirst(pc, next) ==
  /\ loader.at = pc /\ file # Empty
  /\ loader' = [loader EXCEPT !.at = next, !.first = file]
  /\ UNCHANGED <<daemonVars, watched, events, watcher, currentConfig,
                 chanConfigurationChanged, errors, done, gameVars>>

OpenKnown == ReadFirst("open", "known")
DecodeKnown ==
  /\ loader.at = "known"
  /\ loader' = [loader EXCEPT !.at = "seek", !.known = loader.first]
  /\ UNCHANGED <<daemonVars, watched, events, watcher, currentConfig,
                 chanConfigurationChanged, errors, done, gameVars>>

OpenExtra == ReadFirst("seek", "extra")
DecodeExtra ==
  /\ loader.at = "extra"
  /\ loader' = [loader EXCEPT !.at = "loaded", !.extra = loader.first]
  /\ UNCHANGED <<daemonVars, watched, events, watcher, currentConfig,
                 chanConfigurationChanged, errors, done, gameVars>>

(* Mutant: the watcher ends at a file that does not load.                  *)
GiveUpForGood(isEOF) ==
  /\ loader' = Idle
  /\ watcher' = IF watcher = "starting" THEN "startFailed" ELSE "finished"
  /\ UNCHANGED <<daemonVars, watched, events, currentConfig, chanConfigurationChanged,
                 errors, done, gameVars>>

(* What a failed load means to its caller: Start gives up, the watcher     *)
(* carries on, and reports all but the end of an empty file.               *)
PushError == errors' = IF errors = 0 THEN 1 ELSE errors
GiveUp(isEOF) ==
  /\ loader' = Idle
  /\ watcher' = IF watcher = "starting" THEN "startFailed" ELSE watcher
  /\ IF watcher = "starting" \/ isEOF THEN UNCHANGED errors ELSE PushError
  /\ UNCHANGED <<daemonVars, watched, events, currentConfig, chanConfigurationChanged,
                 done, gameVars>>

LoadFindsEmpty == loader.at \in {"open", "seek"} /\ file = Empty /\ GiveUp(TRUE)
LoadIsSpliced ==
  loader.at \in {"known", "extra"} /\ file # loader.first /\ GiveUp(FALSE)

-----------------------------------------------------------------------------
(* Mutant: Extra is not assigned.                                          *)
AssignKnownOnly ==
  /\ loader.at = "loaded"
  /\ currentConfig' = [currentConfig EXCEPT !.known = loader.known]
  /\ loader' = [loader EXCEPT !.at = "assigned"]
  /\ UNCHANGED <<daemonVars, watched, events, watcher, chanConfigurationChanged,
                 errors, done, gameVars>>

(* setConfig: the assignment under the lock, then a send that does not     *)
(* block and drops the configuration when the channel is full.             *)
AssignConfig ==
  /\ loader.at = "loaded"
  /\ currentConfig' = [known |-> loader.known, extra |-> loader.extra]
  /\ loader' = [loader EXCEPT !.at = "assigned"]
  /\ UNCHANGED <<daemonVars, watched, events, watcher, chanConfigurationChanged,
                 errors, done, gameVars>>

(* Mutant: the channel is sent to without looking whether it is full.      *)
PublishConfigAnyway ==
  /\ loader.at = "assigned"
  /\ chanConfigurationChanged' =
       Append(chanConfigurationChanged, [known |-> loader.known, extra |-> loader.extra])
  /\ loader' = Idle
  /\ watcher' = IF watcher = "starting" THEN "adding" ELSE watcher
  /\ UNCHANGED <<daemonVars, watched, events, currentConfig, errors, done, gameVars>>

(* Mutant: notifications that arrived during a load are taken as handled.  *)
PublishConfigDrains ==
  /\ loader.at = "assigned"
  /\ chanConfigurationChanged' =
       IF chanConfigurationChanged = <<>>
         THEN <<[known |-> loader.known, extra |-> loader.extra]>>
         ELSE chanConfigurationChanged
  /\ loader' = Idle /\ events' = <<>>
  /\ watcher' = IF watcher = "starting" THEN "adding" ELSE watcher
  /\ UNCHANGED <<daemonVars, watched, currentConfig, errors, done, gameVars>>

(* Mutant: the channel is unbuffered, and the game is not waiting at it.   *)
PublishConfigUnbuffered ==
  /\ loader.at = "assigned" /\ loader' = Idle
  /\ watcher' = IF watcher = "starting" THEN "adding" ELSE watcher
  /\ UNCHANGED <<daemonVars, watched, events, currentConfig, chanConfigurationChanged,
                 errors, done, gameVars>>

PublishConfig ==
  /\ loader.at = "assigned"
  /\ chanConfigurationChanged' =
       IF chanConfigurationChanged = <<>>
         THEN <<[known |-> loader.known, extra |-> loader.extra]>>
         ELSE chanConfigurationChanged
  /\ loader' = Idle
  /\ watcher' = IF watcher = "starting" THEN "adding" ELSE watcher
  /\ UNCHANGED <<daemonVars, watched, events, currentConfig, errors, done, gameVars>>

-----------------------------------------------------------------------------
(* watchForConfigChanges: the watch is added only now, and the errors of   *)
(* doing so are ignored. Without a watch the loop hears of nothing;        *)
(* without a watcher, whose Add panics, the process is gone.               *)
AddWatch ==
  /\ watcher = "adding"
  /\ watcher' \in IF WatchFails THEN {"serving", "deaf", "panicked"} ELSE {"serving"}
  /\ UNCHANGED <<daemonVars, watched, events, loader, currentConfig,
                 chanConfigurationChanged, errors, done, gameVars>>

TakeEvent ==
  /\ watcher = "serving" /\ loader = Idle /\ events # <<>>
  /\ events' = Tail(events)
  /\ loader' = IF Head(events) = "write" THEN Open ELSE Idle
  /\ UNCHANGED <<daemonVars, watched, watcher, currentConfig, chanConfigurationChanged,
                 errors, done, gameVars>>

WatchError ==
  /\ watcher \in Running /\ loader = Idle /\ PushError
  /\ UNCHANGED <<daemonVars, watched, events, watcher, loader, currentConfig,
                 chanConfigurationChanged, done, gameVars>>

WatcherFinishes ==
  /\ watcher \in Running /\ loader = Idle /\ done
  /\ watcher' = "finished"
  /\ UNCHANGED <<daemonVars, watched, events, loader, currentConfig,
                 chanConfigurationChanged, errors, done, gameVars>>

(* The game, which may call Config() when it is told of a change.          *)
OnConfigurationChanged ==
  /\ watcher # "panicked" /\ chanConfigurationChanged # <<>>
  /\ told' = Head(chanConfigurationChanged) /\ seen' = currentConfig
  /\ chanConfigurationChanged' = Tail(chanConfigurationChanged)
  /\ UNCHANGED <<daemonVars, watched, events, watcher, loader, currentConfig, errors, done>>

OnError ==
  /\ watcher # "panicked" /\ errors > 0 /\ errors' = errors - 1
  /\ UNCHANGED <<daemonVars, watched, events, watcher, loader, currentConfig,
                 chanConfigurationChanged, done, gameVars>>

Stop ==
  /\ watcher \in Running /\ ~done /\ done' = TRUE
  /\ UNCHANGED <<daemonVars, watched, events, watcher, loader, currentConfig,
                 chanConfigurationChanged, errors, gameVars>>

-----------------------------------------------------------------------------
Daemon == Truncate \/ WriteVersion \/ OtherChange
Load == OpenKnown \/ DecodeKnown \/ OpenExtra \/ DecodeExtra \/ LoadFindsEmpty
        \/ LoadIsSpliced \/ AssignConfig \/ PublishConfig
Watcher == AddWatch \/ TakeEvent \/ WatcherFinishes

Game == OnConfigurationChanged \/ OnError \/ Stop

Next == Daemon \/ Load \/ Watcher \/ WatchError \/ Game

Spec == Init /\ [][Next]_vars

(* The server's goroutines run, and a game that listens to the changes     *)
(* keeps listening. The daemon owes nothing, except that what it truncated *)
(* it writes: a truncation is the first of two writes.                     *)
FairSpec ==
  /\ Spec /\ WF_vars(Load) /\ WF_vars(Watcher) /\ WF_vars(OnConfigurationChanged)
  /\ WF_vars(WriteVersion)

-----------------------------------------------------------------------------
(* The state space.                                                        *)
TypeOK ==
  /\ file \in 0 .. MaxVersions /\ written \in 1 .. MaxVersions
  /\ watched \in 1 .. MaxVersions /\ noise \in 0 .. MaxNoise
  /\ events \in Seq({"write", "noise"})
  /\ watcher \in {"starting", "adding", "serving", "deaf", "panicked", "startFailed",
                  "finished"}
  /\ loader \in [at : {"idle", "open", "known", "seek", "extra", "loaded", "assigned"},
                 first : Nat, known : Nat, extra : Nat]
  /\ currentConfig \in Version /\ told \in Version /\ seen \in Version
  /\ chanConfigurationChanged \in Seq(Version) /\ Len(chanConfigurationChanged) <= 1
  /\ errors \in {0, 1} /\ done \in BOOLEAN

(* A configuration older than a version written under the watch, in either *)
(* half, is never left so: a write is still to be handled, or the load in  *)
(* progress has read nothing older than the file.                          *)
InForce(v) == currentConfig.known >= v /\ currentConfig.extra >= v
WritePending == \E i \in 1 .. Len(events) : events[i] = "write"
LoadIsFresh ==
  CASE loader.at = "open"              -> TRUE
    [] loader.at = "known"             -> loader.first = file
    [] loader.at = "seek"              -> loader.known = file
    [] loader.at = "extra"             -> loader.known = file /\ loader.first = file
    [] loader.at \in {"loaded", "assigned"} ->
         loader.known = file /\ loader.extra = file
    [] OTHER                           -> FALSE
StaleIsPending ==
  (/\ watcher = "serving" /\ file > watched
   /\ ~InForce(file))
    => WritePending \/ LoadIsFresh

(* The game is never told of a configuration newer than Config() returns,  *)
(* nor told to go back to an older one.                                    *)
ToldNotAhead ==
  /\ told.known <= currentConfig.known /\ told.extra <= currentConfig.extra
  /\ \A i \in 1 .. Len(chanConfigurationChanged) :
       /\ told.known <= chanConfigurationChanged[i].known
       /\ chanConfigurationChanged[i].known <= currentConfig.known

(* The channel drops configurations but never the news: a game that calls  *)
(* Config() whenever it is told of a change has the configuration in       *)
(* force, or will be told again.                                           *)
NoLostWakeup ==
  seen = currentConfig \/ chanConfigurationChanged # <<>> \/ loader.at = "assigned"

(* What the channel holds and what it leaves out together: the game never  *)
(* goes back, and never misses the last change.                            *)
NewsIsTrue == ToldNotAhead /\ NoLostWakeup

(* This is what ConfigFeed promises: the game has a change to read as long *)
(* as one waits in the channel or is about to be sent, and the feed ends   *)
(* where the process does.                                                 *)
Feed == INSTANCE ConfigFeed WITH
          Versions <- 1 .. MaxVersions, written <- written, config <- currentConfig,
          unread <- chanConfigurationChanged # <<>> \/ loader.at = "assigned",
          down <- watcher = "panicked"
ImplementsFeed == Feed!LiveSpec

(* A version written under a watch that came into being is in force        *)
(* eventually, or a later one, unless the server stops.                    *)
WatchedFileIsFollowed ==
  \A v \in 2 .. MaxVersions :
    (file = v /\ v > watched /\ watcher = "serving") ~> (InForce(v) \/ done)

(* The same of any version written after Start read the file.              *)
FileIsFollowed ==
  \A v \in 2 .. MaxVersions :
    (file = v /\ currentConfig # Nothing) ~> (InForce(v) \/ done)
=============================================================================
