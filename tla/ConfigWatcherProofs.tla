------------------------- MODULE ConfigWatcherProofs -------------------------
(***************************************************************************)
(* That the configuration follows server.json and the game hears of it,    *)
(* for every number of versions and of notifications, and that the watcher *)
(* implements ConfigFeed.                                                  *)
(***************************************************************************)
EXTENDS ConfigWatcher, TLAPS

(* What is in the file and when the watch began.                           *)
FileInOrder ==
  /\ file # Empty => file = written
  /\ file = Empty => written < MaxVersions
  /\ watched <= written
  /\ watcher \in {"starting", "adding"} => watched = written

(* A load meets the versions in the order in which they were written, and  *)
(* starts from one that is not older than the configuration in force.      *)
LoadInOrder ==
  /\ currentConfig.known <= currentConfig.extra /\ currentConfig.extra <= written
  /\ loader.at = "known" =>
       /\ 1 <= loader.first
       /\ currentConfig.extra <= loader.first /\ loader.first <= written
  /\ loader.at = "seek" =>
       /\ 1 <= loader.known
       /\ currentConfig.extra <= loader.known /\ loader.known <= written
  /\ loader.at = "extra" =>
       /\ 1 <= loader.known /\ currentConfig.extra <= loader.known
       /\ loader.known <= loader.first /\ loader.first <= written
  /\ loader.at = "loaded" =>
       /\ 1 <= loader.known /\ currentConfig.extra <= loader.known
       /\ loader.known <= loader.extra /\ loader.extra <= written
  /\ loader.at = "assigned" =>
       loader.known = currentConfig.known /\ loader.extra = currentConfig.extra

(* What waits in the channel is not newer than the configuration in force. *)
ChannelNotAhead ==
  \A i \in 1 .. Len(chanConfigurationChanged) :
    chanConfigurationChanged[i].extra <= currentConfig.extra

(* Between Start's load and the loop nothing is loaded, nor after a panic. *)
NoLoad == watcher \in {"adding", "panicked"} => loader.at = "idle"

(* The inductive invariant.                                                *)
OrderInv == TypeOK /\ FileInOrder /\ LoadInOrder
IInv == OrderInv /\ NoLoad /\ ChannelNotAhead /\ NewsIsTrue /\ StaleIsPending

(* The states of the watcher and of a load, named for the provers.         *)
Watchers == {"starting", "adding", "serving", "deaf", "panicked", "startFailed", "finished"}
Loads == [at : {"idle", "open", "known", "seek", "extra", "loaded", "assigned"},
          first : Nat, known : Nat, extra : Nat]

(* The inductive invariant holds at the start.                             *)
LEMMA InitIInv == Init => IInv
<1> SUFFICES ASSUME Init PROVE IInv
  OBVIOUS
<1>1. done \in BOOLEAN
  BY DEF Init
<1>2. TypeOK
  BY <1>1, BoundsAssumption DEF Init, TypeOK, Open, At, Nothing, Version
<1>3. FileInOrder /\ LoadInOrder
  BY DEF Init, FileInOrder, LoadInOrder, Empty, Open, At, Nothing
<1>4. ChannelNotAhead /\ NewsIsTrue
  BY DEF Init, ChannelNotAhead, NewsIsTrue, ToldNotAhead, NoLostWakeup, Nothing
<1>5. StaleIsPending /\ NoLoad
  BY DEF Init, StaleIsPending, NoLoad
<1>6. QED
  BY <1>2, <1>3, <1>4, <1>5 DEF IInv, OrderInv

(* The types; a notification is at most appended.                          *)
LEMMA TypeStep == OrderInv /\ Next => TypeOK'
<1> SUFFICES ASSUME OrderInv, Next PROVE TypeOK'
  OBVIOUS
<1> USE DEF OrderInv, TypeOK, daemonVars, gameVars
<1>1. ASSUME NEW e \in {"write", "noise"}, Notify(e) PROVE events' \in Seq({"write", "noise"})
  <2>1. events \in Seq({"write", "noise"})
    OBVIOUS
  <2>2. Append(events, e) \in Seq({"write", "noise"})
    BY <2>1
  <2>3. events' = events \/ events' = Append(events, e)
    BY <1>1 DEF Notify
  <2>4. QED
    BY <2>1, <2>2, <2>3
<1>2. CASE Truncate \/ WriteVersion \/ OtherChange
  <2>1. events' \in Seq({"write", "noise"})
    BY <1>1, <1>2 DEF Truncate, WriteVersion, OtherChange
  <2>2. file' \in 0 .. MaxVersions /\ written' \in 1 .. MaxVersions
    BY <1>2, BoundsAssumption, SMTT(20) DEF Truncate, WriteVersion, OtherChange, FileInOrder, Empty
  <2>3. watched' \in 1 .. MaxVersions
    BY <1>2, BoundsAssumption DEF Truncate, WriteVersion, OtherChange, FileInOrder, Empty
  <2>4. noise' \in 0 .. MaxNoise
    BY <1>2, BoundsAssumption, SMTT(20) DEF Truncate, WriteVersion, OtherChange
  <2>5. UNCHANGED <<watcher, loader, currentConfig, chanConfigurationChanged, errors,
                    done,
                    gameVars>>
    BY <1>2 DEF Truncate, WriteVersion, OtherChange
  <2>6. QED
    BY <2>1, <2>2, <2>3, <2>4, <2>5
<1>3. CASE OpenKnown \/ DecodeKnown \/ OpenExtra \/ DecodeExtra
  <2>1. file \in Nat /\ loader \in Loads
    BY DEF Loads
  <2>2. loader' \in Loads
    BY <1>3, <2>1 DEF OpenKnown, OpenExtra, ReadFirst, DecodeKnown, DecodeExtra, Loads
  <2>3. UNCHANGED <<daemonVars, watched, events, watcher, currentConfig,
                    chanConfigurationChanged, errors, done, gameVars>>
    BY <1>3 DEF OpenKnown, OpenExtra, ReadFirst, DecodeKnown, DecodeExtra
  <2>4. QED
    BY <2>2, <2>3 DEF Loads
<1>4. CASE LoadFindsEmpty \/ LoadIsSpliced
  <2>1. loader' \in Loads /\ errors' \in {0, 1}
    BY <1>4 DEF LoadFindsEmpty, LoadIsSpliced, GiveUp, PushError, Idle, At, Loads
  <2>2. watcher' \in Watchers
    BY <1>4 DEF LoadFindsEmpty, LoadIsSpliced, GiveUp, Watchers
  <2>3. UNCHANGED <<daemonVars, watched, events, currentConfig, chanConfigurationChanged,
                    done, gameVars>>
    BY <1>4 DEF LoadFindsEmpty, LoadIsSpliced, GiveUp
  <2>4. QED
    BY <2>1, <2>2, <2>3 DEF Loads, Watchers
<1>5. CASE AssignConfig
  <2>1. loader' \in Loads /\ currentConfig' \in Version
    BY <1>5 DEF AssignConfig, Loads, Version
  <2>2. UNCHANGED <<daemonVars, watched, events, watcher, chanConfigurationChanged,
                    errors,
                    done, gameVars>>
    BY <1>5 DEF AssignConfig
  <2>3. QED
    BY <2>1, <2>2 DEF Loads
<1>6. CASE PublishConfig
  <2>1. loader' \in Loads
    BY <1>6 DEF PublishConfig, Idle, At, Loads
  <2>2. chanConfigurationChanged' \in Seq(Version) /\ Len(chanConfigurationChanged') <= 1
    <3>1. [known |-> loader.known, extra |-> loader.extra] \in Version
      BY DEF Version
    <3>2. QED
      BY <1>6, <3>1 DEF PublishConfig
  <2>3. watcher' \in Watchers
    BY <1>6 DEF PublishConfig, Watchers
  <2>4. UNCHANGED <<daemonVars, watched, events, currentConfig, errors, done, gameVars>>
    BY <1>6 DEF PublishConfig
  <2>5. QED
    BY <2>1, <2>2, <2>3, <2>4 DEF Loads, Watchers
<1>7. CASE AddWatch
  BY <1>7 DEF AddWatch
<1>8. CASE TakeEvent
  <2>1. loader' \in Loads /\ events' \in Seq({"write", "noise"})
    BY <1>8 DEF TakeEvent, Idle, Open, At, Loads
  <2>2. UNCHANGED <<daemonVars, watched, watcher, currentConfig, chanConfigurationChanged,
                    errors, done, gameVars>>
    BY <1>8 DEF TakeEvent
  <2>3. QED
    BY <2>1, <2>2 DEF Loads
<1>9. CASE WatcherFinishes \/ WatchError \/ OnError \/ Stop
  <2>1. done' \in BOOLEAN
    BY <1>9 DEF WatcherFinishes, WatchError, OnError, Stop
  <2>2. errors' \in {0, 1}
    BY <1>9 DEF WatcherFinishes, WatchError, OnError, Stop, PushError
  <2>3. watcher' \in Watchers
    BY <1>9 DEF WatcherFinishes, WatchError, OnError, Stop, Watchers
  <2>4. UNCHANGED <<daemonVars, watched, events, loader, currentConfig,
                    chanConfigurationChanged, gameVars>>
    BY <1>9 DEF WatcherFinishes, WatchError, OnError, Stop
  <2>5. QED
    BY <2>1, <2>2, <2>3, <2>4 DEF Watchers
<1>10. CASE OnConfigurationChanged
  <2>1. told' \in Version /\ seen' \in Version
    BY <1>10 DEF OnConfigurationChanged
  <2>2. chanConfigurationChanged' \in Seq(Version) /\ Len(chanConfigurationChanged') <= 1
    BY <1>10 DEF OnConfigurationChanged
  <2>3. UNCHANGED <<daemonVars, watched, events, watcher, loader, currentConfig, errors,
                    done>>
    BY <1>10 DEF OnConfigurationChanged
  <2>4. QED
    BY <2>1, <2>2, <2>3
<1>11. QED
  BY <1>2, <1>3, <1>4, <1>5, <1>6, <1>7, <1>8, <1>9, <1>10
     DEF Next, Daemon, Load, Watcher, Game

(* The file and the loads move forward through the versions.               *)
LEMMA OrderStep == OrderInv /\ Next => FileInOrder' /\ LoadInOrder'
<1> SUFFICES ASSUME OrderInv, Next PROVE FileInOrder' /\ LoadInOrder'
  OBVIOUS
<1>0. /\ file \in Nat /\ written \in Nat /\ watched \in Nat /\ loader \in Loads
      /\ currentConfig \in Version /\ FileInOrder /\ LoadInOrder /\ 1 <= written
  BY DEF OrderInv, TypeOK, Loads
<1> USE DEF FileInOrder, LoadInOrder, Empty, daemonVars
<1>1. CASE Truncate \/ WriteVersion \/ OtherChange
  BY <1>0, <1>1, BoundsAssumption DEF Truncate, WriteVersion, OtherChange, Loads, Version
<1>2. CASE OpenKnown \/ DecodeKnown \/ OpenExtra \/ DecodeExtra
  <2>1. FileInOrder'
    BY <1>0, <1>2 DEF OpenKnown, OpenExtra, ReadFirst, DecodeKnown, DecodeExtra
  <2>2. CASE OpenKnown
    BY <1>0, <2>2 DEF OpenKnown, ReadFirst, Loads, Version
  <2>3. CASE DecodeKnown
    BY <1>0, <2>3 DEF DecodeKnown, Loads, Version
  <2>4. CASE OpenExtra
    BY <1>0, <2>4 DEF OpenExtra, ReadFirst, Loads, Version
  <2>5. CASE DecodeExtra
    BY <1>0, <2>5 DEF DecodeExtra, Loads, Version
  <2>6. QED
    BY <1>2, <2>1, <2>2, <2>3, <2>4, <2>5
<1>3. CASE LoadFindsEmpty \/ LoadIsSpliced
  BY <1>0, <1>3 DEF LoadFindsEmpty, LoadIsSpliced, GiveUp, Idle, At
<1>4. CASE AssignConfig
  BY <1>0, <1>4 DEF AssignConfig, Loads, Version
<1>5. CASE PublishConfig
  BY <1>0, <1>5 DEF PublishConfig, Idle, At
<1>6. CASE AddWatch
  BY <1>0, <1>6 DEF AddWatch
<1>7. CASE TakeEvent
  BY <1>0, <1>7 DEF TakeEvent, Idle, Open, At
<1>8. CASE WatcherFinishes \/ WatchError \/ OnError \/ Stop
  BY <1>0, <1>8 DEF WatcherFinishes, WatchError, OnError, Stop
<1>9. CASE OnConfigurationChanged
  BY <1>0, <1>9 DEF OnConfigurationChanged
<1>10. QED
  BY <1>1, <1>2, <1>3, <1>4, <1>5, <1>6, <1>7, <1>8, <1>9
     DEF Next, Daemon, Load, Watcher, Game

(* Loads are made by Start and by the loop.                                *)
LEMMA NoLoadStep == OrderInv /\ NoLoad /\ Next => NoLoad'
<1> SUFFICES ASSUME OrderInv, NoLoad, Next PROVE NoLoad'
  OBVIOUS
<1>1. loader \in Loads
  BY DEF OrderInv, TypeOK, Loads
<1> USE DEF NoLoad
<1>2. CASE Daemon
  BY <1>2 DEF Daemon, Truncate, WriteVersion, OtherChange
<1>3. CASE OpenKnown \/ DecodeKnown \/ OpenExtra \/ DecodeExtra \/ AssignConfig
  BY <1>3 DEF OpenKnown, OpenExtra, ReadFirst, DecodeKnown, DecodeExtra, AssignConfig
<1>4. CASE LoadFindsEmpty \/ LoadIsSpliced \/ PublishConfig
  BY <1>4 DEF LoadFindsEmpty, LoadIsSpliced, GiveUp, PublishConfig, Idle, At
<1>5. CASE Watcher \/ WatchError \/ Game
  BY <1>5 DEF Watcher, AddWatch, TakeEvent, WatcherFinishes, WatchError, Game,
              OnConfigurationChanged, OnError, Stop
<1>6. QED
  BY <1>2, <1>3, <1>4, <1>5 DEF Next, Load

(* The game is told what is, or was, in force, and it is told of the last  *)
(* change.                                                                 *)
LEMMA NewsStep == IInv /\ Next => ChannelNotAhead' /\ NewsIsTrue'
<1> SUFFICES ASSUME IInv, Next PROVE ChannelNotAhead' /\ NewsIsTrue'
  OBVIOUS
<1>0. /\ loader \in Loads /\ currentConfig \in Version /\ told \in Version
      /\ chanConfigurationChanged \in Seq(Version) /\ Len(chanConfigurationChanged) <= 1
      /\ LoadInOrder /\ ChannelNotAhead /\ ToldNotAhead /\ NoLostWakeup
  BY DEF IInv, OrderInv, TypeOK, Loads, NewsIsTrue
<1> USE DEF ChannelNotAhead, NewsIsTrue, ToldNotAhead, NoLostWakeup
<1>1. ASSUME UNCHANGED <<currentConfig, chanConfigurationChanged, gameVars>>,
             loader.at = "assigned" => loader'.at = "assigned"
      PROVE  ChannelNotAhead' /\ NewsIsTrue'
  BY <1>0, <1>1 DEF gameVars
<1>2. CASE Truncate \/ WriteVersion \/ OtherChange
  BY <1>1, <1>2 DEF Truncate, WriteVersion, OtherChange
<1>3. CASE OpenKnown \/ DecodeKnown \/ OpenExtra \/ DecodeExtra
  BY <1>1, <1>3 DEF OpenKnown, OpenExtra, ReadFirst, DecodeKnown, DecodeExtra
<1>4. CASE LoadFindsEmpty \/ LoadIsSpliced
  BY <1>1, <1>4 DEF LoadFindsEmpty, LoadIsSpliced, GiveUp
<1>5. CASE AssignConfig
  <2>1. /\ UNCHANGED <<chanConfigurationChanged, gameVars>> /\ loader'.at = "assigned"
        /\ currentConfig' = [known |-> loader.known, extra |-> loader.extra]
    BY <1>0, <1>5 DEF AssignConfig, Loads
  <2>2. /\ currentConfig.known <= currentConfig'.known
        /\ currentConfig.extra <= currentConfig'.extra
        /\ currentConfig' \in Version
    BY <1>0, <1>5, <2>1 DEF AssignConfig, LoadInOrder, Loads, Version
  <2>3. \A i \in 1 .. Len(chanConfigurationChanged) : chanConfigurationChanged[i] \in Version
    BY <1>0
  <2>4. QED
    BY <1>0, <2>1, <2>2, <2>3, SMTT(20) DEF gameVars, Version
<1>6. CASE PublishConfig
  <2>1. /\ UNCHANGED <<currentConfig, gameVars>>
        /\ currentConfig = [known |-> loader.known, extra |-> loader.extra]
    BY <1>0, <1>6 DEF PublishConfig, LoadInOrder, Version
  <2>2. CASE chanConfigurationChanged = <<>>
    <3>1. chanConfigurationChanged' = <<currentConfig>>
      BY <1>6, <2>1, <2>2 DEF PublishConfig
    <3>2. /\ Len(chanConfigurationChanged') = 1 /\ chanConfigurationChanged' # <<>>
          /\ chanConfigurationChanged'[1] = currentConfig
      BY <3>1
    <3>3. QED
      BY <1>0, <2>1, <3>2 DEF gameVars, Version
  <2>3. CASE chanConfigurationChanged # <<>>
    <3>1. UNCHANGED chanConfigurationChanged
      BY <1>6, <2>3 DEF PublishConfig
    <3>2. QED
      BY <1>0, <2>1, <2>3, <3>1 DEF gameVars
  <2>4. QED
    BY <2>2, <2>3
<1>7. CASE AddWatch
  BY <1>1, <1>7 DEF AddWatch
<1>8. CASE TakeEvent
  BY <1>1, <1>8 DEF TakeEvent, Idle, At
<1>9. CASE WatcherFinishes \/ WatchError \/ OnError \/ Stop
  BY <1>1, <1>9 DEF WatcherFinishes, WatchError, OnError, Stop
<1>10. CASE OnConfigurationChanged
  <2>1. /\ told' = chanConfigurationChanged[1] /\ seen' = currentConfig
        /\ chanConfigurationChanged' = <<>> /\ UNCHANGED currentConfig
        /\ 1 \in 1 .. Len(chanConfigurationChanged)
    BY <1>0, <1>10 DEF OnConfigurationChanged
  <2>2. told'.known <= currentConfig.known /\ told'.extra <= currentConfig.extra
    BY <1>0, <2>1
  <2>3. QED
    BY <2>1, <2>2
<1>11. QED
  BY <1>2, <1>3, <1>4, <1>5, <1>6, <1>7, <1>8, <1>9, <1>10
     DEF Next, Daemon, Load, Watcher, Game

(* A write still to be handled stays so until it is taken.                 *)
LEMMA Notified ==
  ASSUME events \in Seq({"write", "noise"}), watcher = "serving",
         NEW e \in {"write", "noise"}, Notify(e)
  PROVE  (WritePending => WritePending') /\ (e = "write" => WritePending')
<1>1. CASE events' = Append(events, e)
  <2>1. /\ Len(events') = Len(events) + 1 /\ events'[Len(events) + 1] = e
        /\ \A i \in 1 .. Len(events) : events'[i] = events[i]
        /\ Len(events) \in Nat
    BY <1>1
  <2>2. QED
    BY <2>1 DEF WritePending
<1>2. CASE events # <<>> /\ events[Len(events)] = e /\ UNCHANGED events
  <2>1. Len(events) \in 1 .. Len(events)
    BY <1>2
  <2>2. QED
    BY <1>2, <2>1 DEF WritePending
<1>3. QED
  BY <1>1, <1>2 DEF Notify

(* What makes a configuration stale also leaves a write to handle, and a   *)
(* load that handles it is as new as the file or becomes stale in turn.    *)
LEMMA StaleStep == IInv /\ Next => StaleIsPending'
<1> SUFFICES ASSUME IInv, Next, watcher' = "serving", file' > watched', ~InForce(file)'
             PROVE  WritePending' \/ LoadIsFresh'
  BY DEF StaleIsPending
<1>0. /\ file \in Nat /\ written \in Nat /\ watched \in Nat /\ 1 <= watched
      /\ loader \in Loads /\ currentConfig \in Version
      /\ events \in Seq({"write", "noise"})
      /\ FileInOrder /\ LoadInOrder /\ StaleIsPending
  BY DEF IInv, OrderInv, TypeOK, Loads
<1>1. CASE Truncate \/ WriteVersion
  <2>1. ~Truncate
    BY <1>0 DEF Truncate, Empty
  <2>2. WriteVersion /\ watcher = "serving" /\ Notify("write")
    BY <1>1, <2>1 DEF WriteVersion
  <2>3. QED
    BY <1>0, <2>2, Notified
<1>2. ASSUME UNCHANGED <<daemonVars, watched, watcher, events, currentConfig>>,
             LoadIsFresh => LoadIsFresh'
      PROVE  WritePending' \/ LoadIsFresh'
  BY <1>0, <1>2 DEF StaleIsPending, InForce, WritePending, daemonVars
<1>3. CASE OtherChange
  <2>1. UNCHANGED <<file, watched, watcher, currentConfig, loader>> /\ Notify("noise")
    BY <1>3 DEF OtherChange
  <2>2. WritePending \/ LoadIsFresh
    BY <1>0, <2>1 DEF StaleIsPending, InForce
  <2>3. LoadIsFresh => LoadIsFresh'
    BY <2>1 DEF LoadIsFresh
  <2>4. QED
    BY <1>0, <2>1, <2>2, <2>3, Notified
<1>4. CASE OpenKnown \/ DecodeKnown \/ OpenExtra \/ DecodeExtra
  <2>1. UNCHANGED <<daemonVars, watched, watcher, events, currentConfig>>
    BY <1>4 DEF OpenKnown, OpenExtra, ReadFirst, DecodeKnown, DecodeExtra
  <2>2. CASE OpenKnown
    BY <1>0, <1>2, <2>1, <2>2 DEF OpenKnown, ReadFirst, LoadIsFresh, Loads, daemonVars
  <2>3. CASE DecodeKnown
    BY <1>0, <1>2, <2>1, <2>3 DEF DecodeKnown, LoadIsFresh, Loads, daemonVars
  <2>4. CASE OpenExtra
    BY <1>0, <1>2, <2>1, <2>4 DEF OpenExtra, ReadFirst, LoadIsFresh, Loads, daemonVars
  <2>5. CASE DecodeExtra
    BY <1>0, <1>2, <2>1, <2>5 DEF DecodeExtra, LoadIsFresh, Loads, daemonVars
  <2>6. QED
    BY <1>4, <2>2, <2>3, <2>4, <2>5
<1>5. CASE LoadFindsEmpty
  BY <1>0, <1>5 DEF LoadFindsEmpty, GiveUp, Empty, daemonVars
<1>6. CASE LoadIsSpliced
  <2>1. UNCHANGED <<daemonVars, watched, watcher, events, currentConfig>>
    BY <1>6 DEF LoadIsSpliced, GiveUp
  <2>2. ~LoadIsFresh
    BY <1>6 DEF LoadIsSpliced, LoadIsFresh
  <2>3. QED
    BY <1>2, <2>1, <2>2
<1>7. CASE AssignConfig
  <2>1. UNCHANGED <<daemonVars, watched, watcher, events>>
    BY <1>7 DEF AssignConfig
  <2>2. InForce(file) => InForce(file)'
    BY <1>0, <1>7, <2>1 DEF AssignConfig, InForce, LoadInOrder, Loads, Version, daemonVars
  <2>3. LoadIsFresh => LoadIsFresh'
    BY <1>0, <1>7, <2>1 DEF AssignConfig, LoadIsFresh, Loads, daemonVars
  <2>4. QED
    BY <1>0, <2>1, <2>2, <2>3 DEF StaleIsPending, WritePending, daemonVars
<1>8. CASE PublishConfig
  <2>1. UNCHANGED <<daemonVars, watched, events, currentConfig>> /\ loader.at = "assigned"
    BY <1>8 DEF PublishConfig
  <2>2. watcher = "serving"
    BY <1>8 DEF PublishConfig
  <2>3. ~LoadIsFresh
    BY <1>0, <2>1 DEF LoadIsFresh, LoadInOrder, InForce, Version, daemonVars
  <2>4. QED
    BY <1>0, <2>1, <2>2, <2>3 DEF StaleIsPending, InForce, WritePending, daemonVars
<1>9. CASE AddWatch
  BY <1>0, <1>9 DEF AddWatch, FileInOrder, Empty, daemonVars
<1>10. CASE TakeEvent
  <2>1. /\ UNCHANGED <<daemonVars, watched, watcher, currentConfig>> /\ loader = Idle
        /\ events' = Tail(events) /\ events # <<>>
        /\ loader' = IF Head(events) = "write" THEN Open ELSE Idle
    BY <1>10 DEF TakeEvent
  <2>2. CASE Head(events) = "write"
    BY <2>1, <2>2 DEF LoadIsFresh, Open, At
  <2>3. CASE Head(events) # "write"
    <3>1. WritePending
      BY <1>0, <2>1 DEF StaleIsPending, InForce, LoadIsFresh, Idle, At, daemonVars
    <3>2. PICK i \in 1 .. Len(events) : events[i] = "write"
      BY <3>1 DEF WritePending
    <3>3. i # 1
      BY <1>0, <2>1, <2>3, <3>2
    <3>4. i - 1 \in 1 .. Len(events') /\ events'[i - 1] = "write"
      BY <1>0, <2>1, <3>2, <3>3
    <3>5. QED
      BY <3>4 DEF WritePending
  <2>4. QED
    BY <2>2, <2>3
<1>11. CASE WatcherFinishes \/ WatchError \/ OnError \/ Stop
  <2>1. WatchError \/ OnError \/ Stop
    BY <1>11 DEF WatcherFinishes
  <2>2. UNCHANGED <<daemonVars, watched, watcher, events, currentConfig, loader>>
    BY <2>1 DEF WatchError, OnError, Stop
  <2>3. QED
    BY <1>2, <2>2 DEF LoadIsFresh, daemonVars
<1>12. CASE OnConfigurationChanged
  <2>1. UNCHANGED <<daemonVars, watched, watcher, events, currentConfig, loader>>
    BY <1>12 DEF OnConfigurationChanged
  <2>2. QED
    BY <1>2, <2>1 DEF LoadIsFresh, daemonVars
<1>13. QED
  BY <1>1, <1>3, <1>4, <1>5, <1>6, <1>7, <1>8, <1>9, <1>10, <1>11, <1>12
     DEF Next, Daemon, Load, Watcher, Game

(* Every step preserves the inductive invariant.                           *)
LEMMA StepIInv == IInv /\ [Next]_vars => IInv'
<1> SUFFICES ASSUME IInv, [Next]_vars PROVE IInv'
  OBVIOUS
<1>1. CASE UNCHANGED vars
  <2>1. TypeOK'
    BY <1>1 DEF IInv, OrderInv, TypeOK, vars, daemonVars, gameVars
  <2>2. FileInOrder' /\ LoadInOrder' /\ ChannelNotAhead'
    BY <1>1 DEF IInv, OrderInv, FileInOrder, LoadInOrder, ChannelNotAhead, vars,
       daemonVars
  <2>3. NewsIsTrue'
    BY <1>1 DEF IInv, NewsIsTrue, ToldNotAhead, NoLostWakeup, vars, gameVars
  <2>4. StaleIsPending'
    BY <1>1 DEF IInv, StaleIsPending, InForce, WritePending, LoadIsFresh, vars, daemonVars
  <2>5. NoLoad'
    BY <1>1 DEF IInv, NoLoad, vars
  <2>6. QED
    BY <2>1, <2>2, <2>3, <2>4, <2>5 DEF IInv, OrderInv
<1>2. CASE Next
  BY <1>2, TypeStep, OrderStep, NoLoadStep, NewsStep, StaleStep DEF IInv, OrderInv
<1>3. QED
  BY <1>1, <1>2

(* So it holds always.                                                     *)
LEMMA AlwaysIInv == Spec => []IInv
BY InitIInv, StepIInv, PTL DEF Spec

-----------------------------------------------------------------------------
(* The file, the load, the channel and the notifications keep their types. *)
THEOREM TypeCorrect == Spec => []TypeOK
<1>1. IInv => TypeOK
  BY DEF IInv, OrderInv
<1>2. QED
  BY <1>1, AlwaysIInv, PTL

(* Under the watch a stale configuration is never left so: a write is      *)
(* still to be handled, or the load in progress is as new as the file.     *)
THEOREM StaleIsPendingHolds == Spec => []StaleIsPending
<1>1. IInv => StaleIsPending
  BY DEF IInv
<1>2. QED
  BY <1>1, AlwaysIInv, PTL

(* The game is never told of what Config() does not return yet, never goes *)
(* back, and the last change is never dropped with the message.            *)
THEOREM NewsIsTrueHolds == Spec => []NewsIsTrue
<1>1. IInv => NewsIsTrue
  BY DEF IInv
<1>2. QED
  BY <1>1, AlwaysIInv, PTL

(* The watcher and its channel implement what ConfigFeed promises: the     *)
(* configuration moves forward through the versions, its known fields      *)
(* between the Extra before and its own, and each change is still to be    *)
(* told or has been.                                                       *)
THEOREM ImplementsFeedSafely == Spec => Feed!Spec
<1>1. Init => Feed!Init
  BY DEF Init, Feed!Init, Nothing, Open, At
<1>2. IInv /\ [Next]_vars => [Feed!Next]_Feed!feedVars
  <2> SUFFICES ASSUME IInv, [Next]_vars PROVE [Feed!Next]_Feed!feedVars
    OBVIOUS
  <2> DEFINE unread == chanConfigurationChanged # <<>> \/ loader.at = "assigned"
  <2>0. /\ loader \in Loads /\ written \in 1 .. MaxVersions /\ MaxVersions \in Nat
        /\ chanConfigurationChanged \in Seq(Version) /\ Len(chanConfigurationChanged) <= 1
        /\ FileInOrder /\ LoadInOrder /\ NoLoad
    BY BoundsAssumption DEF IInv, OrderInv, TypeOK, Loads
  <2>1. ASSUME UNCHANGED <<written, currentConfig, chanConfigurationChanged>>,
               loader.at = "assigned" <=> loader'.at = "assigned",
               watcher = "panicked" <=> watcher' = "panicked"
        PROVE  UNCHANGED Feed!feedVars
    BY <2>1 DEF Feed!feedVars
  <2>2. CASE UNCHANGED vars
    BY <2>1, <2>2 DEF vars, daemonVars
  <2>3. CASE WriteVersion
    BY <2>0, <2>3 DEF WriteVersion, FileInOrder, Feed!Next, Feed!Write
  <2>4. CASE Truncate \/ OtherChange
    BY <2>1, <2>4 DEF Truncate, OtherChange
  <2>5. CASE OpenKnown \/ DecodeKnown \/ OpenExtra \/ DecodeExtra
    BY <2>0, <2>1, <2>5 DEF OpenKnown, OpenExtra, ReadFirst, DecodeKnown, DecodeExtra,
       Loads,
                            daemonVars
  <2>6. CASE LoadFindsEmpty \/ LoadIsSpliced
    BY <2>0, <2>1, <2>6 DEF LoadFindsEmpty, LoadIsSpliced, GiveUp, Idle, At, daemonVars
  <2>7. CASE AssignConfig
    <3>1. /\ loader'.at = "assigned" /\ UNCHANGED <<written, watcher>>
          /\ watcher # "panicked"
      BY <2>0, <2>7 DEF AssignConfig, NoLoad, Loads, daemonVars
    <3>2. loader.known \in 1 .. MaxVersions /\ loader.extra \in 1 .. MaxVersions
      BY <2>0, <2>7 DEF AssignConfig, LoadInOrder, Loads
    <3>3. Feed!Follow(loader.known, loader.extra)
      BY <2>0, <2>7, <3>1 DEF AssignConfig, LoadInOrder, Feed!Follow
    <3>4. QED
      BY <3>2, <3>3 DEF Feed!Next
  <2>8. CASE PublishConfig
    <3>1. loader.at = "assigned" /\ UNCHANGED <<written, currentConfig>>
      BY <2>8 DEF PublishConfig, daemonVars
    <3>2. /\ chanConfigurationChanged' # <<>>
          /\ watcher = "panicked" <=> watcher' = "panicked"
      BY <2>8 DEF PublishConfig
    <3>3. QED
      BY <3>1, <3>2 DEF Feed!feedVars
  <2>9. CASE WatcherFinishes \/ WatchError \/ OnError \/ Stop
    BY <2>1, <2>9 DEF WatcherFinishes, WatchError, OnError, Stop, daemonVars, Running
  <2>10. CASE TakeEvent
    BY <2>1, <2>10 DEF TakeEvent, Idle, Open, At, daemonVars
  <2>11. CASE OnConfigurationChanged
    <3>1. /\ chanConfigurationChanged # <<>> /\ chanConfigurationChanged' = <<>>
          /\ watcher # "panicked" /\ UNCHANGED <<written, currentConfig, loader, watcher>>
      BY <2>0, <2>11 DEF OnConfigurationChanged, daemonVars
    <3>2. CASE loader.at = "assigned"
      BY <3>1, <3>2 DEF Feed!feedVars
    <3>3. CASE loader.at # "assigned"
      BY <3>1, <3>3 DEF Feed!Next, Feed!Tell
    <3>4. QED
      BY <3>2, <3>3
  <2>12. CASE AddWatch
    <3>1. /\ watcher # "panicked"
          /\ UNCHANGED <<written, currentConfig, chanConfigurationChanged, loader>>
      BY <2>12 DEF AddWatch, daemonVars
    <3>2. CASE watcher' = "panicked"
      BY <3>1, <3>2 DEF Feed!Next, Feed!Fall
    <3>3. CASE watcher' # "panicked"
      BY <2>1, <3>1, <3>3
    <3>4. QED
      BY <3>2, <3>3
  <2>13. QED
    BY <2>2, <2>3, <2>4, <2>5, <2>6, <2>7, <2>8, <2>9, <2>10, <2>11, <2>12
       DEF Next, Daemon, Load, Watcher, Game
<1>3. QED
  BY <1>1, <1>2, AlwaysIInv, PTL DEF Spec, Feed!Spec
=============================================================================
