------------------------ MODULE ServerLifecycleProofs ------------------------
(***************************************************************************)
(* What Stop leaves behind and what it may break, for every choice of the  *)
(* faults of Start and wherever the goroutines are.                        *)
(***************************************************************************)
EXTENDS ServerLifecycle, TLAPS

(* Where a goroutine is between its wg.Add and its wg.Done.                *)
Bit(b) == IF b THEN 1 ELSE 0
WatcherCounted == watcher \in {"counted", "serving"}
ListenerCounted == listener \in {"connecting", "serving", "failed"}
QueryCounted ==
  query.at \in {"check", "deadline", "transfer", "waiting", "respond", "failed"}

(* The WaitGroup counts exactly those, as long as the process lives.       *)
Counted ==
  main # "crashed" => wg = Bit(WatcherCounted) + Bit(ListenerCounted) + Bit(QueryCounted)

(* Nothing runs before Start, nor after a crash.                           *)
Down ==
  /\ main = "new" => watcher = "none" /\ listener = "none" /\ query = NotSpawned
  /\ IF main = "crashed"
       THEN watcher = "crashed" /\ listener = "crashed" /\ query.at = "crashed"
       ELSE watcher # "crashed" /\ listener # "crashed" /\ query.at # "crashed"

(* A failed Read or Write has a cause.                                     *)
Caused == query.at = "failed" => query.err # "none"

(* The states of handleQuery and of the binding, named for the provers.    *)
QueryStates ==
  [at : {"none", "spawned", "check", "deadline", "transfer", "waiting", "respond", "failed",
         "finished", "crashed"},
   op : {"read", "write"}, err : {"none", "timeout", "transient", "closed"}]
Bindings == [done : BOOLEAN, conn : {"none", "open", "closed", "nil"}]

TypeInv == TypeOK /\ Counted /\ Down /\ Caused

(* Start does not return without an error before both watchers are         *)
(* counted, and they give the count back only when they end.               *)
Joinable ==
  /\ internalEventProcessorReady # "empty" => watcher \in {"serving", "finished", "crashed"}
  /\ eventWatcherReady = "nil" => listener \in {"serving", "finished", "crashed"}
  /\ ~startErr /\ main \notin {"new", "waitWatcher", "crashed"} =>
       watcher \in {"serving", "finished"}
  /\ ~startErr /\ main \notin {"new", "waitWatcher", "waitListener", "crashed"} =>
       listener \in {"serving", "finished"}
  /\ main \in {"new", "waitWatcher", "waitListener", "running"} => ~startErr
  /\ main = "startFailed" => startErr
  /\ watcher = "spawned" => main = "waitWatcher"

(* Close marks the binding done before it touches the connection; without  *)
(* a binding there is no handleQuery.                                      *)
Closing == {"closeConn", "clearConn", "publishing", "waiting", "stopped"}
DoneFirst ==
  /\ bind.conn \in {"closed", "nil"} => bind.done
  /\ bind.conn = "none" => query.at \in {"none", "crashed"}
  /\ main \in Closing => bind.done \/ bind.conn = "none"
  /\ main \in {"closeConn", "clearConn"} => bind.conn # "none"
  /\ query.err = "closed" => bind.done

(* After Stop handleQuery has not begun, or finds the binding done.        *)
Silent ==
  main = "stopped" => query.at \in {"none", "spawned", "check", "failed", "finished"}

(* What makes Stop clean.                                                  *)
StopInv == Joinable /\ DoneFirst /\ Silent /\ StopJoins /\ NoErrorOnStop

(* The inductive invariant.                                                *)
IInv == TypeInv /\ StopInv

(* The inductive invariant: initially, over every step, and so always.     *)
LEMMA InitIInv == Init => IInv
<1> SUFFICES ASSUME Init PROVE IInv
  OBVIOUS
<1>1. TypeOK
  <2>1. bind \in [done : BOOLEAN, conn : {"none", "open", "closed", "nil"}]
    BY DEF Init
  <2>2. startErr \in BOOLEAN /\ done \in BOOLEAN
    BY DEF Init
  <2>3. QED
    BY <2>1, <2>2 DEF Init, TypeOK, NotSpawned
<1>2. Counted
  BY DEF Init, Counted, Bit, WatcherCounted, ListenerCounted, QueryCounted, NotSpawned
<1>3. Down /\ Caused
  BY DEF Init, Down, Caused, NotSpawned
<1>4. Joinable
  BY DEF Init, Joinable
<1>5. DoneFirst
  BY DEF Init, Closing, DoneFirst, NotSpawned
<1>6. Silent /\ StopJoins /\ NoErrorOnStop
  BY DEF Init, Silent, StopJoins, NoErrorOnStop
<1>7. QED
  BY <1>1, <1>2, <1>3, <1>4, <1>5, <1>6 DEF IInv, TypeInv, StopInv

(* The types, the count and the causes, kept by Start.                     *)
LEMMA StartTypeInv == TypeInv /\ Start => TypeInv'
<1> SUFFICES ASSUME TypeInv, Start PROVE TypeInv'
  OBVIOUS
<1> USE DEF TypeInv, TypeOK, Counted, Down, Caused, Bit, WatcherCounted, ListenerCounted,
            QueryCounted, syncVars, NotSpawned
<1>1. CASE StartFails
  BY <1>1 DEF StartFails
<1>2. CASE StartSpawns
  <2>1. wg' \in 0 .. 3 /\ query' \in QueryStates /\ bind' \in Bindings
    BY <1>2 DEF StartSpawns, restartQueryEndpoint, At, Counted, QueryStates, Bindings
  <2>2. errors' \subseteq {"timeout", "transient", "closed", "respond"}
    BY <1>2 DEF StartSpawns, restartQueryEndpoint, At
  <2>3. TypeOK'
    BY <1>2, <2>1, <2>2 DEF StartSpawns, restartQueryEndpoint, At, QueryStates, Bindings
  <2>4. Counted'
    BY <1>2 DEF StartSpawns, restartQueryEndpoint, At, Counted
  <2>5. Down' /\ Caused'
    BY <1>2 DEF StartSpawns, restartQueryEndpoint, At
  <2>6. QED
    BY <2>3, <2>4, <2>5
<1>3. CASE StartSeesWatcher
  BY <1>3 DEF StartSeesWatcher
<1>4. CASE StartReturns
  BY <1>4 DEF StartReturns
<1>5. QED
  BY <1>1, <1>2, <1>3, <1>4 DEF Start

(* The types, kept by Stop, and by another one.                            *)
LEMMA StopTypeInv == TypeInv /\ Stop => TypeInv'
<1> SUFFICES ASSUME TypeInv, Stop PROVE TypeInv'
  OBVIOUS
<1> USE DEF TypeInv, TypeOK, Counted, Down, Caused, Bit, WatcherCounted, ListenerCounted,
            QueryCounted, syncVars, NotSpawned
<1>1. CASE CloseMarksDone
  <2>1. wg' \in 0 .. 3 /\ query' \in QueryStates /\ bind' \in Bindings
    BY <1>1 DEF CloseMarksDone, Counted, QueryStates, Bindings
  <2>2. errors' \subseteq {"timeout", "transient", "closed", "respond"}
    BY <1>1 DEF CloseMarksDone
  <2>3. TypeOK'
    BY <1>1, <2>1, <2>2 DEF CloseMarksDone, QueryStates, Bindings
  <2>4. Counted'
    BY <1>1 DEF CloseMarksDone, Counted
  <2>5. Down' /\ Caused'
    BY <1>1 DEF CloseMarksDone
  <2>6. QED
    BY <2>3, <2>4, <2>5
<1>2. CASE CloseConn
  BY <1>2 DEF CloseConn
<1>3. CASE CloseClearsConn
  BY <1>3 DEF CloseClearsConn
<1>4. CASE StopPublishes
  <2>1. wg' \in 0 .. 3 /\ query' \in QueryStates /\ bind' \in Bindings
    BY <1>4 DEF StopPublishes, Crash, Counted, QueryStates, Bindings
  <2>2. errors' \subseteq {"timeout", "transient", "closed", "respond"}
    BY <1>4 DEF StopPublishes, Crash
  <2>3. TypeOK'
    <3>1. query' \in QueryStates /\ bind' \in Bindings /\ wg' \in 0 .. 3
      BY <2>1, Zenon
    <3>2. /\ main' \in {"crashed", "waiting"} /\ done' \in BOOLEAN
          /\ chanDeallocated' = 1
          /\ watcher' \in {watcher, "crashed"} /\ listener' \in {listener, "crashed"}
          /\ UNCHANGED <<startErr, internalEventProcessorReady, eventWatcherReady>>
      BY ONLY <1>4, TypeOK DEF StopPublishes, Crash, TypeOK
    <3>3. QED
      BY ONLY TypeOK, <2>2, <3>1, <3>2, SMT DEF TypeOK, QueryStates, Bindings
  <2>4. Counted'
    BY <1>4 DEF StopPublishes, Crash, Counted
  <2>5. Down' /\ Caused'
    BY <1>4 DEF StopPublishes, Crash
  <2>6. QED
    BY <2>3, <2>4, <2>5
<1>5. CASE StopReturns
  BY <1>5 DEF StopReturns
<1>6. CASE WaitUntilTerminated
  BY <1>6 DEF WaitUntilTerminated
<1>7. QED
  BY <1>1, <1>2, <1>3, <1>4, <1>5, <1>6 DEF Stop

(* The types, kept by watchForConfigChanges.                               *)
LEMMA WatcherTypeInv == TypeInv /\ Watcher => TypeInv'
<1> SUFFICES ASSUME TypeInv, Watcher PROVE TypeInv'
  OBVIOUS
<1> USE DEF TypeInv, TypeOK, Counted, Down, Caused, Bit, WatcherCounted, ListenerCounted,
            QueryCounted, syncVars, NotSpawned
<1>1. CASE WatcherCounts
  BY <1>1 DEF WatcherCounts
<1>2. CASE WatcherReports
  BY <1>2 DEF WatcherReports
<1>3. CASE WatcherFinishes
  BY <1>3 DEF WatcherFinishes
<1>4. CASE NoWatcher
  <2>1. query' \in QueryStates /\ bind' \in Bindings
    BY <1>4 DEF NoWatcher, Crash, QueryStates, Bindings
  <2>2. TypeOK'
    BY <1>4, <2>1 DEF NoWatcher, Crash, QueryStates, Bindings
  <2>3. Counted' /\ Down' /\ Caused'
    BY <1>4 DEF NoWatcher, Crash
  <2>4. QED
    BY <2>2, <2>3
<1>5. QED
  BY <1>1, <1>2, <1>3, <1>4 DEF Watcher

(* The types, kept by listenForEvents.                                     *)
LEMMA ListenerTypeInv == TypeInv /\ Listener => TypeInv'
<1> SUFFICES ASSUME TypeInv, Listener PROVE TypeInv'
  OBVIOUS
<1> USE DEF TypeInv, TypeOK, Counted, Down, Caused, Bit, WatcherCounted, ListenerCounted,
            QueryCounted, syncVars, NotSpawned
<1>1. CASE ListenerCounts
  BY <1>1 DEF ListenerCounts
<1>2. CASE ListenerFails
  BY <1>2 DEF ListenerFails
<1>3. CASE ListenerReports
  BY <1>3 DEF ListenerReports
<1>4. CASE ListenerFinishes
  BY <1>4 DEF ListenerFinishes
<1>5. QED
  BY <1>1, <1>2, <1>3, <1>4 DEF Listener

(* The types, kept by handleQuery.                                         *)
LEMMA QueryTypeInv == TypeInv /\ Query => TypeInv'
<1> SUFFICES ASSUME TypeInv, Query PROVE TypeInv'
  OBVIOUS
<1> USE DEF TypeInv, TypeOK, Counted, Down, Caused, Bit, WatcherCounted, ListenerCounted,
            QueryCounted, syncVars, NotSpawned
<1>1. CASE QueryCounts
  <2>1. wg' \in 0 .. 3 /\ query' \in QueryStates /\ bind' \in Bindings
    BY <1>1 DEF QueryCounts, IOUnchanged, At, Counted, QueryStates, Bindings
  <2>2. errors' \subseteq {"timeout", "transient", "closed", "respond"}
    BY <1>1 DEF QueryCounts, IOUnchanged, At
  <2>3. TypeOK'
    BY <1>1, <2>1, <2>2 DEF QueryCounts, IOUnchanged, At, QueryStates, Bindings
  <2>4. Counted'
    BY <1>1 DEF QueryCounts, IOUnchanged, At, Counted
  <2>5. Down' /\ Caused'
    BY <1>1 DEF QueryCounts, IOUnchanged, At
  <2>6. QED
    BY <2>3, <2>4, <2>5
<1>2. CASE CheckDone
  <2>1. wg' \in 0 .. 3 /\ query' \in QueryStates /\ bind' \in Bindings
    BY <1>2 DEF CheckDone, IOUnchanged, At, Failed, Counted, QueryStates, Bindings
  <2>2. errors' \subseteq {"timeout", "transient", "closed", "respond"}
    BY <1>2 DEF CheckDone, IOUnchanged, At, Failed
  <2>3. TypeOK'
    BY <1>2, <2>1, <2>2 DEF CheckDone, IOUnchanged, At, Failed, QueryStates, Bindings
  <2>4. Counted'
    BY <1>2 DEF CheckDone, IOUnchanged, At, Failed, Counted
  <2>5. Down' /\ Caused'
    BY <1>2 DEF CheckDone, IOUnchanged, At, Failed
  <2>6. QED
    BY <2>3, <2>4, <2>5
<1>3. CASE SetDeadline
  <2>1. wg' \in 0 .. 3 /\ query' \in QueryStates /\ bind' \in Bindings
    BY <1>3 DEF SetDeadline, Panic, Crash, IOUnchanged, At, Failed, Counted, QueryStates,
                Bindings
  <2>2. errors' \subseteq {"timeout", "transient", "closed", "respond"}
    BY <1>3 DEF SetDeadline, Panic, Crash, IOUnchanged, At, Failed
  <2>3. TypeOK'
    BY <1>3, <2>1, <2>2 DEF SetDeadline, Panic, Crash, IOUnchanged, At, Failed,
                            QueryStates, Bindings
  <2>4. Counted'
    BY <1>3 DEF SetDeadline, Panic, Crash, IOUnchanged, At, Failed, Counted
  <2>5. Down' /\ Caused'
    BY <1>3 DEF SetDeadline, Panic, Crash, IOUnchanged, At, Failed
  <2>6. QED
    BY <2>3, <2>4, <2>5
<1>4. CASE LoadConn
  <2>1. wg' \in 0 .. 3 /\ query' \in QueryStates /\ bind' \in Bindings
    BY <1>4 DEF LoadConn, Panic, Crash, IOUnchanged, At, Counted, QueryStates, Bindings
  <2>2. errors' \subseteq {"timeout", "transient", "closed", "respond"}
    BY <1>4 DEF LoadConn, Panic, Crash, IOUnchanged, At
  <2>3. TypeOK'
    BY <1>4, <2>1, <2>2 DEF LoadConn, Panic, Crash, IOUnchanged, At, QueryStates, Bindings
  <2>4. Counted'
    BY <1>4 DEF LoadConn, Panic, Crash, IOUnchanged, At, Counted
  <2>5. Down' /\ Caused'
    BY <1>4 DEF LoadConn, Panic, Crash, IOUnchanged, At
  <2>6. QED
    BY <2>3, <2>4, <2>5
<1>5. CASE Transfer
  <2>1. wg' \in 0 .. 3 /\ query' \in QueryStates /\ bind' \in Bindings
    BY <1>5 DEF Transfer, IOUnchanged, At, Failed, Counted, QueryStates, Bindings
  <2>2. errors' \subseteq {"timeout", "transient", "closed", "respond"}
    BY <1>5 DEF Transfer, IOUnchanged, At, Failed
  <2>3. TypeOK'
    BY <1>5, <2>1, <2>2 DEF Transfer, IOUnchanged, At, Failed, QueryStates, Bindings
  <2>4. Counted'
    BY <1>5 DEF Transfer, IOUnchanged, At, Failed, Counted
  <2>5. Down' /\ Caused'
    BY <1>5 DEF Transfer, IOUnchanged, At, Failed
  <2>6. QED
    BY <2>3, <2>4, <2>5
<1>6. CASE Respond
  <2>1. wg' \in 0 .. 3 /\ query' \in QueryStates /\ bind' \in Bindings
    BY <1>6 DEF Respond, IOUnchanged, At, Counted, QueryStates, Bindings
  <2>2. errors' \subseteq {"timeout", "transient", "closed", "respond"}
    BY <1>6 DEF Respond, IOUnchanged, At
  <2>3. TypeOK'
    BY <1>6, <2>1, <2>2 DEF Respond, IOUnchanged, At, QueryStates, Bindings
  <2>4. Counted'
    BY <1>6 DEF Respond, IOUnchanged, At, Counted
  <2>5. Down' /\ Caused'
    BY <1>6 DEF Respond, IOUnchanged, At
  <2>6. QED
    BY <2>3, <2>4, <2>5
<1>7. CASE HandleError
  <2>1. wg' \in 0 .. 3 /\ query' \in QueryStates /\ bind' \in Bindings
    BY <1>7 DEF HandleError, IOUnchanged, At, Counted, QueryStates, Bindings
  <2>2. errors' \subseteq {"timeout", "transient", "closed", "respond"}
    BY <1>7 DEF HandleError, IOUnchanged, At
  <2>3. TypeOK'
    BY <1>7, <2>1, <2>2 DEF HandleError, IOUnchanged, At, QueryStates, Bindings
  <2>4. Counted'
    BY <1>7 DEF HandleError, IOUnchanged, At, Counted
  <2>5. Down' /\ Caused'
    BY <1>7 DEF HandleError, IOUnchanged, At
  <2>6. QED
    BY <2>3, <2>4, <2>5
<1>8. QED
  BY <1>1, <1>2, <1>3, <1>4, <1>5, <1>6, <1>7 DEF Query

(* The types, kept by the game reading and by events.                      *)
LEMMA GameTypeInv == TypeInv /\ Game => TypeInv'
<1> SUFFICES ASSUME TypeInv, Game PROVE TypeInv'
  OBVIOUS
<1> USE DEF TypeInv, TypeOK, Counted, Down, Caused, Bit, WatcherCounted, ListenerCounted,
            QueryCounted, syncVars, NotSpawned
<1>1. CASE Deallocation
  BY <1>1 DEF Deallocation
<1>2. CASE OnDeallocate
  BY <1>2 DEF OnDeallocate
<1>3. QED
  BY <1>1, <1>2 DEF Game

(* Every step preserves the types.                                         *)
LEMMA StepTypeInv == TypeInv /\ [Next]_vars => TypeInv'
<1>1. TypeInv /\ UNCHANGED vars => TypeInv'
  BY DEF TypeInv, TypeOK, Counted, Down, Caused, Bit, WatcherCounted, ListenerCounted,
         QueryCounted, vars, syncVars
<1>2. QED
  BY <1>1, StartTypeInv, StopTypeInv, WatcherTypeInv, ListenerTypeInv, QueryTypeInv,
     GameTypeInv DEF Next

(* What makes Stop clean, kept by Start.                                   *)
LEMMA StartStep == IInv /\ Start => StopInv'
<1> SUFFICES ASSUME IInv, Start PROVE StopInv'
  OBVIOUS
<1> USE DEF IInv, TypeInv, TypeOK, Counted, Down, StopInv, Joinable, DoneFirst, Closing,
            Silent, StopJoins, NoErrorOnStop, Bit, WatcherCounted, ListenerCounted,
            QueryCounted, syncVars, NotSpawned
<1>1. CASE StartFails
  BY <1>1 DEF StartFails
<1>2. CASE StartSpawns
  BY <1>2 DEF StartSpawns, restartQueryEndpoint, At
<1>3. CASE StartSeesWatcher
  <2>1. Joinable'
    BY <1>3 DEF StartSeesWatcher
  <2>2. DoneFirst' /\ StopJoins' /\ NoErrorOnStop'
    BY <1>3 DEF StartSeesWatcher
  <2>3. Silent'
    BY <1>3 DEF StartSeesWatcher
  <2>4. QED
    BY <2>1, <2>2, <2>3
<1>4. CASE StartReturns
  <2>1. Joinable'
    <3>1. /\ main = "waitListener"
          /\ UNCHANGED <<internalEventProcessorReady, watcher, listener>>
          /\ eventWatcherReady' = "empty"
      BY <1>4 DEF StartReturns
    <3>2. CASE eventWatcherReady = "nil"
      <4>1. main' = "running" /\ ~startErr' /\ ~startErr
        BY <1>4, <3>2 DEF StartReturns
      <4>2. QED
        BY <3>1, <3>2, <4>1
    <3>3. CASE eventWatcherReady = "err"
      <4>1. main' = "startFailed" /\ startErr'
        BY <1>4, <3>3 DEF StartReturns
      <4>2. QED
        BY <3>1, <4>1
    <3>4. QED
      BY <1>4, <3>2, <3>3 DEF StartReturns
  <2>2. DoneFirst' /\ StopJoins' /\ NoErrorOnStop'
    BY <1>4 DEF StartReturns
  <2>3. Silent'
    BY <1>4 DEF StartReturns
  <2>4. QED
    BY <2>1, <2>2, <2>3
<1>5. QED
  BY <1>1, <1>2, <1>3, <1>4 DEF Start

(* What makes Stop clean, kept by Stop, and by another one.                *)
LEMMA StopStep == IInv /\ Stop => StopInv'
<1> SUFFICES ASSUME IInv, Stop PROVE StopInv'
  OBVIOUS
<1> USE DEF IInv, TypeInv, TypeOK, Counted, Down, StopInv, Joinable, DoneFirst, Closing,
            Silent, StopJoins, NoErrorOnStop, Bit, WatcherCounted, ListenerCounted,
            QueryCounted, syncVars, NotSpawned
<1>1. CASE CloseMarksDone
  BY <1>1 DEF CloseMarksDone
<1>2. CASE CloseConn
  BY <1>2 DEF CloseConn
<1>3. CASE CloseClearsConn
  BY <1>3 DEF CloseClearsConn
<1>4. CASE StopPublishes
  BY <1>4 DEF StopPublishes, Crash
<1>5. CASE StopReturns
  <2>0. ~WatcherCounted /\ ~ListenerCounted /\ ~QueryCounted
    BY <1>5 DEF StopReturns
  <2>1. Joinable'
    BY <1>5, <2>0 DEF StopReturns
  <2>2. DoneFirst' /\ StopJoins' /\ NoErrorOnStop'
    BY <1>5, <2>0 DEF StopReturns
  <2>3. Silent'
    BY <1>5, <2>0 DEF StopReturns
  <2>4. QED
    BY <2>1, <2>2, <2>3
<1>6. CASE WaitUntilTerminated
  BY <1>6 DEF WaitUntilTerminated
<1>7. QED
  BY <1>1, <1>2, <1>3, <1>4, <1>5, <1>6 DEF Stop

(* What makes Stop clean, kept by watchForConfigChanges.                   *)
LEMMA WatcherStep == IInv /\ Watcher => StopInv'
<1> SUFFICES ASSUME IInv, Watcher PROVE StopInv'
  OBVIOUS
<1> USE DEF IInv, TypeInv, TypeOK, Counted, Down, StopInv, Joinable, DoneFirst, Closing,
            Silent, StopJoins, NoErrorOnStop, Bit, WatcherCounted, ListenerCounted,
            QueryCounted, syncVars, NotSpawned
<1>1. CASE WatcherCounts
  BY <1>1 DEF WatcherCounts
<1>2. CASE WatcherReports
  BY <1>2 DEF WatcherReports
<1>3. CASE WatcherFinishes
  BY <1>3 DEF WatcherFinishes
<1>4. CASE NoWatcher
  BY <1>4 DEF NoWatcher, Crash
<1>5. QED
  BY <1>1, <1>2, <1>3, <1>4 DEF Watcher

(* What makes Stop clean, kept by listenForEvents.                         *)
LEMMA ListenerStep == IInv /\ Listener => StopInv'
<1> SUFFICES ASSUME IInv, Listener PROVE StopInv'
  OBVIOUS
<1> USE DEF IInv, TypeInv, TypeOK, Counted, Down, StopInv, Joinable, DoneFirst, Closing,
            Silent, StopJoins, NoErrorOnStop, Bit, WatcherCounted, ListenerCounted,
            QueryCounted, syncVars, NotSpawned
<1>1. CASE ListenerCounts
  BY <1>1 DEF ListenerCounts
<1>2. CASE ListenerFails
  BY <1>2 DEF ListenerFails
<1>3. CASE ListenerReports
  BY <1>3 DEF ListenerReports
<1>4. CASE ListenerFinishes
  BY <1>4 DEF ListenerFinishes
<1>5. QED
  BY <1>1, <1>2, <1>3, <1>4 DEF Listener

(* What makes Stop clean, kept by handleQuery.                             *)
LEMMA QueryStep == IInv /\ Query => StopInv'
<1> SUFFICES ASSUME IInv, Query PROVE StopInv'
  OBVIOUS
<1> USE DEF IInv, TypeInv, TypeOK, Counted, Down, StopInv, Joinable, DoneFirst, Closing,
            Silent, StopJoins, NoErrorOnStop, Bit, WatcherCounted, ListenerCounted,
            QueryCounted, syncVars, NotSpawned
<1>1. CASE QueryCounts
  BY <1>1 DEF QueryCounts, IOUnchanged, At
<1>2. CASE CheckDone
  BY <1>2 DEF CheckDone, IOUnchanged, At, Failed
<1>3. CASE SetDeadline
  BY <1>3 DEF SetDeadline, Panic, Crash, IOUnchanged, At, Failed
<1>4. CASE LoadConn
  BY <1>4 DEF LoadConn, Panic, Crash, IOUnchanged, At
<1>5. CASE Transfer
  BY <1>5 DEF Transfer, IOUnchanged, At, Failed
<1>6. CASE Respond
  BY <1>6 DEF Respond, IOUnchanged, At
<1>7. CASE HandleError
  BY <1>7 DEF HandleError, IOUnchanged, At
<1>8. QED
  BY <1>1, <1>2, <1>3, <1>4, <1>5, <1>6, <1>7 DEF Query

(* What makes Stop clean, kept by the game reading and by events.          *)
LEMMA GameStep == IInv /\ Game => StopInv'
<1> SUFFICES ASSUME IInv, Game PROVE StopInv'
  OBVIOUS
<1> USE DEF IInv, TypeInv, TypeOK, Counted, Down, StopInv, Joinable, DoneFirst, Closing,
            Silent, StopJoins, NoErrorOnStop, Bit, WatcherCounted, ListenerCounted,
            QueryCounted, syncVars, NotSpawned
<1>1. CASE Deallocation
  BY <1>1 DEF Deallocation
<1>2. CASE OnDeallocate
  BY <1>2 DEF OnDeallocate
<1>3. QED
  BY <1>1, <1>2 DEF Game

(* Every step preserves the inductive invariant.                           *)
LEMMA StepIInv == IInv /\ [Next]_vars => IInv'
<1>1. IInv /\ UNCHANGED vars => StopInv'
  BY DEF IInv, StopInv, Joinable, DoneFirst, Silent, StopJoins, NoErrorOnStop, vars,
         syncVars
<1>2. QED
  BY <1>1, StepTypeInv, StartStep, StopStep, WatcherStep, ListenerStep, QueryStep,
     GameStep
     DEF IInv, Next

(* So it holds always.                                                     *)
LEMMA AlwaysIInv == Spec => []IInv
BY InitIInv, StepIInv, PTL DEF Spec

-----------------------------------------------------------------------------
(* The state of Start, Stop and the goroutines keeps its types: the        *)
(* WaitGroup's counter never goes below zero.                              *)
THEOREM TypeCorrect == Spec => []TypeOK
<1>1. IInv => TypeOK
  BY DEF IInv, TypeInv
<1>2. QED
  BY <1>1, AlwaysIInv, PTL

(* When Stop returns both watchers have ended, the endpoint is silent for  *)
(* good, and closing it was not reported as an error.                      *)
THEOREM StopIsCleanHolds == Spec => []StopIsClean
<1>1. IInv => StopIsClean
  <2> SUFFICES ASSUME IInv PROVE StopIsClean
    OBVIOUS
  <2>1. SilentAfterStop
    BY DEF IInv, StopInv, Silent, SilentAfterStop
  <2>2. QED
    BY <2>1 DEF IInv, StopInv, StopIsClean
<1>2. QED
  BY <1>1, AlwaysIInv, PTL

(* Nothing brings the process down but a Stop, and a Start that could make *)
(* no watcher of the configuration's directory.                            *)
THEOREM KnownCrashesHolds == Spec => KnownCrashes
<1>1. IInv /\ [Next]_vars => [FallsAsKnown]_vars
  <2> SUFFICES ASSUME IInv, Next, main # "crashed", main' = "crashed"
               PROVE  \/ bind.done /\ query.at \in {"deadline", "transfer"}
                      \/ main = "publishing" /\ done
                      \/ main = "waitWatcher" /\ "watcher" \in Faults
    BY DEF FallsAsKnown
  <2>1. CASE StopPublishes
    BY <2>1 DEF StopPublishes
  <2>2. CASE SetDeadline \/ LoadConn
    BY <2>2 DEF SetDeadline, LoadConn, Panic, IOUnchanged, IInv, StopInv, DoneFirst
  <2>3. CASE NoWatcher
    BY <2>3 DEF NoWatcher, IInv, StopInv, Joinable
  <2>4. ASSUME ~StopPublishes, ~SetDeadline, ~LoadConn, ~NoWatcher PROVE FALSE
    BY <2>4 DEF Next, Start, Stop, Watcher, Listener, Query, Game, StartFails,
       StartSpawns,
         StartSeesWatcher, StartReturns, CloseMarksDone, CloseConn, CloseClearsConn,
         StopReturns, WaitUntilTerminated, WatcherCounts, WatcherReports, WatcherFinishes,
         ListenerCounts, ListenerFails, ListenerReports, ListenerFinishes, Deallocation,
         OnDeallocate, IOUnchanged, QueryCounts, CheckDone, Transfer, Respond, HandleError
  <2>5. QED
    BY <2>1, <2>2, <2>3, <2>4
<1>2. QED
  BY <1>1, AlwaysIInv, PTL DEF Spec, KnownCrashes
=============================================================================
