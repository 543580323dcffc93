--------------------------- MODULE ServerLifecycle ---------------------------
(***************************************************************************)
(* Start and Stop of a Server, the three goroutines Start spawns and what  *)
(* they share: the WaitGroup, the done channel, the two ready channels and *)
(* the UDP binding of the query endpoint (server.go, query.go, bind.go,    *)
(* and the outline of config_watcher.go and event_watcher.go).             *)
(*                                                                         *)
(* The binding's connection pointer is read by handleQuery and written by  *)
(* Close without a lock, so each access is a step of its own, and a method *)
(* called on a nil pointer stops the process.                              *)
(***************************************************************************)
EXTENDS Naturals

CONSTANTS
  Faults,               \* which steps of Start may fail
  StopsAgain            \* whether the game calls Stop a second time

ASSUME FaultsAssumption == Faults \subseteq {"config", "query", "watcher", "listener"}
ASSUME StopsAgainAssumption == StopsAgain \in BOOLEAN

VARIABLES
  main,                 \* where the goroutine that calls Start and Stop is
  startErr,             \* Start returned an error
  watcher,              \* where watchForConfigChanges is
  listener,             \* where listenForEvents is
  query,                \* where handleQuery is: [at, op, err]
  bind,                 \* the UDP binding: [done, conn]
  wg,                   \* the WaitGroup's counter
  internalEventProcessorReady,  \* "empty", "full" or "closed"
  eventWatcherReady,    \* "empty", "nil" or "err"
  done,                 \* whether s.done is closed
  chanDeallocated,      \* how many messages it holds
  errors                \* history: the causes of the errors pushed

syncVars == <<wg, internalEventProcessorReady, eventWatcherReady, done>>
vars == <<main, startErr, watcher, listener, query, bind, syncVars, chanDeallocated,
          errors>>

NotSpawned == [at |-> "none", op |-> "read", err |-> "none"]
At(pc, op) == [at |-> pc, op |-> op, err |-> "none"]
Failed(op, cause) == [at |-> "failed", op |-> op, err |-> cause]

Init ==
  /\ main = "new" /\ startErr = FALSE
  /\ watcher = "none" /\ listener = "none" /\ query = NotSpawned
  /\ bind = [done |-> FALSE, conn |-> "none"]
  /\ wg = 0 /\ internalEventProcessorReady = "empty" /\ eventWatcherReady = "empty"
  /\ done = FALSE /\ chanDeallocated = 0 /\ errors = {}

-----------------------------------------------------------------------------
(* Start. Opening the query endpoint spawns handleQuery.                   *)
StartFails ==
  /\ main = "new" /\ Faults \cap {"config", "query"} # {}
  /\ main' = "startFailed" /\ startErr' = TRUE
  /\ UNCHANGED <<watcher, listener, query, bind, syncVars, chanDeallocated, errors>>

restartQueryEndpoint ==
  /\ bind' = [done |-> FALSE, conn |-> "open"]
  /\ query' = At("spawned", "read")

StartSpawns ==
  /\ main = "new" /\ restartQueryEndpoint
  /\ watcher' = "spawned" /\ listener' = "spawned"
  /\ main' = "waitWatcher"
  /\ UNCHANGED <<startErr, syncVars, chanDeallocated, errors>>

StartSeesWatcher ==
  /\ main = "waitWatcher" /\ internalEventProcessorReady = "full"
  /\ internalEventProcessorReady' = "empty" /\ main' = "waitListener"
  /\ UNCHANGED <<startErr, watcher, listener, query, bind, wg, eventWatcherReady, done,
                 chanDeallocated, errors>>

StartReturns ==
  /\ main = "waitListener" /\ eventWatcherReady # "empty"
  /\ main' = IF eventWatcherReady = "nil" THEN "running" ELSE "startFailed"
  /\ startErr' = (eventWatcherReady = "err")
  /\ eventWatcherReady' = "empty"
  /\ UNCHANGED <<watcher, listener, query, bind, wg, internalEventProcessorReady, done,
                 chanDeallocated, errors>>

-----------------------------------------------------------------------------
(* Stop. The binding's Close marks it done, closes the connection and      *)
(* clears the pointer, in this order.                                      *)
(* Mutant: Close clears the connection before it is marked done.           *)
CloseClearsFirst ==
  /\ main \in {"running", "startFailed"}
  /\ IF bind.conn = "none"
       THEN main' = "publishing" /\ UNCHANGED bind
       ELSE main' = "closeConn" /\ bind' = [bind EXCEPT !.conn = "nil"]
  /\ UNCHANGED <<startErr, watcher, listener, query, syncVars, chanDeallocated, errors>>

CloseMarksDone ==
  /\ main \in {"running", "startFailed"}
  /\ IF bind.conn = "none"
       THEN main' = "publishing" /\ UNCHANGED bind
       ELSE main' = "closeConn" /\ bind' = [bind EXCEPT !.done = TRUE]
  /\ UNCHANGED <<startErr, watcher, listener, query, syncVars, chanDeallocated, errors>>

CloseConn ==
  /\ main = "closeConn"
  /\ main' = "clearConn" /\ bind' = [bind EXCEPT !.conn = "closed"]
  /\ UNCHANGED <<startErr, watcher, listener, query, syncVars, chanDeallocated, errors>>

CloseClearsConn ==
  /\ main = "clearConn"
  /\ main' = "publishing" /\ bind' = [bind EXCEPT !.conn = "nil"]
  /\ UNCHANGED <<startErr, watcher, listener, query, syncVars, chanDeallocated, errors>>

(* A panic in any goroutine, and the process is gone.                      *)
Crash ==
  /\ main' = "crashed" /\ watcher' = "crashed" /\ listener' = "crashed"
  /\ query' = [query EXCEPT !.at = "crashed"]

(* The deallocation waits for room, then done is closed: a second time     *)
(* that panics.                                                            *)
StopPublishes ==
  /\ main = "publishing" /\ chanDeallocated = 0
  /\ chanDeallocated' = 1
  /\ IF done THEN Crash /\ UNCHANGED done
     ELSE main' = "waiting" /\ done' = TRUE /\ UNCHANGED <<watcher, listener, query>>
  /\ UNCHANGED <<startErr, bind, wg, internalEventProcessorReady, eventWatcherReady,
                 errors>>

(* Mutant: Stop does not wait for the WaitGroup.                           *)
StopReturnsAtOnce ==
  /\ main = "waiting" /\ main' = "stopped"
  /\ UNCHANGED <<startErr, watcher, listener, query, bind, syncVars, chanDeallocated,
                 errors>>

StopReturns ==
  /\ main = "waiting" /\ wg = 0 /\ main' = "stopped"
  /\ UNCHANGED <<startErr, watcher, listener, query, bind, syncVars, chanDeallocated,
                 errors>>

(* WaitUntilTerminated calls Stop when the signal comes, even if the game  *)
(* has called it before: a binding that is done is not closed again.       *)
WaitUntilTerminated ==
  /\ StopsAgain /\ main = "stopped" /\ main' = "publishing"
  /\ UNCHANGED <<startErr, watcher, listener, query, bind, syncVars, chanDeallocated,
                 errors>>

-----------------------------------------------------------------------------
(* watchForConfigChanges: counted before it reports that it is ready. What *)
(* it does with a change of the file is ConfigWatcher's subject.           *)
WatcherCounts ==
  /\ watcher = "spawned" /\ watcher' = "counted" /\ wg' = wg + 1
  /\ UNCHANGED <<main, startErr, listener, query, bind, internalEventProcessorReady,
                 eventWatcherReady, done, chanDeallocated, errors>>

(* NewWatcher's error is ignored: its nil result panics in Add, in Start.  *)
NoWatcher ==
  /\ watcher = "spawned" /\ "watcher" \in Faults /\ Crash
  /\ UNCHANGED <<startErr, bind, syncVars, chanDeallocated, errors>>

WatcherReports ==
  /\ watcher = "counted" /\ internalEventProcessorReady = "empty"
  /\ watcher' = "serving" /\ internalEventProcessorReady' = "full"
  /\ UNCHANGED <<main, startErr, listener, query, bind, wg, eventWatcherReady, done,
                 chanDeallocated, errors>>

WatcherFinishes ==
  /\ watcher = "serving" /\ done
  /\ watcher' = "finished" /\ internalEventProcessorReady' = "closed" /\ wg' = wg - 1
  /\ UNCHANGED <<main, startErr, listener, query, bind, eventWatcherReady, done,
                 chanDeallocated, errors>>

-----------------------------------------------------------------------------
(* listenForEvents, whose early returns keep their count. How it comes to  *)
(* be subscribed is EventWatcher's subject.                                *)
ListenerCounts ==
  /\ listener = "spawned" /\ listener' = "connecting" /\ wg' = wg + 1
  /\ UNCHANGED <<main, startErr, watcher, query, bind, internalEventProcessorReady,
                 eventWatcherReady, done, chanDeallocated, errors>>

ListenerFails ==
  /\ listener = "connecting" /\ "listener" \in Faults
  /\ listener' = "failed" /\ eventWatcherReady' = "err"
  /\ UNCHANGED <<main, startErr, watcher, query, bind, wg, internalEventProcessorReady,
                 done, chanDeallocated, errors>>

ListenerReports ==
  /\ listener = "connecting"
  /\ listener' = "serving" /\ eventWatcherReady' = "nil"
  /\ UNCHANGED <<main, startErr, watcher, query, bind, wg, internalEventProcessorReady,
                 done, chanDeallocated, errors>>

ListenerFinishes ==
  /\ listener = "serving" /\ done
  /\ listener' = "finished" /\ wg' = wg - 1
  /\ UNCHANGED <<main, startErr, watcher, query, bind, internalEventProcessorReady,
                 eventWatcherReady, done, chanDeallocated, errors>>

(* A deallocation event, while the client is open, and the game reading.   *)
Deallocation ==
  /\ listener = "serving" /\ chanDeallocated = 0 /\ chanDeallocated' = 1
  /\ UNCHANGED <<main, startErr, watcher, listener, query, bind, syncVars, errors>>

OnDeallocate ==
  /\ chanDeallocated = 1 /\ chanDeallocated' = 0
  /\ UNCHANGED <<main, startErr, watcher, listener, query, bind, syncVars, errors>>

-----------------------------------------------------------------------------
(* handleQuery, which counts itself once it runs. Read and Write of the    *)
(* binding take the same four steps: check for done, set the deadline,     *)
(* load the connection again, wait for the transfer.                       *)
IOUnchanged == UNCHANGED <<main, startErr, watcher, listener, bind,
                           internalEventProcessorReady, eventWatcherReady, done,
                           chanDeallocated>>

(* Mutant: handleQuery does not count itself.                              *)
QueryUncounted ==
  /\ query.at = "spawned"
  /\ query' = At("check", "read")
  /\ IOUnchanged /\ UNCHANGED <<wg, errors>>

QueryCounts ==
  /\ query.at = "spawned"
  /\ query' = At("check", "read") /\ wg' = wg + 1
  /\ IOUnchanged /\ UNCHANGED <<errors>>

CheckDone ==
  /\ query.at = "check"
  /\ query' = IF bind.done THEN Failed(query.op, "closed") ELSE At("deadline", query.op)
  /\ IOUnchanged /\ UNCHANGED <<wg, errors>>

(* A method of a nil connection panics.                                    *)
Panic ==
  /\ bind.conn = "nil" /\ Crash
  /\ UNCHANGED <<startErr, bind, syncVars, chanDeallocated, errors>>

SetDeadline ==
  /\ query.at = "deadline"
  /\ \/ Panic
     \/ /\ bind.conn # "nil"
        /\ query' = IF bind.conn = "open" THEN At("transfer", query.op)
                                          ELSE Failed(query.op, "closed")
        /\ IOUnchanged /\ UNCHANGED <<wg, errors>>

LoadConn ==
  /\ query.at = "transfer"
  /\ \/ Panic
     \/ /\ bind.conn # "nil" /\ query' = At("waiting", query.op)
        /\ IOUnchanged /\ UNCHANGED <<wg, errors>>

Transfer ==
  /\ query.at = "waiting"
  /\ IF bind.conn # "open"
       THEN query' = Failed(query.op, "closed")
       ELSE \/ query' = IF query.op = "read" THEN At("respond", "read")
                                             ELSE At("check", "read")
            \/ \E cause \in {"timeout", "transient"} : query' = Failed(query.op, cause)
  /\ IOUnchanged /\ UNCHANGED <<wg, errors>>

Respond ==
  /\ query.at = "respond"
  /\ \/ query' = At("check", "write") /\ UNCHANGED errors
     \/ query' = At("check", "read") /\ errors' = errors \cup {"respond"}
  /\ IOUnchanged /\ UNCHANGED <<wg>>

(* Mutant: a failed Read or Write never ends the loop.                     *)
HandleErrorForever ==
  /\ query.at = "failed"
  /\ query' = At("check", "read")
  /\ errors' = IF query.op = "read" /\ query.err = "timeout"
                 THEN errors ELSE errors \cup {query.err}
  /\ IOUnchanged /\ UNCHANGED wg

(* After a failed Read or Write: the end if the binding is done, else the  *)
(* error is pushed, save the timeout of a read, and the loop goes on.      *)
HandleError ==
  /\ query.at = "failed"
  /\ IF bind.done
       THEN query' = At("finished", query.op) /\ wg' = wg - 1 /\ UNCHANGED errors
       ELSE /\ query' = At("check", "read")
            /\ errors' = IF query.op = "read" /\ query.err = "timeout"
                           THEN errors ELSE errors \cup {query.err}
            /\ UNCHANGED wg
  /\ IOUnchanged

-----------------------------------------------------------------------------
Start == StartFails \/ StartSpawns \/ StartSeesWatcher \/ StartReturns
Stop == CloseMarksDone \/ CloseConn \/ CloseClearsConn \/ StopPublishes \/ StopReturns
        \/ WaitUntilTerminated
Watcher == WatcherCounts \/ NoWatcher \/ WatcherReports \/ WatcherFinishes
Listener == ListenerCounts \/ ListenerFails \/ ListenerReports \/ ListenerFinishes
Query == QueryCounts \/ CheckDone \/ SetDeadline \/ LoadConn \/ Transfer \/ Respond
         \/ HandleError
Game == Deallocation \/ OnDeallocate

Next == Start \/ Stop \/ Watcher \/ Listener \/ Query \/ Game

Spec == Init /\ [][Next]_vars

(* Goroutines run when they can; a read ends, at the latest at its         *)
(* deadline; the game reads OnDeallocate, and a sender blocked on a full   *)
(* channel is queued, so its turn comes. Nothing obliges the game to stop. *)
Fairness ==
  /\ WF_vars(Start) /\ WF_vars(Watcher) /\ WF_vars(Listener) /\ WF_vars(Query)
  /\ WF_vars(CloseConn) /\ WF_vars(CloseClearsConn) /\ WF_vars(StopReturns)
  /\ WF_vars(OnDeallocate) /\ SF_vars(StopPublishes)

FairSpec == Spec /\ Fairness

-----------------------------------------------------------------------------
(* The state space.                                                        *)
TypeOK ==
  /\ main \in {"new", "waitWatcher", "waitListener", "running", "startFailed",
               "closeConn", "clearConn", "publishing", "waiting", "stopped",
               "crashed"}
  /\ startErr \in BOOLEAN /\ done \in BOOLEAN
  /\ watcher \in {"none", "spawned", "counted", "serving", "finished", "crashed"}
  /\ listener \in {"none", "spawned", "connecting", "serving", "failed", "finished",
                  "crashed"}
  /\ query \in [at : {"none", "spawned", "check", "deadline", "transfer", "waiting",
                      "respond", "failed", "finished", "crashed"},
                op : {"read", "write"},
                err : {"none", "timeout", "transient", "closed"}]
  /\ bind \in [done : BOOLEAN, conn : {"none", "open", "closed", "nil"}]
  /\ wg \in 0 .. 3
  /\ internalEventProcessorReady \in {"empty", "full", "closed"}
  /\ eventWatcherReady \in {"empty", "nil", "err"}
  /\ chanDeallocated \in {0, 1}
  /\ errors \subseteq {"timeout", "transient", "closed", "respond"}

(* When Stop returns from a server that had started, both watchers are     *)
(* gone: Start does not return before they are counted.                    *)
StopJoins ==
  main = "stopped" /\ ~startErr => watcher = "finished" /\ listener = "finished"

(* When Stop returns, the query endpoint is silent for good, although      *)
(* handleQuery may not even have counted itself yet.                       *)
SilentAfterStop ==
  main = "stopped" => query.at \notin {"deadline", "transfer", "waiting", "respond"}

(* Closing the binding is never reported to the game as an error.          *)
NoErrorOnStop == "closed" \notin errors

(* Stop joins the watchers and silences the endpoint, without an error.    *)
StopIsClean == StopJoins /\ SilentAfterStop /\ NoErrorOnStop

(* Stop of a server that had started returns, unless the process crashed.  *)
StopCompletes == main = "publishing" /\ ~startErr ~> main \in {"stopped", "crashed"}

(* Stop returns, even of a server whose Start failed.                      *)
StopAlwaysCompletes == main = "publishing" ~> main \in {"stopped", "crashed"}

(* The process goes down in three ways only: in a Stop, if handleQuery had *)
(* looked before the binding was done and uses the cleared connection; in  *)
(* another Stop, which finds done closed; and in a Start that waits for a  *)
(* watcher that could not be made. So nothing but Stop stops a server that *)
(* Start has left.                                                         *)
FallsAsKnown ==
  main # "crashed" /\ main' = "crashed" =>
    \/ bind.done /\ query.at \in {"deadline", "transfer"}
    \/ main = "publishing" /\ done
    \/ main = "waitWatcher" /\ "watcher" \in Faults
KnownCrashes == [][FallsAsKnown]_vars

(* Stop does not bring the process down.                                   *)
NoCrash == main # "crashed"
=============================================================================
