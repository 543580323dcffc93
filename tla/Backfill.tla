------------------------------- MODULE Backfill -------------------------------
(***************************************************************************)
(* The matchmaker server's backfill keeper (matchmaker/server/server.go    *)
(* and backfill_internal.go): once a second, fetch a token from the local  *)
(* proxy, then tell the matchmaker that the backfill ticket of the current *)
(* allocation is still wanted; beside it, the daemon that rewrites         *)
(* server.json, and Start and Stop.                                        *)
(*                                                                         *)
(* The base server is present as the configuration it keeps and as the     *)
(* error channel; what it does in Start and Stop are ServerLifecycle's and *)
(* EventWatcher's subjects, and here its Stop may return, never return or  *)
(* bring the process down. The local proxy and the matchmaker are          *)
(* external. Allocations are numbered in their order, 0 is none.           *)
(***************************************************************************)
EXTENDS Naturals

CONSTANTS
  MaxAllocations,       \* bound: allocations of the server
  MaxFaults             \* bound: requests that are refused, lost or unanswered

ASSUME BoundsAssumption == MaxAllocations \in Nat /\ MaxFaults \in Nat

NoID == 0
Alloc == 1 .. MaxAllocations

VARIABLES
  allocated,            \* AllocatedUUID of the configuration in force
  allocations,          \* how many allocations there were
  enabled,              \* enableBackfill, as it is when the server starts
  main,                 \* where the goroutine that calls Start and Stop is
  done,                 \* whether s.done is closed
  wg,                   \* the WaitGroup's counter
  keeper,               \* keepAliveBackfill: [at, attempt, id, answer]
  tick,                 \* whether a tick waits in the ticker's channel
  chanError,            \* how many errors OnError holds
  faults,               \* how many requests failed
  approved,             \* history: the allocations approved by the matchmaker
  late,                 \* history: requests for an allocation after its end
  inTime                \* history: the keeper was counted when Stop began

serverVars == <<allocated, allocations, enabled>>
mainVars == <<main, done, inTime>>
matchmakerVars == <<faults, approved, late>>
vars == <<serverVars, mainVars, wg, keeper, tick, chanError, matchmakerVars>>

At(pc) == [at |-> pc, attempt |-> 0, id |-> NoID, answer |-> "none"]

Init ==
  /\ allocated = NoID /\ allocations = 0 /\ enabled \in BOOLEAN
  /\ main = "new" /\ done = FALSE /\ wg = 0 /\ inTime = FALSE
  /\ keeper = At("none") /\ tick = FALSE /\ chanError = 0
  /\ faults = 0 /\ approved = {} /\ late = [n \in Alloc |-> 0]

-----------------------------------------------------------------------------
(* The daemon rewrites server.json and the base server follows.            *)
Allocate ==
  /\ allocated = NoID /\ allocations < MaxAllocations
  /\ allocations' = allocations + 1 /\ allocated' = allocations + 1
  /\ UNCHANGED <<enabled, mainVars, wg, keeper, tick, chanError, matchmakerVars>>

Deallocate ==
  /\ allocated # NoID /\ allocated' = NoID
  /\ UNCHANGED <<allocations, enabled, mainVars, wg, keeper, tick, chanError,
                 matchmakerVars>>

OnError ==
  /\ main # "crashed" /\ chanError = 1 /\ chanError' = 0
  /\ UNCHANGED <<serverVars, mainVars, wg, keeper, tick, matchmakerVars>>

-----------------------------------------------------------------------------
(* Start: the keeper runs only if the base server started, and backfill is *)
(* enabled at this moment.                                                 *)
Start ==
  /\ main = "new"
  /\ \/ main' = "startFailed" /\ UNCHANGED keeper
     \/ /\ main' = "running"
        /\ keeper' = IF enabled THEN At("spawned") ELSE keeper
  /\ UNCHANGED <<serverVars, done, inTime, wg, tick, chanError, matchmakerVars>>

(* Stop closes done and waits for the keeper.                              *)
StopBegins ==
  /\ main \in {"running", "startFailed"}
  /\ main' = "waiting" /\ done' = TRUE /\ inTime' = (wg > 0)
  /\ UNCHANGED <<serverVars, wg, keeper, tick, chanError, matchmakerVars>>

(* Mutant: Stop does not wait for the keeper.                              *)
StopJoinsNobody ==
  /\ main = "waiting" /\ main' = "stopping"
  /\ UNCHANGED <<serverVars, done, inTime, wg, keeper, tick, chanError, matchmakerVars>>

StopJoins ==
  /\ main = "waiting" /\ wg = 0 /\ main' = "stopping"
  /\ UNCHANGED <<serverVars, done, inTime, wg, keeper, tick, chanError, matchmakerVars>>

(* Then it stops the base server, which need not return.                   *)
StopReturns ==
  /\ main = "stopping" /\ main' = "stopped"
  /\ UNCHANGED <<serverVars, done, inTime, wg, keeper, tick, chanError, matchmakerVars>>

(* The base server's Stop may panic, and another Stop of this one, as the  *)
(* signal makes it, does at the closed done. Nothing runs afterwards.      *)
Crash ==
  /\ main \in {"stopping", "stopped"} /\ main' = "crashed"
  /\ keeper' = At("none")
  /\ UNCHANGED <<serverVars, done, inTime, wg, tick, chanError, matchmakerVars>>

-----------------------------------------------------------------------------
(* Mutant: the keeper is not counted.                                      *)
KeeperUncounted ==
  /\ keeper.at = "spawned" /\ keeper' = At("select")
  /\ UNCHANGED <<serverVars, mainVars, wg, tick, chanError, matchmakerVars>>

(* keepAliveBackfill counts itself, then starts its ticker.                *)
KeeperCounts ==
  /\ keeper.at = "spawned" /\ keeper' = At("select") /\ wg' = wg + 1
  /\ UNCHANGED <<serverVars, mainVars, tick, chanError, matchmakerVars>>

(* A tick finds room, or is dropped.                                       *)
Tick ==
  /\ keeper.at \notin {"none", "spawned", "finished"} /\ tick' = TRUE
  /\ UNCHANGED <<serverVars, mainVars, wg, keeper, chanError, matchmakerVars>>

(* wrapWithConfigAndJWT takes a copy of the configuration, which the       *)
(* attempt keeps however long its requests take.                           *)
Attempt(k) == [at |-> "token", attempt |-> k, id |-> allocated, answer |-> "none"]

KeeperTicks ==
  /\ keeper.at = "select" /\ tick
  /\ tick' = FALSE /\ keeper' = Attempt(1)
  /\ UNCHANGED <<serverVars, mainVars, wg, chanError, matchmakerVars>>

(* Mutant: the keeper returns without giving its count back.               *)
KeeperStopsCounted ==
  /\ keeper.at = "select" /\ done
  /\ keeper' = At("finished") /\ tick' = FALSE
  /\ UNCHANGED <<serverVars, mainVars, wg, chanError, matchmakerVars>>

(* When both are ready the select takes either.                            *)
KeeperStops ==
  /\ keeper.at = "select" /\ done
  /\ keeper' = At("finished") /\ wg' = wg - 1 /\ tick' = FALSE
  /\ UNCHANGED <<serverVars, mainVars, chanError, matchmakerVars>>

(* The tick failed: its error is pushed, unless the channel is full.       *)
GiveUp ==
  /\ keeper' = At("select")
  /\ chanError' = 1
Fault == faults < MaxFaults /\ faults' = faults + 1

TokenFetched ==
  /\ keeper.at = "token" /\ keeper' = [keeper EXCEPT !.at = "approve"]
  /\ UNCHANGED <<serverVars, mainVars, wg, tick, chanError, matchmakerVars>>

TokenFails ==
  /\ keeper.at = "token" /\ Fault /\ GiveUp
  /\ UNCHANGED <<serverVars, mainVars, wg, tick, approved, late>>

-----------------------------------------------------------------------------
(* approveBackfillTicket.                                                  *)
NotAllocated ==
  /\ keeper.at = "approve" /\ keeper.id = NoID /\ GiveUp
  /\ UNCHANGED <<serverVars, mainVars, wg, tick, matchmakerVars>>

(* The request reaches the matchmaker, which approves or does not.         *)
RequestArrives ==
  /\ keeper.at = "approve" /\ keeper.id # NoID
  /\ late' = IF keeper.id = allocated THEN late
                                      ELSE [late EXCEPT ![keeper.id] = @ + 1]
  /\ \/ /\ keeper' = [keeper EXCEPT !.at = "posted", !.answer = "OK"]
        /\ approved' = approved \cup {keeper.id}
        /\ UNCHANGED faults
     \/ /\ \E answer \in {"TooManyRequests", "other"} :
             keeper' = [keeper EXCEPT !.at = "posted", !.answer = answer]
        /\ Fault
        /\ UNCHANGED approved
  /\ UNCHANGED <<serverVars, mainVars, wg, tick, chanError>>

RequestLost ==
  /\ keeper.at = "approve" /\ keeper.id # NoID
  /\ Fault /\ GiveUp
  /\ UNCHANGED <<serverVars, mainVars, wg, tick, approved, late>>

(* The answer is lost, late or not a ticket.                               *)
AnswerLost ==
  /\ keeper.at = "posted" /\ Fault /\ GiveUp
  /\ UNCHANGED <<serverVars, mainVars, wg, tick, approved, late>>

Approved ==
  /\ keeper.at = "posted" /\ keeper.answer = "OK"
  /\ keeper' = At("select")
  /\ UNCHANGED <<serverVars, mainVars, wg, tick, chanError, matchmakerVars>>

(* Mutant: the retry uses the configuration of the first attempt.          *)
RetrySame ==
  /\ keeper.at = "posted" /\ keeper.answer = "TooManyRequests" /\ keeper.attempt = 1
  /\ keeper' = [keeper EXCEPT !.at = "token", !.attempt = 2, !.answer = "none"]
  /\ UNCHANGED <<serverVars, mainVars, wg, tick, chanError, matchmakerVars>>

(* "Too many requests" is tried again at once, from the configuration on,  *)
(* but only once.                                                          *)
Retry ==
  /\ keeper.at = "posted" /\ keeper.answer = "TooManyRequests" /\ keeper.attempt = 1
  /\ keeper' = Attempt(2)
  /\ UNCHANGED <<serverVars, mainVars, wg, tick, chanError, matchmakerVars>>

(* Mutant: the keeper ends at the first refusal.                           *)
RefusedForGood ==
  /\ keeper.at = "posted"
  /\ \/ keeper.answer = "other"
     \/ keeper.answer = "TooManyRequests" /\ keeper.attempt = 2
  /\ keeper' = At("finished") /\ wg' = wg - 1 /\ chanError' = 1
  /\ UNCHANGED <<serverVars, mainVars, tick, matchmakerVars>>

Refused ==
  /\ keeper.at = "posted"
  /\ \/ keeper.answer = "other"
     \/ keeper.answer = "TooManyRequests" /\ keeper.attempt = 2
  /\ GiveUp
  /\ UNCHANGED <<serverVars, mainVars, wg, tick, matchmakerVars>>

-----------------------------------------------------------------------------
Main == Start \/ StopBegins \/ StopJoins \/ StopReturns \/ Crash
Keeper == KeeperCounts \/ KeeperTicks \/ KeeperStops \/ TokenFetched \/ TokenFails
          \/ NotAllocated \/ RequestArrives \/ RequestLost \/ AnswerLost \/ Approved
          \/ Retry \/ Refused
Environment == Allocate \/ Deallocate \/ OnError \/ Tick

Next == Main \/ Keeper \/ Environment

Spec == Init /\ [][Next]_vars

(* The keeper runs, its ticker ticks, and every request ends, at the       *)
(* latest at its timeout of ten seconds. Nothing is assumed of the base    *)
(* server's Stop. A select with two ready cases                            *)
(* picks one at random, so neither is left out for ever.                   *)
Fairness ==
  /\ WF_vars(Keeper) /\ WF_vars(Tick) /\ WF_vars(StopJoins)
  /\ SF_vars(KeeperTicks) /\ SF_vars(KeeperStops)

FairSpec == Spec /\ Fairness

-----------------------------------------------------------------------------
(* The state space.                                                        *)
TypeOK ==
  /\ allocated \in 0 .. MaxAllocations /\ allocations \in 0 .. MaxAllocations
  /\ enabled \in BOOLEAN /\ done \in BOOLEAN /\ inTime \in BOOLEAN
  /\ main \in {"new", "running", "startFailed", "waiting", "stopping", "stopped",
               "crashed"}
  /\ wg \in {0, 1}
  /\ keeper \in [at : {"none", "spawned", "select", "token", "approve", "posted",
                       "finished"},
                 attempt : 0 .. 2, id : 0 .. MaxAllocations,
                 answer : {"none", "OK", "TooManyRequests", "other"}]
  /\ tick \in BOOLEAN /\ chanError \in {0, 1} /\ faults \in 0 .. MaxFaults
  /\ approved \subseteq Alloc
  /\ late \in [Alloc -> Nat]

(* An allocation that ended is asked for at most once more: whatever was   *)
(* in flight when it ended, its retry and the ticks after it look again.   *)
LateAtMostOnce == \A n \in Alloc : late[n] <= 1

(* From the moment Stop turns to the base server no request is in progress *)
(* and none will be made, provided the keeper had counted itself when Stop *)
(* began.                                                                  *)
JoinedByStop == main \in {"stopping", "stopped"} /\ inTime => keeper.at = "finished"

(* The ticket of an allocation that lasts is approved again and again,     *)
(* whatever failed before, unless the game stops the server.               *)
KeptAlive ==
  \A n \in Alloc :
    <>[](allocated = n /\ keeper.at # "none" /\ ~done)
      => []<>(keeper.at = "posted" /\ keeper.answer = "OK" /\ keeper.id = n)

(* Stop is not held up by the keeper, wherever it is and whatever its      *)
(* requests meet: it gets to stopping the base server.                     *)
StopReachesBase == main = "waiting" ~> main = "stopping"
=============================================================================
