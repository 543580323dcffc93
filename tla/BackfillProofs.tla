---------------------------- MODULE BackfillProofs ----------------------------
(***************************************************************************)
(* What Backfill's runs show on small instances holds for any number of    *)
(* allocations and faults: an allocation that ended is asked for at most   *)
(* once more, and Stop joins the keeper.                                   *)
(***************************************************************************)
EXTENDS Backfill, TLAPS

(* Allocations are numbered in order: the one in force is the last, and    *)
(* the keeper knows none that is yet to come.                              *)
Numbered ==
  /\ allocated \in {NoID, allocations}
  /\ keeper.id <= allocations

(* An allocation asked for after its end is over, and no attempt that has  *)
(* yet to send its request will ask for it again.                          *)
LateIsOver ==
  \A n \in Alloc :
    late[n] # 0 =>
      /\ late[n] = 1 /\ n <= allocations /\ n # allocated
      /\ ~(keeper.id = n /\ keeper.at \in {"token", "approve"})

(* The WaitGroup counts the keeper from its first step to its last.        *)
Counted ==
  main # "crashed" => wg = IF keeper.at \in {"none", "spawned", "finished"} THEN 0 ELSE 1

InTime == inTime /\ main # "crashed" => keeper.at \notin {"none", "spawned"}

(* Before Start and after a crash there is no keeper, and before Start     *)
(* Stop has not begun.                                                     *)
NotStarted ==
  /\ main \in {"new", "crashed"} => keeper.at = "none"
  /\ main = "new" => ~inTime

IInv == TypeOK /\ NotStarted /\ Numbered /\ LateIsOver /\ Counted /\ InTime /\ JoinedByStop

(* The inductive invariant holds at the start.                             *)
LEMMA InitIInv == Init => IInv
<1> SUFFICES ASSUME Init PROVE IInv
  OBVIOUS
<1>1. late \in [Alloc -> Nat] /\ \A n \in Alloc : late[n] = 0
  BY DEF Init
<1>2. TypeOK
  <2>1. keeper \in [at : {"none"}, attempt : {0}, id : {0}, answer : {"none"}]
    BY DEF Init, At, NoID
  <2>2. /\ enabled \in BOOLEAN /\ done \in BOOLEAN /\ inTime \in BOOLEAN
        /\ tick \in BOOLEAN
    BY Zenon DEF Init
  <2>3. /\ allocated = 0 /\ allocations = 0 /\ main = "new" /\ wg = 0 /\ chanError = 0
        /\ faults = 0 /\ approved = {}
    BY DEF Init, NoID
  <2>4. QED
    BY <1>1, <2>1, <2>2, <2>3, BoundsAssumption DEF TypeOK
<1>3. NotStarted /\ Numbered /\ Counted /\ InTime /\ JoinedByStop
  BY DEF Init, NotStarted, Numbered, Counted, InTime, JoinedByStop, At, NoID
<1>4. QED
  BY <1>1, <1>2, <1>3 DEF IInv, LateIsOver

(* The keeper's steps that neither send a request nor end it.              *)
LEMMA KeeperStep ==
  IInv /\ (KeeperCounts \/ KeeperTicks \/ KeeperStops \/ TokenFetched \/ TokenFails
           \/ NotAllocated \/ RequestLost \/ AnswerLost \/ Approved \/ Retry \/ Refused)
    => IInv'
<1> SUFFICES ASSUME IInv,
                    KeeperCounts \/ KeeperTicks \/ KeeperStops \/ TokenFetched \/ TokenFails
                      \/ NotAllocated \/ RequestLost \/ AnswerLost \/ Approved \/ Retry
                      \/ Refused
             PROVE  IInv'
  OBVIOUS
<1> USE BoundsAssumption DEF IInv, NotStarted, Numbered, LateIsOver, Counted, InTime,
        JoinedByStop, At, NoID, Alloc, serverVars, mainVars, matchmakerVars
<1>1. CASE KeeperCounts
  BY <1>1 DEF KeeperCounts, TypeOK
<1>2. CASE KeeperTicks
  <2>1. /\ keeper.at = "select" /\ keeper' = Attempt(1)
        /\ UNCHANGED <<serverVars, mainVars, wg, chanError, matchmakerVars>>
    BY <1>2 DEF KeeperTicks
  <2>2. tick' \in BOOLEAN
    BY <1>2, Zenon DEF KeeperTicks
  <2>3. QED
    BY <2>1, <2>2 DEF Attempt, TypeOK
<1>3. CASE KeeperStops
  <2>1. /\ keeper.at = "select" /\ keeper' = At("finished") /\ wg' = wg - 1
        /\ UNCHANGED <<serverVars, mainVars, chanError, matchmakerVars>>
    BY <1>3 DEF KeeperStops
  <2>2. tick' \in BOOLEAN
    BY <1>3, Zenon DEF KeeperStops
  <2>3. QED
    BY <2>1, <2>2 DEF TypeOK
<1>4. CASE TokenFetched
  BY <1>4 DEF TokenFetched, TypeOK
<1>5. CASE TokenFails
  BY <1>5 DEF TokenFails, Fault, GiveUp, TypeOK
<1>6. CASE NotAllocated
  BY <1>6 DEF NotAllocated, GiveUp, TypeOK
<1>7. CASE RequestLost
  BY <1>7 DEF RequestLost, Fault, GiveUp, TypeOK
<1>8. CASE AnswerLost
  BY <1>8 DEF AnswerLost, Fault, GiveUp, TypeOK
<1>9. CASE Approved
  BY <1>9 DEF Approved, TypeOK
<1>10. CASE Retry
  BY <1>10 DEF Retry, Attempt, TypeOK
<1>11. CASE Refused
  BY <1>11 DEF Refused, GiveUp, TypeOK
<1>12. QED
  BY <1>1, <1>2, <1>3, <1>4, <1>5, <1>6, <1>7, <1>8, <1>9, <1>10, <1>11

(* A request that arrives late was on its way when its allocation ended:   *)
(* it is the first, and the keeper has none other under way.               *)
LEMMA RequestStep == IInv /\ RequestArrives => IInv'
<1> SUFFICES ASSUME IInv, RequestArrives PROVE IInv'
  OBVIOUS
<1>1. /\ keeper.id \in Alloc /\ keeper.at = "approve" /\ late[keeper.id] = 0
      /\ keeper.id <= allocations
  BY BoundsAssumption DEF IInv, TypeOK, Numbered, LateIsOver, RequestArrives, NoID, Alloc
<1>2. /\ keeper' \in [at : {"posted"}, attempt : 0 .. 2, id : {keeper.id},
                      answer : {"OK", "TooManyRequests", "other"}]
      /\ keeper'.id = keeper.id /\ keeper'.at = "posted"
  BY DEF IInv, TypeOK, RequestArrives
<1>3. /\ late' \in [Alloc -> Nat]
      /\ \A n \in Alloc : late'[n] = IF n = keeper.id /\ keeper.id # allocated
                                       THEN 1 ELSE late[n]
  BY <1>1 DEF IInv, TypeOK, RequestArrives
<1>4. UNCHANGED <<serverVars, mainVars, wg, tick, chanError>>
  BY DEF RequestArrives
<1>5. TypeOK'
  BY <1>1, <1>2, <1>3, <1>4, BoundsAssumption
     DEF IInv, TypeOK, RequestArrives, Fault, serverVars, mainVars
<1>6. NotStarted' /\ Numbered' /\ Counted' /\ InTime' /\ JoinedByStop'
  BY <1>1, <1>2, <1>4
     DEF IInv, TypeOK, NotStarted, Numbered, Counted, InTime, JoinedByStop, serverVars,
         mainVars
<1>7. LateIsOver'
  BY <1>1, <1>2, <1>3, <1>4 DEF IInv, LateIsOver, serverVars
<1>8. QED
  BY <1>5, <1>6, <1>7 DEF IInv

(* The game's goroutine, the daemon, the game's reader and the clock.      *)
LEMMA OtherStep == IInv /\ (Main \/ Environment) => IInv'
<1> SUFFICES ASSUME IInv, Main \/ Environment PROVE IInv'
  OBVIOUS
<1> USE BoundsAssumption DEF IInv, NotStarted, Numbered, LateIsOver, Counted, InTime,
        JoinedByStop, At, NoID, Alloc, serverVars, mainVars, matchmakerVars
<1>1. CASE Start
  <2>1. /\ main = "new" /\ main' \in {"running", "startFailed"}
        /\ keeper' = keeper \/ keeper' = At("spawned")
        /\ UNCHANGED <<serverVars, done, inTime, wg, tick, chanError, matchmakerVars>>
    BY <1>1 DEF Start
  <2>2. QED
    BY <2>1 DEF TypeOK
<1>2. CASE StopBegins
  BY <1>2 DEF StopBegins, TypeOK
<1>3. CASE StopJoins
  <2>1. main = "waiting" /\ wg = 0 /\ main' = "stopping"
    BY <1>3 DEF StopJoins
  <2>2. UNCHANGED <<serverVars, done, inTime, wg, keeper, tick, chanError, matchmakerVars>>
    BY <1>3 DEF StopJoins
  <2>3. JoinedByStop'
    BY <2>1, <2>2 DEF TypeOK
  <2>4. QED
    BY <2>1, <2>2, <2>3 DEF TypeOK
<1>4. CASE Allocate
  BY <1>4 DEF Allocate, TypeOK
<1>5. CASE Deallocate
  BY <1>5 DEF Deallocate, TypeOK
<1>6. CASE OnError
  BY <1>6 DEF OnError, TypeOK
<1>7. CASE Tick
  BY <1>7 DEF Tick, TypeOK
<1>8. CASE Crash
  <2>1. keeper' = At("none") /\ main' = "crashed"
    BY <1>8 DEF Crash
  <2>2. UNCHANGED <<serverVars, done, inTime, wg, tick, chanError, matchmakerVars>>
    BY <1>8 DEF Crash
  <2>3. TypeOK'
    BY <2>1, <2>2 DEF TypeOK
  <2>4. Numbered' /\ LateIsOver'
    BY <2>1, <2>2 DEF TypeOK
  <2>5. QED
    BY <2>1, <2>2, <2>3, <2>4
<1>9. CASE StopReturns
  BY <1>9 DEF StopReturns, TypeOK
<1>10. QED
  BY <1>1, <1>2, <1>3, <1>4, <1>5, <1>6, <1>7, <1>8, <1>9 DEF Main, Environment

(* Every step preserves the inductive invariant.                           *)
LEMMA StepIInv == IInv /\ [Next]_vars => IInv'
<1>1. CASE UNCHANGED vars
  BY <1>1 DEF IInv, TypeOK, NotStarted, Numbered, LateIsOver, Counted, InTime,
     JoinedByStop, vars,
     serverVars, mainVars, matchmakerVars
<1>2. QED
  BY <1>1, KeeperStep, RequestStep, OtherStep DEF Next, Keeper

(* So it holds always.                                                     *)
LEMMA AlwaysIInv == Spec => []IInv
BY InitIInv, StepIInv, PTL DEF Spec

-----------------------------------------------------------------------------
(* The state space of keepAliveBackfill is what TypeOK says.               *)
THEOREM TypeCorrect == Spec => []TypeOK
<1>1. IInv => TypeOK
  BY DEF IInv
<1>2. QED
  BY <1>1, AlwaysIInv, PTL

(* However the requests of keepAliveBackfill interleave with allocations   *)
(* and deallocations, an allocation that ended is asked for at most once   *)
(* more.                                                                   *)
THEOREM LateAtMostOnceHolds == Spec => []LateAtMostOnce
<1>1. IInv => LateAtMostOnce
  BY DEF IInv, TypeOK, LateIsOver, LateAtMostOnce
<1>2. QED
  BY <1>1, AlwaysIInv, PTL

(* When Stop turns to the base server, the keeper it found counted has     *)
(* finished.                                                               *)
THEOREM JoinedByStopHolds == Spec => []JoinedByStop
<1>1. IInv => JoinedByStop
  BY DEF IInv
<1>2. QED
  BY <1>1, AlwaysIInv, PTL
=============================================================================
