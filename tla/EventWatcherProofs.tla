------------------------- MODULE EventWatcherProofs -------------------------
(***************************************************************************)
(* What EventWatcher guarantees whatever the daemon publishes and however  *)
(* often, and wherever the goroutines are.                                 *)
(***************************************************************************)
EXTENDS EventWatcher, SequenceTheorems, TLAPS

(* The WaitGroup counts listenForEvents from its start to its end, and for *)
(* ever if it failed.                                                      *)
Counted == wg = IF listener \in {"init", "finished"} THEN 0 ELSE 1

TypeInv == TypeOK /\ Counted

Callbacks == [handler : {"OnSubscribeSuccess", "OnSubscribeError", "OnPublish"},
              event : Nat]

(* The types hold at the start.                                            *)
LEMMA InitTypeInv == Init => TypeInv
BY DEF Init, TypeInv, TypeOK, Counted, Kinds, Idle, NotCalled, NoID

(* The listener.                                                           *)
LEMMA ListenerTypeInv == TypeInv /\ Listener => TypeInv'
<1> SUFFICES ASSUME TypeInv, Listener PROVE TypeInv'
  OBVIOUS
<1> USE DEF TypeInv, TypeOK, Counted, vars, clientVars, feedVars, gameVars, lifeVars
<1>1. CASE ListenerFails
  BY <1>1 DEF ListenerFails, RegisterCallbacks
<1>2. CASE ListenerStarts
  BY <1>2 DEF ListenerStarts, RegisterCallbacks
<1>3. CASE ListenerCloses
  BY <1>3 DEF ListenerCloses
<1>4. CASE ListenerFinishes
  BY <1>4 DEF ListenerFinishes
<1>5. QED
  BY <1>1, <1>2, <1>3, <1>4 DEF Listener

(* The daemon.                                                             *)
LEMMA BrokerTypeInv == TypeInv /\ Broker => TypeInv'
<1> SUFFICES ASSUME TypeInv, Broker PROVE TypeInv'
  OBVIOUS
<1> USE DEF TypeInv, TypeOK, Counted, vars, clientVars, feedVars, gameVars, lifeVars,
            Enqueue, Entry
<1>1. CASE BrokerAccepts
  BY <1>1 DEF BrokerAccepts
<1>2. CASE BrokerRefuses
  BY <1>2 DEF BrokerRefuses
<1>3. CASE Resubscribes
  BY <1>3 DEF Resubscribes
<1>4. ASSUME NEW kind \in Kinds, BrokerPublishes(kind) PROVE TypeInv'
  BY <1>4 DEF BrokerPublishes
<1>5. QED
  BY <1>1, <1>2, <1>3, <1>4 DEF Broker

(* The dispatcher.                                                         *)
LEMMA DispatchTypeInv == TypeInv /\ Dispatch => TypeInv'
<1> SUFFICES ASSUME TypeInv, Dispatch PROVE TypeInv'
  OBVIOUS
<1> USE DEF TypeInv, TypeOK, Counted, vars, clientVars, feedVars, gameVars, lifeVars,
            CanDispatch, Idle
<1>1. CASE DispatchSuccess
  BY <1>1 DEF DispatchSuccess
<1>2. CASE DispatchError
  BY <1>2 DEF DispatchError
<1>3. CASE DispatchPublication
  <2>1. cbQueue \in Seq(Callbacks) /\ cbQueue # <<>> /\ cbQueue' = Tail(cbQueue)
    BY <1>3 DEF DispatchPublication, Callbacks
  <2>2. Head(cbQueue) \in Callbacks /\ Tail(cbQueue) \in Seq(Callbacks)
    BY ONLY <2>1, HeadTailProperties
  <2>3. Head(cbQueue).event \in Nat /\ cbQueue' \in Seq(Callbacks)
    BY <2>1, <2>2 DEF Callbacks
  <2>4. /\ allocatedUUID' \in Nat /\ applied' \in SUBSET Nat /\ chanError' \in {0, 1}
        /\ dispatcher' \in [at : {"idle", "OnSubscribeSuccess", "OnSubscribeError",
                                 "watchAllocation", "watchDeallocation"},
                           event : Nat]
    <3> DEFINE n == Head(cbQueue).event
    <3>1. \/ /\ UNCHANGED <<dispatcher, allocatedUUID, applied>>
             /\ PushError \/ UNCHANGED chanError
          \/ /\ watchAllocation(n) \/ watchDeallocation(n)
             /\ applied' = applied \cup {n} /\ UNCHANGED chanError
      BY ONLY <1>3 DEF DispatchPublication
    <3>2. n \in Nat
      BY <2>3
    <3> HIDE DEF n
    <3>3. chanError' \in {0, 1}
      BY <3>1 DEF PushError, ChanCap
    <3>4. applied' \in SUBSET Nat
      BY <3>1, <3>2
    <3>5. allocatedUUID' \in Nat
      BY <3>1, <3>2 DEF watchAllocation, watchDeallocation, NoID
    <3>6. QED
      BY <3>1, <3>2, <3>3, <3>4, <3>5 DEF watchAllocation, watchDeallocation
  <2>5. UNCHANGED <<gameVars, lifeVars, subscription, received, subscribeErrors,
                    resubscribes,
                    chanAllocated, chanDeallocated>>
    BY <1>3 DEF DispatchPublication
  <2>6. QED
    <3>2. UNCHANGED <<serverType, main, listener, wg, eventWatcherReady, callbacks, received,
                      subscription, chanAllocated, chanDeallocated, ready, toldAllocs,
                      toldDeallocs, subscribeErrors, resubscribes>>
      BY ONLY <2>5 DEF gameVars, lifeVars
    <3>3. cbQueue' \in Seq([handler : {"OnSubscribeSuccess", "OnSubscribeError", "OnPublish"},
                            event : Nat])
      BY <2>3, Zenon DEF Callbacks
    <3>4. TypeOK'
      BY ONLY TypeOK, <2>4, <3>2, <3>3, SMT DEF TypeOK
    <3>5. Counted'
      BY ONLY Counted, <3>2, Zenon DEF Counted
    <3>6. QED
      BY <3>4, <3>5
<1>4. QED
  BY <1>1, <1>2, <1>3 DEF Dispatch

(* The callbacks.                                                          *)
LEMMA CallbackTypeInv == TypeInv /\ Callback => TypeInv'
<1> SUFFICES ASSUME TypeInv, Callback PROVE TypeInv'
  OBVIOUS
<1> USE DEF TypeInv, TypeOK, Counted, vars, clientVars, feedVars, gameVars, lifeVars,
            Idle, HasRoom, ChanCap
<1>1. CASE OnSubscribeSuccess
  BY <1>1 DEF OnSubscribeSuccess
<1>2. CASE RetrySubscribe
  BY <1>2 DEF RetrySubscribe, PushError
<1>3. CASE SendAllocated
  BY <1>3 DEF SendAllocated
<1>4. CASE SendDeallocated
  BY <1>4 DEF SendDeallocated
<1>5. QED
  BY <1>1, <1>2, <1>3, <1>4 DEF Callback

(* The game's readers and its call of ReadyForPlayers.                     *)
LEMMA GameTypeInv == TypeInv /\ Game => TypeInv'
<1> SUFFICES ASSUME TypeInv, Game PROVE TypeInv'
  OBVIOUS
<1> USE DEF TypeInv, TypeOK, Counted, vars, clientVars, feedVars, gameVars, lifeVars,
            NotCalled, NoID
<1>1. CASE OnAllocate
  <2>1. chanAllocated \in Seq(Nat) /\ chanAllocated # <<>>
    BY <1>1 DEF OnAllocate
  <2>2. /\ Head(chanAllocated) \in Nat /\ Tail(chanAllocated) \in Seq(Nat)
        /\ Len(Tail(chanAllocated)) = Len(chanAllocated) - 1
    BY ONLY <2>1, HeadTailProperties
  <2>3. chanAllocated' \in Seq(Nat) /\ Len(chanAllocated') <= 1
    BY <1>1, <2>2 DEF OnAllocate
  <2>4. toldAllocs' \in SUBSET Nat
    BY <1>1, <2>2 DEF OnAllocate
  <2>5. UNCHANGED <<clientVars, lifeVars, chanError, allocatedUUID, chanDeallocated,
                    applied, ready, toldDeallocs>>
    BY <1>1 DEF OnAllocate
  <2>6. QED
    BY <2>3, <2>4, <2>5
<1>2. CASE OnDeallocate
  <2>1. chanDeallocated \in Seq(Nat) /\ chanDeallocated # <<>>
    BY <1>2 DEF OnDeallocate
  <2>2. /\ Head(chanDeallocated) \in Nat /\ Tail(chanDeallocated) \in Seq(Nat)
        /\ Len(Tail(chanDeallocated)) = Len(chanDeallocated) - 1
    BY ONLY <2>1, HeadTailProperties
  <2>3. chanDeallocated' \in Seq(Nat) /\ Len(chanDeallocated') <= 1
    BY <1>2, <2>2 DEF OnDeallocate
  <2>4. toldDeallocs' \in SUBSET Nat
    BY <1>2, <2>2 DEF OnDeallocate
  <2>5. UNCHANGED <<clientVars, lifeVars, chanError, allocatedUUID, chanAllocated,
                    applied, ready, toldAllocs>>
    BY <1>2 DEF OnDeallocate
  <2>6. QED
    BY <2>3, <2>4, <2>5
<1>3. CASE OnError
  BY <1>3 DEF OnError
<1>4. CASE ReadyReads
  BY <1>4 DEF ReadyReads
<1>5. CASE ReadyPatches
  BY <1>5 DEF ReadyPatches
<1>6. QED
  BY <1>1, <1>2, <1>3, <1>4, <1>5 DEF Game

(* Start and Stop.                                                         *)
LEMMA MainTypeInv == TypeInv /\ Main => TypeInv'
<1> SUFFICES ASSUME TypeInv, Main PROVE TypeInv'
  OBVIOUS
<1> USE DEF TypeInv, TypeOK, Counted, vars, clientVars, feedVars, gameVars, lifeVars,
            HasRoom, ChanCap, NoID
<1>1. CASE StartReturns
  BY <1>1 DEF StartReturns
<1>2. CASE StopBegins
  BY <1>2 DEF StopBegins
<1>3. CASE StopPublishes
  BY <1>3 DEF StopPublishes
<1>4. CASE StopReturns
  BY <1>4 DEF StopReturns
<1>5. QED
  BY <1>1, <1>2, <1>3, <1>4 DEF Main

(* Every step preserves the types.                                         *)
LEMMA StepTypeInv == TypeInv /\ [Next]_vars => TypeInv'
<1>1. TypeInv /\ UNCHANGED vars => TypeInv'
  BY DEF TypeInv, TypeOK, Counted, vars, clientVars, feedVars, gameVars, lifeVars
<1>2. QED
  BY <1>1, ListenerTypeInv, BrokerTypeInv, DispatchTypeInv, CallbackTypeInv, GameTypeInv,
     MainTypeInv DEF Next

(* The state of the event watcher stays in its types: no channel ever      *)
(* holds more than its capacity, and the WaitGroup's counter never goes    *)
(* below zero.                                                             *)
THEOREM TypeCorrect == Spec => []TypeOK
<1>1. TypeInv => TypeOK
  BY DEF TypeInv
<1>2. QED
  BY <1>1, InitTypeInv, StepTypeInv, PTL DEF Spec

-----------------------------------------------------------------------------
(* The inductive invariant behind the feed's properties.                   *)

(* What has taken effect was published, and is an allocation event.        *)
Published ==
  \A n \in applied : n \in 1 .. Len(received) /\ received[n] \in {"allocate", "deallocate"}

(* The publications queued are in order, and later than what took effect.  *)
IsPublication(e) == e.handler = "OnPublish"
Queued ==
  /\ \A i \in 1 .. Len(cbQueue) : IsPublication(cbQueue[i]) =>
       cbQueue[i].event \in 1 .. Len(received) /\ \A m \in applied : m < cbQueue[i].event
  /\ \A i, j \in 1 .. Len(cbQueue) :
       i < j /\ IsPublication(cbQueue[i]) /\ IsPublication(cbQueue[j]) =>
         cbQueue[i].event < cbQueue[j].event

(* An event being sent is the last that took effect.                       *)
Latest(n, kind) == n \in AppliedOf(kind) /\ \A m \in applied : m <= n
InProgress ==
  /\ dispatcher.at = "watchAllocation" => Latest(dispatcher.event, "allocate")
  /\ dispatcher.at = "watchDeallocation" => Latest(dispatcher.event, "deallocate")

(* allocatedUUID is what the last event that took effect made it.          *)
Current ==
  IF allocatedUUID = NoID
    THEN \A n \in AppliedOf("allocate") : \E d \in AppliedOf("deallocate") : d > n
    ELSE Latest(allocatedUUID, "allocate")

(* What is on its way to the game is newer than what the game was told.    *)
Ordered ==
  /\ \A n \in Elements(chanAllocated), m \in toldAllocs : m < n
  /\ \A n \in InFlight("watchAllocation"), m \in toldAllocs \cup Elements(chanAllocated) :
       m < n
  /\ \A n \in Elements(chanDeallocated) \ {NoID}, m \in toldDeallocs : m < n
  /\ \A n \in InFlight("watchDeallocation"),
        m \in toldDeallocs \cup Elements(chanDeallocated) : m < n

(* Only Stop sends the empty deallocation, and it does so once.            *)
StopOnce ==
  /\ NoID \in toldDeallocs \cup Elements(chanDeallocated) => main \in {"waiting", "stopped"}
  /\ ~(NoID \in toldDeallocs /\ NoID \in Elements(chanDeallocated))

FeedInv ==
  /\ Published /\ InProgress /\ Current /\ FeedLossless /\ Ordered /\ StopOnce
  /\ NoPatchAfterGone

IInv == TypeInv /\ Queued /\ FeedInv

(* The inductive invariant holds at the start.                             *)
LEMMA InitIInv == Init => IInv
<1> SUFFICES ASSUME Init PROVE Queued /\ FeedInv
  BY InitTypeInv DEF IInv
<1>1. Len(cbQueue) = 0 /\ Elements(chanAllocated) = {} /\ Elements(chanDeallocated) = {}
  BY DEF Init, Elements
<1>2. /\ AppliedOf("allocate") = {} /\ AppliedOf("deallocate") = {}
      /\ InFlight("watchAllocation") = {} /\ InFlight("watchDeallocation") = {}
  BY DEF Init, AppliedOf, InFlight, Idle
<1>3. QED
  BY <1>1, <1>2 DEF Init, Queued, FeedInv, Published, InProgress, Current, FeedLossless,
                    Ordered, StopOnce, NoPatchAfterGone, Idle, NotCalled, NoID

(* The channels hold at most one message, so they empty at once.           *)
LEMMA ElementsOfChannels ==
  ASSUME NEW ch \in Seq(Nat)
  PROVE  /\ HasRoom(ch) => /\ Elements(ch) = {}
                           /\ \A n \in Nat : Elements(Append(ch, n)) = {n}
         /\ Len(ch) <= 1 /\ ch # <<>> =>
              /\ Elements(ch) = {Head(ch)} /\ Elements(Tail(ch)) = {}
<1>1. ASSUME HasRoom(ch) PROVE Len(ch) = 0
  BY <1>1 DEF HasRoom, ChanCap
<1>2. ASSUME HasRoom(ch) PROVE Elements(ch) = {}
  BY <1>1, <1>2 DEF Elements
<1>3. ASSUME HasRoom(ch), NEW n \in Nat PROVE Elements(Append(ch, n)) = {n}
  <2>1. Len(Append(ch, n)) = 1 /\ Append(ch, n)[1] = n
    BY <1>1, <1>3
  <2>2. QED
    BY <2>1 DEF Elements
<1>4. ASSUME Len(ch) <= 1, ch # <<>>
      PROVE  Elements(ch) = {Head(ch)} /\ Elements(Tail(ch)) = {}
  <2>1. Len(ch) \in Nat \ {0}
    BY ONLY <1>4, EmptySeq, ch \in Seq(Nat)
  <2>2. Len(ch) = 1
    <3>1. \A n \in Nat \ {0} : n <= 1 => n = 1
      OBVIOUS
    <3>2. QED
      BY ONLY <1>4, <2>1, <3>1
  <2>3. Head(ch) = ch[1]
    BY <2>2
  <2>4. Len(Tail(ch)) = 0
    BY <1>4, <2>2, HeadTailProperties
  <2>5. Elements(ch) = {Head(ch)}
    BY <2>2, <2>3 DEF Elements
  <2>6. Elements(Tail(ch)) = {}
    BY <2>4 DEF Elements
  <2>7. QED
    BY <2>5, <2>6
<1>5. QED
  BY <1>2, <1>3, <1>4

(* Steps that move no event.                                               *)
LEMMA QuietStep ==
  ASSUME FeedInv, UNCHANGED <<received, feedVars, toldAllocs, toldDeallocs>>,
         UNCHANGED ready \/ ready'.at = "idle",
         \/ UNCHANGED dispatcher
         \/ /\ dispatcher.at \notin {"watchAllocation", "watchDeallocation"}
            /\ dispatcher'.at \notin {"watchAllocation", "watchDeallocation"},
         main \in {"waiting", "stopped"} => main' \in {"waiting", "stopped"}
  PROVE  FeedInv'
<1>1. \A kind : AppliedOf(kind)' = AppliedOf(kind)
  BY DEF AppliedOf, feedVars
<1>2. /\ InFlight("watchAllocation")' = InFlight("watchAllocation")
      /\ InFlight("watchDeallocation")' = InFlight("watchDeallocation")
  BY DEF InFlight
<1>3. /\ Elements(chanAllocated)' = Elements(chanAllocated)
      /\ Elements(chanDeallocated)' = Elements(chanDeallocated)
  BY DEF feedVars
<1>4. Published' /\ Current' /\ FeedLossless' /\ Ordered'
  BY <1>1, <1>2, <1>3 DEF FeedInv, Published, Current, FeedLossless, Ordered, Latest,
     feedVars
<1>5. InProgress'
  BY <1>1 DEF FeedInv, InProgress, Latest, feedVars
<1>6. StopOnce'
  BY <1>3 DEF FeedInv, StopOnce
<1>7. NoPatchAfterGone'
  BY DEF FeedInv, NoPatchAfterGone
<1>8. QED
  BY <1>4, <1>5, <1>6, <1>7 DEF FeedInv

(* The queue grows at its end with a new publication, or with a callback   *)
(* that is none, and shrinks at its front.                                 *)
LEMMA QueuedStep ==
  ASSUME TypeInv, TypeInv', Queued, applied' = applied,
         \/ UNCHANGED <<received, cbQueue>>
         \/ UNCHANGED received /\ \E h \in {"OnSubscribeSuccess", "OnSubscribeError"} :
                                     cbQueue' = Append(cbQueue, Entry(h, 0))
         \/ UNCHANGED received /\ cbQueue # <<>> /\ cbQueue' = Tail(cbQueue)
  PROVE  Queued'
<1>1. CASE UNCHANGED <<received, cbQueue>>
  BY <1>1 DEF Queued
<1>2. ASSUME NEW h \in {"OnSubscribeSuccess", "OnSubscribeError"},
             UNCHANGED received, cbQueue' = Append(cbQueue, Entry(h, 0))
      PROVE  Queued'
  <2>1. cbQueue \in Seq(Callbacks) /\ Entry(h, 0) \in Callbacks
    BY DEF TypeInv, TypeOK, Callbacks, Entry
  <2>2. /\ Len(cbQueue') = Len(cbQueue) + 1 /\ Len(cbQueue) \in Nat
        /\ \A i \in 1 .. Len(cbQueue) : cbQueue'[i] = cbQueue[i]
        /\ cbQueue'[Len(cbQueue) + 1] = Entry(h, 0)
    BY <1>2, <2>1
  <2>3. ~IsPublication(cbQueue'[Len(cbQueue) + 1])
    BY <2>2 DEF IsPublication, Entry
  <2>4. QED
    BY <1>2, <2>2, <2>3 DEF Queued, IsPublication
<1>3. ASSUME UNCHANGED received, cbQueue # <<>>, cbQueue' = Tail(cbQueue) PROVE Queued'
  <2>1. cbQueue \in Seq(Callbacks)
    BY DEF TypeInv, TypeOK, Callbacks
  <2>2. /\ Len(cbQueue') = Len(cbQueue) - 1 /\ Len(cbQueue) \in Nat
        /\ \A i \in 1 .. Len(cbQueue') : cbQueue'[i] = cbQueue[i + 1]
    <3>1. /\ Len(Tail(cbQueue)) = Len(cbQueue) - 1
          /\ \A i \in 1 .. Len(Tail(cbQueue)) : Tail(cbQueue)[i] = cbQueue[i + 1]
      BY <1>3, <2>1, HeadTailProperties, Zenon
    <3>2. Len(cbQueue) \in Nat
      BY <2>1, LenProperties, Zenon
    <3>3. QED
      BY <1>3, <3>1, <3>2, Zenon
  <2>3. \A i \in 1 .. Len(cbQueue') : i + 1 \in 1 .. Len(cbQueue)
    BY <2>2
  <2>4. ASSUME NEW i \in 1 .. Len(cbQueue'), IsPublication(cbQueue'[i])
        PROVE  /\ cbQueue'[i].event \in 1 .. Len(received')
               /\ \A m \in applied' : m < cbQueue'[i].event
    BY <1>3, <2>2, <2>3, <2>4, Zenon DEF Queued
  <2>5. ASSUME NEW i \in 1 .. Len(cbQueue'), NEW j \in 1 .. Len(cbQueue'), i < j,
               IsPublication(cbQueue'[i]), IsPublication(cbQueue'[j])
        PROVE  cbQueue'[i].event < cbQueue'[j].event
    <3>1. i + 1 < j + 1 /\ cbQueue'[i] = cbQueue[i + 1] /\ cbQueue'[j] = cbQueue[j + 1]
      BY <2>2, <2>5
    <3>2. QED
      BY <2>3, <2>5, <3>1 DEF Queued
  <2>6. QED
    BY <2>4, <2>5 DEF Queued, IsPublication
<1>4. QED
  BY <1>1, <1>2, <1>3

(* A publication is later than all before it.                              *)
LEMMA PublishStep ==
  ASSUME IInv, TypeInv', NEW kind \in Kinds, BrokerPublishes(kind)
  PROVE  Queued' /\ FeedInv'
<1> DEFINE N == Len(received)
<1>1. N \in Nat /\ received \in Seq(Kinds) /\ cbQueue \in Seq(Callbacks)
  BY DEF IInv, TypeInv, TypeOK, Callbacks
<1>2. /\ Len(received') = N + 1
      /\ \A n \in 1 .. N : received'[n] = received[n]
  BY <1>1 DEF BrokerPublishes
<1>3. /\ UNCHANGED <<feedVars, gameVars, dispatcher, main>>
      /\ cbQueue' = Append(cbQueue, Entry("OnPublish", N + 1))
  BY DEF BrokerPublishes, Enqueue, lifeVars
<1>4. \A n \in applied : n \in 1 .. N /\ received'[n] = received[n]
  BY <1>2 DEF IInv, FeedInv, Published
<1>5. Queued'
  <2>1. Entry("OnPublish", N + 1) \in Callbacks
    BY <1>1 DEF Entry, Callbacks
  <2>2. /\ Len(cbQueue') = Len(cbQueue) + 1 /\ Len(cbQueue) \in Nat
        /\ \A i \in 1 .. Len(cbQueue) : cbQueue'[i] = cbQueue[i]
        /\ cbQueue'[Len(cbQueue) + 1].event = N + 1
    BY <1>1, <1>3, <2>1 DEF Entry
  <2>3. \A i \in 1 .. Len(cbQueue) : IsPublication(cbQueue[i]) =>
          cbQueue[i].event \in 1 .. N
    BY DEF IInv, Queued
  <2>4. applied' = applied
    BY <1>3 DEF feedVars
  <2>5. ASSUME NEW i \in 1 .. Len(cbQueue'), IsPublication(cbQueue'[i])
        PROVE  /\ cbQueue'[i].event \in 1 .. Len(received')
               /\ \A m \in applied' : m < cbQueue'[i].event
    <3>1. CASE i = Len(cbQueue) + 1
      BY <1>1, <1>2, <1>4, <2>2, <2>4, <3>1
    <3>2. CASE i \in 1 .. Len(cbQueue)
      BY <1>1, <1>2, <2>2, <2>4, <2>5, <3>2 DEF IInv, Queued
    <3>3. QED
      BY <2>2, <3>1, <3>2
  <2>6. ASSUME NEW i \in 1 .. Len(cbQueue'), NEW j \in 1 .. Len(cbQueue'), i < j,
               IsPublication(cbQueue'[i]), IsPublication(cbQueue'[j])
        PROVE  cbQueue'[i].event < cbQueue'[j].event
    <3>1. i \in 1 .. Len(cbQueue) /\ cbQueue'[i] = cbQueue[i]
      BY <2>2, <2>6
    <3>2. CASE j = Len(cbQueue) + 1
      BY <1>1, <2>2, <2>3, <2>6, <3>1, <3>2
    <3>3. CASE j \in 1 .. Len(cbQueue)
      BY <2>2, <2>6, <3>1, <3>3 DEF IInv, Queued
    <3>4. QED
      BY <2>2, <3>2, <3>3
  <2>7. QED
    BY <2>5, <2>6 DEF Queued, IsPublication
<1>6. \A k : AppliedOf(k)' = AppliedOf(k)
  BY <1>3, <1>4 DEF AppliedOf, feedVars
<1>7. FeedInv'
  <2>1. Published'
    BY <1>1, <1>2, <1>3, <1>4 DEF IInv, FeedInv, Published, feedVars
  <2>2. InProgress' /\ Current'
    BY <1>3, <1>6 DEF IInv, FeedInv, InProgress, Current, Latest, feedVars
  <2>3. FeedLossless' /\ Ordered' /\ StopOnce'
    BY <1>3, <1>6 DEF IInv, FeedInv, FeedLossless, Ordered, StopOnce, InFlight, Elements,
                      feedVars, gameVars
  <2>4. NoPatchAfterGone'
    BY <1>3 DEF IInv, FeedInv, NoPatchAfterGone, gameVars
  <2>5. QED
    BY <2>1, <2>2, <2>3, <2>4 DEF FeedInv
<1>8. QED
  BY <1>5, <1>7

(* What the game was told or is about to be told has taken effect.         *)
LEMMA ToldIsApplied ==
  ASSUME IInv
  PROVE  /\ toldAllocs \cup Elements(chanAllocated) \subseteq AppliedOf("allocate")
         /\ (toldDeallocs \cup Elements(chanDeallocated)) \ {NoID}
              \subseteq AppliedOf("deallocate")
BY DEF IInv, FeedInv, FeedLossless

(* A publication runs its callback, or moves no event.                     *)
LEMMA DispatchPublicationStep ==
  ASSUME IInv, TypeInv', DispatchPublication
  PROVE  Queued' /\ FeedInv'
<1>0. PICK n, kind : n = Head(cbQueue).event /\ kind = received[n]
  OBVIOUS
<1>1. /\ cbQueue \in Seq(Callbacks) /\ cbQueue # <<>> /\ cbQueue' = Tail(cbQueue)
      /\ callbacks \subseteq {"allocate", "deallocate"}
      /\ dispatcher = Idle /\ Head(cbQueue).handler = "OnPublish"
      /\ UNCHANGED <<gameVars, received, main, chanAllocated, chanDeallocated>>
  BY DEF DispatchPublication, CanDispatch, IInv, TypeInv, TypeOK, Callbacks, lifeVars
<1>2. \/ UNCHANGED <<dispatcher, allocatedUUID, applied>>
      \/ /\ kind \in callbacks /\ applied' = applied \cup {n}
         /\ IF kind = "allocate" THEN watchAllocation(n) ELSE watchDeallocation(n)
  BY ONLY <1>0, DispatchPublication DEF DispatchPublication
<1>3. CASE UNCHANGED <<dispatcher, allocatedUUID, applied>>
  <2>1. Queued'
    BY <1>1, <1>3, QueuedStep DEF IInv
  <2>2. UNCHANGED <<received, feedVars, toldAllocs, toldDeallocs, ready, dispatcher,
                    main>>
    BY <1>1, <1>3 DEF feedVars, gameVars
  <2>3. FeedInv'
    BY <2>2, QuietStep DEF IInv
  <2>4. QED
    BY <2>1, <2>3
<1>4. /\ Len(cbQueue) \in Nat \ {0} /\ cbQueue[1] = Head(cbQueue)
      /\ Len(cbQueue') = Len(cbQueue) - 1
      /\ \A i \in 1 .. Len(cbQueue') : cbQueue'[i] = cbQueue[i + 1]
  BY <1>1, HeadTailProperties, EmptySeq
<1>5. n \in 1 .. Len(received) /\ \A m \in applied : m < n
  BY <1>0, <1>1, <1>4 DEF IInv, Queued, IsPublication
<1>6. \A i \in 1 .. Len(cbQueue') : i + 1 \in 1 .. Len(cbQueue) /\ 1 < i + 1
  BY <1>4
<1>7. \A i \in 1 .. Len(cbQueue') : IsPublication(cbQueue'[i]) => n < cbQueue'[i].event
  BY <1>0, <1>1, <1>4, <1>6 DEF IInv, Queued, IsPublication
<1>8. ASSUME kind \in callbacks, applied' = applied \cup {n},
             IF kind = "allocate" THEN watchAllocation(n) ELSE watchDeallocation(n)
      PROVE  Queued' /\ FeedInv'
  <2>1. Queued'
    <3>1. ASSUME NEW i \in 1 .. Len(cbQueue'), IsPublication(cbQueue'[i])
          PROVE  /\ cbQueue'[i].event \in 1 .. Len(received')
                 /\ \A m \in applied' : m < cbQueue'[i].event
      BY <1>1, <1>4, <1>6, <1>7, <1>8, <3>1 DEF IInv, Queued
    <3>2. ASSUME NEW i \in 1 .. Len(cbQueue'), NEW j \in 1 .. Len(cbQueue'), i < j,
                 IsPublication(cbQueue'[i]), IsPublication(cbQueue'[j])
          PROVE  cbQueue'[i].event < cbQueue'[j].event
      <4>1. i + 1 < j + 1
        BY <1>4, <3>2
      <4>2. QED
        BY <1>4, <1>6, <3>2, <4>1 DEF IInv, Queued
    <3>3. QED
      BY <3>1, <3>2 DEF Queued, IsPublication
  <2>2. /\ \A k : k # kind => AppliedOf(k)' = AppliedOf(k)
        /\ AppliedOf(kind)' = AppliedOf(kind) \cup {n}
    BY <1>0, <1>1, <1>8 DEF AppliedOf
  <2>3. Latest(n, kind)' /\ n # NoID
    <3>1. n \in AppliedOf(kind)'
      BY <2>2, Zenon
    <3>2. n \in Nat /\ n # NoID
      BY ONLY <1>5, SMT DEF NoID
    <3>3. applied \subseteq Nat
      BY Zenon DEF IInv, TypeInv, TypeOK
    <3>4. \A m \in applied' : m <= n
      BY ONLY <1>5, <1>8, <3>2, <3>3, SMT
    <3>5. QED
      BY <3>1, <3>2, <3>4, Zenon DEF Latest
  <2>4. Published'
    BY <1>0, <1>1, <1>5, <1>8 DEF IInv, FeedInv, Published
  <2>5. /\ Elements(chanAllocated)' = Elements(chanAllocated)
        /\ Elements(chanDeallocated)' = Elements(chanDeallocated)
        /\ InFlight("watchAllocation") = {} /\ InFlight("watchDeallocation") = {}
        /\ UNCHANGED <<toldAllocs, toldDeallocs, ready>>
    BY <1>1 DEF InFlight, Idle, gameVars
  <2>6. \A m \in AppliedOf("allocate") \cup AppliedOf("deallocate") \cup {NoID} : m < n
    BY <1>5, <2>3 DEF AppliedOf, NoID
  <2>7. CASE kind = "allocate"
    <3>1. /\ allocatedUUID' = n
          /\ InFlight("watchAllocation")' = {n} /\ InFlight("watchDeallocation")' = {}
      BY <1>8, <2>7 DEF watchAllocation, InFlight
    <3>2. InProgress' /\ Current'
      BY <1>8, <2>3, <2>7, <3>1 DEF watchAllocation, InProgress, Current
    <3>3. FeedLossless'
      BY <2>2, <2>5, <2>7, <3>1 DEF IInv, FeedInv, FeedLossless
    <3>4. Ordered'
      BY <2>5, <2>6, <3>1, ToldIsApplied DEF IInv, FeedInv, Ordered
    <3>5. QED
      BY <1>1, <2>1, <2>4, <2>5, <3>2, <3>3, <3>4 DEF IInv, FeedInv, StopOnce,
         NoPatchAfterGone
  <2>8. CASE kind = "deallocate"
    <3>1. /\ allocatedUUID' = NoID
          /\ InFlight("watchAllocation")' = {} /\ InFlight("watchDeallocation")' = {n}
      BY <1>8, <2>8 DEF watchDeallocation, InFlight
    <3>2. InProgress'
      BY <1>8, <2>3, <2>8 DEF watchDeallocation, InProgress
    <3>3. Current'
      BY <2>2, <2>6, <2>8, <3>1 DEF Current
    <3>4. FeedLossless'
      BY <2>2, <2>3, <2>5, <2>8, <3>1 DEF IInv, FeedInv, FeedLossless
    <3>5. Ordered'
      BY <2>5, <2>6, <3>1, ToldIsApplied DEF IInv, FeedInv, Ordered
    <3>6. QED
      BY <1>1, <2>1, <2>4, <2>5, <3>2, <3>3, <3>4, <3>5
         DEF IInv, FeedInv, StopOnce, NoPatchAfterGone
  <2>9. QED
    BY <1>1, <1>8, <2>7, <2>8
<1>9. QED
  BY <1>2, <1>3, <1>8

(* The sends: of the callback in progress, and of Stop.                    *)
LEMMA SendStep ==
  ASSUME IInv, SendAllocated \/ SendDeallocated \/ StopPublishes
  PROVE  FeedInv'
<1>1. chanAllocated \in Seq(Nat) /\ chanDeallocated \in Seq(Nat) /\ dispatcher.event \in Nat
  BY DEF IInv, TypeInv, TypeOK
<1>2. UNCHANGED <<received, applied, allocatedUUID, gameVars>>
  BY DEF SendAllocated, SendDeallocated, StopPublishes, clientVars
<1>3. \A k : AppliedOf(k)' = AppliedOf(k)
  BY <1>2 DEF AppliedOf
<1>4. Published' /\ Current' /\ NoPatchAfterGone'
  BY <1>2, <1>3 DEF IInv, FeedInv, Published, Current, NoPatchAfterGone, Latest, gameVars
<1>5. CASE SendAllocated
  <2>1. /\ Elements(chanAllocated) = {} /\ Elements(chanAllocated)' = {dispatcher.event}
        /\ Elements(chanDeallocated)' = Elements(chanDeallocated)
    BY <1>1, <1>5, ElementsOfChannels DEF SendAllocated
  <2>2. /\ InFlight("watchAllocation") = {dispatcher.event}
        /\ InFlight("watchDeallocation") = {}
        /\ InFlight("watchAllocation")' = {} /\ InFlight("watchDeallocation")' = {}
        /\ main' = main /\ dispatcher' = Idle
    BY <1>5 DEF SendAllocated, InFlight, Idle, lifeVars
  <2>3. FeedLossless' /\ Ordered'
    BY <1>2, <1>3, <2>1, <2>2 DEF IInv, FeedInv, FeedLossless, Ordered, gameVars
  <2>4. InProgress' /\ StopOnce'
    BY <1>2, <2>1, <2>2 DEF IInv, FeedInv, InProgress, StopOnce, Idle, gameVars
  <2>5. QED
    BY <1>4, <2>3, <2>4 DEF FeedInv
<1>6. CASE SendDeallocated
  <2>1. /\ Elements(chanDeallocated) = {} /\ Elements(chanDeallocated)' = {dispatcher.event}
        /\ Elements(chanAllocated)' = Elements(chanAllocated)
    BY <1>1, <1>6, ElementsOfChannels DEF SendDeallocated
  <2>2. /\ InFlight("watchDeallocation") = {dispatcher.event}
        /\ InFlight("watchAllocation") = {}
        /\ InFlight("watchAllocation")' = {} /\ InFlight("watchDeallocation")' = {}
        /\ main' = main /\ dispatcher' = Idle
    BY <1>6 DEF SendDeallocated, InFlight, Idle, lifeVars
  <2>3. dispatcher.event # NoID
    BY <1>6 DEF SendDeallocated, IInv, FeedInv, Published, InProgress, Latest, AppliedOf,
       NoID
  <2>4. FeedLossless' /\ Ordered'
    BY <1>2, <1>3, <2>1, <2>2, <2>3 DEF IInv, FeedInv, FeedLossless, Ordered, gameVars
  <2>5. InProgress' /\ StopOnce'
    BY <1>2, <2>1, <2>2, <2>3 DEF IInv, FeedInv, InProgress, StopOnce, Idle, gameVars
  <2>6. QED
    BY <1>4, <2>4, <2>5 DEF FeedInv
<1>7. CASE StopPublishes
  <2>1. /\ Elements(chanDeallocated) = {} /\ Elements(chanDeallocated)' = {NoID}
        /\ Elements(chanAllocated)' = Elements(chanAllocated)
    BY <1>1, <1>7, ElementsOfChannels DEF StopPublishes, NoID
  <2>2. main = "publishing" /\ main' = "waiting" /\ dispatcher' = dispatcher
    BY <1>7 DEF StopPublishes, clientVars
  <2>3. /\ InFlight("watchAllocation")' = InFlight("watchAllocation")
        /\ InFlight("watchDeallocation")' = InFlight("watchDeallocation")
    BY <2>2 DEF InFlight
  <2>4. \A n \in InFlight("watchDeallocation") : NoID < n
    BY DEF IInv, FeedInv, Published, InProgress, Latest, AppliedOf, NoID, InFlight
  <2>5. FeedLossless' /\ Ordered'
    BY <1>2, <1>3, <2>1, <2>3, <2>4 DEF IInv, FeedInv, FeedLossless, Ordered, gameVars
  <2>6. InProgress' /\ StopOnce'
    BY <1>2, <1>3, <2>1, <2>2 DEF IInv, FeedInv, InProgress, StopOnce, Latest, gameVars
  <2>7. QED
    BY <1>4, <2>5, <2>6 DEF FeedInv
<1>8. QED
  BY <1>5, <1>6, <1>7

(* The game reads a channel.                                               *)
LEMMA ReceiveStep ==
  ASSUME IInv, OnAllocate \/ OnDeallocate
  PROVE  FeedInv'
<1>1. /\ chanAllocated \in Seq(Nat) /\ chanDeallocated \in Seq(Nat)
      /\ Len(chanAllocated) <= 1 /\ Len(chanDeallocated) <= 1
  BY DEF IInv, TypeInv, TypeOK
<1>2. UNCHANGED <<received, applied, allocatedUUID, ready, dispatcher, main>>
  BY DEF OnAllocate, OnDeallocate, clientVars, lifeVars
<1>3. /\ \A k : AppliedOf(k)' = AppliedOf(k)
      /\ InFlight("watchAllocation")' = InFlight("watchAllocation")
      /\ InFlight("watchDeallocation")' = InFlight("watchDeallocation")
  BY <1>2 DEF AppliedOf, InFlight
<1>4. Published' /\ Current' /\ InProgress' /\ NoPatchAfterGone'
  BY <1>2, <1>3 DEF IInv, FeedInv, Published, Current, InProgress, NoPatchAfterGone,
     Latest
<1>5. CASE OnAllocate
  <2>1. /\ Elements(chanAllocated) = {Head(chanAllocated)} /\ Elements(chanAllocated)' = {}
        /\ Elements(chanDeallocated)' = Elements(chanDeallocated)
        /\ toldAllocs' = toldAllocs \cup {Head(chanAllocated)}
        /\ toldDeallocs' = toldDeallocs
    BY <1>1, <1>5, ElementsOfChannels DEF OnAllocate
  <2>2. FeedLossless' /\ Ordered' /\ StopOnce'
    BY <1>2, <1>3, <2>1 DEF IInv, FeedInv, FeedLossless, Ordered, StopOnce
  <2>3. QED
    BY <1>4, <2>2 DEF FeedInv
<1>6. CASE OnDeallocate
  <2>1. /\ Elements(chanDeallocated) = {Head(chanDeallocated)}
        /\ Elements(chanDeallocated)' = {}
        /\ Elements(chanAllocated)' = Elements(chanAllocated)
        /\ toldDeallocs' = toldDeallocs \cup {Head(chanDeallocated)}
        /\ toldAllocs' = toldAllocs
    BY <1>1, <1>6, ElementsOfChannels DEF OnDeallocate
  <2>2. FeedLossless' /\ Ordered' /\ StopOnce'
    BY <1>2, <1>3, <2>1 DEF IInv, FeedInv, FeedLossless, Ordered, StopOnce
  <2>3. QED
    BY <1>4, <2>2 DEF FeedInv
<1>7. QED
  BY <1>5, <1>6

(* What the game was told is what the server knows, or older.              *)
LEMMA VisibleWhenTold == IInv => ToldIsVisible
<1> SUFFICES ASSUME IInv PROVE ToldIsVisible
  OBVIOUS
<1>1. ASSUME NEW n \in toldAllocs
      PROVE  allocatedUUID >= n \/ \E d \in AppliedOf("deallocate") : d > n
  <2>1. n \in AppliedOf("allocate") /\ n \in Nat /\ allocatedUUID \in Nat
    BY ToldIsApplied DEF IInv, TypeInv, TypeOK
  <2>2. QED
    BY <2>1 DEF IInv, FeedInv, Current, Latest, AppliedOf
<1>2. ASSUME NEW d \in toldDeallocs, allocatedUUID # NoID PROVE allocatedUUID > d
  <2>1. d \in Nat /\ allocatedUUID \in Nat /\ Latest(allocatedUUID, "allocate")
    BY <1>2 DEF IInv, TypeInv, TypeOK, FeedInv, Current
  <2>2. CASE d = NoID
    BY <1>2, <2>1, <2>2 DEF NoID
  <2>3. CASE d # NoID
    <3>1. d \in AppliedOf("deallocate")
      BY <2>3, ToldIsApplied
    <3>2. QED
      BY <2>1, <3>1 DEF Latest, AppliedOf
  <2>4. QED
    BY <2>2, <2>3
<1>3. QED
  BY <1>1, <1>2 DEF ToldIsVisible

(* ReadyForPlayers picks up an allocation newer than every deallocation    *)
(* the game was told of.                                                   *)
LEMMA ReadyStep ==
  ASSUME IInv, ReadyReads
  PROVE  FeedInv'
<1>1. UNCHANGED <<received, feedVars, toldAllocs, toldDeallocs, dispatcher, main>>
  BY DEF ReadyReads, clientVars, lifeVars
<1>2. \A d \in toldDeallocs : d < allocatedUUID
  BY VisibleWhenTold DEF ReadyReads, ToldIsVisible, IInv, TypeInv, TypeOK
<1>3. NoPatchAfterGone'
  BY <1>2 DEF ReadyReads, NoPatchAfterGone
<1>4. /\ \A k : AppliedOf(k)' = AppliedOf(k)
      /\ \A k : InFlight(k)' = InFlight(k)
      /\ Elements(chanAllocated)' = Elements(chanAllocated)
      /\ Elements(chanDeallocated)' = Elements(chanDeallocated)
  BY <1>1 DEF AppliedOf, InFlight, feedVars
<1>5. Published' /\ InProgress' /\ Current'
  BY <1>1, <1>4 DEF IInv, FeedInv, Published, InProgress, Current, Latest, feedVars
<1>6. FeedLossless' /\ Ordered' /\ StopOnce'
  BY <1>1, <1>4 DEF IInv, FeedInv, FeedLossless, Ordered, StopOnce
<1>7. QED
  BY <1>3, <1>5, <1>6 DEF FeedInv

(* Every step preserves the inductive invariant.                           *)
LEMMA StepIInv == IInv /\ [Next]_vars => IInv'
<1> SUFFICES ASSUME IInv, [Next]_vars PROVE Queued' /\ FeedInv'
  BY StepTypeInv DEF IInv
<1>0. TypeInv /\ TypeInv' /\ Queued /\ FeedInv
  BY StepTypeInv DEF IInv
<1>1. CASE \/ Listener \/ Resubscribes \/ OnSubscribeSuccess \/ RetrySubscribe \/ OnError
           \/ ReadyPatches \/ StartReturns \/ StopBegins \/ StopReturns \/ UNCHANGED vars
  <2>1. UNCHANGED <<received, cbQueue, feedVars, toldAllocs, toldDeallocs>>
    BY <1>1 DEF Listener, ListenerFails, ListenerStarts, ListenerCloses, ListenerFinishes,
         Resubscribes, OnSubscribeSuccess, RetrySubscribe, OnError, ReadyPatches,
         StartReturns,
         StopBegins, StopReturns, vars, clientVars, gameVars
  <2>2. UNCHANGED ready \/ ready'.at = "idle"
    BY <1>1 DEF Listener, ListenerFails, ListenerStarts, ListenerCloses, ListenerFinishes,
         Resubscribes, OnSubscribeSuccess, RetrySubscribe, OnError, ReadyPatches,
         StartReturns,
         StopBegins, StopReturns, vars, gameVars, NotCalled
  <2>3. \/ UNCHANGED dispatcher
        \/ /\ dispatcher.at \notin {"watchAllocation", "watchDeallocation"}
           /\ dispatcher'.at \notin {"watchAllocation", "watchDeallocation"}
    BY <1>1 DEF Listener, ListenerFails, ListenerStarts, ListenerCloses, ListenerFinishes,
         Resubscribes, OnSubscribeSuccess, RetrySubscribe, OnError, ReadyPatches,
         StartReturns,
         StopBegins, StopReturns, vars, clientVars, Idle
  <2>4. main \in {"waiting", "stopped"} => main' \in {"waiting", "stopped"}
    BY <1>1 DEF Listener, ListenerFails, ListenerStarts, ListenerCloses, ListenerFinishes,
         Resubscribes, OnSubscribeSuccess, RetrySubscribe, OnError, ReadyPatches,
         StartReturns,
         StopBegins, StopReturns, vars, lifeVars
  <2>5. FeedInv'
    BY <1>0, <2>1, <2>2, <2>3, <2>4, QuietStep
  <2>6. applied' = applied
    BY <2>1 DEF feedVars
  <2>7. QED
    BY <1>0, <2>1, <2>5, <2>6, QueuedStep
<1>2. CASE BrokerAccepts \/ BrokerRefuses \/ DispatchSuccess \/ DispatchError
  <2>1. UNCHANGED <<received, feedVars, toldAllocs, toldDeallocs, ready, main>>
    BY <1>2 DEF BrokerAccepts, BrokerRefuses, DispatchSuccess, DispatchError, gameVars,
       lifeVars
  <2>2. \/ UNCHANGED dispatcher
        \/ /\ dispatcher.at \notin {"watchAllocation", "watchDeallocation"}
           /\ dispatcher'.at \notin {"watchAllocation", "watchDeallocation"}
    BY <1>2 DEF BrokerAccepts, BrokerRefuses, DispatchSuccess, DispatchError,
       CanDispatch, Idle
  <2>3. \/ \E h \in {"OnSubscribeSuccess", "OnSubscribeError"} :
             cbQueue' = Append(cbQueue, Entry(h, 0))
        \/ cbQueue # <<>> /\ cbQueue' = Tail(cbQueue)
    BY <1>2 DEF BrokerAccepts, BrokerRefuses, DispatchSuccess, DispatchError, CanDispatch,
                Enqueue
  <2>4. FeedInv'
    BY <1>0, <2>1, <2>2, QuietStep
  <2>5. applied' = applied
    BY <2>1 DEF feedVars
  <2>6. QED
    BY <1>0, <2>1, <2>3, <2>4, <2>5, QueuedStep
<1>3. ASSUME NEW kind \in Kinds, BrokerPublishes(kind) PROVE Queued' /\ FeedInv'
  BY <1>0, <1>3, PublishStep
<1>4. CASE DispatchPublication
  BY <1>0, <1>4, DispatchPublicationStep
<1>5. CASE \/ SendAllocated \/ SendDeallocated \/ StopPublishes \/ OnAllocate \/ OnDeallocate
           \/ ReadyReads
  <2>1. UNCHANGED <<received, cbQueue, applied>>
    BY <1>5 DEF SendAllocated, SendDeallocated, StopPublishes, OnAllocate, OnDeallocate,
                ReadyReads, clientVars, feedVars
  <2>2. Queued'
    BY <1>0, <2>1, QueuedStep
  <2>3. FeedInv'
    BY <1>5, SendStep, ReceiveStep, ReadyStep
  <2>4. QED
    BY <2>2, <2>3
<1>6. QED
  BY <1>1, <1>2, <1>3, <1>4, <1>5 DEF Next, Broker, Dispatch, Callback, Game, Main

(* So it holds always.                                                     *)
LEMMA AlwaysIInv == Spec => []IInv
BY InitIInv, StepIInv, PTL DEF Spec

(* No event is lost between allocatedUUID and the game, and none invented. *)
THEOREM FeedLosslessHolds == Spec => []FeedLossless
<1>1. IInv => FeedLossless
  BY DEF IInv, FeedInv
<1>2. QED
  BY <1>1, AlwaysIInv, PTL

(* What the game was told, the server knows.                               *)
THEOREM ToldIsVisibleHolds == Spec => []ToldIsVisible
BY VisibleWhenTold, AlwaysIInv, PTL

(* ReadyForPlayers patches no allocation the game knew to be gone.         *)
THEOREM NoPatchAfterGoneHolds == Spec => []NoPatchAfterGone
<1>1. IInv => NoPatchAfterGone
  BY DEF IInv, FeedInv
<1>2. QED
  BY <1>1, AlwaysIInv, PTL

(* A channel with at most one element is that element alone.               *)
LEMMA OneElement ==
  ASSUME NEW ch \in Seq(Nat), Len(ch) <= 1, NEW n \in Elements(ch)
  PROVE  ch = <<n>>
<1>1. PICK i \in 1 .. Len(ch) : n = ch[i]
  BY DEF Elements
<1>2. Len(ch) = 1 /\ i = 1
  <2>1. \A l \in Nat : \A j \in 1 .. l : l <= 1 => l = 1 /\ j = 1
    OBVIOUS
  <2>2. ch \in Seq(Nat) /\ Len(ch) <= 1
    OBVIOUS
  <2>3. Len(ch) \in Nat
    BY ONLY <2>2, LenProperties
  <2>4. QED
    BY ONLY <1>1, <2>1, <2>2, <2>3
<1>3. ch \in Seq(Nat) /\ <<n>> \in Seq(Nat) /\ Len(<<n>>) = 1 /\ <<n>>[1] = n
  BY <1>1, ElementOfSeq
<1>4. QED
  BY <1>1, <1>2, <1>3, SeqEqual

(* A number above every number of a set is not in it.                      *)
LEMMA Irreflexive ==
  ASSUME NEW S \in SUBSET Nat, NEW x, \A m \in S : m < x
  PROVE  x \notin S
<1>1. \A m \in Nat : ~(m < m)
  OBVIOUS
<1>2. QED
  BY <1>1

(* One channel overtakes the other by one event at most.                   *)
THEOREM OvertakenByOneHolds == Spec => []OvertakenByOne
<1>1. IInv => OvertakenByOne
  <2> SUFFICES ASSUME IInv PROVE OvertakenByOne
    OBVIOUS
  <2>1. /\ chanAllocated \in Seq(Nat) /\ Len(chanAllocated) <= 1
        /\ \A n \in applied : n \in Nat /\ n # NoID
    BY DEF IInv, TypeInv, TypeOK, FeedInv, Published, NoID
  <2>2. ASSUME NEW d \in toldDeallocs, NEW n \in AppliedOf("allocate"), n < d,
               n \notin toldAllocs
        PROVE  chanAllocated = <<n>>
    <3>1. d # NoID /\ d \in applied
      BY <2>1, <2>2, ToldIsApplied DEF AppliedOf, NoID
    <3>2. n \notin InFlight("watchAllocation")
      BY <2>1, <2>2, <3>1 DEF IInv, FeedInv, InProgress, Latest, InFlight, AppliedOf
    <3>3. n \in Elements(chanAllocated)
      BY <2>2, <3>2 DEF IInv, FeedInv, FeedLossless
    <3>4. QED
      BY ONLY <2>1, <3>3, OneElement
  <2>3. ASSUME NEW n \in toldAllocs, NEW d \in AppliedOf("deallocate"), d < n,
               d \notin toldDeallocs
        PROVE  d \in Elements(chanDeallocated)
    <3>1. n \in applied /\ d \in applied /\ d # NoID
      BY <2>1, <2>3, ToldIsApplied DEF AppliedOf
    <3>2. d \notin InFlight("watchDeallocation")
      BY <2>1, <2>3, <3>1 DEF IInv, FeedInv, InProgress, Latest, InFlight, AppliedOf
    <3>3. QED
      BY <2>3, <3>1, <3>2 DEF IInv, FeedInv, FeedLossless
  <2>4. QED
    BY <2>2, <2>3 DEF OvertakenByOne
<1>2. QED
  BY <1>1, AlwaysIInv, PTL

(* The game is told of each kind of event in order, and of none twice.     *)
THEOREM FeedInOrderHolds == Spec => FeedInOrder
<1>1. IInv /\ [Next]_vars => [ToldInOrder]_vars
  <2> SUFFICES ASSUME IInv, Next PROVE ToldInOrder
    OBVIOUS
  <2>1. TypeInv
    BY DEF IInv
  <2>2. CASE OnAllocate
    <3>1. /\ chanAllocated \in Seq(Nat) /\ Len(chanAllocated) <= 1
      BY <2>1 DEF TypeInv, TypeOK
    <3>2. Elements(chanAllocated) = {Head(chanAllocated)}
      BY <2>2, <3>1, ElementsOfChannels DEF OnAllocate
    <3>3. \A m \in toldAllocs : m < Head(chanAllocated)
      BY <3>2 DEF IInv, FeedInv, Ordered
    <3>4. Head(chanAllocated) \notin toldAllocs
      <4>1. toldAllocs \subseteq Nat
        BY <2>1 DEF TypeInv, TypeOK
      <4>2. QED
        BY ONLY <3>3, <4>1, Irreflexive
    <3>5. QED
      BY <2>2, <3>3, <3>4 DEF OnAllocate, ToldInOrder
  <2>3. CASE OnDeallocate
    <3>1. /\ chanDeallocated \in Seq(Nat) /\ Len(chanDeallocated) <= 1
      BY <2>1 DEF TypeInv, TypeOK
    <3>2. Elements(chanDeallocated) = {Head(chanDeallocated)}
      BY <2>3, <3>1, ElementsOfChannels DEF OnDeallocate
    <3>3. Head(chanDeallocated) # NoID => \A m \in toldDeallocs : m < Head(chanDeallocated)
      BY <3>2 DEF IInv, FeedInv, Ordered
    <3>4. Head(chanDeallocated) \notin toldDeallocs
      <4>1. toldDeallocs \subseteq Nat
        BY <2>1 DEF TypeInv, TypeOK
      <4>2. CASE Head(chanDeallocated) = NoID
        BY <3>2, <4>2 DEF IInv, FeedInv, StopOnce
      <4>3. CASE Head(chanDeallocated) # NoID
        BY ONLY <3>3, <4>1, <4>3, Irreflexive
      <4>4. QED
        BY ONLY <4>2, <4>3
    <3>5. QED
      BY <2>3, <3>3, <3>4 DEF OnDeallocate, ToldInOrder
  <2>4. ASSUME ~OnAllocate, ~OnDeallocate PROVE ToldInOrder
    <3>1. UNCHANGED <<toldAllocs, toldDeallocs>>
      BY <2>4 DEF Next, Listener, Broker, Dispatch, Callback, Game, Main, ListenerFails,
           ListenerStarts, ListenerCloses, ListenerFinishes, BrokerAccepts, BrokerRefuses,
           Resubscribes, BrokerPublishes, DispatchSuccess, DispatchError,
           DispatchPublication,
           OnSubscribeSuccess, RetrySubscribe, SendAllocated, SendDeallocated, OnError,
           ReadyReads, ReadyPatches, StartReturns, StopBegins, StopPublishes, StopReturns,
           gameVars
    <3>2. /\ UNCHANGED chanAllocated \/ chanAllocated' = Append(chanAllocated, dispatcher.event)
          /\ \/ UNCHANGED chanDeallocated
             \/ \E n \in Nat : chanDeallocated' = Append(chanDeallocated, n)
      BY <2>1, <2>4 DEF Next, Listener, Broker, Dispatch, Callback, Game, Main,
         ListenerFails,
           ListenerStarts, ListenerCloses, ListenerFinishes, BrokerAccepts, BrokerRefuses,
           Resubscribes, BrokerPublishes, DispatchSuccess, DispatchError,
           DispatchPublication,
           OnSubscribeSuccess, RetrySubscribe, SendAllocated, SendDeallocated, OnError,
           ReadyReads, ReadyPatches, StartReturns, StopBegins, StopPublishes, StopReturns,
           feedVars, TypeInv, TypeOK, NoID
    <3>3. ~(Len(chanAllocated') < Len(chanAllocated))
      BY <2>1, <3>2 DEF TypeInv, TypeOK
    <3>4. ~(Len(chanDeallocated') < Len(chanDeallocated))
      BY <2>1, <3>2 DEF TypeInv, TypeOK
    <3>5. QED
      BY <3>1, <3>3, <3>4 DEF ToldInOrder
  <2>5. QED
    BY <2>2, <2>3, <2>4
<1>2. QED
  BY <1>1, AlwaysIInv, PTL DEF Spec, FeedInOrder

-----------------------------------------------------------------------------
(* The event watcher implements the feed a game is promised.               *)

(* The daemon publishes no more events than the feed has.                  *)
Bounded == Len(received) <= MaxEvents

(* Only a publication makes the sequence of publications longer.           *)
LEMMA AlwaysBounded == Spec => []Bounded
<1>1. Init => Bounded
  BY ConstantsAssumption DEF Init, Bounded
<1>2. TypeInv /\ Bounded /\ [Next]_vars => Bounded'
  <2> SUFFICES ASSUME TypeInv, Bounded, [Next]_vars PROVE Bounded'
    OBVIOUS
  <2>1. ASSUME NEW kind \in Kinds, BrokerPublishes(kind) PROVE Bounded'
    <3>1. received \in Seq(Kinds) /\ received' = Append(received, kind)
          /\ Len(received) < MaxEvents
      BY <2>1 DEF TypeInv, TypeOK, BrokerPublishes
    <3>2. Len(received') = Len(received) + 1 /\ Len(received) \in Nat
      BY ONLY <3>1, <2>1, AppendProperties, LenProperties
    <3>3. QED
      BY <3>1, <3>2, ConstantsAssumption DEF Bounded
  <2>2. ASSUME \A kind \in Kinds : ~BrokerPublishes(kind) PROVE received' = received
    BY <2>2 DEF Next, Listener, Broker, Dispatch, Callback, Game, Main, ListenerFails,
         ListenerStarts, ListenerCloses, ListenerFinishes, BrokerAccepts, BrokerRefuses,
         Resubscribes, DispatchSuccess, DispatchError, DispatchPublication,
         OnSubscribeSuccess, RetrySubscribe, SendAllocated, SendDeallocated, OnAllocate,
         OnDeallocate, OnError, ReadyReads, ReadyPatches, StartReturns, StopBegins,
         StopPublishes, StopReturns, vars, clientVars
  <2>3. QED
    BY <2>1, <2>2 DEF Bounded
<1>3. QED
  BY <1>1, <1>2, InitTypeInv, StepTypeInv, PTL DEF Spec

(* A channel without room holds one message; with room it holds none.      *)
LEMMA EmptyChannel ==
  ASSUME NEW ch \in Seq(Nat), HasRoom(ch)
  PROVE  ch = <<>> /\ \A n \in Nat : Append(ch, n) = <<n>>
<1>1. Len(ch) = 0
  BY DEF HasRoom, ChanCap
<1>2. ch = <<>>
  BY <1>1, EmptySeq
<1>3. QED
  BY <1>2

(* Reading the channel that comes first reads the front of the whole.      *)
LEMMA TailOfConcat ==
  ASSUME NEW S, NEW s \in Seq(S), NEW t \in Seq(S), s # <<>>
  PROVE  s \o t # <<>> /\ Tail(s \o t) = Tail(s) \o t
<1>1. /\ s \o t \in Seq(S) /\ Len(s \o t) = Len(s) + Len(t)
      /\ \A i \in 1 .. Len(s) + Len(t) : (s \o t)[i] =
                     IF i <= Len(s) THEN s[i] ELSE t[i - Len(s)]
  BY ONLY s \in Seq(S), t \in Seq(S), ConcatProperties
<1>2. Len(s) \in Nat \ {0} /\ Len(t) \in Nat
  BY EmptySeq, LenProperties
<1>3. s \o t # <<>>
  BY <1>1, <1>2, EmptySeq
<1>4. /\ Tail(s \o t) \in Seq(S) /\ Len(Tail(s \o t)) = Len(s) + Len(t) - 1
      /\ \A i \in 1 .. Len(Tail(s \o t)) : Tail(s \o t)[i] = (s \o t)[i + 1]
  BY <1>1, <1>3, HeadTailProperties
<1>5. /\ Tail(s) \in Seq(S) /\ Len(Tail(s)) = Len(s) - 1
      /\ \A i \in 1 .. Len(Tail(s)) : Tail(s)[i] = s[i + 1]
  BY HeadTailProperties
<1>6. /\ Tail(s) \o t \in Seq(S) /\ Len(Tail(s) \o t) = Len(Tail(s)) + Len(t)
      /\ \A i \in 1 .. Len(Tail(s)) + Len(t) : (Tail(s) \o t)[i] =
                     IF i <= Len(Tail(s)) THEN Tail(s)[i] ELSE t[i - Len(Tail(s))]
  BY ONLY <1>5, t \in Seq(S), ConcatProperties
<1>7. Len(Tail(s \o t)) = Len(Tail(s) \o t)
  BY <1>2, <1>4, <1>5, <1>6
<1>8. ASSUME NEW i \in 1 .. Len(Tail(s \o t)) PROVE Tail(s \o t)[i] = (Tail(s) \o t)[i]
  <2>1. i + 1 \in 1 .. Len(s) + Len(t) /\ i \in 1 .. Len(Tail(s)) + Len(t)
    BY <1>2, <1>4, <1>5
  <2>2. CASE i + 1 <= Len(s)
    <3>1. i \in 1 .. Len(Tail(s)) /\ i <= Len(Tail(s))
      BY <1>2, <1>5, <2>1, <2>2
    <3>2. QED
      BY <1>1, <1>4, <1>5, <1>6, <2>1, <2>2, <3>1
  <2>3. CASE ~(i + 1 <= Len(s))
    <3>1. ~(i <= Len(Tail(s))) /\ i - Len(Tail(s)) = i + 1 - Len(s)
      BY <1>2, <1>5, <2>1, <2>3
    <3>2. QED
      BY <1>1, <1>4, <1>6, <2>1, <2>3, <3>1
  <2>4. QED
    BY <2>2, <2>3
<1>9. QED
  BY <1>3, <1>4, <1>6, <1>7, <1>8, SeqEqual

(* What waits for the game is a sequence of events.                        *)
LEMMA UntoldTypes ==
  ASSUME TypeInv
  PROVE  /\ chanAllocated \in Seq(Nat) /\ Deallocations \in Seq(Nat)
         /\ \A at : Sending(at) \in Seq(Nat)
         /\ \A k : Untold(k) \in Seq(Nat)
<1>1. chanAllocated \in Seq(Nat) /\ chanDeallocated \in Seq(Nat) /\ dispatcher.event \in Nat
  BY DEF TypeInv, TypeOK
<1>2. <<>> \in Seq(Nat) /\ <<dispatcher.event>> \in Seq(Nat)
  BY <1>1
<1>3. Deallocations \in Seq(Nat) /\ \A at : Sending(at) \in Seq(Nat)
  BY <1>1, <1>2 DEF Deallocations, Sending
<1>4. ASSUME NEW k PROVE Untold(k) \in Seq(Nat)
  <2>1. CASE k = "allocate"
    BY <1>1, <1>3, <2>1, ConcatProperties DEF Untold
  <2>2. CASE k # "allocate"
    BY <1>1, <1>3, <2>2, ConcatProperties DEF Untold
  <2>3. QED
    BY <2>1, <2>2
<1>5. QED
  BY <1>1, <1>3, <1>4

(* Three ways a step of the event watcher looks to the feed: it changes    *)
(* nothing, the game is told of an event, an event takes effect.           *)
LEMMA FeedStutters ==
  ASSUME UNCHANGED <<allocatedUUID, applied>>,
         \A k \in {"allocate", "deallocate"} : Untold(k)' = Untold(k)
  PROVE  UNCHANGED Feed!feedVars
BY DEF Feed!feedVars

(* The game is told of an event.                                           *)
LEMMA FeedTells ==
  ASSUME UNCHANGED <<allocatedUUID, applied>>, NEW k \in {"allocate", "deallocate"},
         Untold(k) # <<>>, Untold(k)' = Tail(Untold(k)),
         \A j \in {"allocate", "deallocate"} \ {k} : Untold(j)' = Untold(j)
  PROVE  Feed!Next
<1> DEFINE untold == [j \in {"allocate", "deallocate"} |-> Untold(j)]
<1>1. untold' = [untold EXCEPT ![k] = Tail(@)] /\ untold[k] # <<>>
  OBVIOUS
<1>2. Feed!Tell(k)
  BY <1>1 DEF Feed!Tell
<1>3. QED
  BY <1>2 DEF Feed!Next, Feed!Kinds

(* An event takes effect.                                                  *)
LEMMA FeedApplies ==
  ASSUME NEW k \in {"allocate", "deallocate"}, NEW n \in 1 .. MaxEvents,
         \A m \in applied : m < n,
         \A j \in {"allocate", "deallocate"} : Len(Untold(j)) <= 1,
         applied' = applied \cup {n},
         allocatedUUID' = IF k = "allocate" THEN n ELSE NoID,
         Untold(k)' = Append(Untold(k), n),
         \A j \in {"allocate", "deallocate"} \ {k} : Untold(j)' = Untold(j)
  PROVE  Feed!Next
<1> DEFINE untold == [j \in {"allocate", "deallocate"} |-> Untold(j)]
<1>1. /\ untold' = [untold EXCEPT ![k] = Append(@, n)]
      /\ \A j \in {"allocate", "deallocate"} : Len(untold[j]) <= 1
  OBVIOUS
<1>2. Feed!Apply(k, n)
  BY <1>1 DEF Feed!Apply, Feed!Kinds
<1>3. QED
  BY <1>2 DEF Feed!Next, Feed!Kinds

(* A publication that runs a callback takes effect; any other is nothing   *)
(* to the feed.                                                            *)
LEMMA FeedPublication ==
  ASSUME IInv, Bounded, DispatchPublication
  PROVE  [Feed!Next]_Feed!feedVars
<1> DEFINE n == Head(cbQueue).event
<1>1. /\ TypeInv /\ UNCHANGED <<chanAllocated, chanDeallocated>>
      /\ dispatcher = Idle
  BY DEF IInv, DispatchPublication, CanDispatch
<1>2. CASE UNCHANGED <<dispatcher, allocatedUUID, applied>>
  <2>1. \A k \in {"allocate", "deallocate"} : Untold(k)' = Untold(k)
    BY <1>1, <1>2 DEF Untold, Sending, Deallocations
  <2>2. QED
    BY <1>2, <2>1, FeedStutters
<1>3. ASSUME received[n] \in callbacks,
             IF received[n] = "allocate" THEN watchAllocation(n) ELSE watchDeallocation(n),
             applied' = applied \cup {n}
      PROVE  Feed!Next
  <2>1. /\ cbQueue \in Seq(Callbacks) /\ cbQueue # <<>> /\ IsPublication(Head(cbQueue))
    BY <1>1 DEF TypeInv, TypeOK, Callbacks, DispatchPublication, CanDispatch,
       IsPublication
  <2>2. 1 \in 1 .. Len(cbQueue) /\ cbQueue[1] = Head(cbQueue)
    BY <2>1, EmptySeq
  <2>3. n \in 1 .. Len(received) /\ \A m \in applied : m < n
    BY <2>1, <2>2 DEF IInv, Queued
  <2>4. n \in 1 .. MaxEvents /\ n \in Nat
    <3>1. Len(received) \in Nat
      BY <1>1, LenProperties DEF TypeInv, TypeOK
    <3>2. QED
      BY <2>3, <3>1, ConstantsAssumption DEF Bounded
  <2>5. received[n] \in {"allocate", "deallocate"}
    BY <1>1, <1>3 DEF TypeInv, TypeOK
  <2>6. /\ Untold("allocate") = chanAllocated /\ Untold("deallocate") = Deallocations
        /\ Len(chanAllocated) <= 1 /\ Len(Deallocations) <= 1
    <3>1. Sending("watchAllocation") = <<>> /\ Sending("watchDeallocation") = <<>>
      BY <1>1 DEF Sending, Idle
    <3>2. Untold("allocate") = chanAllocated /\ Untold("deallocate") = Deallocations
      BY <1>1, <3>1, UntoldTypes, ConcatEmptySeq DEF Untold
    <3>3. Len(chanAllocated) <= 1 /\ Len(Deallocations) <= 1
      BY <1>1 DEF TypeInv, TypeOK, Deallocations
    <3>4. QED
      BY <3>2, <3>3
  <2>7. UNCHANGED <<chanAllocated, Deallocations>>
    BY <1>1 DEF Deallocations
  <2> HIDE DEF n
  <2>8. CASE received[n] = "allocate"
    <3>1. allocatedUUID' = n /\ dispatcher' = [at |-> "watchAllocation", event |-> n]
      BY <1>3, <2>8 DEF watchAllocation
    <3>2. Sending("watchAllocation")' = <<n>> /\ Sending("watchDeallocation")' = <<>>
      BY <3>1 DEF Sending
    <3>3. Untold("allocate")' = chanAllocated \o <<n>>
      BY <2>7, <3>2 DEF Untold
    <3>4. Untold("deallocate")' = Deallocations \o <<>>
      BY <2>7, <3>2 DEF Untold
    <3>5. /\ Untold("allocate")' = Append(Untold("allocate"), n)
          /\ Untold("deallocate")' = Untold("deallocate")
      BY <1>1, <2>4, <2>6, <3>3, <3>4, UntoldTypes, ConcatEmptySeq, AppendIsConcat
    <3>6. QED
      BY <1>3, <2>3, <2>4, <2>6, <3>1, <3>5, FeedApplies
  <2>9. CASE received[n] = "deallocate"
    <3>1. allocatedUUID' = NoID /\ dispatcher' = [at |-> "watchDeallocation", event |-> n]
      BY <1>3, <2>9 DEF watchDeallocation
    <3>2. Sending("watchDeallocation")' = <<n>> /\ Sending("watchAllocation")' = <<>>
      BY <3>1 DEF Sending
    <3>3. Untold("deallocate")' = Deallocations \o <<n>>
      BY <2>7, <3>2 DEF Untold
    <3>4. Untold("allocate")' = chanAllocated \o <<>>
      BY <2>7, <3>2 DEF Untold
    <3>5. /\ Untold("deallocate")' = Append(Untold("deallocate"), n)
          /\ Untold("allocate")' = Untold("allocate")
      BY <1>1, <2>4, <2>6, <3>3, <3>4, UntoldTypes, ConcatEmptySeq, AppendIsConcat
    <3>6. QED
      BY <1>3, <2>3, <2>4, <2>6, <3>1, <3>5, FeedApplies
  <2>10. QED
    BY <2>5, <2>8, <2>9
<1>4. QED
  BY <1>1, <1>2, <1>3 DEF DispatchPublication

(* Sending an event to its channel is nothing to the feed, which counted   *)
(* it as untold already; nor is Stop's empty deallocation.                 *)
LEMMA FeedSend ==
  ASSUME IInv, SendAllocated \/ SendDeallocated \/ StopPublishes
  PROVE  UNCHANGED Feed!feedVars
<1>1. /\ chanAllocated \in Seq(Nat) /\ chanDeallocated \in Seq(Nat)
      /\ dispatcher.event \in Nat /\ NoID \in Nat
  BY DEF IInv, TypeInv, TypeOK, NoID
<1>2. UNCHANGED <<allocatedUUID, applied>>
  BY DEF SendAllocated, SendDeallocated, StopPublishes
<1>3. CASE SendAllocated
  <2>1. chanAllocated = <<>> /\ chanAllocated' = <<dispatcher.event>>
    BY <1>1, <1>3, EmptyChannel DEF SendAllocated
  <2>2. /\ Sending("watchAllocation") = <<dispatcher.event>>
        /\ Sending("watchAllocation")' = <<>>
        /\ Sending("watchDeallocation")' = Sending("watchDeallocation")
        /\ Deallocations' = Deallocations
    BY <1>3 DEF SendAllocated, Sending, Idle, Deallocations
  <2>3. /\ Untold("allocate") = <<>> \o <<dispatcher.event>>
        /\ Untold("allocate")' = <<dispatcher.event>> \o <<>>
        /\ Untold("deallocate")' = Untold("deallocate")
    BY <2>1, <2>2 DEF Untold
  <2>4. <<dispatcher.event>> \in Seq(Nat)
    BY <1>1
  <2>5. Untold("allocate")' = Untold("allocate")
    BY ONLY <2>3, <2>4, ConcatEmptySeq
  <2>6. QED
    BY <1>2, <2>3, <2>5, FeedStutters
<1>4. CASE SendDeallocated
  <2>1. chanDeallocated = <<>> /\ chanDeallocated' = <<dispatcher.event>>
    BY <1>1, <1>4, EmptyChannel DEF SendDeallocated
  <2>2. /\ Sending("watchDeallocation") = <<dispatcher.event>>
        /\ Sending("watchDeallocation")' = <<>>
        /\ Sending("watchAllocation")' = Sending("watchAllocation")
        /\ chanAllocated' = chanAllocated
    BY <1>4 DEF SendDeallocated, Sending, Idle
  <2>3. dispatcher.event # NoID
    BY <1>4 DEF SendDeallocated, IInv, FeedInv, InProgress, Latest, AppliedOf, Published,
       NoID
  <2>4. <<dispatcher.event>> # <<NoID>> /\ <<>> # <<NoID>>
    BY <2>3
  <2>5. Deallocations = <<>> /\ Deallocations' = <<dispatcher.event>>
    BY <2>1, <2>4 DEF Deallocations, NoID
  <2>6. /\ Untold("deallocate") = <<>> \o <<dispatcher.event>>
        /\ Untold("deallocate")' = <<dispatcher.event>> \o <<>>
        /\ Untold("allocate")' = Untold("allocate")
    BY <2>2, <2>5 DEF Untold
  <2>7. <<dispatcher.event>> \in Seq(Nat)
    BY <1>1
  <2>8. Untold("deallocate")' = Untold("deallocate")
    BY ONLY <2>6, <2>7, ConcatEmptySeq
  <2>9. QED
    BY <1>2, <2>6, <2>8, FeedStutters
<1>5. CASE StopPublishes
  <2>1. chanDeallocated = <<>> /\ chanDeallocated' = <<NoID>>
    BY <1>1, <1>5, EmptyChannel DEF StopPublishes
  <2>2. Deallocations = <<>> /\ Deallocations' = <<>>
    BY <2>1 DEF Deallocations, NoID
  <2>3. UNCHANGED <<dispatcher, chanAllocated>>
    BY <1>5 DEF StopPublishes, clientVars
  <2>4. \A k \in {"allocate", "deallocate"} : Untold(k)' = Untold(k)
    BY <2>2, <2>3 DEF Untold, Sending
  <2>5. QED
    BY <1>2, <2>4, FeedStutters
<1>6. QED
  BY <1>3, <1>4, <1>5

(* The game reads what the feed tells it, or Stop's empty deallocation.    *)
LEMMA FeedReceive ==
  ASSUME IInv, OnAllocate \/ OnDeallocate
  PROVE  [Feed!Next]_Feed!feedVars
<1>1. /\ TypeInv /\ chanAllocated \in Seq(Nat) /\ chanDeallocated \in Seq(Nat)
      /\ Len(chanAllocated) <= 1 /\ Len(chanDeallocated) <= 1
  BY DEF IInv, TypeInv, TypeOK
<1>2. /\ UNCHANGED <<allocatedUUID, applied>>
      /\ \A at : Sending(at)' = Sending(at)
  BY DEF OnAllocate, OnDeallocate, clientVars, Sending
<1>3. CASE OnAllocate
  <2>1. /\ chanAllocated # <<>> /\ chanAllocated' = Tail(chanAllocated)
        /\ chanDeallocated' = chanDeallocated
    BY <1>3 DEF OnAllocate
  <2>2. /\ Untold("allocate") = chanAllocated \o Sending("watchAllocation")
        /\ Untold("allocate")' = Tail(chanAllocated) \o Sending("watchAllocation")
        /\ Untold("deallocate")' = Untold("deallocate")
    BY <1>2, <2>1 DEF Untold, Deallocations
  <2>3. Untold("allocate") # <<>> /\ Untold("allocate")' = Tail(Untold("allocate"))
    <3>1. Sending("watchAllocation") \in Seq(Nat)
      BY <1>1, UntoldTypes
    <3>2. /\ chanAllocated \o Sending("watchAllocation") # <<>>
          /\ Tail(chanAllocated \o Sending("watchAllocation")) =
               Tail(chanAllocated) \o Sending("watchAllocation")
      BY ONLY <1>1, <2>1, <3>1, TailOfConcat
    <3>3. QED
      BY ONLY <2>2, <3>2
  <2>4. QED
    BY <1>2, <2>2, <2>3, FeedTells
<1>4. CASE OnDeallocate
  <2>1. /\ chanDeallocated # <<>> /\ chanDeallocated' = Tail(chanDeallocated)
        /\ chanAllocated' = chanAllocated
    BY <1>4 DEF OnDeallocate
  <2>2. Tail(chanDeallocated) = <<>>
    <3>1. Len(chanDeallocated) \in Nat \ {0}
      BY <1>1, <2>1, EmptySeq
    <3>2. Len(chanDeallocated) = 1
      <4>1. \A n \in Nat \ {0} : n <= 1 => n = 1
        OBVIOUS
      <4>2. QED
        BY ONLY <1>1, <3>1, <4>1
    <3>3. /\ Tail(chanDeallocated) \in Seq(Nat)
          /\ Len(Tail(chanDeallocated)) = Len(chanDeallocated) - 1
      BY <1>1, <2>1, HeadTailProperties
    <3>4. Len(Tail(chanDeallocated)) = 0
      BY <3>2, <3>3
    <3>5. QED
      BY <3>3, <3>4, EmptySeq
  <2>3. Deallocations' = <<>>
    BY <2>1, <2>2 DEF Deallocations
  <2>4. /\ Untold("deallocate") = Deallocations \o Sending("watchDeallocation")
        /\ Untold("deallocate")' = <<>> \o Sending("watchDeallocation")
        /\ Untold("allocate")' = Untold("allocate")
    BY <1>2, <2>1, <2>3 DEF Untold
  <2>5. CASE chanDeallocated = <<NoID>>
    <3>1. Deallocations = <<>>
      BY <2>5 DEF Deallocations
    <3>2. \A k \in {"allocate", "deallocate"} : Untold(k)' = Untold(k)
      BY <2>4, <3>1
    <3>3. QED
      BY <1>2, <3>2, FeedStutters
  <2>6. CASE chanDeallocated # <<NoID>>
    <3>1. Deallocations = chanDeallocated
      BY <2>6 DEF Deallocations
    <3>2. Untold("deallocate")' = Tail(chanDeallocated) \o Sending("watchDeallocation")
      BY <2>2, <2>4
    <3>3. Untold("deallocate") # <<>> /\ Untold("deallocate")' = Tail(Untold("deallocate"))
      <4>1. Sending("watchDeallocation") \in Seq(Nat)
        BY <1>1, UntoldTypes
      <4>2. /\ chanDeallocated \o Sending("watchDeallocation") # <<>>
            /\ Tail(chanDeallocated \o Sending("watchDeallocation")) =
                 Tail(chanDeallocated) \o Sending("watchDeallocation")
        BY ONLY <1>1, <2>1, <4>1, TailOfConcat
      <4>3. QED
        BY ONLY <2>4, <3>1, <3>2, <4>2
    <3>4. QED
      BY <1>2, <2>4, <3>3, FeedTells
  <2>7. QED
    BY <2>5, <2>6
<1>5. QED
  BY <1>3, <1>4

(* What the game sees of the server's events is the feed it is promised:   *)
(* the platform's events take effect one at a time and in order, and wait  *)
(* for the game in order, never more than two of a kind.                   *)
THEOREM ImplementsFeedSafely == Spec => Feed!Spec
<1>1. Init => Feed!Init
  <2> SUFFICES ASSUME Init PROVE Feed!Init
    OBVIOUS
  <2>1. Sending("watchAllocation") = <<>> /\ Sending("watchDeallocation") = <<>>
        /\ Deallocations = <<>> /\ chanAllocated = <<>>
    BY DEF Init, Sending, Deallocations, Idle
  <2>2. <<>> \o <<>> = <<>>
    BY EmptySeq, ConcatEmptySeq
  <2>3. \A k \in {"allocate", "deallocate"} : Untold(k) = <<>>
    BY <2>1, <2>2 DEF Untold
  <2>4. QED
    BY <2>3 DEF Init, Feed!Init, Feed!Kinds
<1>2. IInv /\ Bounded /\ [Next]_vars => [Feed!Next]_Feed!feedVars
  <2> SUFFICES ASSUME IInv, Bounded, [Next]_vars PROVE [Feed!Next]_Feed!feedVars
    OBVIOUS
  <2>1. CASE DispatchPublication
    BY <2>1, FeedPublication
  <2>2. CASE SendAllocated \/ SendDeallocated \/ StopPublishes
    BY <2>2, FeedSend
  <2>3. CASE OnAllocate \/ OnDeallocate
    BY <2>3, FeedReceive
  <2>4. ASSUME ~DispatchPublication, ~SendAllocated, ~SendDeallocated, ~StopPublishes,
               ~OnAllocate, ~OnDeallocate
        PROVE  UNCHANGED Feed!feedVars
    <3>1. UNCHANGED feedVars
      BY <2>4 DEF Next, Listener, Broker, Dispatch, Callback, Game, Main, ListenerFails,
           ListenerStarts, ListenerCloses, ListenerFinishes, BrokerAccepts, BrokerRefuses,
           Resubscribes, BrokerPublishes, DispatchSuccess, DispatchError,
           OnSubscribeSuccess, RetrySubscribe, OnError, ReadyReads, ReadyPatches,
           StartReturns, StopBegins, StopReturns, vars
    <3>2. \/ UNCHANGED dispatcher
          \/ /\ dispatcher.at \notin {"watchAllocation", "watchDeallocation"}
             /\ dispatcher'.at \notin {"watchAllocation", "watchDeallocation"}
      BY <2>4 DEF Next, Listener, Broker, Dispatch, Callback, Game, Main, ListenerFails,
           ListenerStarts, ListenerCloses, ListenerFinishes, BrokerAccepts, BrokerRefuses,
           Resubscribes, BrokerPublishes, DispatchSuccess, DispatchError, CanDispatch,
           Idle,
           OnSubscribeSuccess, RetrySubscribe, OnError, ReadyReads, ReadyPatches,
           StartReturns, StopBegins, StopReturns, vars, clientVars
    <3>3. /\ Sending("watchAllocation")' = Sending("watchAllocation")
          /\ Sending("watchDeallocation")' = Sending("watchDeallocation")
          /\ UNCHANGED <<chanAllocated, Deallocations, allocatedUUID, applied>>
      BY <3>1, <3>2 DEF feedVars, Sending, Deallocations
    <3>4. \A k \in {"allocate", "deallocate"} : Untold(k)' = Untold(k)
      BY <3>3 DEF Untold
    <3>5. QED
      BY <3>3, <3>4, FeedStutters
  <2>5. QED
    BY <2>1, <2>2, <2>3, <2>4
<1>3. QED
  BY <1>1, <1>2, AlwaysIInv, AlwaysBounded, PTL DEF Spec, Feed!Spec
=============================================================================
