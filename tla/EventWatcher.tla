---------------------------- MODULE EventWatcher ----------------------------
(***************************************************************************)
(* How allocation events travel from the SDK daemon to the game:           *)
(* event_watcher.go (listenForEvents and its two callbacks),               *)
(* internal/localproxy/client.go (the subscription), the two allocation    *)
(* channels and allocatedUUID of server.go, ReadyForPlayers and Stop.      *)
(*                                                                         *)
(* Four goroutines meet here: the game's (Start, Stop), listenForEvents,   *)
(* the centrifuge client's dispatcher, which runs every callback, and the  *)
(* game's readers of OnAllocate/OnDeallocate/OnError; a fifth calls        *)
(* ReadyForPlayers. The centrifuge client is external: its callbacks run   *)
(* one at a time in the order they were queued.                            *)
(*                                                                         *)
(* Event n is the n-th publication; an allocation ID is the number of the  *)
(* event that brought it, so 0 stands for the empty ID.                    *)
(***************************************************************************)
EXTENDS Naturals, Sequences

CONSTANTS
  StartFaults,          \* the ways listenForEvents may fail before it serves
  MaxEvents,            \* bound: publications of the daemon
  MaxSubscribeErrors,   \* bound: refused subscriptions
  MaxResubscribes       \* bound: reconnections of an established subscription

ASSUME ConstantsAssumption ==
  /\ StartFaults \subseteq {"serverID", "subscribe", "connect"}
  /\ MaxEvents \in Nat
  /\ MaxSubscribeErrors \in Nat
  /\ MaxResubscribes \in Nat

NoID == 0
ChanCap == 1            \* capacity of every channel New makes
Kinds == {"allocate", "deallocate", "other", "malformed"}

VARIABLES
  serverType,           \* "TypeAllocation" or "TypeReservation"
  main,                 \* where the goroutine that calls Start and Stop is
  listener,             \* where listenForEvents is
  wg,                   \* what listenForEvents contributes to the WaitGroup
  eventWatcherReady,    \* its answer to Start: "empty", "nil" or "err"
  subscription,         \* the subscription, as the daemon sees it
  callbacks,            \* the event types with a registered callback
  received,             \* the kinds of the publications, in order
  cbQueue,              \* callbacks the centrifuge client has yet to run
  dispatcher,           \* the callback it is running
  allocatedUUID,
  chanAllocated,
  chanDeallocated,
  chanError,
  ready,                \* the call of ReadyForPlayers in progress
  applied,              \* history: events that have set allocatedUUID
  toldAllocs,           \* history: what OnAllocate gave the game
  toldDeallocs,         \* history: what OnDeallocate gave the game
  subscribeErrors,      \* how often a subscription was refused
  resubscribes          \* how often the client resubscribed by itself

clientVars == <<subscription, received, cbQueue, dispatcher, subscribeErrors,
                resubscribes>>
feedVars == <<allocatedUUID, chanAllocated, chanDeallocated, applied>>
gameVars == <<ready, toldAllocs, toldDeallocs>>
lifeVars == <<serverType, main, listener, wg, eventWatcherReady, callbacks>>
vars == <<clientVars, feedVars, gameVars, lifeVars, chanError>>

-----------------------------------------------------------------------------
Idle == [at |-> "idle", event |-> 0]
Entry(h, n) == [handler |-> h, event |-> n]
NotCalled == [at |-> "idle", id |-> NoID, gone |-> {}]

Init ==
  /\ serverType \in {"TypeAllocation", "TypeReservation"}
  /\ main = "starting" /\ listener = "init" /\ wg = 0
  /\ eventWatcherReady = "empty" /\ callbacks = {}
  /\ subscription = "none" /\ received = <<>> /\ cbQueue = <<>>
  /\ dispatcher = Idle
  /\ subscribeErrors = 0 /\ resubscribes = 0
  /\ allocatedUUID = NoID /\ applied = {}
  /\ chanAllocated = <<>> /\ chanDeallocated = <<>> /\ chanError = 0
  /\ ready = NotCalled /\ toldAllocs = {} /\ toldDeallocs = {}

(* Mutant: New makes channels of two elements.                             *)
HasRoomForTwo(ch) == Len(ch) < ChanCap + 1

(* A blocking send on a buffered channel waits for room.                   *)
HasRoom(ch) == Len(ch) < ChanCap

(* Errors are pushed without blocking: a full channel drops the new one.   *)
PushError == chanError' = IF chanError < ChanCap THEN chanError + 1 ELSE chanError

(* Closing done is Stop's last act before it waits.                        *)
Done == main \in {"waiting", "stopped"}
ClientDone == listener = "finished"

-----------------------------------------------------------------------------
(* Mutant: the deallocation callback is forgotten.                         *)
RegisterAllocateOnly ==
  callbacks' = IF serverType = "TypeAllocation" THEN {"allocate"} ELSE {}

(* listenForEvents up to the wait for the subscription, with its early     *)
(* returns: none of them gives the WaitGroup back.                         *)
RegisterCallbacks ==
  callbacks' = IF serverType = "TypeAllocation"
                 THEN {"allocate", "deallocate"} ELSE {}

ListenerFails ==
  /\ listener = "init"
  /\ \E fault \in StartFaults :
        IF fault = "serverID" THEN UNCHANGED callbacks ELSE RegisterCallbacks
  /\ listener' = "failed" /\ wg' = wg + 1
  /\ eventWatcherReady' = "err"
  /\ UNCHANGED <<clientVars, feedVars, gameVars, chanError, serverType, main>>

ListenerStarts ==
  /\ listener = "init"
  /\ listener' = "subscribing" /\ wg' = wg + 1
  /\ RegisterCallbacks
  /\ subscription' = "requested"
  /\ UNCHANGED <<feedVars, gameVars, chanError, serverType, main, eventWatcherReady,
                 received, cbQueue, dispatcher, subscribeErrors, resubscribes>>

(* After done is closed the client is closed, and then the WaitGroup freed. *)
ListenerCloses ==
  /\ listener = "serving" /\ Done
  /\ listener' = "closing" /\ subscription' = "closed"
  /\ UNCHANGED <<feedVars, gameVars, chanError, serverType, main, wg, eventWatcherReady,
                 callbacks, received, cbQueue, dispatcher, subscribeErrors, resubscribes>>

ListenerFinishes ==
  /\ listener = "closing"
  /\ listener' = "finished" /\ wg' = wg - 1
  /\ UNCHANGED <<clientVars, feedVars, gameVars, chanError, serverType, main,
                 eventWatcherReady, callbacks>>

-----------------------------------------------------------------------------
(* The SDK daemon and the connection to it.                                *)

(* Mutant: callbacks are not run in the order of their messages.           *)
EnqueueFirst(h, n) == cbQueue' = <<Entry(h, n)>> \o cbQueue

Enqueue(h, n) == cbQueue' = Append(cbQueue, Entry(h, n))

BrokerAccepts ==
  /\ subscription = "requested"
  /\ subscription' = "subscribed" /\ Enqueue("OnSubscribeSuccess", 0)
  /\ UNCHANGED <<feedVars, gameVars, lifeVars, chanError, received, dispatcher,
                 subscribeErrors, resubscribes>>

BrokerRefuses ==
  /\ subscription = "requested" /\ subscribeErrors < MaxSubscribeErrors
  /\ subscription' = "refused" /\ Enqueue("OnSubscribeError", 0)
  /\ subscribeErrors' = subscribeErrors + 1
  /\ UNCHANGED <<feedVars, gameVars, lifeVars, chanError, received, dispatcher,
                 resubscribes>>

BrokerPublishes(kind) ==
  /\ subscription = "subscribed" /\ Len(received) < MaxEvents
  /\ received' = Append(received, kind)
  /\ Enqueue("OnPublish", Len(received) + 1)
  /\ UNCHANGED <<feedVars, gameVars, lifeVars, chanError, subscription, dispatcher,
                 subscribeErrors, resubscribes>>

(* The connection drops and comes back: the client asks for the            *)
(* subscription again by itself.                                           *)
Resubscribes ==
  /\ subscription = "subscribed" /\ resubscribes < MaxResubscribes
  /\ resubscribes' = resubscribes + 1 /\ subscription' = "requested"
  /\ UNCHANGED <<feedVars, gameVars, lifeVars, chanError, received, cbQueue,
                 dispatcher, subscribeErrors>>

-----------------------------------------------------------------------------
(* The dispatcher takes the next callback.                                 *)
CanDispatch(h) ==
  /\ dispatcher = Idle /\ cbQueue # <<>> /\ Head(cbQueue).handler = h
  /\ cbQueue' = Tail(cbQueue)

DispatchSuccess ==
  /\ CanDispatch("OnSubscribeSuccess")
  /\ dispatcher' = [at |-> "OnSubscribeSuccess", event |-> 0]
  /\ UNCHANGED <<feedVars, gameVars, lifeVars, chanError, subscription, received,
                 subscribeErrors, resubscribes>>

(* OnSubscribeError gives up once the client is stopped, else it sleeps.   *)
DispatchError ==
  /\ CanDispatch("OnSubscribeError")
  /\ dispatcher' = IF ClientDone THEN Idle
                   ELSE [at |-> "OnSubscribeError", event |-> 0]
  /\ UNCHANGED <<feedVars, gameVars, lifeVars, chanError, subscription, received,
                 subscribeErrors, resubscribes>>

(* watchAllocation and watchDeallocation up to their send.                 *)
watchAllocation(n) ==
  /\ allocatedUUID' = n
  /\ dispatcher' = [at |-> "watchAllocation", event |-> n]

(* Mutant: a deallocation leaves allocatedUUID as it is.                   *)
watchDeallocationKeepsUUID(n) ==
  /\ UNCHANGED allocatedUUID
  /\ dispatcher' = [at |-> "watchDeallocation", event |-> n]

watchDeallocation(n) ==
  /\ allocatedUUID' = NoID
  /\ dispatcher' = [at |-> "watchDeallocation", event |-> n]

(* OnPublish: data that does not parse is an error, an event nobody        *)
(* registered for is dropped, the others run their callback.               *)
DispatchPublication ==
  LET n == Head(cbQueue).event
      kind == received[n]
  IN
  /\ CanDispatch("OnPublish")
  /\ \/ /\ kind = "malformed" /\ PushError
        /\ UNCHANGED <<dispatcher, allocatedUUID, applied>>
     \/ /\ kind # "malformed" /\ kind \notin callbacks
        /\ UNCHANGED <<dispatcher, allocatedUUID, applied, chanError>>
     \/ /\ kind \in callbacks
        /\ IF kind = "allocate" THEN watchAllocation(n) ELSE watchDeallocation(n)
        /\ applied' = applied \cup {n}
        /\ UNCHANGED chanError
  /\ UNCHANGED <<gameVars, lifeVars, subscription, received, subscribeErrors,
                 resubscribes, chanAllocated, chanDeallocated>>

-----------------------------------------------------------------------------
(* The callback in progress goes on.                                       *)

(* Mutant: listenForEvents never answers Start.                            *)
OnSubscribeSuccessUnanswered ==
  /\ dispatcher.at = "OnSubscribeSuccess" /\ listener = "subscribing"
  /\ dispatcher' = Idle /\ listener' = "serving"
  /\ UNCHANGED <<feedVars, gameVars, chanError, serverType, main, wg, callbacks,
                 eventWatcherReady, subscription, received, cbQueue, subscribeErrors,
                 resubscribes>>

(* OnSubscribeSuccess hands over to Start on an unbuffered channel, which  *)
(* only the Start in progress reads; listenForEvents then answers Start.   *)
OnSubscribeSuccess ==
  /\ dispatcher.at = "OnSubscribeSuccess" /\ listener = "subscribing"
  /\ dispatcher' = Idle
  /\ listener' = "serving" /\ eventWatcherReady' = "nil"
  /\ UNCHANGED <<feedVars, gameVars, chanError, serverType, main, wg, callbacks,
                 subscription, received, cbQueue, subscribeErrors, resubscribes>>

(* The end of OnSubscribeError: a new subscription, or an error.           *)
RetrySubscribe ==
  /\ dispatcher.at = "OnSubscribeError"
  /\ dispatcher' = Idle
  /\ \/ /\ subscription' = IF subscription = "closed" THEN "closed" ELSE "requested"
        /\ UNCHANGED chanError
     \/ PushError /\ UNCHANGED subscription
  /\ UNCHANGED <<feedVars, gameVars, lifeVars, received, cbQueue, subscribeErrors,
                 resubscribes>>

SendAllocated ==
  /\ dispatcher.at = "watchAllocation" /\ HasRoom(chanAllocated)
  /\ chanAllocated' = Append(chanAllocated, dispatcher.event)
  /\ dispatcher' = Idle
  /\ UNCHANGED <<gameVars, lifeVars, chanError, subscription, received, cbQueue,
                 subscribeErrors, resubscribes, allocatedUUID, chanDeallocated, applied>>

(* Mutant: a send that does not block, and drops the event.                *)
SendDeallocatedOrDrop ==
  /\ dispatcher.at = "watchDeallocation"
  /\ chanDeallocated' = IF HasRoom(chanDeallocated)
                          THEN Append(chanDeallocated, dispatcher.event)
                          ELSE chanDeallocated
  /\ dispatcher' = Idle
  /\ UNCHANGED <<gameVars, lifeVars, chanError, subscription, received, cbQueue,
                 subscribeErrors, resubscribes, allocatedUUID, chanAllocated, applied>>

SendDeallocated ==
  /\ dispatcher.at = "watchDeallocation" /\ HasRoom(chanDeallocated)
  /\ chanDeallocated' = Append(chanDeallocated, dispatcher.event)
  /\ dispatcher' = Idle
  /\ UNCHANGED <<gameVars, lifeVars, chanError, subscription, received, cbQueue,
                 subscribeErrors, resubscribes, allocatedUUID, chanAllocated, applied>>

-----------------------------------------------------------------------------
(* The game reads the three channels, in any order.                        *)
OnAllocate ==
  /\ chanAllocated # <<>>
  /\ toldAllocs' = toldAllocs \cup {Head(chanAllocated)}
  /\ chanAllocated' = Tail(chanAllocated)
  /\ UNCHANGED <<clientVars, lifeVars, chanError, allocatedUUID, chanDeallocated,
                 applied, ready, toldDeallocs>>

OnDeallocate ==
  /\ chanDeallocated # <<>>
  /\ toldDeallocs' = toldDeallocs \cup {Head(chanDeallocated)}
  /\ chanDeallocated' = Tail(chanDeallocated)
  /\ UNCHANGED <<clientVars, lifeVars, chanError, allocatedUUID, chanAllocated,
                 applied, ready, toldAllocs>>

OnError ==
  /\ chanError > 0 /\ chanError' = chanError - 1
  /\ UNCHANGED <<clientVars, feedVars, gameVars, lifeVars>>

(* ReadyForPlayers reads allocatedUUID under its lock, refuses when there  *)
(* is none, and patches that allocation later, without the lock. The game  *)
(* may call it before Start has returned, and after Stop.                  *)
ReadyReads ==
  /\ ready.at = "idle" /\ allocatedUUID # NoID
  /\ ready' = [at |-> "patching", id |-> allocatedUUID, gone |-> toldDeallocs]
  /\ UNCHANGED <<clientVars, feedVars, lifeVars, chanError, toldAllocs, toldDeallocs>>

ReadyPatches ==
  /\ ready.at = "patching" /\ ready' = NotCalled
  /\ UNCHANGED <<clientVars, feedVars, lifeVars, chanError, toldAllocs, toldDeallocs>>

-----------------------------------------------------------------------------
(* The game's own goroutine: the end of Start, and Stop.                   *)
StartReturns ==
  /\ main = "starting" /\ eventWatcherReady # "empty"
  /\ main' = IF eventWatcherReady = "nil" THEN "running" ELSE "startFailed"
  /\ eventWatcherReady' = "empty"
  /\ UNCHANGED <<clientVars, feedVars, gameVars, chanError, serverType, listener, wg,
                 callbacks>>

StopBegins ==
  /\ main = "running" /\ main' = "publishing"
  /\ UNCHANGED <<clientVars, feedVars, gameVars, chanError, serverType, listener, wg,
                 eventWatcherReady, callbacks>>

(* Stop pushes an empty deallocation, blocking, and closes done.           *)
StopPublishes ==
  /\ main = "publishing" /\ HasRoom(chanDeallocated)
  /\ chanDeallocated' = Append(chanDeallocated, NoID)
  /\ main' = "waiting"
  /\ UNCHANGED <<clientVars, gameVars, chanError, serverType, listener, wg,
                 eventWatcherReady, callbacks, allocatedUUID, chanAllocated, applied>>

StopReturns ==
  /\ main = "waiting" /\ wg = 0 /\ main' = "stopped"
  /\ UNCHANGED <<clientVars, feedVars, gameVars, chanError, serverType, listener, wg,
                 eventWatcherReady, callbacks>>

-----------------------------------------------------------------------------
Listener == ListenerFails \/ ListenerStarts \/ ListenerCloses \/ ListenerFinishes
Broker == BrokerAccepts \/ BrokerRefuses \/ Resubscribes
          \/ \E kind \in Kinds : BrokerPublishes(kind)
Dispatch == DispatchSuccess \/ DispatchError \/ DispatchPublication
Callback == OnSubscribeSuccess \/ RetrySubscribe \/ SendAllocated \/ SendDeallocated
Game == OnAllocate \/ OnDeallocate \/ OnError \/ ReadyReads \/ ReadyPatches
Main == StartReturns \/ StopBegins \/ StopPublishes \/ StopReturns

Next == Listener \/ Broker \/ Dispatch \/ Callback \/ Game \/ Main

Spec == Init /\ [][Next]_vars

(* Goroutines that can run do run. The daemon answers a subscription, and  *)
(* the game keeps reading OnAllocate and OnDeallocate, as Start's comment  *)
(* demands of it; a sender blocked on a full channel is queued, so its     *)
(* turn comes. Nothing obliges the daemon to publish, nor the game to      *)
(* stop or to read its errors.                                             *)
Fairness ==
  /\ WF_vars(Listener)
  /\ WF_vars(BrokerAccepts)
  /\ WF_vars(Dispatch) /\ WF_vars(Callback)
  /\ WF_vars(OnAllocate) /\ WF_vars(OnDeallocate)
  /\ WF_vars(StartReturns) /\ SF_vars(StopPublishes) /\ WF_vars(StopReturns)

FairSpec == Spec /\ Fairness

-----------------------------------------------------------------------------
(* The state space.                                                        *)
TypeOK ==
  /\ serverType \in {"TypeAllocation", "TypeReservation"}
  /\ main \in {"starting", "running", "startFailed", "publishing", "waiting", "stopped"}
  /\ listener \in {"init", "subscribing", "serving", "closing", "finished", "failed"}
  /\ wg \in {0, 1}
  /\ eventWatcherReady \in {"empty", "nil", "err"}
  /\ subscription \in {"none", "requested", "subscribed", "refused", "closed"}
  /\ callbacks \in {{}, {"allocate", "deallocate"}}
  /\ received \in Seq(Kinds)
  /\ cbQueue \in Seq([handler : {"OnSubscribeSuccess", "OnSubscribeError", "OnPublish"},
                      event : Nat])
  /\ dispatcher \in [at : {"idle", "OnSubscribeSuccess", "OnSubscribeError",
                           "watchAllocation", "watchDeallocation"},
                     event : Nat]
  /\ allocatedUUID \in Nat
  /\ chanAllocated \in Seq(Nat) /\ Len(chanAllocated) <= 1
  /\ chanDeallocated \in Seq(Nat) /\ Len(chanDeallocated) <= 1
  /\ chanError \in {0, 1}
  /\ ready \in [at : {"idle", "patching"}, id : Nat, gone : SUBSET Nat]
  /\ applied \in SUBSET Nat
  /\ toldAllocs \in SUBSET Nat /\ toldDeallocs \in SUBSET Nat
  /\ subscribeErrors \in Nat /\ resubscribes \in Nat

AppliedOf(kind) == {n \in applied : received[n] = kind}
InFlight(at) == IF dispatcher.at = at THEN {dispatcher.event} ELSE {}
Elements(ch) == {ch[i] : i \in 1 .. Len(ch)}

(* Every event that has changed allocatedUUID reaches the game exactly     *)
(* through its channel: it was told, waits in the channel, or is being     *)
(* sent. Nothing else does, save Stop's empty deallocation.                *)
FeedLossless ==
  /\ AppliedOf("allocate") =
       toldAllocs \cup Elements(chanAllocated) \cup InFlight("watchAllocation")
  /\ AppliedOf("deallocate") =
       (toldDeallocs \cup Elements(chanDeallocated) \cup InFlight("watchDeallocation"))
         \ {NoID}

(* The game is told of the events of one kind in the order they were       *)
(* published, and of none twice.                                           *)
ToldInOrder ==
  /\ \A n \in toldAllocs' \ toldAllocs : \A m \in toldAllocs : m < n
  /\ \A n \in toldDeallocs' \ (toldDeallocs \cup {NoID}) : \A m \in toldDeallocs : m < n
  /\ Len(chanAllocated') < Len(chanAllocated) => toldAllocs' # toldAllocs
  /\ Len(chanDeallocated') < Len(chanDeallocated) => toldDeallocs' # toldDeallocs
FeedInOrder == [][ToldInOrder]_vars

(* What the game was told, the server knows: after OnAllocate gave n,      *)
(* ReadyForPlayers finds n, a later allocation, or that a later            *)
(* deallocation happened; after OnDeallocate, never an earlier allocation. *)
ToldIsVisible ==
  /\ \A n \in toldAllocs :
       allocatedUUID >= n \/ \E d \in AppliedOf("deallocate") : d > n
  /\ \A d \in toldDeallocs : allocatedUUID = NoID \/ allocatedUUID > d

(* ReadyForPlayers never patches an allocation whose deallocation the game *)
(* had been told of when it called.                                        *)
NoPatchAfterGone ==
  ready.at = "patching" => \A d \in ready.gone : d < ready.id

(* The two channels may overtake each other, but by one event at most: an  *)
(* allocation older than a deallocation the game was told of waits alone   *)
(* in OnAllocate, so one read that does not block finds it. The same with  *)
(* the kinds exchanged.                                                    *)
OvertakenByOne ==
  /\ \A d \in toldDeallocs, n \in AppliedOf("allocate") :
       n < d /\ n \notin toldAllocs => chanAllocated = <<n>>
  /\ \A n \in toldAllocs, d \in AppliedOf("deallocate") :
       d < n /\ d \notin toldDeallocs => d \in Elements(chanDeallocated)

(* The feed is what AllocationFeed promises, Stop's empty deallocation and *)
(* everything else being stuttering.                                       *)
Sending(at) == IF dispatcher.at = at THEN <<dispatcher.event>> ELSE <<>>
Deallocations == IF chanDeallocated = <<NoID>> THEN <<>> ELSE chanDeallocated
Untold(kind) ==
  IF kind = "allocate" THEN chanAllocated \o Sending("watchAllocation")
                       ELSE Deallocations \o Sending("watchDeallocation")
Feed == INSTANCE AllocationFeed WITH
          Events <- 1 .. MaxEvents, NoID <- NoID, current <- allocatedUUID,
          applied <- applied, untold <- [k \in {"allocate", "deallocate"} |-> Untold(k)]
ImplementsFeed == Feed!LiveSpec

(* An event the daemon published to a server of the allocations type       *)
(* reaches the game, unless the game stops the server.                     *)
Owed(n) ==
  /\ n <= Len(received) /\ received[n] \in {"allocate", "deallocate"}
  /\ serverType = "TypeAllocation"
Delivered(n) == n \in toldAllocs \cup toldDeallocs
Stopping == main \in {"publishing", "waiting", "stopped"}
EventsDelivered ==
  \A n \in 1 .. MaxEvents : Owed(n) ~> Delivered(n) \/ Stopping

(* So does it, whatever else fails, as long as the client did not have to  *)
(* subscribe again.                                                        *)
DeliveredWhileConnected ==
  \A n \in 1 .. MaxEvents :
    Owed(n) ~> Delivered(n) \/ Stopping \/ resubscribes > 0

(* Stop of a started server returns, whatever callback is in progress.     *)
StopCompletes == main = "publishing" ~> main = "stopped"

(* Start returns once the daemon has accepted the subscription.            *)
StartCompletes == subscription = "subscribed" ~> main # "starting"

(* The game's calls of Start and Stop return.                              *)
CallsComplete == StartCompletes /\ StopCompletes
=============================================================================
