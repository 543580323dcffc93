--------------------------- MODULE AllocationFeed ---------------------------
(***************************************************************************)
(* What a game is promised by OnAllocate(), OnDeallocate() and             *)
(* ReadyForPlayers() together, without saying how: the platform's events   *)
(* take effect one at a time and in order, the current allocation is the   *)
(* last event's, and the game is told of every event, of each kind in      *)
(* order, never before it has taken effect, and never far behind it.       *)
(***************************************************************************)
EXTENDS Naturals, Sequences

CONSTANTS
  Events,       \* the numbers of the events, in the order of their publication
  NoID          \* no allocation: the empty allocation ID

VARIABLES
  current,      \* the allocation in force, or NoID
  applied,      \* the events that took effect
  untold        \* for each kind, the events in effect the game was not told of

feedVars == <<current, applied, untold>>

Kinds == {"allocate", "deallocate"}

Init ==
  /\ current = NoID
  /\ applied = {}
  /\ untold = [k \in Kinds |-> <<>>]

(* Event n, of kind k, takes effect. It may not while two events of one    *)
(* kind wait to be told: the feed pushes back instead of losing events.    *)
Apply(k, n) ==
  /\ \A m \in applied : m < n
  /\ \A j \in Kinds : Len(untold[j]) <= 1
  /\ applied' = applied \cup {n}
  /\ current' = IF k = "allocate" THEN n ELSE NoID
  /\ untold' = [untold EXCEPT ![k] = Append(@, n)]

(* The game is told of the oldest event of kind k it does not know yet.    *)
Tell(k) ==
  /\ untold[k] # <<>>
  /\ untold' = [untold EXCEPT ![k] = Tail(@)]
  /\ UNCHANGED <<current, applied>>

Next == \E k \in Kinds : Tell(k) \/ \E n \in Events : Apply(k, n)

Spec == Init /\ [][Next]_feedVars

(* The game is eventually told of every event, as long as it keeps reading. *)
LiveSpec == Spec /\ \A k \in Kinds : WF_feedVars(Tell(k))
=============================================================================
