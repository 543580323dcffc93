--------------------------- MODULE LocalProxyCalls ---------------------------
(***************************************************************************)
(* The game's calls to the platform through the local proxy: Reserve,      *)
(* Unreserve, Hold, HoldStatus, Release and ReadyForPlayers (server.go),   *)
(* and the HTTP requests they make (internal/localproxy).                  *)
(*                                                                         *)
(* A request and its answer travel; either may be lost, and a call that    *)
(* gives up (its ten seconds are over, or its context is cancelled) leaves *)
(* its request behind, which the daemon may still meet. Calls of several   *)
(* goroutines overlap. The daemon is external: whether the server is       *)
(* reserved and whether it is held, a hold ending by itself.               *)
(***************************************************************************)
EXTENDS Naturals

CONSTANTS
  Callers,              \* the game's goroutines
  MaxCalls,             \* bound: calls made
  MaxFaults             \* bound: requests refused, messages lost or garbled

ASSUME BoundsAssumption == MaxCalls \in Nat /\ MaxFaults \in Nat

VARIABLES
  serverType,
  listener,             \* how far listenForEvents has come
  localProxyClient,     \* "nil" or "set"
  started,              \* Start returned without an error
  allocatedUUID,        \* whether there is one
  calls,                \* each goroutine's last call, in progress or over
  called,               \* how many there were; numbers the last one
  requests, responses,  \* in flight
  daemon,               \* [reserved, held]
  faults,
  executed,             \* history: the calls the daemon carried out
  known,                \* history: what the results allow reserved to be
  open                  \* history: reservation calls without a result

startVars == <<serverType, listener, localProxyClient, started, allocatedUUID>>
netVars == <<requests, responses, daemon, faults, executed>>
gameVars == <<calls, called, known, open>>
vars == <<startVars, netVars, gameVars>>

(* What each method of the client sends, and the status it expects.        *)
Request(method, path, expects) == [method |-> method, path |-> path, expects |-> expects]
ReserveSelf == Request("POST", "reservations", "OK")
HoldSelf == Request("POST", "hold", "OK")
HoldStatus == Request("GET", "hold", "OK")
ReleaseSelf == Request("DELETE", "hold", "NoContent")
PatchAllocation == Request("PATCH", "allocations", "NoContent")
UnreserveSelf == Request("DELETE", "reservations", "NoContent")

(* Mutant: the daemon does not know a GET.                                 *)
StatusUnknown(method) ==
  CASE method = "POST" -> "OK" [] method = "GET" -> "MethodNotAllowed" [] OTHER -> "NoContent"

(* The daemon's answer to a request it accepts.                            *)
Status(method) == IF method \in {"POST", "GET"} THEN "OK" ELSE "NoContent"

Operations == {ReserveSelf, UnreserveSelf, HoldSelf, HoldStatus, ReleaseSelf,
               PatchAllocation}
Reservation(rq) == rq.path = "reservations"
Asking == {HoldSelf, HoldStatus}        \* these bring the state of the hold

NoCall == [at |-> "idle", id |-> 0, rq |-> HoldStatus, result |-> "none", alone |-> FALSE,
           seen |-> {}, held |-> FALSE, safe |-> FALSE]

Init ==
  /\ serverType \in {"TypeAllocation", "TypeReservation"}
  /\ listener = "none" /\ localProxyClient = "nil" /\ started = FALSE
  /\ allocatedUUID = FALSE
  /\ calls = [c \in Callers |-> NoCall] /\ called = 0
  /\ requests = {} /\ responses = {}
  /\ daemon = [reserved |-> FALSE, held |-> FALSE]
  /\ faults = 0 /\ executed = {} /\ known = {FALSE} /\ open = {}

Fault == faults < MaxFaults /\ faults' = faults + 1

-----------------------------------------------------------------------------
(* Start, as far as the client is concerned: listenForEvents creates it,   *)
(* or fails before or after that, and answers Start. Afterwards events     *)
(* set allocatedUUID, on a server of the allocations type.                 *)
StartSpawns ==
  /\ listener = "none" /\ listener' = "spawned"
  /\ UNCHANGED <<serverType, localProxyClient, started, allocatedUUID, netVars, gameVars>>

ListenerCreates ==
  /\ listener = "spawned" /\ listener' = "created" /\ localProxyClient' = "set"
  /\ UNCHANGED <<serverType, started, allocatedUUID, netVars, gameVars>>

ListenerFails ==
  /\ listener \in {"spawned", "created"} /\ listener' = "failed"
  /\ UNCHANGED <<serverType, localProxyClient, started, allocatedUUID, netVars, gameVars>>

(* Mutant: Start does not wait for the client.                             *)
StartReturnsEarly ==
  /\ listener = "spawned" /\ ~started /\ started' = TRUE
  /\ UNCHANGED <<serverType, listener, localProxyClient, allocatedUUID, netVars, gameVars>>

StartReturns ==
  /\ listener = "created" /\ ~started /\ started' = TRUE /\ listener' = "serving"
  /\ UNCHANGED <<serverType, localProxyClient, allocatedUUID, netVars, gameVars>>

AllocationEvent ==
  /\ serverType = "TypeAllocation" /\ listener \in {"created", "serving"}
  /\ ~allocatedUUID /\ allocatedUUID' = TRUE
  /\ UNCHANGED <<serverType, listener, localProxyClient, started, netVars, gameVars>>

-----------------------------------------------------------------------------
(* A call goes out, or is refused by the SDK itself. The methods of the    *)
(* client read their receiver, so that a nil one panics, for everyone.     *)
Begins(c, rq) ==
  /\ calls[c].at = "idle" /\ called < MaxCalls /\ called' = called + 1
  /\ UNCHANGED <<startVars, responses, daemon, faults, executed>>

Do(c, rq) ==
  /\ Begins(c, rq)
  /\ IF localProxyClient = "nil"
       THEN /\ calls' = [k \in Callers |->
                 [NoCall EXCEPT !.at = "panicked", !.rq = rq, !.safe = started]]
            /\ UNCHANGED <<requests, known, open>>
       ELSE /\ requests' = requests \cup {[id |-> called + 1, rq |-> rq]}
            /\ calls' = [k \in Callers |->
                 IF k = c
                   THEN [NoCall EXCEPT !.at = "waiting", !.id = called + 1, !.rq = rq,
                                       !.alone = Reservation(rq) /\ open = {},
                                       !.seen = IF rq \in Asking THEN {daemon.held} ELSE {}]
                   ELSE [calls[k] EXCEPT !.alone = @ /\ ~Reservation(rq)]]
            /\ IF Reservation(rq)
                 THEN known' = known \cup {rq = ReserveSelf} /\ open' = open \cup {called + 1}
                 ELSE UNCHANGED <<known, open>>

Refused(c, rq) ==
  /\ Begins(c, rq)
  /\ calls' = [calls EXCEPT ![c] = [NoCall EXCEPT !.id = called + 1, !.rq = rq,
                                                  !.result = "refused"]]
  /\ UNCHANGED <<requests, known, open>>

(* A nil context or nil arguments are refused as well.                     *)
Reserve(c) == IF serverType = "TypeReservation" THEN Do(c, ReserveSelf)
                                                ELSE Refused(c, ReserveSelf)
Unreserve(c) == IF serverType = "TypeReservation" THEN Do(c, UnreserveSelf)
                                                  ELSE Refused(c, UnreserveSelf)
Hold(c) == Do(c, HoldSelf)
AskHoldStatus(c) == Do(c, HoldStatus)
Release(c) == Do(c, ReleaseSelf)
ReadyForPlayers(c) == IF allocatedUUID THEN Do(c, PatchAllocation)
                                       ELSE Refused(c, PatchAllocation)

-----------------------------------------------------------------------------
(* The daemon and the network between it and the client.                   *)
Effect(rq) ==
  [reserved |-> IF Reservation(rq) THEN rq = ReserveSelf ELSE daemon.reserved,
   held |-> CASE rq = HoldSelf -> TRUE
              [] rq \in {ReleaseSelf, UnreserveSelf} -> FALSE
              [] OTHER -> daemon.held]
Waiting(id) == \E c \in Callers : calls[c].at = "waiting" /\ calls[c].id = id
Witness == [c \in Callers |-> IF calls[c].at = "waiting" /\ calls[c].rq \in Asking
                                 THEN [calls[c] EXCEPT !.seen = @ \cup {daemon'.held}]
                                 ELSE calls[c]]
(* An answer to a call that gave up finds its connection closed.           *)
Responds(r, status, held) ==
  responses' = IF Waiting(r.id)
                 THEN responses \cup {[id |-> r.id, status |-> status, held |-> held]}
                 ELSE responses

Executes(r) ==
  /\ daemon' = Effect(r.rq) /\ executed' = executed \cup {r.id}
  /\ requests' = requests \ {r}
  /\ Responds(r, Status(r.rq.method), daemon'.held)
  /\ calls' = Witness
  /\ UNCHANGED <<startVars, faults, called, known, open>>

Rejects(r) ==
  /\ Fault /\ requests' = requests \ {r}
  /\ Responds(r, "error", FALSE)
  /\ UNCHANGED <<startVars, daemon, executed, gameVars>>

Lost ==
  /\ Fault
  /\ \/ \E r \in requests : requests' = requests \ {r} /\ UNCHANGED responses
     \/ \E r \in responses : responses' = responses \ {r} /\ UNCHANGED requests
  /\ UNCHANGED <<startVars, daemon, executed, gameVars>>

HoldExpires ==
  /\ daemon.held /\ daemon' = [daemon EXCEPT !.held = FALSE] /\ calls' = Witness
  /\ UNCHANGED <<startVars, requests, responses, faults, executed, called, known, open>>

-----------------------------------------------------------------------------
(* A result: a call that succeeded without another reservation call beside *)
(* it or left over says what the reservation is now.                       *)
Returns(c, result, held) ==
  /\ calls' = [calls EXCEPT ![c] = [@ EXCEPT !.at = "idle", !.result = result, !.held = held]]
  /\ open' = IF result \in {"ok", "unexpected"} THEN open \ {calls[c].id} ELSE open
  /\ known' = IF result = "ok" /\ calls[c].alone THEN {calls[c].rq = ReserveSelf} ELSE known
  /\ UNCHANGED <<startVars, requests, daemon, executed, called>>

(* Mutant: the status is not looked at.                                    *)
StatusIgnored(c, r) ==
  /\ calls[c].at = "waiting" /\ r.id = calls[c].id /\ responses' = responses \ {r}
  /\ Returns(c, "ok", r.held) /\ UNCHANGED faults

(* The answer of a call that waits: another status than the expected one   *)
(* is an error; a body that cannot be read or decoded is one, too.         *)
Answered(c, r) ==
  /\ calls[c].at = "waiting" /\ r.id = calls[c].id /\ responses' = responses \ {r}
  /\ \/ r.status # calls[c].rq.expects /\ Returns(c, "unexpected", FALSE) /\ UNCHANGED faults
     \/ r.status = calls[c].rq.expects /\ Returns(c, "ok", r.held) /\ UNCHANGED faults
     \/ /\ r.status = calls[c].rq.expects /\ calls[c].rq.expects = "OK"
        /\ Returns(c, "failed", FALSE) /\ Fault

(* Mutant: a call that ran out of time is taken for done.                  *)
GivesUpContent(c) ==
  /\ calls[c].at = "waiting" /\ Returns(c, "ok", FALSE)
  /\ UNCHANGED <<responses, faults>>

(* The time of a call is over, or its context is cancelled.                *)
GivesUp(c) ==
  /\ calls[c].at = "waiting" /\ Returns(c, "failed", FALSE)
  /\ responses' = {r \in responses : r.id # calls[c].id} /\ UNCHANGED faults

-----------------------------------------------------------------------------
Start == StartSpawns \/ ListenerCreates \/ ListenerFails \/ StartReturns \/ AllocationEvent
Calls(c) == Reserve(c) \/ Unreserve(c) \/ Hold(c) \/ AskHoldStatus(c) \/ Release(c)
            \/ ReadyForPlayers(c)
Daemon == HoldExpires \/ \E r \in requests : Executes(r) \/ Rejects(r)

Next ==
  \/ Start \/ Daemon \/ Lost
  \/ \E c \in Callers : Calls(c) \/ GivesUp(c) \/ \E r \in responses : Answered(c, r)

Spec == Init /\ [][Next]_vars

-----------------------------------------------------------------------------
(* The state space.                                                        *)
TypeOK ==
  /\ serverType \in {"TypeAllocation", "TypeReservation"}
  /\ listener \in {"none", "spawned", "created", "failed", "serving"}
  /\ localProxyClient \in {"nil", "set"} /\ started \in BOOLEAN /\ allocatedUUID \in BOOLEAN
  /\ calls \in [Callers -> [at : {"idle", "waiting", "panicked"}, id : Nat, rq : Operations,
                            result : {"none", "refused", "ok", "unexpected", "failed"},
                            alone : BOOLEAN, seen : SUBSET BOOLEAN, held : BOOLEAN,
                            safe : BOOLEAN]]
  /\ called \in Nat /\ faults \in Nat /\ executed \subseteq Nat /\ open \subseteq Nat
  /\ requests \subseteq [id : Nat, rq : Operations]
  /\ responses \subseteq [id : Nat, status : {"OK", "NoContent", "error"}, held : BOOLEAN]
  /\ daemon \in [reserved : BOOLEAN, held : BOOLEAN] /\ known \subseteq BOOLEAN

(* What a call returns is true of the daemon: without an error it was      *)
(* carried out, with an unexpected response it never is, and the state of  *)
(* the hold it brings was the case at some moment of the call. Only a call *)
(* that failed otherwise leaves it open.                                   *)
ResultIsTrue ==
  \A c \in Callers :
    /\ calls[c].result = "ok" => calls[c].id \in executed
    /\ calls[c].result = "ok" /\ calls[c].rq \in Asking => calls[c].held \in calls[c].seen
    /\ calls[c].result \in {"unexpected", "refused"} => calls[c].id \notin executed

(* A game that concludes only what the results allow is right about its    *)
(* reservation, although calls overlap, answers get lost, and requests of  *)
(* calls that gave up arrive after later ones.                             *)
GameKnows == daemon.reserved \in known

(* No call panics once Start has returned without an error, and            *)
(* ReadyForPlayers never does, as there is no allocation without a client. *)
NoPanicOnceStarted ==
  \A c \in Callers :
    calls[c].at = "panicked" => ~calls[c].safe /\ calls[c].rq # PatchAllocation
=============================================================================
