------------------------ MODULE LocalProxyCallsProofs ------------------------
(***************************************************************************)
(* What the results of the calls through the local proxy are worth, for    *)
(* every number of goroutines, calls and faults.                           *)
(***************************************************************************)
EXTENDS LocalProxyCalls, TLAPS

Waits(c) == calls[c].at = "waiting"

(* The client exists before Start returns and before any allocation.       *)
ClientFirst ==
  /\ listener \in {"created", "serving"} => localProxyClient = "set"
  /\ started => localProxyClient = "set"
  /\ allocatedUUID => localProxyClient = "set"

(* No number in the system is ahead of the counter of calls.               *)
Numbered ==
  /\ \A c \in Callers : calls[c].id <= called
  /\ \A r \in requests : r.id <= called
  /\ \A a \in responses : a.id <= called
  /\ \A n \in executed \cup open : n <= called

(* A number belongs to one call in progress, and to one request.           *)
Distinct ==
  /\ \A c, d \in Callers : Waits(c) /\ Waits(d) /\ calls[c].id = calls[d].id => c = d
  /\ \A r, s \in requests : r.id = s.id => r = s

(* A request in flight has not been met, and it is what its call sent.     *)
Pending ==
  \A r \in requests :
    /\ r.id \notin executed
    /\ \A a \in responses : a.id # r.id
    /\ \A c \in Callers : Waits(c) /\ calls[c].id = r.id => calls[c].rq = r.rq

(* An answer in flight to a call in progress says what became of it.       *)
Truthful ==
  \A a \in responses, c \in Callers :
    Waits(c) /\ calls[c].id = a.id =>
      /\ a.status = "error" => a.id \notin executed
      /\ a.status # "error" => /\ a.id \in executed
                               /\ a.status = calls[c].rq.expects
                               /\ calls[c].rq \in Asking => a.held \in calls[c].seen

(* A call in progress has no result; one refused or answered by an         *)
(* unexpected response has left nothing behind that could be carried out.  *)
Settled ==
  \A c \in Callers :
    /\ Waits(c) => calls[c].result = "none"
    /\ calls[c].result \in {"unexpected", "refused"} =>
         \A r \in requests : r.id # calls[c].id

(* A reservation request in flight is open, and what it would make of the  *)
(* reservation is among what the game allows for.                          *)
Reserving ==
  \A r \in requests :
    Reservation(r.rq) => r.id \in open /\ (r.rq = ReserveSelf) \in known

(* A reservation call alone is the only one open, and once it is carried   *)
(* out nothing else touches the reservation.                               *)
Alone ==
  \A c \in Callers :
    Waits(c) /\ calls[c].alone =>
      /\ Reservation(calls[c].rq) /\ open = {calls[c].id}
      /\ calls[c].id \in executed => daemon.reserved = (calls[c].rq = ReserveSelf)

(* The inductive invariant.                                                *)
IInv ==
  /\ TypeOK /\ ClientFirst /\ Numbered /\ Distinct /\ Pending /\ Truthful /\ Settled
  /\ Reserving /\ Alone /\ ResultIsTrue /\ GameKnows /\ NoPanicOnceStarted

(* What a call is, named for the provers.                                  *)
CallStates == [at : {"idle", "waiting", "panicked"}, id : Nat, rq : Operations,
               result : {"none", "refused", "ok", "unexpected", "failed"},
               alone : BOOLEAN, seen : SUBSET BOOLEAN, held : BOOLEAN, safe : BOOLEAN]

(* The daemon answers a request with the status its sender expects.        *)
LEMMA StatusExpected ==
  \A rq \in Operations :
    rq.expects \in {"OK", "NoContent"} /\ Status(rq.method) = rq.expects
BY DEF Operations, ReserveSelf, UnreserveSelf, HoldSelf, HoldStatus, ReleaseSelf,
       PatchAllocation, Request, Status

(* A call is of one operation, and only ReadyForPlayers patches.           *)
LEMMA OperationsApart ==
  /\ ReserveSelf \in Operations /\ UnreserveSelf \in Operations /\ HoldSelf \in Operations
  /\ HoldStatus \in Operations /\ ReleaseSelf \in Operations
  /\ PatchAllocation \in Operations
  /\ PatchAllocation \notin {ReserveSelf, UnreserveSelf, HoldSelf, HoldStatus, ReleaseSelf}
BY DEF Operations, ReserveSelf, UnreserveSelf, HoldSelf, HoldStatus, ReleaseSelf,
       PatchAllocation, Request

(* A goroutine that has not called yet.                                    *)
LEMMA NoCallType == NoCall \in CallStates
<1>1. HoldStatus \in Operations
  BY OperationsApart
<1>2. QED
  BY <1>1 DEF NoCall, CallStates

(* The inductive invariant holds at the start.                             *)
LEMMA InitIInv == Init => IInv
<1> SUFFICES ASSUME Init PROVE IInv
  OBVIOUS
<1>1. TypeOK
  <2>1. calls \in [Callers -> CallStates]
    BY NoCallType DEF Init
  <2>2. started \in BOOLEAN /\ allocatedUUID \in BOOLEAN /\ known \subseteq BOOLEAN
    BY DEF Init
  <2>3. daemon \in [reserved : BOOLEAN, held : BOOLEAN]
    BY DEF Init
  <2>4. QED
    BY <2>1, <2>2, <2>3 DEF Init, TypeOK, CallStates
<1>2. \A c \in Callers : ~Waits(c) /\ calls[c].id = 0 /\ calls[c].result = "none"
                         /\ calls[c].at # "panicked"
  BY DEF Init, Waits, NoCall
<1>3. ClientFirst
  BY DEF Init, ClientFirst
<1>4. Numbered /\ Distinct /\ Pending /\ Truthful
  BY <1>2 DEF Init, Numbered, Distinct, Pending, Truthful
<1>5. Settled /\ Reserving /\ Alone
  BY <1>2 DEF Init, Settled, Reserving, Alone
<1>6. ResultIsTrue /\ NoPanicOnceStarted
  BY <1>2 DEF ResultIsTrue, NoPanicOnceStarted
<1>7. GameKnows
  BY DEF Init, GameKnows
<1>8. QED
  BY <1>1, <1>3, <1>4, <1>5, <1>6, <1>7 DEF IInv

(* Start and the events touch the client alone, and never take it back.    *)
LEMMA StartIInv == IInv /\ Start => IInv'
<1> SUFFICES ASSUME IInv, Start PROVE IInv'
  OBVIOUS
<1>1. UNCHANGED netVars /\ UNCHANGED gameVars /\ serverType' = serverType
  BY DEF Start, StartSpawns, ListenerCreates, ListenerFails, StartReturns, AllocationEvent
<1>2. TypeOK'
  <2>1. started' \in BOOLEAN
    BY DEF IInv, TypeOK, Start, StartSpawns, ListenerCreates, ListenerFails, StartReturns,
           AllocationEvent
  <2>2. allocatedUUID' \in BOOLEAN
    BY DEF IInv, TypeOK, Start, StartSpawns, ListenerCreates, ListenerFails, StartReturns,
           AllocationEvent
  <2>3. /\ listener' \in {"none", "spawned", "created", "failed", "serving"}
        /\ localProxyClient' \in {"nil", "set"}
    BY DEF IInv, TypeOK, Start, StartSpawns, ListenerCreates, ListenerFails, StartReturns,
           AllocationEvent
  <2>4. QED
    BY <1>1, <2>1, <2>2, <2>3 DEF IInv, TypeOK, netVars, gameVars
<1>3. ClientFirst'
  BY DEF IInv, TypeOK, ClientFirst, Start, StartSpawns, ListenerCreates, ListenerFails,
         StartReturns, AllocationEvent
<1>4. Numbered' /\ Distinct' /\ Pending' /\ Truthful' /\ Settled'
  BY <1>1 DEF IInv, Numbered, Distinct, Pending, Truthful, Settled, Waits, netVars,
     gameVars
<1>5. Reserving' /\ Alone' /\ ResultIsTrue' /\ GameKnows' /\ NoPanicOnceStarted'
  BY <1>1 DEF IInv, Reserving, Alone, ResultIsTrue, GameKnows, NoPanicOnceStarted, Waits,
              netVars, gameVars
<1>6. QED
  BY <1>2, <1>3, <1>4, <1>5 DEF IInv

(* A call the SDK refuses has a number nobody else has, and no request.    *)
LEMMA RefusedIInv ==
  ASSUME IInv, NEW c \in Callers, NEW rq \in Operations, Refused(c, rq)
  PROVE  IInv'
<1>1. /\ called' = called + 1 /\ called \in Nat
      /\ UNCHANGED <<startVars, netVars, known, open>>
  BY DEF Refused, Begins, netVars, IInv, TypeOK
<1>2. calls' \in [Callers -> CallStates]
  <2>1. [NoCall EXCEPT !.id = called + 1, !.rq = rq, !.result = "refused"] \in CallStates
    <3>1. called + 1 \in Nat
      BY <1>1
    <3>2. QED
      BY <3>1 DEF NoCall, CallStates
  <2>2. QED
    BY <2>1 DEF Refused, IInv, TypeOK, CallStates
<1>3. \A k \in Callers \ {c} : calls'[k] = calls[k]
  BY DEF Refused, IInv, TypeOK
<1>4. calls'[c].at = "idle" /\ calls'[c].id = called + 1 /\ calls'[c].result = "refused"
  BY DEF Refused, IInv, TypeOK, NoCall
<1>5. \A n \in {r.id : r \in requests} \cup executed : n # called + 1
  <2>1. /\ \A r \in requests : r.id <= called /\ r.id \in Nat
        /\ \A n \in executed : n <= called /\ n \in Nat
    BY DEF IInv, Numbered, TypeOK
  <2>2. QED
    BY <1>1, <2>1
<1>6. TypeOK'
  BY <1>1, <1>2 DEF IInv, TypeOK, CallStates, startVars, netVars
<1>7. ClientFirst'
  BY <1>1 DEF IInv, ClientFirst, startVars
<1>8. Numbered'
  <2>1. \A k \in Callers : calls'[k].id <= called'
    BY <1>1, <1>3, <1>4 DEF IInv, TypeOK, Numbered
  <2>2. \A n \in Nat : n <= called => n <= called'
    BY <1>1
  <2>3. QED
    BY <1>1, <2>1, <2>2 DEF IInv, TypeOK, Numbered, netVars
<1>9. Distinct' /\ Pending' /\ Truthful'
  BY <1>1, <1>3, <1>4 DEF IInv, Distinct, Pending, Truthful, Waits, netVars
<1>10. Settled' /\ ResultIsTrue'
  BY <1>1, <1>3, <1>4, <1>5 DEF IInv, Settled, ResultIsTrue, Waits, netVars
<1>11. Reserving' /\ Alone' /\ GameKnows' /\ NoPanicOnceStarted'
  BY <1>1, <1>3, <1>4 DEF IInv, Reserving, Alone, GameKnows, NoPanicOnceStarted, Waits,
                          netVars
<1>12. QED
  BY <1>6, <1>7, <1>8, <1>9, <1>10, <1>11 DEF IInv

(* Without a client the call panics, and with it every goroutine.          *)
LEMMA PanicIInv ==
  ASSUME IInv, NEW c \in Callers, NEW rq \in Operations, Do(c, rq),
         rq = PatchAllocation => allocatedUUID, localProxyClient = "nil"
  PROVE  IInv'
<1>1. /\ called' = called + 1 /\ called \in Nat
      /\ UNCHANGED <<startVars, netVars, known, open>>
  BY DEF Do, Begins, netVars, IInv, TypeOK
<1>2. started = FALSE /\ allocatedUUID = FALSE
  BY DEF IInv, ClientFirst, TypeOK
<1>3. calls' = [k \in Callers |->
                  [NoCall EXCEPT !.at = "panicked", !.rq = rq, !.safe = started]]
  BY DEF Do
<1>4. calls' \in [Callers -> CallStates]
  <2>1. [NoCall EXCEPT !.at = "panicked", !.rq = rq, !.safe = started] \in CallStates
    BY <1>2, NoCallType DEF CallStates
  <2>2. QED
    BY <1>3, <2>1
<1>5. \A k \in Callers : /\ calls'[k].at = "panicked" /\ calls'[k].id = 0
                         /\ calls'[k].result = "none" /\ calls'[k].rq = rq
  BY <1>3 DEF NoCall
<1>6. \A k \in Callers : ~calls'[k].safe
  BY <1>2, <1>3 DEF NoCall
<1>7. TypeOK'
  BY <1>1, <1>4 DEF IInv, TypeOK, CallStates, startVars, netVars
<1>8. ClientFirst'
  BY <1>1 DEF IInv, ClientFirst, startVars
<1>9. Numbered'
  <2>1. \A n \in Nat : n <= called => n <= called'
    BY <1>1
  <2>2. \A k \in Callers : calls'[k].id <= called'
    BY <1>1, <1>5
  <2>3. QED
    BY <1>1, <2>1, <2>2 DEF IInv, TypeOK, Numbered, netVars
<1>10. Distinct' /\ Pending' /\ Truthful' /\ Settled' /\ Alone' /\ ResultIsTrue'
  BY <1>1, <1>5 DEF IInv, Distinct, Pending, Truthful, Settled, Alone, ResultIsTrue,
     Waits,
                    netVars
<1>11. Reserving' /\ GameKnows'
  BY <1>1 DEF IInv, Reserving, GameKnows, netVars
<1>12. NoPanicOnceStarted'
  BY <1>2, <1>5, <1>6 DEF NoPanicOnceStarted
<1>13. QED
  BY <1>7, <1>8, <1>9, <1>10, <1>11, <1>12 DEF IInv

(* Another reservation call changes no more of a call than its alone.      *)
LEMMA Marked ==
  ASSUME NEW call \in CallStates, NEW b
  PROVE  LET new == [call EXCEPT !.alone = @ /\ ~b]
         IN  /\ new.at = call.at /\ new.id = call.id /\ new.rq = call.rq
             /\ new.result = call.result /\ new.seen = call.seen
<1> DEFINE new == [call EXCEPT !.alone = @ /\ ~b]
<1>1. new.at = call.at
  BY DEF CallStates
<1>2. new.id = call.id
  BY DEF CallStates
<1>3. new.rq = call.rq
  BY DEF CallStates
<1>4. new.result = call.result
  BY DEF CallStates
<1>5. new.seen = call.seen
  BY DEF CallStates
<1>6. QED
  BY <1>1, <1>2, <1>3, <1>4, <1>5

(* With a client the request goes out under a number nobody else has; a    *)
(* reservation call opens the question what the reservation is.            *)
LEMMA SendIInv ==
  ASSUME IInv, NEW c \in Callers, NEW rq \in Operations, Do(c, rq),
         localProxyClient # "nil"
  PROVE  IInv'
<1> DEFINE n == called + 1
           r0 == [id |-> n, rq |-> rq]
<1>1. /\ called' = n /\ called \in Nat /\ n \in Nat /\ ~Waits(c)
      /\ UNCHANGED <<startVars, responses, daemon, faults, executed>>
  <2>1. called \in Nat
    BY DEF IInv, TypeOK
  <2>2. Begins(c, rq)
    BY DEF Do
  <2>3. calls[c].at = "idle"
    BY <2>2 DEF Begins
  <2>4. QED
    BY <2>1, <2>2, <2>3 DEF Begins, Waits
<1>2. requests' = requests \cup {r0}
  BY DEF Do
<1>3. /\ Waits(c)' /\ calls'[c].id = n /\ calls'[c].rq = rq
      /\ calls'[c].result = "none"
  BY DEF Do, NoCall, Waits
<1>4. calls'[c].alone => Reservation(rq) /\ open = {}
  BY DEF Do, NoCall
<1> DEFINE others == \A k \in Callers \ {c} :
                       /\ calls[k] \in CallStates
                       /\ calls'[k] = [calls[k] EXCEPT !.alone = @ /\ ~Reservation(rq)]
<1>a. others
  BY DEF Do, IInv, TypeOK, CallStates
<1>5. \A k \in Callers \ {c} :
        /\ calls'[k].at = calls[k].at /\ calls'[k].id = calls[k].id
        /\ calls'[k].rq = calls[k].rq /\ calls'[k].result = calls[k].result
        /\ calls'[k].seen = calls[k].seen
  <2> SUFFICES ASSUME NEW k \in Callers \ {c}
               PROVE  /\ calls'[k].at = calls[k].at /\ calls'[k].id = calls[k].id
                      /\ calls'[k].rq = calls[k].rq /\ calls'[k].result = calls[k].result
                      /\ calls'[k].seen = calls[k].seen
    OBVIOUS
  <2>1. calls[k] \in CallStates
    BY <1>a
  <2>2. calls'[k] = [calls[k] EXCEPT !.alone = @ /\ ~Reservation(rq)]
    BY <1>a
  <2>3. QED
    BY <2>1, <2>2, Marked
<1>6. \A k \in Callers \ {c} : /\ calls'[k].held = calls[k].held
                              /\ calls'[k].safe = calls[k].safe
  BY <1>a DEF CallStates
<1>7. \A k \in Callers \ {c} : calls'[k].alone => calls[k].alone /\ ~Reservation(rq)
  BY <1>a DEF CallStates
<1> HIDE DEF others
<1>8. /\ known \subseteq known' /\ open \subseteq open'
      /\ open' \subseteq open \cup {n} /\ (~Reservation(rq) => open' = open)
  BY <1>1 DEF Do
<1>9. Reservation(rq) => (rq = ReserveSelf) \in known' /\ n \in open'
  BY <1>1 DEF Do
<1>10. /\ \A k \in Callers : calls[k].id # n /\ calls[k].id \in Nat
       /\ \A r \in requests : r.id # n /\ r.id \in Nat
       /\ \A a \in responses : a.id # n /\ a.id \in Nat
       /\ \A m \in executed \cup open : m # n /\ m \in Nat
  BY <1>1 DEF IInv, Numbered, TypeOK
<1> HIDE DEF n
<1>11. TypeOK'
  <2>1. calls' \in [Callers -> CallStates]
    <3>1. [NoCall EXCEPT !.at = "waiting", !.id = n, !.rq = rq,
                         !.alone = Reservation(rq) /\ open = {},
                         !.seen = IF rq \in Asking THEN {daemon.held} ELSE {}]
            \in CallStates
      <4>1. (IF rq \in Asking THEN {daemon.held} ELSE {}) \in SUBSET BOOLEAN
        BY DEF IInv, TypeOK
      <4>2. (Reservation(rq) /\ open = {}) \in BOOLEAN
        BY DEF Reservation
      <4>3. QED
        BY <1>1, <4>1, <4>2 DEF NoCall, CallStates
    <3>2. \A k \in Callers :
            [calls[k] EXCEPT !.alone = @ /\ ~Reservation(rq)] \in CallStates
      <4>1. ASSUME NEW s \in CallStates, NEW b \in BOOLEAN
            PROVE  [s EXCEPT !.alone = b] \in CallStates
        BY ONLY SMT, <4>1 DEF CallStates
      <4>2. ASSUME NEW s \in CallStates
            PROVE  s.alone \in BOOLEAN
        BY ONLY SMT, <4>2 DEF CallStates
      <4>3. \A k \in Callers : calls[k] \in CallStates
        BY Zenon DEF IInv, TypeOK, CallStates
      <4> SUFFICES ASSUME NEW k \in Callers
                   PROVE  [calls[k] EXCEPT !.alone = @ /\ ~Reservation(rq)] \in CallStates
        OBVIOUS
      <4>4. calls[k] \in CallStates
        BY Zenon, <4>3
      <4>5. (calls[k].alone /\ ~Reservation(rq)) \in BOOLEAN
        BY Zenon, <4>4, <4>2
      <4>6. QED
        BY Zenon, <4>1, <4>4, <4>5
    <3>3. calls' = [k \in Callers |->
                      IF k = c THEN [NoCall EXCEPT !.at = "waiting", !.id = n, !.rq = rq,
                                       !.alone = Reservation(rq) /\ open = {},
                                       !.seen = IF rq \in Asking THEN {daemon.held} ELSE {}]
                      ELSE [calls[k] EXCEPT !.alone = @ /\ ~Reservation(rq)]]
      BY DEF Do, n
    <3>4. QED
      BY Zenon, <3>1, <3>2, <3>3
  <2>2. r0 \in [id : Nat, rq : Operations]
    BY <1>1
  <2>3. known' \subseteq BOOLEAN
    <3>1. known \subseteq BOOLEAN /\ (rq = ReserveSelf) \in BOOLEAN
      BY DEF IInv, TypeOK
    <3>2. known' = known \/ known' = known \cup {rq = ReserveSelf}
      BY DEF Do
    <3>3. QED
      BY <3>1, <3>2
  <2>4. called' \in Nat /\ open' \subseteq Nat
    BY <1>1, <1>8 DEF IInv, TypeOK
  <2>5. requests' \subseteq [id : Nat, rq : Operations]
    BY <1>2, <2>2 DEF IInv, TypeOK
  <2>6. QED
    BY <1>1, <2>1, <2>3, <2>4, <2>5 DEF IInv, TypeOK, CallStates, startVars
<1>12. ClientFirst'
  BY <1>1 DEF IInv, ClientFirst, startVars
<1>13. Numbered'
  <2>1. \A m \in Nat : m <= called => m <= called'
    BY <1>1 DEF n
  <2>2. n <= called'
    BY <1>1
  <2>3. \A k \in Callers : calls'[k].id <= called'
    BY <1>3, <1>5, <1>10, <2>1, <2>2 DEF IInv, Numbered
  <2>4. \A r \in requests' : r.id <= called'
    BY <1>2, <1>10, <2>1, <2>2 DEF IInv, Numbered
  <2>5. \A m \in executed' \cup open' : m <= called'
    BY <1>1, <1>8, <1>10, <2>1, <2>2 DEF IInv, Numbered
  <2>6. \A a \in responses' : a.id <= called'
    BY <1>1, <1>10, <2>1 DEF IInv, Numbered
  <2>7. QED
    BY <2>3, <2>4, <2>5, <2>6 DEF Numbered
<1>14. Distinct'
  BY <1>2, <1>3, <1>5, <1>10 DEF IInv, Distinct, Waits
<1>15. Pending'
  BY <1>1, <1>2, <1>3, <1>5, <1>10 DEF IInv, Pending, Waits
<1>16. Truthful'
  BY <1>1, <1>3, <1>5, <1>10 DEF IInv, Truthful, Waits
<1>17. Settled'
  BY <1>2, <1>3, <1>5, <1>10 DEF IInv, Settled, Waits
<1>18. Reserving'
  BY <1>2, <1>8, <1>9 DEF IInv, Reserving
<1>19. Alone'
  <2>1. ASSUME Waits(c)', calls'[c].alone
        PROVE  /\ Reservation(calls'[c].rq) /\ open' = {calls'[c].id}
               /\ calls'[c].id \notin executed'
    BY <1>1, <1>3, <1>4, <1>8, <1>9, <1>10, <2>1
  <2>2. ASSUME NEW k \in Callers \ {c}, Waits(k)', calls'[k].alone
        PROVE  /\ Reservation(calls'[k].rq) /\ open' = {calls'[k].id}
               /\ calls'[k].id \in executed'
                    => daemon'.reserved = (calls'[k].rq = ReserveSelf)
    BY <1>1, <1>5, <1>7, <1>8, <2>2 DEF IInv, Alone, Waits
  <2>3. QED
    BY <2>1, <2>2 DEF Alone
<1>20. ResultIsTrue'
  BY <1>1, <1>3, <1>5, <1>6 DEF IInv, ResultIsTrue
<1>21. GameKnows'
  BY <1>1, <1>8 DEF IInv, GameKnows
<1>22. NoPanicOnceStarted'
  BY <1>3, <1>5, <1>6 DEF IInv, NoPanicOnceStarted, Waits
<1>23. QED
  BY <1>11, <1>12, <1>13, <1>14, <1>15, <1>16, <1>17, <1>18, <1>19, <1>20, <1>21, <1>22
     DEF IInv

(* What calls keep when the daemon moves, and what they see of the hold.   *)
Witnessed ==
  \A k \in Callers :
    /\ calls'[k].at = calls[k].at /\ calls'[k].id = calls[k].id
    /\ calls'[k].rq = calls[k].rq /\ calls'[k].result = calls[k].result
    /\ calls'[k].alone = calls[k].alone /\ calls'[k].held = calls[k].held
    /\ calls'[k].safe = calls[k].safe
    /\ \A b \in calls[k].seen : b \in calls'[k].seen
    /\ Waits(k) /\ calls[k].rq \in Asking => daemon'.held \in calls'[k].seen

(* A call that sees one more state of the daemon changes in nothing else.  *)
LEMMA SeenGrows ==
  ASSUME NEW call \in CallStates, NEW b \in BOOLEAN
  PROVE  LET new == [call EXCEPT !.seen = @ \cup {b}]
         IN  /\ new \in CallStates
             /\ new.at = call.at /\ new.id = call.id /\ new.rq = call.rq
             /\ new.result = call.result /\ new.alone = call.alone
             /\ new.held = call.held /\ new.safe = call.safe
             /\ new.seen = call.seen \cup {b}
<1> DEFINE new == [call EXCEPT !.seen = @ \cup {b}]
<1>1. new \in CallStates
  BY DEF CallStates
<1>2. new.at = call.at /\ new.result = call.result
  BY DEF CallStates
<1>3. new.id = call.id
  BY DEF CallStates
<1>4. new.rq = call.rq
  BY DEF CallStates
<1>5. new.alone = call.alone
  BY DEF CallStates
<1>6. new.held = call.held
  BY DEF CallStates
<1>7. new.safe = call.safe
  BY DEF CallStates
<1>8. new.seen = call.seen \cup {b}
  BY DEF CallStates
<1>9. QED
  BY <1>1, <1>2, <1>3, <1>4, <1>5, <1>6, <1>7, <1>8

(* The calls that wait for an answer see what a step makes of the daemon.  *)
LEMMA WitnessIsWitnessed ==
  ASSUME IInv, calls' = Witness, daemon'.held \in BOOLEAN
  PROVE  calls' \in [Callers -> CallStates] /\ Witnessed
<1>1. calls \in [Callers -> CallStates]
  BY DEF IInv, TypeOK, CallStates
<1>2. ASSUME NEW k \in Callers
      PROVE  /\ calls'[k] \in CallStates
             /\ calls'[k].at = calls[k].at /\ calls'[k].id = calls[k].id
             /\ calls'[k].rq = calls[k].rq /\ calls'[k].result = calls[k].result
             /\ calls'[k].alone = calls[k].alone /\ calls'[k].held = calls[k].held
             /\ calls'[k].safe = calls[k].safe
             /\ \A b \in calls[k].seen : b \in calls'[k].seen
             /\ Waits(k) /\ calls[k].rq \in Asking => daemon'.held \in calls'[k].seen
  <2>1. calls[k] \in CallStates
    BY <1>1
  <2>2. CASE Waits(k) /\ calls[k].rq \in Asking
    <3>1. calls'[k] = [calls[k] EXCEPT !.seen = @ \cup {daemon'.held}]
      BY <2>2 DEF Witness, Waits
    <3>2. QED
      BY <2>1, <3>1, SeenGrows
  <2>3. CASE ~(Waits(k) /\ calls[k].rq \in Asking)
    <3>1. calls'[k] = calls[k]
      BY <2>3 DEF Witness, Waits
    <3>2. QED
      BY <2>1, <2>3, <3>1
  <2>4. QED
    BY <2>2, <2>3
<1>3. calls' = [k \in Callers |-> calls'[k]]
  BY DEF Witness
<1>4. QED
  BY <1>2, <1>3 DEF Witnessed

(* The end of a hold is seen by the calls that ask for it.                 *)
LEMMA HoldExpiresIInv == IInv /\ HoldExpires => IInv'
<1> SUFFICES ASSUME IInv, HoldExpires PROVE IInv'
  OBVIOUS
<1>1. /\ UNCHANGED <<startVars, requests, responses, faults, executed, called, known,
                     open>>
      /\ calls' = Witness
  BY DEF HoldExpires
<1>2. daemon' \in [reserved : BOOLEAN, held : BOOLEAN] /\ daemon'.reserved = daemon.reserved
  BY DEF HoldExpires, IInv, TypeOK
<1>3. calls' \in [Callers -> CallStates] /\ Witnessed
  BY <1>1, <1>2, WitnessIsWitnessed
<1>4. TypeOK'
  BY <1>1, <1>2, <1>3 DEF IInv, TypeOK, CallStates, startVars
<1>5. ClientFirst' /\ Numbered' /\ Distinct'
  BY <1>1, <1>3 DEF IInv, ClientFirst, Numbered, Distinct, Witnessed, Waits, startVars
<1>6. Pending' /\ Truthful' /\ Settled'
  BY <1>1, <1>3 DEF IInv, Pending, Truthful, Settled, Witnessed, Waits
<1>7. Reserving' /\ Alone' /\ GameKnows'
  BY <1>1, <1>2, <1>3 DEF IInv, Reserving, Alone, GameKnows, Witnessed, Waits
<1>8. ResultIsTrue'
  BY <1>1, <1>3 DEF IInv, ResultIsTrue, Witnessed
<1>9. NoPanicOnceStarted'
  BY <1>3 DEF IInv, NoPanicOnceStarted, Witnessed
<1>10. QED
  BY <1>4, <1>5, <1>6, <1>7, <1>8, <1>9 DEF IInv

(* A request or an answer that gets lost leaves less to be shown.          *)
LEMMA LostIInv == IInv /\ Lost => IInv'
<1> SUFFICES ASSUME IInv, Lost PROVE IInv'
  OBVIOUS
<1>1. /\ UNCHANGED <<startVars, daemon, executed>> /\ UNCHANGED gameVars
      /\ requests' \subseteq requests /\ responses' \subseteq responses
  BY DEF Lost
<1>2. faults' \in Nat
  BY DEF Lost, Fault, IInv, TypeOK
<1>3. TypeOK'
  BY <1>1, <1>2 DEF IInv, TypeOK, startVars, gameVars
<1>4. ClientFirst' /\ Numbered' /\ Distinct' /\ Pending' /\ Truthful' /\ Settled'
  BY <1>1 DEF IInv, ClientFirst, Numbered, Distinct, Pending, Truthful, Settled, Waits,
              startVars, gameVars
<1>5. Reserving' /\ Alone' /\ ResultIsTrue' /\ GameKnows' /\ NoPanicOnceStarted'
  BY <1>1 DEF IInv, Reserving, Alone, ResultIsTrue, GameKnows, NoPanicOnceStarted, Waits,
              startVars, gameVars
<1>6. QED
  BY <1>3, <1>4, <1>5 DEF IInv

(* A rejected request was not carried out, and its call learns as much.    *)
LEMMA RejectsIInv ==
  ASSUME IInv, NEW r \in requests, Rejects(r)
  PROVE  IInv'
<1> DEFINE answer == [id |-> r.id, status |-> "error", held |-> FALSE]
<1>1. /\ UNCHANGED <<startVars, daemon, executed>> /\ UNCHANGED gameVars
      /\ requests' = requests \ {r}
      /\ responses' \subseteq responses \cup {answer}
  BY DEF Rejects, Responds
<1>2. /\ answer \in [id : Nat, status : {"OK", "NoContent", "error"}, held : BOOLEAN]
      /\ answer.id = r.id /\ answer.status = "error"
  BY DEF IInv, TypeOK
<1>3. r.id \notin executed /\ r.id <= called /\ \A s \in requests' : s.id # r.id
  BY <1>1 DEF IInv, Pending, Numbered, Distinct
<1> HIDE DEF answer
<1>4. TypeOK'
  <2>1. faults' \in Nat
    BY DEF Rejects, Fault, IInv, TypeOK
  <2>2. QED
    BY <1>1, <1>2, <2>1 DEF IInv, TypeOK, startVars, gameVars
<1>5. ClientFirst' /\ Distinct' /\ Settled'
  BY <1>1 DEF IInv, ClientFirst, Distinct, Settled, Waits, startVars, gameVars
<1>6. Numbered'
  BY <1>1, <1>2, <1>3 DEF IInv, Numbered, gameVars
<1>7. Pending'
  BY <1>1, <1>2, <1>3 DEF IInv, Pending, Waits, gameVars
<1>8. Truthful'
  BY <1>1, <1>2, <1>3 DEF IInv, Truthful, Waits, gameVars
<1>9. Reserving' /\ Alone' /\ ResultIsTrue' /\ GameKnows' /\ NoPanicOnceStarted'
  BY <1>1 DEF IInv, Reserving, Alone, ResultIsTrue, GameKnows, NoPanicOnceStarted, Waits,
              startVars, gameVars
<1>10. QED
  BY <1>4, <1>5, <1>6, <1>7, <1>8, <1>9 DEF IInv

(* A request the daemon carries out makes its answer true, and, if it is   *)
(* about the reservation, its effect is one the game allows for.           *)
LEMMA ExecutesIInv ==
  ASSUME IInv, NEW r \in requests, Executes(r)
  PROVE  IInv'
<1> DEFINE answer == [id |-> r.id, status |-> Status(r.rq.method), held |-> daemon'.held]
<1>1. /\ UNCHANGED <<startVars, faults, called, known, open>>
      /\ executed' = executed \cup {r.id} /\ requests' = requests \ {r}
      /\ calls' = Witness /\ daemon' = Effect(r.rq)
  BY DEF Executes
<1>2. responses' = responses \cup {answer} \/ responses' = responses
  BY DEF Executes, Responds
<1>3. r.rq \in Operations /\ r.id \in Nat /\ r \in [id : Nat, rq : Operations]
  BY DEF IInv, TypeOK
<1>4. daemon' \in [reserved : BOOLEAN, held : BOOLEAN]
  BY <1>1 DEF Effect, IInv, TypeOK, Reservation
<1>5. calls' \in [Callers -> CallStates] /\ Witnessed
  BY <1>1, <1>4, WitnessIsWitnessed
<1>6. /\ answer \in [id : Nat, status : {"OK", "NoContent", "error"}, held : BOOLEAN]
      /\ answer.id = r.id /\ answer.status = r.rq.expects /\ answer.status # "error"
      /\ answer.held = daemon'.held
  <2>1. answer.id = r.id /\ answer.status = Status(r.rq.method) /\ answer.held = daemon'.held
    OBVIOUS
  <2>2. Status(r.rq.method) = r.rq.expects /\ r.rq.expects \in {"OK", "NoContent"}
    BY <1>3, StatusExpected
  <2>3. daemon'.held \in BOOLEAN
    BY <1>4
  <2>4. QED
    BY <1>3, <2>1, <2>2, <2>3
<1>7. /\ r.id \notin executed /\ r.id <= called
      /\ \A a \in responses : a.id # r.id
      /\ \A s \in requests' : s.id # r.id
      /\ \A c \in Callers : Waits(c) /\ calls[c].id = r.id => calls[c].rq = r.rq
  BY <1>1 DEF IInv, Pending, Numbered, Distinct
<1>8. Reservation(r.rq) => /\ daemon'.reserved = (r.rq = ReserveSelf)
                          /\ r.id \in open /\ (r.rq = ReserveSelf) \in known
  BY <1>1 DEF Effect, IInv, Reserving
<1>9. ~Reservation(r.rq) => daemon'.reserved = daemon.reserved
  BY <1>1 DEF Effect
<1> HIDE DEF answer
<1>10. TypeOK'
  BY <1>1, <1>2, <1>3, <1>4, <1>5, <1>6 DEF IInv, TypeOK, CallStates, startVars
<1>11. ClientFirst' /\ Distinct'
  BY <1>1, <1>5 DEF IInv, ClientFirst, Distinct, Witnessed, Waits, startVars
<1>12. Numbered'
  <2>1. \A a \in responses' : a.id <= called'
    BY <1>1, <1>2, <1>6, <1>7 DEF IInv, Numbered
  <2>2. QED
    BY <1>1, <1>5, <1>7, <2>1 DEF IInv, Numbered, Witnessed
<1>13. Pending'
  <2>1. \A s \in requests' : \A a \in responses' : a.id # s.id
    BY <1>1, <1>2, <1>6, <1>7 DEF IInv, Pending
  <2>2. QED
    BY <1>1, <1>5, <1>7, <2>1 DEF IInv, Pending, Witnessed, Waits
<1>14. Truthful'
  <2> SUFFICES ASSUME NEW a \in responses', NEW c \in Callers, Waits(c)', calls'[c].id = a.id
               PROVE  /\ a.status = "error" => a.id \notin executed'
                      /\ a.status # "error" =>
                           /\ a.id \in executed' /\ a.status = calls'[c].rq.expects
                           /\ calls'[c].rq \in Asking => a.held \in calls'[c].seen
    BY DEF Truthful
  <2>1. /\ Waits(c) /\ calls[c].id = a.id /\ calls'[c].rq = calls[c].rq
        /\ \A b \in calls[c].seen : b \in calls'[c].seen
        /\ calls[c].rq \in Asking => daemon'.held \in calls'[c].seen
    BY <1>5 DEF Witnessed, Waits
  <2>2. CASE a \in responses
    BY <1>1, <1>7, <2>1, <2>2 DEF IInv, Truthful
  <2>3. CASE a = answer
    BY <1>1, <1>6, <1>7, <2>1, <2>3
  <2>4. QED
    BY <1>2, <2>2, <2>3
<1>15. Settled'
  BY <1>1, <1>5 DEF IInv, Settled, Witnessed, Waits
<1>16. Reserving'
  BY <1>1 DEF IInv, Reserving
<1>17. Alone'
  <2> SUFFICES ASSUME NEW c \in Callers, Waits(c)', calls'[c].alone
               PROVE  /\ Reservation(calls'[c].rq) /\ open' = {calls'[c].id}
                      /\ calls'[c].id \in executed' =>
                           daemon'.reserved = (calls'[c].rq = ReserveSelf)
    BY DEF Alone
  <2>1. /\ Waits(c) /\ calls[c].alone /\ calls'[c].id = calls[c].id
        /\ calls'[c].rq = calls[c].rq
    BY <1>5 DEF Witnessed, Waits
  <2>2. /\ Reservation(calls[c].rq) /\ open = {calls[c].id}
        /\ calls[c].id \in executed => daemon.reserved = (calls[c].rq = ReserveSelf)
    BY <2>1 DEF IInv, Alone
  <2>3. CASE Reservation(r.rq)
    <3>1. r.id = calls[c].id
      BY <1>8, <2>2, <2>3
    <3>2. calls[c].rq = r.rq
      BY <1>7, <2>1, <3>1
    <3>3. QED
      BY <1>1, <1>8, <2>1, <2>2, <2>3, <3>2
  <2>4. CASE ~Reservation(r.rq)
    <3>1. ASSUME calls[c].id = r.id PROVE FALSE
      <4>1. calls[c].rq = r.rq
        BY <1>7, <2>1, <3>1
      <4>2. QED
        BY <2>2, <2>4, <4>1
    <3>2. QED
      BY <1>1, <1>9, <2>1, <2>2, <2>4, <3>1
  <2>5. QED
    BY <2>3, <2>4
<1>18. ResultIsTrue'
  <2>1. \A c \in Callers :
          calls[c].result \in {"unexpected", "refused"} => calls[c].id \notin executed'
    BY <1>1 DEF IInv, Settled, ResultIsTrue
  <2>2. QED
    BY <1>1, <1>5, <2>1 DEF IInv, ResultIsTrue, Witnessed
<1>19. GameKnows'
  BY <1>1, <1>8, <1>9 DEF IInv, GameKnows
<1>20. NoPanicOnceStarted'
  BY <1>5 DEF IInv, NoPanicOnceStarted, Witnessed
<1>21. QED
  BY <1>10, <1>11, <1>12, <1>13, <1>14, <1>15, <1>16, <1>17, <1>18, <1>19, <1>20 DEF IInv

(* A call comes back with what its answer justifies. A reservation call    *)
(* that succeeded alone says what the reservation is.                      *)
LEMMA ReturnsIInv ==
  ASSUME IInv, NEW c \in Callers, Waits(c),
         NEW result \in {"ok", "unexpected", "failed"}, NEW held \in BOOLEAN,
         Returns(c, result, held), faults' \in Nat, responses' \subseteq responses,
         result = "ok" => /\ calls[c].id \in executed
                          /\ calls[c].rq \in Asking => held \in calls[c].seen,
         result = "unexpected" => calls[c].id \notin executed,
         result # "failed" => \A r \in requests : r.id # calls[c].id
  PROVE  IInv'
<1>1. UNCHANGED <<startVars, requests, daemon, executed, called>>
  BY DEF Returns
<1>2. calls \in [Callers -> CallStates] /\ calls[c] \in CallStates
  BY DEF IInv, TypeOK, CallStates
<1>3. calls' = [calls EXCEPT ![c] =
                  [calls[c] EXCEPT !.at = "idle", !.result = result, !.held = held]]
  BY DEF Returns
<1>4. calls' \in [Callers -> CallStates]
  <2>1. [calls[c] EXCEPT !.at = "idle", !.result = result, !.held = held] \in CallStates
    BY <1>2 DEF CallStates
  <2>2. QED
    BY <1>2, <1>3, <2>1
<1>5. \A k \in Callers \ {c} : calls'[k] = calls[k]
  BY <1>2, <1>3
<1>6. /\ calls'[c].at = "idle" /\ calls'[c].result = result
      /\ calls'[c].id = calls[c].id /\ calls'[c].rq = calls[c].rq
  BY <1>2, <1>3 DEF CallStates
<1>7. calls'[c].held = held /\ calls'[c].seen = calls[c].seen
  BY <1>2, <1>3 DEF CallStates
<1>8. open' = IF result \in {"ok", "unexpected"} THEN open \ {calls[c].id} ELSE open
  BY DEF Returns
<1>9. \/ known' = known
      \/ result = "ok" /\ calls[c].alone /\ known' = {calls[c].rq = ReserveSelf}
  BY DEF Returns
<1>10. TypeOK'
  <2>1. known' \subseteq BOOLEAN
    <3>1. known \subseteq BOOLEAN
      BY DEF IInv, TypeOK
    <3>2. {calls[c].rq = ReserveSelf} \subseteq BOOLEAN
      OBVIOUS
    <3>3. known' = known \/ known' = {calls[c].rq = ReserveSelf}
      BY <1>9
    <3>4. QED
      BY <3>1, <3>2, <3>3
  <2>2. open' \subseteq Nat
    BY <1>8 DEF IInv, TypeOK
  <2>3. QED
    BY <1>1, <1>4, <2>1, <2>2 DEF IInv, TypeOK, CallStates, startVars
<1>11. ClientFirst'
  BY <1>1 DEF IInv, ClientFirst, startVars
<1>12. Numbered'
  BY <1>1, <1>5, <1>6, <1>8 DEF IInv, Numbered
<1>13. Distinct' /\ Pending' /\ Truthful'
  BY <1>1, <1>5, <1>6 DEF IInv, Distinct, Pending, Truthful, Waits
<1>14. Settled'
  BY <1>1, <1>5, <1>6 DEF IInv, Settled, Waits
<1>15. Reserving' /\ GameKnows'
  <2>1. CASE known' = known
    <3>1. \A r \in requests : r.id \in open => r.id \in open'
      BY <1>8
    <3>2. QED
      BY <1>1, <2>1, <3>1 DEF IInv, Reserving, GameKnows
  <2>2. CASE result = "ok" /\ calls[c].alone /\ known' = {calls[c].rq = ReserveSelf}
    <3>1. /\ open = {calls[c].id}
          /\ daemon.reserved = (calls[c].rq = ReserveSelf)
      BY <2>2 DEF IInv, Alone
    <3>2. \A r \in requests : ~Reservation(r.rq)
      BY <2>2, <3>1 DEF IInv, Reserving
    <3>3. QED
      BY <1>1, <2>2, <3>1, <3>2 DEF Reserving, GameKnows
  <2>3. QED
    BY <1>9, <2>1, <2>2
<1>16. Alone'
  <2> SUFFICES ASSUME NEW k \in Callers, Waits(k)', calls'[k].alone
               PROVE  /\ Reservation(calls'[k].rq) /\ open' = {calls'[k].id}
                      /\ calls'[k].id \in executed' =>
                           daemon'.reserved = (calls'[k].rq = ReserveSelf)
    BY DEF Alone
  <2>1. k # c /\ calls'[k] = calls[k] /\ Waits(k)
    BY <1>5, <1>6 DEF Waits
  <2>2. calls[c].id # calls[k].id
    BY <2>1 DEF IInv, Distinct
  <2>3. open = {calls[k].id}
    BY <2>1 DEF IInv, Alone
  <2>4. open' = open
    BY <1>8, <2>2, <2>3
  <2>5. QED
    BY <1>1, <2>1, <2>4 DEF IInv, Alone
<1>17. ResultIsTrue'
  BY <1>1, <1>5, <1>6, <1>7 DEF IInv, ResultIsTrue
<1>18. NoPanicOnceStarted'
  BY <1>5, <1>6 DEF IInv, NoPanicOnceStarted
<1>19. QED
  BY <1>10, <1>11, <1>12, <1>13, <1>14, <1>15, <1>16, <1>17, <1>18 DEF IInv

(* The game takes an answer.                                               *)
LEMMA AnsweredIInv ==
  ASSUME IInv, NEW c \in Callers, NEW a \in responses, Answered(c, a)
  PROVE  IInv'
<1>1. Waits(c) /\ a.id = calls[c].id /\ responses' \subseteq responses
  BY DEF Answered, Waits
<1>2. a.held \in BOOLEAN /\ a.status \in {"OK", "NoContent", "error"}
  BY DEF IInv, TypeOK
<1>3. calls[c].rq.expects \in {"OK", "NoContent"}
  BY StatusExpected DEF IInv, TypeOK
<1>4. \A r \in requests : r.id # calls[c].id
  BY <1>1 DEF IInv, Pending
<1>5. CASE a.status # calls[c].rq.expects /\ Returns(c, "unexpected", FALSE) /\ UNCHANGED faults
  <2>1. calls[c].id \notin executed
    BY <1>1, <1>5 DEF IInv, Truthful
  <2>2. faults' \in Nat
    BY <1>5 DEF IInv, TypeOK
  <2>3. QED
    BY <1>1, <1>4, <1>5, <2>1, <2>2, ReturnsIInv
<1>6. CASE a.status = calls[c].rq.expects /\ Returns(c, "ok", a.held) /\ UNCHANGED faults
  <2>1. calls[c].id \in executed /\ (calls[c].rq \in Asking => a.held \in calls[c].seen)
    BY <1>1, <1>3, <1>6 DEF IInv, Truthful
  <2>2. faults' \in Nat
    BY <1>6 DEF IInv, TypeOK
  <2>3. QED
    BY <1>1, <1>2, <1>4, <1>6, <2>1, <2>2, ReturnsIInv
<1>7. CASE Returns(c, "failed", FALSE) /\ Fault
  <2>1. faults' \in Nat
    BY <1>7 DEF Fault, IInv, TypeOK
  <2>2. QED
    BY <1>1, <1>7, <2>1, ReturnsIInv
<1>8. QED
  BY <1>5, <1>6, <1>7 DEF Answered

(* The game gives a call up.                                               *)
LEMMA GivesUpIInv ==
  ASSUME IInv, NEW c \in Callers, GivesUp(c)
  PROVE  IInv'
<1>1. Waits(c) /\ Returns(c, "failed", FALSE) /\ responses' \subseteq responses
  BY DEF GivesUp, Waits
<1>2. faults' \in Nat
  BY DEF GivesUp, IInv, TypeOK
<1>3. QED
  BY <1>1, <1>2, ReturnsIInv

(* The game's calls, one case per step of a call.                          *)
LEMMA CallsIInv ==
  ASSUME IInv, NEW c \in Callers, Calls(c)
  PROVE  IInv'
<1>1. ASSUME NEW rq \in Operations, Do(c, rq), rq = PatchAllocation => allocatedUUID
      PROVE  IInv'
  BY <1>1, PanicIInv, SendIInv
<1>2. ASSUME NEW rq \in Operations, Refused(c, rq)
      PROVE  IInv'
  BY <1>2, RefusedIInv
<1>3. \E rq \in Operations :
        \/ Do(c, rq) /\ (rq = PatchAllocation => allocatedUUID)
        \/ Refused(c, rq)
  BY OperationsApart DEF Calls, Reserve, Unreserve, Hold, AskHoldStatus, Release,
                         ReadyForPlayers
<1>4. QED
  BY <1>1, <1>2, <1>3

(* Every step preserves the inductive invariant.                           *)
LEMMA StepIInv == IInv /\ [Next]_vars => IInv'
<1> SUFFICES ASSUME IInv, [Next]_vars PROVE IInv'
  OBVIOUS
<1>1. CASE UNCHANGED vars
  <2>1. UNCHANGED startVars /\ UNCHANGED netVars /\ UNCHANGED gameVars
    BY <1>1 DEF vars
  <2>2. TypeOK' /\ ClientFirst' /\ Numbered' /\ Distinct'
    BY <2>1 DEF IInv, TypeOK, ClientFirst, Numbered, Distinct, Waits, startVars, netVars,
                gameVars
  <2>3. Pending' /\ Truthful' /\ Settled' /\ Reserving'
    BY <2>1 DEF IInv, Pending, Truthful, Settled, Reserving, Waits, netVars, gameVars
  <2>4. Alone' /\ ResultIsTrue' /\ GameKnows' /\ NoPanicOnceStarted'
    BY <2>1 DEF IInv, Alone, ResultIsTrue, GameKnows, NoPanicOnceStarted, Waits, netVars,
                gameVars
  <2>5. QED
    BY <2>2, <2>3, <2>4 DEF IInv
<1>2. CASE Next
  BY <1>2, StartIInv, HoldExpiresIInv, ExecutesIInv, RejectsIInv, LostIInv, CallsIInv,
     GivesUpIInv, AnsweredIInv DEF Next, Daemon
<1>3. QED
  BY <1>1, <1>2

(* So it holds always.                                                     *)
LEMMA AlwaysIInv == Spec => []IInv
BY InitIInv, StepIInv, PTL DEF Spec

-----------------------------------------------------------------------------
(* The calls, the messages in flight and what the game knows keep their    *)
(* types.                                                                  *)
THEOREM TypeCorrect == Spec => []TypeOK
<1>1. IInv => TypeOK
  BY DEF IInv
<1>2. QED
  BY <1>1, AlwaysIInv, PTL

(* What a call returns is true of the daemon: success means it was carried *)
(* out, an unexpected response that it never is, and the hold it reports   *)
(* was the case during the call.                                           *)
THEOREM ResultIsTrueHolds == Spec => []ResultIsTrue
<1>1. IInv => ResultIsTrue
  BY DEF IInv
<1>2. QED
  BY <1>1, AlwaysIInv, PTL

(* A game that concludes from the results what they allow, and no more, is *)
(* right about its reservation, whatever overlaps, is lost or is late.     *)
THEOREM GameKnowsHolds == Spec => []GameKnows
<1>1. IInv => GameKnows
  BY DEF IInv
<1>2. QED
  BY <1>1, AlwaysIInv, PTL

(* No call made after Start returned panics, nor does ReadyForPlayers.     *)
THEOREM NoPanicOnceStartedHolds == Spec => []NoPanicOnceStarted
<1>1. IInv => NoPanicOnceStarted
  BY DEF IInv
<1>2. QED
  BY <1>1, AlwaysIInv, PTL
=============================================================================
