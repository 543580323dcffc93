----------------------------- MODULE QueryServing -----------------------------
(***************************************************************************)
(* What a query reports of the game, while the game changes it: the        *)
(* setters of server.go (players, metrics), which take stateLock, and the  *)
(* responders of proto/sqp and proto/a2s, which read the same QueryState   *)
(* from handleQuery without it. Start publishes the configuration, makes   *)
(* room for the metrics and chooses the responder (query.go) one after the *)
(* other, beside the game; the configuration may change afterwards.        *)
(*                                                                         *)
(* Challenges are QueryBase's subject: a query is here one that passed.    *)
(* What an answer is made of, byte by byte, is QueryExchange's.            *)
(***************************************************************************)
EXTENDS Integers, Sequences

CONSTANTS
  Callers,              \* the game's goroutines that set metrics
  MaxMetrics,           \* sqp.MaxMetrics
  Values,               \* the values metrics are set to
  PlayerCounts,         \* the arguments of SetCurrentPlayers
  MaxConfigs,           \* bound: changes of the configuration
  MaxSets               \* bound: calls of SetMetric and of the players' setters

MaxInt32 == 2147483647
MinInt32 == -MaxInt32 - 1
UInt16 == 65536          \* how many values it has
UInt8 == 256

ASSUME ConstantsAssumption ==
  /\ MaxMetrics \in Nat \ {0} /\ Values \subseteq Nat
  /\ PlayerCounts \subseteq MinInt32 .. MaxInt32
  /\ MaxConfigs \in Nat /\ MaxSets \in Nat
  /\ "nobody" \notin Callers

QueryTypes == {"sqp", "a2s"}
ConfigTypes == QueryTypes \cup {"other"}  \* what a configuration may ask for
Index == 0 .. MaxMetrics        \* one more than there are metrics
Nobody == "nobody"

VARIABLES
  start,                \* what Start has done so far
  queryType,            \* of the configuration in force, "none" before there is one
  queryProto,           \* the responder that serves, "none" before there is one
  configs,              \* how often the configuration changed
  players,              \* QueryState.CurrentPlayers, an int32
  metrics,              \* QueryState.Metrics: [len, cap, array]
  stateLock,            \* who holds it
  setters,              \* the calls of SetMetric: [at, index, value, served]
  sets,                 \* how many calls there were
  query,                \* the query being answered
  allowed               \* history: what the state was during this query

serveVars == <<start, queryType, queryProto, configs>>
vars == <<serveVars, players, metrics, stateLock, setters, sets, query, allowed>>

NoCall == [at |-> "idle", index |-> 0, value |-> 0, served |-> FALSE]
NoQuery == [at |-> "idle", info |-> FALSE, metrics |-> FALSE, players |-> 0, count |-> 0,
            values |-> <<>>]
Snapshot == [players |-> {players}, len |-> metrics.len,
             metrics |-> [i \in 0 .. MaxMetrics - 1 |-> {metrics.array[i]}]]

Init ==
  /\ start = "new" /\ queryType = "none" /\ queryProto = "none" /\ configs = 0
  /\ players = 0 /\ stateLock = Nobody
  /\ metrics = [len |-> 0, cap |-> 0, array |-> [i \in 0 .. MaxMetrics - 1 |-> 0]]
  /\ setters = [c \in Callers |-> NoCall] /\ sets = 0
  /\ query = NoQuery /\ allowed = Snapshot

-----------------------------------------------------------------------------
(* Start: Config() is in force before the directory of the logs is made,   *)
(* and before there is room for metrics.                                   *)
gameSide == <<players, stateLock, setters, sets, query, allowed>>

StartConfigures ==
  /\ start = "new" /\ start' = "configured" /\ queryType' \in ConfigTypes
  /\ UNCHANGED <<queryProto, configs, metrics, gameSide>>

MkdirAll ==
  /\ start = "configured" /\ start' = "prepared"
  /\ UNCHANGED <<queryType, queryProto, configs, metrics, gameSide>>

MakeMetrics ==
  /\ start = "prepared" /\ start' = "sized"
  /\ metrics' = IF queryType = "sqp" THEN [metrics EXCEPT !.cap = MaxMetrics] ELSE metrics
  /\ UNCHANGED <<queryType, queryProto, configs, gameSide>>

(* Then it chooses the responder and opens the endpoint.                   *)
switchQueryProtocol ==
  /\ start = "sized" /\ queryType \in QueryTypes
  /\ start' = "serving" /\ queryProto' = queryType
  /\ UNCHANGED <<queryType, configs, metrics, gameSide>>

(* The file does not load, the directory is not made, the protocol is not  *)
(* known or the endpoint does not open: what was done so far stays.        *)
StartFails ==
  /\ start \in {"new", "configured", "sized"} /\ start' = "failed"
  /\ UNCHANGED <<queryType, queryProto, configs, metrics, gameSide>>

(* server.json changes, and with it Config().QueryType: it is watched once *)
(* the endpoint is open.                                                   *)
ConfigChanges ==
  /\ start = "serving" /\ configs < MaxConfigs
  /\ configs' = configs + 1 /\ queryType' \in ConfigTypes \ {queryType}
  /\ UNCHANGED <<start, queryProto, players, metrics, stateLock, setters, sets, query,
                 allowed>>

-----------------------------------------------------------------------------
(* The players' setters, each under the lock.                              *)
SetPlayers(n) ==
  /\ stateLock = Nobody /\ sets < MaxSets
  /\ sets' = sets + 1
  /\ players' = n
  /\ allowed' = [allowed EXCEPT !.players = @ \cup {n}]
  /\ UNCHANGED <<serveVars, metrics, stateLock, setters, query>>

(* An int32 wraps around.                                                  *)
PlayerJoined == SetPlayers(IF players = MaxInt32 THEN MinInt32 ELSE players + 1)
PlayerLeft == SetPlayers(IF players > 0 THEN players - 1 ELSE players)
SetCurrentPlayers == \E n \in PlayerCounts : SetPlayers(IF n < 0 THEN 0 ELSE n)

-----------------------------------------------------------------------------
(* SetMetric asks the configuration, not the responder, whether metrics    *)
(* are supported, and may be called at any time.                           *)
SetMetricAsks(c) ==
  /\ setters[c].at = "idle" /\ sets < MaxSets
  /\ queryType = "sqp"
  /\ sets' = sets + 1
  /\ \E i \in Index, v \in Values :
       setters' = [setters EXCEPT ![c] = [at |-> "lock", index |-> i, value |-> v,
                                          served |-> start = "serving"]]
  /\ UNCHANGED <<serveVars, players, metrics, stateLock, query, allowed>>

(* Mutant: the bound of the index is off by one.                           *)
InRangeOrNext(i) == i <= MaxMetrics

InRange(i) == i < MaxMetrics

(* Under the lock: an index too high is refused; the slice grows up to it, *)
(* and growing it beyond its capacity panics.                              *)
SetMetricGrows(c) ==
  LET i == setters[c].index IN
  /\ setters[c].at = "lock" /\ stateLock = Nobody
  /\ IF ~InRange(i)
       THEN setters' = [setters EXCEPT ![c] = NoCall] /\ UNCHANGED <<metrics, stateLock>>
       ELSE IF i >= metrics.cap
       THEN /\ setters' = [setters EXCEPT ![c].at = "panicked"]
            /\ UNCHANGED <<metrics, stateLock>>
       ELSE /\ setters' = [setters EXCEPT ![c].at = "store"]
            /\ stateLock' = c
            /\ metrics' = IF i >= metrics.len THEN [metrics EXCEPT !.len = i + 1] ELSE metrics
  /\ UNCHANGED <<serveVars, players, sets, query, allowed>>

SetMetricStores(c) ==
  LET i == setters[c].index
      v == setters[c].value
  IN
  /\ setters[c].at = "store"
  /\ metrics' = [metrics EXCEPT !.array[i] = v]
  /\ allowed' = [allowed EXCEPT !.metrics[i] = @ \cup {v}]
  /\ setters' = [setters EXCEPT ![c] = NoCall] /\ stateLock' = Nobody
  /\ UNCHANGED <<serveVars, players, sets, query>>

-----------------------------------------------------------------------------
(* handleQuery of sqp and handleInfoRequest of a2s. What the query wants   *)
(* is decided first; the fields are then read one after the other.         *)
QueryBegins ==
  /\ queryProto # "none" /\ query.at = "idle"
  /\ \/ /\ queryProto = "a2s"
        /\ query' = [NoQuery EXCEPT !.at = "players", !.info = TRUE]
     \/ /\ queryProto = "sqp"
        /\ \E version \in 0 .. 2, info, wantsMetrics \in BOOLEAN :
             query' = [NoQuery EXCEPT !.at = "players", !.info = info,
                                      !.metrics = version >= 2 /\ wantsMetrics]
  /\ allowed' = Snapshot
  /\ UNCHANGED <<serveVars, players, metrics, stateLock, setters, sets>>

(* Mutant: the count is sent as it is.                                     *)
NotNarrowed(n) == n

(* The count is narrowed: to 16 bits by sqp, to 8 by a2s.                  *)
Narrow(n) == n % (IF queryProto = "sqp" THEN UInt16 ELSE UInt8)

ReadPlayers ==
  /\ query.at = "players"
  /\ query' = [query EXCEPT !.at = IF query.metrics THEN "count" ELSE "write",
                            !.players = IF query.info THEN Narrow(players) ELSE 0]
  /\ UNCHANGED <<serveVars, players, metrics, stateLock, setters, sets, allowed>>

(* queryStateToMetrics: the length first, then the values one by one.      *)
CountMetrics ==
  /\ query.at = "count"
  /\ query' = [query EXCEPT !.at = "copy",
                            !.count = IF metrics.len < MaxMetrics THEN metrics.len
                                                                  ELSE MaxMetrics]
  /\ UNCHANGED <<serveVars, players, metrics, stateLock, setters, sets, allowed>>

(* Mutant: all there is when it is copied is copied.                       *)
CopyAll ==
  /\ query.at = "copy"
  /\ query' = [query EXCEPT !.at = "write",
                            !.values = [i \in 1 .. metrics.len |-> metrics.array[i - 1]]]
  /\ UNCHANGED <<serveVars, players, metrics, stateLock, setters, sets, allowed>>

CopyMetrics ==
  /\ query.at = "copy"
  /\ query' = IF Len(query.values) < query.count
                THEN [query EXCEPT !.values = Append(@, metrics.array[Len(@)])]
                ELSE [query EXCEPT !.at = "write"]
  /\ UNCHANGED <<serveVars, players, metrics, stateLock, setters, sets, allowed>>

(* What was read is written out, and forgotten.                            *)
QueryAnswered ==
  /\ query.at = "write"
  /\ query' = NoQuery
  /\ UNCHANGED <<serveVars, players, metrics, stateLock, setters, sets, allowed>>

-----------------------------------------------------------------------------
Start == StartConfigures \/ MkdirAll \/ MakeMetrics \/ switchQueryProtocol \/ StartFails
Players == PlayerJoined \/ PlayerLeft \/ SetCurrentPlayers
SetMetric == \E c \in Callers : SetMetricAsks(c) \/ SetMetricGrows(c) \/ SetMetricStores(c)
Respond == QueryBegins \/ ReadPlayers \/ CountMetrics \/ CopyMetrics \/ QueryAnswered

Next == Start \/ ConfigChanges \/ Players \/ SetMetric \/ Respond

Spec == Init /\ [][Next]_vars

-----------------------------------------------------------------------------
(* The state space.                                                        *)
TypeOK ==
  /\ start \in {"new", "configured", "prepared", "sized", "serving", "failed"}
  /\ queryType \in ConfigTypes \cup {"none"} /\ queryProto \in QueryTypes \cup {"none"}
  /\ configs \in 0 .. MaxConfigs /\ sets \in 0 .. MaxSets
  /\ players \in MinInt32 .. MaxInt32
  /\ metrics.len \in 0 .. MaxMetrics /\ metrics.cap \in {0, MaxMetrics}
  /\ DOMAIN metrics.array = 0 .. MaxMetrics - 1
  /\ stateLock \in Callers \cup {Nobody}
  /\ \A c \in Callers :
       /\ setters[c].at \in {"idle", "lock", "store", "panicked"}
       /\ setters[c].index \in Index /\ setters[c].value \in Values \cup {0}
       /\ setters[c].served \in BOOLEAN
  /\ query.at \in {"idle", "players", "count", "copy", "write"}
  /\ query.players \in 0 .. UInt16 - 1 /\ query.count \in 0 .. MaxMetrics

(* A query reports what the game set: each number it has read is the       *)
(* number's value when the query began or one set since, no metric set     *)
(* before is missing, and there are as many as it says.                    *)
ReportsTheGame ==
  /\ query.at = "write" /\ query.info =>
       query.players \in {Narrow(n) : n \in allowed.players}
  /\ query.at = "write" /\ query.metrics =>
       /\ Len(query.values) >= allowed.len /\ Len(query.values) = query.count
       /\ \A i \in 1 .. Len(query.values) : query.values[i] \in allowed.metrics[i - 1]

(* A call of SetMetric that was made when Start had opened the endpoint    *)
(* does not panic, as long as the query type is what Start found. Its      *)
(* check asks the configuration and not the slice, so it does panic after  *)
(* a change from a2s to sqp, and if it was made while Start had published  *)
(* the configuration and not yet made the slice, or failed there.          *)
NoPanicOnceServing ==
  configs = 0 => \A c \in Callers : setters[c].at = "panicked" => ~setters[c].served
=============================================================================
