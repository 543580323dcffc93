------------------------- MODULE QueryServingProofs -------------------------
(***************************************************************************)
(* That a query reports what the game set, for every number of goroutines, *)
(* metrics and values, although the responders take no lock.               *)
(***************************************************************************)
EXTENDS QueryServing, TLAPS

(* The records of the model, named for the provers.                        *)
Metrics == [len : 0 .. MaxMetrics, cap : {0, MaxMetrics},
            array : [0 .. MaxMetrics - 1 -> Nat]]
Setters == [at : {"idle", "lock", "store", "panicked"}, index : Index,
            value : Values \cup {0}, served : BOOLEAN]
Queries == [at : {"idle", "players", "count", "copy", "write"}, info : BOOLEAN,
            metrics : BOOLEAN, players : 0 .. UInt16 - 1, count : 0 .. MaxMetrics,
            values : Seq(Nat)]
Snapshots == [players : SUBSET Int, len : Nat,
              metrics : [0 .. MaxMetrics - 1 -> SUBSET Nat]]

Types ==
  /\ start \in {"new", "configured", "prepared", "sized", "serving", "failed"}
  /\ queryType \in ConfigTypes \cup {"none"} /\ queryProto \in QueryTypes \cup {"none"}
  /\ configs \in 0 .. MaxConfigs /\ sets \in 0 .. MaxSets
  /\ players \in MinInt32 .. MaxInt32 /\ stateLock \in Callers \cup {Nobody}
  /\ metrics \in Metrics /\ setters \in [Callers -> Setters]
  /\ query \in Queries /\ allowed \in Snapshots

(* A call of SetMetric that stores its value holds the lock, and its index *)
(* is one there is.                                                        *)
Locked ==
  \A c \in Callers :
    setters[c].at = "store" => stateLock = c /\ setters[c].index < MaxMetrics

(* Until the configuration changes, the slice Start makes for it has room  *)
(* for every metric, and so what a call of SetMetric saw of the            *)
(* configuration when Start was done holds of the capacity.                *)
Capacity ==
  /\ start # "serving" => queryProto = "none"
  /\ configs = 0 /\ start \in {"sized", "serving"} /\ queryType = "sqp" =>
       metrics.cap = MaxMetrics
  /\ configs = 0 => \A c \in Callers :
       setters[c].at = "lock" /\ setters[c].served => metrics.cap = MaxMetrics

(* What the state is now is among what it was during the query.            *)
NowAllowed ==
  /\ players \in allowed.players
  /\ \A i \in 0 .. MaxMetrics - 1 : metrics.array[i] \in allowed.metrics[i]
  /\ allowed.len <= metrics.len

(* So is what the query has read so far.                                   *)
ReadAllowed ==
  /\ query.at # "idle" => queryProto # "none"
  /\ query.at \in {"idle", "players", "count"} => query.values = <<>>
  /\ query.at = "write" /\ ~query.metrics => query.values = <<>>
  /\ query.at \in {"count", "copy", "write"} /\ query.info =>
       \E n \in allowed.players : query.players = Narrow(n)
  /\ query.at \in {"count", "copy"} => query.metrics
  /\ query.at = "copy" => allowed.len <= query.count /\ Len(query.values) <= query.count
  /\ query.at = "write" /\ query.metrics =>
       allowed.len <= query.count /\ Len(query.values) = query.count
  /\ \A i \in 1 .. Len(query.values) : query.values[i] \in allowed.metrics[i - 1]

(* The inductive invariant.                                                *)
IInv ==
  Types /\ Locked /\ Capacity /\ NowAllowed /\ ReadAllowed /\ NoPanicOnceServing

(* What the proofs need to know of an int32 and a uint16.                  *)
LEMMA Ranges ==
  /\ MinInt32 \in Int /\ MaxInt32 \in Int /\ MinInt32 < 0 /\ 0 < MaxInt32
  /\ UInt16 \in Nat /\ UInt8 \in Nat /\ 0 < UInt8 /\ UInt8 < UInt16
<1>1. MinInt32 \in Int /\ MaxInt32 \in Int /\ MinInt32 < 0 /\ 0 < MaxInt32
  BY SMT DEF MinInt32, MaxInt32
<1>2. UInt16 \in Nat /\ UInt8 \in Nat /\ 0 < UInt8 /\ UInt8 < UInt16
  BY SMT DEF UInt16, UInt8
<1>3. QED
  BY <1>1, <1>2

(* A count narrowed fits the field it is sent in.                          *)
LEMMA NarrowFits == \A n \in Int : Narrow(n) \in 0 .. UInt16 - 1
<1> SUFFICES ASSUME NEW n \in Int PROVE Narrow(n) \in 0 .. UInt16 - 1
  OBVIOUS
<1>1. ASSUME NEW k \in Nat, 0 < k, k <= UInt16 PROVE n % k \in 0 .. UInt16 - 1
  BY <1>1, Ranges
<1>2. QED
  BY <1>1, Ranges DEF Narrow

(* What a query has read before it has read anything.                      *)
LEMMA NoQueryType ==
  /\ NoQuery \in Queries /\ NoQuery.at = "idle" /\ NoQuery.values = <<>>
<1>1. 0 \in 0 .. UInt16 - 1
  BY Ranges
<1>2. QED
  BY <1>1, ConstantsAssumption DEF NoQuery, Queries

(* The state as it is at this moment.                                      *)
LEMMA SnapshotType ==
  ASSUME Types
  PROVE  /\ Snapshot \in Snapshots /\ players \in Snapshot.players
         /\ \A i \in 0 .. MaxMetrics - 1 : metrics.array[i] \in Snapshot.metrics[i]
         /\ Snapshot.len = metrics.len
<1>1. players \in Int /\ metrics \in Metrics
  BY DEF Types
<1>2. metrics.len \in Nat /\ \A i \in 0 .. MaxMetrics - 1 : metrics.array[i] \in Nat
  BY <1>1, ConstantsAssumption DEF Metrics
<1>3. QED
  BY <1>1, <1>2 DEF Snapshot, Snapshots

(* The inductive invariant, initially.                                     *)
LEMMA InitIInv == Init => IInv
<1> SUFFICES ASSUME Init PROVE IInv
  OBVIOUS
<1>1. metrics \in Metrics
  <2>1. [i \in 0 .. MaxMetrics - 1 |-> 0] \in [0 .. MaxMetrics - 1 -> Nat]
    OBVIOUS
  <2>2. QED
    BY <2>1, ConstantsAssumption DEF Init, Metrics
<1>2. setters \in [Callers -> Setters]
  <2>1. NoCall \in Setters
    BY ConstantsAssumption DEF NoCall, Setters, Index
  <2>2. QED
    BY <2>1 DEF Init
<1>3. players \in Int /\ allowed = Snapshot
  BY DEF Init
<1>4. /\ allowed \in Snapshots /\ NowAllowed
  <2>1. metrics.len \in Nat /\ \A i \in 0 .. MaxMetrics - 1 : metrics.array[i] \in Nat
    BY <1>1, ConstantsAssumption DEF Metrics
  <2>2. QED
    BY <1>3, <2>1 DEF Snapshot, Snapshots, NowAllowed
<1>5. query \in Queries /\ query.at = "idle" /\ query.values = <<>>
  BY NoQueryType DEF Init
<1>6. Types
  <2>1. 0 \in MinInt32 .. MaxInt32
    BY Ranges
  <2>2. QED
    BY <1>1, <1>2, <1>4, <1>5, <2>1, ConstantsAssumption
       DEF Init, Types, QueryTypes, ConfigTypes
<1>7. \A c \in Callers : setters[c].at = "idle"
  BY DEF Init, NoCall
<1>8. Locked /\ NoPanicOnceServing
  BY <1>7 DEF Locked, NoPanicOnceServing
<1>9. Capacity
  BY <1>7 DEF Init, Capacity
<1>10. ReadAllowed
  BY <1>5 DEF ReadAllowed
<1>11. QED
  BY <1>4, <1>6, <1>8, <1>9, <1>10 DEF IInv

(* While Start goes on, no query is answered, and the metrics keep their   *)
(* values: only the room for them may grow.                                *)
LEMMA StartKeeps ==
  ASSUME IInv, UNCHANGED <<configs, gameSide>>, start # "serving",
         start' \in {"configured", "prepared", "sized", "serving", "failed"},
         queryType' \in ConfigTypes \cup {"none"}, queryProto' \in QueryTypes \cup {"none"},
         metrics' \in Metrics, metrics'.len = metrics.len, metrics'.array = metrics.array,
         metrics'.cap \in {metrics.cap, MaxMetrics},
         start' # "serving" => queryProto' = "none",
         configs = 0 /\ start' \in {"sized", "serving"} /\ queryType' = "sqp" =>
           metrics'.cap = MaxMetrics
  PROVE  IInv'
<1>1. UNCHANGED <<configs, players, stateLock, setters, sets, query, allowed>>
  BY DEF gameSide
<1>2. Types'
  BY <1>1 DEF IInv, Types
<1>3. Locked' /\ NoPanicOnceServing'
  BY <1>1 DEF IInv, Locked, NoPanicOnceServing
<1>4. Capacity'
  <2>1. ASSUME NEW c \in Callers, configs = 0, setters[c].at = "lock", setters[c].served
        PROVE  metrics'.cap = MaxMetrics
    BY <2>1 DEF IInv, Capacity
  <2>2. QED
    BY <1>1, <2>1 DEF Capacity
<1>5. NowAllowed'
  BY <1>1 DEF IInv, NowAllowed
<1>6. query.at = "idle"
  BY DEF IInv, Capacity, ReadAllowed
<1>7. ReadAllowed'
  BY <1>1, <1>6 DEF IInv, ReadAllowed
<1>8. QED
  BY <1>2, <1>3, <1>4, <1>5, <1>7 DEF IInv

(* So it is with each of its steps.                                        *)
LEMMA StartIInv == IInv /\ Start => IInv'
<1> SUFFICES ASSUME IInv, Start PROVE IInv'
  OBVIOUS
<1>1. metrics \in Metrics /\ queryType \in ConfigTypes \cup {"none"}
  BY DEF IInv, Types
<1>2. start # "serving" => queryProto = "none"
  BY DEF IInv, Capacity
<1>3. CASE StartConfigures \/ MkdirAll
  <2>1. /\ UNCHANGED <<configs, gameSide, metrics, queryProto>> /\ start # "serving"
        /\ start' \in {"configured", "prepared"} /\ queryType' \in ConfigTypes \cup {"none"}
    BY <1>1, <1>3 DEF StartConfigures, MkdirAll
  <2>2. QED
    BY <1>1, <1>2, <2>1, StartKeeps
<1>4. CASE MakeMetrics
  <2>1. /\ UNCHANGED <<configs, gameSide, queryType, queryProto>>
        /\ start = "prepared" /\ start' = "sized"
        /\ metrics' = IF queryType = "sqp" THEN [metrics EXCEPT !.cap = MaxMetrics]
                                           ELSE metrics
    BY <1>4 DEF MakeMetrics
  <2>2. /\ metrics' \in Metrics /\ metrics'.len = metrics.len
        /\ metrics'.array = metrics.array
        /\ metrics'.cap = IF queryType = "sqp" THEN MaxMetrics ELSE metrics.cap
    BY <1>1, <2>1 DEF Metrics
  <2>3. QED
    BY <1>1, <1>2, <2>1, <2>2, StartKeeps
<1>5. CASE switchQueryProtocol
  <2>1. /\ UNCHANGED <<configs, gameSide, metrics, queryType>> /\ start = "sized"
        /\ start' = "serving" /\ queryProto' \in QueryTypes
    BY <1>5 DEF switchQueryProtocol
  <2>2. configs = 0 /\ queryType = "sqp" => metrics.cap = MaxMetrics
    BY <2>1 DEF IInv, Capacity
  <2>3. QED
    BY <1>1, <2>1, <2>2, StartKeeps
<1>6. CASE StartFails
  <2>1. /\ UNCHANGED <<configs, gameSide, metrics, queryType, queryProto>>
        /\ start # "serving" /\ start' = "failed"
    BY <1>6 DEF StartFails
  <2>2. QED
    BY <1>1, <1>2, <2>1, StartKeeps
<1>7. QED
  BY <1>3, <1>4, <1>5, <1>6 DEF Start

(* A change of the configuration leaves the responder as it was.           *)
LEMMA ConfigChangesIInv == IInv /\ ConfigChanges => IInv'
<1> SUFFICES ASSUME IInv, ConfigChanges PROVE IInv'
  OBVIOUS
<1>1. /\ UNCHANGED <<queryProto, players, metrics, stateLock, setters, sets, query, allowed>>
      /\ configs' \in 0 .. MaxConfigs /\ configs' # 0 /\ queryType' \in ConfigTypes
      /\ start = "serving" /\ start' = start
  BY ConstantsAssumption DEF ConfigChanges, IInv, Types
<1>2. Types'
  BY <1>1 DEF IInv, Types
<1>3. Locked' /\ NoPanicOnceServing' /\ NowAllowed'
  BY <1>1 DEF IInv, Locked, NoPanicOnceServing, NowAllowed
<1>4. Capacity'
  BY <1>1 DEF IInv, Capacity
<1>5. ReadAllowed'
  BY <1>1 DEF IInv, ReadAllowed, Narrow
<1>6. QED
  BY <1>2, <1>3, <1>4, <1>5 DEF IInv

(* The players' setters stay within an int32 and are seen by the query.    *)
LEMMA PlayersIInv == IInv /\ Players => IInv'
<1> SUFFICES ASSUME IInv, Players PROVE IInv'
  OBVIOUS
<1>1. PICK n \in MinInt32 .. MaxInt32 : SetPlayers(n)
  <2>1. players \in MinInt32 .. MaxInt32
    BY DEF IInv, Types
  <2>2. CASE PlayerJoined
    <3>1. (IF players = MaxInt32 THEN MinInt32 ELSE players + 1) \in MinInt32 .. MaxInt32
      BY <2>1, Ranges
    <3>2. QED
      BY <2>2, <3>1 DEF PlayerJoined
  <2>3. CASE PlayerLeft
    <3>1. (IF players > 0 THEN players - 1 ELSE players) \in MinInt32 .. MaxInt32
      BY <2>1, Ranges
    <3>2. QED
      BY <2>3, <3>1 DEF PlayerLeft
  <2>4. CASE SetCurrentPlayers
    <3>1. PICK k \in PlayerCounts : SetPlayers(IF k < 0 THEN 0 ELSE k)
      BY <2>4 DEF SetCurrentPlayers
    <3>2. (IF k < 0 THEN 0 ELSE k) \in MinInt32 .. MaxInt32
      BY ConstantsAssumption, Ranges
    <3>3. QED
      BY <3>1, <3>2
  <2>5. QED
    BY <2>2, <2>3, <2>4 DEF Players
<1>2. /\ UNCHANGED <<serveVars, metrics, stateLock, setters, query>>
      /\ players' = n /\ sets' \in 0 .. MaxSets
  BY <1>1, ConstantsAssumption DEF SetPlayers, IInv, Types
<1>3. n \in Int
  OBVIOUS
<1>4. /\ allowed' \in Snapshots /\ allowed'.players = allowed.players \cup {n}
      /\ allowed'.len = allowed.len /\ allowed'.metrics = allowed.metrics
  <2>1. allowed \in Snapshots /\ allowed' = [allowed EXCEPT !.players = @ \cup {n}]
    BY <1>1 DEF SetPlayers, IInv, Types
  <2>2. QED
    BY <1>3, <2>1 DEF Snapshots
<1>5. Types'
  BY <1>2, <1>4 DEF IInv, Types, serveVars
<1>6. Locked' /\ NoPanicOnceServing' /\ Capacity'
  BY <1>2 DEF IInv, Locked, NoPanicOnceServing, Capacity, serveVars
<1>7. NowAllowed'
  BY <1>2, <1>4 DEF IInv, NowAllowed
<1>8. ReadAllowed'
  BY <1>2, <1>4 DEF IInv, ReadAllowed, serveVars, Narrow
<1>9. QED
  BY <1>5, <1>6, <1>7, <1>8 DEF IInv

(* No more values are copied than there are metrics.                       *)
LEMMA LengthBounded ==
  ASSUME Types, ReadAllowed
  PROVE  Len(query.values) \in Nat /\ Len(query.values) <= MaxMetrics
<1>1. /\ query.at \in {"idle", "players", "count", "copy", "write"}
      /\ query.values \in Seq(Nat) /\ query.count \in 0 .. MaxMetrics
      /\ MaxMetrics \in Nat
  BY ConstantsAssumption DEF Types, Queries
<1>2. CASE query.values = <<>>
  BY <1>1, <1>2
<1>3. CASE query.values # <<>>
  <2>1. Len(query.values) <= query.count
    BY <1>1, <1>3 DEF ReadAllowed
  <2>2. QED
    BY <1>1, <2>1
<1>4. QED
  BY <1>2, <1>3

(* A call of SetMetric that the configuration lets pass.                   *)
LEMMA SetMetricAsksIInv ==
  ASSUME IInv, NEW c \in Callers, SetMetricAsks(c)
  PROVE  IInv'
<1>1. /\ UNCHANGED <<serveVars, players, metrics, stateLock, query, allowed>>
      /\ queryType = "sqp" /\ sets' \in 0 .. MaxSets
  BY ConstantsAssumption DEF SetMetricAsks, IInv, Types
<1>2. PICK i \in Index, v \in Values :
        setters' = [setters EXCEPT ![c] = [at |-> "lock", index |-> i, value |-> v,
                                           served |-> start = "serving"]]
  BY DEF SetMetricAsks
<1>3. setters \in [Callers -> Setters]
  BY DEF IInv, Types
<1>4. setters' \in [Callers -> Setters]
  <2>1. (start = "serving") \in BOOLEAN
    OBVIOUS
  <2>2. QED
    BY <1>2, <1>3, <2>1 DEF Setters
<1>5. /\ setters'[c].at = "lock" /\ setters'[c].served = (start = "serving")
      /\ \A k \in Callers \ {c} : setters'[k] = setters[k]
  BY <1>2, <1>3
<1>6. Types'
  BY <1>1, <1>4 DEF IInv, Types, serveVars
<1>7. Locked' /\ NoPanicOnceServing'
  BY <1>1, <1>5 DEF IInv, Locked, NoPanicOnceServing, serveVars
<1>8. Capacity'
  BY <1>1, <1>5 DEF IInv, Capacity, serveVars
<1>9. NowAllowed' /\ ReadAllowed'
  BY <1>1 DEF IInv, NowAllowed, ReadAllowed, Narrow, serveVars
<1>10. QED
  BY <1>6, <1>7, <1>8, <1>9 DEF IInv

(* Under the lock the slice grows up to the index. It never panics as long *)
(* as the configuration is the one the capacity was made for.              *)
LEMMA SetMetricGrowsIInv ==
  ASSUME IInv, NEW c \in Callers, SetMetricGrows(c)
  PROVE  IInv'
<1> DEFINE i == setters[c].index
<1>1. /\ UNCHANGED <<serveVars, players, sets, query, allowed>>
      /\ setters[c].at = "lock" /\ stateLock = Nobody
  BY DEF SetMetricGrows
<1>2. setters \in [Callers -> Setters] /\ metrics \in Metrics /\ NoCall \in Setters
  BY ConstantsAssumption DEF IInv, Types, NoCall, Setters, Index
<1>3. i \in 0 .. MaxMetrics /\ metrics.cap \in {0, MaxMetrics} /\ metrics.len \in 0 .. MaxMetrics
  BY <1>2 DEF Setters, Metrics, Index
<1>4. \A k \in Callers : setters[k].at # "store"
  BY <1>1, ConstantsAssumption DEF IInv, Locked, Nobody
<1>5. CASE ~InRange(i)
  <2>1. setters' = [setters EXCEPT ![c] = NoCall] /\ UNCHANGED <<metrics, stateLock>>
    BY <1>5 DEF SetMetricGrows
  <2>2. setters' \in [Callers -> Setters]
    BY <1>2, <2>1
  <2>3. /\ setters'[c].at = "idle"
        /\ \A k \in Callers \ {c} : setters'[k] = setters[k]
    BY <1>2, <2>1 DEF NoCall
  <2>4. Types'
    BY <1>1, <2>1, <2>2 DEF IInv, Types, serveVars
  <2>5. Locked' /\ NoPanicOnceServing' /\ Capacity'
    BY <1>1, <2>1, <2>3 DEF IInv, Locked, NoPanicOnceServing, Capacity, serveVars
  <2>6. NowAllowed' /\ ReadAllowed'
    BY <1>1, <2>1 DEF IInv, NowAllowed, ReadAllowed, Narrow, serveVars
  <2>7. QED
    BY <2>4, <2>5, <2>6 DEF IInv
<1>6. CASE InRange(i) /\ i >= metrics.cap
  <2>1. setters' = [setters EXCEPT ![c].at = "panicked"] /\ UNCHANGED <<metrics,
                                                                        stateLock>>
    BY <1>6 DEF SetMetricGrows
  <2>2. setters' \in [Callers -> Setters]
    BY <1>2, <2>1 DEF Setters
  <2>3. /\ setters'[c].at = "panicked"
        /\ setters'[c].served = setters[c].served
        /\ \A k \in Callers \ {c} : setters'[k] = setters[k]
    BY <1>2, <2>1 DEF Setters
  <2>4. configs # 0 \/ ~setters[c].served
    <3>1. metrics.cap # MaxMetrics
      BY <1>3, <1>6, ConstantsAssumption DEF InRange
    <3>2. QED
      BY <1>1, <3>1 DEF IInv, Capacity
  <2>5. Types'
    BY <1>1, <2>1, <2>2 DEF IInv, Types, serveVars
  <2>6. Locked' /\ NoPanicOnceServing' /\ Capacity'
    BY <1>1, <2>1, <2>3, <2>4 DEF IInv, Locked, NoPanicOnceServing, Capacity, serveVars
  <2>7. NowAllowed' /\ ReadAllowed'
    BY <1>1, <2>1 DEF IInv, NowAllowed, ReadAllowed, Narrow, serveVars
  <2>8. QED
    BY <2>5, <2>6, <2>7 DEF IInv
<1>7. CASE InRange(i) /\ ~(i >= metrics.cap)
  <2>1. /\ setters' = [setters EXCEPT ![c].at = "store"] /\ stateLock' = c
        /\ metrics' = IF i >= metrics.len THEN [metrics EXCEPT !.len = i + 1] ELSE metrics
    BY <1>7 DEF SetMetricGrows
  <2>2. setters' \in [Callers -> Setters]
    BY <1>2, <2>1 DEF Setters
  <2>3. /\ setters'[c].at = "store" /\ setters'[c].index < MaxMetrics
        /\ \A k \in Callers \ {c} : setters'[k] = setters[k]
    BY <1>2, <1>7, <2>1 DEF Setters, InRange
  <2>4. /\ metrics' \in Metrics /\ metrics.len <= metrics'.len
        /\ metrics'.cap = metrics.cap /\ metrics'.array = metrics.array
    <3>1. i + 1 \in 0 .. MaxMetrics
      BY <1>3, <1>7, ConstantsAssumption DEF InRange
    <3>2. QED
      BY <1>2, <1>3, <2>1, <3>1 DEF Metrics
  <2>5. Types'
    BY <1>1, <2>1, <2>2, <2>4 DEF IInv, Types, serveVars
  <2>6. Locked'
    BY <1>4, <2>1, <2>3 DEF Locked
  <2>7. NoPanicOnceServing' /\ Capacity'
    BY <1>1, <2>3, <2>4 DEF IInv, NoPanicOnceServing, Capacity, serveVars
  <2>8. NowAllowed'
    <3>1. metrics'.len \in Nat /\ metrics.len \in Nat /\ allowed.len \in Nat
      BY <1>2, <2>4, ConstantsAssumption DEF IInv, Types, Metrics, Snapshots
    <3>2. QED
      BY <1>1, <2>4, <3>1 DEF IInv, NowAllowed
  <2>9. ReadAllowed'
    BY <1>1 DEF IInv, ReadAllowed, Narrow, serveVars
  <2>10. QED
    BY <2>5, <2>6, <2>7, <2>8, <2>9 DEF IInv
<1>8. QED
  BY <1>5, <1>6, <1>7

(* A value stored under the lock is one the query may report.              *)
LEMMA SetMetricStoresIInv ==
  ASSUME IInv, NEW c \in Callers, SetMetricStores(c)
  PROVE  IInv'
<1> DEFINE i == setters[c].index
           v == setters[c].value
<1>1. /\ UNCHANGED <<serveVars, players, sets, query>>
      /\ setters[c].at = "store" /\ stateLock' = Nobody
      /\ setters' = [setters EXCEPT ![c] = NoCall]
      /\ metrics' = [metrics EXCEPT !.array[i] = v]
      /\ allowed' = [allowed EXCEPT !.metrics[i] = @ \cup {v}]
  BY DEF SetMetricStores
<1>2. /\ setters \in [Callers -> Setters] /\ metrics \in Metrics /\ NoCall \in Setters
      /\ allowed \in Snapshots
  BY ConstantsAssumption DEF IInv, Types, NoCall, Setters, Index
<1>3. i \in 0 .. MaxMetrics - 1 /\ v \in Nat
  <2>1. i < MaxMetrics /\ i \in 0 .. MaxMetrics /\ v \in Values \cup {0}
    BY <1>1, <1>2 DEF IInv, Locked, Setters, Index
  <2>2. MaxMetrics \in Nat /\ Values \cup {0} \subseteq Nat
    BY ConstantsAssumption
  <2>3. v \in Nat
    BY <2>1, <2>2
  <2>4. QED
    BY <2>1, <2>2, <2>3
<1>4. setters' \in [Callers -> Setters]
  BY <1>1, <1>2
<1>5. /\ setters'[c].at = "idle"
      /\ \A k \in Callers \ {c} : setters'[k] = setters[k]
  BY <1>1, <1>2 DEF NoCall
<1>6. /\ metrics' \in Metrics /\ metrics'.len = metrics.len /\ metrics'.cap = metrics.cap
      /\ metrics'.array = [metrics.array EXCEPT ![i] = v]
  BY <1>1, <1>2, <1>3 DEF Metrics
<1>7. /\ allowed' \in Snapshots /\ allowed'.len = allowed.len
      /\ allowed'.players = allowed.players
      /\ allowed'.metrics = [allowed.metrics EXCEPT ![i] = @ \cup {v}]
  BY <1>1, <1>2, <1>3 DEF Snapshots
<1> HIDE DEF i, v
<1>8. \A j \in 0 .. MaxMetrics - 1 :
        /\ metrics'.array[j] = IF j = i THEN v ELSE metrics.array[j]
        /\ allowed'.metrics[j] = IF j = i THEN allowed.metrics[j] \cup {v}
                                          ELSE allowed.metrics[j]
  BY <1>2, <1>3, <1>6, <1>7 DEF Metrics, Snapshots
<1>9. Types'
  BY <1>1, <1>4, <1>6, <1>7 DEF IInv, Types, serveVars
<1>10. Locked'
  BY <1>1, <1>5 DEF IInv, Locked
<1>11. NoPanicOnceServing' /\ Capacity'
  BY <1>1, <1>5, <1>6 DEF IInv, NoPanicOnceServing, Capacity, serveVars
<1>12. NowAllowed'
  BY <1>1, <1>6, <1>7, <1>8 DEF IInv, NowAllowed
<1>13. ReadAllowed'
  <2>1. ASSUME NEW k \in 1 .. Len(query.values)
        PROVE  query.values[k] \in allowed'.metrics[k - 1]
    <3>1. query.values[k] \in allowed.metrics[k - 1]
      BY DEF IInv, ReadAllowed
    <3>2. k - 1 \in 0 .. MaxMetrics - 1
      <4>1. Len(query.values) <= MaxMetrics /\ Len(query.values) \in Nat
        BY LengthBounded DEF IInv
      <4>2. QED
        BY <4>1, ConstantsAssumption
    <3>3. QED
      BY <1>8, <3>1, <3>2
  <2>2. QED
    BY <1>1, <1>7, <2>1 DEF IInv, ReadAllowed, Narrow, serveVars
<1>14. QED
  BY <1>9, <1>10, <1>11, <1>12, <1>13 DEF IInv

(* A value is copied, or the copy is complete.                             *)
LEMMA QueryCopies ==
  ASSUME NEW q \in Queries, NEW x \in Nat
  PROVE  /\ LET new == [q EXCEPT !.values = Append(@, x)]
            IN  /\ new \in Queries /\ new.at = q.at /\ new.players = q.players
                /\ new.info = q.info /\ new.metrics = q.metrics /\ new.count = q.count
                /\ new.values = Append(q.values, x)
         /\ LET new == [q EXCEPT !.at = "write"]
            IN  /\ new \in Queries /\ new.at = "write" /\ new.players = q.players
                /\ new.info = q.info /\ new.metrics = q.metrics /\ new.count = q.count
                /\ new.values = q.values
<1>1. ASSUME NEW new, new = [q EXCEPT !.values = Append(@, x)]
      PROVE  /\ new \in Queries /\ new.at = q.at /\ new.players = q.players
             /\ new.info = q.info /\ new.metrics = q.metrics /\ new.count = q.count
             /\ new.values = Append(q.values, x)
  <2>1. new \in Queries
    <3>1. Append(q.values, x) \in Seq(Nat)
      BY DEF Queries
    <3>2. QED
      BY <1>1, <3>1 DEF Queries
  <2>2. new.at = q.at /\ new.count = q.count /\ new.players = q.players
    BY <1>1 DEF Queries
  <2>3. new.values = Append(q.values, x)
    BY <1>1 DEF Queries
  <2>4. new.info = q.info
    BY <1>1 DEF Queries
  <2>5. new.metrics = q.metrics
    BY <1>1 DEF Queries
  <2>6. QED
    BY <2>1, <2>2, <2>3, <2>4, <2>5
<1>2. ASSUME NEW new, new = [q EXCEPT !.at = "write"]
      PROVE  /\ new \in Queries /\ new.at = "write" /\ new.players = q.players
             /\ new.info = q.info /\ new.metrics = q.metrics /\ new.count = q.count
             /\ new.values = q.values
  <2>1. new \in Queries
    BY <1>2 DEF Queries
  <2>2. new.at = "write" /\ new.count = q.count /\ new.players = q.players
    BY <1>2 DEF Queries
  <2>3. new.values = q.values
    BY <1>2 DEF Queries
  <2>4. new.info = q.info
    BY <1>2 DEF Queries
  <2>5. new.metrics = q.metrics
    BY <1>2 DEF Queries
  <2>6. QED
    BY <2>1, <2>2, <2>3, <2>4, <2>5
<1>3. QED
  BY <1>1, <1>2

(* A step of a query leaves the game's side alone.                         *)
LEMMA GameSideKept ==
  ASSUME IInv, query' \in Queries, UNCHANGED <<serveVars, players, metrics, stateLock,
                                               setters,
                                               sets, allowed>>
  PROVE  Types' /\ Locked' /\ Capacity' /\ NowAllowed' /\ NoPanicOnceServing'
<1>1. Types'
  BY DEF IInv, Types, serveVars
<1>2. Locked' /\ Capacity' /\ NowAllowed' /\ NoPanicOnceServing'
  BY DEF IInv, Locked, Capacity, NowAllowed, NoPanicOnceServing, serveVars
<1>3. QED
  BY <1>1, <1>2

(* When a query begins, what it may report is the state of that moment.    *)
LEMMA QueryBeginsIInv == IInv /\ QueryBegins => IInv'
<1> SUFFICES ASSUME IInv, QueryBegins PROVE IInv'
  OBVIOUS
<1>1. /\ UNCHANGED <<serveVars, players, metrics, stateLock, setters, sets>>
      /\ queryProto # "none" /\ allowed' = Snapshot
  BY DEF QueryBegins
<1>2. query' \in Queries /\ query'.at = "players" /\ query'.values = <<>>
  <2>1. ASSUME NEW info \in BOOLEAN, NEW m \in BOOLEAN, NEW q,
               q = [at |-> "players", info |-> info, metrics |-> m, players |-> 0,
                    count |-> 0, values |-> <<>>]
        PROVE  q \in Queries /\ q.at = "players" /\ q.values = <<>>
    BY <2>1, Ranges, ConstantsAssumption DEF Queries
  <2>2. CASE query' = [NoQuery EXCEPT !.at = "players", !.info = TRUE]
    <3>1. query' = [at |-> "players", info |-> TRUE, metrics |-> FALSE, players |-> 0,
                    count |-> 0, values |-> <<>>]
      BY <2>2 DEF NoQuery
    <3>2. QED
      BY <2>1, <3>1
  <2>3. ASSUME NEW version \in 0 .. 2, NEW info \in BOOLEAN, NEW wantsMetrics \in BOOLEAN,
               query' = [NoQuery EXCEPT !.at = "players", !.info = info,
                                        !.metrics = version >= 2 /\ wantsMetrics]
        PROVE  query' \in Queries /\ query'.at = "players" /\ query'.values = <<>>
    <3>1. (version >= 2 /\ wantsMetrics) \in BOOLEAN
      OBVIOUS
    <3>2. query' = [at |-> "players", info |-> info, metrics |-> version >= 2 /\ wantsMetrics,
                    players |-> 0, count |-> 0, values |-> <<>>]
      BY <2>3 DEF NoQuery
    <3>3. QED
      BY <2>1, <3>1, <3>2
  <2>4. QED
    BY <2>2, <2>3 DEF QueryBegins
<1>3. /\ allowed' \in Snapshots
      /\ NowAllowed'
  <2>1. allowed'.len <= metrics'.len
    BY <1>1, SnapshotType DEF IInv, Types, Metrics
  <2>2. QED
    BY <1>1, <2>1, SnapshotType DEF IInv, NowAllowed
<1>4. Types'
  BY <1>1, <1>2, <1>3 DEF IInv, Types, serveVars
<1>5. Locked' /\ Capacity' /\ NoPanicOnceServing'
  BY <1>1 DEF IInv, Locked, Capacity, NoPanicOnceServing, serveVars
<1>6. ReadAllowed'
  BY <1>1, <1>2 DEF ReadAllowed, serveVars
<1>7. QED
  BY <1>3, <1>4, <1>5, <1>6 DEF IInv

(* The players are read at one moment of the query.                        *)
LEMMA ReadPlayersIInv == IInv /\ ReadPlayers => IInv'
<1> SUFFICES ASSUME IInv, ReadPlayers PROVE IInv'
  OBVIOUS
<1> DEFINE pc == IF query.metrics THEN "count" ELSE "write"
           n == IF query.info THEN Narrow(players) ELSE 0
<1>1. /\ UNCHANGED <<serveVars, players, metrics, stateLock, setters, sets, allowed>>
      /\ query.at = "players" /\ query' = [query EXCEPT !.at = pc, !.players = n]
  BY DEF ReadPlayers
<1>2. n \in 0 .. UInt16 - 1 /\ pc \in {"idle", "players", "count", "copy", "write"}
  <2>1. players \in Int
    BY DEF IInv, Types
  <2>2. QED
    BY <2>1, NarrowFits, Ranges
<1>3. /\ query' \in Queries /\ query'.at = pc /\ query'.players = n
      /\ query'.info = query.info /\ query'.metrics = query.metrics
      /\ query'.values = <<>>
  <2>1. query \in Queries /\ 0 \in 0 .. MaxMetrics /\ query.values = <<>>
    BY <1>1, ConstantsAssumption DEF IInv, Types, ReadAllowed
  <2> HIDE DEF pc, n
  <2>2. query' \in Queries
    BY <1>1, <1>2, <2>1 DEF Queries
  <2>3. query'.at = pc /\ query'.players = n /\ query'.values = query.values
    BY <1>1, <2>1 DEF Queries
  <2>4. query'.info = query.info
    BY <1>1, <2>1 DEF Queries
  <2>5. query'.metrics = query.metrics
    BY <1>1, <2>1 DEF Queries
  <2>6. QED
    BY <2>1, <2>2, <2>3, <2>4, <2>5
<1>4. query'.info => \E m \in allowed'.players : query'.players = Narrow(m)'
  BY <1>1, <1>3 DEF IInv, NowAllowed, Narrow, serveVars
<1>5. ReadAllowed'
  BY <1>1, <1>3, <1>4 DEF IInv, ReadAllowed, serveVars
<1>6. QED
  BY <1>1, <1>3, <1>5, GameSideKept DEF IInv

(* There are as many metrics as at the beginning of the query, or more.    *)
LEMMA CountMetricsIInv == IInv /\ CountMetrics => IInv'
<1> SUFFICES ASSUME IInv, CountMetrics PROVE IInv'
  OBVIOUS
<1> DEFINE k == IF metrics.len < MaxMetrics THEN metrics.len ELSE MaxMetrics
<1>1. /\ UNCHANGED <<serveVars, players, metrics, stateLock, setters, sets, allowed>>
      /\ query.at = "count" /\ query' = [query EXCEPT !.at = "copy", !.count = k]
  BY DEF CountMetrics
<1>2. k = metrics.len /\ k \in 0 .. MaxMetrics /\ allowed.len \in Nat
  BY ConstantsAssumption DEF IInv, Types, Metrics, Snapshots
<1>3. /\ query' \in Queries /\ query'.at = "copy" /\ query'.count = k
      /\ query'.info = query.info /\ query'.metrics = query.metrics
      /\ query'.values = <<>> /\ query'.players = query.players
  <2>1. query \in Queries /\ 0 \in 0 .. UInt16 - 1 /\ query.values = <<>>
    BY <1>1, Ranges DEF IInv, Types, ReadAllowed
  <2> HIDE DEF k
  <2>2. query' \in Queries
    BY <1>1, <1>2, <2>1 DEF Queries
  <2>3. /\ query'.at = "copy" /\ query'.count = k /\ query'.values = query.values
        /\ query'.players = query.players
    BY <1>1, <2>1 DEF Queries
  <2>4. query'.info = query.info
    BY <1>1, <2>1 DEF Queries
  <2>5. query'.metrics = query.metrics
    BY <1>1, <2>1 DEF Queries
  <2>6. QED
    BY <2>1, <2>2, <2>3, <2>4, <2>5
<1>4. allowed'.len <= query'.count /\ Len(query'.values) <= query'.count
  BY <1>1, <1>2, <1>3 DEF IInv, NowAllowed
<1>5. ReadAllowed'
  BY <1>1, <1>3, <1>4 DEF IInv, ReadAllowed, Narrow, serveVars
<1>6. QED
  BY <1>1, <1>3, <1>5, GameSideKept DEF IInv

(* The values are copied one by one, each as it is at that moment.         *)
LEMMA CopyMetricsIInv == IInv /\ CopyMetrics => IInv'
<1> SUFFICES ASSUME IInv, CopyMetrics PROVE IInv'
  OBVIOUS
<1> DEFINE l == Len(query.values)
           x == metrics.array[l]
<1>1. /\ UNCHANGED <<serveVars, players, metrics, stateLock, setters, sets, allowed>>
      /\ query.at = "copy"
  BY DEF CopyMetrics
<1>2. /\ query \in Queries /\ l \in Nat /\ query.values \in Seq(Nat)
      /\ query.count \in 0 .. MaxMetrics /\ l <= query.count /\ query.metrics
      /\ allowed.len <= query.count /\ MaxMetrics \in Nat
  BY <1>1, ConstantsAssumption DEF IInv, Types, Queries, ReadAllowed
<1>3. CASE l < query.count
  <2>1. l \in 0 .. MaxMetrics - 1
    BY <1>2, <1>3
  <2>2. x \in Nat /\ x \in allowed.metrics[l]
    BY <2>1 DEF IInv, Types, Metrics, NowAllowed
  <2>3. query' = [query EXCEPT !.values = Append(@, x)]
    BY <1>3 DEF CopyMetrics
  <2>4. /\ query' \in Queries /\ query'.at = "copy" /\ query'.players = query.players
        /\ query'.info = query.info /\ query'.metrics = query.metrics
        /\ query'.count = query.count /\ query'.values = Append(query.values, x)
    BY <1>1, <1>2, <2>2, <2>3, QueryCopies
  <2>5. /\ Len(query'.values) = l + 1 /\ query'.values[l + 1] = x
        /\ \A j \in 1 .. l : query'.values[j] = query.values[j]
    BY <1>2, <2>2, <2>4
  <2>6. \A j \in 1 .. Len(query'.values) : query'.values[j] \in allowed'.metrics[j - 1]
    <3> SUFFICES ASSUME NEW j \in 1 .. l + 1
                 PROVE  query'.values[j] \in allowed.metrics[j - 1]
      BY <1>1, <2>5
    <3>1. CASE j \in 1 .. l
      BY <2>5, <3>1 DEF IInv, ReadAllowed
    <3>2. CASE j = l + 1
      BY <1>2, <2>2, <2>5, <3>2
    <3> HIDE DEF l
    <3>3. j \in 1 .. l \/ j = l + 1
      BY <1>2
    <3>4. QED
      BY <3>1, <3>2, <3>3
  <2>7. allowed'.len <= query'.count /\ Len(query'.values) <= query'.count
    BY <1>1, <1>2, <1>3, <2>4, <2>5
  <2>8. ReadAllowed'
    BY <1>1, <2>4, <2>6, <2>7 DEF IInv, ReadAllowed, Narrow, serveVars
  <2>9. QED
    BY <1>1, <2>4, <2>8, GameSideKept DEF IInv
<1>4. CASE ~(l < query.count)
  <2>1. query' = [query EXCEPT !.at = "write"]
    BY <1>4 DEF CopyMetrics
  <2>2. /\ query' \in Queries /\ query'.at = "write" /\ query'.players = query.players
        /\ query'.info = query.info /\ query'.metrics = query.metrics
        /\ query'.count = query.count /\ query'.values = query.values
    BY <1>2, <2>1, QueryCopies
  <2>3. allowed'.len <= query'.count /\ Len(query'.values) = query'.count
    BY <1>1, <1>2, <1>4, <2>2
  <2>4. ReadAllowed'
    BY <1>1, <1>2, <2>2, <2>3 DEF IInv, ReadAllowed, Narrow, serveVars
  <2>5. QED
    BY <1>1, <2>2, <2>4, GameSideKept DEF IInv
<1>5. QED
  BY <1>3, <1>4

(* The answer leaves, and nothing of the query stays.                      *)
LEMMA QueryAnsweredIInv == IInv /\ QueryAnswered => IInv'
<1> SUFFICES ASSUME IInv, QueryAnswered PROVE IInv'
  OBVIOUS
<1>1. /\ UNCHANGED <<serveVars, players, metrics, stateLock, setters, sets, allowed>>
      /\ query' = NoQuery
  BY DEF QueryAnswered
<1>2. query' \in Queries /\ query'.at = "idle" /\ query'.values = <<>>
  BY <1>1, NoQueryType
<1>3. ReadAllowed'
  BY <1>2 DEF ReadAllowed
<1>4. QED
  BY <1>1, <1>2, <1>3, GameSideKept DEF IInv

(* The inductive invariant, over every step and so always.                 *)
LEMMA StepIInv == IInv /\ [Next]_vars => IInv'
<1> SUFFICES ASSUME IInv, [Next]_vars PROVE IInv'
  OBVIOUS
<1>1. CASE UNCHANGED vars
  <2>1. /\ UNCHANGED <<serveVars, players, metrics, stateLock, setters, sets, allowed>>
        /\ query' = query
    BY <1>1 DEF vars
  <2>2. query' \in Queries
    BY <2>1 DEF IInv, Types
  <2>3. ReadAllowed'
    BY <2>1 DEF IInv, ReadAllowed, Narrow, serveVars
  <2>4. QED
    BY <2>1, <2>2, <2>3, GameSideKept DEF IInv
<1>2. CASE Next
  BY <1>2, StartIInv, ConfigChangesIInv, PlayersIInv, SetMetricAsksIInv,
     SetMetricGrowsIInv,
     SetMetricStoresIInv, QueryBeginsIInv, ReadPlayersIInv, CountMetricsIInv,
     CopyMetricsIInv,
     QueryAnsweredIInv DEF Next, SetMetric, Respond
<1>3. QED
  BY <1>1, <1>2

(* So it holds always.                                                     *)
LEMMA AlwaysIInv == Spec => []IInv
BY InitIInv, StepIInv, PTL DEF Spec

-----------------------------------------------------------------------------
(* The query state, the lock and the query in progress keep their types:   *)
(* the counts sent fit the 16 bits of their fields.                        *)
THEOREM TypeCorrect == Spec => []TypeOK
<1>1. IInv => TypeOK
  <2> SUFFICES ASSUME Types PROVE TypeOK
    BY DEF IInv
  <2>1. /\ metrics.len \in 0 .. MaxMetrics /\ metrics.cap \in {0, MaxMetrics}
        /\ DOMAIN metrics.array = 0 .. MaxMetrics - 1
    BY DEF Types, Metrics
  <2>2. \A c \in Callers :
          /\ setters[c].at \in {"idle", "lock", "store", "panicked"}
          /\ setters[c].index \in Index /\ setters[c].value \in Values \cup {0}
          /\ setters[c].served \in BOOLEAN
    BY DEF Types, Setters
  <2>3. /\ query.at \in {"idle", "players", "count", "copy", "write"}
        /\ query.players \in 0 .. UInt16 - 1 /\ query.count \in 0 .. MaxMetrics
    BY DEF Types, Queries
  <2>4. QED
    BY <2>1, <2>2, <2>3 DEF Types, TypeOK
<1>2. QED
  BY <1>1, AlwaysIInv, PTL

(* A query reports what the game set, during the query or before it,       *)
(* although it reads without the lock.                                     *)
THEOREM ReportsTheGameHolds == Spec => []ReportsTheGame
<1>1. IInv => ReportsTheGame
  BY DEF IInv, ReadAllowed, ReportsTheGame, Types, Queries
<1>2. QED
  BY <1>1, AlwaysIInv, PTL

(* A call of SetMetric made once Start was done does not panic, as long as *)
(* the query type is the one Start found.                                  *)
THEOREM NoPanicOnceServingHolds == Spec => []NoPanicOnceServing
<1>1. IInv => NoPanicOnceServing
  BY DEF IInv
<1>2. QED
  BY <1>1, AlwaysIInv, PTL
=============================================================================
