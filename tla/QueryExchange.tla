---------------------------- MODULE QueryExchange ----------------------------
(***************************************************************************)
(* A client asks the server for its state over UDP: a challenge first, the *)
(* question with the challenge in it then. The responders of proto/sqp and *)
(* proto/a2s read requests and write answers byte by byte (QueryWire); the *)
(* network loses, repeats and reorders both; the game changes the state.   *)
(*                                                                         *)
(* handleQuery is one goroutine: a request is answered in one step. What   *)
(* runs beside it is modelled elsewhere: the purges in QueryBase, setters  *)
(* in the middle of an answer in QueryServing, the socket's end in         *)
(* ServerLifecycle. The clients are external; they follow the protocols.   *)
(***************************************************************************)
EXTENDS QueryWire

CONSTANTS
  Addr,                 \* client addresses
  Randoms,              \* the values rand may give
  Texts,                \* the arguments of the setters of strings
  Counts,               \* the arguments of the setters of player counts
  MaxMetrics,           \* sqp.MaxMetrics
  MetricValues,         \* the values metrics are set to, as the bits of a float32
  Strays,               \* datagrams that are no part of an exchange
  BufSize,              \* queryReadBufferSizeBytes
  MaxSets,              \* bound: calls of setters
  MaxFaults             \* bound: faults of the network, rand and time

MaxInt32 == 2147483647
MinInt32 == -MaxInt32 - 1

ASSUME ConstantsAssumption ==
  /\ BufSize \in Nat /\ BufSize >= 8 /\ Counts \subseteq MinInt32 .. MaxInt32
  /\ Texts \subseteq Seq(0 .. 255)
  /\ MaxMetrics \in 0 .. 255                        \* a byte counts them
  /\ \A v \in Randoms \cup MetricValues : v \in Nat /\ v \div 256^3 < 256   \* a uint32
  /\ MaxSets \in Nat /\ MaxFaults \in Nat

VARIABLES
  queryProto,           \* "sqp" or "a2s"
  state,                \* the QueryState
  challenges,           \* per address {} or its challenge
  requests, responses,  \* in flight
  clients,              \* what each client is doing: [at, challenge]
  sets, faults,         \* counters for the bounds
  owed                  \* history: the addresses with a challenge not yet answered

serverVars == <<queryProto, state, challenges, sets>>
vars == <<serverVars, requests, responses, clients, faults, owed>>

NoClient == [at |-> "idle", challenge |-> 0]

(* Start has set a name and a map, and made room for metrics.              *)
Init ==
  /\ queryProto \in {"sqp", "a2s"}
  /\ state = [players |-> 0, maxPlayers |-> 0, name |-> <<103, 111>>, gameType |-> <<>>,
              map |-> <<109>>, port |-> 9000, metrics |-> <<>>]
  /\ challenges = [a \in Addr |-> {}]
  /\ requests = {} /\ responses = {} /\ clients = [a \in Addr |-> NoClient]
  /\ sets = 0 /\ faults = 0
  /\ owed = {}

-----------------------------------------------------------------------------
(* The setters. Counts are int32; the current one is kept from being set   *)
(* below zero, but may wrap around.                                        *)
Set(newState) ==
  /\ sets < MaxSets /\ sets' = sets + 1 /\ state' = newState
  /\ UNCHANGED <<queryProto, challenges, requests, responses, clients, faults, owed>>
SetMaxPlayers == \E n \in Counts : Set([state EXCEPT !.maxPlayers = n])
SetCurrentPlayers ==
  \E n \in Counts : Set([state EXCEPT !.players = IF n < 0 THEN 0 ELSE n])
PlayerJoined ==
  LET n == state.players
  IN Set([state EXCEPT !.players = IF n = MaxInt32 THEN MinInt32 ELSE n + 1])
PlayerLeft ==
  LET n == state.players IN Set([state EXCEPT !.players = IF n > 0 THEN n - 1 ELSE n])
SetServerName == \E s \in Texts : Set([state EXCEPT !.name = s])
SetGameType == \E s \in Texts : Set([state EXCEPT !.gameType = s])
SetGameMap == \E s \in Texts : Set([state EXCEPT !.map = s])

(* The metrics grow up to the index that is set, with zeros between.       *)
Stored(metrics, i, v) ==
  [j \in 1 .. (IF i <= Len(metrics) THEN Len(metrics) ELSE i) |->
     IF j = i THEN v ELSE IF j <= Len(metrics) THEN metrics[j] ELSE 0]
SetMetric ==
  /\ queryProto = "sqp"
  /\ \E i \in 1 .. MaxMetrics, v \in MetricValues :
       Set([state EXCEPT !.metrics = Stored(state.metrics, i, v)])

-----------------------------------------------------------------------------
(* The server. A request is taken off the socket.                          *)
IsFor(m, protocol) == m \in requests /\ queryProto = protocol /\ requests' = requests \ {m}

Reply(m, packet, of) ==
  responses' = responses \cup {[to |-> m.from, packet |-> packet, of |-> of, copy |-> m.copy]}
NoReply == responses' = responses

Unanswered == NoReply /\ UNCHANGED <<serverVars, faults, owed, clients>>

(* GenerateChallenge: a new challenge replaces the one before it. A random *)
(* value of zero is rare.                                                  *)
GenerateChallenge(a, v) ==
  /\ v = 0 => faults < MaxFaults
  /\ faults' = IF v = 0 THEN faults + 1 ELSE faults
  /\ challenges' = [challenges EXCEPT ![a] = {v}]
  /\ owed' = owed \cup {a}
  /\ UNCHANGED <<queryProto, state, sets, clients>>

(* Mutant: the challenge stays when the answer is right.                   *)
ConsumeIfWrong(a, challenge) ==
  challenges' = IF challenge \in challenges[a] THEN challenges
                                               ELSE [challenges EXCEPT ![a] = {}]

(* ChallengeMatchesForClient takes the challenge out, whatever the answer. *)
Consume(a, challenge) == challenges' = [challenges EXCEPT ![a] = {}]

ChallengeMatches(a, challenge) == challenge \in challenges[a]
Answer(m, packet, of) ==
  /\ Reply(m, packet, of)
  /\ owed' = owed \ {m.from}

handleChallenge(m) ==
  /\ IsFor(m, "sqp") /\ isChallenge(m.buf)
  /\ \E v \in Randoms :
       GenerateChallenge(m.from, v) /\ Reply(m, SqpChallenge(v), <<>>)

(* A version that is too high is refused when the challenge is spent.      *)
handleQuery(m) ==
  LET query == ParseQuery(m.buf) IN
  /\ IsFor(m, "sqp") /\ ~isChallenge(m.buf) /\ isQuery(m.buf)
  /\ Consume(m.from, query.challenge)
  /\ IF ChallengeMatches(m.from, query.challenge) /\ query.version <= 2
       THEN Answer(m, SqpAnswer(query, state), [state |-> state, query |-> query])
       ELSE NoReply /\ UNCHANGED owed
  /\ UNCHANGED <<queryProto, state, sets, clients, faults>>

(* A challenge of zero is none.                                            *)
handleInfoRequest(m) ==
  LET info == parseInfoRequest(m.buf) IN
  /\ IsFor(m, "a2s") /\ isInfoRequest(m.buf) /\ info.ok
  /\ \/ /\ info.challenge = 0
        /\ \E v \in Randoms :
             GenerateChallenge(m.from, v) /\ Reply(m, A2sChallenge(v), <<>>)
     \/ /\ info.challenge # 0
        /\ Consume(m.from, info.challenge)
        /\ IF ChallengeMatches(m.from, info.challenge)
             THEN Answer(m, A2sInfo(state), [state |-> state])
             ELSE NoReply /\ UNCHANGED owed
        /\ UNCHANGED <<queryProto, state, sets, clients, faults>>

(* Neither a challenge request nor a question; a question that breaks off. *)
Unsupported(m) ==
  /\ \/ IsFor(m, "sqp") /\ ~isChallenge(m.buf) /\ ~isQuery(m.buf)
     \/ IsFor(m, "a2s") /\ ~(isInfoRequest(m.buf) /\ parseInfoRequest(m.buf).ok)
  /\ Unanswered

Respond(m) ==
  \/ handleChallenge(m) \/ handleQuery(m) \/ handleInfoRequest(m) \/ Unsupported(m)

-----------------------------------------------------------------------------
(* Faults: rand fails, a minute passes and a purge meets the challenge,    *)
(* the network loses or repeats a datagram, something else arrives.        *)
Fault == faults < MaxFaults /\ faults' = faults + 1

RandFails(m) ==
  /\ Fault
  /\ \/ IsFor(m, "sqp") /\ isChallenge(m.buf)
     \/ IsFor(m, "a2s") /\ isInfoRequest(m.buf)
        /\ parseInfoRequest(m.buf) = [ok |-> TRUE, challenge |-> 0]
  /\ NoReply /\ UNCHANGED <<serverVars, clients, owed>>

Expires(a) ==
  /\ Fault /\ challenges[a] # {}
  /\ challenges' = [challenges EXCEPT ![a] = {}]
  /\ UNCHANGED <<queryProto, state, sets, requests, responses, clients, owed>>

Lose ==
  /\ Fault
  /\ \/ \E m \in requests : requests' = requests \ {m} /\ UNCHANGED responses
     \/ \E r \in responses : responses' = responses \ {r} /\ UNCHANGED requests
  /\ UNCHANGED <<serverVars, clients, owed>>

Repeat ==
  /\ Fault
  /\ \/ \E m \in requests :
          requests' = requests \cup {[m EXCEPT !.copy = 2]} /\ UNCHANGED responses
     \/ \E r \in responses :
          responses' = responses \cup {[r EXCEPT !.copy = 2]} /\ UNCHANGED requests
  /\ UNCHANGED <<serverVars, clients, owed>>

(* A datagram is kept as what handleQuery finds of it in its buffer.       *)
Send(a, datagram) ==
  requests' = requests \cup
    {[from |-> a, buf |-> ReadBuffer(datagram, BufSize), copy |-> 1]}

StrayArrives(a) ==
  /\ Fault /\ \E d \in Strays : Send(a, d)
  /\ UNCHANGED <<serverVars, responses, clients, owed>>

-----------------------------------------------------------------------------
(* A client: it asks until it has an answer. A challenge it gets while it  *)
(* waits for the answer is one to ask with instead.                        *)
ChallengeRequest == IF queryProto = "sqp" THEN <<0, 0, 0, 0, 0>> ELSE a2sInfoRequest \o <<83, 0>>
Question(challenge) ==
  IF queryProto = "sqp" THEN <<1>> \o BigEndian(challenge, 4) \o <<0, 2, 17>>
                        ELSE a2sInfoRequest \o <<83, 0>> \o LittleEndian(challenge, 4)

HoldsChallenge(packet) ==
  IF queryProto = "sqp" THEN packet[1] = 0 ELSE packet[5] = 65
ReadChallenge(packet) ==
  IF queryProto = "sqp" THEN FromBigEndian(SubSeq(packet, 2, 5))
                        ELSE FromLittleEndian(SubSeq(packet, 6, 9))

ClientBegins(a) ==
  /\ clients[a].at = "idle" /\ Send(a, ChallengeRequest)
  /\ clients' = [clients EXCEPT ![a].at = "challenging"]
  /\ UNCHANGED <<serverVars, responses, faults, owed>>

ClientReceives(a) ==
  \E r \in responses :
    /\ r.to = a /\ responses' = responses \ {r}
    /\ LET challenge == ReadChallenge(r.packet) IN
       \/ /\ HoldsChallenge(r.packet) /\ clients[a].at \in {"challenging", "asking"}
          /\ clients' = [clients EXCEPT ![a] = [at |-> "asking", challenge |-> challenge]]
          /\ Send(a, Question(challenge))
       \/ /\ ~HoldsChallenge(r.packet) /\ clients[a].at = "asking"
          /\ clients' = [clients EXCEPT ![a] = [at |-> "served", challenge |-> 0]]
          /\ UNCHANGED requests
       \/ /\ clients[a].at = "idle" \/ clients[a].at = "served"
             \/ (clients[a].at = "challenging" /\ ~HoldsChallenge(r.packet))
          /\ UNCHANGED <<clients, requests>>
    /\ UNCHANGED <<serverVars, faults, owed>>

(* It gives up when nothing can come any more, or, as a fault, before.     *)
Pending(a) == (\E m \in requests : m.from = a) \/ (\E r \in responses : r.to = a)
ClientTimesOut(a) ==
  /\ clients[a].at \in {"challenging", "asking"}
  /\ \/ ~Pending(a) /\ UNCHANGED faults
     \/ Pending(a) /\ Fault
  /\ clients' = [clients EXCEPT ![a] = NoClient]
  /\ UNCHANGED <<serverVars, requests, responses, owed>>

-----------------------------------------------------------------------------
Setters ==
  \/ SetMaxPlayers \/ SetCurrentPlayers \/ PlayerJoined \/ PlayerLeft
  \/ SetServerName \/ SetGameType \/ SetGameMap \/ SetMetric
Faults == Lose \/ Repeat \/ (\E m \in requests : RandFails(m))
          \/ \E a \in Addr : Expires(a) \/ StrayArrives(a)
Client(a) == ClientBegins(a) \/ ClientReceives(a) \/ (ClientTimesOut(a) /\ ~Pending(a))
handleQueries == \E m \in requests : Respond(m)

Next ==
  \/ Setters
  \/ handleQueries
  \/ Faults
  \/ \E a \in Addr : ClientBegins(a) \/ ClientReceives(a) \/ ClientTimesOut(a)

Spec == Init /\ [][Next]_vars

(* The endpoint reads and answers what arrives and a client goes on, as    *)
(* long as one of them can.                                                *)
FairSpec == Spec /\ WF_vars(handleQueries \/ \E a \in Addr : Client(a))

-----------------------------------------------------------------------------
(* The state space.                                                        *)
TypeOK ==
  /\ queryProto \in {"sqp", "a2s"} /\ sets \in 0 .. MaxSets /\ faults \in 0 .. MaxFaults
  /\ owed \subseteq Addr /\ \A a \in Addr : challenges[a] \subseteq Randoms
  /\ \A m \in requests : m.from \in Addr /\ m.copy \in 1 .. 2
  /\ \A r \in responses : r.to \in Addr /\ r.copy \in 1 .. 2
                          /\ \A i \in DOMAIN r.packet : r.packet[i] \in 0 .. 255
  /\ \A a \in Addr : /\ clients[a].at \in {"idle", "challenging", "asking", "served"}
                     /\ clients[a].challenge \in Randoms \cup {0}

(* Every answer is paid for with a challenge of its own, whatever is       *)
(* repeated on the way: between two answers to an address it was given     *)
(* another challenge.                                                      *)
Sent(a) == {r.packet : r \in {q \in responses : q.to = a}}
AnswersEarned ==
  [][\A a \in Addr : \A p \in Sent(a)' \ Sent(a) : ~HoldsChallenge(p) => a \in owed]_vars

(* An answer, if it goes into a datagram, reads back as the state it was   *)
(* made from, each count cut to the width of its field. In the sqp format  *)
(* the strings have at most 255 bytes for this; that of a longer one       *)
(* spoils the server info, but the chunk after it, which the lengths of    *)
(* the chunks lead to, never. In the a2s format they have no zero byte.    *)
MaxDatagram == 65507
Strings(s) == {s.name, s.gameType, s.map}
Fits(s) == IF queryProto = "sqp" THEN \A t \in Strings(s) : Len(t) <= 255
                                 ELSE \A t \in Strings(s) : 0 \notin {t[i] : i \in DOMAIN t}

ReadsBackSqp(packet, s, query) ==
  LET chunks == From(packet, 12)
      metrics == IF query.wantsServerInfo THEN AfterChunk(chunks) ELSE chunks
  IN /\ FromBigEndian(SubSeq(packet, 10, 11)) = Len(packet) - 11
     /\ query.version >= 2 /\ query.wantsMetrics =>
          ReadSqpMetrics(ReadChunk(metrics)) = s.metrics
     /\ query.wantsServerInfo /\ Fits(s) =>
          ReadSqpServerInfo(ReadChunk(chunks)) =
            [players |-> s.players % 256^2, maxPlayers |-> s.maxPlayers % 256^2,
             name |-> s.name, gameType |-> s.gameType, map |-> s.map, port |-> s.port]
ReadsBackA2s(packet, s) ==
  Fits(s) => ReadA2sInfo(packet) =
               [name |-> s.name, map |-> s.map, gameType |-> s.gameType,
                players |-> s.players % 256, maxPlayers |-> s.maxPlayers % 256]

AnswersReadBack ==
  \A r \in responses : ~HoldsChallenge(r.packet) /\ Len(r.packet) <= MaxDatagram =>
    IF queryProto = "sqp" THEN ReadsBackSqp(r.packet, r.of.state, r.of.query)
                          ELSE ReadsBackA2s(r.packet, r.of.state)

(* A client that asks is served, although datagrams are lost, repeated or  *)
(* overtake each other, a challenge expires or happens to be zero, and     *)
(* other datagrams come from its address.                                  *)
Served == \A a \in Addr : clients[a].at = "challenging" ~> clients[a].at = "served"
=============================================================================
