# A verification project for the Unity Gaming Services Go SDK

The SDK links a game server to the Unity platform: it follows the allocations the platform makes, follows
`server.json`, answers SQP and A2S queries, and keeps matchmaker backfill tickets alive. This directory holds TLA+
modules translated from its Go source, TLC configurations that check them, and TLAPS proofs of what matters most.
Paths below are relative to `src/`; `server/` stands for `game-server-hosting/server/`.

Everything hard in this code is concurrency between a handful of goroutines, one-element channels, a `WaitGroup`, a
file another process rewrites, and a connection that comes and goes. The modules keep all of that control and abstract
the data: an allocation ID is the number of the event that brought it, a configuration is the number of the file's
version, a challenge is the number of its issue. One part is the other way round, the query protocols: their exchange
is modelled byte by byte.

## 1. Inventory

| Component | State it keeps | Operations | Interacts with |
|---|---|---|---|
| Event watcher (`server/event_watcher.go`, `internal/localproxy/client.go`, `event.go`) | `allocatedUUID` under a lock, `chanAllocated`, `chanDeallocated`, the callback table, `chanSubscribed`, the client's `done` | `listenForEvents`, `watchAllocation`, `watchDeallocation`, `OnPublish`, `OnSubscribeSuccess`, `OnSubscribeError`, `ReadyForPlayers` | the centrifuge client's callback goroutine; `Start` and `Stop`; the game, which reads the channels |
| Server lifecycle (`server/server.go`) | `wg`, `done`, `internalEventProcessorReady`, `eventWatcherReady` | `New`, `Start`, `Stop`, `WaitUntilTerminated` | spawns and joins the watcher, the listener and `handleQuery` |
| Query endpoint (`server/query.go`, `bind.go`) | the binding's `done` and `conn`, neither under a lock | `switchQueryProtocol`, `restartQueryEndpoint`, `handleQuery`, `Read`, `Write`, `Close`, `IsDone` | `Stop` closes the binding that `handleQuery` uses |
| Configuration (`server/config.go`, `config_watcher.go`) | `currentConfig` under a lock, `chanConfigurationChanged` | `newConfigFromFile`, `watchForConfigChanges`, `setConfig`, `Config` | the SDK daemon rewrites the file; fsnotify reports it |
| Challenges (`server/proto/base.go`) | a `sync.Map` from client address to challenge and expiry, the time of the last purge | `GenerateChallenge`, `ChallengeMatchesForClient`, `purgeStaleChallenges` | `handleQuery`'s goroutine and any number of purge goroutines |
| Responders (`server/proto/sqp`, `server/proto/a2s`) | none of their own; they read `QueryState` | `Respond`, `handleChallenge`, `handleQuery`, `handleInfoRequest` | `QueryState` is written by the setters under a lock the responders do not take |
| Query state (`server/server.go`, `proto/query.go`) | players, names, metrics under `stateLock` | `PlayerJoined`, `PlayerLeft`, `SetCurrentPlayers`, `SetMetric`, ... | the game's goroutines |
| Local proxy calls (`internal/localproxy/{hold,release,reserve,unreserve,allocation}.go`) | none; the daemon keeps it | `Reserve`, `Unreserve`, `Hold`, `HoldStatus`, `Release`, `PatchAllocation` | HTTP with a timeout of ten seconds |
| Backfill (`matchmaker/server`) | its own `wg` and `done`, a ticker | `Start`, `Stop`, `keepAliveBackfill`, `approveBackfillTicket`, `getJwtToken` | `Config()` of the base server, two HTTP services |
| Wire encoding (`proto/query.go`, `sqp/encoder.go`, `a2s/encoder.go`) | none | `WireWrite`, `WriteString` | pure; called by the responders |
| Options, errors, models; `internal/localproxytest` | none | plain data; test double | |

What is hard in each, and what makes it correct:

- *Event watcher.* Two channels with one element each, filled by one goroutine that blocks: events of different kinds
  may be read in the wrong order, a slow game holds everything up, a reconnection sends on a channel nobody reads.
  Correct means that no event that took effect is lost, repeated or reordered within its kind, that
  `ReadyForPlayers` never patches an allocation the game knows to be over, and that `Start` and `Stop` return.
- *Lifecycle and endpoint.* Goroutines that count themselves in the `WaitGroup` after they were spawned, early returns
  that do not give the count back, a pointer cleared while it is used. Correct means that `Stop` returns, that nothing
  runs afterwards, and that it reports no error and crashes nothing.
- *Configuration.* A file read twice while it is truncated and rewritten; a watch that starts after the first read; a
  channel that drops. Correct means that the newest file comes into force and that the game learns of it.
- *Challenges.* Check and delete are two accesses. Correct means that one challenge buys one answer and that stale
  ones leave, without fresh ones being lost more than the code must.
- *Serving.* Reads without the lock, and setters that may be called while `Start` is still at work. Correct means that
  an answer reports the game's values, as many as it says, and that a setter does not panic once the server serves.
- *Exchange.* Two datagrams each way over UDP, strings whose length has one byte, a challenge that may contain zero
  bytes or be zero. Correct means that a client that follows the protocol is served, reads what the server wrote, and
  pays a challenge for each answer.
- *Local proxy calls.* Overlapping requests that outlive the calls that made them, a client another goroutine creates.
  Correct means that a result is true and that a caller knows what it may conclude.
- *Backfill.* Copied configuration, slow requests, a retry. Correct means that a lasting allocation is kept alive, and
  one that ended is not asked for again and again.

`PROJECT.json` lists every hazard at its line under `hazards`, with the properties that cover it or the reason why none
does.

## 2. The modules

`AllocationFeed` is an abstract specification: events take effect in order, the current allocation is the last event's,
and the game is told of each, in order within a kind, with back-pressure instead of loss. It also says how far behind
the game may be: no event takes effect while two events of one kind wait to be told.

`EventWatcher` implements it. One action per callback entry (`Dispatch...`), per end of a callback (`SendAllocated`,
`OnSubscribeSuccess`, `RetrySubscribe`: the steps that may block or take time), per step of `listenForEvents`, of
`Stop` and of the game. `watchAllocation` assigns `allocatedUUID` and then blocks in its send, so that the event is in
force before the game hears of it. `ReadyForPlayers` is two steps, for it leaves its lock before the HTTP request. The
centrifuge client is external and modelled as what the code relies on: callbacks queued, run one at a time. The event
kinds are allocation, deallocation, another type, and data that does not parse. In this module only the listener
contributes to `wg`; the rest of the `WaitGroup` is `ServerLifecycle`'s subject.

`ReadyForPlayers` may be called at any time, before `Start` has returned and after `Stop`, too.

`ServerLifecycle` has the other half of the same goroutines: `Start` with its failures, the three spawned goroutines
from spawn to end, and `Close` against `handleQuery` one access at a time (`CheckDone`, `SetDeadline`, `LoadConn`,
`Transfer`). A method call on a nil connection is the state `crashed`. `WaitUntilTerminated` is the second `Stop` that
comes with the signal when the game has stopped the server itself; it closes `done` again, which is a crash, too. The
read of the pointer and the call are separated, as the compiled code does; the data race on the pointer is the choice of
which step goes first. The file watcher is used although it may be nil (`NoWatcher`; the errors of
`config_watcher.go:14-15` are dropped), and that is a crash inside `Start`, with no `Stop` begun. `StopIsClean` has
three parts: `StopJoins` (when `Stop` returns, the watchers have ended), `SilentAfterStop` (nothing is read or answered
afterwards) and `NoErrorOnStop` (closing the endpoint is not reported as an error). `KnownCrashes` names the three
places where the process may go down, and says that there is no other: a connection cleared under `handleQuery`, a
`done` closed twice, a watcher that could not be made.

`ConfigFeed` is what `Config()` and `OnConfigurationChanged()` promise together, without the file's bytes, the watch
or the channel: the configuration in force moves forward only, its two halves are at most one change apart from each
other, and after each change the game is told, unless the process falls (`down`).

`ConfigWatcher` implements it: it has the daemon's two writes (truncate, write), notifications that may be merged with
an equal one that waits, the two passes of `newConfigFromFile` each with its read and its decoding, `setConfig` as
assignment and non-blocking send, and the game. A pass whose file changes under it may decode what it had read (the
file fits in one block) or fail to parse. A configuration is a pair of versions, known fields and `Extra`. `Start`'s
own load is the same loader, before the watch exists. With `WatchFails` the watch need not come into being: without a
watcher the goroutine panics, and if the directory is not added it runs on and hears of nothing (`deaf`).

`QueryBase` is `proto/base.go`: the map, a clock, one issue at a time (the only caller is `handleQuery`), purges that
visit the keys present at their start one after the other, and delete by key. Range over a `sync.Map` may also visit
keys stored after it began; a purge that visits them can only decide on an entry younger than its epoch, which is not
stale, so that leaving them out loses no deletion. `Minutes() > 0` is true as soon as the clock has moved, and so it is
here.

`QueryServing` is the path from the setters to the answers. `Start` publishes the configuration, makes the directory,
makes room for the metrics if they are sqp's, and chooses the responder, each in a step of its own, and it may fail
between them; the game sets players and metrics beside it. Once the server serves, the configuration may change. The
metrics slice has its length, capacity and array, and a query reads the number of players, the number of metrics and
each metric in steps of their own, without the lock. Integers have their widths: `int32` for the count, 16 bits in sqp,
8 bits in a2s. What `SetMetric` does to the slice is one step under the lock (the growing) and one to store; it finds
the slice as `Start` left it before or after making it, and nothing in between.

`QueryWire` holds the bytes, as operators without state: reading the buffer, both request formats (`parseInfoRequest`
with its three ends), the two encoders, the chunks with their sizes, and the reader a client would use. `QueryExchange`
is the exchange over it: `handleChallenge`, `handleQuery` and `handleInfoRequest` whole, with every refusal (no
challenge, another one, a version too high, noise, a request that breaks off), the setters of players, limits, strings
and metrics (`SetCurrentPlayers` clamps a negative count, `SetMaxPlayers` does not), and a client that asks, is lost,
gives up and begins again. Requests and answers are sets in flight, so they overtake each other; loss, repetition, early
timeouts, stray datagrams, expiry, a failing `rand` and a challenge of zero are faults that `MaxFaults` bounds. A
request is answered in one step: `handleQuery` is one goroutine, and what runs beside it is in `QueryBase`,
`QueryServing` and `ServerLifecycle`. A setter therefore comes before an answer or after it; one that stores a string
while an answer copies it is in no module (section 6). A server that cannot answer pushes an error; the client sees
nothing.

`LocalProxyCalls` has the six calls of `server.go` that reach the platform: the check of the server's type, the
unguarded `localProxyClient`, and for each method of the client its HTTP method, path and expected status. A request
travels, takes effect at the daemon (a reservation and a hold, which may end by itself), and its answer travels; both
may be lost, the daemon may refuse, and a call that gives up leaves its request behind. The daemon's statuses are
those of `internal/localproxytest`.

`Backfill` is `keepAliveBackfill`: the ticker's channel of one tick, the copy of the configuration at the start of each
attempt, the token, the approval with its outcomes (granted, refused for good, refused for now, lost before or after it
arrived), the one retry, and `Stop`: it closes `done`, joins the keeper, and then stops the base server
(`matchmaker/server/server.go:79`), which may return, never return, or panic. Nothing is claimed of that last call here,
for `lifecycle_stop_hangs` shows it hang after a failed `Start`. `Config()` is taken to follow the daemon at once;
`ConfigWatcher` says how it does.

The modules named `MC...` instantiate these for TLC. Every component has a module of proofs, named after it:
`EventWatcherProofs`, `ServerLifecycleProofs`, `ConfigWatcherProofs`, `QueryBaseProofs`, `QueryServingProofs`,
`QueryExchangeProofs`, `LocalProxyCallsProofs`, `BackfillProofs`. Each module contains its mutants, marked as such:
versions of an action with a plausible bug, which the property they belong to must reject.

## 3. The runs

| Run | Question | Bounds |
|---|---|---|
| `events` | Does `EventWatcher` implement `AllocationFeed`: is an event ever lost, repeated, reordered within a kind, or patched after its end? Do events arrive, `Start` and `Stop` return? | 3 events of 4 kinds, one refused subscription, one reconnection, every early return |
| `events_resubscribe` | Do events still arrive after a reconnection? **No.** | 2 events, one reconnection |
| `lifecycle_safety` | Does `Stop` join and silence everything, without an error, and return if `Start` had succeeded? Where does the process go down? | finite as it stands; every failure of `Start`, a missing file watcher among them; `Stop` twice |
| `lifecycle_crash` | Can `Stop` bring the process down? **Yes.** | no failures of `Start` |
| `lifecycle_stop_hangs` | Does `Stop` return after a failed `Start`? **Not always.** | every failure of `Start` |
| `config_follows` | Does what is written under the watch come into force, in both halves, and is the game told of it? Does `ConfigWatcher` implement `ConfigFeed`? | 4 versions, one foreign notification; the watch may fail in either way |
| `config_missed_change` | Does a version written between the first load and the watch? **No.** | 2 versions |
| `challenges` | Is a challenge good for one answer only; do purges remove all that is stale and nothing that is older than they are and fresh? | 2 clients, 2 purges, 3 challenges that live 2 of 5 moments |
| `backfill_keeps` | Is a lasting ticket kept alive, an ended one left alone, the keeper joined, and does `Stop` get as far as the base server's? | 2 allocations, 3 faults |
| `query_serving` | Does an answer report the game's values, as many as it says? When does `SetMetric` not panic? | 2 callers, 2 metrics, 3 calls from before `Start` on, one change of the configuration, the limits of int32 and a2s |
| `local_proxy` | Is a result true of the daemon, and what does a game know of its reservation? Who meets a nil client? | 2 callers, 3 calls, 2 faults |
| `exchange` | Is a client served, in either format; does it read what was written; what does an answer cost? | one client, 2 faults, one call of a setter (a string of 255 or 256 bytes or with a zero byte, a count of -1 or 300, a player joining or leaving, a metric at the first or second index); challenges of 0, 256 and 0x04030201 |

`CHECK_DEADLOCK FALSE` everywhere: servers stop, bounded environments run out, and a failed `Start` is a last state.

Why the bounds are enough. The channels hold one element and a callback one more, so three events of which two are of
one kind fill a channel and its sender and leave one that must wait. Four versions of the file are the first, one that
was read, one that arrives during a load, and one that follows it. Two purges and two clients give the purge that
deletes beside another one's visit; three challenges let a client be issued one again after one was purged. Two
allocations let one end and the next begin while an approval is in flight; three faults are more than an attempt with
its retry can meet. With two metrics one slot can be grown over. Three calls of two goroutines are one that was left
behind, one that overlaps it, and one after both. In `exchange` the buffer just fits a question in the a2s format, one
stray datagram breaks off in its challenge and another asks for the metrics alone, 256 has a zero byte at either end in
either byte order, and two faults repeat a question and lose an answer, or replace a challenge that is in use; addresses
meet only in the map of challenges, where `challenges` has two of them. One call of a setter reaches every single
difference from the initial state, a metric behind a gap among them; sequences of calls are left to the proof, which
allows any number. Where a theorem exists (section 5) the bounds do not matter.

What the properties say that the code's tests do not reach:

- `OvertakenByOne`: when the game has been told of a deallocation and not of an earlier allocation, that allocation
  waits alone in `OnAllocate`, so one read that does not block finds it. Games that select over both channels need to
  know this much and no more.
- `NoPatchAfterGone`: although `ReadyForPlayers` patches without a lock, it never patches an allocation whose end the
  game had read before it called. It is a consequence of `ToldIsVisible` in the game's terms. An allocation that ends
  between the unlock and the patch is patched; the code does not prevent that.
- `ToldIsVisible` speaks of the platform's events; the empty deallocation that `Stop` sends is event 0 to it, and its
  place among the others is not claimed.
- `DeliveredWhileConnected` is about one connection; what a reconnection does is `EventsDelivered`, which fails.
- `StaleIsPending`: whenever the configuration is older than the file in either half, a notification still waits or
  the load in progress is reading the present file. `NewsIsTrue`: the channel drops configurations but not the news
  (`NoLostWakeup`), provided the game calls `Config()` instead of using what the channel gave it, and what the channel
  gives is never ahead of `Config()` (`ToldNotAhead`).
- `PurgeSparesOlder`: a purge deletes by key and may so remove a challenge issued after it began, but no other fresh
  one.
- `LateAtMostOnce`: whatever fails, an allocation that has ended is asked for once more at most. Asked for means sent:
  a request is sent and arrives, or is lost, in one step, so a request that was given up and arrives much later beside
  the next one counts when it is sent.
- `JoinedByStop` needs that the keeper had counted itself when `Stop` began; a `Stop` that overtakes it is not shown to
  be safe.
- `KnownCrashes`: the process goes down in three places only; but for a file watcher that could not be made, a server
  that nobody stops does not.
- `ImplementsFeed` of `ConfigWatcher`: although notifications merge, versions are skipped and halves are read apart,
  the configuration never steps back to a version it has left.
- `GameKnows`: a game that trusts a successful call only when no other reservation call was in progress or left
  behind, and takes both as possible otherwise, is right about its reservation. `ResultIsTrue`: no error but a lost or
  late answer hides an effect.
- `AnswersReadBack`: strings of up to 255 bytes survive in sqp, strings without a zero byte in a2s; a longer string
  spoils the server info it is in and nothing behind it, for the metrics are found by the lengths of the chunks. Counts
  come back cut to the width of their field. It is a property of answers that go into one UDP datagram (65507 bytes,
  `MaxDatagram`); the code bounds no string, but writing a longer answer to the socket fails, so no client reads it.
- `AnswersEarned`: a repeated question is not answered twice, in whichever order datagrams arrive.
- `Served`: repeated challenges, which replace the one in use, and a challenge of zero cost time and nothing else.
- `ReportsTheGame`: though the metrics grow while they are copied, an answer holds no value the game had not set,
  misses none that was set before the query began, and has as many as its count says (the count and the values are two
  readings of the slice's length).
- `NoPanicOnceServing`: a `SetMetric` called when the endpoint is open does not panic as long as the query type stays.
  It does panic when called between the publishing of the configuration (`server.go:164`) and the making of the slice
  (`:178`), after a `Start` that failed there, and after a change of the configuration from a2s to sqp.

### Fairness

Goroutines that can run do run (`WF` on each goroutine's steps). A sender blocked on a full channel is in the
channel's queue, so it gets its turn (`SF` on `StopPublishes`). The game reads its allocation channels, as the comment
of `Start` demands (`server/server.go:156-157`), and the configuration channel where a property is about a game that
listens. The daemon owes an answer to a subscription, and the second of the two writes of a deallocation
(`server/config_watcher.go:40-42`); it owes no event. The backfill's HTTP requests end, for they have timeouts. In
`QueryExchange` a single `WF` covers endpoint and clients together: something goes on as long as something can; it also
has the client ask again, which is a client's decision and not this code's. A
`select` with two ready cases picks at random, so the keeper's tick and `done` are each `SF`. Nothing obliges the game
to stop, to read errors, or to allocate.

### Findings

Four runs show the code doing otherwise than its comments or tests say; `PROJECT.json` quotes them.

1. `internal/localproxy/client.go:110`: after a resubscription the callback goroutine blocks for ever; no event arrives
   any more (`events_resubscribe`).
2. `bind.go:85`: `Close` clears the connection under `handleQuery`, which may call a method of nil (`lifecycle_crash`).
3. `event_watcher.go:17,27,38`: the early returns leave the `WaitGroup` counted (`lifecycle_stop_hangs`).
4. `config_watcher.go:15`: the watch exists only after the file was read (`config_missed_change`).

Weaknesses that the model has and no run singles out, as passing properties bound them: a configuration may for a while
mix two versions of the file (bounded by `StaleIsPending`); the channel drops the newer configuration and keeps the
older one (bounded by `NewsIsTrue`); a purge may delete a fresh challenge (bounded by `PurgeSparesOlder`); an approval
may go to the allocation before the current one (bounded by `LateAtMostOnce`); the endpoint keeps the protocol it
started with, and `SetMetric`, which asks the configuration, grows a slice that has no capacity when that protocol was
a2s, or that `Start` has not made yet (`server.go:411`; bounded by `NoPanicOnceServing`); a second `Stop` panics, and so
does `Start` when there is no file watcher (both bounded by `KnownCrashes`); a watch that was not added is not missed by
anyone (`config_watcher.go:15`); a call before `Start` has returned may meet a nil client (bounded by
`NoPanicOnceStarted`).

## 4. Fidelity

`PROJECT.json` maps every definition to the lines it stands for. Variables carry the names of the Go fields they model;
variables marked *history* exist for properties only. Blocking sends have a guard that there is room; non-blocking ones
drop. Critical sections are one action when nothing in them blocks or is read by code that does not take the lock, and
several otherwise (`SetMetricGrows`, `SetMetricStores`).

External, and modelled from how the code uses them: the centrifuge client, the SDK daemon, fsnotify, the clock, the
matchmaker and token services, UDP, the clients that query. Notably fsnotify may merge a notification only with an
equal one that waits, and the centrifuge client is assumed to call `OnSubscribeSuccess` again when it has subscribed
again.

## 5. The proofs

Checked by TLAPS for every value of the constants, under the named assumptions of each module (types of the bounds, the
capacity the code gives a slice, a lifetime of a challenge of at least one). `PROJECT.json` lists the theorems. Each
proof module has an inductive invariant `IInv`, lemmas that each kind of step keeps it, and the theorems that follow
from it. What `IInv` adds, and why the properties need it:

*`EventWatcherProofs`.* `TypeInv` adds to the types that `wg` counts the listener. The feed's properties are not
inductive: `FeedInv` adds that what took effect was published (`Published`), that an event being sent is the last one
that took effect (`InProgress`), that `allocatedUUID` is what that event made it (`Current`), that told, waiting and
in-flight events are ordered (`Ordered`), that only `Stop` sends the empty deallocation (`StopOnce`); and `Queued` says
that publications wait in order, later than anything applied. The argument is a relay: publication, queue, callback,
channel, game, each stage newer than the next. Lemmas follow the kinds of step: `QuietStep` (moves no event),
`DispatchPublicationStep`, `SendStep`, `ReceiveStep`, `ReadyStep`; `ElementsOfChannels` and `OneElement` are the facts
about channels of capacity one. From `IInv` follow `FeedLossless`, `ToldIsVisible`, `NoPatchAfterGone` and
`OvertakenByOne`, and the action property `FeedInOrder`. `ImplementsFeedSafely` is the refinement: an event that takes
effect is the feed's `Apply`, a read by the game its `Tell`, and all else stutters. A send moves an event from the
callback into the channel, and so leaves what waits to be told as it was; that is `FeedSend`.

*`ServerLifecycleProofs`.* `Counted` says which goroutines `wg` counts, by where they are: not those that were spawned
and have not begun, which is what makes `Stop` return too early for a `handleQuery`; and those that returned early,
which is what makes it hang. `Joinable` says that `Start` has no error to return only after both watchers have counted
themselves, by way of the two channels it reads; so a counter of zero means that they ended. `DoneFirst` says that
`Close` marks the binding before it touches the connection, so that whatever `handleQuery` then gets of the connection
it finds marked and reports nothing. From these follow `StopIsClean` and, step by step, `KnownCrashes`.

*`ConfigWatcherProofs`.* `FileInOrder` and `LoadInOrder` order five versions along a load: in force, first read, known
fields, `Extra`, in the file. They hold whatever the daemon does between two steps. `Notified` is the lemma on which
`StaleIsPending` rests: after the daemon's write a notification waits, merged or not. `ChannelNotAhead` strengthens
`NewsIsTrue`, for what waits in the channel will be told. `ImplementsFeedSafely` is the refinement: an assignment of
`setConfig` is a change of the feed (or none, when the load brought nothing new), a read by the game is its telling.

*`QueryBaseProofs`.* `IInv` adds to the properties that issue numbers are unique and not in the future (`Numbered`),
that a purge's epoch has passed (`EpochsPassed`), and that only a purge in its walk deletes (`Deleting`). A challenge
stored now expires at least a lifetime after any running purge's epoch, so it cannot be stale to it: that is why
`PurgeIsThorough` survives the stores beside the walk, and why `PurgeSparesOlder` holds.

*`QueryServingProofs`.* `NowAllowed` says that what the state is now is among what it was since the query began, and
`ReadAllowed` that so is all the query has read; each setter adds to the first and each read moves from the first to the
second. `Capacity` says what there is room for at each stage of `Start`, and why `SetMetric` has room to grow its slice
when `Start` has opened the endpoint and the configuration is the one it was started with.

*`QueryExchangeProofs`.* Three results. For `AnswersEarned`: a client with a challenge in the map is owed an answer
(`Paid`); answers take challenges out of it, and only challenges pay for it. What remains to be shown is that a packet
that carries a challenge is never taken for an answer, nor the other way round, in either format
(`ChallengesAreMarked`), from the bytes that `WireWrite` puts together. For `TypeOK`: `TypeInv` adds what every packet
on the way is (`GoodPacket`: bytes, and if it says that it carries a challenge, it is the encoding of one the server
drew) and what it was made from (`Made`); so what a client reads of a packet and asks with is again such a number
(`ChallengeRead`). For `AnswersReadBack`: `Made` says that the answer is an encoding of a state, and the lemmas say that
readers undo encoders: `ReadsBack` and `ReadsBackLow` for numbers in either byte order, `SqpStringRead` and
`A2sStringRead` for strings, `ChunkRead` for a chunk behind its length, `MetricsRead` and `ServerInfoRead` for the two
chunks, `SqpAnswerRead` and `A2sAnswerRead` for whole answers. `SqpAnswerParts` also gives the sizes the code computes
apart from the bytes (`Size` of each chunk, the payload length): they are the lengths of what is written. Counts are
`int32`s of either sign, cut to 16 or 8 bits by a remainder; `NarrowedToTwo` and `NarrowedToOne` say that the cut fits
its field.

`WireWrite` is the library's `FlattenSeq` and `FromBigEndian` another recursive function. Before the equation of such a
function can be used it must be shown that a function satisfies it: `FlattenExists` for every sequence of fields, by
induction, and by giving one for two and four bytes (`ValueOfTwo`, `ValueOfFour`). The library's induction theorems take
an operator as their parameter, which no prover here can instantiate; `Induction` states it with a set instead (a set of
naturals with zero and each successor is all of them), from well-foundedness. By it `WireWriteFirst` takes fields off
one by one, `FlattenOfFours` finds the metrics four bytes apart. The theorems assume of the constants that the game's
strings are bytes, that counts are `int32`s, that `rand` and the metrics have 32 bits, and that a byte counts the
metrics; which strings, counts and metrics there are, how often and in which order the setters are called, the buffer,
the addresses, the number of faults and what else arrives at the socket are arbitrary.

*`LocalProxyCallsProofs`.* `Distinct`, `Pending` and `Truthful` tie each request and each answer in flight to the call
it belongs to, if that still waits: a request was not carried out, an answer says whether it was. `Reserving` and
`Alone` say that no reservation request is in flight that the game does not allow for: such requests stay open until
they are met or lost, so a call that was alone from its start to its end was the last to touch the reservation.
`ClientFirst` says that the client is set before `Start` returns and before there is an allocation to get ready for.

*`BackfillProofs`.* `IInv` adds that allocations are numbered in order and the keeper knows none to come (`Numbered`),
that the `WaitGroup` counts the keeper between its first and last step (`Counted`), and `LateIsOver`: an allocation
asked for after its end is not the current one, and no attempt that has yet to send its request will ask for it.
`LateAtMostOnce` and `JoinedByStop` follow; `StopReachesBase` is liveness and stays with TLC.

*Only model-checked*: liveness, and with it the fairness half of both `ImplementsFeed`, `Served`, and what else is
stated with `~>` (fairness and `ENABLED` are out of the prover's reach). Every invariant that a passing run checks is a
theorem.

## 6. Not modelled, and the plan

Not modelled: a `Start` repeated after a failure (a second set of goroutines, which no document promises to work); a
configuration that enables backfill after `Start`, which reads it once; read buffers of less than eight bytes, with
which no question can be answered; the body that a refused approval leaves open
(`matchmaker/server/backfill_internal.go:103`); a JSON `null`, for which the code uses a nil pointer (`event.go:55`,
`config.go:81`), and which the daemon does not send; the errors an unallocated server pushes once a second, behind which
others find `chanError` full; a string of the query state that a setter stores while an answer copies it, whose bytes
and length may then be of two strings; a `SetMetric` that meets `Start`'s assignment of the slice itself; a request to
the matchmaker that arrives after the keeper has given it up; that the HTTP client's connections, the purges and the
refusals of a subscription are unbounded; the composition of `ConfigFeed` and `AllocationFeed`, which share no variable
of this code: whether a server that starts allocated hears of it is the daemon's decision. Left out for good: options,
models and errors (plain data), defaults of the configuration, the set-up of the local proxy test double.

Order of the work:

1. *(done)* `AllocationFeed`, `EventWatcher` with proofs: the promise the SDK exists for. Then `ServerLifecycle`,
   `ConfigWatcher`, `QueryBase` with proofs, `Backfill` with proofs, `QueryServing`.
2. *(done)* `QueryWire` and `QueryExchange`; `LocalProxyCalls`; `ConfigFeed` and its refinement; the second `Stop`.
3. *(done)* Proofs: the safety of `EventWatcher` and of `ConfigWatcher` against their feeds; `StaleIsPending` and
   `NewsIsTrue`; `StopIsClean` and `KnownCrashes`; `ReportsTheGame` and `NoPanicOnceServing`;
   `ResultIsTrue`, `GameKnows` and `NoPanicOnceStarted`; `AnswersEarned`.
4. *(done)* Proofs about bytes: the round trip of numbers, strings, chunks and answers, and from it the types of
   `QueryExchange` and `AnswersReadBack`.
