# Verification of warmbly-go

TLA+ models of the warmbly Go client, the TLC configurations that check them,
and TLAPS proofs. Paths and lines refer to the repository root (`gateway.go`
is `gateway/gateway.go`, `wsconn.go` is `internal/wsconn/wsconn.go`).

    tlasany M.tla                     # parse
    tlc -workers 2 -config X.cfg M    # model-check
    tlapm M_proofs.tla                # check the proofs about M; GatewayJoins_proofs too

## The system

The repository is a client library: a REST client with many thin resource
services, OAuth and webhook helpers, and a realtime gateway, a websocket session
with reconnection, replay and handlers. The gateway holds nearly all of the
concurrency and of the state that lives longer than a call, so it comes first.

| Component | State | Operations | Hard behaviours | What makes it correct |
|---|---|---|---|---|
| Gateway session (`gateway.go` 402-906, 964-1183) | `running`, `cancel`, `conn`, `readyCh`/`readyErr`, `done`/`termErr`, `everJoined`, join book, event queue, wait group | `Open`, `Close`, `manage`, `runOnce`, rejoin goroutines, `heartbeatLoop`, `dispatchLoop` | six kinds of goroutine over one socket; Close racing Open, dial and dispatch; refusals and late replies; a half-open peer | a connection's goroutines end with it; one join per topic, one heartbeat; Open and Err agree; cancellation and Close end |
| Resume stream (`gateway.go` 388-397, 491-497, 722-731, 840-845, 907-973) | `lastSeq`, `events` | join with a position, read, `advanceSeq`, `emit`, persist and restart | loss in transit, a full queue, replay after live, eviction, a crash | the position never moves over an event nobody accounts for |
| Pacing (`gateway.go` 39-59, 543-588, 1090-1121) | `attempt`, `lastDial` | `backoff`, `sleepCtx`, cooldowns | shift overflow, join-and-drop loops | dials keep within the handshake budget |
| WebSocket (`wsconn.go`) | socket, reader, `writeMu`, `closeOnce`, deadlines | `Dial`, `ReadMessage`, `WriteMessage`, `Close` | control frames between fragments, budget, deadline watcher against the next read | a message is what the peer sent, or an error; the budget holds |
| Request engine (`client.go` 347-597, `errors.go`) | attempt counter | `do`, `waitRetry`, `backoff`, `decodeError` | lost answers, retries of what took effect, cancellation while waiting | at most maxRetries+1 sends; waits within bounds |
| Tokens (`oauth_flow.go` 176-277, `auth.go`) | cached token, mutex | `Token`, `Refresh` | concurrent requests, rotation, an answer lost after the server rotated | one refresh at a time; no rotated token is dropped |
| Pagination (`pagination.go`) | page, fetch closure | `Next`, `All` | a list that changes between pages, a fixed cursor in the options | each page once, the end is reached |
| SSE (`client.go` 636-694) | line buffer | `stream` | event boundaries, a caller that stops early | events as sent; the call comes back |
| Webhooks (`webhooks.go` 596-683) | none | `VerifySignature` and construction of events | repeated fields, two-sided tolerance | accepted only with a fresh, matching signature |
| Polling (`auth_service.go` 702-747, `poollink.go`, `cloudlink.go`) | interval, deadline | CLI login, link handshakes | unknown states, retries inside a poll | ends with a token or an error, keeps the interval |
| Options (`client.go` 150-231, `options.go`) | the client being built | `New` and its options | the order of options, a later one replacing an earlier one | the client returned is one the engine can run |
| Resource services | none | one request each; partial and wholesale updates | which requests a retry may repeat; absent, null and empty fields; two editors of one record | through the request engine; an update changes what was asked and nothing else |

How they interact: a handler runs on `dispatchLoop`, fed by the queue the read
loop writes; `Close` waits for `manage` and `dispatchLoop` and may itself run in
a handler; `manage` calls `wsconn.Dial` and reads on the connection; rejoin and
heartbeat goroutines write to it and may close it, which ends the read loop. A
resource service calls the request engine, which asks the token source for a
credential on each attempt.

The hazards of this code, each at its line with the properties that would catch
it, are the `hazards` of `PROJECT.json`.

## The modules

**JoinBook** is the table of `gateway.go` 1123-1183. Each method holds the
book's lock throughout, so each is a function from books to books: `Track`,
`Pending`, `MarkJoined`. A `*channelJoin` held across calls is its topic here.

**GatewaySession** (EXTENDS JoinBook) is the life of a session. Its state is
the fields of `Client` (`opener` for `running` and `cancel`, `readyErr`,
`termErr`, `everJoined`, `conn`, `joinRef`, the length of `c.events`), the
locals of the goroutines (`manage` for the position in `manage`/`runOnce`,
`joinAt` for the loop over the first joins, `timers` and `hbs` for the rejoin
and heartbeat goroutines, `closer` for each `Close` call) and the network
(`sock`, `unanswered`, `silent`). An action is what a goroutine does between two
points where another can get in: a critical section, a channel operation, a
blocking read or write. The parts:

| Code | Actions |
|---|---|
| `Open` 430-462 | `OpenMark`, `OpenSpawn`, `OpenReady`, `OpenCancelled` |
| `Close` 466-489 | `CloseRead` (what it copies under the lock), `CloseShut`, `CloseReturns` (clean, or by the five-second limit) |
| `manage` 538-589, `classify`, `finish` | `TopCancelled`, `StartDial`, `Ended...`, `Wake`, `Finish` |
| `wsconn.Dial` | `Connected`, `ConnectFails`, `Upgraded`, `UpgradeRefused` |
| `runOnce` 629-745 | `AdoptConn`, `SkipJoin`, `SendJoin`, `Read...`, and the deferred teardown `TimersWaited`, `HbWaited`, `ConnClosed` |
| `handleRefusal` 749-797 | `JoinLimited`, `JoinRefused`, and the rejoin goroutine `Timer...` |
| `heartbeatLoop` 992-1038 | `Hb...` |
| `dispatchLoop`, `fire` | `DispatchTakes`, `HandlerReturns`, `DispatchStops` |

Abstractions: time is a choice (a sleep ends whenever it likes, a watchdog may
fire whenever a beat is unanswered); an event is one unit of the queue; a reply
is matched by its ref, as `pending` does. A join reply that does not decode is a
refusal "for now" (`refused`), which is what `handleRefusal` and `classify`
make of it. The server replies to each join at most once and may acknowledge a
channel that is open. Two early errors of `Open` (no token, already open) change
no state and have no action.

**GatewayStream** is the resume position over disconnects and restarts of the
process. The client part is `sendJoin`'s token, the adoption in `runOnce`,
`handleFrame`, `advanceSeq`, `emit`, `dispatchLoop`, `LastSeq` and
`WithResumeFrom`. The server (log, replay buffer, replay before live events) is
external: the repository holds only the client, and `gateway/doc.go` and the
comments say what it is taken to do. Two things are assumed of it: it pushes
live events only after the replay, and it never drops one for rate limiting.
Ghost variables (`handled`, `discarded`, `declared`, `adopted`, `owedFrom`)
record what happened to each event; no guard reads them.

**StreamPosition** is the abstract contract GatewayStream implements: the
position moves over an event only if it is accounted for (read, filtered by the
server, or reported lost), and skips events only from 0. The refinement maps
`pos` to `lastSeq`, `skipped` to `adopted`, and `accounted` to the events
received, declared or hidden.

**Backoff** is the two retry delays over a machine word: `Shifted` is `<<` on a
signed word of `Width` bits, `RestDelays` and `GatewayDelays` are the sets the
two jitters draw from, and `NoWrapWithin` says that no shift comes round to a
shorter delay than it should be.

**GatewayPacing** (EXTENDS Backoff) is the clock that GatewaySession leaves out:
`manage` 538-589 with `attempt`, `lastDial`, the cooldowns of `classify` and
`stableSession`, the delay of a rate-limited join, and the timer, watchdog and
pong channel of `heartbeatLoop`. There is one goroutine of each kind and a
connection's stages are single actions; the interleavings are GatewaySession's.
`Tick` advances every timer by one and is held back while a timer is due, so a
goroutine's own delay is taken to be less than a tick. `streak`, `idle`, `owed`,
`quiet` and `dials` are ghosts that only the properties read.

**WsConn** is one connection of `wsconn.go` and everything that shares it: the
reader in `ReadMessage` (which answers pings and echoes a close), the writers in
`WriteMessage`, the callers of `Close`, and the watcher `applyDeadline` starts
for each read. `writeFrame` is `Acquire`, `WriteHeader`, `WritePayload` or
`WriteFails`, because the header and the payload are two writes under `writeMu`
and the peer may stop taking bytes between them. A payload is its length, a
signed number, as the wire's 64-bit length is; `ReadPanics` is the allocation
of a control frame whose length is negative as a signed word. After a failed
write the frame is left torn, as in the code; a reset connection counts as one
that takes nothing. Each `ReadMessage` has a number and a context (`call`), its
own or the one before it; those of `runOnce` share one, other callers need not.
`watchers` are the calls whose watcher is still there, the last call's or an
earlier one's: `stop` closes `done` and does not wait for it, so it may still
choose its context's end and set the deadline under a later call
(`WatcherFires`). A context in `Dated` has a deadline, which a new call sets over
whatever the socket had.

**RestApi** lists the requests of the services, one entry for each exported
method: verb, route, what is sent, how the answer is read, and what a second
execution at the server would do according to the method's comment. The file's
order is that of the sources.

**TokenSource** is the source of `oauth_flow.go` and its endpoint: `Token` holds
the mutex through the exchange, the answer is stored, a rotated refresh token
replaces the old one. The exchange runs under the source's own context, so the
cancellation of the call that wants the token does not end it; a call that waits
for the mutex cannot be cancelled either.

**RestClient** (EXTENDS TokenSource, RestApi) is `do`: each call is a goroutine
that authenticates, sends, reads the answer and waits before it sends again
(`AuthCached`, ..., `Send`, `TransportError`, `Answered`, `WaitOver`). `wire`
holds the copies of requests that are under way, each of which the server may
execute at any later time, also after the call has given it up; `served` counts
the executions. Its calls take the shapes (body, answer, effect) of RestApi.
The server is external and what it does with a key is what `WithIdempotencyKey`
says: a repeated key replays the first answer, an error answer to a keyed
request means it was not carried out.

**Helpers** composes six parts that run on their own and share no state, one
at a time:

* **Pagination**: `Page.Next` and `All` over a list to which others add and from
  which they remove rows between pages; opaque cursors, and the form
  submissions' cursor made from an instant (`FormCursor`).
* **EventStream**: `stream` line by line (`ReadBlank`, `ReadDataLine`,
  `ReadOther`, `ReadEnd`; `ReadLong` for a line past the scanner's limit of
  1 MiB, which ends the events in mid-answer with an error) and the drain that
  follows when `fn` says stop or the scanner gives up.
* **HandshakePoll** (EXTENDS Backoff): the three loops that wait for a person,
  and inside a poll the request engine's own waits and resends (`Resend`, of
  `waitRetry`: the jittered backoff, or the Retry-After up to the engine's
  maximum), each of which is a request on the wire like the loop's. `since`,
  `owed` and `named` are ghosts: the time since the last request was answered or
  lost, the pause the next one is to keep from it, and the Retry-After it named.
* **WebhookReceiver**: `ConstructWebhookEvent` on deliveries that come late,
  again, with other fields, or signed with another secret.
* **ClientOptions**: `New` and the options in any order and number up to a bound.
* **PartialUpdates**: the update types as tables of their JSON fields by
  convention (pointer, nullable date, clear flag, list, always sent), their
  `MarshalJSON`, and two editors who change one record. Of each type it takes
  every pair of conventions that occurs; two fields are enough for one to
  disturb the other. The server merges what it is sent, or replaces the record
  for the types whose comment says so, whose editors read it first. `overlap`
  is a ghost. What the delta fields (`add_categories`, ...) do is the server's.

**MCGatewaySession**, **MCGatewayStream**, **MCGatewayPacing**, **MCWsConn**,
**MCRestClient** and **MCHelpers** give the constants values for TLC.
The theorems are in modules of their own: **GatewaySession_proofs**,
**GatewayJoins_proofs**, **GatewayStream_proofs**, **GatewayPacing_proofs**,
**RestClient_proofs**, **WsConn_proofs** and **Helpers_proofs**; **NatFacts**
holds what several of them need about numbers. Definitions
commented `Mutant:` are wrong variants of the definition that follows them, used
to confirm that each property can fail; no behaviour of the specifications uses
them.

## The runs

| Run | Bounds | Shows |
|---|---|---|
| `session` (3.2M states) | two topics, the workspace repeated in `WithTopics`, 2 connections, 5 join refs, queue of 1, one Close from another goroutine | `TypeOK`, `ConnectionsDoNotOverlap`, `OneHeartbeat`, `OneJoinPerTopic`, `OutcomesAgree`, `CleanCloseQuiesces` |
| `session_live` (76k states) | workspace only, 3 refs, 2 connections, Close from a handler, the first connection may go half-open | `CancelStops`, `CloseEnds`, `SilentPeerDetected` |
| `session_handshake` | as above | violation of `CancelStopsHandshake` |
| `stream` (769k states) | 4 events, the second filtered, queue of 1, one drop, one restart, every initial position and eviction point | `TypeOK`, `PositionNotAhead`, `AtMostTwice`, `IdleMeansCaughtUp`, `ImplementsPosition`, `PositionForward`, `EveryEventSettles` |
| `stream_handled` | 3 events, queue of 8, so nothing is lost to it | violation of `ResumesFromHandled` |
| `stream_brief` | 3 events, no restart | violation of `BriefDropLosesNothing` |
| `pacing` (26k states) | five-bit words, delays 1 to 6, gap 2, cooldown 8, stable after 4, heartbeat 2, budget window 6, waits of 0, 2 and 9 | `TypeOK`, `WithinBudget`, `BacksOff`, `SilenceNoticed` |
| `wsconn` (304k states) | one reader, one context with a deadline for its calls, one writer with one message, two callers of Close, 3 frames out of 7 kinds, messages of 2, control frames of 1 | `TypeOK`, `MessagesWhole`, `PingsAnswered`, `InterruptKept`, `FramesContiguous`, `CallsReturn` |
| `rest` (259k states) | every shape of call, or two reads on one token source; 2 retries, one renewal, one expiry, three-bit words, backoff from 2 to 3, a Retry-After of 5 or none | `TypeOK`, `KeyedOnce`, `SuccessMeansDone`, `WholeBody`, `NeverStaleToken`, `HoldsLiveRefresh`, `CallsEnd` |
| `helpers` (227k states) | lists of up to 4 rows in pages of 1 or 2, 2 events, intervals 0, 1 and 3, a floor of 2, the engine's waits 1 to 3 and its 2 retries, 2 answers of 429 that reach the loop, a Retry-After of 1, 5 or none, 2 payloads and secrets, clock 0 to 3, 4 options, 2 editors | `TypeOK`, `EveryRowOnce`, `EventsApart`, `AcceptedSignedAndFresh`, `UpdatesKept`, `PollsPaced`, `PartsEnd` |
| `cli_claimed` | as `helpers` | violation of `KeyOnApproval` |
| `stream_stop` | as `helpers` | violation of `StopReturns` |

Why the bounds suffice: two connections are what it takes for something of one
to disturb the other; five refs allow two first joins, a rate-limited rejoin and
another connection's two; a queue of one is both empty and full within a step.
Four events are one before a gap, a hidden one that makes a hole in the
numbering, and two visible ones after it: published while a resume is served,
those two arrive again after the marker that is already past them, which is the
case where the position could move back. One drop is enough for `AtMostTwice` to be
reached; several drops repeat it (each drop may add a delivery only for events
the previous connection did not get past, because the position has moved). The
bound on dials and refs (`StartDial`, `JoinLimited`, `TimerTracks`) stops the
client from going on for ever and blocks nothing else: a session that has used
its dials waits in `top` where only cancellation moves it.

In `pacing` a shift by five or more is zero in the model's word and shifts by
three and four are above the cap or negative, so every branch of the guard is
taken; `attempt` stops at `Width`, where further shifts change nothing. The
window holds three dials at the shortest gap, and the waits are one below and
one above the cap. In `wsconn` three frames are two fragments with a ping
between them, or a message and its close; a second writer would be one more
`Closer` as far as the lock goes. The reads share a context, as those of
`runOnce` do; that of an earlier read may end under a later one, whose watcher
and the earlier one's are then both there. A second context is what
`TimesOutForContext` below takes, and `InterruptHeld` is proved for any. In
`rest` two retries are a first, a middle and a last attempt, and the shift of
the second, 2 << 1, is negative in the run's three-bit word, so the guard of the
engine's backoff is taken both ways; calls share only the token source, so one
call of each shape and a pair on the source are all the combinations that
differ. In `helpers` four rows are two full pages, or one with rows before, on
and after the boundary; two rows of one second lie on either side of it. A tick
of the polls is half a second of the defaults: the engine's shortest wait is
one, the links' floor two; its longest, 3, lies between the two values of
Retry-After. Two 429 answers show that the pauses add up; four options are
enough to set both bounds twice or to replace every field once.

Fairness. In the session every goroutine that can take a step eventually does,
which is what the Go scheduler gives; timers fire; a TCP connect ends, as the
operating system bounds it (`ManageStep` contains `ConnectFails`). Nothing is
asked of the network (`NetworkStep` has no fairness: an upgrade may never be
answered, a frame may never come) or of the caller, except that a `Close` once
begun goes on and that a handler returns when the `Close` it called does. In the
stream the reconnect, read and dispatch loops run, and a server that accepted a
resuming join answers it; nothing makes the server publish.

In `rest` each call's goroutine runs (`CallStep`), which includes that an
exchange left open ends in an error: the default HTTP client has a timeout, and
so has that of the token exchange (a caller who brings a client of his own
brings its timeout too). The server answers or not as it likes. In
`wsconn` a mutex is acquired if it is free infinitely often (Go's mutex passes
to strong fairness by its starvation mode), an armed deadline fires, and
goroutines run; the peer owes nothing. `PartsEnd` asks that time passes and
reads go on: the page is answered or the fetch fails, a line that has come is
read, a poll is answered or the HTTP client's timeout ends it, and a context
that is done is not passed over for ever by the two selects that look at it.
`pacing` states no fairness; its properties bound the time that a step may let
pass.

### What the violations show

* `CancelStopsHandshake`: `wsconn.go:92` promises that the handshake honours
  ctx's cancellation. The dial and the TLS handshake take ctx, but the upgrade
  response is read without it (`wsconn.go:153`); a peer that accepts and stays
  silent holds `manage` in `Dial`, and `Done` is never closed. `CancelStops` is
  the property that does hold, with that one exception spelt out.
* `ResumesFromHandled`: `gateway.go:727` speaks of "the last event it actually
  handled", and `gateway.go:491` says to persist `LastSeq`. The position moves
  when an event is read, before it is queued (929, 943), so a position saved
  while events wait skips them after a crash.
* `BriefDropLosesNothing`: position 0 stands both for "no position" and for a
  workspace without events. A session joined at 0 that drops before it reads the
  first event rejoins as a fresh one and adopts the position past that event
  (729, 843).
* `KeyOnApproval`: `auth_service.go:694` says that on approval `WaitForCLIAuth`
  returns the poll that carries the key. A poll is a request like any other, so
  an answer that is lost is asked for again; the second poll finds the code
  claimed, and the loop returns that poll with neither key nor error (743).
* `StopReturns`: `client.go:636` says that `stream` returns when `fn` returns
  false. The deferred drain (664) first reads the answer to its end, so the call
  is held while the server keeps the answer open: until the context ends or the
  HTTP client's timeout, thirty seconds by default and none in a client given
  without one, cuts it. The two endings that hold are `StreamReturns`.

Four more statements of the documents are refuted in the same way. They are
defined beside the properties that hold, no configuration of this directory
keeps them, and TLC finds each counterexample in seconds when it is put in the
place of the properties of the one named:

* `TimesOutForContext` (`WsConn.cfg` with `Contexts = {d, e}`): `wsconn.go:233`
  says that the deadline and cancellation of a read's context interrupt it, and
  `wsconn.go:460` that `stop` clears the deadline and releases the watcher.
  `stop` does not wait for the watcher, which may already have seen its own
  context end and then sets the deadline after the clearing (474): the next read
  times out with a context that is live. It takes two reads with different
  contexts, which the gateway does not make (it gives one to all reads of a
  connection). What does hold is `InterruptKept`: a context that ends always
  interrupts its own call.
* `NeverBelowFloor` (`Helpers.cfg`): `poollink.go:301` calls the floor the
  shortest gap the poll helpers will ever leave between two polls, and
  `WaitForApproval` polls "never faster than once a second". The request engine
  repeats a poll whose answer is lost after its own backoff, from half a second
  (`client.go:433`, 497).
* `RetryAfterKept` (`Helpers.cfg`): `auth_service.go:690` says that
  `WaitForCLIAuth` waits the Retry-After it was given with a 429. The engine
  retries that 429 first, after its Retry-After cut to the engine's longest wait
  (`client.go:471`), 30 s by default. `PollsPaced` is what holds: each request
  keeps the pause its last answer leaves it, the loop's or the engine's.
* `EmptyListClears` (`Helpers.cfg`): `emails.go:293` says that `Tags` replaces
  the stored tags when it is not nil. With `omitempty` an empty list is left out
  of the body, so the tags stay; only the types that use a pointer to the list
  can clear it.

## The proofs

`GatewaySession_proofs` proves, for all topics, lists of extra topics, callers
and bounds, under the named assumptions of the constants (`TopicsAssumption`,
`MaxRefAssumption`, `SessionAssumption`):

* `TypeCorrect`: `Spec => []TypeOK`, by lemmas on the join book's operators and,
  for each action, one leaf per group of variables it changes (`Frames` carries
  the rest).
* `NoOverlap`: `Spec => []ConnectionsDoNotOverlap`. The property is not
  inductive: a timer could outlive its connection if the teardown could pass
  `TimersWaited` with one running. `Phases` adds the order of the teardown
  (timers empty from `waitHb` on, heartbeats empty at `close`), that a
  connection exists from the dial on, and that `manage` does not exist before
  `Open` spawned it.
* `OutcomesCorrect`: `Spec => []OutcomesAgree`. `OutcomeInv` says where each
  outcome comes from: `termErr` is set only when `manage` has given up, after
  which nothing changes `everJoined`; `readyErr` is set once; `openResult`
  copies it.
* `CleanCloseCorrect`: `Spec => []CleanCloseQuiesces`, from `ConnInv` and
  `CloseInv` (from Open's spawn on, both goroutines are counted, and neither
  comes back once stopped).

`GatewayJoins_proofs` extends it with the invariant of the joins, `JoinInv`,
whose first three parts speak of the topics a connection joins once (`Once`; the
workspace always is one, because the loop over `c.topics` skips it):

* `HeartbeatUnique`: `Spec => []OneHeartbeat`. That a second heartbeat cannot
  start needs more than the flag `pending` tests: an acknowledgement could name
  a retired ref, and a rejoin of the workspace could clear the flag under a
  running heartbeat. `RefInv` says that a ref is filed under the topic that sent
  it or is retired, and that new refs are fresh; `LiveInv` that a join under way
  is its topic's current one on a channel not open; `LoopInv` that the book is
  new when the first joins start and nothing is answered while they are sent;
  `BeatInv` that a heartbeat means an open workspace channel.
* `JoinsUnique`: `Once = Topics` implies `Spec => []OneJoinPerTopic`. The
  assumption is needed: `WithTopics` does not remove repeated topics, and a
  topic named twice is joined twice.

`GatewayStream_proofs` (any number of events, any set of hidden ones, any
capacity of the queue, any bounds; `StreamAssumption` of GatewayStream) rests on
`Flow`, the invariant of what is between the server and the client:

* `Bounds`: no number under way is above what was published, and what was saved
  is not above the position. `Shape`: a reply comes first, and while a resume is
  being served nothing that moves the position passes it. `NoneAhead`: a frame
  that moves the position has every event it moves it over before it in the
  queue. `CaughtUp`: between resumes, every visible event that the position does
  not cover is in the queue.
* `TypesKept`, `NeverAhead`, `CaughtUpWhenIdle` and `Forward` follow for
  `TypeOK`, `PositionNotAhead`, `IdleMeansCaughtUp` and `PositionForward`. None
  is inductive alone: that the position does not move back needs that an event
  repeated after the replay is recognised, that it does not run ahead needs the
  bound on every frame.
* `StreamImplementsPosition`: `Spec => ImplementsPosition`. `Gapless` says that
  every number up to the position was received, hidden, declared lost or adopted
  with the first join; `Read` then maps to `Adopt` or `Advance`, and every
  other step to `Rewind`, which a restart is and a step that leaves the position
  alone is trivially. The server's
  replay is stated as a set of sequences (`Replays`), so that no recursion
  stands in its way.
* `TwiceAtMost`: `Spec => []AtMostTwice`. A handler sees an event again only
  after a reconnect, so the proof counts the copies there are: `Coming(s)` adds
  to what the handlers had those in the queue, on the wire and in the mailbox,
  and the one that a replay still to come would bring. The invariant `Twice`
  bounds the sum by two, and says that an event the position has not reached
  was not read before; without that, a drop could add a third copy.

`RestClient_proofs` (any calls, workloads, retries and bounds on tokens;
`TokenAssumption`, `RestAssumption`):

* `LiveRefreshHeld`, from `TokenInv`: while the mutex is free no exchange is under
  way (`ExchangeLocked`); as long as no answer was lost, the endpoint's live
  refresh token is the one held or the one about to be stored (`RefreshKnown`);
  tokens are held in the order they were issued (`IssuedInOrder`).
* `OnceWithKey`, `DoneOnSuccess`, `BodyWhole` and `TokenFresh`, from `CallInv`
  together with `TokenInv`: `BodyInv` (the body is whole wherever the next send
  may start), `KnownInv`, and `ExecutedInv`, which ties a stored answer to one
  execution and an `ok` that is read to an execution. Every step of a call is
  first shown to be an `OwnStep`, so that the invariant is argued once.
* `RestTypes`: `Spec => []TypeOK`. Two of its parts say more than types. A wait
  is positive and within the client's bound (`WaitsBounded`), for every attempt
  and every word, because the guard of `Capped` catches whatever the shift
  leaves. And a request is executed at most `MaxRetries + 1` times: `CountInv`
  adds the copies still under way to the executions, and the sum never exceeds
  the attempts sent.

`WsConn_proofs` (any writers and closers; `WsConnAssumption`):

* `ContiguousFrames`, from `LockInv` (whoever is between a header and its payload
  owns the lock and wrote the last header) and `OnceInv` (the stages of
  `closeOnce`).
* `InterruptHeld`: `Spec => []InterruptKept`, for any contexts and any number of
  reads. It is not inductive: `WatchInv` says of every call in progress, its
  context ended or not, that the deadline is in the past or its own watcher is
  still there; a watcher of an earlier call can only add an interruption, and
  `stop`'s clearing comes before the next call's watcher.
* `ConnTypes`: `Spec => []TypeOK`, from `ConnInv`, which adds `TalkInv` to
  those: the reader is between two frames exactly when it has none to answer,
  and only it writes pongs.
* `PongsInOrder`: `Spec => []PingsAnswered`. Until the reads end, the pongs are
  those of all pings but the one being answered, in their order: `PongInv`
  speaks of the rank of a ping among the pings, because its place among the
  frames says nothing about the place of its pong.
* `WholeMessages`: `Spec => []MessagesWhole`. `WholeInv` says that the messages
  returned, followed by the one being put together, are the data frames heard,
  in order and without a gap, that each message begins with its opening frame
  and ends with its last fragment, and that the length counted so far is within
  the limit. The property speaks of finished messages only and could not be
  carried over the step that finishes one.

`GatewayPacing_proofs` (any word, delays, gap, cooldowns, hints and intervals;
`BackoffAssumption`, `PacingAssumption`):

* `SilenceIsNoticed`, from `BeatInv`: the time since the peer fell silent and the
  longest the heartbeat can still last, a stale token in the channel included,
  come to three intervals at most.
* `BudgetKept`: `Spec => []WithinBudget`. `DialInv`: two dials are at least
  `MinInterval` apart, so that the i-th and the j-th differ by (j - i) gaps at
  least, the last one is no younger than `sinceDial`, and the loop waits for the
  rest of the gap. The ages of the first and the last dial then bound how many
  lie between them.
* `DialsBackOff`: `NoWrapWithin => (Spec => []BacksOff)`. `LoopInv` ties
  `attempt` to the connections that failed in a row, `BackInv` says what has to
  have passed before the next dial in each place the loop can wait. The
  hypothesis is about the configuration: the bounds the program comes with
  satisfy it (the minimum of 1 s is 2^9 times an odd number of ns, and is
  either large or zero wherever its shift leaves the word), TLC evaluates it
  for the run's (`BackoffFits`), and a minimum of 2^32 + 1 ns with a maximum
  above 4.3 s does not, because shifted by 32 it is 4.3 s. Nothing in the code
  excludes such a minimum.
* `PacingTypes`: `Spec => []TypeOK`, from the three.

`Helpers_proofs` proves about each part with an invariant of its own; a part
stands still while another is at work.

* `SignedAndFresh` (`WebhookAssumption`): `HeaderDigest` shows that the signature
  of any header that parses, whatever its fields' order or number, is one the
  sender made.
* `EventsWhole` (`StreamAssumption` of EventStream), from `FeedInv`: the lines in
  the feed lead, one by one, from the place the reader has come to to the place
  the server has come to, also when a blank line between two events or the end
  is still to be read; after a line too long nothing more is handed over.
* `WalkComplete` (`PaginationAssumption`): `Spec => []EveryRowOnce`, from
  `PageInv`. While the list changes, the rows already yielded, those of the page
  at hand and those before the cursor stay apart and in order (`OlderToCome`),
  and a row that was there from the start and still is lies in one of the three
  (`NoneLost`); the cursor is the last row of its page, exactly (`PageShape`),
  for the form submissions too.
* `NeverHasty` (`PollAssumption`, `BackoffAssumption`): `Spec => PollsPaced`, of
  every request, the loop's and the engine's resends. `PollInv`: what is left of
  the wait and what has passed of it cover the pause owed (`WaitsAsOwed` for the
  engine's, whatever the shift leaves), and the CLI loop's interval is the first
  one and `SlowDown` for every 429.
* `NothingLost` (`EditorsAssumption`): `Spec => []UpdatesKept`, for every update
  type and any number of editors. `MergeMeant` and `ReplaceMeant` show for every
  convention of the types that the body sent does what was asked and leaves the
  rest; `UpdInv` says of each editor what it has asked, read and sent, and
  (`Alone`) that as long as no other editor came between, the record is the one
  it read.
* `HelperTypes` (all of these and `OptionsAssumption`): `Spec => []TypeOK`. Its
  part about `New` says that whatever options come in whatever order, the client
  is one the engine can run: retry bounds positive and in order, retries not
  negative.

Each invariant is proved by one step per action, in the order of `Next`, with a
frame lemma for the actions that touch none of its variables.

Where a definition adds up, ranks or counts, the proof needs an induction over
the natural numbers. `NatFacts` has it for sets (`NatInd`), from the least
number of a set that is not empty (`NatMin`), which is the library's statement
about well-founded relations. That the recursive function `Total` of WsConn
exists, so that its equations hold, is shown by the same induction over the
lengths for which it does.

What the proofs corrected in the models, each of them hidden by the constants of
the runs: the longest wait of GatewayPacing left out the rest of the shortest
gap; the pause counted by HandshakePoll stopped at a fixed bound, so a longer
pause would have seemed cut short; and an editor of PartialUpdates could have
been called like a marker of the empty value.

Only model-checked: the liveness properties (`CancelStops`, `CloseEnds`,
`SilentPeerDetected`, `EveryEventSettles`, `CallsReturn`, `CallsEnd`,
`PartsEnd`) and everything that needs ENABLED, which the prover does not handle.
Every invariant and every action property a passing run checks is a theorem.
That `RestApi`'s routes and `PartialUpdates`' field names are distinct are
assumptions on tables, which TLC evaluates.

None of the modules declares a RECURSIVE operator of its own.

## Plan

Done: GatewaySession, JoinBook, GatewayStream, StreamPosition; GatewayPacing and
Backoff; WsConn; RestApi, TokenSource and RestClient; the six parts of Helpers;
a theorem for each of their safety properties.

What is left, in this order:

1. `NoWrapWithin` for the minima below a bound that the defaults meet, so that
   `DialsBackOff` holds without a hypothesis for a client nobody configured.
2. Abstract specifications beside StreamPosition: of the request engine (a call
   is executed, or not, and answers accordingly) and of the page iterator (a
   walk over a snapshot, give or take the rows that changed), with the proof
   that the detailed modules implement them.
3. The hazards that no property covers yet (`hazards` of `PROJECT.json` gives
   the reason for each).

## Not modelled

* Event names, payload types and intents (`event.go`, `intents.go`): no state.
* JSON, URL and multipart encoding, the HTTP upgrade's headers beyond the four
  that decide it, masking, PKCE and other cryptography, logging.
* The OAuth code exchange, revocation and the authorization URL
  (`oauth_flow.go`): single requests, or none, without state of their own.
* The filters of lists, create parameters and response types of the services:
  data that passes through unchanged. A create that is repeated is an `add` in
  RestApi.
* A copy of an update that the server executes after a later attempt of the same
  update was answered (RestClient has late copies, PartialUpdates does not).
* The bytes of a close frame's reason, and a cursor given by the caller with
  `WithQueryParam`, which replaces every page's cursor.
* Registration of handlers while events are dispatched (`handler.go`): guarded
  by the client's lock on both sides, one map write.
* A panic in a handler: `safeCall` recovers it, so a handler always returns.
* Rate-limited events the server drops on its side (`RATE_LIMITED`).
* The examples and the end-to-end test, which use the library and hold nothing.
