# A TLA+ model of gohub

gohub is a websocket hub: a Go server that keeps one connection per client,
groups clients into rooms, and joins several nodes into a cluster through a
message bus (NATS, Redis, or a bus inside the process). This directory models
its concurrent core in TLA+, checks it with TLC on small instances and proves
its main properties with TLAPS for every instance.

Paths below are relative to the repository's root (`src/` in `PROJECT.json`).

## Inventory

| Part | State it keeps | Operations | Talks to | Module |
|---|---|---|---|---|
| Client (`pkg/hub/client.go`) | channel `out`, context, `sync.Once`, connection, claims, metadata | Send, readLoop, writeLoop, shutdown | dispatcher (from the readLoop), `onClose` callback | `Client`, `FramePipe` |
| Client registry (`hub.go` Register, Unregister, Close; `server/server.go` setupClient) | `Hub.clients` (sync.Map id -> client), connection gauge | Register, Unregister, Close, GetClient | Client.shutdown, bus.Unsubscribe, one unicast worker per Register | `Registry` |
| Deduplicator (`dedup.go`) | cache id -> time, sequence, cleanup lock and time | GenerateID, IsDuplicate, MarkProcessed, cleanExpired | publishers and the two bus loops | `Dedup` |
| Rooms (`room.go`) | map name -> room; per room a map id -> client; counters | CreateRoom, DeleteRoom, JoinRoom, LeaveRoom, Close | client table, bus, deduplicator | `Rooms`, `RoomRoster` |
| Unicast (`hub.go`) | one worker per Register, its subscription | Push, subscribeClientUnicast, processUnicastMessages | bus, client table | `Unicast` |
| Broadcast, room broadcast (`hub.go`, `room.go`) | two subscription goroutines per hub | Broadcast, BroadcastToRoom, processBusMessage, processRoomMessage | bus, deduplicator, clients, rooms | `Cluster` |
| Buses (`pkg/bus/...`) | subscriptions, stop channels, cancel functions, JetStream consumers | Publish, Subscribe, Unsubscribe, Close | NATS, Redis, channels | `MessageBus`, `NatsBus`, `NatsSetup`, `RedisBus`, `NoopBus`, `Bus` |
| Retry (`internal/utils/retry.go`) | attempt, backoff | RetryWithBackoff | every subscription goroutine | in `Cluster`, `Unicast` |
| Server, SDK, handlers, authentication | HTTP server, event handlers, claims | handleWebSocket, triggerEvent, handleJoinRoom, handleLeaveRoom, Shutdown | all | `Server` |
| Messages, configuration, adapter | settings, codes | parsing, loading, wrapping | server | not modelled |

What is hard in this code, and what makes each part correct:

* **Client.** Five kinds of goroutines share a channel, a context and a Once.
  Correct means: nothing accepted is skipped, doubled or reordered; an ack says
  what happened to its frame; shutdown is a barrier; both loops end.
* **Registry.** The loops of a connection run before it is registered, ids may
  repeat, `Unregister` works by id, and Register waits for another connection's
  shutdown, which calls back into the hub. Correct means: the table names the
  open connection of each id, a closed one leaves, Close closes all, and nobody
  waits for ever.
* **Deduplicator.** Check and mark are two calls; a cleanup runs among marks.
  Correct means: at most one acceptance per TTL, and a cache that is cleaned.
* **Rooms.** Three locks one after the other, rooms that outlive their deletion
  in a caller's hands, members that outlive their connection. Correct means: the
  whole acts as one roster per name, within its limit, and the counters agree.
* **Unicast.** Each Register starts a worker that only ends with its channel, and
  unsubscribing works by topic: two workers may serve one id, and a connection
  that fails may cut off the worker of its successor. Correct means: whoever is in
  the table is served in the end, and each worker hands a message over once at most.
* **Broadcasts.** Duplicates, own echoes, loss, retries that are used up, payloads
  that are wrapped on the way. Correct means: each node hands a message out once
  as long as the deduplicator remembers it, text unchanged and JSON as an equal
  value, and its subscriptions come back.
* **Buses.** Two subscriptions under one key, unsubscribing by key from a context
  watcher, acknowledgement while a subscription stops, publishing that goes on
  after its timeout, nodes that edit one stream's subjects together. Correct
  means: what is delivered was published, what JetStream reports as published was
  taken, nothing is forgotten unread, and channels are closed that should be.
* **Server.** Claims are set after the loops run, the permission is asked of one
  connection and the id looked up later, events come from three goroutines,
  Shutdown stops the SDK, the hub, the bus and the listener in that order.

`PROJECT.json` lists these hazards at their lines with the properties that cover
them, and says of each what they leave open.

## Plan

The modules were written from the inside out; all are done.

| # | Module | Composes | Abstract specification | Proofs |
|---|---|---|---|---|
| 1 | `Client` | | `FramePipe` | `ClientProofs` |
| 2 | `Registry` | abstracts Client's shutdown | | `RegistryProofs` |
| 3 | `Dedup` | | | `DedupProofs` |
| 4 | `Rooms` | abstracts Registry's table | `RoomRoster` | `RoomsProofs` |
| 5 | `NatsBus`, `NatsSetup`, `RedisBus`, `NoopBus` in `Bus` | | `MessageBus` | `BusProofs` |
| 6 | `Unicast` | every action of Registry, with the bus's key map | | `UnicastProofs` |
| 7 | `Cluster` | abstracts Dedup's cache, Rooms and the bus | | `ClusterProofs` |
| 8 | `Server` | every action of Registry, one room | | `ServerProofs` |

## Modules

### Client, FramePipe

`Client.tla` has one connection. `pc` says what each goroutine executes next:
senders, the readLoop (which sends from inside handlers), the writeLoop, callers
of Shutdown. `out` is the channel, `once` the `sync.Once` with its busy period,
`ctxDone` and `connClosed` the context and the connection. The variables from
`accepted` on are history. Each case of each `select` is an action of its own,
enabled whenever its channel is ready, since Go chooses among the ready cases at
random. `FramePipe.tla` is what callers may rely on: frames leave in the order
they were accepted, without gaps, at most `Cap + 1` behind, and an open client
catches up.

An Ack channel is taken to be unbuffered, and its caller waits for it inside
Send as the code does. Message contents and deadlines are abstracted: a read or a
write may fail at any time.

### Registry

`Registry.tla` gives each connection two actors: `setup`, the HTTP handler that
runs setupClient, and `life`, the body of the connection's Once. Every map
operation of the code is atomic and is one action; between two of them anything
may happen. `Close` visits the ids of the table as `sync.Map.Range` promises it:
each at most once, those that stay present for certain, those stored or deleted
meanwhile perhaps. `OwnIds` are the generated ids, one for each connection; those
taken from claims or the query may repeat. `overlap` records the ids of which a
connection entered Register while another was inside, `early` the connections that
failed before they were stored: through either a connection may be open and out
of the table, and `OpenIsReachable` says through nothing else. Its hard case is a
chain of reconnects, where each Unregister deletes whatever is under the id and
has to come before the next Store.

That other callers of `shutdown` return only at "closed" is the theorem
`BarrierCorrect` about `Client`.

### Dedup

`Dedup.tla` has publishers and bus loops as actors, a clock, and a bus that may
deliver any remote message or any own published one again at any time. IsDuplicate
and MarkProcessed are separate steps, as are the two reads of the clock in
cleanExpired, the visit of each entry, and the read of `sequence` after the
store. A publisher hands its message to the bus after MarkProcessed has returned.
Room loops may drop a message unmarked, as processRoomMessage does for rooms it
does not have.

### Rooms, RoomRoster

`Rooms.tla` separates names from room objects, so a caller may hold a deleted
room. `JoinRoom` is three steps (client table, room map, room), `LeaveRoom` two.
Connections come and go one per id at a time; `Registry` has the rest.
`RoomRoster.tla` is the abstraction: one roster per name with atomic operations.
A join into a deleted room is a stutter of the roster: it equals a join just
before the deletion.

### MessageBus, NatsBus, NatsSetup, RedisBus, NoopBus, Bus

`MessageBus.tla` is the promise of the interface in `pkg/bus/bus.go`: a channel
carries messages somebody published, may lose or repeat them, and carries nothing
once it is closed. `Bus.tla` makes one of the implementations, as
`createMessageBus` does, and shows it to implement that promise; the three share
the variables `bus` (up, closing, closed), `pub` (where each Publish is), `loop`
(the goroutine of each subscription), `current` (the maps from key to
subscription; `SubscribeWithTimestamp` uses a second key), `inbox` (what the
client library holds) and `out` (how full the caller's channel is).

`NatsBus.tla` covers both modes. Publish is the caller and its goroutine: the
call may time out while the goroutine goes on trying. On core NATS a Publish that
returns nil has put the message into the buffer of the connection (`link`), which
`Flush` writes out later or loses with the link; only on JetStream does nil mean
that the server has the message. `stream` is what the server
has taken; on JetStream an entry is ready, pending or gone, a consumer's deletion
releases what it held, and acknowledgements may be lost. The loop's Fetch, its
look at the stop channel before each message, the hand-over with its wait, Ack and
NakWithDelay are steps of their own. The server, external to the code, refuses a
second consumer on a subject because the stream has `WorkQueuePolicy`; a refused
call changes nothing. `RedisBus.tla` is the goroutine of a subscription with the
connection of the client library, which attaches again by itself. `NoopBus.tla`
drops everything. `NatsSetup.tla` is `setupJetStream` run by several nodes at
once: reading the stream's subjects, adding the own and writing them back are
separate calls to the server, the answer to each of which may be lost. Between
nodes of different names the later write may drop the earlier one's subject;
`LostOnlyToStaleWrite` says that only a write of what was read before the subject
was there does so.

### Unicast

`Unicast.tla` has every step of `Registry` with what it does to the bus, and a
`worker` per connection: looking at hub and table, subscribing with retries,
reading, sleeping before the next round, having used up its retries (`deaf`),
gone. A subscription that is overwritten in the bus's map goes on hearing the
topic; Unsubscribe ends the one in the map. After a reconnect two workers for one
id are the rule: the old one wakes from its pause of 100 ms, finds the id in the
table and subscribes again. Each subscription is given a message once, as by core
NATS and Redis, so that the client may get it once from each worker; JetStream's
repetitions, which reach the client since unicast messages are not deduplicated,
are in `Bus` only. A message delivered through the bus goes to whoever holds the
id then; what is pushed while nobody does is lost.

### Cluster

`Cluster.tla` joins hubs by a bus that may lose a message, repeat one, fail a call
(after carrying it out, too) and close a channel; that is what `Bus.tla` lets a
bus do. `kind` tells apart what a hub can notice: the no-op bus; NATS and Redis,
which match topics literally; and a bus with wildcards, as the subscription to
`room/>` expects. No bus of the repository is of that last kind: it is there
because processRoomMessage is reached on no other, and no property is about it
alone. `loop` is the goroutine that keeps a subscription alive with
RetryWithBackoff; `at` goes through the steps of each Broadcast and
BroadcastToRoom; `marked` is the deduplicator's cache, of which `Dedup` has the
rest. There is no clock: `stale` holds the ids that were marked longer ago than
the TTL (`Age` is the moment it passes), and a mark may be followed by a cleanup
that forgets some of them, so that a late repetition is handed out again. `recent`
counts what is handed out of an id until its mark becomes stale. `Encode` and
`Decode` are what prepareJsonPayload with json.Marshal and processBusMessage do to
text, JSON strings, other JSON, null and binary; `Compact` is the one spelling
that json.Marshal gives to a JSON value, whose white space it drops and whose `<`,
`>` and `&` it escapes.

### Server

`Server.tla` has every step of `Registry` with what happens around it: the
handshake with its outcomes, the claims a moment after the loops have started, the
readLoop's join and leave requests for one room, the application's JoinRoom and
LeaveRoom through the SDK, the events its handlers see, and Shutdown. Joining is
the permission check, which the SDK leaves out, the look-up of the id and the
insertion; the steps `Rooms` has inside the last are one here. `entered` records
at whose request a member entered, since the connection that enters is the one
that has the id by then, which need not be the one that asked.

### What the code does that a reader may not expect

The models follow the code in these; no property depends on a reader's guess.

* A connection that registers after `Hub.Close` and before the HTTP server is shut
  down stays open; `CloseShutsEveryone` and `EveryoneReturns` speak of those that
  were in the table when Close began.
* A connection that fails while it is set up may have its disconnected event
  before its connected one, and stays in the table, closed
  (`server/server.go:286-292`); `LateFailureIsRemoved` leaves those out.
* `Server.Shutdown` drops the SDK's handlers first: the disconnections it causes
  are not heard. `Off` compares addresses of its own variables and removes nothing.
* `BroadcastToRoom` publishes a map that no node accepts, then the message, and
  hands nothing to its own members. With a frame that is no JSON, text included,
  the second step fails after the id was marked; the test
  `internal/integration/room_management_test.go:96-123` expects such a text to be
  accepted and delivered.
* On NATS and Redis a message arrives wrapped in a `bus.Message`. Broadcasts are
  unwrapped; room messages are not and would be dropped, but their topic `room/>`
  matches nothing on those buses anyway; unicast messages reach the client wrapped.
* The deduplicator is cleaned while its node's own sequence stands at a multiple of
  100, zero included: a node that has sent nothing tries at every mark, one that
  rests at another value keeps every id it receives.
* An id is forgotten 30 s after its mark at the earliest, and JetStream redelivers
  after 60 s: a broadcast that is redelivered may reach the clients twice.
* Messages without an id share one, so that a node hands over only the first in a
  TTL.
* `SDK.JoinRoom` asks for no permission; it is the application that calls it. After
  a client's own request the connection that enters may be a replacement whose token
  does not grant the permission (`handlers.go:88-103`).
* A publication on core NATS is reported as done before it has left the process.
* A JetStream message fetched while its subscription stops is acknowledged without
  being handed over.

Each module also holds, just before the definition it alters, the faulty form
that each property is known to catch (`HasRoomOffByOne`, `OldShutdownBegun`,
`CleanWithoutLock`, `AckUnsent`, ...). No action uses them; `PROJECT.json` lists
them under "mutants", with the property and the run that fails when one takes the
place of the right definition.

## Runs

| Run | Instance | Shows |
|---|---|---|
| `client` | 1 sender and a handler that sends, 2 sends each, 1 closer, capacity 2 | NoGapNoReorder, AckTellsTheTruth, ShutdownIsABarrier, LoopsEnd, ImplementsPipe |
| `client_ack` | 1 sender x 1 | violated: AckAnswered |
| `registry_safety` | 3 connections, an id that repeats and an own one | LateFailureIsRemoved, GaugeCountsOpen, OpenIsReachable, CloseShutsEveryone |
| `registry_one_open` | 3 connections, 1 id | violated: OneOpenPerId |
| `dedup_safety` | 1 publisher, 2 loops, 1 remote and 2 own messages, clock to 4 | AtMostOncePerTTL, CleanupsApart, CleanupIsComplete |
| `rooms` | 2 callers, 1 name, 2 room objects, 2 ids, 3 connections | WithinLimit, MetricsAgree, ImplementsRoster |
| `rooms_reached` | 1 caller, 1 room | violated: ConnectedMemberIsReached |
| `bus` | each bus; 1 message and 1 foreign one, 2 subscriptions; 2 nodes that start | OkMeansTaken, NothingForgottenUnread, LostOnlyToStaleWrite, ImplementsBus, InOrderOnce, ChannelsClose, HandedOrGivenUp |
| `unicast` | 2 connections under 1 id, 1 message, 1 retry | OncePerWorker, ClientsAreServed |
| `cluster` | 2 hubs, 2 messages of one node, 1 retry, 1 repetition | OncePerTTL, RemoteSeesFrame, SubscriptionsGoOn |
| `room_delivery` | the same | violated: LocalMembersGetIt |
| `server` | 2 connections under 1 id, one of which joins and leaves; calls of the SDK | MemberHadPermission, EventsInOrder, EveryoneReturns |

Every passing run also checks the type invariant of its module. The violated
properties are disagreements between the code and its own comments and tests;
`PROJECT.json` quotes each under "findings".

**Bounds.** `MaxSends` 2 with capacity 2 fills the channel and overflows it;
with the frame in the writer's hand the written frames lag by up to three. Three
connections on two ids have one connection replaced by two others at once, or by
one next to a bystander. `TTL` 1, `Gap` 2 and a clock to 4 have an entry exactly at
its TTL, beyond it, and two cleanups a gap apart; they keep the order 30s < 60s of
the code. `MaxOwn` 2 with `Period` 2 has sequences on and off the trigger. Two room
objects under one name have the new room in use while a caller holds the old
one; `MaxJoins` 3 fills a room and its successor.

`MCBus`: two subscriptions replace one another under one key or sit side by side
under two. One message with a lost acknowledgement is in the stream twice
(`MaxStream` 2), which fills a channel of `Cap` 1, makes a `Batch` of 2, and, with
`MaxDeliver` 2, has a message redelivered and its deliveries used up. Two nodes
with one or two names race through `NatsSetup` with two tries each. `MCUnicast`
has a connection and its replacement; the message is pushed in behaviours that do
not close the hub, and since the actions treat connections alike, the first to be
made and the first to enter Register may be called 1. `MCCluster` has a pair of
messages per behaviour: a broadcast of text beside an object that is no broadcast,
one of JSON in a spelling of its own beside raw text, two without an id, and two
of a room, one of JSON and one of text, or one beside raw text; one topic is in use
and the goroutine of the other has given up, since the two share nothing but the
cache. The TTL may pass at any time, and the one repetition may come before it
or after. `MCServer` has a connection that talks and another that takes its id, with
every choice of tokens; Shutdown comes in behaviours without tokens, and calls of
the SDK in those where the other connection has none, or is not there when Shutdown
comes. `Retries` 1 is one failure that is followed by another attempt and one that
is not.

Deadlock is not an error in these models: all actors may have finished, or wait
for a peer that never speaks.

**Fairness.** A goroutine that can run is run: weak fairness for the steps of the
loops, of shutdown, of Register, of Close, of the workers and of the subscription
goroutines, because callbacks, handlers and writes with a deadline return. The
writeLoop's `ctx.Done()` case has strong fairness: `select` picks at random among
ready cases, so it is not passed over for ever. The server of JetStream answers a
Fetch again and again while it has messages, although any one may time out (strong
fairness), and redelivers what is not acknowledged. Nothing makes a caller send, a
peer speak, a connection fail, a bus close a channel or anyone call Shutdown or
Close. A read fails for certain only once the connection is closed.

## Proofs

All are for arbitrary constants under the modules' named assumptions: capacity
and periods positive, at least one retry, actors distinct, ids (and in `Unicast`
connections) finite, `None` and `NoId` outside the sets they stand beside,
connections other than the two labels they share a variable with.

* `ClientProofs`: `TypeCorrect`; `PipeCorrect`, inductive with the type invariant
  and the relation of the writer's label to the frame in its hand; `BarrierCorrect`,
  from an invariant that says who is inside the Once and what has been done by
  each label; `RefinesPipe`, every step being Accept, Deliver, Close or a stutter;
  `AckTruthful`, from `FramesDiffer`, that no frame is accepted twice, and
  `AckInv`: a frame is confirmed only once written, and the only refused one
  is the writer's last, which it does not write again.
* `RegistryProofs`: `RegistryTypeCorrect` and `LateFailureLeaves` for all ids, from
  an invariant that relates `setup`, `stored` and `old`; `OpenStaysReachable` from
  `SerialInv`: where Registers of an id come one after the other, nobody is in
  the table between the Unregister of the replaced connection and the Store of the
  new one, so that there is nothing else to delete or to overwrite; `CloseShuts` for
  ids of their own, where an entry can only be that id's connection; `GaugeIsRight`,
  because the gauge is at all times the number of connections counted in less
  those counted out, in whatever order the two are announced.
* `DedupProofs`: the four results rest on one invariant: no two loops handle one
  message, no publisher shares an id with another; the cache differs from the
  last mark only for entries more than TTL old; a goroutine inside cleanExpired
  holds the lock, and what its Range has passed is not expired.
* `RoomsProofs`: `RoomsWithinLimit` and the refinement `RoomsRefineRoster` rest on
  an invariant that says that names lead to distinct rooms that were made, that
  a room not yet made is empty, and what a caller holds between its steps.
  `RoomsMetricsAgree` adds that memberships and names are finite sets, to which
  each counted step adds one element or takes one away.
* `ServerProofs`: every step of `Server` is a step of `Registry` or leaves it
  alone, so that Registry's invariant carries over. `MembersHadPermission` adds
  `JoinInv`: claims are those of the token, a readLoop past the check had a token
  that grants, and the connection that it or a call of the SDK found has the id
  that was looked up, although it may be another one than asked.
  `EventsComeInOrder` adds `HeardInv`: what has been heard of a connection is
  determined by where its setup and its Once stand.
* `UnicastProofs`: again on Registry's invariant. `UnicastTypeCorrect` adds that
  the bus's map names subscriptions of its topic and that a worker that was cut
  off is not in it. `UnicastOncePerWorker` adds that a channel holds a message once,
  and that a message was handed over no oftener than there are connections of its id
  whose workers no longer hold it: a worker that hands it over joins them, and one
  that is cut off or ends can only add to them.
* `ClusterProofs`: `HandedOncePerTTL` from `AgeInv`, which ties what was handed out to
  the deduplicator's cache: a node that has handed out an id whose mark is not stale
  has marked it, except the sender between localBroadcast and MarkProcessed, when
  nothing is published yet; what a cleanup forgets was stale. `FramesSurvive` from
  `FrameInv` and the lemma that Decode after Encode gives text itself and JSON the
  value it had.
* `BusProofs`, for whichever bus `Bus` made. `BusCore` is the inductive
  invariant: the types (`ControlInv`), and that all that is on its way to a
  subscriber, or was put on its channel, are positions of the log of what the
  server has taken (`DataInv`). The step is proved in two halves: each action of
  NATS, Redis or the no-op bus has one of eight effects on that log and on one
  subscription (`Still`, `Stored`, `Begun`, `Ended`, `HandedOn`, `Dropped`,
  `Moved`, `TakenOut`), and each effect keeps the invariant. The same effects
  carry two more results, with one argument for all buses. `BusInOrderOnce`: on core
  NATS and Redis what is on its way ascends and comes after what was put.
  `BusImplementsBus`: `Stored`, `Begun`, `Ended` and `HandedOn` are the four
  steps of `MessageBus`, the others stutters. (A Fetch picks a set of entries and
  hands them out in their order, so the proofs begin with the numbering of a
  finite set.) The others are about NATS alone:
  `BusOkMeansTaken` (what a Publish or its goroutine calls ok is in the stream of
  JetStream),
  `BusForgetsNothingUnread` (the server's consumers are subscriptions of the map
  until Close has stopped them; before the first is stopped only what was read is
  gone from the stream) and `BusLosesToStaleWrites` (whoever drops a subject had
  read the stream without it, and its own subject is there since). `BusTypeCorrect`
  is the type invariant.

Every invariant and action property that a passing run checks is the statement of
one of these theorems. Only model-checked: the liveness properties, which TLAPS
cannot prove (`LoopsEnd`, `ChannelsClose`, `HandedOrGivenUp`, `SubscriptionsGoOn`,
`ClientsAreServed`, `EveryoneReturns`, and the liveness half of `ImplementsPipe`),
and the four violations.

## Not modelled

* Client: the metadata map, which no other operation reads, and the lengths of the
  deadlines.
* Handlers: ping, room_message and direct_message have no state of their own and
  end in Client's Send, Cluster's BroadcastToRoom and Unicast's Push; the wording of
  replies (`message.go`, `error.go`) concerns no property.
* SDK: getters, which change nothing; `On` while events are triggered, and `Off`.
  The events `client_message` and those of rooms are never triggered by the code.
* Server: options and defaults, health and metrics routes. Shutdown before Start
  (no HTTP server yet) is not a state of the model.
* Authentication: signing and parsing, which are computation on strings; what they
  may result in is in `Server`.
* Metrics: counters and histograms other than the connection gauge, the room gauge
  and the room counters, and `monitorPendingMessages`.
* Retry: the lengths of the pauses.
* Excluding a client from a room broadcast: a node has one room's worth of clients
  in `Cluster`, who are not told apart.
* Configuration loading and hot reload (`configs/config.go`), the websocket
  adapter, logging, the examples, scripts and the test client: I/O or wrappers
  without state shared with the rest.
