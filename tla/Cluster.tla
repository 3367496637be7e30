--------------------------------- MODULE Cluster ---------------------------------
(***************************************************************************)
(* Hubs joined by a message bus (pkg/hub/hub.go, room.go): the goroutine   *)
(* that keeps each of a hub's two subscriptions alive with                 *)
(* RetryWithBackoff (internal/utils/retry.go), Hub.Broadcast and           *)
(* processBusMessage, Hub.BroadcastToRoom with RoomManager.BroadcastToRoom *)
(* and processRoomMessage, and Close. Each node has one room's worth of    *)
(* clients; what is handed to them by localBroadcast or Room.Broadcast is  *)
(* recorded, Client.tla takes it from there.                               *)
(*                                                                         *)
(* The bus is any that does what Bus.tla checks: it may lose a message, it *)
(* may repeat one, it may close a channel. `kind` is what the hub can tell *)
(* apart: noop drops everything; exact (NATS, Redis) wraps a message in a  *)
(* bus.Message and matches topics literally, so that "room/>" hears        *)
(* nothing of "room/<id>". wildcard is a bus that a user of the MessageBus *)
(* interface may bring and the hub expects: none of the repository's is    *)
(* one, and processRoomMessage is reached on no other.                     *)
(*                                                                         *)
(* Time: the deduplicator forgets an id the TTL (30 s) after it was        *)
(* marked, once a cleanup finds it. `stale` holds the ids marked longer    *)
(* ago than that; when a cleanup runs is in Dedup.tla.                     *)
(***************************************************************************)
EXTENDS Naturals, Sequences

CONSTANTS Nodes,      \* hubs
          Msgs,       \* calls that send, and messages of other programs
          NoId,       \* "-0-0", the id of a message that has none
          Retries,    \* retries after the first attempt to subscribe (5)
          MaxRepeats  \* repetitions by the bus (bounds the model)

ASSUME ClusterAssumption == NoId \notin Msgs /\ Retries \in Nat \ {0} /\ MaxRepeats \in Nat

Topics == {"broadcast", "room"}

\* What a message is: a call of Broadcast or of BroadcastToRoom, or a foreign
\* message on the broadcast topic: no JSON object at all ("raw"), a BusMessage of
\* type broadcast without an id ("anon"), or another JSON object ("other").
Ops == {"broadcast", "room", "raw", "anon", "other"}

\* Frames: text that is no JSON (taken to be UTF-8), a JSON string, another JSON
\* value as json.Marshal writes it or otherwise spelled ("loose": with white space, or
\* with <, > and & as they are), null, binary.
Frames == {"text", "jstring", "json", "loose", "null", "binary"}

VARIABLES kind,    \* the bus: "noop", "exact", "wildcard"
          what,    \* each message: [op, frame]
          has,     \* nodes that have the room
          up,      \* nodes whose hub's context is not done
          open,    \* nodes whose bus is not closed
          loop,    \* the subscription goroutine of each node and topic
          tries,   \* attempts of RetryWithBackoff that failed
          at,      \* where each call is, or how it returned
          from,    \* the node it was called on
          marked,  \* the deduplicator's cache (Dedup.tla) of each node
          stale,   \* the ids in it that were marked longer ago than the TTL
          wire,    \* what each subscription's channel holds
          sent,    \* what was published, by topic
          repeats, \* repetitions so far
          got,     \* history: frames handed to the node's clients
          recent   \* history: how many of an id, since its mark last became stale

vars == <<kind, what, has, up, open, loop, tries, at, from, marked, stale, wire, sent,
          repeats, got, recent>>
rigid    == <<kind, what>>
hubVars  == <<has, up, open>>
loopVars == <<loop, tries>>
callVars == <<at, from>>
markVars == <<marked, stale>>
busVars  == <<wire, sent, repeats>>
gotVars  == <<got, recent>>

Ids == Msgs \cup {NoId}

\* Some goroutines may have given up before anything is sent.
Init == /\ kind \in {"noop", "exact", "wildcard"}
        /\ what \in [Msgs -> [op : Ops, frame : Frames]]
        /\ has \in SUBSET Nodes
        /\ up = Nodes /\ open = Nodes
        /\ loop \in [Nodes -> [Topics -> {"check", "deaf"}]]
        /\ tries = [n \in Nodes |-> [t \in Topics |-> 0]]
        /\ at = [m \in Msgs |-> "idle"]
        /\ from \in [Msgs -> Nodes]
        /\ marked = [n \in Nodes |-> {}] /\ stale = [n \in Nodes |-> {}]
        /\ wire = [n \in Nodes |-> [t \in Topics |-> <<>>]]
        /\ sent = [t \in Topics |-> {}] /\ repeats = 0
        /\ got = [n \in Nodes |-> [m \in Msgs |-> <<>>]]
        /\ recent = [n \in Nodes |-> [i \in Ids |-> 0]]

-------------------------------------------------------------------------------
(* Payloads                                                                *)

\* json.Marshal writes a json.RawMessage compactly and escapes <, > and &.
Compact(f) == IF f = "loose" THEN "json" ELSE f

\* prepareJsonPayload, then the json.Marshal of the BusMessage: valid JSON as it is,
\* but compacted; other text as a JSON string, binary as one of its base64 form.
Encode(f) == CASE f = "text"   -> "jstring"
               [] f = "binary" -> "jbase64"
               [] OTHER        -> Compact(f)

DecodeRaw(p) == IF p = "jbase64" THEN "base64" ELSE p

\* processBusMessage: a payload that unmarshals into a string (null does) is
\* replaced by that string.
Decode(p) == CASE p = "jstring" -> "text"
               [] p = "null"    -> "empty"
               [] p = "jbase64" -> "base64"
               [] OTHER         -> p

\* MessageID.String of the message.
Id(m) == IF what[m].op \in {"anon", "other"} THEN NoId ELSE m

-------------------------------------------------------------------------------
(* The bus                                                                 *)

Entry(m, part) == [msg |-> m, part |-> part]

Hearing(t) == {n \in Nodes : loop[n][t] = "on" /\
                             (kind = "wildcard" \/ (kind = "exact" /\ t = "broadcast"))}

\* A publication reaches some of the subscriptions that match.
Carry(e, t) ==
    /\ \E R \in SUBSET Hearing(t) :
          wire' = [n \in Nodes |-> IF n \in R
                                   THEN [wire[n] EXCEPT ![t] = Append(@, e)]
                                   ELSE wire[n]]
    /\ sent' = [sent EXCEPT ![t] = @ \cup {e}]
    /\ UNCHANGED repeats

\* bus.Publish on a node: it is carried out, or it fails (and may have been
\* carried out); the bus of a closed hub refuses.
Publish(n, e, t, error) ==
    \/ ~error /\ n \in open /\ Carry(e, t)
    \/ error /\ n \in open /\ kind # "noop" /\ Carry(e, t)
    \/ error /\ (n \notin open \/ kind # "noop") /\ UNCHANGED busVars

Repeat(n, t) ==
    /\ repeats < MaxRepeats /\ n \in Hearing(t)
    /\ \E e \in sent[t] : wire' = [wire EXCEPT ![n][t] = Append(@, e)]
    /\ repeats' = repeats + 1
    /\ UNCHANGED <<rigid, hubVars, loopVars, callVars, markVars, sent, gotVars>>

CloseToReturn(n, t) ==
    /\ loop[n][t] = "on" /\ wire[n][t] = <<>> /\ kind # "noop"
    /\ loop' = [loop EXCEPT ![n][t] = "gone"]
    /\ UNCHANGED <<rigid, hubVars, tries, callVars, markVars, busVars, gotVars>>

\* The bus ends a subscription, once what the channel holds has been read.
ChannelCloses(n, t) ==
    /\ loop[n][t] = "on" /\ wire[n][t] = <<>> /\ kind # "noop"
    /\ loop' = [loop EXCEPT ![n][t] = "sleep"]
    /\ UNCHANGED <<rigid, hubVars, tries, callVars, markVars, busVars, gotVars>>

Foreign(m) ==
    /\ at[m] = "idle" /\ what[m].op \in {"raw", "anon", "other"}
    /\ Carry(Entry(m, "message"), "broadcast")
    /\ at' = [at EXCEPT ![m] = "done"]
    /\ UNCHANGED <<rigid, hubVars, loopVars, from, markVars, gotVars>>

-------------------------------------------------------------------------------
(* setupBusSubscriptions, setupRoomSubscriptions                           *)

LoopTo(n, t, label) == /\ loop' = [loop EXCEPT ![n][t] = label]
                       /\ UNCHANGED <<rigid, hubVars, callVars, markVars, sent, repeats,
                                      gotVars>>

\* The head of the loop looks at the context, then RetryWithBackoff begins.
Check(n, t) ==
    /\ loop[n][t] = "check"
    /\ LoopTo(n, t, IF n \in up THEN "try" ELSE "gone")
    /\ tries' = [tries EXCEPT ![n][t] = 0]
    /\ UNCHANGED wire

TryOnceMore(n, t) ==
    /\ loop[n][t] = "try"
    /\ LoopTo(n, t, IF tries[n][t] <= Retries THEN "backoff" ELSE "deaf")
    /\ tries' = [tries EXCEPT ![n][t] = @ + 1]
    /\ UNCHANGED wire

\* bus.Subscribe: the first attempt, or a retry.
Try(n, t) ==
    /\ loop[n][t] = "try"
    /\ \/ /\ n \in open /\ LoopTo(n, t, "on")
          /\ tries' = [tries EXCEPT ![n][t] = 0]
          /\ UNCHANGED wire
       \/ /\ n \notin open \/ kind # "noop"
          /\ LoopTo(n, t, IF tries[n][t] < Retries THEN "backoff" ELSE "deaf")
          /\ tries' = [tries EXCEPT ![n][t] = IF @ < Retries THEN @ + 1 ELSE 0]
          /\ UNCHANGED wire

\* The pause before a retry is over, or the context is done.
Backoff(n, t) ==
    /\ loop[n][t] = "backoff"
    /\ \/ LoopTo(n, t, "try")
       \/ n \notin up /\ LoopTo(n, t, "gone")
    /\ UNCHANGED <<tries, wire>>

\* processBroadcastMessages or processRoomMessagesLoop sees the context done.
SeeDone(n, t) ==
    /\ loop[n][t] = "on" /\ n \notin up
    /\ LoopTo(n, t, "gone")
    /\ wire' = [wire EXCEPT ![n][t] = <<>>]
    /\ UNCHANGED tries

SleepOver(n, t) ==
    /\ loop[n][t] = "sleep"
    /\ LoopTo(n, t, "check")
    /\ UNCHANGED <<tries, wire>>

\* The TTL has passed since the id was marked.
Age(n, i) ==
    /\ i \in marked[n] \ stale[n]
    /\ stale' = [stale EXCEPT ![n] = @ \cup {i}]
    /\ recent' = [recent EXCEPT ![n][i] = 0]
    /\ UNCHANGED <<rigid, hubVars, loopVars, callVars, marked, busVars, got>>

\* Close cancels the context; the clients are shut down (Registry.tla), the rooms
\* dropped, the bus closed.
BeginClose(n) ==
    /\ n \in up
    /\ up' = up \ {n}
    /\ UNCHANGED <<rigid, has, open, loopVars, callVars, markVars, busVars, gotVars>>

EndClose(n) ==
    /\ n \in open \ up
    /\ open' = open \ {n} /\ has' = has \ {n}
    /\ UNCHANGED <<rigid, up, loopVars, callVars, markVars, busVars, gotVars>>

-------------------------------------------------------------------------------
(* Broadcast                                                               *)

\* A frame is handed to the node's clients.
Hand(n, m, body) ==
    /\ got' = [got EXCEPT ![n][m] = Append(@, body)]
    /\ recent' = [recent EXCEPT ![n][Id(m)] = IF what[m].op = "raw" THEN @ ELSE @ + 1]

\* MarkProcessed: the id is stored with the time of day, and the cleanup that it may
\* do deletes stale ids, beside the node's other goroutines, who may see some of them
\* deleted and others not.
Mark(n, i) ==
    \E gone \in SUBSET stale[n] :
        /\ marked' = [marked EXCEPT ![n] = (@ \ gone) \cup {i}]
        /\ stale' = [stale EXCEPT ![n] = @ \ (gone \cup {i})]

CallTo(m, label) == /\ at' = [at EXCEPT ![m] = label]
                    /\ UNCHANGED <<rigid, hubVars, loopVars, from>>

\* Broadcast begins with localBroadcast.
Broadcast(m) ==
    /\ at[m] = "idle" /\ what[m].op = "broadcast"
    /\ Hand(from[m], m, what[m].frame)
    /\ CallTo(m, "mark")
    /\ UNCHANGED <<markVars, busVars>>

MarkNothing(m) ==
    /\ at[m] = "mark"
    /\ CallTo(m, "publish")
    /\ UNCHANGED <<markVars, busVars, gotVars>>

\* GenerateID and MarkProcessed: the own echo is to be ignored.
MarkOwn(m) ==
    /\ at[m] = "mark"
    /\ Mark(from[m], m)
    /\ CallTo(m, "publish")
    /\ UNCHANGED <<busVars, gotVars>>

\* A failure is only logged.
PublishBroadcast(m) ==
    /\ at[m] = "publish" /\ what[m].op = "broadcast"
    /\ \E error \in BOOLEAN : Publish(from[m], Entry(m, "message"), "broadcast", error)
    /\ CallTo(m, "done")
    /\ UNCHANGED <<markVars, gotVars>>

\* processBusMessage: a bus.Message is unwrapped, a duplicate ignored, a payload
\* of another type dropped; what is no BusMessage is handed over as it is.
HearBroadcast(n) ==
    LET m == Head(wire[n]["broadcast"]).msg IN
    /\ loop[n]["broadcast"] = "on" /\ wire[n]["broadcast"] # <<>>
    /\ wire' = [wire EXCEPT ![n]["broadcast"] = Tail(@)]
    /\ \/ what[m].op = "raw" /\ Hand(n, m, what[m].frame) /\ UNCHANGED markVars
       \/ what[m].op # "raw" /\ Id(m) \in marked[n] /\ UNCHANGED <<markVars, gotVars>>
       \/ /\ what[m].op # "raw" /\ Id(m) \notin marked[n]
          /\ Mark(n, Id(m))
          /\ IF what[m].op = "other" THEN UNCHANGED gotVars
             ELSE Hand(n, m, Decode(Encode(what[m].frame)))
    /\ UNCHANGED <<rigid, hubVars, loopVars, callVars, sent, repeats>>

-------------------------------------------------------------------------------
(* Rooms                                                                   *)

\* Hub.BroadcastToRoom publishes a map of type room_broadcast without an id; a
\* failure is only logged.
BroadcastToRoom(m) ==
    /\ at[m] = "idle" /\ what[m].op = "room"
    /\ \E error \in BOOLEAN : Publish(from[m], Entry(m, "map"), "room", error)
    /\ CallTo(m, "lookup")
    /\ UNCHANGED <<markVars, gotVars>>

\* RoomManager.BroadcastToRoom: GetRoom; the id is made and marked; marshalling
\* fails when the frame, which becomes the raw payload, is no JSON.
RmPrepare(m) ==
    /\ at[m] = "lookup"
    /\ IF from[m] \in has
       THEN /\ Mark(from[m], m)
            /\ CallTo(m, IF what[m].frame \in {"text", "binary"}
                         THEN "refused" ELSE "publish")
       ELSE CallTo(m, "refused") /\ UNCHANGED markVars
    /\ UNCHANGED <<busVars, gotVars>>

\* The message is published and that is all: the call returns.
RmPublish(m) ==
    /\ at[m] = "publish" /\ what[m].op = "room"
    /\ \E error \in BOOLEAN :
          /\ Publish(from[m], Entry(m, "message"), "room", error)
          /\ CallTo(m, IF error THEN "error" ELSE "ok")
    /\ UNCHANGED <<markVars, gotVars>>

\* Room.Broadcast to the members the node has, of the payload as it was marshalled.
RoomBroadcast(n, m) == Hand(n, m, Compact(what[m].frame))

\* processRoomMessage: the map is of another type; a duplicate is ignored; without
\* the room nothing is marked.
HearRoom(n) ==
    LET e == Head(wire[n]["room"]) IN
    /\ loop[n]["room"] = "on" /\ wire[n]["room"] # <<>>
    /\ wire' = [wire EXCEPT ![n]["room"] = Tail(@)]
    /\ IF e.part = "message" /\ n \in has /\ e.msg \notin marked[n]
       THEN RoomBroadcast(n, e.msg) /\ Mark(n, e.msg)
       ELSE UNCHANGED <<markVars, gotVars>>
    /\ UNCHANGED <<rigid, hubVars, loopVars, callVars, sent, repeats>>

-------------------------------------------------------------------------------
Hear(n, t) == \/ t = "broadcast" /\ HearBroadcast(n)
              \/ t = "room" /\ HearRoom(n)

\* A select with the context done may still take a message first.
Subscription(n, t) == \/ Check(n, t) \/ Try(n, t) \/ Backoff(n, t)
                      \/ SeeDone(n, t) \/ SleepOver(n, t) \/ Hear(n, t)

Call(m) == \/ Broadcast(m) \/ MarkOwn(m) \/ PublishBroadcast(m)
           \/ BroadcastToRoom(m) \/ RmPrepare(m) \/ RmPublish(m)

Next == \/ \E n \in Nodes, t \in Topics : \/ Subscription(n, t)
                                          \/ ChannelCloses(n, t) \/ Repeat(n, t)
        \/ \E m \in Msgs : Call(m) \/ Foreign(m)
        \/ \E n \in Nodes : \/ BeginClose(n) \/ EndClose(n)
                            \/ \E i \in Ids : Age(n, i)

\* The goroutines run.  Nobody has to send, to close a hub or a channel.
Fairness == \A n \in Nodes, t \in Topics : WF_vars(Subscription(n, t))

Safety == Init /\ [][Next]_vars
Spec   == Safety /\ Fairness

-------------------------------------------------------------------------------
(* Properties                                                              *)

\* Every variable has its type.
TypeOK ==
    /\ kind \in {"noop", "exact", "wildcard"}
    /\ what \in [Msgs -> [op : Ops, frame : Frames]]
    /\ has \cup up \cup open \subseteq Nodes
    /\ loop \in [Nodes -> [Topics -> {"check", "try", "backoff", "on", "sleep",
                                      "deaf", "gone"}]]
    /\ tries \in [Nodes -> [Topics -> 0 .. Retries]]
    /\ at \in [Msgs -> {"idle", "mark", "publish", "done", "lookup", "refused",
                        "ok", "error"}]
    /\ from \in [Msgs -> Nodes]
    /\ marked \in [Nodes -> SUBSET Ids] /\ stale \in [Nodes -> SUBSET Ids]
    /\ \A n \in Nodes, t \in Topics : \A i \in DOMAIN wire[n][t] : wire[n][t][i] \in sent[t]
    /\ repeats \in 0 .. MaxRepeats

\* Within the TTL of its mark, a message is handed to a node's clients at most once,
\* whether it comes from a call there, from the bus, as the own echo or as a
\* repetition, foreign text excepted, which has no id; all messages without an id
\* share one, so that a node hands over one of them in that time.  What the bus
\* repeats later is handed over again once a cleanup has forgotten the id
\* (hub.go:139-175, 324-363, room.go:224-258, dedup.go:16-18, 68-113).
OncePerTTL == \A n \in Nodes, i \in Ids : recent[n][i] <= 1

\* Clients of every node get a broadcast text as it was sent, and a JSON frame as an
\* equal JSON value, though not in the same spelling; not so a JSON string, which
\* loses its quotes, null its letters, and binary, which becomes base64 text
\* (hub.go:351, 366-385, 150-160).
RemoteSeesFrame ==
    \A n \in Nodes, m \in Msgs : \A i \in DOMAIN got[n][m] :
        what[m].op = "broadcast" /\ what[m].frame \in {"text", "json", "loose"}
            => Compact(got[n][m][i]) = Compact(what[m].frame)

\* While its hub is up, a subscription goroutine subscribes again and again, as
\* often as the bus closes its channel, unless all attempts of a round failed; once
\* the hub is closed it ends, wherever it was (hub.go:83-137, room.go:169-221,
\* retry.go:15-57).
SubscriptionsGoOn ==
    \A n \in Nodes, t \in Topics :
        []<>(loop[n][t] \in IF n \in up THEN {"on", "deaf"} ELSE {"gone", "deaf"})

\* room.go:332, "broadcasts to all clients in the room", and the test
\* internal/integration/room_management_test.go:110-123: after a BroadcastToRoom
\* that returned nil the members on the node itself have the message.
LocalMembersGetIt ==
    \A m \in Msgs : at[m] = "ok" => got[from[m]][m] # <<>>
===============================================================================
