----------------------------------- MODULE Bus -----------------------------------
(***************************************************************************)
(* The message bus of a server: createMessageBus (server/server.go) makes  *)
(* one of the three, which then works alone; in `starting` the nodes of a  *)
(* cluster are still inside the constructor of the NATS bus.  Whatever the *)
(* choice, the bus is to implement MessageBus.                             *)
(***************************************************************************)
EXTENDS Naturals, Sequences, FiniteSets

CONSTANTS Subs, Msgs, Foreign, Cap, Batch, MaxDeliver, MaxStream, None,
          Nodes, Names, Tries

ASSUME BusAssumption == /\ Subs \subseteq Nat /\ Foreign \subseteq Msgs
                        /\ None \notin Subs
                        /\ {Cap, Batch, MaxDeliver, MaxStream, Tries} \subseteq Nat \ {0}

VARIABLES kind,  \* cluster.BusType, or "starting"
          bus, pub, ts, loop, current, inbox, out, got,
          js, sender, stopped, live, link, stream,   \* NATS only
          log, cancelled, attached,                              \* Redis only
          name, subjects, step, seen, tried                      \* starting only

Nats  == INSTANCE NatsBus
Redis == INSTANCE RedisBus
Noop  == INSTANCE NoopBus
Setup == INSTANCE NatsSetup

busVars   == <<bus, pub, ts, loop, current, inbox, out, got>>
natsVars  == <<js, sender, stopped, live, link, stream>>
redisVars == <<log, cancelled, attached>>
setupVars == <<name, subjects, step, seen, tried>>
vars == <<kind, busVars, natsVars, redisVars, setupVars>>

\* The bus before it is used; of the variables of the others, any values do.
NatsIdle  == Nats!Init /\ log = <<>> /\ cancelled = {} /\ attached = {}
SetupIdle == /\ name = [n \in Nodes |-> CHOOSE x \in Names : TRUE]
             /\ subjects = {}
             /\ step = [n \in Nodes |-> "info"] /\ seen = [n \in Nodes |-> {}]
             /\ tried = [n \in Nodes |-> 0]

Init == \/ kind = "nats" /\ NatsIdle /\ SetupIdle
        \/ kind \in {"redis", "noop"} /\ NatsIdle /\ ~js /\ SetupIdle
        \/ kind = "starting" /\ NatsIdle /\ js /\ Setup!Init

NatsStep(A)  == kind = "nats" /\ A /\ UNCHANGED <<kind, redisVars, setupVars>>
RedisStep(A) == kind = "redis" /\ A /\ UNCHANGED <<kind, natsVars, setupVars>>

NoopNext  == /\ kind = "noop" /\ Noop!Next
             /\ UNCHANGED <<kind, ts, current, inbox, out, got,
                            natsVars, redisVars, setupVars>>
SetupNext == kind = "starting" /\ Setup!Next
             /\ UNCHANGED <<kind, busVars, natsVars, redisVars>>

Next == NatsStep(Nats!Next) \/ RedisStep(Redis!Next) \/ NoopNext \/ SetupNext

\* The goroutines run, Close goes on; the server answers a Fetch again and again
\* while it has messages (a server that never does is down for good).
Loop(s) == \/ NatsStep(Nats!CoreStop(s) \/ Nats!JsLoop(s))
           \/ RedisStep(Redis!Routine(s))

Fairness ==
    /\ WF_vars(NatsStep(Nats!EndClose))
    /\ \A s \in Subs : WF_vars(Loop(s)) /\ SF_vars(NatsStep(Nats!Fetch(s)))
    /\ WF_vars(NatsStep(\E q \in DOMAIN stream : Nats!Redeliver(q)))

Safety == Init /\ [][Next]_vars
Spec   == Safety /\ Fairness

\* Everything the server has taken, in order.
Taken == IF kind = "redis" THEN log ELSE [q \in DOMAIN stream |-> stream[q].msg]

-------------------------------------------------------------------------------
(* Properties                                                              *)

\* Type correctness of the bus that was made (pkg/bus/nats, pkg/bus/redis).
TypeOK ==
    /\ kind \in {"nats", "redis", "noop", "starting"}
    /\ bus \in {"up", "closing", "closed"}
    /\ pub \in [Msgs -> {"idle", "wait", "ok", "failed"}]
    /\ loop \in [Subs -> {"none", "run", "fetch", "batch", "send", "check",
                          "range", "ended"}]
    /\ current \in [BOOLEAN -> Subs \cup {None}]
    /\ cancelled \cup stopped \cup live \cup attached \subseteq Subs
    /\ \A q \in DOMAIN stream : /\ stream[q].st \in {"ready", "pending", "gone"}
                                /\ stream[q].n \in 0 .. MaxDeliver
    /\ \A s \in Subs : out[s] \in 0 .. Cap /\ got[s] \subseteq DOMAIN Taken

\* What a subscriber sees of it.
Sent    == {Taken[q] : q \in DOMAIN Taken}
Channel == [s \in Subs |-> CASE loop[s] = "none"  -> "none"
                             [] loop[s] = "ended" -> "closed"
                             [] OTHER             -> "open"]
PutOn   == [s \in Subs |-> {Taken[q] : q \in got[s]}]

Promise == INSTANCE MessageBus WITH sent <- Sent, chan <- Channel, put <- PutOn

\* Whichever bus is behind the interface, a channel carries what was published
\* and nothing after it is closed (bus.go:16-31).
ImplementsBus == Promise!Spec

\* On JetStream Publish returns nil only when the stream has the message, however
\* the attempts, lost acknowledgements, the timeout and the goroutine that
\* outlives it interleave (nats/core_pubsub.go:21-130).  On core NATS nil says
\* that the client library has the message and no more (:111).
OkMeansTaken ==
    kind = "nats" /\ js => \A m \in Msgs : pub[m] = "ok" =>
                              \E q \in DOMAIN stream : stream[q].msg = m

\* Until some subscription is stopped, JetStream is not told to forget a message
\* that no subscriber has got, other than one that cannot be decoded
\* (nats/core_pubsub.go:375-430).
NothingForgottenUnread ==
    kind = "nats" /\ js /\ stopped = {} =>
        \A q \in DOMAIN stream : stream[q].st = "gone" =>
            stream[q].msg \in Foreign \/ \E s \in Subs : q \in got[s]

\* Core NATS and Redis copy messages to a channel in the order of publication,
\* each at most once, across lost links and full channels
\* (nats/core_pubsub.go:232-257, redis/subscribe.go:13-67).
InOrderOnce ==
    [][~js => \A s \in Subs : out'[s] > out[s] =>
                  \E new \in got'[s] : \A q \in got[s] : q < new]_vars

\* Another subscription took the place of s in the map, perhaps after its end.
Followed(s) == \E r \in Subs : s < r /\ ts[r] = ts[s] /\ loop[r] # "none"

MustEnd(s) == loop[s] # "none" /\
    \/ kind = "nats" /\ s \notin live /\ (s \in stopped \/ js \/ ~Followed(s))
    \/ kind = "redis" /\ bus = "closed" /\ (s \in cancelled \/ ~Followed(s))

\* Subscribers of a bus that stops learn of it: the channel of every subscription
\* that was stopped is closed, and after Close that of each one, except a core
\* NATS or Redis subscription that another one had replaced in the map
\* (nats.go:267-344, redis.go:179-198).
ChannelsClose ==
    <>[](\A s \in Subs : MustEnd(s) => loop[s] = "ended")

GivenUp(q) == \/ stream[q].st = "gone" \/ stream[q].n = MaxDeliver
              \/ live \subseteq stopped \/ bus # "up"

\* Once publishing is over, every message of a stream with a consumer has been
\* handed over or skipped, unless its deliveries are used up or the subscription
\* stopped (nats/core_pubsub.go:312-431).
HandedOrGivenUp ==
    []<>(kind = "nats" /\ js =>
            \A q \in DOMAIN stream :
                GivenUp(q) \/ \E s \in Subs : q \in got[s])

\* A node that came up loses its subject only to one that had read the stream
\* before the subject was in it and wrote it back afterwards: nodes that
\* start one after the other keep theirs, whatever their names, and so do nodes
\* of one name that start together (nats.go:141-259, the write at :243).
LostOnlyToStaleWrite ==
    kind = "starting" =>
        \A n \in Nodes : step[n] = "ready" /\ name[n] \notin subjects =>
            \E m \in Nodes : /\ step[m] \in {"ready", "failed"}
                            /\ name[m] \in subjects
                            /\ seen[m] # {} /\ name[n] \notin seen[m]
===============================================================================
