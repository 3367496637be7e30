-------------------------------- MODULE NatsBus --------------------------------
(***************************************************************************)
(* NatsBus (pkg/bus/nats), one topic: Publish with its goroutine and its   *)
(* timeout, Subscribe and SubscribeWithTimestamp with the goroutine that   *)
(* copies messages to the caller's channel, the watcher of the caller's    *)
(* context, Unsubscribe and Close.  `js` tells the two modes apart: core   *)
(* NATS, or JetStream with acknowledgements and redelivery.                *)
(*                                                                         *)
(* The server is external: `stream` is the log of what it has taken.  A    *)
(* message published on core NATS is there once the client library has sent*)
(* it, which is after Publish returned, if the link lasts that long.  In   *)
(* JetStream mode its entries are ready, pending at the consumer, or gone  *)
(* (acknowledged: the stream has WorkQueuePolicy, so it has at most one    *)
(* consumer for a subject and forgets what was acknowledged).              *)
(***************************************************************************)
EXTENDS Naturals, Sequences, FiniteSets

CONSTANTS Subs,          \* calls of Subscribe, numbered (bounds the model)
          Msgs,          \* calls of Publish, and foreign messages
          Foreign,       \* messages other programs put on the subject, which
                         \* are no bus.Message
          Cap,           \* capacity of the caller's channel (100 in the code)
          Batch,         \* largest batch Fetch returns (10)
          MaxDeliver,    \* deliveries of a message to one consumer (5)
          MaxStream,     \* messages the server can take (bounds the model)
          None

VARIABLES js,       \* cfg.UseJetStream
          bus,      \* "up", "closing" (Close holds the lock), "closed"
          pub,      \* where each call of Publish is, or how it returned
          sender,   \* the goroutine Publish starts, and what it has found
          ts,       \* subscriptions made by SubscribeWithTimestamp (chosen at
                    \* the start)
          loop,     \* the goroutine of each subscription
          current,  \* n.subs and n.stopChans: key -> subscription
          stopped,  \* subscriptions whose stopCh is closed
          live,     \* subscriptions (consumers) the server has
          link,     \* core mode: messages of Publish in the connection's buffer
          stream,   \* what the server has taken
          inbox,    \* messages received or fetched, not handled: positions
          out,      \* how many messages the caller's channel holds
          got       \* history: what was put on it, until it is closed

vars == <<js, bus, pub, sender, ts, loop, current, stopped,
          live, link, stream, inbox, out, got>>
pubVars  == <<pub, sender, link>>
loopVars == <<ts, current, stopped, live>>
dataVars == <<stream, inbox, out, got>>

Init == /\ js \in BOOLEAN
        /\ bus = "up"
        /\ pub = [m \in Msgs |-> "idle"]
        /\ sender = [m \in Msgs |-> "none"]
        /\ ts \in [Subs -> BOOLEAN]
        /\ loop = [s \in Subs |-> "none"]
        /\ current = [k \in BOOLEAN |-> None]
        /\ stopped = {} /\ live = {}
        /\ link = <<>> /\ stream = <<>>
        /\ inbox = [s \in Subs |-> <<>>] /\ out = [s \in Subs |-> 0]
        /\ got = [s \in Subs |-> {}]

\* n.mu for a writer: no Publish is inside (it holds the read lock until it
\* returns), Close is not under way.
Locked == bus # "closing" /\ \A m \in Msgs : pub[m] # "wait"

LoopTo(s, label) == loop' = [loop EXCEPT ![s] = label]
AlwaysRoom(s) == TRUE
HasRoom(s) == out[s] < Cap
Put(s, q) == /\ out' = [out EXCEPT ![s] = @ + 1]
             /\ got' = [got EXCEPT ![s] = @ \cup {q}]

\* The goroutine returns and closes the channel: nothing about it matters more.
End(s) == /\ LoopTo(s, "ended")
          /\ inbox' = [inbox EXCEPT ![s] = <<>>]
          /\ out' = [out EXCEPT ![s] = 0] /\ got' = [got EXCEPT ![s] = {}]

Held(q) == \E s \in Subs : \E i \in DOMAIN inbox[s] : inbox[s][i] = q
Unreadable(s, q) == ts[s] /\ stream[q].msg \in Foreign

-------------------------------------------------------------------------------
(* The server                                                              *)

Entry(m) == [msg |-> m, st |-> "ready", n |-> 0]

\* Core NATS sends a copy to every subscription it has, unless the link loses
\* it; a stream keeps it.
Store(m) ==
    /\ Len(stream) < MaxStream
    /\ stream' = Append(stream, Entry(m))
    /\ \E R \in IF js THEN {{}} ELSE SUBSET live :
          inbox' = [s \in Subs |-> IF s \in R
                                   THEN Append(inbox[s], Len(stream) + 1)
                                   ELSE inbox[s]]
    /\ UNCHANGED <<out, got>>

\* A consumer is deleted with its subscription: what it had not acknowledged is
\* ready for the next one.
Released(S) ==
    IF js /\ S # {}
    THEN [q \in DOMAIN stream |->
             IF stream[q].st = "gone" THEN stream[q]
             ELSE [stream[q] EXCEPT !.st = "ready", !.n = 0]]
    ELSE stream

\* Ack reaches the server or not; it counts as long as no other consumer got
\* the message.
Acked(s, q) == {stream} \cup
    (IF s \in live \/ stream[q].st = "ready"
     THEN {[stream EXCEPT ![q].st = "gone", ![q].n = 0]} ELSE {})

\* AckWait passes: 60 s, while a loop holds a batch for at most 10 * 300 ms.
Redeliver(q) ==
    /\ js /\ q \in DOMAIN stream /\ stream[q].st = "pending" /\ ~Held(q)
    /\ stream[q].n < MaxDeliver
    /\ stream' = [stream EXCEPT ![q].st = "ready"]
    /\ UNCHANGED <<js, bus, pubVars, loop, loopVars, inbox, out, got>>

PublishForeign(m) ==
    /\ m \in Foreign /\ pub[m] = "idle"
    /\ pub' = [pub EXCEPT ![m] = "ok"]
    /\ Store(m)
    /\ UNCHANGED <<js, bus, sender, link, loop, loopVars>>

-------------------------------------------------------------------------------
(* Publish                                                                 *)

Publish(m) ==
    /\ m \notin Foreign /\ pub[m] = "idle" /\ bus # "closing"
    /\ IF bus = "closed"
       THEN pub' = [pub EXCEPT ![m] = "failed"] /\ UNCHANGED sender
       ELSE /\ pub' = [pub EXCEPT ![m] = "wait"]
            /\ sender' = [sender EXCEPT ![m] = "trying"]
    /\ UNCHANGED <<js, bus, link, loop, loopVars, dataVars>>

\* The goroutine ends; its result is of use to a Publish that still waits.
SenderEnds(m, result) ==
    sender' = [sender EXCEPT ![m] = IF pub[m] = "wait" THEN result ELSE "none"]

TryWithoutAck(m) ==
    /\ sender[m] = "trying" /\ bus # "closed"
    /\ \/ Store(m)
       \/ UNCHANGED dataVars
    /\ SenderEnds(m, "ok")
    /\ UNCHANGED <<js, bus, pub, link, loop, loopVars>>

\* On JetStream the message is taken and the acknowledgement comes back; on core
\* NATS conn.Publish has put it into the connection's buffer, and that is all.
TryOk(m) ==
    /\ sender[m] = "trying" /\ bus # "closed"
    /\ IF js THEN Store(m) /\ UNCHANGED link
             ELSE link' = Append(link, m) /\ UNCHANGED dataVars
    /\ SenderEnds(m, "ok")
    /\ UNCHANGED <<js, bus, pub, loop, loopVars>>

\* The buffer goes out in order, after Close as well (Drain flushes it), or what
\* it holds is lost with the link.
Flush ==
    /\ ~js /\ link # <<>>
    /\ link' = Tail(link)
    /\ Store(Head(link)) \/ UNCHANGED dataVars
    /\ UNCHANGED <<js, bus, pub, sender, loop, loopVars>>

\* An attempt fails.  On JetStream the message may have been taken all the same
\* (the acknowledgement is lost), and there is another attempt unless it was the
\* eighth; any attempt of the model may be that.
TryFails(m) ==
    /\ sender[m] = "trying"
    /\ \/ js /\ bus # "closed" /\ Store(m)
       \/ UNCHANGED dataVars
    /\ \/ js /\ UNCHANGED sender
       \/ SenderEnds(m, "failed")
    /\ UNCHANGED <<js, bus, pub, link, loop, loopVars>>

\* The select of Publish: the goroutine's result, or publishCtx is done; the
\* goroutine goes on by itself in that case.
PublishReturns(m) ==
    /\ pub[m] = "wait"
    /\ \/ /\ sender[m] \in {"ok", "failed"}
          /\ pub' = [pub EXCEPT ![m] = sender[m]]
       \/ pub' = [pub EXCEPT ![m] = "failed"]
    /\ sender' = [sender EXCEPT ![m] = IF @ = "trying" THEN @ ELSE "none"]
    /\ UNCHANGED <<js, bus, link, loop, loopVars, dataVars>>

-------------------------------------------------------------------------------
(* Subscribe, Unsubscribe, Close                                           *)

\* A stream with a consumer refuses another one: the call returns the error and
\* changes nothing.
Accepted == js => live = {}

\* The subscription and its goroutine; the maps' entries for the key are
\* overwritten.
AddSubscription(s) ==
    /\ loop[s] = "none" /\ Locked /\ bus = "up" /\ Accepted
    /\ \A r \in Subs : r < s => loop[r] # "none"
    /\ LoopTo(s, "run")
    /\ current' = [current EXCEPT ![ts[s]] = s]
    /\ live' = live \cup {s}
    /\ UNCHANGED <<js, bus, pubVars, ts, stopped, dataVars>>

Subscribe(s) == ~ts[s] /\ AddSubscription(s)

\* The same under the key of the topic with a suffix.
SubscribeWithTimestamp(s) == ts[s] /\ AddSubscription(s)

\* Unsubscribe of a key: the stop channel is closed and the entries deleted.
EndCurrent(key) ==
    LET S == {current[key]} \ {None} IN
    /\ stopped' = stopped \cup S
    /\ live' = live \ S
    /\ current' = [current EXCEPT ![key] = None]
    /\ stream' = Released(S)

\* Called by the hub, or by the watcher that Subscribe starts, when the context
\* of the subscription it was started for is done: by name, whichever
\* subscription is under it by now.
Unsubscribe(key) ==
    /\ Locked /\ bus = "up" /\ current[key] # None
    /\ EndCurrent(key)
    /\ UNCHANGED <<js, bus, pubVars, ts, loop, inbox, out, got>>

BeginClose ==
    /\ Locked /\ bus = "up"
    /\ bus' = "closing"
    /\ stopped' = stopped \cup ({current[k] : k \in BOOLEAN} \ {None})
    /\ UNCHANGED <<js, pubVars, ts, loop, current, live, dataVars>>

\* After the pause the subscriptions end, the maps are emptied and the
\* connection is drained, with what it still carries of other subscriptions.
EndClose ==
    /\ bus = "closing"
    /\ bus' = "closed"
    /\ live' = {}
    /\ current' = [k \in BOOLEAN |-> None]
    /\ stream' = Released(live)
    /\ UNCHANGED <<js, pubVars, ts, loop, stopped, inbox, out, got>>

-------------------------------------------------------------------------------
(* The goroutine of a core subscription                                    *)

CoreStop(s) ==
    /\ ~js /\ loop[s] = "run" /\ s \in stopped /\ End(s)
    /\ UNCHANGED <<js, bus, pubVars, ts, current, stopped, live, stream>>

ReceiveNewest(s) ==
    LET last == Len(inbox[s]) IN
    /\ ~js /\ loop[s] = "run" /\ inbox[s] # <<>> /\ HasRoom(s)
    /\ Put(s, inbox[s][last])
    /\ inbox' = [inbox EXCEPT ![s] = SubSeq(@, 1, last - 1)]
    /\ UNCHANGED <<js, bus, pubVars, loop, loopVars, stream>>

\* A message is handed over, or dropped: it cannot be decoded, or the channel
\* stays full for OpTimeout.
CoreReceive(s) ==
    /\ ~js /\ loop[s] = "run" /\ inbox[s] # <<>>
    /\ inbox' = [inbox EXCEPT ![s] = Tail(@)]
    /\ IF HasRoom(s) /\ ~Unreadable(s, Head(inbox[s]))
       THEN Put(s, Head(inbox[s])) ELSE UNCHANGED <<out, got>>
    /\ UNCHANGED <<js, bus, pubVars, loop, loopVars, stream>>

-------------------------------------------------------------------------------
(* The goroutine of a JetStream subscription                               *)

\* The stop channel is looked at before every Fetch ...
JsCheckStop(s) ==
    /\ js /\ loop[s] = "run"
    /\ IF s \in stopped THEN End(s)
       ELSE LoopTo(s, "fetch") /\ UNCHANGED <<inbox, out, got>>
    /\ UNCHANGED <<js, bus, pubVars, ts, current, stopped, live, stream>>

\* ... which returns the oldest messages that are ready,
Fetch(s) ==
    LET ready == {q \in DOMAIN stream : stream[q].st = "ready"}
        batch == {q \in ready : Cardinality({r \in ready : r < q}) < Batch}
    IN  /\ js /\ loop[s] = "fetch" /\ s \in live /\ ready # {}
        /\ stream' = [q \in DOMAIN stream |->
                         IF q \in batch
                         THEN [stream[q] EXCEPT !.st = "pending", !.n = @ + 1]
                         ELSE stream[q]]
        /\ inbox' = [inbox EXCEPT ![s] =
              CHOOSE f \in [1 .. Cardinality(batch) -> batch] :
                  \A i, j \in DOMAIN f : i < j => f[i] < f[j]]
        /\ LoopTo(s, "batch")
        /\ UNCHANGED <<js, bus, pubVars, loopVars, out, got>>

\* ... or times out or fails: the loop goes round again, unless the connection
\* or the subscription is gone.
FetchFails(s) ==
    /\ js /\ loop[s] = "fetch"
    /\ IF s \notin live THEN End(s)
       ELSE LoopTo(s, "run") /\ UNCHANGED <<inbox, out, got>>
    /\ UNCHANGED <<js, bus, pubVars, ts, current, stopped, live, stream>>

\* Each message of the batch.  A stop is seen before it: it is acknowledged
\* without being handed over, and the loop ends with the rest of the batch.
JsStopInBatch(s) ==
    /\ loop[s] \in {"batch", "send"} /\ s \in stopped
    /\ End(s)
    /\ stream' \in Acked(s, Head(inbox[s]))
    /\ UNCHANGED <<js, bus, pubVars, ts, current, stopped, live>>

\* The message at the head of the batch is done with.
NextInBatch(s) ==
    /\ inbox' = [inbox EXCEPT ![s] = Tail(@)]
    /\ LoopTo(s, IF Len(inbox[s]) = 1 THEN "run" ELSE "batch")

SkipUnreadable(s) ==
    /\ loop[s] = "batch" /\ s \notin stopped
    /\ Unreadable(s, Head(inbox[s]))
    /\ stream' \in Acked(s, Head(inbox[s]))
    /\ NextInBatch(s)
    /\ UNCHANGED <<js, bus, pubVars, loopVars, out, got>>

\* The channel takes the message, at once or after a wait; only then is it
\* acknowledged.
Send(s) ==
    LET q == Head(inbox[s]) IN
    /\ \/ loop[s] = "batch" /\ s \notin stopped /\ ~Unreadable(s, q)
       \/ loop[s] = "send"
    /\ HasRoom(s)
    /\ Put(s, q)
    /\ stream' \in Acked(s, q)
    /\ NextInBatch(s)
    /\ UNCHANGED <<js, bus, pubVars, loopVars>>

WaitForRoom(s) ==
    /\ loop[s] = "batch" /\ s \notin stopped /\ ~HasRoom(s)
    /\ ~Unreadable(s, Head(inbox[s]))
    /\ LoopTo(s, "send")
    /\ UNCHANGED <<js, bus, pubVars, loopVars, dataVars>>

AckUnsent(s) ==
    /\ loop[s] = "send" /\ ~HasRoom(s)
    /\ stream' \in Acked(s, Head(inbox[s]))
    /\ NextInBatch(s)
    /\ UNCHANGED <<js, bus, pubVars, loopVars, out, got>>

SendForever(s) == loop[s] = "send" /\ ~HasRoom(s) /\ UNCHANGED vars

\* The channel stays full for 300 ms: NakWithDelay, the server has it again.
SendTimeout(s) ==
    LET q == Head(inbox[s]) IN
    /\ loop[s] = "send" /\ ~HasRoom(s)
    /\ stream' = IF s \in live /\ stream[q].n < MaxDeliver
                 THEN [stream EXCEPT ![q].st = "ready"] ELSE stream
    /\ NextInBatch(s)
    /\ UNCHANGED <<js, bus, pubVars, loopVars, out, got>>

\* The caller takes a message from its channel.
Take(s) ==
    /\ out[s] > 0
    /\ out' = [out EXCEPT ![s] = @ - 1]
    /\ UNCHANGED <<js, bus, pubVars, loop, loopVars, stream, inbox, got>>

-------------------------------------------------------------------------------
Publishing(m) == Publish(m) \/ TryOk(m) \/ TryFails(m) \/ PublishReturns(m)

CoreLoop(s) == CoreStop(s) \/ CoreReceive(s)

JsLoop(s) == \/ JsCheckStop(s) \/ Fetch(s) \/ FetchFails(s)
             \/ JsStopInBatch(s) \/ SkipUnreadable(s) \/ Send(s)
             \/ WaitForRoom(s) \/ SendTimeout(s)

Next == \/ \E m \in Msgs : PublishForeign(m) \/ Publishing(m)
        \/ Flush
        \/ \E s \in Subs : Subscribe(s) \/ SubscribeWithTimestamp(s)
        \/ \E key \in BOOLEAN : Unsubscribe(key)
        \/ \E s \in Subs : CoreLoop(s) \/ JsLoop(s) \/ Take(s)
        \/ \E q \in DOMAIN stream : Redeliver(q)
        \/ BeginClose \/ EndClose

Safety == Init /\ [][Next]_vars
===============================================================================
