-------------------------------- MODULE RedisBus --------------------------------
(***************************************************************************)
(* RedisBus (pkg/bus/redis), one topic: Publish, Subscribe and             *)
(* SubscribeWithTimestamp with the goroutine behind each subscription,     *)
(* Unsubscribe, which only cancels that goroutine's context, and Close.    *)
(*                                                                         *)
(* The server is external: it sends a message to the subscriptions that are*)
(* attached at that moment.  So is the client library's channel of a       *)
(* subscription: it is detached while the link is down, attaches again by  *)
(* itself, and is closed only when the client is.                          *)
(***************************************************************************)
EXTENDS Naturals, Sequences

CONSTANTS Subs,     \* calls of Subscribe, numbered (bounds the model)
          Msgs,     \* calls of Publish, and foreign messages
          Foreign,  \* messages other programs put on the channel
          Cap,      \* capacity of the caller's channel (100 in the code)
          None

VARIABLES bus,      \* "up", "closed"
          pub,      \* how each call of Publish returned
          log,      \* messages the server has taken, in order
          ts,       \* subscriptions made by SubscribeWithTimestamp (chosen at
                    \* the start)
          loop,     \* the goroutine of each subscription
          current,  \* r.subs: key -> subscription whose cancel function it is
          cancelled,\* subscriptions whose context is done
          attached, \* subscriptions the server has
          inbox,    \* msgCh of each subscription
          out,      \* how many messages the caller's channel holds
          got       \* history: what was put on it, until it is closed

vars == <<bus, pub, log, ts, loop, current, cancelled, attached, inbox, out, got>>

Init == /\ bus = "up"
        /\ pub = [m \in Msgs |-> "idle"] /\ log = <<>>
        /\ ts \in [Subs -> BOOLEAN]
        /\ loop = [s \in Subs |-> "none"]
        /\ current = [k \in BOOLEAN |-> None]
        /\ cancelled = {} /\ attached = {}
        /\ inbox = [s \in Subs |-> <<>>] /\ out = [s \in Subs |-> 0]
        /\ got = [s \in Subs |-> {}]

LoopTo(s, label) == loop' = [loop EXCEPT ![s] = label]
HasRoom(s) == out[s] < Cap
Put(s, q) == /\ out' = [out EXCEPT ![s] = @ + 1]
             /\ got' = [got EXCEPT ![s] = @ \cup {q}]
Unreadable(s, q) == ts[s] /\ log[q] \in Foreign

-------------------------------------------------------------------------------
(* Publish, Subscribe, Unsubscribe, Close                                  *)

\* The server sends a message to those attached; a link may lose it.
Store(m) == /\ log' = Append(log, m)
            /\ \E R \in SUBSET attached :
                  inbox' = [s \in Subs |-> IF s \in R
                                           THEN Append(inbox[s], Len(log) + 1)
                                           ELSE inbox[s]]

PublishForeign(m) ==
    /\ m \in Foreign /\ pub[m] = "idle"
    /\ pub' = [pub EXCEPT ![m] = "ok"]
    /\ Store(m)
    /\ UNCHANGED <<bus, ts, loop, current, cancelled, attached, out, got>>

\* PUBLISH is answered, or it fails; it may have been carried out all the same.
Publish(m) ==
    /\ m \notin Foreign /\ pub[m] = "idle"
    /\ \/ /\ bus = "up"
          /\ \E result \in {"ok", "failed"} : pub' = [pub EXCEPT ![m] = result]
          /\ Store(m)
       \/ /\ pub' = [pub EXCEPT ![m] = "failed"]
          /\ UNCHANGED <<log, inbox>>
    /\ UNCHANGED <<bus, ts, loop, current, cancelled, attached, out, got>>

\* Subscribe returns before the server knows of the subscription; the cancel
\* function of an earlier one under the key is overwritten.
AddSubscription(s) ==
    /\ loop[s] = "none" /\ bus = "up"
    /\ \A r \in Subs : r < s => loop[r] # "none"
    /\ LoopTo(s, "check")
    /\ current' = [current EXCEPT ![ts[s]] = s]
    /\ UNCHANGED <<bus, pub, log, ts, cancelled, attached, inbox, out, got>>

Subscribe(s) == ~ts[s] /\ AddSubscription(s)
SubscribeWithTimestamp(s) == ts[s] /\ AddSubscription(s)

\* Unsubscribe cancels the context, nothing else.
Unsubscribe(key) ==
    /\ bus = "up" /\ current[key] # None
    /\ cancelled' = cancelled \cup {current[key]}
    /\ current' = [current EXCEPT ![key] = None]
    /\ UNCHANGED <<bus, pub, log, ts, loop, attached, inbox, out, got>>

\* The caller's context is the parent of the subscription's.
CancelContext(s) ==
    /\ loop[s] # "none" /\ s \notin cancelled
    /\ cancelled' = cancelled \cup {s}
    /\ UNCHANGED <<bus, pub, log, ts, loop, current, attached, inbox, out, got>>

CloseWithoutCancel ==
    /\ bus = "up"
    /\ bus' = "closed"
    /\ current' = [k \in BOOLEAN |-> None]
    /\ attached' = {}
    /\ UNCHANGED <<pub, log, ts, loop, cancelled, inbox, out, got>>

\* Close cancels every subscription in the map and closes the client.
Close ==
    /\ bus = "up"
    /\ bus' = "closed"
    /\ cancelled' = cancelled \cup ({current[k] : k \in BOOLEAN} \ {None})
    /\ current' = [k \in BOOLEAN |-> None]
    /\ attached' = {}
    /\ UNCHANGED <<pub, log, ts, loop, inbox, out, got>>

-------------------------------------------------------------------------------
(* The client library                                                      *)

Attach(s) ==
    /\ loop[s] = "range" /\ bus = "up" /\ s \notin attached
    /\ attached' = attached \cup {s}
    /\ UNCHANGED <<bus, pub, log, ts, loop, current, cancelled, inbox, out, got>>

Detach(s) ==
    /\ s \in attached
    /\ attached' = attached \ {s}
    /\ UNCHANGED <<bus, pub, log, ts, loop, current, cancelled, inbox, out, got>>

-------------------------------------------------------------------------------
(* subscribeRoutine                                                        *)

EndAndGoOn(s) == /\ LoopTo(s, "range")
                 /\ inbox' = [inbox EXCEPT ![s] = <<>>]
                 /\ out' = [out EXCEPT ![s] = 0] /\ got' = [got EXCEPT ![s] = {}]
                 /\ UNCHANGED attached

End(s) == /\ LoopTo(s, "ended")
          /\ attached' = attached \ {s}
          /\ inbox' = [inbox EXCEPT ![s] = <<>>]
          /\ out' = [out EXCEPT ![s] = 0] /\ got' = [got EXCEPT ![s] = {}]

\* The head of the loop: the context, then client.Subscribe and Receive, whose
\* error is logged only.
Enter(s) ==
    /\ loop[s] = "check"
    /\ \/ s \in cancelled /\ End(s)
       \/ /\ s \notin cancelled
          /\ LoopTo(s, "range")
          /\ \/ bus = "up" /\ attached' = attached \cup {s}
             \/ UNCHANGED attached
          /\ UNCHANGED <<inbox, out, got>>
    /\ UNCHANGED <<bus, pub, log, ts, current, cancelled>>

\* One message of the range: the select sends it, drops it when the channel
\* stays full (as a message that cannot be decoded), or returns because the
\* context is done.  The loop's head, reached after a pause, then ends it.
Receive(s) ==
    /\ loop[s] = "range" /\ inbox[s] # <<>>
    /\ inbox' = [inbox EXCEPT ![s] = Tail(@)]
    /\ IF HasRoom(s) /\ ~Unreadable(s, Head(inbox[s]))
       THEN Put(s, Head(inbox[s])) ELSE UNCHANGED <<out, got>>
    /\ UNCHANGED <<bus, pub, log, ts, loop, current, cancelled, attached>>

ReceiveCancelled(s) ==
    /\ loop[s] = "range" /\ inbox[s] # <<>> /\ s \in cancelled
    /\ ~Unreadable(s, Head(inbox[s]))
    /\ LoopTo(s, "check")
    /\ attached' = attached \ {s}
    /\ inbox' = [inbox EXCEPT ![s] = <<>>]
    /\ UNCHANGED <<bus, pub, log, ts, current, cancelled, out, got>>

\* The range is over when the client is closed and nothing is left.
RangeOver(s) ==
    /\ loop[s] = "range" /\ bus = "closed" /\ inbox[s] = <<>>
    /\ LoopTo(s, "check")
    /\ UNCHANGED <<bus, pub, log, ts, current, cancelled, attached, inbox, out, got>>

Take(s) ==
    /\ out[s] > 0
    /\ out' = [out EXCEPT ![s] = @ - 1]
    /\ UNCHANGED <<bus, pub, log, ts, loop, current, cancelled, attached, inbox, got>>

Routine(s) == Enter(s) \/ Receive(s) \/ ReceiveCancelled(s) \/ RangeOver(s)

Next == \/ \E m \in Msgs : Publish(m) \/ PublishForeign(m)
        \/ \E s \in Subs : Subscribe(s) \/ SubscribeWithTimestamp(s)
        \/ \E key \in BOOLEAN : Unsubscribe(key)
        \/ \E s \in Subs : \/ CancelContext(s) \/ Attach(s) \/ Detach(s)
                           \/ Routine(s) \/ Take(s)
        \/ Close
===============================================================================
