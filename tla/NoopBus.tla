-------------------------------- MODULE NoopBus --------------------------------
(***************************************************************************)
(* NoopBus (pkg/bus/noop), the bus of a node that is alone: publishing     *)
(* drops the message, a subscription is a channel nobody ever writes to or *)
(* closes, Unsubscribe leaves it alone.                                    *)
(***************************************************************************)
CONSTANTS Subs, Msgs

VARIABLES bus,   \* "up", "closed"
          pub,   \* how each call of Publish returned
          loop   \* subscriptions made

vars == <<bus, pub, loop>>

Init == /\ bus = "up"
        /\ pub = [m \in Msgs |-> "idle"]
        /\ loop = [s \in Subs |-> "none"]

Publish(m) == /\ pub[m] = "idle"
              /\ pub' = [pub EXCEPT ![m] = IF bus = "closed" THEN "failed" ELSE "ok"]
              /\ UNCHANGED <<bus, loop>>

Subscribe(s) == /\ loop[s] = "none" /\ bus = "up"
                /\ loop' = [loop EXCEPT ![s] = "run"]
                /\ UNCHANGED <<bus, pub>>

Close == bus = "up" /\ bus' = "closed" /\ UNCHANGED <<pub, loop>>

Next == \/ \E m \in Msgs : Publish(m)
        \/ \E s \in Subs : Subscribe(s)
        \/ Close
===============================================================================
