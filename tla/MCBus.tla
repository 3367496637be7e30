--------------------------------- MODULE MCBus ---------------------------------
\* Bus.tla for TLC.  One message published, which on a stream may be taken twice,
\* and one foreign message; two subscriptions under one key or under two; a
\* channel of one place, so that a slow subscriber is met.
EXTENDS Bus

MCInit == /\ Init
          /\ CASE kind = "nats" /\ js -> ts = [s \in Subs |-> s = 1]
               [] kind \in {"nats", "redis"} /\ ~js -> ~ts[1]
               [] OTHER -> \A s \in Subs : ~ts[s]

MCSpec == MCInit /\ [][Next]_vars /\ Fairness
===============================================================================
