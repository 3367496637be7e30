------------------------------ MODULE MessageBus ------------------------------
(***************************************************************************)
(* What the interface of pkg/bus/bus.go promises to a subscriber, whichever*)
(* implementation is behind it: the channel it got from Subscribe carries  *)
(* messages that somebody published, and once it is closed nothing more.   *)
(* Messages may be lost; a persistent bus may deliver one again.           *)
(***************************************************************************)
CONSTANTS Subs,   \* subscriptions: one for each call of Subscribe
          Msgs    \* messages

VARIABLES sent,   \* messages the bus has taken
          chan,   \* each subscription's channel: "none", "open", "closed"
          put     \* messages that have been put on each open channel

vars == <<sent, chan, put>>

Init == /\ sent = {}
        /\ chan = [s \in Subs |-> "none"]
        /\ put = [s \in Subs |-> {}]

Publish(m) == /\ sent' = sent \cup {m}
              /\ UNCHANGED <<chan, put>>

Subscribe(s) == /\ chan[s] = "none"
                /\ chan' = [chan EXCEPT ![s] = "open"]
                /\ UNCHANGED <<sent, put>>

Deliver(s, m) == /\ chan[s] = "open" /\ m \in sent
                 /\ put' = [put EXCEPT ![s] = @ \cup {m}]
                 /\ UNCHANGED <<sent, chan>>

CloseChannel(s) == /\ chan[s] = "open"
                   /\ chan' = [chan EXCEPT ![s] = "closed"]
                   /\ put' = [put EXCEPT ![s] = {}]
                   /\ UNCHANGED sent

Next == \/ \E m \in Msgs : Publish(m)
        \/ \E s \in Subs : Subscribe(s) \/ CloseChannel(s)
        \/ \E s \in Subs, m \in Msgs : Deliver(s, m)

Spec == Init /\ [][Next]_vars
===============================================================================
