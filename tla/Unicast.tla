--------------------------------- MODULE Unicast ---------------------------------
(***************************************************************************)
(* Unicast messages (pkg/hub/hub.go): the worker subscribeClientUnicast    *)
(* that every Register starts, the bus subscription behind it and Push,    *)
(* together with the client table: every action of Registry is here with   *)
(* what it does to the bus.                                                *)
(*                                                                         *)
(* The bus is as RedisBus and, in core mode, NatsBus keep it: a map from   *)
(* topic to the last subscription made. An earlier one that was            *)
(* overwritten goes on hearing the topic, and Unsubscribe ends the one in  *)
(* the map. It never repeats a message, as JetStream may.                  *)
(***************************************************************************)
EXTENDS Registry, Sequences

CONSTANTS Msgs,    \* messages pushed (bounds the model)
          Retries  \* retries of RetryWithBackoff (5)

ASSUME UnicastAssumption == IsFiniteSet(Conns) /\ Retries \in Nat \ {0}

VARIABLES worker,   \* the goroutine that Register started for each connection:
                    \* it reads a channel when "on" and, once the bus has closed
                    \* the channel, "cut"
          tries,    \* its failed attempts to subscribe in this round
          queue,    \* what the channel it reads holds
          current,  \* the bus's map: id of the topic -> whose subscription
          push,     \* the id each message was pushed to
          handed    \* history: how often each message was handed to a client

workerVars  == <<worker, tries, queue, current>>
unicastVars == <<workerVars, push, handed>>
uvars == <<vars, unicastVars>>

UInit == /\ Init
         /\ worker = [c \in Conns |-> "none"] /\ tries = [c \in Conns |-> 0]
         /\ queue = [c \in Conns |-> <<>>]
         /\ current = [i \in Ids |-> None]
         /\ push = [m \in Msgs |-> None] /\ handed = [m \in Msgs |-> 0]

WorkerTo(c, label) == worker' = [worker EXCEPT ![c] = label]

-------------------------------------------------------------------------------
(* What the steps of Registry do to the bus                                *)

BusUnsubscribeKeeps(i) ==
    /\ worker' = [c \in Conns |-> IF c = current[i] /\ worker[c] = "on"
                                  THEN "cut" ELSE worker[c]]
    /\ UNCHANGED <<tries, queue, current, push, handed>>

\* bus.Unsubscribe(topic): the subscription in the map ends, which its worker
\* sees if it still reads it.
BusUnsubscribe(i) ==
    /\ worker' = [c \in Conns |-> IF c = current[i] /\ worker[c] = "on"
                                  THEN "cut" ELSE worker[c]]
    /\ current' = [current EXCEPT ![i] = None]
    /\ UNCHANGED <<tries, queue, push, handed>>

CleanUpOld(c) == UnsubscribeOld(c) /\ BusUnsubscribe(id[c])
CleanUpOwn(c) == UnsubscribeOwn(c) /\ BusUnsubscribe(id[c])

StartWorker(c) ==
    /\ StartUnicast(c)
    /\ WorkerTo(c, "check")
    /\ UNCHANGED <<tries, queue, current, push, handed>>

USetup(c) == \/ CleanUpOld(c) \/ StartWorker(c)
             \/ /\ \/ RegisterNew(c) \/ RegisterLoaded(c) \/ ShutdownOld(c)
                   \/ OldShutdownReturns(c) \/ StoreReplacement(c)
                   \/ AnnounceConnected(c)
                /\ UNCHANGED unicastVars

UOnceBody(c) == \/ CleanUpOwn(c)
                \/ /\ Unregister(c) \/ AnnounceDisconnected(c) \/ CloseConn(c)
                   /\ UNCHANGED unicastVars

UCloseHub == CloseHub /\ UNCHANGED unicastVars

-------------------------------------------------------------------------------
(* subscribeClientUnicast                                                  *)

\* The head of the loop: the hub's context, then the client table.
Check(c) ==
    /\ worker[c] = "check"
    /\ WorkerTo(c, IF (hub # "up" \/ clients[id[c]] = None) THEN "gone" ELSE "try")
    /\ tries' = [tries EXCEPT ![c] = 0]
    /\ UNCHANGED <<vars, queue, current, push, handed>>

\* bus.Subscribe, at first or as a retry.
Try(c) ==
    /\ worker[c] = "try"
    /\ \/ /\ hub # "closed"
          /\ WorkerTo(c, "on")
          /\ queue' = [queue EXCEPT ![c] = <<>>]
          /\ current' = [current EXCEPT ![id[c]] = c]
          /\ tries' = [tries EXCEPT ![c] = 0]
       \/ /\ WorkerTo(c, IF tries[c] < Retries THEN "backoff" ELSE "deaf")
          /\ tries' = [tries EXCEPT ![c] = IF @ < Retries THEN @ + 1 ELSE 0]
          /\ UNCHANGED <<queue, current>>
    /\ UNCHANGED <<vars, push, handed>>

Backoff(c) ==
    /\ worker[c] = "backoff"
    /\ \/ WorkerTo(c, "try")
       \/ hub # "up" /\ WorkerTo(c, "gone")
    /\ UNCHANGED <<vars, tries, queue, current, push, handed>>

\* processUnicastMessages: whoever holds the id by now is sent the message; with
\* nobody there the message is lost and the channel left as it is.
Deliver(c) ==
    LET holder == clients[id[c]] IN
    /\ worker[c] \in {"on", "cut"} /\ queue[c] # <<>>
    /\ IF holder = None
       THEN /\ WorkerTo(c, "sleep")
            /\ queue' = [queue EXCEPT ![c] = <<>>]
            /\ UNCHANGED handed
       ELSE /\ queue' = [queue EXCEPT ![c] = Tail(@)]
            /\ handed' = [handed EXCEPT ![Head(queue[c])] =
                             IF life[holder] = "open" THEN @ + 1 ELSE @]
            /\ UNCHANGED worker
    /\ UNCHANGED <<vars, tries, current, push>>

\* The channel is closed and read.
EndAtClosed(c) ==
    /\ worker[c] = "cut" /\ queue[c] = <<>>
    /\ WorkerTo(c, "gone")
    /\ UNCHANGED <<vars, tries, queue, current, push, handed>>

SeeClosed(c) ==
    /\ worker[c] = "cut" /\ queue[c] = <<>>
    /\ WorkerTo(c, "sleep")
    /\ UNCHANGED <<vars, tries, queue, current, push, handed>>

SleepOver(c) ==
    /\ worker[c] = "sleep"
    /\ WorkerTo(c, "check")
    /\ UNCHANGED <<vars, tries, queue, current, push, handed>>

SeeDone(c) ==
    /\ worker[c] \in {"on", "cut"} /\ hub # "up"
    /\ WorkerTo(c, "gone")
    /\ queue' = [queue EXCEPT ![c] = <<>>]
    /\ UNCHANGED <<vars, tries, current, push, handed>>

-------------------------------------------------------------------------------
(* Push                                                                    *)

PushBoth(m, i) ==
    /\ push[m] = None /\ clients[i] # None
    /\ push' = [push EXCEPT ![m] = i]
    /\ handed' = [handed EXCEPT ![m] = IF life[clients[i]] = "open" THEN 1 ELSE 0]
    /\ queue' = [c \in Conns |-> IF id[c] = i /\ worker[c] = "on"
                                 THEN Append(queue[c], m) ELSE queue[c]]
    /\ UNCHANGED <<vars, worker, tries, current>>

\* To a client of this node directly; otherwise, or on another node, through the
\* bus, which reaches some of the subscriptions to the topic, or fails.
PushLocal(m, i) ==
    /\ push[m] = None /\ clients[i] # None
    /\ push' = [push EXCEPT ![m] = i]
    /\ handed' = [handed EXCEPT ![m] = IF life[clients[i]] = "open" THEN 1 ELSE 0]
    /\ UNCHANGED <<vars, workerVars>>

PushRemote(m, i) ==
    /\ push[m] = None
    /\ \E R \in SUBSET {c \in Conns : id[c] = i /\ worker[c] = "on"} :
          queue' = [c \in Conns |-> IF c \in R THEN Append(queue[c], m) ELSE queue[c]]
    /\ push' = [push EXCEPT ![m] = i]
    /\ UNCHANGED <<vars, worker, tries, current, handed>>

-------------------------------------------------------------------------------
Worker(c) == \/ Check(c) \/ Try(c) \/ Backoff(c) \/ Deliver(c)
             \/ SeeClosed(c) \/ SleepOver(c) \/ SeeDone(c)

UNext == \/ \E c \in Conns : \/ /\ NewClient(c) \/ Fail(c)
                                /\ UNCHANGED unicastVars
                             \/ USetup(c) \/ UOnceBody(c) \/ Worker(c)
         \/ BeginClose /\ UNCHANGED unicastVars
         \/ UCloseHub
         \/ \E m \in Msgs, i \in Ids : PushLocal(m, i) \/ PushRemote(m, i)

\* As in Registry, and the workers run.
UFairness == /\ \A c \in Conns : /\ WF_uvars(USetup(c)) /\ WF_uvars(UOnceBody(c))
                                 /\ WF_uvars(Worker(c))
             /\ WF_uvars(UCloseHub)

UnicastSafety == UInit /\ [][UNext]_uvars
UnicastSpec   == UnicastSafety /\ UFairness

-------------------------------------------------------------------------------
(* Properties                                                              *)

\* Every variable of this module has its type, and the map names subscriptions
\* of its topic.
UnicastTypeOK ==
    /\ worker \in [Conns -> {"none", "check", "try", "backoff", "on", "cut",
                             "sleep", "deaf", "gone"}]
    /\ tries \in [Conns -> 0 .. Retries]
    /\ \A i \in Ids : current[i] # None => id[current[i]] = i
    /\ \A c \in Conns : worker[c] = "cut" => current[id[c]] # c
    /\ push \in [Msgs -> Ids \cup {None}] /\ handed \in [Msgs -> Nat]

\* A message is handed over once by each worker at most, however often workers
\* subscribe again, and a worker is started for each connection made under the id:
\* Push hands it over itself or leaves it to the bus, never both, and a worker
\* that reconnects left behind may repeat what its successor hands over, over a
\* bus that gives every subscription a message once (hub.go:203-322).
OncePerWorker ==
    \A m \in Msgs :
        push[m] # None => handed[m] <= Cardinality({c \in Conns : id[c] = push[m]})

Served(i) == \E c \in Conns : id[c] = i /\ worker[c] = "on"
Deaf(i)   == \E c \in Conns : id[c] = i /\ worker[c] = "deaf"

\* In the end, while the hub is up, a client in the table has a worker with a
\* subscription, although the Unsubscribe of a connection that fails ends whatever
\* subscription the id has by then, unless the attempts to subscribe were used up;
\* once the hub is closed every worker ends (hub.go:181-300).
ClientsAreServed ==
    <>[](IF hub = "up"
         THEN \A i \in Ids : (clients[i] # None /\ setup[clients[i]] = "done")
                                => (Served(i) \/ Deaf(i))
         ELSE \A c \in Conns : worker[c] \in {"none", "deaf", "gone"})
===============================================================================
