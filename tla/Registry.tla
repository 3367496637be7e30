------------------------------- MODULE Registry -------------------------------
(***************************************************************************)
(* The hub's table of clients: Hub.clients with Register, Unregister and   *)
(* Close (pkg/hub/hub.go), driven by Server.setupClient and its onClose    *)
(* callback (server/server.go).                                            *)
(*                                                                         *)
(* Every connection has two actors.  `setup` is the HTTP handler that runs *)
(* setupClient: NewClient, Register, metrics, event.  `life` is the body   *)
(* of the connection's sync.Once, run by whichever goroutine shuts the     *)
(* connection down first; others that call shutdown() wait for "closed",   *)
(* as ClientProofs!BarrierCorrect establishes.  NewClient starts the loops *)
(* before Register is called, so life may advance ahead of setup.          *)
(***************************************************************************)
EXTENDS Integers, FiniteSets

CONSTANTS Conns,     \* connections that may be made (bounds the model)
          Ids,       \* client ids
          None,      \* no connection / no id
          OwnIds     \* those that generateClientID makes up (uuids), one for
                     \* each connection; the rest come from claims or the query
                     \* and may repeat

ASSUME RegistryAssumption == /\ None \notin Conns \cup Ids
                             /\ OwnIds \subseteq Ids

VARIABLES setup,    \* where setupClient is, for each connection
          life,     \* where the connection's shutdown() is
          id,       \* the client id of each connection
          clients,  \* Hub.clients: id -> connection
          old,      \* oldClient: the connection Register found under its id
          gauge,    \* the connected-clients metric
          hub,      \* Hub.Close: "up", "closing", "closed"
          pending,  \* ids the Range of Close still owes a visit
          visited,  \* ids the Range of Close has visited
          visiting, \* the connection Close is shutting down
          stored,   \* history: connections that were put into clients
          atClose,  \* history: connections in the table when Close began
          early,    \* history: connections whose onClose ran Unregister before
                    \* they were put into clients
          overlap   \* history: ids under which a connection was made while the
                    \* Register of another was under way

vars == <<setup, life, id, clients, old, gauge, hub, pending, visited,
          visiting, stored, atClose, early, overlap>>

Init == /\ setup = [c \in Conns |-> "none"]
        /\ life = [c \in Conns |-> "none"]
        /\ id = [c \in Conns |-> None]
        /\ clients = [i \in Ids |-> None]
        /\ old = [c \in Conns |-> None]
        /\ gauge = 0
        /\ hub = "up" /\ pending = {} /\ visited = {} /\ visiting = None
        /\ stored = {} /\ atClose = {} /\ early = {} /\ overlap = {}

SetupTo(c, label) == setup' = [setup EXCEPT ![c] = label]
LifeTo(c, label)  == life' = [life EXCEPT ![c] = label]

-------------------------------------------------------------------------------
(* setupClient                                                             *)

\* d, made under i, is not in the table yet.
Registering(d, i) ==
    id[d] = i /\ setup[d] \in {"register", "replace", "unsubscribe", "store"}

\* generateClientID and NewClient: from here on the connection may fail.
NewClient(c) ==
    /\ setup[c] = "none"
    /\ \E i \in Ids : /\ i \in OwnIds => \A d \in Conns : id[d] # i
                      /\ id' = [id EXCEPT ![c] = i]
                      /\ overlap' = IF \E d \in Conns : Registering(d, i)
                                    THEN overlap \cup {i} ELSE overlap
    /\ SetupTo(c, "register")
    /\ LifeTo(c, "open")
    /\ UNCHANGED <<clients, old, gauge, hub, pending, visited, visiting,
                   stored, atClose, early>>

\* Register: LoadOrStore stored the connection.
RegisterNew(c) ==
    /\ setup[c] = "register" /\ clients[id[c]] = None
    /\ clients' = [clients EXCEPT ![id[c]] = c]
    /\ stored' = stored \cup {c}
    /\ SetupTo(c, "subscribe")
    /\ UNCHANGED <<life, id, old, gauge, hub, pending, visited, visiting,
                   atClose, early, overlap>>

RegisterLoadsKey(c) ==
    /\ setup[c] = "register" /\ clients[id[c]] # None
    /\ old' = [old EXCEPT ![c] = id[c]]
    /\ SetupTo(c, "replace")
    /\ UNCHANGED <<life, id, clients, gauge, hub, pending, visited, visiting,
                   stored, atClose, early, overlap>>

\* Register: LoadOrStore loaded the connection to be replaced.
RegisterLoaded(c) ==
    /\ setup[c] = "register" /\ clients[id[c]] # None
    /\ old' = [old EXCEPT ![c] = clients[id[c]]]
    /\ SetupTo(c, "replace")
    /\ UNCHANGED <<life, id, clients, gauge, hub, pending, visited, visiting,
                   stored, atClose, early, overlap>>

\* oldC.shutdown() enters the Once of the old connection ...
ShutdownOld(c) ==
    /\ setup[c] = "replace" /\ life[old[c]] = "open"
    /\ LifeTo(old[c], "onclose")
    /\ UNCHANGED <<setup, id, clients, old, gauge, hub, pending, visited,
                   visiting, stored, atClose, early, overlap>>

OldShutdownBegun(c) ==
    /\ setup[c] = "replace" /\ life[old[c]] # "open"
    /\ SetupTo(c, "unsubscribe")
    /\ UNCHANGED <<life, id, clients, old, gauge, hub, pending, visited,
                   visiting, stored, atClose, early, overlap>>

\* ... and returns when that Once is over.
OldShutdownReturns(c) ==
    /\ setup[c] = "replace" /\ life[old[c]] = "closed"
    /\ SetupTo(c, "unsubscribe")
    /\ UNCHANGED <<life, id, clients, old, gauge, hub, pending, visited,
                   visiting, stored, atClose, early, overlap>>

\* bus.Unsubscribe of the id's unicast topic.
UnsubscribeOld(c) ==
    /\ setup[c] = "unsubscribe"
    /\ SetupTo(c, "store")
    /\ UNCHANGED <<life, id, clients, old, gauge, hub, pending, visited,
                   visiting, stored, atClose, early, overlap>>

\* clients.Store: whatever is under the id by now is overwritten.
StoreReplacement(c) ==
    /\ setup[c] = "store"
    /\ clients' = [clients EXCEPT ![id[c]] = c]
    /\ stored' = stored \cup {c}
    /\ SetupTo(c, "subscribe")
    /\ UNCHANGED <<life, id, old, gauge, hub, pending, visited, visiting,
                   atClose, early, overlap>>

\* go subscribeClientUnicast; Register returns.
StartUnicast(c) ==
    /\ setup[c] = "subscribe"
    /\ SetupTo(c, "connected")
    /\ UNCHANGED <<life, id, clients, old, gauge, hub, pending, visited,
                   visiting, stored, atClose, early, overlap>>

\* metrics.ClientConnected and the connected event.
AnnounceConnected(c) ==
    /\ setup[c] = "connected"
    /\ gauge' = gauge + 1
    /\ SetupTo(c, "done")
    /\ UNCHANGED <<life, id, clients, old, hub, pending, visited, visiting,
                   stored, atClose, early, overlap>>

-------------------------------------------------------------------------------
(* shutdown() of one connection                                            *)

\* A loop ended, or the SDK disconnects the client: shutdown() begins.
Fail(c) ==
    /\ life[c] = "open"
    /\ LifeTo(c, "onclose")
    /\ UNCHANGED <<setup, id, clients, old, gauge, hub, pending, visited,
                   visiting, stored, atClose, early, overlap>>

UnregisterLeavesEntry(c) ==
    /\ life[c] = "onclose"
    /\ LifeTo(c, "unsubscribe")
    /\ early' = IF c \in stored THEN early ELSE early \cup {c}
    /\ UNCHANGED <<setup, id, clients, old, gauge, hub, pending, visited,
                   visiting, stored, atClose, overlap>>

UnregisterUnderLock(c) ==
    /\ life[c] = "onclose"
    /\ hub # "closing" /\ \A d \in Conns : setup[d] # "replace"
    /\ clients' = [clients EXCEPT ![id[c]] = None]
    /\ pending' = pending \ {id[c]}
    /\ LifeTo(c, IF clients[id[c]] # None THEN "unsubscribe" ELSE "disconnected")
    /\ early' = IF c \in stored THEN early ELSE early \cup {c}
    /\ UNCHANGED <<setup, id, old, gauge, hub, visited, visiting, stored,
                   atClose, overlap>>

\* onClose calls Unregister(id): LoadAndDelete removes the id's entry, whoever
\* it belongs to.
Unregister(c) ==
    /\ life[c] = "onclose"
    /\ clients' = [clients EXCEPT ![id[c]] = None]
    /\ pending' = pending \ {id[c]}
    /\ LifeTo(c, IF clients[id[c]] # None THEN "unsubscribe" ELSE "disconnected")
    /\ early' = IF c \in stored THEN early ELSE early \cup {c}
    /\ UNCHANGED <<setup, id, old, gauge, hub, visited, visiting, stored,
                   atClose, overlap>>

\* ... and, if there was one, bus.Unsubscribe of the id's unicast topic.
UnsubscribeOwn(c) ==
    /\ life[c] = "unsubscribe"
    /\ LifeTo(c, "disconnected")
    /\ UNCHANGED <<setup, id, clients, old, gauge, hub, pending, visited,
                   visiting, stored, atClose, early, overlap>>

DisconnectedUncounted(c) ==
    /\ life[c] = "disconnected"
    /\ gauge' = IF clients[id[c]] = None THEN gauge - 1 ELSE gauge
    /\ LifeTo(c, "close")
    /\ UNCHANGED <<setup, id, clients, old, hub, pending, visited, visiting,
                   stored, atClose, early, overlap>>

\* metrics.ClientDisconnected and the disconnected event.
AnnounceDisconnected(c) ==
    /\ life[c] = "disconnected"
    /\ gauge' = gauge - 1
    /\ LifeTo(c, "close")
    /\ UNCHANGED <<setup, id, clients, old, hub, pending, visited, visiting,
                   stored, atClose, early, overlap>>

\* conn.Close(); the Once is over.
CloseConn(c) ==
    /\ life[c] = "close"
    /\ LifeTo(c, "closed")
    /\ UNCHANGED <<setup, id, clients, old, gauge, hub, pending, visited,
                   visiting, stored, atClose, early, overlap>>

-------------------------------------------------------------------------------
(* Hub.Close                                                               *)

\* sync.Map.Range visits every id that is present all along, at most once; an
\* id stored meanwhile, or deleted and stored again, may be visited or not.
BeginClose ==
    /\ hub = "up"
    /\ hub' = "closing"
    /\ pending' = {i \in Ids : clients[i] # None}
    /\ atClose' = {c \in Conns : \E i \in Ids : clients[i] = c}
    /\ UNCHANGED <<setup, life, id, clients, old, gauge, visited, visiting,
                   stored, early, overlap>>

VisitClient(i) ==
    /\ hub = "closing" /\ visiting = None
    /\ i \notin visited /\ clients[i] # None
    /\ visiting' = clients[i]
    /\ visited' = visited \cup {i}
    /\ pending' = pending \ {i}
    /\ UNCHANGED <<setup, life, id, clients, old, gauge, hub, stored, atClose,
                   early, overlap>>

\* client.shutdown() enters the visited connection's Once ...
ShutdownVisited ==
    /\ visiting # None /\ life[visiting] = "open"
    /\ LifeTo(visiting, "onclose")
    /\ UNCHANGED <<setup, id, clients, old, gauge, hub, pending, visited,
                   visiting, stored, atClose, early, overlap>>

SkipVisited ==
    /\ visiting # None
    /\ visiting' = None
    /\ UNCHANGED <<setup, life, id, clients, old, gauge, hub, pending,
                   visited, stored, atClose, early, overlap>>

\* ... and returns when it is over.
VisitedReturns ==
    /\ visiting # None /\ life[visiting] = "closed"
    /\ visiting' = None
    /\ UNCHANGED <<setup, life, id, clients, old, gauge, hub, pending,
                   visited, stored, atClose, early, overlap>>

\* The Range is over; Close goes on to the rooms and the bus and returns.
EndClose ==
    /\ hub = "closing" /\ visiting = None /\ pending = {}
    /\ hub' = "closed"
    /\ UNCHANGED <<setup, life, id, clients, old, gauge, pending, visited,
                   visiting, stored, atClose, early, overlap>>

-------------------------------------------------------------------------------
Setup(c) == \/ RegisterNew(c) \/ RegisterLoaded(c) \/ ShutdownOld(c)
            \/ OldShutdownReturns(c) \/ UnsubscribeOld(c) \/ StoreReplacement(c)
            \/ StartUnicast(c) \/ AnnounceConnected(c)
OnceBody(c) == \/ Unregister(c) \/ UnsubscribeOwn(c)
               \/ AnnounceDisconnected(c) \/ CloseConn(c)
CloseHub == \/ \E i \in Ids : VisitClient(i)
            \/ ShutdownVisited \/ VisitedReturns \/ EndClose

Next == \/ \E c \in Conns : NewClient(c) \/ Setup(c) \/ Fail(c) \/ OnceBody(c)
        \/ BeginClose \/ CloseHub

\* A goroutine that can run is run: callbacks and event handlers return.
\* Connections need not arrive or fail, and nobody has to close the hub.
Fairness == /\ \A c \in Conns : WF_vars(Setup(c)) /\ WF_vars(OnceBody(c))
            /\ WF_vars(CloseHub)

Safety == Init /\ [][Next]_vars
Spec   == Safety /\ Fairness

-------------------------------------------------------------------------------
(* Properties                                                              *)

SetupLabel == {"none", "register", "replace", "unsubscribe", "store",
               "subscribe", "connected", "done"}
LifeLabel  == {"none", "open", "onclose", "unsubscribe", "disconnected",
               "close", "closed"}

\* Every variable has its type.
TypeOK ==
    /\ setup \in [Conns -> SetupLabel]
    /\ life \in [Conns -> LifeLabel]
    /\ id \in [Conns -> Ids \cup {None}]
    /\ clients \in [Ids -> Conns \cup {None}]
    /\ old \in [Conns -> Conns \cup {None}]
    /\ gauge \in Int
    /\ hub \in {"up", "closing", "closed"}
    /\ pending \in SUBSET Ids /\ visited \in SUBSET Ids
    /\ visiting \in Conns \cup {None}
    /\ stored \in SUBSET Conns /\ early \in SUBSET Conns
    /\ atClose \in SUBSET Conns /\ overlap \in SUBSET Ids

\* A connection whose onClose ran after it was put into the table is out of the
\* table from then on (hub.go:293-300).
LateFailureIsRemoved ==
    \A c \in Conns \ early :
        life[c] \in {"unsubscribe", "disconnected", "close", "closed"}
            => \A i \in Ids : clients[i] # c

\* When nothing is under way, the gauge counts the open connections, replaced
\* and failed ones included in the deductions (server.go:273-293).
GaugeCountsOpen ==
    (\A c \in Conns : setup[c] \in {"none", "done"}
                      /\ life[c] \in {"none", "open", "closed"})
        => gauge = Cardinality({c \in Conns : life[c] = "open"})

\* A registered open connection can be found, so that Push and Broadcast reach
\* it, through any number of reconnects under its id: the connection that
\* Register replaces has run its Unregister before the new one is stored and
\* cannot remove it (hub.go:181-210, 293-300).  Two Registers of the id at once
\* can lose it, and so can a connection of the id that failed unstored.
OpenIsReachable ==
    \A c \in stored :
        /\ life[c] = "open" /\ id[c] \notin overlap
        /\ \A e \in early : id[e] # id[c]
        => clients[id[c]] = c

\* No connection with an id of its own that was in the table when Close began is
\* open when Close returns (hub.go:484-498).
CloseShutsEveryone ==
    hub = "closed" => \A c \in atClose : id[c] \in OwnIds => life[c] # "open"

\* hub.go:184: "if the id already exists, close the old connection": two
\* connections set up under one id are never both open.
OneOpenPerId ==
    \A c, d \in Conns :
        c # d /\ id[c] = id[d] /\ setup[c] = "done" /\ setup[d] = "done"
            => ~(life[c] = "open" /\ life[d] = "open")
===============================================================================
