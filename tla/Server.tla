--------------------------------- MODULE Server ---------------------------------
(***************************************************************************)
(* The server around the hub (server/server.go): the handshake and its     *)
(* authentication, the claims of a connection, the messages its readLoop   *)
(* routes to the handlers that join and leave a room                       *)
(* (internal/handlers/handlers.go), the events an application hears        *)
(* through the SDK (pkg/sdk/sdk.go), the rooms it makes a client join and  *)
(* leave through it, and Shutdown.  The client table is Registry's, every  *)
(* action of which is here with what happens around it.                    *)
(*                                                                         *)
(* ping, room_message, direct_message and whatever the dispatcher refuses  *)
(* change no state of this module: they end in the Send of Client, the     *)
(* BroadcastToRoom of Cluster or the Push of Unicast.                      *)
(***************************************************************************)
EXTENDS Registry, Sequences

CONSTANTS AuthEnabled, AllowAnonymous,  \* Options
          Talkers                       \* connections that send messages
                                        \* (bounds the model)

ASSUME ServerAssumption == /\ AuthEnabled \in BOOLEAN /\ AllowAnonymous \in BOOLEAN
                           /\ Talkers \subseteq Conns
                           /\ Conns \cap {"idle", "permitted", "sdk"} = {}

VARIABLES token,   \* what the handshake showed: "unasked" before it, "absent", a
                   \* token that "grants" the permission to join or is "plain"
          claims,  \* Client.authClaims
          work,    \* the readLoop: "idle", "permitted" to join, or the connection
                   \* that JoinRoom found in the table
          member,  \* Room.clients of one room: id -> connection
          entered, \* history: who asked for the entry: the connection whose message
                  \* it was, or "sdk"
          call,    \* a call of SDK.JoinRoom for the id: "idle", or the connection that
                  \* JoinRoom found in the table
          heard,   \* the events that the handlers of the SDK saw, per connection
          stop     \* Server.Shutdown: "no", "hub", "bus", "http", "returned"

roomVars == <<member, entered, call>>
serverVars == <<token, claims, work, roomVars, heard, stop>>
svars == <<vars, serverVars>>

SInit == /\ Init
         /\ token = [c \in Conns |-> "unasked"]
         /\ claims = [c \in Conns |-> "absent"]
         /\ work = [c \in Conns |-> "idle"]
         /\ member = [i \in Ids |-> None] /\ entered = [i \in Ids |-> None]
         /\ call = [i \in Ids |-> "idle"]
         /\ heard = [c \in Conns |-> <<>>]
         /\ stop = "no"

-------------------------------------------------------------------------------
(* handleWebSocket                                                         *)

\* What extractToken and Authenticate may make of a request; one whose token is
\* rejected for its form, signature, time or issuer is answered with 401 and
\* changes nothing.
Shown == {"absent", "plain", "grants"}

\* authenticateWebSocket, which looks at tokens if it is told to.
Admitted(t) == IF AuthEnabled THEN t # "absent" \/ AllowAnonymous
                              ELSE t = "absent"

\* ... and Upgrade: the connection is made and hijacked, so that the Shutdown of
\* the HTTP server no longer waits for it.
Upgrade(c) ==
    /\ token[c] = "unasked" /\ stop # "returned"
    /\ \E t \in Shown : Admitted(t) /\ token' = [token EXCEPT ![c] = t]
    /\ UNCHANGED <<vars, claims, work, roomVars, heard, stop>>

\* NewClient starts the loops of a client that has no claims yet ...
MakeClient(c) ==
    /\ token[c] # "unasked" /\ NewClient(c)
    /\ UNCHANGED serverVars

\* ... which SetAuthClaims gives it.
SetAuthClaims(c) ==
    /\ setup[c] = "register" /\ claims[c] # token[c]
    /\ claims' = [claims EXCEPT ![c] = token[c]]
    /\ UNCHANGED <<vars, token, work, roomVars, heard, stop>>

HasClaims(c) == claims[c] = token[c]

\* TriggerEvent: the handlers are gone once the SDK is closed.
Trigger(c, event) ==
    heard' = IF stop = "no" THEN [heard EXCEPT ![c] = Append(@, event)] ELSE heard

RegisterClient(c) ==
    /\ HasClaims(c)
    /\ \/ /\ \/ RegisterNew(c) \/ RegisterLoaded(c) \/ ShutdownOld(c)
             \/ OldShutdownReturns(c) \/ UnsubscribeOld(c) \/ StoreReplacement(c)
             \/ StartUnicast(c)
          /\ UNCHANGED serverVars
       \/ /\ AnnounceConnected(c)
          /\ Trigger(c, "connected")
          /\ UNCHANGED <<token, claims, work, roomVars, stop>>

\* The Once of the connection, with the events of onClose.
CloseClient(c) ==
    \/ /\ Unregister(c) \/ UnsubscribeOwn(c) \/ CloseConn(c)
       /\ UNCHANGED serverVars
    \/ /\ AnnounceDisconnected(c)
       /\ Trigger(c, "disconnected")
       /\ UNCHANGED <<token, claims, work, roomVars, stop>>

FailClient(c) == Fail(c) /\ UNCHANGED serverVars

-------------------------------------------------------------------------------
(* The messages of a connection, until its socket is closed                *)

Reading(c) == c \in Talkers /\ life[c] \notin {"none", "closed"} /\ work[c] = "idle"
WorkTo(c, label) == work' = [work EXCEPT ![c] = label]

JoinUnasked(c) ==
    /\ Reading(c)
    /\ WorkTo(c, "permitted")
    /\ UNCHANGED <<vars, token, claims, roomVars, heard, stop>>

\* What a client without claims never has.
HasPermission(c) == claims[c] = "grants"

\* handleJoinRoom: those without the permission are answered "forbidden".
JoinRoom(c) ==
    /\ Reading(c) /\ HasPermission(c)
    /\ WorkTo(c, "permitted")
    /\ UNCHANGED <<vars, token, claims, roomVars, heard, stop>>

\* Hub.JoinRoom: the connection that has the sender's id by now ...
LoadJoiner(c) ==
    /\ work[c] = "permitted"
    /\ WorkTo(c, IF clients[id[c]] = None THEN "idle" ELSE clients[id[c]])
    /\ UNCHANGED <<vars, token, claims, roomVars, heard, stop>>

\* The rooms are dropped when Hub.Close ends.
RoomOpen == stop \in {"no", "hub"}

\* ... joins, unless the id is in the room or the rooms are closed.  Rooms takes
\* this step apart.
Enter(i, c, who) ==
    IF member[i] = None /\ RoomOpen
    THEN /\ member' = [member EXCEPT ![i] = c]
         /\ entered' = [entered EXCEPT ![i] = who]
    ELSE UNCHANGED <<member, entered>>

Leave(i) == /\ member[i] # None /\ RoomOpen
            /\ member' = [member EXCEPT ![i] = None]
            /\ entered' = [entered EXCEPT ![i] = None]

AddJoiner(c) ==
    /\ work[c] \in Conns
    /\ Enter(id[c], work[c], c)
    /\ WorkTo(c, "idle")
    /\ UNCHANGED <<vars, token, claims, call, heard, stop>>

\* handleLeaveRoom asks for no permission.
LeaveRoom(c) ==
    /\ Reading(c) /\ Leave(id[c])
    /\ UNCHANGED <<vars, token, claims, work, call, heard, stop>>

-------------------------------------------------------------------------------
(* The application, which may make any client join or leave                *)

\* SDK.JoinRoom, which is Hub.JoinRoom and asks for no permission: the same two
\* steps; an id that nobody has is refused.
SDKLoad(i) ==
    /\ call[i] = "idle" /\ clients[i] # None
    /\ call' = [call EXCEPT ![i] = clients[i]]
    /\ UNCHANGED <<vars, token, claims, work, member, entered, heard, stop>>

SDKAdd(i) ==
    /\ call[i] # "idle"
    /\ Enter(i, call[i], "sdk")
    /\ call' = [call EXCEPT ![i] = "idle"]
    /\ UNCHANGED <<vars, token, claims, work, heard, stop>>

\* SDK.LeaveRoom
SDKLeave(i) ==
    /\ Leave(i)
    /\ UNCHANGED <<vars, token, claims, work, call, heard, stop>>

-------------------------------------------------------------------------------
(* Shutdown                                                                *)

StopTo(label) == stop' = label /\ UNCHANGED <<token, claims, work, roomVars, heard>>

\* sdk.Close drops the handlers before the hub disconnects anybody; the HTTP
\* server still accepts.
CloseSDK == stop = "no" /\ StopTo("hub") /\ UNCHANGED vars

SkipHubClose == stop = "hub" /\ StopTo("bus") /\ UNCHANGED vars

\* Hub.Close
BeginHubClose == stop = "hub" /\ BeginClose /\ UNCHANGED serverVars
VisitClients == CloseHub /\ hub' = "closing" /\ UNCHANGED serverVars
EndHubClose  == EndClose /\ StopTo("bus")

\* messageBus.Close, which Hub.Close has called already; then the HTTP server is
\* shut down.
CloseBus  == stop = "bus" /\ StopTo("http") /\ UNCHANGED vars
CloseHTTP == stop = "http" /\ StopTo("returned") /\ UNCHANGED vars

ShutdownServer == \/ BeginHubClose \/ VisitClients \/ EndHubClose
                  \/ CloseBus \/ CloseHTTP

-------------------------------------------------------------------------------
HandshakeEnds(c) == MakeClient(c) \/ SetAuthClaims(c) \/ RegisterClient(c)
Join(c) == LoadJoiner(c) \/ AddJoiner(c)

SNext == \/ \E c \in Conns : \/ Upgrade(c) \/ HandshakeEnds(c) \/ FailClient(c)
                             \/ CloseClient(c)
                             \/ JoinRoom(c) \/ Join(c) \/ LeaveRoom(c)
         \/ \E i \in Ids : SDKLoad(i) \/ SDKAdd(i) \/ SDKLeave(i)
         \/ CloseSDK \/ ShutdownServer

\* What was begun goes on; nobody has to connect, send, fail or shut down.
SFairness == /\ \A c \in Conns : /\ WF_svars(HandshakeEnds(c)) /\ WF_svars(Join(c))
                                 /\ WF_svars(CloseClient(c))
             /\ \A i \in Ids : WF_svars(SDKAdd(i))
             /\ WF_svars(ShutdownServer)

ServerSpec == SInit /\ [][SNext]_svars /\ SFairness

-------------------------------------------------------------------------------
(* Properties                                                              *)

\* Every variable of this module has its type, and the order of Shutdown holds.
ServerTypeOK ==
    /\ token \in [Conns -> Shown \cup {"unasked"}] /\ claims \in [Conns -> Shown]
    /\ work \in [Conns -> {"idle", "permitted"} \cup Conns]
    /\ member \in [Ids -> Conns \cup {None}]
    /\ entered \in [Ids -> Conns \cup {None, "sdk"}]
    /\ call \in [Ids -> Conns \cup {"idle"}]
    /\ stop \in {"no", "hub", "bus", "http", "returned"}
    /\ stop \in {"bus", "http", "returned"} <=> hub = "closed"

\* Whoever is in the room was put there by the application, or at the request of a
\* connection of that id whose own token allows it to join, although claims arrive
\* after the loops have started and the permission is asked of one connection and the
\* id looked up later, so that the one that enters may be a replacement with another
\* token (handlers.go:79-120, server.go:273-286, hub.go:433-442, sdk.go:157-163).
MemberHadPermission ==
    \A i \in Ids : member[i] # None =>
        /\ id[member[i]] = i
        /\ \/ entered[i] = "sdk"
           \/ \E c \in Conns : entered[i] = c /\ id[c] = i /\ token[c] = "grants"

Heard(c, event) == \E k \in DOMAIN heard[c] : heard[c][k] = event

\* Until the SDK is closed, handlers hear of a connection's beginning and end once
\* each, and of a replacement's beginning only after the end of the connection it
\* replaced.  Of one connection that failed while it was being set up, the end may be
\* heard first (server.go:273-300, hub.go:183-198).
EventsInOrder ==
    \A c \in Conns :
        /\ Len(heard[c]) <= 2 /\ ~(Len(heard[c]) = 2 /\ heard[c][1] = heard[c][2])
        /\ stop = "no" /\ setup[c] = "done" => Heard(c, "connected")
        /\ stop = "no" /\ life[c] = "closed" => Heard(c, "disconnected")
        /\ Heard(c, "connected") /\ old[c] # None => Heard(old[c], "disconnected")

\* Every call of Register and of Shutdown returns and every shutdown() of a
\* connection that began is finished, although each waits for the Once of other
\* connections, whose callbacks go back to the hub; and then every connection that
\* was in the table when the hub was closed is closed, unless it shares its id.  One
\* that registers later, which the listener allows as it is closed last, is left
\* open (hub.go:181-210, 484-498, server.go:184-200).
EveryoneReturns ==
    <>[](/\ stop \in {"no", "returned"}
         /\ \A c \in Conns : /\ setup[c] \in {"none", "done"}
                            /\ life[c] \in {"none", "open", "closed"}
         /\ \A c \in atClose : \/ life[c] = "closed"
                               \/ \E d \in Conns \ {c} : id[d] = id[c])
===============================================================================
