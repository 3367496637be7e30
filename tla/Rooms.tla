-------------------------------- MODULE Rooms --------------------------------
(***************************************************************************)
(* The room manager of one hub (pkg/hub/room.go) and the hub's entry       *)
(* points to it (pkg/hub/hub.go:413-447), called by message handlers and   *)
(* by the SDK at the same time.                                            *)
(*                                                                         *)
(* JoinRoom takes three locks one after the other: it loads the client     *)
(* from the hub's table, looks the room up under rm.mu and adds the client *)
(* under room.mu; in between, the connection may go, and the room may be   *)
(* deleted and made again.  LeaveRoom does the last two.  A room is a heap *)
(* object that outlives its deletion in the hands of such a caller.        *)
(*                                                                         *)
(* Connect and Disconnect are the net effect of Register and Unregister,   *)
(* one connection per id at a time; Registry.tla has their interleavings.  *)
(***************************************************************************)
EXTENDS Integers, FiniteSets

CONSTANTS Callers,  \* goroutines that call JoinRoom and LeaveRoom
          Names,    \* room ids
          Objs,     \* room objects that may be made (bounds the model)
          Ids,      \* client ids
          Conns,    \* connections that may be made (bounds the model)
          Limits,   \* values of MaxClients rooms are created with
          MaxJoins, \* bound: no JoinRoom is called once so many have succeeded
          None

ASSUME RoomsAssumption == /\ IsFiniteSet(Ids)
                          /\ Limits \subseteq Nat /\ MaxJoins \in Nat
                          /\ None \notin Names \cup Objs \cup Ids \cup Conns \cup Limits

VARIABLES clients,      \* Hub.clients: id -> connection
          used,         \* the connections made so far
          rooms,        \* RoomManager.rooms: room id -> room
          limit,        \* Room.MaxClients of each room made; None before
          members,      \* Room.clients: room -> id -> connection
          op,           \* what each caller is doing
          activeRooms,  \* the ActiveRooms gauge
          joins,        \* the RoomJoins counter
          leaves,       \* the RoomLeaves counter
          closed        \* RoomManager.Close has run

vars == <<clients, used, rooms, limit, members, op, activeRooms, joins,
          leaves, closed>>

\* What a caller does next (`at`), with the arguments and the values it has
\* read.  An idle caller keeps the result of its last call in `at`.
Idle(result) == [at |-> result, room |-> None, id |-> None, conn |-> None,
                 obj |-> None]

Results == {"none", "ok", "client_not_found", "room_not_found", "full",
            "already_in_room", "not_in_room"}
Steps   == {"lookup", "add", "remove"}

IsIdle(p)          == op[p].at \in Results
Return(p, result)  == op' = [op EXCEPT ![p] = Idle(result)]
Proceed(p, fields) == op' = [op EXCEPT ![p] = fields]

Members(o) == {i \in Ids : members[o][i] # None}

Init == /\ clients = [i \in Ids |-> None]
        /\ used = {}
        /\ rooms = [r \in Names |-> None]
        /\ limit = [o \in Objs |-> None]
        /\ members = [o \in Objs |-> [i \in Ids |-> None]]
        /\ op = [p \in Callers |-> Idle("none")]
        /\ activeRooms = 0 /\ joins = 0 /\ leaves = 0
        /\ closed = FALSE

-------------------------------------------------------------------------------
(* The hub's table                                                         *)

\* A new connection takes a free id; Register has removed an older one.
Connect(c, i) ==
    /\ c \notin used /\ clients[i] = None
    /\ used' = used \cup {c}
    /\ clients' = [clients EXCEPT ![i] = c]
    /\ UNCHANGED <<rooms, limit, members, op, activeRooms, joins, leaves, closed>>

\* Unregister removes the client from the table and from nothing else.
Disconnect(i) ==
    /\ clients[i] # None
    /\ clients' = [clients EXCEPT ![i] = None]
    /\ UNCHANGED <<used, rooms, limit, members, op, activeRooms, joins, leaves,
                   closed>>

-------------------------------------------------------------------------------
(* The room manager's map                                                  *)

CreateOneLess(r, o, max) ==
    /\ rooms[r] = None
    /\ limit[o] = None
    /\ limit' = [limit EXCEPT ![o] = max - 1]
    /\ rooms' = [rooms EXCEPT ![r] = o]
    /\ activeRooms' = activeRooms + 1
    /\ UNCHANGED <<clients, used, members, op, joins, leaves, closed>>

\* CreateRoom: a new room under a free name; ErrRoomAlreadyExists otherwise.
CreateRoom(r, o, max) ==
    /\ rooms[r] = None
    /\ limit[o] = None
    /\ limit' = [limit EXCEPT ![o] = max]
    /\ rooms' = [rooms EXCEPT ![r] = o]
    /\ activeRooms' = activeRooms + 1
    /\ UNCHANGED <<clients, used, members, op, joins, leaves, closed>>

\* DeleteRoom: the name is free again, its room keeps its members.
DeleteRoom(r) ==
    /\ rooms[r] # None
    /\ rooms' = [rooms EXCEPT ![r] = None]
    /\ activeRooms' = activeRooms - 1
    /\ UNCHANGED <<clients, used, limit, members, op, joins, leaves, closed>>

\* Close drops all rooms; the gauge is left alone.
Close ==
    /\ ~closed
    /\ closed' = TRUE
    /\ rooms' = [r \in Names |-> None]
    /\ UNCHANGED <<clients, used, limit, members, op, activeRooms, joins, leaves>>

-------------------------------------------------------------------------------
(* JoinRoom                                                                *)

\* Hub.JoinRoom loads the client from the table ...
LoadClient(p, r, i) ==
    /\ IsIdle(p) /\ joins < MaxJoins
    /\ IF clients[i] = None
       THEN Return(p, "client_not_found")
       ELSE Proceed(p, [at |-> "lookup", room |-> r, id |-> i,
                        conn |-> clients[i], obj |-> None])
    /\ UNCHANGED <<clients, used, rooms, limit, members, activeRooms, joins,
                   leaves, closed>>

\* ... RoomManager.JoinRoom looks the room up ...
JoinLookup(p) ==
    /\ op[p].at = "lookup"
    /\ IF rooms[op[p].room] = None
       THEN Return(p, "room_not_found")
       ELSE Proceed(p, [op[p] EXCEPT !.at = "add", !.obj = rooms[op[p].room]])
    /\ UNCHANGED <<clients, used, rooms, limit, members, activeRooms, joins,
                   leaves, closed>>

FullOffByOne(o) == limit[o] > 0 /\ Cardinality(Members(o)) > limit[o]
Full(o) == limit[o] > 0 /\ Cardinality(Members(o)) >= limit[o]

\* ... and Room.AddClient checks the limit, then the membership, and adds.
AddRefused(p) ==
    /\ op[p].at = "add"
    /\ \/ Full(op[p].obj) /\ Return(p, "full")
       \/ /\ ~Full(op[p].obj)
          /\ op[p].id \in Members(op[p].obj)
          /\ Return(p, "already_in_room")
    /\ UNCHANGED <<clients, used, rooms, limit, members, activeRooms, joins,
                   leaves, closed>>

AddAgain(p) ==
    /\ op[p].at = "add"
    /\ ~Full(op[p].obj)
    /\ members' = [members EXCEPT ![op[p].obj][op[p].id] = op[p].conn]
    /\ joins' = joins + 1
    /\ Return(p, "ok")
    /\ UNCHANGED <<clients, used, rooms, limit, activeRooms, leaves, closed>>

AddToName(p) ==
    /\ op[p].at = "add" /\ rooms[op[p].room] # None
    /\ ~Full(op[p].obj)
    /\ op[p].id \notin Members(op[p].obj)
    /\ members' = [members EXCEPT ![rooms[op[p].room]][op[p].id] = op[p].conn]
    /\ joins' = joins + 1
    /\ Return(p, "ok")
    /\ UNCHANGED <<clients, used, rooms, limit, activeRooms, leaves, closed>>

AddClient(p) ==
    /\ op[p].at = "add"
    /\ ~Full(op[p].obj)
    /\ op[p].id \notin Members(op[p].obj)
    /\ members' = [members EXCEPT ![op[p].obj][op[p].id] = op[p].conn]
    /\ joins' = joins + 1
    /\ Return(p, "ok")
    /\ UNCHANGED <<clients, used, rooms, limit, activeRooms, leaves, closed>>

-------------------------------------------------------------------------------
(* LeaveRoom                                                               *)

LeaveLookup(p, r, i) ==
    /\ IsIdle(p)
    /\ IF rooms[r] = None
       THEN Return(p, "room_not_found")
       ELSE Proceed(p, [at |-> "remove", room |-> r, id |-> i, conn |-> None,
                        obj |-> rooms[r]])
    /\ UNCHANGED <<clients, used, rooms, limit, members, activeRooms, joins,
                   leaves, closed>>

\* Room.RemoveClient: ErrClientNotInRoom ...
RemoveRefused(p) ==
    /\ op[p].at = "remove"
    /\ op[p].id \notin Members(op[p].obj)
    /\ Return(p, "not_in_room")
    /\ UNCHANGED <<clients, used, rooms, limit, members, activeRooms, joins,
                   leaves, closed>>

\* ... or the id is removed, whichever connection it stands for.
RemoveClient(p) ==
    /\ op[p].at = "remove"
    /\ op[p].id \in Members(op[p].obj)
    /\ members' = [members EXCEPT ![op[p].obj][op[p].id] = None]
    /\ leaves' = leaves + 1
    /\ Return(p, "ok")
    /\ UNCHANGED <<clients, used, rooms, limit, activeRooms, joins, closed>>

-------------------------------------------------------------------------------
Call(p) == \/ \E r \in Names, i \in Ids : LoadClient(p, r, i) \/ LeaveLookup(p, r, i)
           \/ JoinLookup(p) \/ AddRefused(p) \/ AddClient(p)
           \/ RemoveRefused(p) \/ RemoveClient(p)

Next == \/ \E c \in Conns, i \in Ids : Connect(c, i)
        \/ \E i \in Ids : Disconnect(i)
        \/ \E r \in Names, o \in Objs, max \in Limits : CreateRoom(r, o, max)
        \/ \E r \in Names : DeleteRoom(r)
        \/ Close
        \/ \E p \in Callers : Call(p)

Spec == Init /\ [][Next]_vars

-------------------------------------------------------------------------------
(* Properties                                                              *)

Op == [at : Results \cup Steps, room : Names \cup {None}, id : Ids \cup {None},
       conn : Conns \cup {None}, obj : Objs \cup {None}]

\* Every variable has its type.
TypeOK ==
    /\ clients \in [Ids -> Conns \cup {None}]
    /\ used \in SUBSET Conns
    /\ rooms \in [Names -> Objs \cup {None}]
    /\ limit \in [Objs -> Limits \cup {None}]
    /\ members \in [Objs -> [Ids -> Conns \cup {None}]]
    /\ op \in [Callers -> Op]
    /\ activeRooms \in Int /\ joins \in Nat /\ leaves \in Nat
    /\ closed \in BOOLEAN

\* No interleaving of joins overfills a room, deleted rooms included
\* (room.go:57-71).
WithinLimit ==
    \A o \in Objs : limit[o] # None /\ limit[o] > 0
                        => Cardinality(Members(o)) <= limit[o]

\* What a lookup by name can see of the rooms.
RosterView ==
    [r \in Names |->
        IF rooms[r] = None
        THEN [open |-> FALSE, limit |-> 0, members |-> {}]
        ELSE [open |-> TRUE, limit |-> limit[rooms[r]], members |-> Members(rooms[r])]]

\* Callers that still hold a deleted room change nothing anyone can look up, and
\* a room made under an old name starts empty: the manager implements the
\* abstract roster.
Roster == INSTANCE RoomRoster WITH roster <- RosterView
ImplementsRoster == Roster!RosterSpec

\* Who is in which room, deleted rooms included, and the names in use.
Memberships == {m \in Objs \X Ids : members[m[1]][m[2]] # None}
Named       == {r \in Names : rooms[r] # None}

\* The join and leave counters account for every membership: no id is counted
\* into a room twice or out of it twice by callers that race; and until the manager
\* is closed the gauge counts the rooms (room.go:66-68, 81-83, 265-290).
MetricsAgree ==
    /\ joins - leaves = Cardinality(Memberships)
    /\ ~closed => activeRooms = Cardinality(Named)

\* room.go:332: BroadcastToRoom sends "to all clients in the room": the entry of a
\* member that is connected is the connection it has now.
ConnectedMemberIsReached ==
    \A r \in Names : rooms[r] # None =>
        \A i \in Members(rooms[r]) :
            clients[i] # None => members[rooms[r]][i] = clients[i]
===============================================================================
