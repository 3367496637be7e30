------------------------------ MODULE RoomRoster ------------------------------
(***************************************************************************)
(* What gohub's room manager promises to the callers of CreateRoom,        *)
(* DeleteRoom, JoinRoom and LeaveRoom: a roster of client ids per room     *)
(* name that changes by one id at a time, never holds more ids than the    *)
(* room admits, and is empty when a room is created, whatever happened to  *)
(* an earlier room of that name.  Rooms.tla implements it.                 *)
(***************************************************************************)
EXTENDS Naturals, FiniteSets

CONSTANTS Names,  \* room ids
          Ids,    \* client ids
          Limits  \* values of MaxClients; 0 is no limit

VARIABLE roster   \* room id -> the room

NoRoom == [open |-> FALSE, limit |-> 0, members |-> {}]
Room(limit, members) == [open |-> TRUE, limit |-> limit, members |-> members]

RosterInit == roster = [r \in Names |-> NoRoom]

Create(r, limit) ==
    /\ ~roster[r].open
    /\ roster' = [roster EXCEPT ![r] = Room(limit, {})]

Delete(r) ==
    /\ roster[r].open
    /\ roster' = [roster EXCEPT ![r] = NoRoom]

Join(r, i) ==
    /\ roster[r].open /\ i \notin roster[r].members
    /\ roster[r].limit > 0 => Cardinality(roster[r].members) < roster[r].limit
    /\ roster' = [roster EXCEPT ![r] = Room(@.limit, @.members \cup {i})]

Leave(r, i) ==
    /\ roster[r].open /\ i \in roster[r].members
    /\ roster' = [roster EXCEPT ![r] = Room(@.limit, @.members \ {i})]

Clear == roster' = [r \in Names |-> NoRoom]

RosterNext == \/ \E r \in Names : \/ \E limit \in Limits : Create(r, limit)
                                  \/ Delete(r)
                                  \/ \E i \in Ids : Join(r, i) \/ Leave(r, i)
              \/ Clear

RosterSpec == RosterInit /\ [][RosterNext]_roster
===============================================================================
