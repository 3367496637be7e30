----------------------------- MODULE RoomsProofs -----------------------------
(***************************************************************************)
(* Proofs about Rooms.tla, for any callers, rooms, clients and limits.     *)
(***************************************************************************)
EXTENDS Rooms, FiniteSetTheorems, TLAPS

\* A name leads to a room that was made, and no two names to the same one.
NamesInv ==
    /\ \A r \in Names : rooms[r] # None => limit[rooms[r]] # None
    /\ \A r, s \in Names : rooms[r] # None /\ rooms[r] = rooms[s] => r = s

\* A room that was not made is empty.
FreshInv == \A o \in Objs : limit[o] = None => Members(o) = {}

\* What a caller holds between two of its steps.
OpInv ==
    \A p \in Callers :
        /\ op[p].at \in Steps => op[p].room \in Names /\ op[p].id \in Ids
        /\ op[p].at \in {"lookup", "add"} => op[p].conn \in Conns
        /\ op[p].at \in {"add", "remove"} =>
               op[p].obj \in Objs /\ limit[op[p].obj] # None

RoomsInv == TypeOK /\ NamesInv /\ FreshInv /\ OpInv /\ WithinLimit

\* None is no name, room, id or connection.
LEMMA NoneIsNone == /\ None \notin Names /\ None \notin Objs
                    /\ None \notin Ids /\ None \notin Conns
  BY RoomsAssumption

\* The ids in a room are finitely many.
LEMMA MembersFinite ==
  ASSUME NEW o \in Objs
  PROVE  /\ Members(o) \subseteq Ids
         /\ IsFiniteSet(Members(o))
         /\ Cardinality(Members(o)) \in Nat
<1>1. Members(o) \subseteq Ids
  BY DEF Members
<1>2. IsFiniteSet(Members(o))
  BY <1>1, FS_Subset, RoomsAssumption
<1>3. QED BY <1>1, <1>2, FS_CardinalityType

\* The empty manager satisfies the invariant.
LEMMA InitRoomsInv == Init => RoomsInv
<1> SUFFICES ASSUME Init PROVE RoomsInv
  OBVIOUS
<1> USE DEF Init
<1>1. TypeOK
  <2>1. Idle("none") \in Op
    BY DEF Idle, Op, Results
  <2>2. op \in [Callers -> Op]
    BY <2>1
  <2>3. /\ clients \in [Ids -> Conns \cup {None}]
        /\ rooms \in [Names -> Objs \cup {None}]
        /\ limit \in [Objs -> Limits \cup {None}]
    OBVIOUS
  <2>4. members \in [Objs -> [Ids -> Conns \cup {None}]]
    OBVIOUS
  <2>6. closed \in BOOLEAN
    BY Zenon
  <2>5. /\ used \in SUBSET Conns
        /\ activeRooms \in Int /\ joins \in Nat /\ leaves \in Nat
    OBVIOUS
  <2> HIDE DEF Init
  <2> QED BY <2>2, <2>3, <2>4, <2>5, <2>6 DEF TypeOK
<1>2. NamesInv /\ FreshInv
  BY DEF NamesInv, FreshInv, Members
<1>3. OpInv
  BY DEF OpInv, Idle, Steps
<1>4. WithinLimit
  BY DEF WithinLimit
<1> QED BY <1>1, <1>2, <1>3, <1>4 DEF RoomsInv

\* A caller that returns, or proceeds with good arguments, keeps op well typed.
LEMMA ReturnKeepsOp ==
  ASSUME NEW p \in Callers, NEW result \in Results, TypeOK, OpInv,
         Return(p, result), UNCHANGED limit
  PROVE  op' \in [Callers -> Op] /\ OpInv'
<1>1. op' \in [Callers -> Op]
  BY DEF TypeOK, Return, Idle, Op
<1>2. OpInv'
  BY DEF TypeOK, OpInv, Return, Idle, Results, Steps
<1> QED BY <1>1, <1>2

LEMMA ProceedKeepsOp ==
  ASSUME NEW p \in Callers, NEW fields \in Op, TypeOK, OpInv,
         Proceed(p, fields), UNCHANGED limit,
         fields.at \in Steps => fields.room \in Names /\ fields.id \in Ids,
         fields.at \in {"lookup", "add"} => fields.conn \in Conns,
         fields.at \in {"add", "remove"} =>
             fields.obj \in Objs /\ limit[fields.obj] # None
  PROVE  op' \in [Callers -> Op] /\ OpInv'
<1>1. op' = [op EXCEPT ![p] = fields]
  BY DEF Proceed
<1>2. op \in [Callers -> Op]
  BY DEF TypeOK
<1>3. op' \in [Callers -> Op]
  BY <1>1, <1>2
<1>4. \A q \in Callers : op'[q] = IF q = p THEN fields ELSE op[q]
  BY <1>1, <1>2
<1>5. OpInv'
  BY <1>4 DEF OpInv
<1> QED BY <1>3, <1>5

\* Connections come and go without touching a room.
LEMMA HubKeepsInv ==
  ASSUME RoomsInv,
         \/ \E c \in Conns, i \in Ids : Connect(c, i)
         \/ \E i \in Ids : Disconnect(i)
  PROVE  RoomsInv'
<1>1. /\ clients' \in [Ids -> Conns \cup {None}]
      /\ used' \in SUBSET Conns
      /\ UNCHANGED <<rooms, limit, members, op, activeRooms, joins, leaves, closed>>
  BY DEF RoomsInv, TypeOK, Connect, Disconnect
<1>2. TypeOK'
  BY <1>1 DEF RoomsInv, TypeOK
<1>3. NamesInv' /\ FreshInv' /\ OpInv' /\ WithinLimit'
  BY <1>1 DEF RoomsInv, NamesInv, FreshInv, OpInv, WithinLimit, Members
<1> QED BY <1>2, <1>3 DEF RoomsInv

\* A new room is empty and held by no caller.
LEMMA CreateKeepsInv ==
  ASSUME RoomsInv, NEW r \in Names, NEW o \in Objs, NEW max \in Limits,
         CreateRoom(r, o, max)
  PROVE  RoomsInv'
<1> USE NoneIsNone, RoomsAssumption
<1>1. max # None /\ max \in Nat
  BY NoneIsNone, RoomsAssumption
<1>2. TypeOK'
  BY DEF RoomsInv, TypeOK, CreateRoom
<1>3. \A q \in Objs : limit'[q] = IF q = o THEN max ELSE limit[q]
  BY DEF RoomsInv, TypeOK, CreateRoom
<1>4. \A s \in Names : rooms'[s] = IF s = r THEN o ELSE rooms[s]
  BY DEF RoomsInv, TypeOK, CreateRoom
<1>5. limit[o] = None /\ Members(o) = {}
  BY DEF RoomsInv, FreshInv, CreateRoom
<1>6. \A s \in Names : rooms[s] # o
  BY <1>5 DEF RoomsInv, NamesInv
<1>7. \A q : Members(q)' = Members(q)
  BY DEF CreateRoom, Members
<1>8. NamesInv'
  BY <1>1, <1>3, <1>4, <1>6 DEF RoomsInv, NamesInv, TypeOK
<1>9. FreshInv'
  BY <1>1, <1>3, <1>7 DEF RoomsInv, FreshInv
<1>10. OpInv'
  BY <1>1, <1>3 DEF RoomsInv, OpInv, CreateRoom
<1>11. WithinLimit'
  BY <1>1, <1>3, <1>5, <1>7, FS_EmptySet DEF RoomsInv, WithinLimit
<1> QED BY <1>2, <1>8, <1>9, <1>10, <1>11 DEF RoomsInv

\* Rooms that lose their names keep everything else.
LEMMA DropKeepsInv ==
  ASSUME RoomsInv, Close \/ \E r \in Names : DeleteRoom(r)
  PROVE  RoomsInv'
<1>1. \A r \in Names : rooms'[r] = None \/ rooms'[r] = rooms[r]
  BY DEF RoomsInv, TypeOK, DeleteRoom, Close
<1>2. TypeOK'
  <2>1. rooms' \in [Names -> Objs \cup {None}]
    BY DEF RoomsInv, TypeOK, DeleteRoom, Close
  <2>2. activeRooms' \in Int
    BY DEF RoomsInv, TypeOK, DeleteRoom, Close
  <2>3. closed' \in BOOLEAN
    BY DEF RoomsInv, TypeOK, DeleteRoom, Close
  <2>4. UNCHANGED <<clients, used, limit, members, op, joins, leaves>>
    BY DEF DeleteRoom, Close
  <2> QED BY <2>1, <2>2, <2>3, <2>4 DEF RoomsInv, TypeOK
<1>3. UNCHANGED <<limit, members, op>>
  BY DEF DeleteRoom, Close
<1>4. NamesInv'
  BY <1>1, <1>3 DEF RoomsInv, NamesInv
<1>5. FreshInv' /\ OpInv' /\ WithinLimit'
  BY <1>3 DEF RoomsInv, FreshInv, OpInv, WithinLimit, Members
<1> QED BY <1>2, <1>4, <1>5 DEF RoomsInv

\* A step of a caller that changes no room.
LEMMA LookKeepsInv ==
  ASSUME RoomsInv, op' \in [Callers -> Op], OpInv',
         UNCHANGED <<clients, used, rooms, limit, members, activeRooms, joins,
                     leaves, closed>>
  PROVE  RoomsInv'
<1>1. TypeOK'
  BY DEF RoomsInv, TypeOK
<1>2. NamesInv' /\ FreshInv' /\ WithinLimit'
  BY DEF RoomsInv, NamesInv, FreshInv, WithinLimit, Members
<1> QED BY <1>1, <1>2 DEF RoomsInv

\* Hub.JoinRoom loads the client.
LEMMA LoadKeepsInv ==
  ASSUME RoomsInv, NEW p \in Callers, NEW r \in Names, NEW i \in Ids,
         LoadClient(p, r, i)
  PROVE  RoomsInv'
<1>1. CASE clients[i] = None
  <2>1. Return(p, "client_not_found") /\ "client_not_found" \in Results
    BY <1>1 DEF LoadClient, Results
  <2>2. op' \in [Callers -> Op] /\ OpInv'
    BY <2>1, ReturnKeepsOp DEF RoomsInv, LoadClient
  <2> QED BY <2>2, LookKeepsInv DEF LoadClient
<1>2. CASE clients[i] # None
  <2> DEFINE f == [at |-> "lookup", room |-> r, id |-> i, conn |-> clients[i],
                   obj |-> None]
  <2>1. Proceed(p, f)
    BY <1>2 DEF LoadClient
  <2>2. clients[i] \in Conns
    BY <1>2 DEF RoomsInv, TypeOK
  <2>3. f \in Op
    BY <2>2 DEF Op, Steps
  <2>4. f.at = "lookup" /\ f.room \in Names /\ f.id \in Ids /\ f.conn \in Conns
    BY <2>2
  <2> HIDE DEF f
  <2>5. op' \in [Callers -> Op] /\ OpInv'
    BY <2>1, <2>3, <2>4, ProceedKeepsOp DEF RoomsInv, LoadClient
  <2> QED BY <2>5, LookKeepsInv DEF LoadClient
<1> QED BY <1>1, <1>2

\* The lookups of a room hand out a room that was made.
LEMMA JoinLookupKeepsInv ==
  ASSUME RoomsInv, NEW p \in Callers, JoinLookup(p)
  PROVE  RoomsInv'
<1>1. CASE rooms[op[p].room] = None
  <2>1. Return(p, "room_not_found") /\ "room_not_found" \in Results
    BY <1>1 DEF JoinLookup, Results
  <2>2. op' \in [Callers -> Op] /\ OpInv'
    BY <2>1, ReturnKeepsOp DEF RoomsInv, JoinLookup
  <2> QED BY <2>2, LookKeepsInv DEF JoinLookup
<1>2. CASE rooms[op[p].room] # None
  <2> DEFINE f == [op[p] EXCEPT !.at = "add", !.obj = rooms[op[p].room]]
  <2>1. Proceed(p, f)
    BY <1>2 DEF JoinLookup
  <2>2. /\ op[p].room \in Names /\ op[p].id \in Ids /\ op[p].conn \in Conns
        /\ op[p] \in Op
    BY DEF RoomsInv, TypeOK, OpInv, JoinLookup, Steps
  <2>3. rooms[op[p].room] \in Objs /\ limit[rooms[op[p].room]] # None
    BY <1>2, <2>2 DEF RoomsInv, TypeOK, NamesInv
  <2>4. f \in Op
    BY <2>2, <2>3 DEF Op, Steps
  <2>5. /\ f.at = "add" /\ f.room \in Names /\ f.id \in Ids
        /\ f.conn \in Conns /\ f.obj \in Objs /\ limit[f.obj] # None
    BY <2>2, <2>3 DEF Op
  <2> HIDE DEF f
  <2>6. op' \in [Callers -> Op] /\ OpInv'
    BY <2>1, <2>4, <2>5, ProceedKeepsOp DEF RoomsInv, JoinLookup
  <2> QED BY <2>6, LookKeepsInv DEF JoinLookup
<1> QED BY <1>1, <1>2

LEMMA LeaveLookupKeepsInv ==
  ASSUME RoomsInv, NEW p \in Callers, NEW r \in Names, NEW i \in Ids,
         LeaveLookup(p, r, i)
  PROVE  RoomsInv'
<1>1. CASE rooms[r] = None
  <2>1. Return(p, "room_not_found") /\ "room_not_found" \in Results
    BY <1>1 DEF LeaveLookup, Results
  <2>2. op' \in [Callers -> Op] /\ OpInv'
    BY <2>1, ReturnKeepsOp DEF RoomsInv, LeaveLookup
  <2> QED BY <2>2, LookKeepsInv DEF LeaveLookup
<1>2. CASE rooms[r] # None
  <2> DEFINE f == [at |-> "remove", room |-> r, id |-> i, conn |-> None,
                   obj |-> rooms[r]]
  <2>1. Proceed(p, f)
    BY <1>2 DEF LeaveLookup
  <2>2. rooms[r] \in Objs /\ limit[rooms[r]] # None
    BY <1>2 DEF RoomsInv, TypeOK, NamesInv
  <2>3. f \in Op
    BY <2>2 DEF Op, Steps
  <2>4. /\ f.at = "remove" /\ f.room \in Names /\ f.id \in Ids
        /\ f.obj \in Objs /\ limit[f.obj] # None
    BY <2>2
  <2> HIDE DEF f
  <2>5. op' \in [Callers -> Op] /\ OpInv'
    BY <2>1, <2>3, <2>4, ProceedKeepsOp DEF RoomsInv, LeaveLookup
  <2> QED BY <2>5, LookKeepsInv DEF LeaveLookup
<1> QED BY <1>1, <1>2

LEMMA RefusalKeepsInv ==
  ASSUME RoomsInv, NEW p \in Callers, AddRefused(p) \/ RemoveRefused(p)
  PROVE  RoomsInv'
<1>1. \E result \in Results : Return(p, result)
  BY DEF AddRefused, RemoveRefused, Results
<1>2. UNCHANGED <<clients, used, rooms, limit, members, activeRooms, joins,
                  leaves, closed>>
  BY DEF AddRefused, RemoveRefused
<1>3. op' \in [Callers -> Op] /\ OpInv'
  BY <1>1, <1>2, ReturnKeepsOp DEF RoomsInv
<1> QED BY <1>2, <1>3, LookKeepsInv

\* What AddClient does to the set of members.
LEMMA AddMembers ==
  ASSUME RoomsInv, NEW p \in Callers, AddClient(p)
  PROVE  /\ op[p].obj \in Objs /\ limit[op[p].obj] # None
         /\ members' \in [Objs -> [Ids -> Conns \cup {None}]]
         /\ \A o \in Objs : Members(o)' = IF o = op[p].obj
                                       THEN Members(o) \cup {op[p].id} ELSE Members(o)
<1>1. /\ op[p].obj \in Objs /\ limit[op[p].obj] # None
      /\ op[p].id \in Ids /\ op[p].conn \in Conns
  BY DEF RoomsInv, OpInv, AddClient, Steps
<1>2. members \in [Objs -> [Ids -> Conns \cup {None}]]
  BY DEF RoomsInv, TypeOK
<1>3. members' = [members EXCEPT ![op[p].obj][op[p].id] = op[p].conn]
  BY DEF AddClient
<1>4. members' \in [Objs -> [Ids -> Conns \cup {None}]]
  BY <1>1, <1>2, <1>3
<1>5. \A o \in Objs, i \in Ids :
         members'[o][i] = IF o = op[p].obj /\ i = op[p].id THEN op[p].conn
                          ELSE members[o][i]
  BY <1>1, <1>2, <1>3
<1>6. op[p].conn # None
  BY <1>1, NoneIsNone
<1>7. ASSUME NEW o \in Objs
      PROVE  Members(o)' = IF o = op[p].obj THEN Members(o) \cup {op[p].id}
                                            ELSE Members(o)
  BY <1>1, <1>5, <1>6 DEF Members
<1> QED BY <1>1, <1>4, <1>7

\* What RemoveClient does to it.
LEMMA RemoveMembers ==
  ASSUME RoomsInv, NEW p \in Callers, RemoveClient(p)
  PROVE  /\ op[p].obj \in Objs /\ limit[op[p].obj] # None
         /\ members' \in [Objs -> [Ids -> Conns \cup {None}]]
         /\ \A o \in Objs : Members(o)' = IF o = op[p].obj
                                       THEN Members(o) \ {op[p].id} ELSE Members(o)
<1>1. op[p].obj \in Objs /\ limit[op[p].obj] # None /\ op[p].id \in Ids
  BY DEF RoomsInv, OpInv, RemoveClient, Steps
<1>2. members \in [Objs -> [Ids -> Conns \cup {None}]]
  BY DEF RoomsInv, TypeOK
<1>3. members' = [members EXCEPT ![op[p].obj][op[p].id] = None]
  BY DEF RemoveClient
<1>4. members' \in [Objs -> [Ids -> Conns \cup {None}]]
  BY <1>1, <1>2, <1>3
<1>5. \A o \in Objs, i \in Ids :
         members'[o][i] = IF o = op[p].obj /\ i = op[p].id THEN None
                          ELSE members[o][i]
  BY <1>1, <1>2, <1>3
<1>6. ASSUME NEW o \in Objs
      PROVE  Members(o)' = IF o = op[p].obj THEN Members(o) \ {op[p].id}
                                            ELSE Members(o)
  BY <1>1, <1>5 DEF Members
<1> QED BY <1>1, <1>4, <1>6

LEMMA AddKeepsInv ==
  ASSUME RoomsInv, NEW p \in Callers, AddClient(p)
  PROVE  RoomsInv'
<1> DEFINE o == op[p].obj
           i == op[p].id
<1>1. UNCHANGED <<clients, used, rooms, limit, activeRooms, leaves, closed>>
  BY DEF AddClient
<1>2. op' \in [Callers -> Op] /\ OpInv'
  BY <1>1, ReturnKeepsOp DEF RoomsInv, AddClient, Results
<1>3. TypeOK'
  <2>1. joins' \in Nat
    BY DEF RoomsInv, TypeOK, AddClient
  <2>2. members' \in [Objs -> [Ids -> Conns \cup {None}]]
    BY AddMembers
  <2> QED BY <1>1, <1>2, <2>1, <2>2 DEF RoomsInv, TypeOK
<1>4. NamesInv'
  BY <1>1 DEF RoomsInv, NamesInv
<1>5. FreshInv'
  BY <1>1, AddMembers DEF RoomsInv, FreshInv
<1>6. ASSUME NEW q \in Objs, limit[q] # None, limit[q] > 0
      PROVE  Cardinality(Members(q)') <= limit[q]
  <2>1. limit[q] \in Nat
    BY <1>6, RoomsAssumption DEF RoomsInv, TypeOK
  <2>2. CASE q # o
    BY <1>6, <2>2, AddMembers DEF RoomsInv, WithinLimit
  <2>3. CASE q = o
    <3>1. Members(q)' = Members(q) \cup {i}
      BY <2>3, AddMembers
    <3>2. Cardinality(Members(q) \cup {i}) = Cardinality(Members(q)) + 1
      BY <2>3, MembersFinite, FS_AddElement DEF AddClient
    <3>3. Cardinality(Members(q)) < limit[q]
      BY <1>6, <2>1, <2>3, MembersFinite DEF AddClient, Full
    <3> QED BY <2>1, <3>1, <3>2, <3>3, MembersFinite
  <2> QED BY <2>2, <2>3
<1>7. WithinLimit'
  BY <1>1, <1>6 DEF WithinLimit
<1> QED BY <1>2, <1>3, <1>4, <1>5, <1>7 DEF RoomsInv

LEMMA RemoveKeepsInv ==
  ASSUME RoomsInv, NEW p \in Callers, RemoveClient(p)
  PROVE  RoomsInv'
<1>1. UNCHANGED <<clients, used, rooms, limit, activeRooms, joins, closed>>
  BY DEF RemoveClient
<1>2. op' \in [Callers -> Op] /\ OpInv'
  BY <1>1, ReturnKeepsOp DEF RoomsInv, RemoveClient, Results
<1>3. TypeOK'
  <2>1. leaves' \in Nat
    BY DEF RoomsInv, TypeOK, RemoveClient
  <2>2. members' \in [Objs -> [Ids -> Conns \cup {None}]]
    BY RemoveMembers
  <2> QED BY <1>1, <1>2, <2>1, <2>2 DEF RoomsInv, TypeOK
<1>4. NamesInv'
  BY <1>1 DEF RoomsInv, NamesInv
<1>5. FreshInv'
  BY <1>1, RemoveMembers DEF RoomsInv, FreshInv
<1>6. ASSUME NEW q \in Objs, limit[q] # None, limit[q] > 0
      PROVE  Cardinality(Members(q)') <= limit[q]
  <2>1. limit[q] \in Nat /\ Cardinality(Members(q)) <= limit[q]
    BY <1>6, RoomsAssumption DEF RoomsInv, TypeOK, WithinLimit
  <2>2. Members(q)' \in SUBSET Members(q)
    BY RemoveMembers
  <2>3. Cardinality(Members(q)') <= Cardinality(Members(q)) /\ IsFiniteSet(Members(q)')
    BY <2>2, MembersFinite, FS_Subset
  <2>4. Cardinality(Members(q)') \in Nat
    BY <2>3, FS_CardinalityType
  <2> QED BY <2>1, <2>3, <2>4, MembersFinite
<1>7. WithinLimit'
  BY <1>1, <1>6 DEF WithinLimit
<1> QED BY <1>2, <1>3, <1>4, <1>5, <1>7 DEF RoomsInv

LEMMA StutterKeepsRooms == RoomsInv /\ UNCHANGED vars => RoomsInv'
<1> SUFFICES ASSUME RoomsInv, UNCHANGED vars PROVE RoomsInv'
  OBVIOUS
<1>1. op' \in [Callers -> Op] /\ OpInv'
  BY DEF RoomsInv, TypeOK, OpInv, vars
<1> QED BY <1>1, LookKeepsInv DEF vars

\* The invariant is inductive: one case per action.
LEMMA NextRoomsInv == RoomsInv /\ [Next]_vars => RoomsInv'
<1> SUFFICES ASSUME RoomsInv, [Next]_vars PROVE RoomsInv'
  OBVIOUS
<1>1. CASE \E c \in Conns, i \in Ids : Connect(c, i)
  BY <1>1, HubKeepsInv
<1>2. CASE \E i \in Ids : Disconnect(i)
  BY <1>2, HubKeepsInv
<1>3. CASE \E r \in Names, o \in Objs, max \in Limits : CreateRoom(r, o, max)
  BY <1>3, CreateKeepsInv
<1>4. CASE Close \/ \E r \in Names : DeleteRoom(r)
  BY <1>4, DropKeepsInv
<1>5. ASSUME NEW p \in Callers, Call(p)
      PROVE  RoomsInv'
  BY <1>5, LoadKeepsInv, LeaveLookupKeepsInv, JoinLookupKeepsInv,
     RefusalKeepsInv, AddKeepsInv, RemoveKeepsInv DEF Call
<1>6. CASE UNCHANGED vars
  BY <1>6, StutterKeepsRooms
<1> QED BY <1>1, <1>2, <1>3, <1>4, <1>5, <1>6 DEF Next

LEMMA RoomsInvariant == Spec => []RoomsInv
  BY InitRoomsInv, NextRoomsInv, PTL DEF Spec

\* Every variable keeps its type.
THEOREM RoomsTypeCorrect == Spec => []TypeOK
<1>1. RoomsInv => TypeOK
  BY DEF RoomsInv
<1> QED BY RoomsInvariant, <1>1, PTL

\* No interleaving of joins, leaves and deletions overfills a room.
THEOREM RoomsWithinLimit == Spec => []WithinLimit
<1>1. RoomsInv => WithinLimit
  BY DEF RoomsInv
<1> QED BY RoomsInvariant, <1>1, PTL

-------------------------------------------------------------------------------
(* The metrics                                                             *)

\* What MetricsAgree says, of finite sets.
CountInv == MetricsAgree /\ IsFiniteSet(Memberships) /\ IsFiniteSet(Named)

\* Nothing is counted at first.
LEMMA InitCountInv == Init => CountInv
<1> SUFFICES ASSUME Init PROVE CountInv
  OBVIOUS
<1>1. Memberships = {}
  BY DEF Init, Memberships
<1>2. Named = {}
  BY DEF Init, Named
<1>3. joins = 0 /\ leaves = 0 /\ activeRooms = 0
  BY DEF Init
<1> QED BY <1>1, <1>2, <1>3, FS_EmptySet DEF CountInv, MetricsAgree

\* An id is counted into a room it was not in.
LEMMA AddCounts ==
  ASSUME RoomsInv, CountInv, NEW p \in Callers, AddClient(p)
  PROVE  CountInv'
<1> DEFINE m == <<op[p].obj, op[p].id>>
<1>1. /\ op[p].obj \in Objs /\ op[p].id \in Ids /\ op[p].conn \in Conns
      /\ members \in [Objs -> [Ids -> Conns \cup {None}]]
  BY DEF RoomsInv, TypeOK, OpInv, AddClient, Steps
<1>2. members' = [members EXCEPT ![op[p].obj][op[p].id] = op[p].conn]
  BY DEF AddClient
<1>3. \A o \in Objs, i \in Ids :
          members'[o][i] = IF o = op[p].obj /\ i = op[p].id THEN op[p].conn
                           ELSE members[o][i]
  BY <1>1, <1>2
<1>4. m \notin Memberships
  BY <1>1 DEF AddClient, Members, Memberships
<1>5. Memberships' = Memberships \cup {m}
  BY <1>1, <1>3, NoneIsNone DEF Memberships
<1>6. joins' = joins + 1 /\ UNCHANGED <<leaves, rooms, activeRooms, closed>>
  BY DEF AddClient
<1>7. /\ IsFiniteSet(Memberships')
      /\ Cardinality(Memberships') = Cardinality(Memberships) + 1
  BY <1>4, <1>5, FS_AddElement DEF CountInv
<1>8. Cardinality(Memberships) \in Nat /\ joins \in Nat /\ leaves \in Nat
  BY FS_CardinalityType DEF CountInv, RoomsInv, TypeOK
<1>9. Named' = Named
  BY <1>6 DEF Named
<1> QED BY <1>6, <1>7, <1>8, <1>9 DEF CountInv, MetricsAgree

\* An id is counted out of a room it was in.
LEMMA RemoveCounts ==
  ASSUME RoomsInv, CountInv, NEW p \in Callers, RemoveClient(p)
  PROVE  CountInv'
<1> DEFINE m == <<op[p].obj, op[p].id>>
<1>1. /\ op[p].obj \in Objs /\ op[p].id \in Ids
      /\ members \in [Objs -> [Ids -> Conns \cup {None}]]
  BY DEF RoomsInv, TypeOK, OpInv, RemoveClient, Steps
<1>2. members' = [members EXCEPT ![op[p].obj][op[p].id] = None]
  BY DEF RemoveClient
<1>3. \A o \in Objs, i \in Ids :
          members'[o][i] = IF o = op[p].obj /\ i = op[p].id THEN None
                           ELSE members[o][i]
  BY <1>1, <1>2
<1>4. m \in Memberships
  BY <1>1 DEF RemoveClient, Members, Memberships
<1>5. Memberships' = Memberships \ {m}
  BY <1>1, <1>3 DEF Memberships
<1>6. leaves' = leaves + 1 /\ UNCHANGED <<joins, rooms, activeRooms, closed>>
  BY DEF RemoveClient
<1>7. /\ IsFiniteSet(Memberships')
      /\ Cardinality(Memberships') = Cardinality(Memberships) - 1
  BY <1>4, <1>5, FS_RemoveElement DEF CountInv
<1>8. Cardinality(Memberships) \in Nat /\ joins \in Nat /\ leaves \in Nat
  BY FS_CardinalityType DEF CountInv, RoomsInv, TypeOK
<1>9. Named' = Named
  BY <1>6 DEF Named
<1> QED BY <1>6, <1>7, <1>8, <1>9 DEF CountInv, MetricsAgree

\* The gauge follows the names.
LEMMA CreateCounts ==
  ASSUME RoomsInv, CountInv, NEW r \in Names, NEW o \in Objs,
         NEW max \in Limits, CreateRoom(r, o, max)
  PROVE  CountInv'
<1>1. r \notin Named /\ Named' = Named \cup {r}
  BY NoneIsNone DEF RoomsInv, TypeOK, CreateRoom, Named
<1>2. /\ activeRooms' = activeRooms + 1
      /\ UNCHANGED <<members, joins, leaves, closed>>
  BY DEF CreateRoom
<1>3. IsFiniteSet(Named') /\ Cardinality(Named') = Cardinality(Named) + 1
  BY <1>1, FS_AddElement DEF CountInv
<1>4. Memberships' = Memberships
  BY <1>2 DEF Memberships
<1> QED BY <1>2, <1>3, <1>4 DEF CountInv, MetricsAgree

LEMMA DeleteCounts ==
  ASSUME RoomsInv, CountInv, NEW r \in Names, DeleteRoom(r)
  PROVE  CountInv'
<1>1. r \in Named /\ Named' = Named \ {r}
  BY DEF RoomsInv, TypeOK, DeleteRoom, Named
<1>2. /\ activeRooms' = activeRooms - 1
      /\ UNCHANGED <<members, joins, leaves, closed>>
  BY DEF DeleteRoom
<1>3. IsFiniteSet(Named') /\ Cardinality(Named') = Cardinality(Named) - 1
  BY <1>1, FS_RemoveElement DEF CountInv
<1>4. Memberships' = Memberships
  BY <1>2 DEF Memberships
<1> QED BY <1>2, <1>3, <1>4 DEF CountInv, MetricsAgree

\* Close gives the gauge up and keeps the memberships.
LEMMA CloseCounts == CountInv /\ Close => CountInv'
<1> SUFFICES ASSUME CountInv, Close PROVE CountInv'
  OBVIOUS
<1>1. Named' = {}
  BY DEF Close, Named
<1>2. closed' = TRUE /\ UNCHANGED <<members, joins, leaves>>
  BY DEF Close
<1>3. Memberships' = Memberships
  BY <1>2 DEF Memberships
<1> QED BY <1>1, <1>2, <1>3, FS_EmptySet DEF CountInv, MetricsAgree

\* One case per step that counts.
LEMMA NextCountInv == RoomsInv /\ CountInv /\ [Next]_vars => CountInv'
<1> SUFFICES ASSUME RoomsInv, CountInv, [Next]_vars PROVE CountInv'
  OBVIOUS
<1>1. ASSUME UNCHANGED <<rooms, members, activeRooms, joins, leaves, closed>>
      PROVE  CountInv'
  BY <1>1 DEF CountInv, MetricsAgree, Memberships, Named
<1>2. CASE \/ \E c \in Conns, i \in Ids : Connect(c, i)
           \/ \E i \in Ids : Disconnect(i)
           \/ UNCHANGED vars
  BY <1>1, <1>2 DEF Connect, Disconnect, vars
<1>3. CASE \E r \in Names, o \in Objs, max \in Limits : CreateRoom(r, o, max)
  BY <1>3, CreateCounts
<1>4. CASE \E r \in Names : DeleteRoom(r)
  BY <1>4, DeleteCounts
<1>5. CASE Close
  BY <1>5, CloseCounts
<1>6. ASSUME NEW p \in Callers, Call(p)
      PROVE  CountInv'
  <2>1. CASE AddClient(p)
    BY <2>1, AddCounts
  <2>2. CASE RemoveClient(p)
    BY <2>2, RemoveCounts
  <2>3. CASE \/ \E r \in Names, i \in Ids : LoadClient(p, r, i) \/ LeaveLookup(p, r, i)
             \/ JoinLookup(p) \/ AddRefused(p) \/ RemoveRefused(p)
    BY <1>1, <2>3
    DEF LoadClient, LeaveLookup, JoinLookup, AddRefused, RemoveRefused
  <2> QED BY <1>6, <2>1, <2>2, <2>3 DEF Call
<1> QED BY <1>2, <1>3, <1>4, <1>5, <1>6 DEF Next

\* No id is counted into a room twice or out of it twice, and until Close the
\* gauge counts the rooms (room.go:66-68, 81-83, 265-290).
THEOREM RoomsMetricsAgree == Spec => []MetricsAgree
<1>1. RoomsInv /\ CountInv /\ [Next]_vars => CountInv'
  BY NextCountInv
<1>2. CountInv => MetricsAgree
  BY DEF CountInv
<1> QED BY InitCountInv, RoomsInvariant, <1>1, <1>2, PTL DEF Spec

-------------------------------------------------------------------------------
(* Rooms implements RoomRoster                                             *)

\* The roster a lookup sees of one name.
RoomView(r) == IF rooms[r] = None
               THEN [open |-> FALSE, limit |-> 0, members |-> {}]
               ELSE [open |-> TRUE, limit |-> limit[rooms[r]],
                     members |-> Members(rooms[r])]

LEMMA ViewIs == /\ RosterView = [r \in Names |-> RoomView(r)]
                /\ RosterView' = [r \in Names |-> RoomView(r)']
  BY DEF RosterView, RoomView

\* The roster counts with the same Cardinality.
LEMMA SameCardinality == \A S : Roster!Cardinality(S) = Cardinality(S)
  BY DEF Roster!Cardinality, Cardinality

\* Two rosters are equal when they agree on every name.
LEMMA ViewsAgree ==
  ASSUME \A r \in Names : RoomView(r)' = RoomView(r)
  PROVE  RosterView' = RosterView
  BY ViewIs

\* A step that leaves the rooms alone is a stutter.
LEMMA RoomsAloneStutters ==
  ASSUME UNCHANGED <<rooms, limit, members>>
  PROVE  RosterView' = RosterView
  BY DEF RosterView, Members

LEMMA InitRefines == Init => Roster!RosterInit
  BY DEF Init, Roster!RosterInit, Roster!NoRoom, RosterView

\* CreateRoom opens an empty room.
LEMMA CreateRefines ==
  ASSUME RoomsInv, NEW r \in Names, NEW o \in Objs, NEW max \in Limits,
         CreateRoom(r, o, max)
  PROVE  Roster!Create(r, max)
<1> DEFINE new == [open |-> TRUE, limit |-> max, members |-> {}]
<1>1. limit[o] = None /\ Members(o) = {} /\ o # None
  BY NoneIsNone DEF RoomsInv, FreshInv, CreateRoom
<1>2. \A s \in Names : rooms'[s] = IF s = r THEN o ELSE rooms[s]
  BY DEF RoomsInv, TypeOK, CreateRoom
<1>3. \A q \in Objs : limit'[q] = IF q = o THEN max ELSE limit[q]
  BY DEF RoomsInv, TypeOK, CreateRoom
<1>4. \A q : Members(q)' = Members(q)
  BY DEF CreateRoom, Members
<1>5. RoomView(r)' = new
  BY <1>1, <1>2, <1>3, <1>4 DEF RoomView
<1>6. ASSUME NEW s \in Names, s # r
      PROVE  RoomView(s)' = RoomView(s)
  <2>1. rooms'[s] = rooms[s]
    BY <1>2, <1>6
  <2>2. rooms[s] # None => rooms[s] \in Objs /\ rooms[s] # o
    BY <1>1 DEF RoomsInv, TypeOK, NamesInv
  <2> QED BY <1>3, <1>4, <2>1, <2>2 DEF RoomView
<1>7. RosterView' = [RosterView EXCEPT ![r] = new]
  BY <1>5, <1>6, ViewIs
<1>8. ~RosterView[r].open
  BY ViewIs DEF RoomView, CreateRoom
<1> QED BY <1>7, <1>8 DEF Roster!Create, Roster!Room

\* DeleteRoom closes the name's room.
LEMMA DeleteRefines ==
  ASSUME RoomsInv, NEW r \in Names, DeleteRoom(r)
  PROVE  Roster!Delete(r)
<1>1. \A s \in Names : rooms'[s] = IF s = r THEN None ELSE rooms[s]
  BY DEF RoomsInv, TypeOK, DeleteRoom
<1>2. limit' = limit /\ \A q : Members(q)' = Members(q)
  BY DEF DeleteRoom, Members
<1>3. RoomView(r)' = [open |-> FALSE, limit |-> 0, members |-> {}]
  BY <1>1 DEF RoomView
<1>4. \A s \in Names \ {r} : RoomView(s)' = RoomView(s)
  BY <1>1, <1>2 DEF RoomView
<1>5. RosterView' = [RosterView EXCEPT ![r] = Roster!NoRoom]
  BY <1>3, <1>4, ViewIs DEF Roster!NoRoom
<1>6. RosterView[r].open
  BY ViewIs DEF RoomView, DeleteRoom
<1> QED BY <1>5, <1>6 DEF Roster!Delete

LEMMA CloseRefines == Close => Roster!Clear
  BY DEF Close, Roster!Clear, Roster!NoRoom, RosterView

\* A room that changes its members is seen under its name, if it has one.
LEMMA MembersRefine ==
  ASSUME RoomsInv, NEW o \in Objs, NEW S, UNCHANGED <<rooms, limit>>,
         \A q \in Objs : Members(q)' = IF q = o THEN S ELSE Members(q)
  PROVE  \/ RosterView' = RosterView
         \/ \E r \in Names : /\ rooms[r] = o /\ rooms[r] # None
                            /\ RosterView' = [RosterView EXCEPT ![r] = Roster!Room(limit[o], S)]
<1>1. \A r \in Names : rooms[r] # None => rooms[r] \in Objs
  BY DEF RoomsInv, TypeOK
<1>2. CASE \A r \in Names : rooms[r] # o
  <2>1. \A r \in Names : RoomView(r)' = RoomView(r)
    BY <1>1, <1>2 DEF RoomView
  <2> QED BY <2>1, ViewsAgree
<1>3. CASE \E r \in Names : rooms[r] = o
  <2>1. PICK r \in Names : rooms[r] = o
    BY <1>3
  <2>2. rooms[r] # None
    BY <2>1, NoneIsNone
  <2>3. \A s \in Names \ {r} : RoomView(s)' = RoomView(s)
    BY <1>1, <2>1, <2>2 DEF RoomView, RoomsInv, NamesInv
  <2>4. /\ RoomView(r) = [open |-> TRUE, limit |-> limit[o], members |-> Members(o)]
        /\ RoomView(r)' = [open |-> TRUE, limit |-> limit[o], members |-> S]
    BY <2>1, <2>2 DEF RoomView
  <2>5. RosterView' = [RosterView EXCEPT ![r] = Roster!Room(limit[o], S)]
    BY <2>3, <2>4, ViewIs DEF Roster!Room
  <2> QED BY <2>1, <2>2, <2>5
<1> QED BY <1>2, <1>3

\* A member joins the room a name leads to, or one nobody can look up.
LEMMA AddRefines ==
  ASSUME RoomsInv, NEW p \in Callers, AddClient(p)
  PROVE  \/ RosterView' = RosterView
         \/ \E r \in Names : Roster!Join(r, op[p].id)
<1> DEFINE o == op[p].obj
           i == op[p].id
<1>1. o \in Objs /\ limit[o] # None /\ limit[o] \in Nat
  BY AddMembers, RoomsAssumption DEF RoomsInv, TypeOK
<1>2. ASSUME NEW r \in Names, rooms[r] = o, rooms[r] # None,
             RosterView' = [RosterView EXCEPT ![r] = Roster!Room(limit[o], Members(o) \cup {i})]
      PROVE  Roster!Join(r, i)
  <2>1. RosterView[r] = [open |-> TRUE, limit |-> limit[o], members |-> Members(o)]
    BY <1>2, ViewIs DEF RoomView
  <2>2. i \notin Members(o)
    BY DEF AddClient
  <2>3. limit[o] > 0 => Cardinality(Members(o)) < limit[o]
    BY <1>1, MembersFinite DEF AddClient, Full
  <2>4. /\ RosterView[r].open /\ RosterView[r].limit = limit[o]
        /\ RosterView[r].members = Members(o)
    BY <2>1
  <2> QED BY <1>2, <2>2, <2>3, <2>4, SameCardinality DEF Roster!Join
<1>3. UNCHANGED <<rooms, limit>>
  BY DEF AddClient
<1>4. \A q \in Objs : Members(q)' = IF q = o THEN Members(o) \cup {i} ELSE Members(q)
  BY AddMembers
<1> HIDE DEF o, i
<1>5. \/ RosterView' = RosterView
      \/ \E r \in Names : /\ rooms[r] = o /\ rooms[r] # None
                         /\ RosterView' = [RosterView EXCEPT
                                ![r] = Roster!Room(limit[o], Members(o) \cup {i})]
  BY <1>1, <1>3, <1>4, MembersRefine
<1>6. RosterView' = RosterView \/ \E r \in Names : Roster!Join(r, i)
  BY <1>2, <1>5
<1> QED BY <1>6 DEF i

LEMMA RemoveRefines ==
  ASSUME RoomsInv, NEW p \in Callers, RemoveClient(p)
  PROVE  \/ RosterView' = RosterView
         \/ \E r \in Names : Roster!Leave(r, op[p].id)
<1> DEFINE o == op[p].obj
           i == op[p].id
<1>1. ASSUME NEW r \in Names, rooms[r] = o, rooms[r] # None,
             RosterView' = [RosterView EXCEPT ![r] = Roster!Room(limit[o], Members(o) \ {i})]
      PROVE  Roster!Leave(r, i)
  <2>1. RosterView[r] = [open |-> TRUE, limit |-> limit[o], members |-> Members(o)]
    BY <1>1, ViewIs DEF RoomView
  <2>2. i \in Members(o)
    BY DEF RemoveClient
  <2>3. /\ RosterView[r].open /\ RosterView[r].limit = limit[o]
        /\ RosterView[r].members = Members(o)
    BY <2>1
  <2> QED BY <1>1, <2>2, <2>3 DEF Roster!Leave
<1>2. UNCHANGED <<rooms, limit>>
  BY DEF RemoveClient
<1>3. \A q \in Objs : Members(q)' = IF q = o THEN Members(o) \ {i} ELSE Members(q)
  BY RemoveMembers
<1>4. o \in Objs
  BY RemoveMembers
<1> HIDE DEF o, i
<1>5. \/ RosterView' = RosterView
      \/ \E r \in Names : /\ rooms[r] = o /\ rooms[r] # None
                         /\ RosterView' = [RosterView EXCEPT
                                ![r] = Roster!Room(limit[o], Members(o) \ {i})]
  BY <1>2, <1>3, <1>4, MembersRefine
<1>6. RosterView' = RosterView \/ \E r \in Names : Roster!Leave(r, i)
  BY <1>1, <1>5
<1> QED BY <1>6 DEF i

\* Every step is a step of the roster or a stutter.
LEMMA NextRefines ==
  RoomsInv /\ [Next]_vars => [Roster!RosterNext]_RosterView
<1> SUFFICES ASSUME RoomsInv, [Next]_vars
             PROVE  Roster!RosterNext \/ RosterView' = RosterView
  OBVIOUS
<1>1. CASE \/ \E c \in Conns, i \in Ids : Connect(c, i)
           \/ \E i \in Ids : Disconnect(i)
           \/ UNCHANGED vars
  <2>1. UNCHANGED <<rooms, limit, members>>
    BY <1>1 DEF Connect, Disconnect, vars
  <2> QED BY <2>1, RoomsAloneStutters
<1>2. CASE \E r \in Names, o \in Objs, max \in Limits : CreateRoom(r, o, max)
  BY <1>2, CreateRefines DEF Roster!RosterNext
<1>3. CASE \E r \in Names : DeleteRoom(r)
  BY <1>3, DeleteRefines DEF Roster!RosterNext
<1>4. CASE Close
  BY <1>4, CloseRefines DEF Roster!RosterNext
<1>5. ASSUME NEW p \in Callers, Call(p)
      PROVE  Roster!RosterNext \/ RosterView' = RosterView
  <2>1. CASE AddClient(p)
    <3>1. op[p].id \in Ids
      BY <2>1 DEF RoomsInv, OpInv, AddClient, Steps
    <3> QED BY <2>1, <3>1, AddRefines DEF Roster!RosterNext
  <2>2. CASE RemoveClient(p)
    <3>1. op[p].id \in Ids
      BY <2>2 DEF RoomsInv, OpInv, RemoveClient, Steps
    <3> QED BY <2>2, <3>1, RemoveRefines DEF Roster!RosterNext
  <2>3. CASE \/ \E r \in Names, i \in Ids : LoadClient(p, r, i) \/ LeaveLookup(p, r, i)
             \/ JoinLookup(p) \/ AddRefused(p) \/ RemoveRefused(p)
    <3>1. UNCHANGED <<rooms, limit, members>>
      BY <2>3 DEF LoadClient, LeaveLookup, JoinLookup, AddRefused, RemoveRefused
    <3> QED BY <3>1, RoomsAloneStutters
  <2> QED BY <1>5, <2>1, <2>2, <2>3 DEF Call
<1> QED BY <1>1, <1>2, <1>3, <1>4, <1>5 DEF Next

\* Whatever callers hold deleted rooms, lookups by name see the abstract roster:
\* the manager's map and its rooms, behind two kinds of locks, implement it.
THEOREM RoomsRefineRoster == Spec => ImplementsRoster
<1>1. Init => Roster!RosterInit
  BY InitRefines
<1>2. RoomsInv /\ [Next]_vars => [Roster!RosterNext]_RosterView
  BY NextRefines
<1> QED BY <1>1, <1>2, RoomsInvariant, PTL
        DEF Spec, ImplementsRoster, Roster!RosterSpec
===============================================================================
