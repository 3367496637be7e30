------------------------------ MODULE ServerProofs ------------------------------
(***************************************************************************)
(* Proofs about Server.tla, for every set of connections and of ids and    *)
(* every setting of the authentication.  Each step of the server is a step *)
(* of the registry or leaves the registry alone, so that the invariant of  *)
(* RegistryProofs holds here too.                                          *)
(***************************************************************************)
EXTENDS Server, RegistryProofs

ServerSafety == SInit /\ [][SNext]_svars

\* The fairness of the server asks for no other steps.
LEMMA SpecIsSafe == ServerSpec => ServerSafety
  BY PTL DEF ServerSpec, ServerSafety

\* A step of the server is a step of the registry or none.
LEMMA StepOfRegistry == [SNext]_svars => [Next]_vars
<1> SUFFICES ASSUME [SNext]_svars PROVE [Next]_vars
  OBVIOUS
<1>1. ASSUME NEW c \in Conns, Upgrade(c) \/ SetAuthClaims(c) \/ JoinRoom(c)
                              \/ Join(c) \/ LeaveRoom(c)
      PROVE  UNCHANGED vars
  BY <1>1 DEF Upgrade, SetAuthClaims, JoinRoom, Join, LoadJoiner, AddJoiner, LeaveRoom
<1>8. ASSUME NEW i \in Ids, SDKLoad(i) \/ SDKAdd(i) \/ SDKLeave(i)
      PROVE  UNCHANGED vars
  BY <1>8 DEF SDKLoad, SDKAdd, SDKLeave
<1>2. ASSUME NEW c \in Conns, MakeClient(c) \/ FailClient(c)
      PROVE  Next
  BY <1>2 DEF MakeClient, FailClient, Next
<1>3. ASSUME NEW c \in Conns, RegisterClient(c) PROVE Next
  BY <1>3 DEF RegisterClient, Next, Setup
<1>4. ASSUME NEW c \in Conns, CloseClient(c) PROVE Next
  BY <1>4 DEF CloseClient, Next, OnceBody
<1>5. CASE CloseSDK \/ CloseBus \/ CloseHTTP
  BY <1>5 DEF CloseSDK, CloseBus, CloseHTTP
<1>6. CASE BeginHubClose \/ VisitClients \/ EndHubClose
  BY <1>6 DEF BeginHubClose, VisitClients, EndHubClose, CloseHub, Next
<1>7. CASE UNCHANGED svars
  BY <1>7 DEF svars
<1> QED
  BY <1>1, <1>2, <1>3, <1>4, <1>5, <1>6, <1>7, <1>8
  DEF SNext, HandshakeEnds, ShutdownServer

-------------------------------------------------------------------------------
(* What a connection may do, and where it stands.                          *)

\* An id, once given, is kept.
LEMMA IdIsKept ==
    ASSUME RegInv, [Next]_vars
    PROVE  \A c \in Conns : id[c] # None => id'[c] = id[c] /\ setup'[c] # "none"
<1> USE DEF RegInv, TypeOK, TableInv, SetupLabel, SetupTo, LifeTo
<1>1. ASSUME NEW c \in Conns, NewClient(c)
      PROVE  \A d \in Conns : id[d] # None => id'[d] = id[d] /\ setup'[d] # "none"
  BY <1>1 DEF NewClient
<1>2. ASSUME NEW c \in Conns, Setup(c)
      PROVE  \A d \in Conns : id[d] # None => id'[d] = id[d] /\ setup'[d] # "none"
  BY <1>2 DEF Setup, RegisterNew, RegisterLoaded, ShutdownOld, OldShutdownReturns,
              UnsubscribeOld, StoreReplacement, StartUnicast, AnnounceConnected
<1>3. ASSUME NEW c \in Conns, Fail(c) \/ OnceBody(c)
      PROVE  UNCHANGED <<id, setup>>
  BY <1>3 DEF Fail, OnceBody, Unregister, UnsubscribeOwn, AnnounceDisconnected,
              CloseConn
<1>4. CASE BeginClose \/ CloseHub
  BY <1>4 DEF BeginClose, CloseHub, VisitClient, ShutdownVisited, VisitedReturns,
              EndClose
<1>5. CASE UNCHANGED vars
  BY <1>5 DEF vars
<1> QED BY <1>1, <1>2, <1>3, <1>4, <1>5 DEF Next

\* Claims are the connection's own; whoever is about to join, or to make the
\* connection of its id join, was allowed to; what a call of the SDK has found has
\* the id it looked for.
JoinInv ==
    /\ \A c \in Conns :
          /\ setup[c] # "none" => token[c] # "unasked"
          /\ claims[c] \in {"absent", token[c]}
          /\ work[c] = "permitted" \/ work[c] \in Conns
                => setup[c] # "none" /\ token[c] = "grants"
          /\ work[c] \in Conns => id[work[c]] = id[c]
    /\ \A i \in Ids : call[i] # "idle" => id[call[i]] = i
    /\ MemberHadPermission

ServerInv == RegInv /\ ServerTypeOK /\ JoinInv

\* Nobody is connected at first.
LEMMA InitServerInv == SInit => ServerInv
<1> SUFFICES ASSUME SInit PROVE ServerInv
  OBVIOUS
<1>1. RegInv
  BY InitRegInv DEF SInit
<1>2. ServerTypeOK
  BY RegistryAssumption DEF SInit, Init, ServerTypeOK, Shown
<1>3. JoinInv
  BY RegistryAssumption, ServerAssumption
  DEF SInit, Init, JoinInv, MemberHadPermission
<1> QED BY <1>1, <1>2, <1>3 DEF ServerInv

\* Every step of a handshake, of a message and of Shutdown keeps it.
LEMMA NextServerInv == ServerInv /\ [SNext]_svars => ServerInv'
<1> SUFFICES ASSUME ServerInv, [SNext]_svars PROVE ServerInv'
  OBVIOUS
<1>1. RegInv'
  BY NextRegInv, StepOfRegistry DEF ServerInv
<1>2. \A c \in Conns : id[c] # None => id'[c] = id[c] /\ setup'[c] # "none"
  BY IdIsKept, StepOfRegistry DEF ServerInv
<1>3. ServerTypeOK' /\ JoinInv'
  <2> USE RegistryAssumption, ServerAssumption
      DEF ServerInv, RegInv, TypeOK, TableInv, ServerTypeOK, JoinInv, Shown,
          MemberHadPermission, SetupLabel, LifeLabel, SetupTo, LifeTo, roomVars
  <2>1. ASSUME NEW c \in Conns, Upgrade(c) PROVE ServerTypeOK' /\ JoinInv'
    BY <2>1 DEF Upgrade, vars
  <2>2. ASSUME NEW c \in Conns, MakeClient(c) PROVE ServerTypeOK' /\ JoinInv'
    BY <2>2, <1>2 DEF MakeClient, NewClient, serverVars
  <2>3. ASSUME NEW c \in Conns, SetAuthClaims(c) PROVE ServerTypeOK' /\ JoinInv'
    BY <2>3 DEF SetAuthClaims, vars
  <2>4. ASSUME NEW c \in Conns, RegisterClient(c) PROVE ServerTypeOK' /\ JoinInv'
    <3>1. /\ UNCHANGED <<token, claims, work, roomVars, stop, hub, id>>
          /\ \A d \in Conns : setup'[d] = "none" <=> setup[d] = "none"
      BY <2>4 DEF RegisterClient, serverVars, RegisterNew, RegisterLoaded,
                  ShutdownOld, OldShutdownReturns, UnsubscribeOld,
                  StoreReplacement, StartUnicast, AnnounceConnected
    <3> QED BY <3>1
  <2>5. ASSUME NEW c \in Conns, CloseClient(c) \/ FailClient(c)
        PROVE  ServerTypeOK' /\ JoinInv'
    <3>1. UNCHANGED <<token, claims, work, roomVars, stop, hub, id, setup>>
      BY <2>5 DEF CloseClient, FailClient, serverVars, Fail, Unregister,
                  UnsubscribeOwn, AnnounceDisconnected, CloseConn
    <3> QED BY <3>1
  <2>6. ASSUME NEW c \in Conns, JoinRoom(c) PROVE ServerTypeOK' /\ JoinInv'
    BY <2>6 DEF JoinRoom, Reading, HasPermission, WorkTo, vars
  <2>7. ASSUME NEW c \in Conns, LoadJoiner(c) PROVE ServerTypeOK' /\ JoinInv'
    <3>1. id[c] \in Ids
      BY <2>7 DEF LoadJoiner
    <3>2. clients[id[c]] # None => /\ clients[id[c]] \in Conns
                                   /\ id[clients[id[c]]] = id[c]
      BY <3>1
    <3> QED BY <2>7, <3>1, <3>2 DEF LoadJoiner, WorkTo, vars
  <2>8. ASSUME NEW c \in Conns, AddJoiner(c) PROVE ServerTypeOK' /\ JoinInv'
    <3>1. id[c] \in Ids /\ id[work[c]] = id[c] /\ token[c] = "grants"
      BY <2>8 DEF AddJoiner
    <3>2. /\ UNCHANGED <<token, claims, call, stop, hub, id, setup>>
          /\ work' = [work EXCEPT ![c] = "idle"]
          /\ \/ UNCHANGED <<member, entered>>
             \/ /\ member' = [member EXCEPT ![id[c]] = work[c]]
                /\ entered' = [entered EXCEPT ![id[c]] = c]
      BY <2>8 DEF AddJoiner, Enter, WorkTo, vars
    <3>3. work[c] \in Conns /\ c # "sdk"
      BY <2>8 DEF AddJoiner
    <3>4. ServerTypeOK'
      BY <3>1, <3>2, <3>3
    <3> QED BY <3>1, <3>2, <3>3, <3>4
  <2>9. ASSUME NEW c \in Conns, LeaveRoom(c) PROVE ServerTypeOK' /\ JoinInv'
    BY <2>9 DEF LeaveRoom, Leave, Reading, vars
  <2>10. CASE CloseSDK \/ CloseBus \/ CloseHTTP
    BY <2>10 DEF CloseSDK, CloseBus, CloseHTTP, StopTo, vars
  <2>11. CASE BeginHubClose \/ VisitClients \/ EndHubClose
    <3>1. UNCHANGED <<token, claims, work, roomVars, id, setup>>
      BY <2>11 DEF BeginHubClose, BeginClose, VisitClients, EndHubClose, CloseHub,
                   VisitClient, ShutdownVisited, VisitedReturns, EndClose, StopTo,
                   serverVars
    <3>2. /\ stop' \in {"no", "hub", "bus", "http", "returned"}
          /\ stop' \in {"bus", "http", "returned"} <=> hub' = "closed"
      BY <2>11 DEF BeginHubClose, BeginClose, VisitClients, EndHubClose, CloseHub,
                   VisitClient, ShutdownVisited, VisitedReturns, EndClose, StopTo,
                   serverVars
    <3> QED BY <3>1, <3>2
  <2>12. CASE UNCHANGED svars
    BY <2>12 DEF svars, serverVars, vars
  <2>13. ASSUME NEW i \in Ids, SDKLoad(i) PROVE ServerTypeOK' /\ JoinInv'
    <3>1. clients[i] \in Conns /\ id[clients[i]] = i
      BY <2>13 DEF SDKLoad
    <3> QED BY <2>13, <3>1 DEF SDKLoad, vars
  <2>14. ASSUME NEW i \in Ids, SDKAdd(i) PROVE ServerTypeOK' /\ JoinInv'
    <3>1. call[i] \in Conns /\ id[call[i]] = i
      BY <2>14 DEF SDKAdd
    <3>2. /\ UNCHANGED <<token, claims, work, stop, hub, id, setup>>
          /\ call' = [call EXCEPT ![i] = "idle"]
          /\ \/ UNCHANGED <<member, entered>>
             \/ /\ member' = [member EXCEPT ![i] = call[i]]
                /\ entered' = [entered EXCEPT ![i] = "sdk"]
      BY <2>14 DEF SDKAdd, Enter, vars
    <3> QED BY <3>1, <3>2
  <2>15. ASSUME NEW i \in Ids, SDKLeave(i) PROVE ServerTypeOK' /\ JoinInv'
    BY <2>15 DEF SDKLeave, Leave, vars
  <2> QED
    BY <2>1, <2>2, <2>3, <2>4, <2>5, <2>6, <2>7, <2>8, <2>9, <2>10, <2>11, <2>12,
       <2>13, <2>14, <2>15
    DEF SNext, HandshakeEnds, Join, ShutdownServer
<1> QED BY <1>1, <1>3 DEF ServerInv

\* Every variable of the server keeps its type, and Shutdown its order
\* (server.go:183-208).
THEOREM ServerTypeCorrect == ServerSpec => []ServerTypeOK
<1>1. ServerInv => ServerTypeOK
  BY DEF ServerInv
<1> QED BY SpecIsSafe, InitServerInv, NextServerInv, <1>1, PTL DEF ServerSafety

\* Whoever is in the room was put there by the application, or at the request of a
\* connection of that id whose own token allows it to join, however connections,
\* replacements, claims and calls of the SDK interleave (handlers.go:79-120,
\* server.go:273-286, hub.go:433-442, sdk.go:157-163).
THEOREM MembersHadPermission == ServerSpec => []MemberHadPermission
<1>1. ServerInv => MemberHadPermission
  BY DEF ServerInv, JoinInv
<1> QED BY SpecIsSafe, InitServerInv, NextServerInv, <1>1, PTL DEF ServerSafety

-------------------------------------------------------------------------------
(* What the handlers of the SDK hear                                       *)

Events == {"connected", "disconnected"}

\* At most one of each.
InTwo(h) == /\ h \in Seq(Events)
            /\ Len(h) <= 2 /\ ~(Len(h) = 2 /\ h[1] = h[2])

Said(h) == {h[k] : k \in DOMAIN h}

\* An event not heard yet finds room, and adds itself to those heard.
LEMMA Hearing ==
    ASSUME NEW h, InTwo(h), NEW event \in Events, event \notin Said(h)
    PROVE  /\ InTwo(Append(h, event))
           /\ Said(Append(h, event)) = Said(h) \cup {event}
<1>1. h \in Seq(Events) /\ Len(h) \in Nat /\ DOMAIN h = 1 .. Len(h)
  BY DEF InTwo
<1>2. Len(h) <= 1
  <2>1. ASSUME Len(h) = 2 PROVE FALSE
    <3>1. 1 \in DOMAIN h /\ 2 \in DOMAIN h
      BY <1>1, <2>1
    <3>2. h[1] \in Events /\ h[2] \in Events
      BY <1>1, <2>1
    <3>3. h[1] # event /\ h[2] # event
      BY <3>1 DEF Said
    <3> QED BY <2>1, <3>2, <3>3 DEF InTwo, Events
  <2> QED BY <1>1, <2>1 DEF InTwo
<1>3. /\ Append(h, event) \in Seq(Events)
      /\ Len(Append(h, event)) = Len(h) + 1
      /\ DOMAIN Append(h, event) = 1 .. Len(h) + 1
      /\ \A k \in 1 .. Len(h) : Append(h, event)[k] = h[k]
      /\ Append(h, event)[Len(h) + 1] = event
  BY <1>1
<1>4. InTwo(Append(h, event))
  BY <1>1, <1>2, <1>3 DEF InTwo, Said
<1>5. Said(Append(h, event)) = Said(h) \cup {event}
  BY <1>1, <1>3 DEF Said
<1> QED BY <1>4, <1>5

\* While the SDK is open, handlers have heard of exactly what setupClient and the
\* Once have done; what a replacement's handlers heard says the Once of the
\* connection it replaced was heard.
HeardInv ==
    /\ heard \in [Conns -> Seq(Events)]
    /\ \A c \in Conns :
          /\ InTwo(heard[c])
          /\ "connected" \in Said(heard[c]) => setup[c] = "done"
          /\ "disconnected" \in Said(heard[c]) => life[c] \in {"close", "closed"}
          /\ stop = "no" /\ setup[c] = "done" => "connected" \in Said(heard[c])
          /\ stop = "no" /\ life[c] \in {"close", "closed"}
                => "disconnected" \in Said(heard[c])
          /\ "connected" \in Said(heard[c]) /\ old[c] # None
                => "disconnected" \in Said(heard[old[c]])

\* At first nothing is heard.
LEMMA InitHeardInv == SInit => HeardInv
<1> SUFFICES ASSUME SInit PROVE HeardInv
  OBVIOUS
<1>1. ASSUME NEW c \in Conns
      PROVE  /\ InTwo(heard[c])
             /\ "connected" \notin Said(heard[c]) /\ "disconnected" \notin Said(heard[c])
  <2>1. heard[c] = << >>
    BY DEF SInit
  <2> QED BY <2>1 DEF InTwo, Said, Events
<1>2. \A c \in Conns : setup[c] = "none" /\ life[c] = "none"
  BY DEF SInit, Init
<1>3. heard \in [Conns -> Seq(Events)]
  BY DEF SInit
<1> QED BY <1>1, <1>2, <1>3 DEF HeardInv

\* Whatever changes none of what is heard about.
LEMMA QuietStep ==
    ASSUME HeardInv, UNCHANGED heard, stop' = "no" => stop = "no",
           \A c \in Conns :
              /\ setup'[c] = "done" <=> setup[c] = "done"
              /\ life'[c] \in {"close", "closed"} <=> life[c] \in {"close", "closed"}
              /\ setup[c] = "done" => old'[c] = old[c]
    PROVE  HeardInv'
  BY DEF HeardInv

\* Every event comes once, and the end of a connection before its replacement.
LEMMA NextHeardInv == ServerInv /\ HeardInv /\ [SNext]_svars => HeardInv'
<1> SUFFICES ASSUME ServerInv, HeardInv, [SNext]_svars PROVE HeardInv'
  OBVIOUS
<1>0. /\ setup \in [Conns -> SetupLabel] /\ life \in [Conns -> LifeLabel]
      /\ old \in [Conns -> Conns \cup {None}] /\ OldClosedBeforeStore
      /\ \A c \in Conns : /\ setup[c] = "none" <=> id[c] = None
                          /\ life[c] = "none" <=> id[c] = None
  BY DEF ServerInv, RegInv, TypeOK, TableInv
<1> USE DEF SetupTo, LifeTo
<1>1. ASSUME NEW c \in Conns,
             \/ Upgrade(c) \/ SetAuthClaims(c) \/ JoinRoom(c) \/ Join(c)
             \/ LeaveRoom(c)
      PROVE  HeardInv'
  BY <1>1, QuietStep DEF Upgrade, SetAuthClaims, JoinRoom, Join, LoadJoiner,
                         AddJoiner, LeaveRoom, vars
<1>11. ASSUME NEW i \in Ids, SDKLoad(i) \/ SDKAdd(i) \/ SDKLeave(i)
       PROVE  HeardInv'
  BY <1>11, QuietStep DEF SDKLoad, SDKAdd, SDKLeave, vars
<1>2. ASSUME NEW c \in Conns, MakeClient(c) \/ FailClient(c) PROVE HeardInv'
  BY <1>0, <1>2, QuietStep DEF MakeClient, NewClient, FailClient, Fail, serverVars
<1>3. ASSUME NEW c \in Conns,
             \/ RegisterNew(c) \/ RegisterLoaded(c) \/ ShutdownOld(c)
             \/ OldShutdownReturns(c) \/ UnsubscribeOld(c) \/ StoreReplacement(c)
             \/ StartUnicast(c),
             UNCHANGED serverVars
      PROVE  HeardInv'
  <2>1. UNCHANGED <<heard, stop>>
    BY <1>3 DEF serverVars
  <2>2. \A d \in Conns :
           /\ setup'[d] = "done" <=> setup[d] = "done"
           /\ life'[d] \in {"close", "closed"} <=> life[d] \in {"close", "closed"}
           /\ setup[d] = "done" => old'[d] = old[d]
    BY <1>0, <1>3 DEF RegisterNew, RegisterLoaded, ShutdownOld, OldShutdownReturns,
                UnsubscribeOld, StoreReplacement, StartUnicast
  <2> QED BY <2>1, <2>2, QuietStep
<1>4. ASSUME NEW c \in Conns, AnnounceConnected(c), Trigger(c, "connected"),
             UNCHANGED stop
      PROVE  HeardInv'
  <2>1. /\ setup[c] = "connected" /\ setup' = [setup EXCEPT ![c] = "done"]
        /\ UNCHANGED <<life, old>>
    BY <1>4 DEF AnnounceConnected
  <2>2. "connected" \notin Said(heard[c])
    BY <1>0, <2>1 DEF HeardInv
  <2>3. CASE stop = "no"
    <3>1. heard' = [heard EXCEPT ![c] = Append(heard[c], "connected")]
      BY <1>4, <2>3 DEF Trigger
    <3>2. /\ InTwo(Append(heard[c], "connected"))
          /\ Said(Append(heard[c], "connected"))
               = Said(heard[c]) \cup {"connected"}
      BY <2>2, Hearing DEF HeardInv, Events
    <3>3. old[c] # None => "disconnected" \in Said(heard[old[c]])
      BY <1>0, <2>1, <2>3 DEF HeardInv, OldClosedBeforeStore
    <3>4. \A d \in Conns : heard'[d] = IF d = c THEN Append(heard[c], "connected")
                                                ELSE heard[d]
      BY <3>1 DEF HeardInv
    <3>5. ASSUME NEW d \in Conns
          PROVE  /\ InTwo(heard'[d])
                 /\ d = c => Said(heard'[d]) = Said(heard[d]) \cup {"connected"}
                 /\ d # c => Said(heard'[d]) = Said(heard[d])
      BY <3>2, <3>4 DEF HeardInv
    <3>6. heard' \in [Conns -> Seq(Events)]
      <4>1. Append(heard[c], "connected") \in Seq(Events)
        BY <3>2 DEF InTwo
      <4>2. heard \in [Conns -> Seq(Events)]
        BY DEF HeardInv
      <4> QED BY <3>1, <4>1, <4>2
    <3>7. ASSUME NEW d \in Conns
          PROVE  /\ "connected" \in Said(heard'[d])
                       <=> "connected" \in Said(heard[d]) \/ d = c
                 /\ "disconnected" \in Said(heard'[d])
                       <=> "disconnected" \in Said(heard[d])
      BY <3>5
    <3>8. \A d \in Conns : old[d] # None => old[d] \in Conns
      BY <1>0
    <3>9. heard' \in [Conns -> Seq(Events)] /\ \A d \in Conns : InTwo(heard'[d])
      BY <3>5, <3>6
    <3> QED BY <1>0, <1>4, <2>1, <2>3, <3>3, <3>7, <3>8, <3>9 DEF HeardInv
  <2>4. CASE stop # "no"
    BY <1>0, <1>4, <2>1, <2>4 DEF Trigger, HeardInv
  <2> QED BY <2>3, <2>4
<1>5. ASSUME NEW c \in Conns, RegisterClient(c) PROVE HeardInv'
  BY <1>3, <1>4, <1>5 DEF RegisterClient
<1>6. ASSUME NEW c \in Conns, Unregister(c) \/ UnsubscribeOwn(c) \/ CloseConn(c),
             UNCHANGED serverVars
      PROVE  HeardInv'
  <2>1. UNCHANGED <<heard, stop>>
    BY <1>6 DEF serverVars
  <2> QED BY <1>0, <1>6, <2>1, QuietStep DEF Unregister, UnsubscribeOwn, CloseConn
<1>7. ASSUME NEW c \in Conns, AnnounceDisconnected(c), Trigger(c, "disconnected"),
             UNCHANGED stop
      PROVE  HeardInv'
  <2>1. /\ life[c] = "disconnected" /\ life' = [life EXCEPT ![c] = "close"]
        /\ UNCHANGED <<setup, old>>
    BY <1>7 DEF AnnounceDisconnected
  <2>2. "disconnected" \notin Said(heard[c])
    BY <1>0, <2>1 DEF HeardInv
  <2>3. CASE stop = "no"
    <3>1. heard' = [heard EXCEPT ![c] = Append(heard[c], "disconnected")]
      BY <1>7, <2>3 DEF Trigger
    <3>2. /\ InTwo(Append(heard[c], "disconnected"))
          /\ Said(Append(heard[c], "disconnected"))
               = Said(heard[c]) \cup {"disconnected"}
      BY <2>2, Hearing DEF HeardInv, Events
    <3>3. \A d \in Conns : heard'[d] = IF d = c THEN Append(heard[c], "disconnected")
                                                ELSE heard[d]
      BY <3>1 DEF HeardInv
    <3>4. ASSUME NEW d \in Conns
          PROVE  /\ InTwo(heard'[d])
                 /\ d = c => Said(heard'[d]) = Said(heard[d]) \cup {"disconnected"}
                 /\ d # c => Said(heard'[d]) = Said(heard[d])
      BY <3>2, <3>3 DEF HeardInv
    <3>5. heard' \in [Conns -> Seq(Events)]
      <4>1. Append(heard[c], "disconnected") \in Seq(Events)
        BY <3>2 DEF InTwo
      <4>2. heard \in [Conns -> Seq(Events)]
        BY DEF HeardInv
      <4> QED BY <3>1, <4>1, <4>2
    <3>6. ASSUME NEW d \in Conns
          PROVE  /\ "connected" \in Said(heard'[d])
                       <=> "connected" \in Said(heard[d])
                 /\ "disconnected" \in Said(heard'[d])
                       <=> "disconnected" \in Said(heard[d]) \/ d = c
      BY <3>4
    <3>7. \A d \in Conns : old[d] # None => old[d] \in Conns
      BY <1>0
    <3>8. heard' \in [Conns -> Seq(Events)] /\ \A d \in Conns : InTwo(heard'[d])
      BY <3>4, <3>5
    <3> QED BY <1>0, <1>7, <2>1, <2>3, <3>6, <3>7, <3>8 DEF HeardInv
  <2>4. CASE stop # "no"
    BY <1>0, <1>7, <2>1, <2>4 DEF Trigger, HeardInv
  <2> QED BY <2>3, <2>4
<1>8. ASSUME NEW c \in Conns, CloseClient(c) PROVE HeardInv'
  BY <1>6, <1>7, <1>8 DEF CloseClient
<1>9. CASE CloseSDK \/ ShutdownServer
  <2>1. UNCHANGED heard /\ (stop' = "no" => stop = "no") /\ UNCHANGED <<setup, old>>
    BY <1>9 DEF CloseSDK, ShutdownServer, BeginHubClose, VisitClients, EndHubClose,
                CloseBus, CloseHTTP, StopTo, BeginClose, CloseHub, VisitClient,
                ShutdownVisited, VisitedReturns, EndClose, serverVars, vars
  <2>2. \A d \in Conns :
           life'[d] \in {"close", "closed"} <=> life[d] \in {"close", "closed"}
    BY <1>0, <1>9 DEF CloseSDK, ShutdownServer, BeginHubClose, VisitClients, EndHubClose,
                CloseBus, CloseHTTP, StopTo, BeginClose, CloseHub, VisitClient,
                ShutdownVisited, VisitedReturns, EndClose, serverVars, vars
  <2> QED BY <2>1, <2>2, QuietStep
<1>10. CASE UNCHANGED svars
  BY <1>10, QuietStep DEF svars, serverVars, vars
<1> QED
  BY <1>1, <1>2, <1>5, <1>8, <1>9, <1>10, <1>11 DEF SNext, HandshakeEnds

\* Until the SDK is closed, handlers hear of a connection's beginning and end once
\* each, and of a replacement's beginning only after the end of the connection it
\* replaced (server.go:273-300, hub.go:183-198).
THEOREM EventsComeInOrder == ServerSpec => []EventsInOrder
<1>1. ServerInv /\ HeardInv => EventsInOrder
  <2> SUFFICES ASSUME ServerInv, HeardInv, NEW c \in Conns
               PROVE  /\ InTwo(heard[c])
                      /\ stop = "no" /\ setup[c] = "done" => "connected" \in Said(heard[c])
                      /\ stop = "no" /\ life[c] = "closed"
                            => "disconnected" \in Said(heard[c])
                      /\ "connected" \in Said(heard[c]) /\ old[c] # None
                            => "disconnected" \in Said(heard[old[c]])
    BY DEF EventsInOrder, Heard, Said, InTwo
  <2> QED BY DEF HeardInv
<1> QED
  BY SpecIsSafe, InitServerInv, NextServerInv, InitHeardInv, NextHeardInv, <1>1, PTL
  DEF ServerSafety
===============================================================================
