---------------------------- MODULE RegistryProofs ----------------------------
(***************************************************************************)
(* Proofs about Registry.tla, for every set of connections and of ids.     *)
(***************************************************************************)
EXTENDS Registry, FiniteSetTheorems, TLAPS

\* A connection has an id once it is made; an entry is under its owner's id; the
\* entries are stored connections; Register keeps its old connection in hand.
TableInv ==
    /\ \A c \in Conns : /\ setup[c] = "none" <=> id[c] = None
                        /\ life[c] = "none" <=> id[c] = None
                        /\ c \in stored <=> setup[c] \in {"subscribe", "connected", "done"}
                        /\ setup[c] = "replace" => old[c] # None
                        /\ old[c] # None => /\ id[old[c]] # None
                                            /\ id[old[c]] = id[c]
                        /\ setup[c] \in {"none", "register"} => old[c] = None
    /\ \A i \in Ids : clients[i] # None => /\ id[clients[i]] = i
                                           /\ clients[i] \in stored

\* Failing late means failing after being stored.
LateInv ==
    \A c \in Conns \ early :
        life[c] \in {"unsubscribe", "disconnected", "close", "closed"}
            => c \in stored /\ \A i \in Ids : clients[i] # c

\* Beyond "unsubscribe", Register's old connection is closed: closed is for good.
OldClosedBeforeStore ==
    \A c \in Conns :
        setup[c] \in {"unsubscribe", "store", "subscribe", "connected", "done"}
            /\ old[c] # None => life[old[c]] = "closed"

RegInv == TypeOK /\ TableInv /\ OldClosedBeforeStore /\ LateInv

\* The empty table satisfies the invariant.
LEMMA InitRegInv == Init => RegInv
<1> SUFFICES ASSUME Init PROVE RegInv
  OBVIOUS
<1> USE RegistryAssumption DEF Init
<1>1. TypeOK
  BY DEF TypeOK, SetupLabel, LifeLabel
<1>2. TableInv
  BY DEF TableInv
<1>3. OldClosedBeforeStore /\ LateInv
  BY DEF OldClosedBeforeStore, LateInv
<1> QED BY <1>1, <1>2, <1>3 DEF RegInv

\* Every step of setupClient, of a shutdown and of Close keeps it.
LEMMA NextRegInv == RegInv /\ [Next]_vars => RegInv'
<1> SUFFICES ASSUME RegInv, [Next]_vars PROVE RegInv'
  OBVIOUS
<1> USE RegistryAssumption
    DEF RegInv, TypeOK, TableInv, OldClosedBeforeStore, LateInv, SetupLabel,
        LifeLabel, SetupTo, LifeTo
<1>1. ASSUME NEW c \in Conns, NewClient(c) PROVE RegInv'
  BY <1>1 DEF NewClient
<1>2. ASSUME NEW c \in Conns, RegisterNew(c) PROVE RegInv'
  <2>1. id[c] \in Ids /\ c \notin stored
    BY <1>2 DEF RegisterNew
  <2>2. TypeOK' /\ TableInv'
    BY <1>2, <2>1 DEF RegisterNew
  <2>3. OldClosedBeforeStore'
    BY <1>2, <2>1 DEF RegisterNew
  <2>4. LateInv'
    <3>1. \A d \in Conns, i \in Ids :
             clients'[i] = d => d = c \/ clients[i] = d
      BY <1>2, <2>1 DEF RegisterNew
    <3>2. /\ life[c] \in {"unsubscribe", "disconnected", "close", "closed"}
               => c \in early
          /\ early' = early /\ life' = life /\ stored \subseteq stored'
      BY <1>2, <2>1 DEF RegisterNew
    <3> QED BY <3>1, <3>2
  <2> QED BY <2>2, <2>3, <2>4
<1>3. ASSUME NEW c \in Conns, RegisterLoaded(c) PROVE RegInv'
  BY <1>3 DEF RegisterLoaded
<1>4. ASSUME NEW c \in Conns, ShutdownOld(c) PROVE RegInv'
  BY <1>4 DEF ShutdownOld
<1>5. ASSUME NEW c \in Conns, OldShutdownReturns(c) PROVE RegInv'
  BY <1>5 DEF OldShutdownReturns
<1>6. ASSUME NEW c \in Conns, UnsubscribeOld(c) PROVE RegInv'
  BY <1>6 DEF UnsubscribeOld
<1>7. ASSUME NEW c \in Conns, StoreReplacement(c) PROVE RegInv'
  BY <1>7 DEF StoreReplacement
<1>8. ASSUME NEW c \in Conns, StartUnicast(c) PROVE RegInv'
  BY <1>8 DEF StartUnicast
<1>9. ASSUME NEW c \in Conns, AnnounceConnected(c) PROVE RegInv'
  BY <1>9 DEF AnnounceConnected
<1>10. ASSUME NEW c \in Conns, Fail(c) PROVE RegInv'
  BY <1>10 DEF Fail
<1>11. ASSUME NEW c \in Conns, Unregister(c) PROVE RegInv'
  BY <1>11 DEF Unregister
<1>12. ASSUME NEW c \in Conns, UnsubscribeOwn(c) PROVE RegInv'
  BY <1>12 DEF UnsubscribeOwn
<1>13. ASSUME NEW c \in Conns, AnnounceDisconnected(c) PROVE RegInv'
  BY <1>13 DEF AnnounceDisconnected
<1>14. ASSUME NEW c \in Conns, CloseConn(c) PROVE RegInv'
  BY <1>14 DEF CloseConn
<1>15. CASE BeginClose
  BY <1>15 DEF BeginClose
<1>16. ASSUME NEW i \in Ids, VisitClient(i) PROVE RegInv'
  BY <1>16 DEF VisitClient
<1>17. CASE ShutdownVisited
  BY <1>17 DEF ShutdownVisited
<1>18. CASE VisitedReturns \/ EndClose
  BY <1>18 DEF VisitedReturns, EndClose
<1>19. CASE UNCHANGED vars
  BY <1>19 DEF vars
<1> QED
  BY <1>1, <1>2, <1>3, <1>4, <1>5, <1>6, <1>7, <1>8, <1>9, <1>10, <1>11, <1>12,
     <1>13, <1>14, <1>15, <1>16, <1>17, <1>18, <1>19
  DEF Next, Setup, OnceBody, CloseHub

\* Every variable of the registry keeps its type, and entries stay under their
\* owner's id.
THEOREM RegistryTypeCorrect == Safety => []TypeOK
<1>1. RegInv => TypeOK
  BY DEF RegInv
<1> QED BY InitRegInv, NextRegInv, <1>1, PTL DEF Safety

\* A connection that fails after it was stored leaves the table for good.
THEOREM LateFailureLeaves == Safety => []LateFailureIsRemoved
<1>1. RegInv => LateFailureIsRemoved
  BY DEF RegInv, LateInv, LateFailureIsRemoved
<1> QED BY InitRegInv, NextRegInv, <1>1, PTL DEF Safety

-------------------------------------------------------------------------------
(* With ids of their own.                                                  *)

\* An own id is shared with nobody, so nothing is ever replaced under it, and its
\* entry disappears only with its owner's shutdown.
UniqueInv ==
    /\ \A c, d \in Conns : c # d /\ id[c] \in OwnIds => id[c] # id[d]
    /\ \A c \in Conns :
          id[c] \in OwnIds => setup[c] \notin {"replace", "unsubscribe", "store"}
    /\ \A c \in stored : id[c] \in OwnIds /\ life[c] \in {"open", "onclose"}
                           => clients[id[c]] = c

\* Initially there is no connection.
LEMMA InitUniqueInv == Init => UniqueInv
  BY RegistryAssumption DEF Init, UniqueInv

\* Every step keeps the open connections with own ids in the table.
LEMMA NextUniqueInv == RegInv /\ UniqueInv /\ [Next]_vars => UniqueInv'
<1> SUFFICES ASSUME RegInv, UniqueInv, [Next]_vars PROVE UniqueInv'
  OBVIOUS
<1> USE RegistryAssumption
    DEF RegInv, TypeOK, TableInv, UniqueInv, SetupLabel, LifeLabel, SetupTo, LifeTo
<1>1. ASSUME NEW c \in Conns, NewClient(c) PROVE UniqueInv'
  BY <1>1 DEF NewClient
<1>2. ASSUME NEW c \in Conns, RegisterNew(c) PROVE UniqueInv'
  <2>1. id[c] \in Ids /\ c \notin stored
    BY <1>2 DEF RegisterNew
  <2> QED BY <1>2, <2>1 DEF RegisterNew
<1>3. ASSUME NEW c \in Conns, RegisterLoaded(c) PROVE UniqueInv'
  <2>1. /\ id[c] \in Ids /\ clients[id[c]] # None
        /\ id[clients[id[c]]] = id[c] /\ clients[id[c]] \in stored
        /\ c \notin stored
    BY <1>3 DEF RegisterLoaded
  <2>2. clients[id[c]] \in Conns /\ clients[id[c]] # c
    BY <2>1
  <2>3. id[c] \notin OwnIds
    BY <2>1, <2>2
  <2> QED BY <1>3, <2>1, <2>3 DEF RegisterLoaded
<1>4. ASSUME NEW c \in Conns,
             ShutdownOld(c) \/ OldShutdownReturns(c) \/ UnsubscribeOld(c)
                            \/ StoreReplacement(c)
      PROVE  UniqueInv'
  BY <1>4 DEF ShutdownOld, OldShutdownReturns, UnsubscribeOld, StoreReplacement
<1>5. ASSUME NEW c \in Conns, StartUnicast(c) \/ AnnounceConnected(c)
      PROVE  UniqueInv'
  BY <1>5 DEF StartUnicast, AnnounceConnected
<1>6. ASSUME NEW c \in Conns, Fail(c) PROVE UniqueInv'
  BY <1>6 DEF Fail
<1>7. ASSUME NEW c \in Conns, Unregister(c) PROVE UniqueInv'
  BY <1>7 DEF Unregister
<1>8. ASSUME NEW c \in Conns,
             UnsubscribeOwn(c) \/ AnnounceDisconnected(c) \/ CloseConn(c)
      PROVE  UniqueInv'
  BY <1>8 DEF UnsubscribeOwn, AnnounceDisconnected, CloseConn
<1>9. CASE ShutdownVisited
  BY <1>9 DEF ShutdownVisited
<1>10. ASSUME NEW i \in Ids, VisitClient(i) PROVE UniqueInv'
  BY <1>10 DEF VisitClient
<1>11. CASE BeginClose \/ VisitedReturns \/ EndClose
  BY <1>11 DEF BeginClose, VisitedReturns, EndClose
<1>12. CASE UNCHANGED vars
  BY <1>12 DEF vars
<1> QED
  BY <1>1, <1>2, <1>3, <1>4, <1>5, <1>6, <1>7, <1>8, <1>9, <1>10, <1>11, <1>12
  DEF Next, Setup, OnceBody, CloseHub

-------------------------------------------------------------------------------
(* One Register of an id at a time.                                        *)

\* Under i no two Registers overlapped and no connection failed unstored.
Serial(i) == i \in Ids \ overlap /\ \A e \in early : id[e] # i

\* Under such an id at most one connection is not in the table yet; whoever is
\* stored and has not run its Unregister is there; and from the moment the
\* replaced connection is closed until the new one is stored nobody is.
SerialInv ==
    \A i \in Ids : Serial(i) =>
        /\ \A c, d \in Conns : Registering(c, i) /\ Registering(d, i) => c = d
        /\ \A c \in stored : id[c] = i /\ life[c] \in {"open", "onclose"}
                                => clients[i] = c
        /\ \A c \in Conns : id[c] = i =>
              /\ setup[c] = "replace" => clients[i] \in {None, old[c]}
              /\ setup[c] \in {"unsubscribe", "store"} => clients[i] = None

\* Initially there is no connection.
LEMMA InitSerialInv == Init => SerialInv
  BY RegistryAssumption DEF Init, SerialInv, Registering

\* Every step keeps the stored connections of such an id in the table.
LEMMA NextSerialInv == RegInv /\ SerialInv /\ [Next]_vars => SerialInv'
<1> SUFFICES ASSUME RegInv, SerialInv, [Next]_vars PROVE SerialInv'
  OBVIOUS
<1> USE RegistryAssumption
    DEF RegInv, TypeOK, TableInv, SerialInv, Serial, Registering, SetupLabel,
        LifeLabel, SetupTo, LifeTo
<1>1. ASSUME NEW c \in Conns, NewClient(c) PROVE SerialInv'
  BY <1>1 DEF NewClient
<1>2. ASSUME NEW c \in Conns, RegisterNew(c) PROVE SerialInv'
  BY <1>2 DEF RegisterNew
<1>3. ASSUME NEW c \in Conns, RegisterLoaded(c) PROVE SerialInv'
  BY <1>3 DEF RegisterLoaded
<1>4. ASSUME NEW c \in Conns, ShutdownOld(c) PROVE SerialInv'
  BY <1>4 DEF ShutdownOld
<1>5. ASSUME NEW c \in Conns, OldShutdownReturns(c) PROVE SerialInv'
  <2>1. /\ id[c] \in Ids /\ old[c] \in Conns
        /\ id[old[c]] = id[c] /\ life[old[c]] = "closed"
    BY <1>5 DEF OldShutdownReturns
  <2>2. Serial(id[c]) => clients[id[c]] = None
    BY <1>5, <2>1 DEF OldShutdownReturns, LateInv
  <2> QED BY <1>5, <2>2 DEF OldShutdownReturns
<1>6. ASSUME NEW c \in Conns, UnsubscribeOld(c) PROVE SerialInv'
  BY <1>6 DEF UnsubscribeOld
<1>7. ASSUME NEW c \in Conns, StoreReplacement(c) PROVE SerialInv'
  <2>1. /\ id[c] \in Ids /\ Registering(c, id[c])
        /\ clients' = [clients EXCEPT ![id[c]] = c]
    BY <1>7 DEF StoreReplacement
  <2>2. Serial(id[c]) => \A d \in stored :
           id[d] = id[c] => life[d] \notin {"open", "onclose"}
    BY <1>7 DEF StoreReplacement
  <2> QED BY <1>7, <2>1, <2>2 DEF StoreReplacement
<1>8. ASSUME NEW c \in Conns, StartUnicast(c) \/ AnnounceConnected(c)
      PROVE  SerialInv'
  BY <1>8 DEF StartUnicast, AnnounceConnected
<1>9. ASSUME NEW c \in Conns, Fail(c) PROVE SerialInv'
  BY <1>9 DEF Fail
<1>10. ASSUME NEW c \in Conns, Unregister(c) PROVE SerialInv'
  BY <1>10 DEF Unregister
<1>11. ASSUME NEW c \in Conns,
              UnsubscribeOwn(c) \/ AnnounceDisconnected(c) \/ CloseConn(c)
       PROVE  SerialInv'
  BY <1>11 DEF UnsubscribeOwn, AnnounceDisconnected, CloseConn
<1>12. CASE ShutdownVisited
  BY <1>12 DEF ShutdownVisited
<1>13. ASSUME NEW j \in Ids, VisitClient(j) PROVE SerialInv'
  BY <1>13 DEF VisitClient
<1>14. CASE BeginClose \/ VisitedReturns \/ EndClose
  BY <1>14 DEF BeginClose, VisitedReturns, EndClose
<1>15. CASE UNCHANGED vars
  BY <1>15 DEF vars
<1> QED
  BY <1>1, <1>2, <1>3, <1>4, <1>5, <1>6, <1>7, <1>8, <1>9, <1>10, <1>11, <1>12,
     <1>13, <1>14, <1>15
  DEF Next, Setup, OnceBody, CloseHub

\* A registered open connection is in the table, through any number of
\* reconnects under its id, if no two Registers of the id overlapped and no
\* connection of it failed before it was stored (hub.go:181-210, 293-300).
THEOREM OpenStaysReachable == Safety => []OpenIsReachable
<1>1. Init => RegInv /\ SerialInv
  BY InitRegInv, InitSerialInv
<1>2. RegInv /\ SerialInv /\ [Next]_vars => (RegInv /\ SerialInv)'
  BY NextRegInv, NextSerialInv
<1>3. RegInv /\ SerialInv => OpenIsReachable
  BY RegistryAssumption
  DEF RegInv, TypeOK, TableInv, SerialInv, Serial, OpenIsReachable
<1> QED BY <1>1, <1>2, <1>3, PTL DEF Safety

-------------------------------------------------------------------------------
(* Close, with ids of their own.                                           *)

\* Everyone with an own id who was in the table when Close began is owed a visit,
\* being visited, or already shutting down.
CloseInv ==
    /\ hub = "up" => atClose = {}
    /\ visiting # None => hub = "closing"
    /\ hub = "closed" => pending = {}
    /\ \A c \in atClose : /\ c \in stored
                          /\ id[c] \in OwnIds /\ life[c] = "open"
                                => id[c] \in pending \/ visiting = c

\* Nothing is owed before Close is called.
LEMMA InitCloseInv == Init => CloseInv
  BY DEF Init, CloseInv

\* Every step keeps the books of Close.
LEMMA NextCloseInv ==
    RegInv /\ UniqueInv /\ CloseInv /\ [Next]_vars => CloseInv'
<1> SUFFICES ASSUME RegInv, UniqueInv, CloseInv, [Next]_vars PROVE CloseInv'
  OBVIOUS
<1> USE RegistryAssumption
    DEF RegInv, TypeOK, TableInv, UniqueInv, CloseInv, SetupLabel, LifeLabel,
        SetupTo, LifeTo
<1>1. ASSUME NEW c \in Conns, NewClient(c) PROVE CloseInv'
  BY <1>1 DEF NewClient
<1>2. ASSUME NEW c \in Conns, Setup(c) PROVE CloseInv'
  BY <1>2 DEF Setup, RegisterNew, RegisterLoaded, ShutdownOld, OldShutdownReturns,
              UnsubscribeOld, StoreReplacement, StartUnicast, AnnounceConnected
<1>3. ASSUME NEW c \in Conns, Fail(c) PROVE CloseInv'
  BY <1>3 DEF Fail
<1>4. ASSUME NEW c \in Conns, Unregister(c) PROVE CloseInv'
  BY <1>4 DEF Unregister
<1>5. ASSUME NEW c \in Conns,
             UnsubscribeOwn(c) \/ AnnounceDisconnected(c) \/ CloseConn(c)
      PROVE  CloseInv'
  BY <1>5 DEF UnsubscribeOwn, AnnounceDisconnected, CloseConn
<1>6. CASE BeginClose
  BY <1>6 DEF BeginClose
<1>7. ASSUME NEW i \in Ids, VisitClient(i) PROVE CloseInv'
  BY <1>7 DEF VisitClient
<1>8. CASE ShutdownVisited
  BY <1>8 DEF ShutdownVisited
<1>9. CASE VisitedReturns
  BY <1>9 DEF VisitedReturns
<1>10. CASE EndClose
  BY <1>10 DEF EndClose
<1>11. CASE UNCHANGED vars
  BY <1>11 DEF vars
<1> QED
  BY <1>1, <1>2, <1>3, <1>4, <1>5, <1>6, <1>7, <1>8, <1>9, <1>10, <1>11
  DEF Next, OnceBody, CloseHub

\* No connection with an id of its own that was in the table when Close began is
\* open when Close returns, however Close interleaves with connections that
\* come and fail (hub.go:484-498).
THEOREM CloseShuts == Safety => []CloseShutsEveryone
<1>1. Init => RegInv /\ UniqueInv /\ CloseInv
  BY InitRegInv, InitUniqueInv, InitCloseInv
<1>2. RegInv /\ UniqueInv /\ CloseInv /\ [Next]_vars
        => (RegInv /\ UniqueInv /\ CloseInv)'
  BY NextRegInv, NextUniqueInv, NextCloseInv
<1>3. RegInv /\ CloseInv => CloseShutsEveryone
  BY RegistryAssumption
  DEF RegInv, TypeOK, CloseInv, CloseShutsEveryone
<1> QED BY <1>1, <1>2, <1>3, PTL DEF Safety

-------------------------------------------------------------------------------
(* The gauge.                                                              *)

\* The connections counted in, and those counted out again; a connection may
\* be counted out first.
CountedIn  == {c \in Conns : setup[c] = "done"}
CountedOut == {c \in Conns : life[c] \in {"close", "closed"}}

\* The gauge is their difference, below zero if need be.
GaugeInv == /\ IsFiniteSet(CountedIn) /\ IsFiniteSet(CountedOut)
            /\ gauge = Cardinality(CountedIn) - Cardinality(CountedOut)

\* Initially nobody is counted.
LEMMA InitGaugeInv == Init => GaugeInv
<1> SUFFICES ASSUME Init PROVE GaugeInv
  OBVIOUS
<1>1. CountedIn = {} /\ CountedOut = {}
  BY DEF Init, CountedIn, CountedOut
<1> QED BY <1>1, FS_EmptySet DEF Init, GaugeInv

\* A step that announces nothing counts nobody.
LEMMA UncountedKeepsGauge ==
  ASSUME GaugeInv, CountedIn' = CountedIn, CountedOut' = CountedOut,
         gauge' = gauge
  PROVE  GaugeInv'
  BY DEF GaugeInv

\* Each announcement counts one connection, once.
LEMMA NextGaugeInv == RegInv /\ GaugeInv /\ [Next]_vars => GaugeInv'
<1> SUFFICES ASSUME RegInv, GaugeInv, [Next]_vars PROVE GaugeInv'
  OBVIOUS
<1>0. /\ setup \in [Conns -> SetupLabel] /\ life \in [Conns -> LifeLabel]
      /\ IsFiniteSet(CountedIn) /\ Cardinality(CountedIn) \in Nat
      /\ IsFiniteSet(CountedOut) /\ Cardinality(CountedOut) \in Nat
  BY FS_CardinalityType DEF RegInv, TypeOK, GaugeInv
<1>1. ASSUME NEW c \in Conns, NewClient(c) PROVE GaugeInv'
  <2>1. life[c] = "none"
    BY <1>1 DEF RegInv, TableInv, NewClient
  <2>2. CountedIn' = CountedIn /\ CountedOut' = CountedOut /\ gauge' = gauge
    BY <1>0, <1>1, <2>1
    DEF NewClient, CountedIn, CountedOut, SetupTo, LifeTo
  <2> QED BY <2>2, UncountedKeepsGauge
<1>2. ASSUME NEW c \in Conns,
             \/ RegisterNew(c) \/ RegisterLoaded(c)
             \/ OldShutdownReturns(c) \/ UnsubscribeOld(c)
             \/ StoreReplacement(c) \/ StartUnicast(c)
      PROVE  GaugeInv'
  <2>1. CountedIn' = CountedIn /\ CountedOut' = CountedOut /\ gauge' = gauge
    BY <1>0, <1>2
    DEF RegisterNew, RegisterLoaded, OldShutdownReturns, UnsubscribeOld,
        StoreReplacement, StartUnicast, CountedIn, CountedOut, SetupTo
  <2> QED BY <2>1, UncountedKeepsGauge
<1>3. ASSUME NEW c \in Conns,
             \/ Fail(c) \/ Unregister(c) \/ UnsubscribeOwn(c)
      PROVE  GaugeInv'
  <2>1. CountedIn' = CountedIn /\ CountedOut' = CountedOut /\ gauge' = gauge
    BY <1>0, <1>3
    DEF Fail, Unregister, UnsubscribeOwn, CountedIn, CountedOut, LifeTo
  <2> QED BY <2>1, UncountedKeepsGauge
<1>4. ASSUME NEW c \in Conns,
             \/ c \in Conns /\ life[c] = "open" /\ LifeTo(c, "onclose")
             \/ life[c] = "close" /\ LifeTo(c, "closed"),
             setup' = setup, gauge' = gauge
      PROVE  GaugeInv'
  <2>1. CountedIn' = CountedIn /\ CountedOut' = CountedOut
    BY <1>0, <1>4 DEF CountedIn, CountedOut, LifeTo
  <2> QED BY <1>4, <2>1, UncountedKeepsGauge
<1>5. ASSUME NEW c \in Conns, ShutdownOld(c) \/ CloseConn(c) PROVE GaugeInv'
  <2>1. setup[c] = "replace" => old[c] \in Conns
    BY DEF RegInv, TypeOK, TableInv
  <2> QED BY <1>4, <1>5, <2>1 DEF ShutdownOld, CloseConn
<1>6. CASE ShutdownVisited
  <2>1. visiting \in Conns
    BY <1>6 DEF RegInv, TypeOK, ShutdownVisited
  <2> QED BY <1>4, <1>6, <2>1 DEF ShutdownVisited
<1>7. ASSUME NEW c \in Conns, AnnounceConnected(c) PROVE GaugeInv'
  <2>1. c \notin CountedIn /\ CountedIn' = CountedIn \cup {c}
    BY <1>0, <1>7 DEF AnnounceConnected, CountedIn, SetupTo
  <2>2. CountedOut' = CountedOut /\ gauge' = gauge + 1
    BY <1>7 DEF AnnounceConnected, CountedOut
  <2>3. /\ IsFiniteSet(CountedIn')
        /\ Cardinality(CountedIn') = Cardinality(CountedIn) + 1
    BY <1>0, <2>1, FS_AddElement
  <2> QED BY <1>0, <2>2, <2>3 DEF GaugeInv
<1>8. ASSUME NEW c \in Conns, AnnounceDisconnected(c) PROVE GaugeInv'
  <2>1. c \notin CountedOut /\ CountedOut' = CountedOut \cup {c}
    BY <1>0, <1>8 DEF AnnounceDisconnected, CountedOut, LifeTo
  <2>2. CountedIn' = CountedIn /\ gauge' = gauge - 1
    BY <1>8 DEF AnnounceDisconnected, CountedIn
  <2>3. /\ IsFiniteSet(CountedOut')
        /\ Cardinality(CountedOut') = Cardinality(CountedOut) + 1
    BY <1>0, <2>1, FS_AddElement
  <2> QED BY <1>0, <2>2, <2>3 DEF GaugeInv
<1>9. CASE \/ BeginClose \/ \E i \in Ids : VisitClient(i)
           \/ VisitedReturns \/ EndClose \/ UNCHANGED vars
  <2>1. CountedIn' = CountedIn /\ CountedOut' = CountedOut /\ gauge' = gauge
    BY <1>9 DEF BeginClose, VisitClient, VisitedReturns, EndClose, vars,
                CountedIn, CountedOut
  <2> QED BY <2>1, UncountedKeepsGauge
<1> QED BY <1>1, <1>2, <1>3, <1>5, <1>6, <1>7, <1>8, <1>9
        DEF Next, Setup, OnceBody, CloseHub

\* When nothing is under way, the connections counted in and not out are the
\* open ones.
LEMMA RestingGauge == RegInv /\ GaugeInv => GaugeCountsOpen
<1> SUFFICES ASSUME RegInv, GaugeInv,
                    \A c \in Conns : /\ setup[c] \in {"none", "done"}
                                     /\ life[c] \in {"none", "open", "closed"}
             PROVE  gauge = Cardinality({c \in Conns : life[c] = "open"})
  BY DEF GaugeCountsOpen
<1>1. \A c \in Conns : life[c] # "none" <=> setup[c] = "done"
  BY DEF RegInv, TableInv
<1>2. CountedIn \ CountedOut = {c \in Conns : life[c] = "open"}
  BY <1>1 DEF CountedIn, CountedOut
<1>3. CountedIn \cap CountedOut = CountedOut
  BY <1>1 DEF CountedIn, CountedOut
<1>4. Cardinality(CountedIn \ CountedOut)
          = Cardinality(CountedIn) - Cardinality(CountedIn \cap CountedOut)
  BY FS_Difference DEF GaugeInv
<1> QED BY <1>2, <1>3, <1>4 DEF GaugeInv

\* Whatever order the two sides of a connection announce it in, the connected
\* and the disconnected metric cancel: at rest the gauge counts the open
\* connections (server.go:273-293).
THEOREM GaugeIsRight == Safety => []GaugeCountsOpen
<1>1. Init => RegInv /\ GaugeInv
  BY InitRegInv, InitGaugeInv
<1>2. RegInv /\ GaugeInv /\ [Next]_vars => (RegInv /\ GaugeInv)'
  BY NextRegInv, NextGaugeInv
<1> QED BY <1>1, <1>2, RestingGauge, PTL DEF Safety
===============================================================================
