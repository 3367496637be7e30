----------------------------- MODULE UnicastProofs -----------------------------
(***************************************************************************)
(* Proofs about Unicast.tla, for every finite set of connections, every    *)
(* set of ids and of messages and every number of retries.  Each step is a *)
(* step of the registry or leaves it alone, so that the invariant of       *)
(* RegistryProofs holds here too.                                          *)
(***************************************************************************)
EXTENDS Unicast, RegistryProofs, FiniteSetTheorems, SequenceTheorems

\* A step of the workers, of the bus and of Push is a step of the registry or none.
LEMMA StepOfRegistry == [UNext]_uvars => [Next]_vars
<1> SUFFICES ASSUME [UNext]_uvars PROVE [Next]_vars
  OBVIOUS
<1>1. ASSUME NEW c \in Conns, NewClient(c) \/ Fail(c) \/ USetup(c) \/ UOnceBody(c)
      PROVE  Next
  BY <1>1 DEF USetup, CleanUpOld, StartWorker, UOnceBody, CleanUpOwn, Setup,
              OnceBody, Next
<1>2. ASSUME NEW c \in Conns, Worker(c) PROVE UNCHANGED vars
  BY <1>2 DEF Worker, Check, Try, Backoff, Deliver, SeeClosed, SleepOver, SeeDone
<1>3. ASSUME NEW m \in Msgs, NEW i \in Ids, PushLocal(m, i) \/ PushRemote(m, i)
      PROVE  UNCHANGED vars
  BY <1>3 DEF PushLocal, PushRemote
<1>4. CASE BeginClose \/ UCloseHub
  BY <1>4 DEF UCloseHub, Next
<1>5. CASE UNCHANGED uvars
  BY <1>5 DEF uvars
<1> QED BY <1>1, <1>2, <1>3, <1>4, <1>5 DEF UNext

\* An id, once given, is kept.
LEMMA IdIsKept ==
    ASSUME RegInv, [Next]_vars
    PROVE  /\ \A c \in Conns : id[c] # None => id'[c] = id[c]
           /\ id' \in [Conns -> Ids \cup {None}]
<1> USE DEF RegInv, TypeOK, TableInv, SetupTo, LifeTo
<1>1. id' \in [Conns -> Ids \cup {None}]
  BY NextRegInv
<1>2. ASSUME NEW c \in Conns, NewClient(c)
      PROVE  \A d \in Conns : id[d] # None => id'[d] = id[d]
  BY <1>2 DEF NewClient
<1>3. ASSUME NEW c \in Conns, Setup(c) PROVE UNCHANGED id
  BY <1>3 DEF Setup, RegisterNew, RegisterLoaded, ShutdownOld, OldShutdownReturns,
              UnsubscribeOld, StoreReplacement, StartUnicast, AnnounceConnected
<1>4. ASSUME NEW c \in Conns, Fail(c) \/ OnceBody(c) PROVE UNCHANGED id
  BY <1>4 DEF Fail, OnceBody, Unregister, UnsubscribeOwn, AnnounceDisconnected,
              CloseConn
<1>5. CASE BeginClose \/ CloseHub
  BY <1>5 DEF BeginClose, CloseHub, VisitClient, ShutdownVisited, VisitedReturns,
              EndClose
<1>6. CASE UNCHANGED vars
  BY <1>6 DEF vars
<1> QED BY <1>1, <1>2, <1>3, <1>4, <1>5, <1>6 DEF Next

-------------------------------------------------------------------------------
(* Subscriptions                                                           *)

Labels == {"none", "check", "try", "backoff", "on", "cut", "sleep", "deaf", "gone"}

\* A worker belongs to a connection that has an id.
WorkerInv ==
    /\ UnicastTypeOK
    /\ queue \in [Conns -> Seq(Msgs)]
    /\ current \in [Ids -> Conns \cup {None}]
    /\ \A c \in Conns : worker[c] # "none" => id[c] \in Ids

\* At first there is no worker.
LEMMA InitWorkerInv == UInit => WorkerInv
<1> SUFFICES ASSUME UInit PROVE WorkerInv
  OBVIOUS
<1>1. UnicastTypeOK
  BY UnicastAssumption, RegistryAssumption DEF UInit, UnicastTypeOK
<1>2. queue \in [Conns -> Seq(Msgs)]
  BY DEF UInit
<1> QED BY <1>1, <1>2 DEF UInit, WorkerInv

\* Every step of a worker and every Unsubscribe keeps the map in order.
LEMMA NextWorkerInv == RegInv /\ WorkerInv /\ [UNext]_uvars => WorkerInv'
<1> SUFFICES ASSUME RegInv, WorkerInv, [UNext]_uvars PROVE WorkerInv'
  OBVIOUS
<1>1. /\ \A c \in Conns : id[c] # None => id'[c] = id[c]
      /\ id' \in [Conns -> Ids \cup {None}]
  BY IdIsKept, StepOfRegistry
<1>2. /\ id \in [Conns -> Ids \cup {None}]
      /\ \A c \in Conns : setup[c] = "none" <=> id[c] = None
      /\ \A c \in Conns : life[c] = "none" <=> id[c] = None
  BY DEF RegInv, TypeOK, TableInv
<1>3. /\ worker \in [Conns -> Labels] /\ tries \in [Conns -> 0 .. Retries]
      /\ push \in [Msgs -> Ids \cup {None}] /\ handed \in [Msgs -> Nat]
      /\ queue \in [Conns -> Seq(Msgs)] /\ current \in [Ids -> Conns \cup {None}]
  BY DEF WorkerInv, UnicastTypeOK, Labels
<1>4. /\ \A i \in Ids : current[i] # None => id[current[i]] = i
      /\ \A c \in Conns : worker[c] = "cut" => current[id[c]] # c
      /\ \A c \in Conns : worker[c] # "none" => id[c] \in Ids
  BY DEF WorkerInv, UnicastTypeOK
<1>0. << >> \in Seq(Msgs)
  OBVIOUS
<1> DEFINE Typed == /\ worker \in [Conns -> Labels] /\ tries \in [Conns -> 0 .. Retries]
                    /\ push \in [Msgs -> Ids \cup {None}] /\ handed \in [Msgs -> Nat]
                    /\ queue \in [Conns -> Seq(Msgs)]
                    /\ current \in [Ids -> Conns \cup {None}]
           Mapped == /\ \A i \in Ids : current[i] # None => id[current[i]] = i
                     /\ \A c \in Conns : worker[c] = "cut" => current[id[c]] # c
                     /\ \A c \in Conns : worker[c] # "none" => id[c] \in Ids
<1>5. SUFFICES Typed' /\ Mapped'
  BY DEF WorkerInv, UnicastTypeOK, Labels
<1>6. ASSUME NEW i \in Ids, BusUnsubscribe(i), id' = id PROVE Typed' /\ Mapped'
  <2>1. Typed'
    BY <1>3, <1>6 DEF BusUnsubscribe, Labels
  <2>2. Mapped'
    BY RegistryAssumption, <1>2, <1>3, <1>4, <1>6 DEF BusUnsubscribe, Labels
  <2> QED BY <2>1, <2>2
<1>7. ASSUME UNCHANGED unicastVars PROVE Typed' /\ Mapped'
  <2>1. UNCHANGED <<worker, tries, queue, current, push, handed>>
    BY <1>7 DEF unicastVars, workerVars
  <2>2. Typed'
    BY <1>3, <2>1
  <2>3. \A c \in Conns : id[c] \in Ids => id'[c] = id[c]
    BY RegistryAssumption, <1>1
  <2>4. ASSUME NEW i \in Ids, current[i] # None PROVE id'[current[i]] = i
    <3>1. current[i] \in Conns /\ id[current[i]] = i
      BY <1>3, <1>4, <2>4
    <3> QED BY <2>3, <3>1
  <2>5. ASSUME NEW c \in Conns, worker[c] # "none" PROVE id'[c] = id[c] /\ id[c] \in Ids
    BY <1>4, <2>3, <2>5
  <2> QED BY <1>4, <2>1, <2>2, <2>4, <2>5
<1>8. ASSUME NEW c \in Conns, USetup(c) PROVE Typed' /\ Mapped'
  <2>1. CASE CleanUpOld(c)
    <3>1. id[c] \in Ids /\ id' = id
      BY <1>2, <2>1 DEF CleanUpOld, UnsubscribeOld
    <3> QED BY <1>6, <2>1, <3>1 DEF CleanUpOld
  <2>2. CASE StartWorker(c)
    <3>1. /\ id[c] \in Ids /\ id' = id
          /\ worker' = [worker EXCEPT ![c] = "check"]
          /\ UNCHANGED <<tries, queue, current, push, handed>>
      BY <1>2, <2>2 DEF StartWorker, StartUnicast, WorkerTo
    <3>2. Typed'
      BY <1>3, <3>1 DEF Labels
    <3> QED BY <1>3, <1>4, <3>1, <3>2
  <2> QED BY <1>7, <1>8, <2>1, <2>2 DEF USetup
<1>9. ASSUME NEW c \in Conns, UOnceBody(c) PROVE Typed' /\ Mapped'
  <2>1. CASE CleanUpOwn(c)
    <3>1. id[c] \in Ids /\ id' = id
      BY <1>2, <2>1 DEF CleanUpOwn, UnsubscribeOwn
    <3> QED BY <1>6, <2>1, <3>1 DEF CleanUpOwn
  <2> QED BY <1>7, <1>9, <2>1 DEF UOnceBody
<1>10. ASSUME NEW c \in Conns, NEW label \in Labels \ {"none", "cut"}, id' = id,
              worker[c] # "none", worker' = [worker EXCEPT ![c] = label],
              UNCHANGED current
       PROVE  worker' \in [Conns -> Labels] /\ Mapped'
  BY <1>2, <1>3, <1>4, <1>10
<1>11. ASSUME NEW c \in Conns, Worker(c) PROVE Typed' /\ Mapped'
  <2>1. worker[c] # "none" /\ id' = id /\ UNCHANGED push
    BY <1>11 DEF Worker, Check, Try, Backoff, Deliver, SeeClosed, SleepOver,
                 SeeDone, vars, workerVars
  <2>2. CASE Check(c) \/ Backoff(c) \/ SleepOver(c) \/ SeeClosed(c)
    <3>1. UNCHANGED <<current, handed, queue>>
      BY <2>2 DEF Check, Backoff, SleepOver, SeeClosed
    <3>3. tries' \in [Conns -> 0 .. Retries]
      <4>1. CASE Check(c)
        <5>1. tries' = [tries EXCEPT ![c] = 0]
          BY <4>1 DEF Check
        <5> QED BY UnicastAssumption, <1>3, <5>1
      <4>2. CASE Backoff(c) \/ SleepOver(c) \/ SeeClosed(c)
        <5>1. UNCHANGED tries
          BY <4>2 DEF Backoff, SleepOver, SeeClosed
        <5> QED BY <1>3, <5>1
      <4> QED BY <2>2, <4>1, <4>2
    <3>4. \/ worker' = [worker EXCEPT ![c] = "check"]
          \/ worker' = [worker EXCEPT ![c] = "try"]
          \/ worker' = [worker EXCEPT ![c] = "gone"]
          \/ worker' = [worker EXCEPT ![c] = "sleep"]
      BY <2>2 DEF Check, Backoff, SleepOver, SeeClosed, WorkerTo
    <3> QED BY <1>3, <1>10, <2>1, <3>1, <3>3, <3>4 DEF Labels
  <2>3. CASE Try(c)
    <3>1. tries' \in [Conns -> 0 .. Retries]
      <4>1. \/ tries' = [tries EXCEPT ![c] = 0]
            \/ tries[c] < Retries /\ tries' = [tries EXCEPT ![c] = tries[c] + 1]
        BY <2>3 DEF Try
      <4>2. tries[c] \in 0 .. Retries
        BY <1>3
      <4>3. 0 \in 0 .. Retries /\ (tries[c] < Retries => tries[c] + 1 \in 0 .. Retries)
        BY UnicastAssumption, <4>2
      <4> QED BY <1>3, <4>1, <4>3
    <3>2. queue' = queue \/ queue' = [queue EXCEPT ![c] = << >>]
      BY <2>3 DEF Try
    <3>3. queue' \in [Conns -> Seq(Msgs)] /\ UNCHANGED handed
      <4>1. UNCHANGED handed
        BY <2>3 DEF Try
      <4> QED BY <1>3, <1>0, <3>2, <4>1
    <3>4. CASE worker' = [worker EXCEPT ![c] = "on"]
               /\ current' = [current EXCEPT ![id[c]] = c]
      BY RegistryAssumption, <1>2, <1>3, <1>4, <2>1, <3>1, <3>3, <3>4 DEF Labels
    <3>5. ASSUME NEW label \in {"backoff", "deaf"},
                 worker' = [worker EXCEPT ![c] = label], UNCHANGED current
          PROVE  Typed' /\ Mapped'
      BY <1>3, <1>10, <2>1, <3>1, <3>3, <3>5 DEF Labels
    <3> QED BY <2>3, <3>4, <3>5 DEF Try, WorkerTo
  <2>4. CASE Deliver(c)
    <3>1. /\ Head(queue[c]) \in Msgs /\ Tail(queue[c]) \in Seq(Msgs)
      BY <1>3, <2>4 DEF Deliver
    <3>2. /\ \/ queue' = [queue EXCEPT ![c] = << >>]
             \/ queue' = [queue EXCEPT ![c] = Tail(queue[c])]
          /\ \/ UNCHANGED handed
             \/ handed' = [handed EXCEPT ![Head(queue[c])] = handed[Head(queue[c])] + 1]
          /\ UNCHANGED <<tries, current>>
          /\ UNCHANGED worker \/ worker' = [worker EXCEPT ![c] = "sleep"]
      BY <1>3, <2>4, <3>1 DEF Deliver, WorkerTo
    <3>3. queue' \in [Conns -> Seq(Msgs)]
      BY <1>3, <1>0, <3>1, <3>2
    <3>6. handed' \in [Msgs -> Nat]
      BY <1>3, <3>1, <3>2
    <3>4. CASE worker' = [worker EXCEPT ![c] = "sleep"]
      BY <1>3, <1>10, <2>1, <3>2, <3>3, <3>6, <3>4 DEF Labels
    <3>5. CASE UNCHANGED worker
      BY <1>3, <1>4, <2>1, <3>2, <3>3, <3>6, <3>5
    <3> QED BY <3>2, <3>4, <3>5
  <2>5. CASE SeeDone(c)
    <3>1. /\ queue' = [queue EXCEPT ![c] = << >>]
          /\ worker' = [worker EXCEPT ![c] = "gone"]
          /\ UNCHANGED <<tries, current, handed>>
      BY <2>5 DEF SeeDone, WorkerTo
    <3>2. queue' \in [Conns -> Seq(Msgs)]
      BY <1>3, <3>1
    <3> QED BY <1>3, <1>10, <2>1, <3>1, <3>2 DEF Labels
  <2> QED BY <1>11, <2>2, <2>3, <2>4, <2>5 DEF Worker
<1>12. ASSUME NEW m \in Msgs, NEW i \in Ids, PushLocal(m, i) PROVE Typed' /\ Mapped'
  BY <1>3, <1>4, <1>12 DEF PushLocal, workerVars, vars
<1>13. ASSUME NEW m \in Msgs, NEW i \in Ids, PushRemote(m, i) PROVE Typed' /\ Mapped'
  <2>1. queue' \in [Conns -> Seq(Msgs)] /\ id' = id
    BY <1>3, <1>13 DEF PushRemote, vars
  <2> QED BY <1>3, <1>4, <1>13, <2>1 DEF PushRemote
<1> QED
  BY <1>7, <1>8, <1>9, <1>11, <1>12, <1>13 DEF UNext, UCloseHub, uvars

\* Every variable of the workers keeps its type, and the map names subscriptions
\* of its topic (hub.go:212-290).
THEOREM UnicastTypeCorrect == UnicastSafety => []UnicastTypeOK
<1>1. UInit => RegInv /\ WorkerInv
  BY InitRegInv, InitWorkerInv DEF UInit
<1>2. RegInv /\ WorkerInv /\ [UNext]_uvars => (RegInv /\ WorkerInv)'
  BY NextRegInv, NextWorkerInv, StepOfRegistry
<1>3. WorkerInv => UnicastTypeOK
  BY DEF WorkerInv
<1> QED BY <1>1, <1>2, <1>3, PTL DEF UnicastSafety

-------------------------------------------------------------------------------
(* Once per worker                                                         *)

\* The channel that c's worker reads holds m.
Holds(c, m) == \E k \in 1 .. Len(queue[c]) : queue[c][k] = m

\* The connections of m's id whose workers no longer hold m.
Spent(m) == {c \in Conns : id[c] = push[m] /\ ~Holds(c, m)}

\* A channel holds messages for its id, each once; and a message was handed over
\* no oftener than there are workers that may be done with it.
OnceInv ==
    /\ \A m \in Msgs : push[m] = None => handed[m] = 0
    /\ \A c \in Conns : worker[c] = "none" => queue[c] = << >>
    /\ \A c \in Conns : \A k \in 1 .. Len(queue[c]) : push[queue[c][k]] = id[c]
    /\ \A c \in Conns : \A j, k \in 1 .. Len(queue[c]) :
          queue[c][j] = queue[c][k] => j = k
    /\ \A m \in Msgs : push[m] # None => handed[m] <= Cardinality(Spent(m))

\* The connections are finitely many, and the more of them are done the more count.
LEMMA SpentGrows ==
    ASSUME NEW S \in SUBSET Conns, NEW T \in SUBSET Conns, S \subseteq T
    PROVE  /\ Cardinality(S) \in Nat /\ Cardinality(T) \in Nat
           /\ Cardinality(S) <= Cardinality(T)
<1>1. IsFiniteSet(S) /\ IsFiniteSet(T)
  BY UnicastAssumption, FS_Subset
<1>2. Cardinality(S) \in Nat /\ Cardinality(T) \in Nat
  BY <1>1, FS_CardinalityType
<1>3. Cardinality(S) <= Cardinality(T)
  BY <1>1, FS_Subset
<1> QED BY <1>2, <1>3

\* Nothing is pushed at first.
LEMMA InitOnceInv == UInit => OnceInv
<1> SUFFICES ASSUME UInit PROVE OnceInv
  OBVIOUS
<1>1. \A c \in Conns : queue[c] = << >> /\ Len(queue[c]) = 0
  BY DEF UInit
<1>2. \A m \in Msgs : handed[m] = 0 /\ push[m] = None
  BY DEF UInit
<1> QED BY <1>1, <1>2 DEF OnceInv

\* Steps that push and hand over nothing, and may empty channels.
LEMMA NothingHanded ==
    ASSUME OnceInv, WorkerInv, RegInv, UNCHANGED <<push, handed>>,
           \A c \in Conns : id[c] # None => id'[c] = id[c],
           \A c \in Conns : queue'[c] = queue[c] \/ queue'[c] = << >>,
           \A c \in Conns : worker'[c] = "none" => worker[c] = "none"
    PROVE  OnceInv'
<1>1. \A c \in Conns : Len(queue[c]) > 0 => worker[c] # "none"
  BY DEF OnceInv
<1>2. \A c \in Conns : Len(queue[c]) > 0 => id[c] # None /\ id'[c] = id[c]
  BY <1>1, RegistryAssumption DEF WorkerInv
<1>3. \A c \in Conns : Len(queue'[c]) > 0 => queue'[c] = queue[c]
  OBVIOUS
<1>4. ASSUME NEW m \in Msgs, push[m] # None
      PROVE  handed[m] <= Cardinality(Spent(m)')
  <2>1. Spent(m) \subseteq Spent(m)'
    BY <1>3, <1>4 DEF Spent, Holds
  <2>2. Spent(m) \in SUBSET Conns /\ Spent(m)' \in SUBSET Conns
    BY DEF Spent
  <2>3. /\ Cardinality(Spent(m)) \in Nat /\ Cardinality(Spent(m)') \in Nat
        /\ Cardinality(Spent(m)) <= Cardinality(Spent(m)')
    BY <2>1, <2>2, SpentGrows
  <2>4. handed[m] \in Nat /\ handed[m] <= Cardinality(Spent(m))
    BY <1>4 DEF OnceInv, WorkerInv, UnicastTypeOK
  <2> QED BY <2>3, <2>4
<1>5. \A c \in Conns : \A k \in 1 .. Len(queue'[c]) :
         Len(queue'[c]) > 0 /\ queue'[c] = queue[c]
  OBVIOUS
<1> QED BY <1>2, <1>4, <1>5 DEF OnceInv

\* Every step, and Deliver and Push in particular, keeps the books.
LEMMA NextOnceInv ==
    RegInv /\ WorkerInv /\ OnceInv /\ [UNext]_uvars => OnceInv'
<1> SUFFICES ASSUME RegInv, WorkerInv, OnceInv, [UNext]_uvars PROVE OnceInv'
  OBVIOUS
<1>1. \A c \in Conns : id[c] # None => id'[c] = id[c]
  BY IdIsKept, StepOfRegistry
<1>2. /\ worker \in [Conns -> Labels] /\ queue \in [Conns -> Seq(Msgs)]
      /\ push \in [Msgs -> Ids \cup {None}] /\ handed \in [Msgs -> Nat]
      /\ \A c \in Conns : worker[c] # "none" => id[c] \in Ids
  BY DEF WorkerInv, UnicastTypeOK, Labels
<1>3. ASSUME UNCHANGED unicastVars PROVE OnceInv'
  BY <1>1, <1>3, NothingHanded DEF unicastVars, workerVars
<1>4. ASSUME NEW i \in Ids, BusUnsubscribe(i) PROVE OnceInv'
  BY <1>1, <1>2, <1>4, NothingHanded DEF BusUnsubscribe
<1>5. ASSUME NEW c \in Conns, USetup(c) PROVE OnceInv'
  <2>1. CASE CleanUpOld(c)
    <3>1. id[c] \in Ids
      BY <2>1 DEF CleanUpOld, UnsubscribeOld, RegInv, TypeOK, TableInv
    <3> QED BY <1>4, <2>1, <3>1 DEF CleanUpOld
  <2>2. CASE StartWorker(c)
    <3>1. /\ UNCHANGED <<push, handed, queue>>
          /\ worker' = [worker EXCEPT ![c] = "check"]
      BY <2>2 DEF StartWorker, WorkerTo
    <3> QED BY <1>1, <1>2, <3>1, NothingHanded
  <2> QED BY <1>3, <1>5, <2>1, <2>2 DEF USetup
<1>6. ASSUME NEW c \in Conns, UOnceBody(c) PROVE OnceInv'
  <2>1. CASE CleanUpOwn(c)
    <3>1. id[c] \in Ids
      BY <2>1 DEF CleanUpOwn, UnsubscribeOwn, RegInv, TypeOK, TableInv
    <3> QED BY <1>4, <2>1, <3>1 DEF CleanUpOwn
  <2> QED BY <1>3, <1>6, <2>1 DEF UOnceBody
<1>7. ASSUME NEW c \in Conns, Worker(c), ~Deliver(c) PROVE OnceInv'
  <2>1. UNCHANGED <<push, handed>>
    BY <1>7 DEF Worker, Check, Try, Backoff, SeeClosed, SleepOver, SeeDone
  <2>2. \A d \in Conns : worker'[d] = "none" => worker[d] = "none"
    BY <1>2, <1>7
    DEF Worker, Check, Try, Backoff, SeeClosed, SleepOver, SeeDone, WorkerTo
  <2>3. \/ UNCHANGED queue
        \/ queue' = [queue EXCEPT ![c] = << >>]
    BY <1>7 DEF Worker, Check, Try, Backoff, SeeClosed, SleepOver, SeeDone
  <2>4. \A d \in Conns : queue'[d] = queue[d] \/ queue'[d] = << >>
    BY <1>2, <2>3
  <2> QED BY <1>1, <2>1, <2>2, <2>4, NothingHanded
<1>8. ASSUME NEW c \in Conns, Deliver(c) PROVE OnceInv'
  <2>1. /\ queue[c] # << >> /\ worker[c] \in {"on", "cut"}
        /\ UNCHANGED <<id, push>>
    BY <1>8 DEF Deliver, vars
  <2>2. CASE clients[id[c]] = None
    <3>1. /\ UNCHANGED handed
          /\ worker' = [worker EXCEPT ![c] = "sleep"]
          /\ queue' = [queue EXCEPT ![c] = << >>]
      BY <1>8, <2>2 DEF Deliver, WorkerTo
    <3> QED BY <1>1, <1>2, <2>1, <3>1, NothingHanded
  <2>3. CASE clients[id[c]] # None
    <3>0. PICK m \in Msgs : m = Head(queue[c])
      BY <1>2, <2>1, HeadTailProperties, EmptySeq
    <3>1. /\ UNCHANGED worker
          /\ queue' = [queue EXCEPT ![c] = Tail(queue[c])]
          /\ \/ UNCHANGED handed
             \/ handed' = [handed EXCEPT ![m] = handed[m] + 1]
      <4>1. /\ UNCHANGED worker
            /\ queue' = [queue EXCEPT ![c] = Tail(queue[c])]
            /\ handed' = [handed EXCEPT ![m] = IF life[clients[id[c]]] = "open"
                                              THEN handed[m] + 1 ELSE handed[m]]
        BY <1>8, <2>3, <3>0 DEF Deliver
      <4>2. CASE life[clients[id[c]]] = "open"
        BY <4>1, <4>2
      <4>3. CASE life[clients[id[c]]] # "open"
        BY <1>2, <4>1, <4>3
      <4> QED BY <4>1, <4>2, <4>3
    <3>2. /\ m \in Msgs /\ Len(queue[c]) \in Nat \ {0} /\ m = queue[c][1]
          /\ Len(Tail(queue[c])) = Len(queue[c]) - 1
          /\ \A k \in 1 .. Len(Tail(queue[c])) : Tail(queue[c])[k] = queue[c][k + 1]
      <4>1. queue[c] \in Seq(Msgs)
        BY <1>2
      <4> QED BY <2>1, <3>0, <4>1, HeadTailProperties, EmptySeq
    <3>3. /\ \A d \in Conns \ {c} : queue'[d] = queue[d]
          /\ Len(queue'[c]) = Len(queue[c]) - 1
          /\ \A k \in 1 .. Len(queue'[c]) : /\ queue'[c][k] = queue[c][k + 1]
                                            /\ k + 1 \in 1 .. Len(queue[c])
      BY <1>2, <3>1, <3>2
    <3>4. \A k \in 1 .. Len(queue'[c]) : queue'[c][k] # m
      <4>1. 1 \in 1 .. Len(queue[c]) /\ queue[c][1] = m
        BY <3>2
      <4>2. ASSUME NEW k \in 1 .. Len(queue'[c]), queue'[c][k] = m PROVE FALSE
        <5>1. queue[c][k + 1] = queue[c][1] /\ k + 1 \in 1 .. Len(queue[c])
          BY <3>3, <4>1, <4>2
        <5>2. k + 1 = 1
          BY <4>1, <5>1 DEF OnceInv
        <5> QED BY <5>2
      <4> QED BY <4>2
    <3>5. push[m] = id[c] /\ Holds(c, m)
      BY <3>2 DEF OnceInv, Holds
    <3>6. /\ push[m] # None
          /\ \A n \in Msgs : handed'[n] = handed[n]
                              \/ (n = m /\ handed'[n] = handed[n] + 1)
      <4>1. push[m] = id[c]
        BY <3>2 DEF OnceInv
      <4>2. push[m] # None
        BY <1>2, <2>1, <4>1, RegistryAssumption
      <4> QED BY <1>2, <3>1, <3>2, <4>2
    <3>7. Cardinality(Spent(m)') = Cardinality(Spent(m)) + 1
      <4>1. Holds(c, m)' <=> FALSE
        BY <3>4 DEF Holds
      <4>2. \A d \in Conns \ {c} : Holds(d, m)' <=> Holds(d, m)
        BY <3>3 DEF Holds
      <4>3. Spent(m)' = Spent(m) \cup {c} /\ c \notin Spent(m)
        BY <2>1, <3>5, <4>1, <4>2 DEF Spent
      <4>4. IsFiniteSet(Spent(m))
        BY UnicastAssumption, FS_Subset DEF Spent
      <4> QED BY <4>3, <4>4, FS_AddElement
    <3>8. ASSUME NEW n \in Msgs, push'[n] # None
          PROVE  handed'[n] <= Cardinality(Spent(n)')
      <4>0. handed[n] \in Nat /\ handed[n] <= Cardinality(Spent(n))
        BY <1>2, <2>1, <3>8 DEF OnceInv
      <4>1. CASE n = m
        <5>1. Cardinality(Spent(m)) \in Nat
          BY SpentGrows DEF Spent
        <5>2. handed'[m] = handed[m] \/ handed'[m] = handed[m] + 1
          BY <3>6
        <5>3. handed[m] \in Nat /\ handed[m] <= Cardinality(Spent(m))
          BY <4>0, <4>1
        <5>4. handed'[m] <= Cardinality(Spent(m)')
          BY <3>7, <5>1, <5>2, <5>3
        <5> QED BY <4>1, <5>4
      <4>2. CASE n # m
        <5>1. handed'[n] = handed[n]
          BY <3>6, <4>2
        <5>2. Holds(c, n)' => Holds(c, n)
          BY <3>3 DEF Holds
        <5>3. \A d \in Conns \ {c} : Holds(d, n)' <=> Holds(d, n)
          BY <3>3 DEF Holds
        <5>4. Spent(n) \subseteq Spent(n)'
          BY <2>1, <5>2, <5>3 DEF Spent
        <5>5. Spent(n) \in SUBSET Conns /\ Spent(n)' \in SUBSET Conns
          BY DEF Spent
        <5>6. /\ Cardinality(Spent(n)) \in Nat /\ Cardinality(Spent(n)') \in Nat
              /\ Cardinality(Spent(n)) <= Cardinality(Spent(n)')
          BY <5>4, <5>5, SpentGrows
        <5> QED BY <4>0, <5>1, <5>6
      <4> QED BY <4>1, <4>2
    <3>9. \A n \in Msgs : push'[n] = None => handed'[n] = 0
      BY <2>1, <3>6 DEF OnceInv
    <3>10. \A d \in Conns : worker'[d] = "none" => queue'[d] = << >>
      BY <1>2, <2>1, <3>1 DEF OnceInv
    <3>11. ASSUME NEW d \in Conns, NEW k \in 1 .. Len(queue'[d])
           PROVE  push'[queue'[d][k]] = id'[d]
      <4>1. CASE d = c
        BY <2>1, <3>3, <4>1 DEF OnceInv
      <4>2. CASE d # c
        BY <2>1, <3>3, <4>2 DEF OnceInv
      <4> QED BY <4>1, <4>2
    <3>12. ASSUME NEW d \in Conns, NEW j \in 1 .. Len(queue'[d]),
                  NEW k \in 1 .. Len(queue'[d]), queue'[d][j] = queue'[d][k]
           PROVE  j = k
      <4>1. CASE d = c
        <5>1. /\ j + 1 \in 1 .. Len(queue[c]) /\ k + 1 \in 1 .. Len(queue[c])
              /\ queue[c][j + 1] = queue[c][k + 1]
          BY <3>3, <3>12, <4>1
        <5>2. j + 1 = k + 1 /\ j \in Int /\ k \in Int
          BY <5>1 DEF OnceInv
        <5> QED BY <5>2
      <4>2. CASE d # c
        BY <3>3, <3>12, <4>2 DEF OnceInv
      <4> QED BY <4>1, <4>2
    <3> QED BY <3>8, <3>9, <3>10, <3>11, <3>12 DEF OnceInv
  <2> QED BY <2>2, <2>3
<1>9. ASSUME NEW m \in Msgs, NEW i \in Ids, PushLocal(m, i) PROVE OnceInv'
  <2>1. /\ push[m] = None /\ push' = [push EXCEPT ![m] = i]
        /\ UNCHANGED <<id, worker, queue>>
        /\ \/ handed' = [handed EXCEPT ![m] = 1]
           \/ handed' = [handed EXCEPT ![m] = 0]
    BY <1>9 DEF PushLocal, vars, workerVars
  <2>2. ASSUME NEW c \in Conns, NEW k \in 1 .. Len(queue[c]) PROVE queue[c][k] # m
    <3>1. worker[c] # "none"
      BY <2>2 DEF OnceInv
    <3>2. id[c] # None
      BY <1>2, <3>1, RegistryAssumption
    <3> QED BY <2>1, <3>2 DEF OnceInv
  <2>3. ASSUME NEW n \in Msgs, n # m
        PROVE  push'[n] = push[n] /\ handed'[n] = handed[n] /\ Spent(n)' = Spent(n)
    BY <1>2, <2>1, <2>3 DEF Spent, Holds
  <2>4. handed'[m] <= Cardinality(Spent(m)') /\ push'[m] # None
    <3> DEFINE c == clients[i]
    <3>1. c \in Conns /\ id[c] = i
      BY <1>9 DEF PushLocal, RegInv, TypeOK, TableInv
    <3>2. push'[m] = i /\ handed'[m] \in {0, 1}
      BY <1>2, <2>1
    <3>3. c \in Spent(m)'
      BY <2>1, <2>2, <3>1, <3>2 DEF Spent, Holds
    <3> HIDE DEF c
    <3>4. {c} \in SUBSET Conns /\ Spent(m)' \in SUBSET Conns /\ {c} \subseteq Spent(m)'
      BY <3>1, <3>3 DEF Spent
    <3>5. Cardinality({c}) = 1
      BY FS_Singleton
    <3>6. Cardinality({c}) <= Cardinality(Spent(m)') /\ Cardinality(Spent(m)') \in Nat
      BY <3>4, SpentGrows
    <3> QED BY <3>2, <3>5, <3>6, RegistryAssumption
  <2>5. \A c \in Conns : \A k \in 1 .. Len(queue[c]) : queue[c][k] \in Msgs
    BY <1>2
  <2> QED BY <2>1, <2>2, <2>3, <2>4, <2>5 DEF OnceInv
<1>10. ASSUME NEW m \in Msgs, NEW i \in Ids, PushRemote(m, i) PROVE OnceInv'
  <2>1. PICK R \in SUBSET {c \in Conns : id[c] = i /\ worker[c] = "on"} :
           queue' = [c \in Conns |-> IF c \in R THEN Append(queue[c], m) ELSE queue[c]]
    BY <1>10 DEF PushRemote
  <2>2. /\ push[m] = None /\ push' = [push EXCEPT ![m] = i]
        /\ UNCHANGED <<id, worker, handed>>
    BY <1>10 DEF PushRemote, vars
  <2>3. ASSUME NEW c \in Conns, NEW k \in 1 .. Len(queue[c]) PROVE queue[c][k] # m
    <3>1. worker[c] # "none"
      BY <2>3 DEF OnceInv
    <3>2. id[c] # None
      BY <1>2, <3>1, RegistryAssumption
    <3> QED BY <2>2, <3>2 DEF OnceInv
  <2>4. ASSUME NEW n \in Msgs, n # m
        PROVE  push'[n] = push[n]
    BY <1>2, <2>2, <2>4
  <2>5. push'[m] = i /\ i # None /\ handed[m] = 0
    BY <1>2, <2>2, RegistryAssumption DEF OnceInv
  <2>6. ASSUME NEW c \in Conns
        PROVE  \/ queue'[c] = queue[c]
               \/ /\ id[c] = i /\ worker[c] = "on"
                  /\ Len(queue'[c]) = Len(queue[c]) + 1
                  /\ queue'[c][Len(queue[c]) + 1] = m
                  /\ \A k \in 1 .. Len(queue[c]) : queue'[c][k] = queue[c][k]
    <3>1. queue[c] \in Seq(Msgs)
      BY <1>2
    <3> QED BY <2>1, <3>1, AppendProperties
  <2>7. \A c \in Conns : /\ Len(queue[c]) \in Nat
                         /\ \A k \in 1 .. Len(queue[c]) : queue[c][k] \in Msgs
    BY <1>2
  <2>8. ASSUME NEW c \in Conns, NEW k \in 1 .. Len(queue'[c])
        PROVE  \/ k \in 1 .. Len(queue[c]) /\ queue'[c][k] = queue[c][k]
               \/ k = Len(queue[c]) + 1 /\ queue'[c][k] = m /\ id[c] = i
    BY <2>6, <2>7
  <2>9. \A c \in Conns : \A k \in 1 .. Len(queue'[c]) : push'[queue'[c][k]] = id'[c]
    BY <2>2, <2>3, <2>4, <2>5, <2>7, <2>8 DEF OnceInv
  <2>10. \A c \in Conns : \A j, k \in 1 .. Len(queue'[c]) :
            queue'[c][j] = queue'[c][k] => j = k
    BY <2>3, <2>8 DEF OnceInv
  <2>11. ASSUME NEW n \in Msgs, push'[n] # None
         PROVE  handed'[n] <= Cardinality(Spent(n)')
    <3>1. Cardinality(Spent(n)) \in Nat /\ Cardinality(Spent(n)') \in Nat
      BY SpentGrows DEF Spent
    <3>2. CASE n = m
      BY <2>2, <2>5, <3>1, <3>2
    <3>3. CASE n # m
      <4>1. push'[n] = push[n] /\ \A c \in Conns : Holds(c, n)' <=> Holds(c, n)
        <5>1. \A c \in Conns : Holds(c, n)' => Holds(c, n)
          BY <2>8, <3>3 DEF Holds
        <5>2. \A c \in Conns : Holds(c, n) => Holds(c, n)'
          BY <2>6, <2>7 DEF Holds
        <5> QED BY <2>4, <3>3, <5>1, <5>2
      <4>2. Spent(n)' = Spent(n)
        BY <2>2, <4>1 DEF Spent
      <4> QED BY <2>2, <2>11, <4>1, <4>2 DEF OnceInv
    <3> QED BY <3>2, <3>3
  <2>12. \A c \in Conns : worker'[c] = "none" => queue'[c] = << >>
    BY <2>2, <2>6 DEF OnceInv
  <2>13. \A n \in Msgs : push'[n] = None => handed'[n] = 0
    BY <2>2, <2>4, <2>5 DEF OnceInv
  <2> QED BY <2>9, <2>10, <2>11, <2>12, <2>13 DEF OnceInv
<1> QED
  BY <1>3, <1>5, <1>6, <1>7, <1>8, <1>9, <1>10 DEF UNext, UCloseHub, uvars

\* A message pushed to an id is handed over at most as often as connections were
\* made under the id, for any number of them and of reconnects and retries: each
\* worker hands it over once, and Push itself only if the bus gets nothing
\* (hub.go:203-322), over a bus that gives every subscription a message once.
THEOREM UnicastOncePerWorker == UnicastSafety => []OncePerWorker
<1>1. UInit => RegInv /\ WorkerInv /\ OnceInv
  BY InitRegInv, InitWorkerInv, InitOnceInv DEF UInit
<1>2. RegInv /\ WorkerInv /\ OnceInv /\ [UNext]_uvars
        => (RegInv /\ WorkerInv /\ OnceInv)'
  BY NextRegInv, NextWorkerInv, NextOnceInv, StepOfRegistry
<1>3. WorkerInv /\ OnceInv => OncePerWorker
  <2> SUFFICES ASSUME WorkerInv, OnceInv, NEW m \in Msgs, push[m] # None
               PROVE  handed[m] <= Cardinality({c \in Conns : id[c] = push[m]})
    BY DEF OncePerWorker
  <2> DEFINE Under == {c \in Conns : id[c] = push[m]}
  <2>1. Spent(m) \in SUBSET Conns /\ Under \in SUBSET Conns /\ Spent(m) \subseteq Under
    BY DEF Spent
  <2>2. handed[m] \in Nat /\ handed[m] <= Cardinality(Spent(m))
    BY DEF OnceInv, WorkerInv, UnicastTypeOK
  <2> HIDE DEF Under
  <2>3. /\ Cardinality(Spent(m)) \in Nat /\ Cardinality(Under) \in Nat
        /\ Cardinality(Spent(m)) <= Cardinality(Under)
    BY <2>1, SpentGrows
  <2>4. handed[m] <= Cardinality(Under)
    BY <2>2, <2>3
  <2> QED BY <2>4 DEF Under
<1> QED BY <1>1, <1>2, <1>3, PTL DEF UnicastSafety
===============================================================================
