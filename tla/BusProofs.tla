-------------------------------- MODULE BusProofs --------------------------------
(***************************************************************************)
(* Proofs about Bus.tla: type correctness, what Publish's answer means,    *)
(* that JetStream forgets nothing unread, that nodes which start together  *)
(* keep their subject, the order of delivery, and that each of the buses   *)
(* implements MessageBus.                                                  *)
(***************************************************************************)
EXTENDS Bus, FiniteSetTheorems, FunctionTheorems, SequenceTheorems, TLAPS

-------------------------------------------------------------------------------
(* A finite set of numbers and its order                                   *)

Below(S, q) == {r \in S : r < q}

\* Numbering the elements of a finite set of numbers by how many are below them
\* gives each position once, and the order is the numbers'.
LEMMA RankIsOnto ==
    ASSUME NEW S \in SUBSET Nat, IsFiniteSet(S)
    PROVE  /\ Cardinality(S) \in Nat
           /\ \A q \in S : Cardinality(Below(S, q)) + 1 \in 1 .. Cardinality(S)
           /\ \A q, r \in S : q < r => Cardinality(Below(S, q)) < Cardinality(Below(S, r))
           /\ \A i \in 1 .. Cardinality(S) : \E q \in S : Cardinality(Below(S, q)) + 1 = i
<1> DEFINE n == Cardinality(S)
           rank == [q \in S |-> Cardinality(Below(S, q)) + 1]
<1>1. n \in Nat
  BY FS_CardinalityType
<1>2. ASSUME NEW q \in S
      PROVE  /\ IsFiniteSet(Below(S, q)) /\ Cardinality(Below(S, q)) \in Nat
             /\ Cardinality(Below(S, q)) < n
  <2>1. Below(S, q) \in SUBSET S /\ Below(S, q) # S
    BY DEF Below
  <2>2. IsFiniteSet(Below(S, q)) /\ Cardinality(Below(S, q)) <= n
        /\ (Cardinality(Below(S, q)) = n => S = Below(S, q))
    BY <2>1, FS_Subset
  <2>3. Cardinality(Below(S, q)) \in Nat
    BY <2>2, FS_CardinalityType
  <2> QED BY <1>1, <2>1, <2>2, <2>3
<1>3. ASSUME NEW q \in S, NEW r \in S, q < r
      PROVE  Cardinality(Below(S, q)) < Cardinality(Below(S, r))
  <2>1. /\ Below(S, q) \in SUBSET Below(S, r)
        /\ q \in Below(S, r) /\ q \notin Below(S, q)
    <3>1. \A x \in S : x \in Nat
      OBVIOUS
    <3>2. \A x \in S : x < q => x < r
      BY <1>3, <3>1
    <3>3. ~(q < q)
      BY <3>1
    <3> QED BY <1>3, <3>2, <3>3 DEF Below
  <2>2. /\ Cardinality(Below(S, q)) <= Cardinality(Below(S, r))
        /\ Cardinality(Below(S, q)) = Cardinality(Below(S, r))
              => Below(S, q) = Below(S, r)
    BY <1>2, <2>1, FS_Subset
  <2> QED BY <1>2, <2>1, <2>2
<1>4. rank \in [S -> 1 .. n] /\ \A q \in S : rank[q] = Cardinality(Below(S, q)) + 1
  BY <1>1, <1>2
<1>5. \A q, r \in S : rank[q] = rank[r] => q = r
  <2> SUFFICES ASSUME NEW q \in S, NEW r \in S, q # r PROVE rank[q] # rank[r]
    OBVIOUS
  <2>1. q < r \/ r < q
    OBVIOUS
  <2> QED BY <1>2, <1>3, <1>4, <2>1
<1>6. rank \in Surjection(S, 1 .. n)
  <2> HIDE DEF rank
  <2>1. rank \in Injection(S, 1 .. n)
    BY <1>4, <1>5, Fun_IsInj
  <2>2. IsFiniteSet(1 .. n) /\ Cardinality(1 .. n) = n
    BY <1>1, FS_Interval
  <2> QED BY <2>1, <2>2, FS_Injection
<1>7. \A i \in 1 .. n : \E q \in S : rank[q] = i
  <2> HIDE DEF rank
  <2> QED BY <1>6 DEF Surjection
<1> QED BY <1>1, <1>2, <1>3, <1>4, <1>7

\* A finite set of numbers that is not empty has a least element.
LEMMA LeastElement ==
    ASSUME NEW S \in SUBSET Nat, IsFiniteSet(S), S # {}
    PROVE  \E q \in S : Below(S, q) = {}
<1>1. Cardinality(S) \in Nat \ {0}
  BY FS_CardinalityType, FS_EmptySet
<1>2. PICK q \in S : Cardinality(Below(S, q)) + 1 = 1
  BY <1>1, RankIsOnto
<1>3. Below(S, q) \in SUBSET S
  BY DEF Below
<1>4. IsFiniteSet(Below(S, q)) /\ Cardinality(Below(S, q)) \in Nat
  BY <1>3, FS_Subset, FS_CardinalityType
<1>5. Cardinality(Below(S, q)) = 0
  BY <1>2, <1>4
<1> QED BY <1>4, <1>5, FS_EmptySet

\* A finite set of numbers can be listed in order.
LEMMA InOrderExists ==
    ASSUME NEW S \in SUBSET Nat, IsFiniteSet(S)
    PROVE  \E f \in [1 .. Cardinality(S) -> S] :
              \A i, j \in DOMAIN f : i < j => f[i] < f[j]
<1> DEFINE n == Cardinality(S)
           f == [i \in 1 .. n |-> CHOOSE q \in S : Cardinality(Below(S, q)) + 1 = i]
<1>1. \A i \in 1 .. n : f[i] \in S /\ Cardinality(Below(S, f[i])) + 1 = i
  BY RankIsOnto
<1>2. f \in [1 .. n -> S] /\ DOMAIN f = 1 .. n
  BY <1>1
<1>3. ASSUME NEW i \in 1 .. n, NEW j \in 1 .. n, i < j PROVE f[i] < f[j]
  <2> DEFINE a == f[i]
             b == f[j]
  <2>1. /\ a \in S /\ b \in S
        /\ Cardinality(Below(S, a)) + 1 = i /\ Cardinality(Below(S, b)) + 1 = j
    BY <1>1
  <2>2. n \in Nat
    BY RankIsOnto
  <2> HIDE DEF a, b
  <2>3. b < a => Cardinality(Below(S, b)) < Cardinality(Below(S, a))
    BY <2>1, RankIsOnto
  <2>4. Cardinality(Below(S, a)) + 1 \in 1 .. n /\ Cardinality(Below(S, b)) + 1 \in 1 .. n
    BY <2>1, RankIsOnto
  <2>6. a \in Nat /\ b \in Nat /\ a # b
    BY <1>3, <2>1, <2>2
  <2>7. IsFiniteSet(Below(S, a)) /\ IsFiniteSet(Below(S, b))
    <3>1. Below(S, a) \in SUBSET S /\ Below(S, b) \in SUBSET S
      BY DEF Below
    <3> QED BY <3>1, FS_Subset
  <2>8. Cardinality(Below(S, a)) \in Nat /\ Cardinality(Below(S, b)) \in Nat
    BY <2>7, FS_CardinalityType
  <2>5. a < b
    BY <1>3, <2>1, <2>2, <2>3, <2>6, <2>8
  <2> QED BY <2>5 DEF a, b
<1> HIDE DEF f
<1> QED BY <1>2, <1>3

-------------------------------------------------------------------------------
(* The invariant                                                           *)

\* An entry that is ready may be delivered once more.
Entries == {e \in [msg : Msgs, st : {"ready", "pending", "gone"}, n : 0 .. MaxDeliver] :
               e.st = "ready" => e.n < MaxDeliver}

Runs   == {"run", "fetch", "batch", "send", "check", "range"}
Labels == Runs \cup {"none", "ended"}

ControlInv ==
    /\ kind \in {"nats", "redis", "noop", "starting"}
    /\ js \in BOOLEAN /\ (kind \in {"redis", "noop"} => js = FALSE)
    /\ bus \in {"up", "closing", "closed"}
    /\ pub \in [Msgs -> {"idle", "wait", "ok", "failed"}]
    /\ sender \in [Msgs -> {"none", "trying", "ok", "failed"}]
    /\ ts \in [Subs -> BOOLEAN]
    /\ current \in [BOOLEAN -> Subs \cup {None}]
    /\ stopped \subseteq Subs /\ live \subseteq Subs
    /\ cancelled \subseteq Subs /\ attached \subseteq Subs
    /\ stream \in Seq(Entries) /\ log \in Seq(Msgs)

\* The buffer of a core connection holds messages.
LinkInv == link \in Seq(Msgs)

\* What is on its way to a subscriber, and what it got, are positions of the log.
DataInv ==
    /\ loop \in [Subs -> Labels]
    /\ inbox \in [Subs -> Seq(1 .. Len(Taken))]
    /\ out \in [Subs -> 0 .. Cap]
    /\ got \in [Subs -> SUBSET (1 .. Len(Taken))]
    /\ \A s \in Subs : loop[s] \in {"none", "ended"} => got[s] = {}
    /\ \A s \in Subs : loop[s] \in {"batch", "send"} => inbox[s] # << >>

-------------------------------------------------------------------------------
(* The log of the server                                                   *)

\* The entries of the stream change, not their messages; none but those in S
\* are forgotten by it.
Restatus(t, S) == /\ t \in Seq(Entries) /\ Len(t) = Len(stream)
                  /\ \A q \in 1 .. Len(stream) :
                        /\ t[q].msg = stream[q].msg
                        /\ t[q].st = "gone" => stream[q].st = "gone" \/ q \in S

LEMMA StreamType ==
    ASSUME stream \in Seq(Entries)
    PROVE  /\ Len(stream) \in Nat /\ DOMAIN stream = 1 .. Len(stream)
           /\ \A q \in 1 .. Len(stream) : stream[q] \in Entries
BY LenProperties, ElementOfSeq

LEMMA SameStatus ==
    ASSUME stream \in Seq(Entries)
    PROVE  Restatus(stream, {})
BY DEF Restatus

LEMMA OneRestatus ==
    ASSUME stream \in Seq(Entries), NEW q \in 1 .. Len(stream),
           NEW e \in Entries, e.msg = stream[q].msg
    PROVE  /\ Restatus([stream EXCEPT ![q] = e], {q})
           /\ e.st # "gone" => Restatus([stream EXCEPT ![q] = e], {})
<1> DEFINE t == [stream EXCEPT ![q] = e]
<1>1. t \in Seq(Entries) /\ Len(t) = Len(stream)
      /\ t[q] = e /\ \A p \in 1 .. Len(stream) : p # q => t[p] = stream[p]
  BY ExceptSeq, StreamType
<1> HIDE DEF t
<1>2. Restatus(t, {q}) /\ (e.st # "gone" => Restatus(t, {}))
  BY <1>1 DEF Restatus
<1> QED BY <1>2 DEF t

LEMMA AllRestatus ==
    ASSUME stream \in Seq(Entries), NEW t \in [1 .. Len(stream) -> Entries],
           \A q \in 1 .. Len(stream) : /\ t[q].msg = stream[q].msg
                                       /\ t[q].st = "gone" => stream[q].st = "gone"
    PROVE  Restatus(t, {})
<1>1. Len(stream) \in Nat
  BY LenProperties
<1>2. t \in Seq(Entries) /\ Len(t) = Len(stream)
  BY <1>1
<1> QED BY <1>2 DEF Restatus

\* What is taken is a log of messages.
LEMMA MsgsOf ==
    ASSUME NEW t \in Seq(Entries)
    PROVE  LET u == [q \in DOMAIN t |-> t[q].msg] IN
           u \in Seq(Msgs) /\ Len(u) = Len(t) /\ \A q \in 1 .. Len(t) : u[q] = t[q].msg
<1> DEFINE u == [q \in DOMAIN t |-> t[q].msg]
<1>1. /\ Len(t) \in Nat /\ DOMAIN t = 1 .. Len(t)
      /\ \A q \in 1 .. Len(t) : t[q].msg \in Msgs
  BY LenProperties, ElementOfSeq DEF Entries
<1>2. u \in [1 .. Len(t) -> Msgs]
  BY <1>1
<1>3. u \in Seq(Msgs) /\ Len(u) = Len(t)
  BY <1>1, <1>2
<1> QED BY <1>1, <1>3

LEMMA TakenType ==
    ASSUME stream \in Seq(Entries), log \in Seq(Msgs)
    PROVE  Taken \in Seq(Msgs) /\ Len(Taken) \in Nat /\ DOMAIN Taken = 1 .. Len(Taken)
           /\ (kind # "redis" => Len(Taken) = Len(stream)
                 /\ \A q \in 1 .. Len(stream) : Taken[q] = stream[q].msg)
<1>1. CASE kind = "redis"
  BY <1>1, LenProperties DEF Taken
<1>2. CASE kind # "redis"
  <2>1. Taken = [q \in DOMAIN stream |-> stream[q].msg]
    BY <1>2 DEF Taken
  <2>2. Taken \in Seq(Msgs) /\ Len(Taken) = Len(stream)
        /\ \A q \in 1 .. Len(stream) : Taken[q] = stream[q].msg
    BY <2>1, MsgsOf
  <2> QED BY <2>2, LenProperties
<1> QED BY <1>1, <1>2

LEMMA TakenSame ==
    ASSUME stream \in Seq(Entries), NEW S, Restatus(stream', S), UNCHANGED <<kind, log>>
    PROVE  Taken' = Taken
<1>1. DOMAIN stream = 1 .. Len(stream) /\ DOMAIN stream' = 1 .. Len(stream)
  BY LenProperties DEF Restatus
<1>2. [q \in DOMAIN stream' |-> stream'[q].msg] = [q \in DOMAIN stream |-> stream[q].msg]
  BY <1>1 DEF Restatus
<1> QED BY <1>2 DEF Taken

LEMMA TakenStored ==
    ASSUME stream \in Seq(Entries), log \in Seq(Msgs), kind # "redis", kind' = kind,
           NEW e \in Entries, stream' = Append(stream, e)
    PROVE  stream' \in Seq(Entries) /\ Taken' = Append(Taken, e.msg)
<1>1. /\ stream' \in Seq(Entries) /\ Len(stream') = Len(stream) + 1
      /\ Len(stream) \in Nat
      /\ \A q \in 1 .. Len(stream) : stream'[q] = stream[q]
      /\ stream'[Len(stream) + 1] = e
  BY LenProperties
<1>2. /\ Taken \in Seq(Msgs) /\ Len(Taken) = Len(stream)
      /\ \A q \in 1 .. Len(stream) : Taken[q] = stream[q].msg
  BY TakenType
<1>3. Taken' = [q \in DOMAIN stream' |-> stream'[q].msg]
  BY DEF Taken
<1>4. /\ Taken' \in Seq(Msgs) /\ Len(Taken') = Len(stream')
      /\ \A q \in 1 .. Len(stream') : Taken'[q] = stream'[q].msg
  BY <1>1, <1>3, MsgsOf
<1>5. e.msg \in Msgs
  BY DEF Entries
<1>6. /\ Append(Taken, e.msg) \in Seq(Msgs)
      /\ Len(Append(Taken, e.msg)) = Len(Taken) + 1
      /\ \A q \in 1 .. Len(Taken) : Append(Taken, e.msg)[q] = Taken[q]
      /\ Append(Taken, e.msg)[Len(Taken) + 1] = e.msg
  BY <1>2, <1>5, LenProperties
<1>7. ASSUME NEW q \in 1 .. Len(stream) + 1
      PROVE  Taken'[q] = Append(Taken, e.msg)[q]
  <2>1. CASE q \in 1 .. Len(stream)
    BY <1>1, <1>2, <1>4, <1>6, <2>1
  <2>2. CASE q = Len(stream) + 1
    BY <1>1, <1>2, <1>4, <1>6, <2>2
  <2>3. q \in 1 .. Len(stream) \/ q = Len(stream) + 1
    <3>1. Len(stream) \in Nat /\ q \in 1 .. Len(stream) + 1
      BY <1>1
    <3> QED BY <3>1
  <2> QED BY <2>1, <2>2, <2>3
<1> QED BY <1>1, <1>2, <1>4, <1>6, <1>7, SeqEqual

-------------------------------------------------------------------------------
(* The operators of the server                                             *)

LEMMA EntryType ==
    ASSUME NEW m \in Msgs
    PROVE  Nats!Entry(m) \in Entries /\ Nats!Entry(m).msg = m /\ Nats!Entry(m).st = "ready"
BY BusAssumption DEF Nats!Entry, Entries

LEMMA EntryFields ==
    ASSUME NEW e \in Entries
    PROVE  /\ e = [msg |-> e.msg, st |-> e.st, n |-> e.n] /\ e.msg \in Msgs
           /\ e.st \in {"ready", "pending", "gone"} /\ e.n \in 0 .. MaxDeliver
           /\ e.st = "ready" => e.n < MaxDeliver
BY DEF Entries

LEMMA EntryChange ==
    ASSUME NEW e \in Entries, NEW x \in {"ready", "pending", "gone"},
           NEW n \in 0 .. MaxDeliver, x = "ready" => n < MaxDeliver
    PROVE  LET d == [e EXCEPT !.st = x, !.n = n] IN
           d \in Entries /\ d.msg = e.msg /\ d.st = x
<1> DEFINE d == [[e EXCEPT !.st = x] EXCEPT !.n = n]
<1>1. [e EXCEPT !.st = x, !.n = n] = d
  OBVIOUS
<1>2. d = [msg |-> e.msg, st |-> x, n |-> n]
  <2> DEFINE c == [e EXCEPT !.st = x]
  <2>1. c = [msg |-> e.msg, st |-> x, n |-> e.n]
    BY EntryFields
  <2> HIDE DEF c
  <2>2. [c EXCEPT !.n = n] = [msg |-> e.msg, st |-> x, n |-> n]
    BY <2>1
  <2> QED BY <2>2 DEF c
<1> QED BY <1>1, <1>2, EntryFields DEF Entries

\* An acknowledgement forgets the message it is for, or nothing.
LEMMA AckedStatus ==
    ASSUME stream \in Seq(Entries), NEW s, NEW q \in 1 .. Len(stream),
           NEW t \in Nats!Acked(s, q)
    PROVE  Restatus(t, {q})
<1> DEFINE e == [stream[q] EXCEPT !.st = "gone", !.n = 0]
<1>1. e \in Entries /\ e.msg = stream[q].msg
  <2>1. stream[q] \in Entries /\ 0 \in 0 .. MaxDeliver
    BY StreamType, BusAssumption
  <2> QED BY <2>1, EntryChange
<1>2. t = stream \/ t = [stream EXCEPT ![q].st = "gone", ![q].n = 0]
  BY DEF Nats!Acked
<1>3. [stream EXCEPT ![q].st = "gone", ![q].n = 0] = [stream EXCEPT ![q] = e]
  BY StreamType
<1> HIDE DEF e
<1>4. Restatus([stream EXCEPT ![q] = e], {q})
  BY <1>1, OneRestatus
<1>5. Restatus(stream, {q})
  BY DEF Restatus
<1> QED BY <1>2, <1>3, <1>4, <1>5

\* A consumer that is deleted forgets nothing.
LEMMA ReleasedStatus ==
    ASSUME stream \in Seq(Entries), NEW S
    PROVE  Restatus(Nats!Released(S), {})
<1> DEFINE t == [q \in DOMAIN stream |->
                    IF stream[q].st = "gone" THEN stream[q]
                    ELSE [stream[q] EXCEPT !.st = "ready", !.n = 0]]
<1>1. Nats!Released(S) = t \/ Nats!Released(S) = stream
  BY DEF Nats!Released
<1>2. ASSUME NEW q \in 1 .. Len(stream)
      PROVE  /\ t[q] \in Entries /\ t[q].msg = stream[q].msg
             /\ t[q].st = "gone" => stream[q].st = "gone"
  <2>1. stream[q] \in Entries /\ q \in DOMAIN stream
    BY StreamType
  <2>2. 0 \in 0 .. MaxDeliver /\ 0 < MaxDeliver
    BY BusAssumption
  <2>3. CASE stream[q].st = "gone"
    BY <2>1, <2>3
  <2>4. CASE stream[q].st # "gone"
    <3> DEFINE d == [stream[q] EXCEPT !.st = "ready", !.n = 0]
    <3>1. d \in Entries /\ d.msg = stream[q].msg /\ d.st = "ready"
      BY <2>1, <2>2, EntryChange
    <3>2. t[q] = d
      BY <2>1, <2>4
    <3> HIDE DEF d, t
    <3> QED BY <3>1, <3>2
  <2> QED BY <2>3, <2>4
<1>3. t \in [1 .. Len(stream) -> Entries]
  BY <1>2, StreamType
<1> HIDE DEF t
<1> QED BY <1>1, <1>2, <1>3, AllRestatus, SameStatus

\* A message may become ready again while it has deliveries left.
LEMMA ReadyAgain ==
    ASSUME stream \in Seq(Entries), NEW q \in 1 .. Len(stream),
           stream[q].n < MaxDeliver
    PROVE  Restatus([stream EXCEPT ![q].st = "ready"], {})
<1> DEFINE e == [stream[q] EXCEPT !.st = "ready"]
<1>1. e \in Entries /\ e.msg = stream[q].msg /\ e.st # "gone"
  BY StreamType DEF Entries
<1>2. [stream EXCEPT ![q].st = "ready"] = [stream EXCEPT ![q] = e]
  OBVIOUS
<1> HIDE DEF e
<1> QED BY <1>1, <1>2, OneRestatus

LEMMA SameCardinality ==
    ASSUME NEW S PROVE Nats!Cardinality(S) = Cardinality(S)
BY DEF Nats!Cardinality, Cardinality

Ready == {q \in DOMAIN stream : stream[q].st = "ready"}
Oldest == {q \in Ready : Cardinality({r \in Ready : r < q}) < Batch}

\* A fetch that finds something gets messages of the stream, and counts the
\* delivery.
LEMMA FetchStatus ==
    ASSUME stream \in Seq(Entries), NEW s \in Subs, inbox \in [Subs -> Seq(Nat)],
           Nats!Fetch(s)
    PROVE  /\ Restatus(stream', {})
           /\ inbox' = [inbox EXCEPT ![s] = inbox'[s]]
           /\ inbox'[s] \in Seq(1 .. Len(stream)) /\ inbox'[s] # << >>
<1>1. /\ Len(stream) \in Nat /\ DOMAIN stream = 1 .. Len(stream)
      /\ \A q \in 1 .. Len(stream) : stream[q] \in Entries
  BY StreamType
<1>2. Ready \in SUBSET (1 .. Len(stream)) /\ Oldest \in SUBSET Ready /\ Ready # {}
  BY <1>1 DEF Ready, Oldest, Nats!Fetch
<1>3. IsFiniteSet(1 .. Len(stream))
  BY <1>1, FS_Interval
<1>4. IsFiniteSet(Ready) /\ IsFiniteSet(Oldest)
  BY <1>2, <1>3, FS_Subset
<1>5. Ready \in SUBSET Nat /\ Oldest \in SUBSET Nat
  BY <1>1, <1>2
<1>6. Oldest # {}
  <2>1. PICK q \in Ready : Below(Ready, q) = {}
    BY <1>2, <1>4, <1>5, LeastElement
  <2>2. Batch \in Nat /\ 0 < Batch
    BY BusAssumption
  <2>3. Cardinality(Below(Ready, q)) < Batch
    <3>1. Cardinality(Below(Ready, q)) = 0
      BY <2>1, FS_EmptySet
    <3> QED BY <2>2, <3>1
  <2> QED BY <2>3 DEF Oldest, Below
<1> DEFINE n == Cardinality(Oldest)
           f == CHOOSE g \in [1 .. n -> Oldest] :
                   \A i, j \in DOMAIN g : i < j => g[i] < g[j]
           t == [q \in DOMAIN stream |->
                    IF q \in Oldest
                    THEN [stream[q] EXCEPT !.st = "pending", !.n = @ + 1]
                    ELSE stream[q]]
<1>7. stream' = t /\ inbox' = [inbox EXCEPT ![s] = f]
  <2>1. {q \in Ready : Nats!Cardinality({r \in Ready : r < q}) < Batch} = Oldest
    BY SameCardinality DEF Oldest
  <2>2. Nats!Cardinality(Oldest) = n
    BY SameCardinality
  <2> QED BY <2>1, <2>2, Zenon DEF Nats!Fetch, Ready
<1>8. f \in [1 .. n -> Oldest]
  BY <1>4, <1>5, InOrderExists
<1>9. n \in Nat \ {0}
  BY <1>4, <1>6, FS_CardinalityType, FS_EmptySet
<1>10. t \in [1 .. Len(stream) -> Entries]
  <2>1. MaxDeliver \in Nat
    BY BusAssumption
  <2>2. ASSUME NEW q \in 1 .. Len(stream) PROVE t[q] \in Entries
    <3>1. CASE q \in Oldest
      <4>1. stream[q] \in Entries /\ stream[q].st = "ready"
        BY <1>1, <1>2, <3>1 DEF Ready
      <4>2. stream[q].n + 1 \in 0 .. MaxDeliver
        BY <2>1, <4>1, EntryFields
      <4>3. [stream[q] EXCEPT !.st = "pending", !.n = stream[q].n + 1] \in Entries
        BY <4>1, <4>2, EntryChange
      <4> QED BY <1>1, <3>1, <4>3
    <3>2. CASE q \notin Oldest
      BY <1>1, <3>2
    <3> QED BY <3>1, <3>2
  <2> QED BY <1>1, <2>2
<1>11. \A q \in 1 .. Len(stream) : /\ t[q].msg = stream[q].msg
                                   /\ t[q].st = "gone" => stream[q].st = "gone"
  BY <1>1 DEF Entries
<1> HIDE DEF f, n, t
<1>12. f \in Seq(1 .. Len(stream)) /\ Len(f) = n
  <2>1. f \in [1 .. n -> 1 .. Len(stream)]
    BY <1>2, <1>8
  <2> QED BY <1>9, <2>1
<1>13. f # << >>
  BY <1>9, <1>12, EmptySeq
<1> QED BY <1>7, <1>10, <1>11, <1>12, <1>13, AllRestatus

-------------------------------------------------------------------------------
(* What a step does to the channels.  Every step of every bus is one of:   *)

\* nothing;
Still == UNCHANGED <<kind, js, Taken, loop, inbox, out, got>>

\* the server takes a message, and sends a copy to some subscriptions;
Stored(m) ==
    /\ UNCHANGED <<kind, js, loop, out, got>>
    /\ Taken' = Append(Taken, m)
    /\ \E R \in SUBSET Subs :
          inbox' = [s \in Subs |-> IF s \in R THEN Append(inbox[s], Len(Taken) + 1)
                                   ELSE inbox[s]]

\* or a step about one subscription: it is made,
Alone(s) == /\ UNCHANGED <<kind, js, Taken>>
            /\ loop' = [loop EXCEPT ![s] = loop'[s]]
            /\ inbox' = [inbox EXCEPT ![s] = inbox'[s]]
            /\ out' = [out EXCEPT ![s] = out'[s]]
            /\ got' = [got EXCEPT ![s] = got'[s]]

NothingPut(s) == out'[s] = out[s] /\ got'[s] = got[s]

Begun(s) == /\ Alone(s) /\ NothingPut(s)
            /\ loop[s] = "none" /\ loop'[s] \in {"run", "check"}
            /\ inbox'[s] = inbox[s]

\* it ends,
Ended(s) == /\ Alone(s)
            /\ loop[s] \in Runs /\ loop'[s] = "ended"
            /\ inbox'[s] = << >> /\ out'[s] = 0 /\ got'[s] = {}

Going(s) == /\ Alone(s) /\ loop[s] \in Runs /\ loop'[s] \in Runs
            /\ loop'[s] \in {"batch", "send"} => inbox'[s] # << >>

\* the message at the head is put on the channel,
HandedOn(s) == /\ Going(s)
               /\ inbox[s] # << >> /\ inbox'[s] = Tail(inbox[s])
               /\ out[s] < Cap /\ out'[s] = out[s] + 1
               /\ got'[s] = got[s] \cup {Head(inbox[s])}

\* or not,
Dropped(s) == /\ Going(s) /\ NothingPut(s)
              /\ inbox[s] # << >> /\ inbox'[s] = Tail(inbox[s])

\* the goroutine moves on, with the messages it had or none, or a new batch,
Moved(s) == /\ Going(s) /\ NothingPut(s)
            /\ inbox'[s] \in Seq(1 .. Len(Taken))
            /\ ~js => inbox'[s] \in {inbox[s], << >>}

\* the caller takes a message.
TakenOut(s) == /\ Alone(s) /\ loop'[s] = loop[s] /\ inbox'[s] = inbox[s]
               /\ out[s] > 0 /\ out'[s] = out[s] - 1 /\ got'[s] = got[s]

About(s) == Begun(s) \/ Ended(s) \/ HandedOn(s) \/ Dropped(s) \/ Moved(s) \/ TakenOut(s)

Effect == Still \/ (\E m \in Msgs : Stored(m)) \/ (\E s \in Subs : About(s))

\* Steps about one subscription keep the types, whatever they do.
LEMMA EffectKeepsData ==
    ASSUME Taken \in Seq(Msgs), DataInv, Effect
    PROVE  DataInv'
<1>1. Len(Taken) \in Nat /\ Cap \in Nat
  BY LenProperties, BusAssumption
<1>2. CASE Still
  BY <1>2 DEF Still, DataInv
<1>3. ASSUME NEW m \in Msgs, Stored(m) PROVE DataInv'
  <2>1. Len(Taken') = Len(Taken) + 1
    BY <1>3, LenProperties DEF Stored
  <2>2. 1 .. Len(Taken) \subseteq 1 .. Len(Taken') /\ Len(Taken) + 1 \in 1 .. Len(Taken')
    BY <1>1, <2>1
  <2>3. PICK R \in SUBSET Subs :
           inbox' = [s \in Subs |-> IF s \in R THEN Append(inbox[s], Len(Taken) + 1)
                                    ELSE inbox[s]]
    BY <1>3 DEF Stored
  <2>4. ASSUME NEW s \in Subs
        PROVE  /\ inbox'[s] \in Seq(1 .. Len(Taken'))
               /\ inbox[s] # << >> => inbox'[s] # << >>
    <3>1. inbox[s] \in Seq(1 .. Len(Taken'))
      BY <2>2, SeqMonotonic DEF DataInv
    <3>2. Append(inbox[s], Len(Taken) + 1) \in Seq(1 .. Len(Taken'))
          /\ Append(inbox[s], Len(Taken) + 1) # << >>
      <4> DEFINE S == 1 .. Len(Taken')
                 q == Len(Taken) + 1
      <4>1. inbox[s] \in Seq(S) /\ q \in S
        BY <2>2, <3>1
      <4> HIDE DEF S, q
      <4>2. Append(inbox[s], q) \in Seq(S) /\ Append(inbox[s], q) # << >>
        BY <4>1, AppendProperties
      <4> QED BY <4>2 DEF S, q
    <3>3. inbox'[s] = inbox[s] \/ inbox'[s] = Append(inbox[s], Len(Taken) + 1)
      BY <2>3
    <3> QED BY <3>1, <3>2, <3>3
  <2>5. inbox' \in [Subs -> Seq(1 .. Len(Taken'))]
    BY <2>3, <2>4
  <2>6. UNCHANGED <<loop, out, got>>
    BY <1>3 DEF Stored
  <2>7. got' \in [Subs -> SUBSET (1 .. Len(Taken'))]
    BY <2>2, <2>6 DEF DataInv
  <2> QED BY <2>4, <2>5, <2>6, <2>7 DEF DataInv
<1>4. ASSUME NEW s \in Subs, About(s) PROVE DataInv'
  <2>1. /\ loop \in [Subs -> Labels] /\ inbox \in [Subs -> Seq(1 .. Len(Taken))]
        /\ out \in [Subs -> 0 .. Cap] /\ got \in [Subs -> SUBSET (1 .. Len(Taken))]
    BY DEF DataInv
  <2>2. Alone(s)
    BY <1>4 DEF About, Begun, Ended, Going, HandedOn, Dropped, Moved, TakenOut
  <2>3. inbox[s] # << >> => /\ Tail(inbox[s]) \in Seq(1 .. Len(Taken))
                            /\ Head(inbox[s]) \in 1 .. Len(Taken)
    BY <2>1, HeadTailProperties
  <2>4. /\ loop'[s] \in Labels /\ inbox'[s] \in Seq(1 .. Len(Taken))
        /\ out'[s] \in 0 .. Cap /\ got'[s] \in SUBSET (1 .. Len(Taken))
        /\ loop'[s] \in {"none", "ended"} => got'[s] = {}
        /\ loop'[s] \in {"batch", "send"} => inbox'[s] # << >>
    <3>1. /\ loop[s] \in {"none", "ended"} => got[s] = {}
          /\ inbox[s] \in Seq(1 .. Len(Taken)) /\ << >> \in Seq(1 .. Len(Taken))
          /\ out[s] \in 0 .. Cap /\ got[s] \in SUBSET (1 .. Len(Taken))
      BY <2>1, EmptySeq DEF DataInv
    <3>2. CASE Begun(s)
      BY <3>1, <3>2 DEF Begun, NothingPut, Labels, Runs
    <3>3. CASE Ended(s)
      BY <1>1, <3>1, <3>3 DEF Ended, Labels
    <3>4. CASE Moved(s)
      BY <3>1, <3>4 DEF Moved, Going, NothingPut, Labels, Runs
    <3>5. CASE HandedOn(s)
      <4>1. out'[s] \in 0 .. Cap
        BY <1>1, <3>1, <3>5 DEF HandedOn
      <4>2. got'[s] \in SUBSET (1 .. Len(Taken))
        BY <2>3, <3>1, <3>5 DEF HandedOn
      <4>3. /\ loop'[s] \in Labels /\ inbox'[s] \in Seq(1 .. Len(Taken))
            /\ loop'[s] \notin {"none", "ended"}
            /\ loop'[s] \in {"batch", "send"} => inbox'[s] # << >>
        BY <2>3, <3>5 DEF HandedOn, Going, Labels, Runs
      <4> QED BY <4>1, <4>2, <4>3
    <3>6. CASE Dropped(s)
      BY <2>3, <3>1, <3>6 DEF Dropped, Going, NothingPut, Labels, Runs
    <3>7. CASE TakenOut(s)
      <4>1. loop[s] \in Labels /\ (loop[s] \in {"batch", "send"} => inbox[s] # << >>)
        BY DEF DataInv
      <4> QED BY <1>1, <3>1, <3>7, <4>1 DEF TakenOut
    <3> QED BY <1>4, <3>2, <3>3, <3>4, <3>5, <3>6, <3>7 DEF About
  <2> HIDE DEF Labels
  <2>5. /\ Taken' = Taken /\ loop' \in [Subs -> Labels]
        /\ inbox' \in [Subs -> Seq(1 .. Len(Taken))]
        /\ out' \in [Subs -> 0 .. Cap] /\ got' \in [Subs -> SUBSET (1 .. Len(Taken))]
    BY <2>1, <2>2, <2>4 DEF Alone
  <2>6. \A r \in Subs : r # s => loop'[r] = loop[r] /\ inbox'[r] = inbox[r] /\ got'[r] = got[r]
    BY <2>1, <2>2 DEF Alone
  <2>7. \A r \in Subs : /\ loop'[r] \in {"none", "ended"} => got'[r] = {}
                        /\ loop'[r] \in {"batch", "send"} => inbox'[r] # << >>
    BY <2>4, <2>6 DEF DataInv
  <2> QED BY <2>5, <2>7 DEF DataInv
<1> QED BY <1>2, <1>3, <1>4 DEF Effect

LEMMA AloneTyped ==
    ASSUME DataInv, UNCHANGED <<kind, js>>, Taken' = Taken, NEW s \in Subs,
           NEW l, NEW b, NEW o, NEW g,
           loop' = [loop EXCEPT ![s] = l], inbox' = [inbox EXCEPT ![s] = b],
           out' = [out EXCEPT ![s] = o], got' = [got EXCEPT ![s] = g]
    PROVE  Alone(s) /\ loop'[s] = l /\ inbox'[s] = b /\ out'[s] = o /\ got'[s] = g
BY DEF Alone, DataInv

LEMMA SameAtSub ==
    ASSUME DataInv, NEW s \in Subs
    PROVE  /\ loop = [loop EXCEPT ![s] = loop[s]] /\ inbox = [inbox EXCEPT ![s] = inbox[s]]
           /\ out = [out EXCEPT ![s] = out[s]] /\ got = [got EXCEPT ![s] = got[s]]
BY DEF DataInv

LEMMA Begins ==
    ASSUME DataInv, UNCHANGED <<kind, js, inbox, out, got>>, Taken' = Taken, NEW s \in Subs,
           NEW l \in {"run", "check"}, loop[s] = "none", loop' = [loop EXCEPT ![s] = l]
    PROVE  Begun(s)
<1>1. /\ inbox' = [inbox EXCEPT ![s] = inbox[s]]
      /\ out' = [out EXCEPT ![s] = out[s]] /\ got' = [got EXCEPT ![s] = got[s]]
  BY SameAtSub
<1>2. loop'[s] = l /\ loop' = [loop EXCEPT ![s] = loop'[s]]
  BY DEF DataInv
<1>3. Alone(s)
  BY <1>1, <1>2 DEF Alone
<1> QED BY <1>2, <1>3 DEF Begun, NothingPut

LEMMA Ends ==
    ASSUME DataInv, UNCHANGED <<kind, js>>, Taken' = Taken, NEW s \in Subs, loop[s] \in Runs,
           loop' = [loop EXCEPT ![s] = "ended"], inbox' = [inbox EXCEPT ![s] = << >>],
           out' = [out EXCEPT ![s] = 0], got' = [got EXCEPT ![s] = {}]
    PROVE  Ended(s)
BY AloneTyped DEF Ended

LEMMA Moves ==
    ASSUME DataInv, UNCHANGED <<kind, js, out, got>>, Taken' = Taken, NEW s \in Subs,
           loop[s] \in Runs, NEW l \in Runs, NEW b \in Seq(1 .. Len(Taken)),
           l \in {"batch", "send"} => b # << >>, ~js => b \in {inbox[s], << >>},
           loop' = [loop EXCEPT ![s] = l], inbox' = [inbox EXCEPT ![s] = b]
    PROVE  Moved(s)
<1>1. out' = [out EXCEPT ![s] = out[s]] /\ got' = [got EXCEPT ![s] = got[s]]
  BY SameAtSub
<1>2. Alone(s) /\ loop'[s] = l /\ inbox'[s] = b /\ out'[s] = out[s] /\ got'[s] = got[s]
  BY <1>1, AloneTyped
<1> QED BY <1>2 DEF Moved, Going, NothingPut

LEMMA Drops ==
    ASSUME DataInv, UNCHANGED <<kind, js, out, got>>, Taken' = Taken, NEW s \in Subs,
           loop[s] \in Runs, NEW l \in Runs, inbox[s] # << >>,
           l \in {"batch", "send"} => Tail(inbox[s]) # << >>,
           loop' = [loop EXCEPT ![s] = l], inbox' = [inbox EXCEPT ![s] = Tail(inbox[s])]
    PROVE  Dropped(s)
<1>1. out' = [out EXCEPT ![s] = out[s]] /\ got' = [got EXCEPT ![s] = got[s]]
  BY SameAtSub
<1> DEFINE b == Tail(inbox[s])
<1>2. inbox' = [inbox EXCEPT ![s] = b]
  OBVIOUS
<1> HIDE DEF b
<1>3. Alone(s) /\ loop'[s] = l /\ inbox'[s] = b /\ out'[s] = out[s] /\ got'[s] = got[s]
  BY <1>1, <1>2, AloneTyped
<1> QED BY <1>3 DEF Dropped, Going, NothingPut, b

LEMMA HandsOn ==
    ASSUME DataInv, UNCHANGED <<kind, js>>, Taken' = Taken, NEW s \in Subs,
           loop[s] \in Runs, NEW l \in Runs, inbox[s] # << >>, out[s] < Cap,
           l \in {"batch", "send"} => Tail(inbox[s]) # << >>,
           loop' = [loop EXCEPT ![s] = l], inbox' = [inbox EXCEPT ![s] = Tail(inbox[s])],
           out' = [out EXCEPT ![s] = out[s] + 1],
           got' = [got EXCEPT ![s] = got[s] \cup {Head(inbox[s])}]
    PROVE  HandedOn(s)
<1> DEFINE b == Tail(inbox[s])
           o == out[s] + 1
           g == got[s] \cup {Head(inbox[s])}
<1>1. /\ inbox' = [inbox EXCEPT ![s] = b]
      /\ out' = [out EXCEPT ![s] = o] /\ got' = [got EXCEPT ![s] = g]
  OBVIOUS
<1> HIDE DEF b, o, g
<1>2. Alone(s) /\ loop'[s] = l /\ inbox'[s] = b /\ out'[s] = o /\ got'[s] = g
  BY <1>1 DEF Alone, DataInv
<1> QED BY <1>2 DEF HandedOn, Going, b, o, g

LEMMA TakesOut ==
    ASSUME DataInv, UNCHANGED <<kind, js, loop, inbox, got>>, Taken' = Taken, NEW s \in Subs,
           out[s] > 0, out' = [out EXCEPT ![s] = out[s] - 1]
    PROVE  TakenOut(s)
<1> DEFINE o == out[s] - 1
<1>1. /\ loop' = [loop EXCEPT ![s] = loop[s]] /\ inbox' = [inbox EXCEPT ![s] = inbox[s]]
      /\ got' = [got EXCEPT ![s] = got[s]]
  BY SameAtSub
<1>2. out' = [out EXCEPT ![s] = o]
  OBVIOUS
<1> HIDE DEF o
<1>3. Alone(s) /\ loop'[s] = loop[s] /\ inbox'[s] = inbox[s] /\ out'[s] = o /\ got'[s] = got[s]
  BY <1>1, <1>2 DEF Alone, DataInv
<1> QED BY <1>3 DEF TakenOut, o

\* The message at the head of what was received is in the log.
LEMMA HeadInLog ==
    ASSUME ControlInv, DataInv, NEW s \in Subs, inbox[s] # << >>
    PROVE  /\ Head(inbox[s]) \in 1 .. Len(Taken) /\ Tail(inbox[s]) \in Seq(1 .. Len(Taken))
           /\ kind = "nats" => Head(inbox[s]) \in 1 .. Len(stream)
<1>1. inbox[s] \in Seq(1 .. Len(Taken))
  BY DEF DataInv
<1>2. kind = "nats" => Len(Taken) = Len(stream)
  BY TakenType DEF ControlInv
<1> QED BY <1>1, <1>2, HeadTailProperties

-------------------------------------------------------------------------------
(* NATS                                                                    *)

LEMMA NatsStore ==
    ASSUME ControlInv, DataInv, kind = "nats", UNCHANGED <<kind, js, loop, log>>,
           NEW m \in Msgs, Nats!Store(m)
    PROVE  Stored(m) /\ stream' \in Seq(Entries) /\ stream' = Append(stream, Nats!Entry(m))
<1>1. /\ stream' = Append(stream, Nats!Entry(m)) /\ UNCHANGED <<out, got>>
      /\ \E R \in IF js THEN {{}} ELSE SUBSET live :
            inbox' = [s \in Subs |-> IF s \in R THEN Append(inbox[s], Len(stream) + 1)
                                     ELSE inbox[s]]
  BY DEF Nats!Store
<1>2. stream' \in Seq(Entries) /\ Taken' = Append(Taken, m) /\ Len(Taken) = Len(stream)
  <2>1. /\ Nats!Entry(m) \in Entries /\ Nats!Entry(m).msg = m
    BY EntryType
  <2>2. stream \in Seq(Entries) /\ log \in Seq(Msgs) /\ kind # "redis"
    BY DEF ControlInv
  <2> QED BY <1>1, <2>1, <2>2, TakenStored, TakenType
<1>3. \E R \in SUBSET Subs :
         inbox' = [s \in Subs |-> IF s \in R THEN Append(inbox[s], Len(stream) + 1)
                                  ELSE inbox[s]]
  <2>1. CASE js
    BY <1>1, <2>1
  <2>2. CASE ~js
    <3>1. SUBSET live \subseteq SUBSET Subs
      BY DEF ControlInv
    <3> QED BY <1>1, <2>2, <3>1
  <2> QED BY <2>1, <2>2
<1> QED BY <1>1, <1>2, <1>3 DEF Stored

\* A step at the server or in the maps only.
LEMMA NatsStill ==
    ASSUME ControlInv, UNCHANGED <<kind, js, loop, log, inbox, out, got>>,
           NEW S, Restatus(stream', S)
    PROVE  Still /\ stream' \in Seq(Entries)
<1>1. stream \in Seq(Entries)
  BY DEF ControlInv
<1>2. Taken' = Taken
  BY <1>1, TakenSame
<1> QED BY <1>2 DEF Still, Restatus

LEMMA NatsUnchanged ==
    ASSUME ControlInv, UNCHANGED <<kind, js, loop, log, stream, inbox, out, got>>
    PROVE  Still /\ stream' \in Seq(Entries)
BY DEF Still, Taken, ControlInv

LEMMA NatsPublishing ==
    ASSUME ControlInv, DataInv, kind = "nats", UNCHANGED <<kind, redisVars>>,
           NEW m \in Msgs, Nats!PublishForeign(m) \/ Nats!Publishing(m)
    PROVE  ControlInv' /\ Effect
<1> USE DEF redisVars
<1>1. /\ UNCHANGED <<js, bus, loop, ts, current, stopped, live>>
      /\ \/ Nats!Store(m)
         \/ UNCHANGED <<stream, inbox, out, got>>
  BY DEF Nats!PublishForeign, Nats!Publishing, Nats!Publish, Nats!TryOk, Nats!TryFails,
         Nats!PublishReturns, Nats!loopVars, Nats!dataVars
<1>2. /\ pub' \in [Msgs -> {"idle", "wait", "ok", "failed"}]
      /\ sender' \in [Msgs -> {"none", "trying", "ok", "failed"}]
  <2> USE DEF ControlInv
  <2>1. CASE Nats!PublishForeign(m)
    BY <2>1 DEF Nats!PublishForeign
  <2>2. CASE Nats!Publish(m)
    BY <2>2 DEF Nats!Publish
  <2>3. CASE Nats!TryOk(m)
    BY <2>3 DEF Nats!TryOk, Nats!SenderEnds
  <2>4. CASE Nats!TryFails(m)
    BY <2>4 DEF Nats!TryFails, Nats!SenderEnds
  <2>5. CASE Nats!PublishReturns(m)
    BY <2>5 DEF Nats!PublishReturns
  <2> QED BY <2>1, <2>2, <2>3, <2>4, <2>5 DEF Nats!Publishing
<1>3. stream' \in Seq(Entries) /\ Effect
  BY <1>1, NatsStore, NatsUnchanged DEF Effect
<1> QED BY <1>1, <1>2, <1>3 DEF ControlInv

\* The maps change, the server's consumers with them.
LEMMA NatsManaging ==
    ASSUME ControlInv, DataInv, kind = "nats", UNCHANGED <<kind, redisVars>>,
           \/ \E s \in Subs : Nats!Subscribe(s) \/ Nats!SubscribeWithTimestamp(s)
           \/ \E key \in BOOLEAN : Nats!Unsubscribe(key)
           \/ Nats!BeginClose \/ Nats!EndClose
    PROVE  ControlInv' /\ Effect
<1> USE DEF redisVars
<1>1. ASSUME NEW s \in Subs, Nats!AddSubscription(s) PROVE ControlInv' /\ Effect
  <2>1. /\ UNCHANGED <<js, bus, pub, sender, ts, stopped, stream, inbox, out, got>>
        /\ loop[s] = "none" /\ loop' = [loop EXCEPT ![s] = "run"]
        /\ current' = [current EXCEPT ![ts[s]] = s] /\ live' = live \cup {s}
    BY <1>1 DEF Nats!AddSubscription, Nats!LoopTo, Nats!pubVars, Nats!dataVars
  <2>2. current' \in [BOOLEAN -> Subs \cup {None}]
    BY <2>1 DEF ControlInv
  <2>3. Begun(s)
    <3>1. Taken' = Taken
      BY <2>1 DEF Taken
    <3> QED BY <2>1, <3>1, Begins
  <2>4. Effect
    BY <2>3 DEF Effect, About
  <2>5. ControlInv'
    BY <2>1, <2>2 DEF ControlInv
  <2> QED BY <2>4, <2>5
<1>2. ASSUME NEW key \in BOOLEAN, Nats!Unsubscribe(key) PROVE ControlInv' /\ Effect
  <2> DEFINE S == {current[key]} \ {None}
  <2>1. /\ UNCHANGED <<js, bus, pub, sender, ts, loop, inbox, out, got>>
        /\ stopped' = stopped \cup S /\ live' = live \ S
        /\ current' = [current EXCEPT ![key] = None] /\ stream' = Nats!Released(S)
    BY <1>2 DEF Nats!Unsubscribe, Nats!EndCurrent, Nats!pubVars
  <2>2. S \subseteq Subs
    BY DEF ControlInv
  <2> HIDE DEF S
  <2>3. Still /\ stream' \in Seq(Entries)
    BY <2>1, ReleasedStatus, NatsStill DEF ControlInv
  <2>4. current' \in [BOOLEAN -> Subs \cup {None}]
    BY <2>1 DEF ControlInv
  <2>5. ControlInv'
    BY <2>1, <2>2, <2>3, <2>4 DEF ControlInv
  <2> QED BY <2>3, <2>5 DEF Effect
<1>3. CASE Nats!BeginClose
  <2>1. /\ UNCHANGED <<js, pub, sender, ts, loop, current, live, stream, inbox, out, got>>
        /\ bus' = "closing"
        /\ stopped' = stopped \cup ({current[k] : k \in BOOLEAN} \ {None})
    BY <1>3 DEF Nats!BeginClose, Nats!pubVars, Nats!dataVars
  <2>2. stopped' \subseteq Subs
    BY <2>1 DEF ControlInv
  <2>3. Still /\ stream' \in Seq(Entries)
    BY <2>1, NatsUnchanged
  <2>4. ControlInv'
    BY <2>1, <2>2, <2>3 DEF ControlInv
  <2> QED BY <2>3, <2>4 DEF Effect
<1>4. CASE Nats!EndClose
  <2>1. /\ UNCHANGED <<js, pub, sender, ts, loop, stopped, inbox, out, got>>
        /\ bus' = "closed" /\ live' = {} /\ current' = [k \in BOOLEAN |-> None]
        /\ stream' = Nats!Released(live)
    BY <1>4 DEF Nats!EndClose, Nats!pubVars
  <2>2. Still /\ stream' \in Seq(Entries)
    BY <2>1, ReleasedStatus, NatsStill DEF ControlInv
  <2>3. ControlInv'
    BY <2>1, <2>2 DEF ControlInv
  <2> QED BY <2>2, <2>3 DEF Effect
<1> QED BY <1>1, <1>2, <1>3, <1>4 DEF Nats!Subscribe, Nats!SubscribeWithTimestamp

\* What a goroutine leaves alone.
LEMMA LoopControl ==
    ASSUME ControlInv, stream' \in Seq(Entries),
           UNCHANGED <<kind, js, bus, pub, sender, ts, current, stopped, live,
                       log, cancelled, attached>>
    PROVE  ControlInv'
BY DEF ControlInv

LEMMA CoreLooping ==
    ASSUME ControlInv, DataInv, kind = "nats", UNCHANGED <<kind, redisVars>>,
           NEW s \in Subs, Nats!CoreLoop(s)
    PROVE  ControlInv' /\ ~js /\ About(s)
<1> USE DEF redisVars
<1>1. /\ UNCHANGED <<js, bus, pub, sender, ts, current, stopped, live, stream>>
      /\ ~js /\ loop[s] = "run"
  BY DEF Nats!CoreLoop, Nats!CoreStop, Nats!CoreReceive, Nats!pubVars, Nats!loopVars
<1>2. ControlInv'
  BY <1>1, LoopControl DEF ControlInv
<1>3. Taken' = Taken
  BY <1>1 DEF Taken
<1>4. "run" \in Runs /\ loop[s] \in Runs
  BY <1>1 DEF Runs
<1>5. CASE Nats!CoreStop(s)
  <2>1. /\ loop' = [loop EXCEPT ![s] = "ended"] /\ inbox' = [inbox EXCEPT ![s] = << >>]
        /\ out' = [out EXCEPT ![s] = 0] /\ got' = [got EXCEPT ![s] = {}]
    BY <1>5 DEF Nats!CoreStop, Nats!End, Nats!LoopTo
  <2>2. Ended(s)
    BY <1>1, <1>3, <1>4, <2>1, Ends
  <2> QED BY <1>1, <1>2, <2>2 DEF About
<1>6. CASE Nats!CoreReceive(s)
  <2>1. /\ loop' = [loop EXCEPT ![s] = "run"] /\ inbox[s] # << >>
        /\ inbox' = [inbox EXCEPT ![s] = Tail(inbox[s])]
        /\ \/ /\ out[s] < Cap /\ out' = [out EXCEPT ![s] = out[s] + 1]
              /\ got' = [got EXCEPT ![s] = got[s] \cup {Head(inbox[s])}]
           \/ UNCHANGED <<out, got>>
    BY <1>1, <1>6, SameAtSub DEF Nats!CoreReceive, Nats!Put, Nats!HasRoom
  <2>2. HandedOn(s) \/ Dropped(s)
    BY <1>1, <1>3, <1>4, <2>1, HandsOn, Drops
  <2> QED BY <1>1, <1>2, <2>2 DEF About
<1> QED BY <1>5, <1>6 DEF Nats!CoreLoop

\* What a JetStream subscription's goroutine makes the server forget, and why the
\* goroutine ends.
Reads(s) ==
    /\ \E S : /\ Restatus(stream', S)
              /\ \/ s \in stopped
                 \/ \A q \in S : stream[q].msg \in Foreign \/ q \in got'[s]
    /\ loop'[s] = "ended" => s \in stopped \/ s \notin live

LEMMA NextInBatchLabel ==
    ASSUME DataInv, NEW s \in Subs, loop[s] \in {"batch", "send"}, Nats!NextInBatch(s)
    PROVE  /\ inbox[s] # << >> /\ inbox' = [inbox EXCEPT ![s] = Tail(inbox[s])]
           /\ \E l \in Runs : /\ loop' = [loop EXCEPT ![s] = l]
                              /\ l \in {"batch", "send"} => Tail(inbox[s]) # << >>
<1>1. inbox[s] # << >> /\ inbox[s] \in Seq(1 .. Len(Taken))
  BY DEF DataInv
<1>2. Len(inbox[s]) # 1 => Tail(inbox[s]) # << >>
  <2> DEFINE t == Tail(inbox[s])
             n == Len(inbox[s])
  <2>1. Len(t) = n - 1 /\ n \in Nat
    BY <1>1, HeadTailProperties, LenProperties
  <2>2. Len(<< >>) = 0
    BY EmptySeq
  <2> HIDE DEF t, n
  <2>3. t = << >> => n = 1
    BY <2>1, <2>2
  <2> QED BY <2>3 DEF t, n
<1>3. /\ inbox' = [inbox EXCEPT ![s] = Tail(inbox[s])]
      /\ loop' = [loop EXCEPT ![s] = IF Len(inbox[s]) = 1 THEN "run" ELSE "batch"]
  BY DEF Nats!NextInBatch, Nats!LoopTo
<1>4. CASE Len(inbox[s]) = 1
  <2>1. loop' = [loop EXCEPT ![s] = "run"] /\ "run" \in Runs
    BY <1>3, <1>4 DEF Runs
  <2> QED BY <1>1, <1>3, <2>1
<1>5. CASE Len(inbox[s]) # 1
  <2>1. loop' = [loop EXCEPT ![s] = "batch"] /\ "batch" \in Runs
    BY <1>3, <1>5 DEF Runs
  <2> QED BY <1>1, <1>2, <1>3, <1>5, <2>1
<1> QED BY <1>4, <1>5

LEMMA JsLooping ==
    ASSUME ControlInv, DataInv, kind = "nats", UNCHANGED <<kind, redisVars>>,
           NEW s \in Subs, Nats!JsLoop(s)
    PROVE  ControlInv' /\ About(s) /\ Reads(s)
<1> USE DEF redisVars
<1>1. UNCHANGED <<js, bus, pub, sender, ts, current, stopped, live>>
  BY DEF Nats!JsLoop, Nats!JsCheckStop, Nats!Fetch, Nats!FetchFails, Nats!JsStopInBatch,
         Nats!SkipUnreadable, Nats!Send, Nats!WaitForRoom, Nats!SendTimeout,
         Nats!pubVars, Nats!loopVars
<1>2. stream \in Seq(Entries)
  BY DEF ControlInv
<1>3. ASSUME NEW S, Restatus(stream', S) PROVE ControlInv' /\ Taken' = Taken
  BY <1>1, <1>2, <1>3, LoopControl, TakenSame DEF Restatus
<1>4. stream' = stream => Restatus(stream', {})
  BY <1>2, SameStatus
<1>5. {"run", "fetch", "batch", "send"} \subseteq Runs
  BY DEF Runs
<1>6. inbox[s] \in Seq(1 .. Len(Taken)) /\ (loop[s] \in {"batch", "send"} => inbox[s] # << >>)
  BY DEF DataInv
<1>7. inbox[s] # << >> => Head(inbox[s]) \in 1 .. Len(stream)
  BY HeadInLog
<1>8. ASSUME Nats!End(s), loop[s] \in Runs, Taken' = Taken PROVE Ended(s)
  BY <1>1, <1>8, Ends DEF Nats!End, Nats!LoopTo
<1>9. ASSUME NEW l \in {"run", "fetch", "send"}, loop[s] \in Runs, loop' = [loop EXCEPT ![s] = l],
             l = "send" => inbox[s] # << >>, UNCHANGED <<stream, inbox, out, got>>
      PROVE  Moved(s) /\ loop'[s] # "ended"
  <2>1. Taken' = Taken /\ inbox' = [inbox EXCEPT ![s] = inbox[s]]
    BY <1>3, <1>4, <1>9, SameAtSub
  <2>2. l \in Runs /\ (l \in {"batch", "send"} => inbox[s] # << >>)
    BY <1>5, <1>9
  <2>3. Moved(s)
    BY <1>1, <1>6, <1>9, <2>1, <2>2, Moves
  <2> QED BY <1>9, <2>3 DEF DataInv
<1>10. ASSUME loop[s] \in {"batch", "send"}, UNCHANGED <<out, got>>, Nats!NextInBatch(s),
              Taken' = Taken
       PROVE  Dropped(s)
  BY <1>1, <1>5, <1>10, NextInBatchLabel, Drops
<1>11. ASSUME loop[s] \in {"batch", "send"}, Nats!HasRoom(s), Nats!Put(s, Head(inbox[s])),
              Nats!NextInBatch(s), Taken' = Taken
       PROVE  HandedOn(s)
  BY <1>1, <1>5, <1>11, NextInBatchLabel, HandsOn DEF Nats!Put, Nats!HasRoom
<1>12. \A r : Going(r) => loop'[r] # "ended"
  BY DEF Going, Runs
<1>13. CASE Nats!JsCheckStop(s)
  <2>1. UNCHANGED stream /\ loop[s] = "run"
    BY <1>13 DEF Nats!JsCheckStop
  <2>2. CASE s \in stopped
    <3>1. Ended(s)
      BY <1>3, <1>4, <1>5, <1>8, <1>13, <2>1, <2>2 DEF Nats!JsCheckStop
    <3> QED BY <1>3, <1>4, <2>1, <2>2, <3>1 DEF About, Reads
  <2>3. CASE s \notin stopped
    <3>1. Moved(s) /\ loop'[s] # "ended"
      BY <1>5, <1>9, <1>13, <2>1, <2>3 DEF Nats!JsCheckStop, Nats!LoopTo
    <3> QED BY <1>3, <1>4, <2>1, <3>1 DEF About, Reads
  <2> QED BY <2>2, <2>3
<1>14. CASE Nats!FetchFails(s)
  <2>1. UNCHANGED stream /\ loop[s] = "fetch"
    BY <1>14 DEF Nats!FetchFails
  <2>2. CASE s \notin live
    <3>1. Ended(s)
      BY <1>3, <1>4, <1>5, <1>8, <1>14, <2>1, <2>2 DEF Nats!FetchFails
    <3> QED BY <1>3, <1>4, <2>1, <2>2, <3>1 DEF About, Reads
  <2>3. CASE s \in live
    <3>1. Moved(s) /\ loop'[s] # "ended"
      BY <1>5, <1>9, <1>14, <2>1, <2>3 DEF Nats!FetchFails, Nats!LoopTo
    <3> QED BY <1>3, <1>4, <2>1, <3>1 DEF About, Reads
  <2> QED BY <2>2, <2>3
<1>15. CASE Nats!Fetch(s)
  <2>1. inbox \in [Subs -> Seq(Nat)]
    <3>1. 1 .. Len(Taken) \subseteq Nat
      BY TakenType DEF ControlInv
    <3>2. \A r \in Subs : inbox[r] \in Seq(Nat)
      BY <3>1, SeqMonotonic DEF DataInv
    <3> QED BY <3>2 DEF DataInv
  <2>2. /\ Restatus(stream', {}) /\ inbox' = [inbox EXCEPT ![s] = inbox'[s]]
        /\ inbox'[s] \in Seq(1 .. Len(stream)) /\ inbox'[s] # << >>
    BY <1>2, <1>15, <2>1, FetchStatus
  <2>3. /\ js /\ loop[s] = "fetch" /\ loop' = [loop EXCEPT ![s] = "batch"]
        /\ UNCHANGED <<out, got>>
    BY <1>15 DEF Nats!Fetch, Nats!LoopTo
  <2>4. Len(stream) = Len(Taken)
    BY TakenType DEF ControlInv
  <2>5. Moved(s)
    BY <1>1, <1>3, <1>5, <2>2, <2>3, <2>4, Moves
  <2> QED BY <1>3, <1>12, <2>2, <2>5 DEF About, Reads, Moved
<1>16. CASE Nats!JsStopInBatch(s)
  <2>1. /\ loop[s] \in {"batch", "send"} /\ s \in stopped /\ Nats!End(s)
        /\ stream' \in Nats!Acked(s, Head(inbox[s]))
    BY <1>16 DEF Nats!JsStopInBatch
  <2>2. Restatus(stream', {Head(inbox[s])})
    BY <1>2, <1>6, <1>7, <2>1, AckedStatus
  <2>3. Ended(s)
    BY <1>3, <1>5, <1>8, <2>1, <2>2
  <2> QED BY <1>3, <2>1, <2>2, <2>3 DEF About, Reads
<1>17. CASE Nats!SkipUnreadable(s)
  <2>1. /\ loop[s] = "batch" /\ stream[Head(inbox[s])].msg \in Foreign
        /\ stream' \in Nats!Acked(s, Head(inbox[s])) /\ Nats!NextInBatch(s)
        /\ UNCHANGED <<out, got>>
    BY <1>17 DEF Nats!SkipUnreadable, Nats!Unreadable
  <2>2. Restatus(stream', {Head(inbox[s])})
    BY <1>2, <1>6, <1>7, <2>1, AckedStatus
  <2>3. Dropped(s)
    BY <1>3, <1>10, <2>1, <2>2
  <2> QED BY <1>3, <1>12, <2>1, <2>2, <2>3 DEF About, Reads, Dropped
<1>18. CASE Nats!Send(s)
  <2>1. /\ loop[s] \in {"batch", "send"} /\ Nats!HasRoom(s) /\ Nats!Put(s, Head(inbox[s]))
        /\ stream' \in Nats!Acked(s, Head(inbox[s])) /\ Nats!NextInBatch(s)
    BY <1>18 DEF Nats!Send
  <2>2. Restatus(stream', {Head(inbox[s])})
    BY <1>2, <1>6, <1>7, <2>1, AckedStatus
  <2>3. HandedOn(s)
    BY <1>3, <1>11, <2>1, <2>2
  <2>4. Head(inbox[s]) \in got'[s]
    BY <2>3 DEF HandedOn
  <2> QED BY <1>3, <1>12, <2>2, <2>3, <2>4 DEF About, Reads, HandedOn
<1>19. CASE Nats!WaitForRoom(s)
  <2>1. /\ loop[s] = "batch" /\ loop' = [loop EXCEPT ![s] = "send"]
        /\ UNCHANGED <<stream, inbox, out, got>>
    BY <1>19 DEF Nats!WaitForRoom, Nats!LoopTo, Nats!dataVars
  <2>2. Moved(s) /\ loop'[s] # "ended"
    BY <1>5, <1>6, <1>9, <2>1
  <2> QED BY <1>3, <1>4, <2>1, <2>2 DEF About, Reads
<1>20. CASE Nats!SendTimeout(s)
  <2> DEFINE q == Head(inbox[s])
  <2>1. /\ loop[s] = "send" /\ Nats!NextInBatch(s) /\ UNCHANGED <<out, got>>
        /\ \/ stream[q].n < MaxDeliver /\ stream' = [stream EXCEPT ![q].st = "ready"]
           \/ stream' = stream
    BY <1>20 DEF Nats!SendTimeout
  <2>2. q \in 1 .. Len(stream)
    BY <1>6, <1>7, <2>1
  <2> HIDE DEF q
  <2>3. Restatus(stream', {})
    BY <1>2, <1>4, <2>1, <2>2, ReadyAgain
  <2>4. Dropped(s)
    BY <1>3, <1>10, <2>1, <2>3
  <2> QED BY <1>3, <1>12, <2>3, <2>4 DEF About, Reads, Dropped
<1> QED BY <1>13, <1>14, <1>15, <1>16, <1>17, <1>18, <1>19, <1>20 DEF Nats!JsLoop

LEMMA NatsEffect ==
    ASSUME ControlInv, DataInv, LinkInv, NatsStep(Nats!Next)
    PROVE  ControlInv' /\ Effect
<1>1. kind = "nats" /\ Nats!Next /\ UNCHANGED <<kind, redisVars>>
  BY DEF NatsStep
<1>2. ASSUME NEW m \in Msgs, Nats!PublishForeign(m) \/ Nats!Publishing(m)
      PROVE  ControlInv' /\ Effect
  BY <1>1, <1>2, NatsPublishing
<1>3. CASE \/ \E s \in Subs : Nats!Subscribe(s) \/ Nats!SubscribeWithTimestamp(s)
           \/ \E key \in BOOLEAN : Nats!Unsubscribe(key)
           \/ Nats!BeginClose \/ Nats!EndClose
  BY <1>1, <1>3, NatsManaging
<1>4. ASSUME NEW s \in Subs, Nats!CoreLoop(s) \/ Nats!JsLoop(s) PROVE ControlInv' /\ Effect
  BY <1>1, <1>4, CoreLooping, JsLooping DEF Effect
<1>5. ASSUME NEW s \in Subs, Nats!Take(s) PROVE ControlInv' /\ Effect
  <2>1. /\ UNCHANGED <<js, bus, pub, sender, ts, current, stopped, live, stream, log,
                       cancelled, attached, kind>>
        /\ UNCHANGED <<loop, inbox, got>>
        /\ out[s] > 0 /\ out' = [out EXCEPT ![s] = out[s] - 1]
    BY <1>1, <1>5 DEF Nats!Take, Nats!pubVars, Nats!loopVars, redisVars
  <2>2. Taken' = Taken
    BY <2>1 DEF Taken
  <2>3. TakenOut(s)
    BY <2>1, <2>2, TakesOut
  <2>4. ControlInv'
    BY <2>1, LoopControl DEF ControlInv
  <2> QED BY <2>3, <2>4 DEF Effect, About
<1>6. ASSUME NEW q \in DOMAIN stream, Nats!Redeliver(q) PROVE ControlInv' /\ Effect
  <2>1. /\ UNCHANGED <<js, bus, pub, sender, ts, current, stopped, live, log,
                       cancelled, attached, kind>>
        /\ UNCHANGED <<loop, inbox, out, got>>
        /\ stream[q].n < MaxDeliver /\ stream' = [stream EXCEPT ![q].st = "ready"]
    BY <1>1, <1>6 DEF Nats!Redeliver, Nats!pubVars, Nats!loopVars, redisVars
  <2>2. stream \in Seq(Entries) /\ q \in 1 .. Len(stream)
    BY StreamType DEF ControlInv
  <2>3. Restatus(stream', {})
    BY <2>1, <2>2, ReadyAgain
  <2>4. Still /\ stream' \in Seq(Entries)
    BY <2>1, <2>3, NatsStill
  <2>5. ControlInv'
    BY <2>1, <2>4, LoopControl
  <2> QED BY <2>4, <2>5 DEF Effect
<1>7. CASE Nats!Flush
  <2>1. /\ UNCHANGED <<js, bus, pub, sender, loop, ts, current, stopped, live>>
        /\ Nats!Store(Head(link)) \/ UNCHANGED <<stream, inbox, out, got>>
        /\ link # << >>
    BY <1>7 DEF Nats!Flush, Nats!loopVars, Nats!dataVars
  <2>2. Head(link) \in Msgs
    BY <2>1, HeadTailProperties DEF LinkInv
  <2>3. stream' \in Seq(Entries) /\ Effect
    BY <1>1, <2>1, <2>2, NatsStore, NatsUnchanged DEF Effect, redisVars
  <2> QED BY <1>1, <2>1, <2>3 DEF ControlInv, redisVars
<1> QED BY <1>1, <1>2, <1>3, <1>4, <1>5, <1>6, <1>7 DEF Nats!Next

-------------------------------------------------------------------------------
(* Redis                                                                   *)

\* What the server takes is the log.
LEMMA RedisTaken ==
    ASSUME kind = "redis", kind' = kind
    PROVE  Taken = log /\ Taken' = log'
BY DEF Taken

LEMMA RedisStore ==
    ASSUME ControlInv, DataInv, kind = "redis", UNCHANGED <<kind, js, loop, out, got>>,
           NEW m \in Msgs, Redis!Store(m)
    PROVE  Stored(m) /\ log' \in Seq(Msgs)
<1>1. /\ log' = Append(log, m)
      /\ \E R \in SUBSET attached :
            inbox' = [s \in Subs |-> IF s \in R THEN Append(inbox[s], Len(log) + 1)
                                     ELSE inbox[s]]
  BY DEF Redis!Store
<1>2. SUBSET attached \subseteq SUBSET Subs /\ log \in Seq(Msgs)
  BY DEF ControlInv
<1>3. log' \in Seq(Msgs)
  BY <1>1, <1>2, AppendProperties
<1> QED BY <1>1, <1>2, <1>3, RedisTaken DEF Stored

LEMMA RedisEffect ==
    ASSUME ControlInv, DataInv, RedisStep(Redis!Next)
    PROVE  ControlInv' /\ Effect
<1>1. /\ kind = "redis" /\ Redis!Next /\ UNCHANGED <<kind, js, sender, stopped, live, stream>>
      /\ js = FALSE
  BY DEF RedisStep, natsVars, ControlInv
<1>2. ASSUME UNCHANGED <<bus, pub, ts, current, cancelled, log>>,
             attached' \subseteq Subs
      PROVE  ControlInv' /\ Taken' = Taken
  BY <1>1, <1>2, RedisTaken DEF ControlInv
<1>3. ASSUME NEW m \in Msgs, Redis!Publish(m) \/ Redis!PublishForeign(m)
      PROVE  ControlInv' /\ Effect
  <2>1. /\ UNCHANGED <<bus, ts, loop, current, cancelled, attached, out, got>>
        /\ Redis!Store(m) \/ UNCHANGED <<log, inbox>>
        /\ \E x \in {"ok", "failed"} : pub' = [pub EXCEPT ![m] = x]
    BY <1>3 DEF Redis!Publish, Redis!PublishForeign
  <2>2. pub' \in [Msgs -> {"idle", "wait", "ok", "failed"}]
    BY <2>1 DEF ControlInv
  <2>3. CASE Redis!Store(m)
    <3>1. Stored(m) /\ log' \in Seq(Msgs)
      BY <1>1, <2>1, <2>3, RedisStore
    <3>2. ControlInv'
      BY <1>1, <2>1, <2>2, <3>1 DEF ControlInv
    <3> QED BY <3>1, <3>2 DEF Effect
  <2>4. CASE UNCHANGED <<log, inbox>>
    <3>1. Still
      BY <1>1, <2>1, <2>4, RedisTaken DEF Still
    <3>2. ControlInv'
      BY <1>1, <2>1, <2>2, <2>4 DEF ControlInv
    <3> QED BY <3>1, <3>2 DEF Effect
  <2> QED BY <2>1, <2>3, <2>4
<1>4. ASSUME NEW s \in Subs, Redis!AddSubscription(s) PROVE ControlInv' /\ Effect
  <2>1. /\ UNCHANGED <<bus, pub, log, ts, cancelled, attached, inbox, out, got>>
        /\ loop[s] = "none" /\ loop' = [loop EXCEPT ![s] = "check"]
        /\ current' = [current EXCEPT ![ts[s]] = s]
    BY <1>4 DEF Redis!AddSubscription, Redis!LoopTo
  <2>2. current' \in [BOOLEAN -> Subs \cup {None}]
    BY <2>1 DEF ControlInv
  <2>3. Begun(s)
    BY <1>1, <2>1, RedisTaken, Begins
  <2>4. ControlInv'
    BY <1>1, <2>1, <2>2 DEF ControlInv
  <2> QED BY <2>3, <2>4 DEF Effect, About
<1>5. CASE \/ \E key \in BOOLEAN : Redis!Unsubscribe(key)
           \/ \E s \in Subs : Redis!CancelContext(s) \/ Redis!Attach(s) \/ Redis!Detach(s)
           \/ Redis!Close
  <2>1. /\ UNCHANGED <<pub, log, ts, loop, inbox, out, got>>
        /\ current' \in [BOOLEAN -> Subs \cup {None}]
        /\ cancelled' \subseteq Subs /\ attached' \subseteq Subs
        /\ bus' \in {"up", "closing", "closed"}
    <3> USE DEF ControlInv
    <3>1. ASSUME NEW key \in BOOLEAN, Redis!Unsubscribe(key)
          PROVE  /\ UNCHANGED <<pub, log, ts, loop, inbox, out, got, bus, attached>>
                 /\ current' \in [BOOLEAN -> Subs \cup {None}]
                 /\ cancelled' \subseteq Subs
      BY <3>1 DEF Redis!Unsubscribe
    <3>2. ASSUME NEW s \in Subs, Redis!CancelContext(s) \/ Redis!Attach(s) \/ Redis!Detach(s)
          PROVE  /\ UNCHANGED <<pub, log, ts, loop, inbox, out, got, bus, current>>
                 /\ cancelled' \subseteq Subs /\ attached' \subseteq Subs
      BY <3>2 DEF Redis!CancelContext, Redis!Attach, Redis!Detach
    <3>3. CASE Redis!Close
      BY <3>3 DEF Redis!Close
    <3> QED BY <1>5, <3>1, <3>2, <3>3
  <2>2. Still
    BY <1>1, <2>1, RedisTaken DEF Still
  <2>3. ControlInv'
    BY <1>1, <2>1 DEF ControlInv
  <2> QED BY <2>2, <2>3 DEF Effect
<1>6. ASSUME NEW s \in Subs, Redis!Routine(s) \/ Redis!Take(s) PROVE ControlInv' /\ About(s)
  <2>1. UNCHANGED <<bus, pub, log, ts, current, cancelled>> /\ attached' \subseteq Subs
    BY <1>6 DEF Redis!Routine, Redis!Enter, Redis!Receive, Redis!ReceiveCancelled,
                Redis!RangeOver, Redis!Take, Redis!End, ControlInv
  <2>2. ControlInv' /\ Taken' = Taken
    BY <1>2, <2>1
  <2>3. {"check", "range"} \subseteq Runs /\ "check" \notin {"batch", "send"}
        /\ "range" \notin {"batch", "send"}
    BY DEF Runs
  <2>4. inbox[s] \in Seq(1 .. Len(Taken)) /\ << >> \in Seq(1 .. Len(Taken))
    BY EmptySeq DEF DataInv
  <2>5. ASSUME NEW l \in {"check", "range"}, loop[s] \in Runs, UNCHANGED <<out, got>>,
               NEW b \in {inbox[s], << >>}, loop' = [loop EXCEPT ![s] = l],
               inbox' = [inbox EXCEPT ![s] = b]
        PROVE  Moved(s)
    <3>1. l \in Runs /\ b \in Seq(1 .. Len(Taken)) /\ l \notin {"batch", "send"}
      BY <2>3, <2>4
    <3> QED BY <1>1, <2>2, <2>5, <3>1, Moves
  <2>6. CASE Redis!Enter(s)
    <3>1. CASE s \in cancelled /\ Redis!End(s)
      BY <1>1, <2>2, <2>3, <2>6, <3>1, Ends DEF Redis!Enter, Redis!End, Redis!LoopTo, About
    <3>2. CASE loop' = [loop EXCEPT ![s] = "range"] /\ UNCHANGED <<inbox, out, got>>
      <4>1. inbox' = [inbox EXCEPT ![s] = inbox[s]]
        BY <3>2, SameAtSub
      <4>2. Moved(s)
        BY <2>3, <2>5, <2>6, <3>2, <4>1 DEF Redis!Enter
      <4> QED BY <2>2, <4>2 DEF About
    <3> QED BY <2>6, <3>1, <3>2 DEF Redis!Enter, Redis!LoopTo
  <2>7. CASE Redis!Receive(s)
    <3>1. /\ loop' = [loop EXCEPT ![s] = "range"] /\ inbox[s] # << >> /\ loop[s] = "range"
          /\ inbox' = [inbox EXCEPT ![s] = Tail(inbox[s])]
          /\ \/ /\ out[s] < Cap /\ out' = [out EXCEPT ![s] = out[s] + 1]
                /\ got' = [got EXCEPT ![s] = got[s] \cup {Head(inbox[s])}]
             \/ UNCHANGED <<out, got>>
      BY <2>7, SameAtSub DEF Redis!Receive, Redis!Put, Redis!HasRoom
    <3>2. HandedOn(s) \/ Dropped(s)
      BY <1>1, <2>2, <2>3, <3>1, HandsOn, Drops
    <3> QED BY <2>2, <3>2 DEF About
  <2>8. CASE Redis!ReceiveCancelled(s)
    BY <2>2, <2>3, <2>5, <2>8 DEF Redis!ReceiveCancelled, Redis!LoopTo, About
  <2>9. CASE Redis!RangeOver(s)
    <3>1. inbox' = [inbox EXCEPT ![s] = inbox[s]]
      BY <2>9, SameAtSub DEF Redis!RangeOver
    <3>2. Moved(s)
      BY <2>3, <2>5, <2>9, <3>1 DEF Redis!RangeOver, Redis!LoopTo
    <3> QED BY <2>2, <3>2 DEF About
  <2>10. CASE Redis!Take(s)
    BY <1>1, <2>2, <2>10, TakesOut DEF Redis!Take, About
  <2> QED BY <1>6, <2>6, <2>7, <2>8, <2>9, <2>10 DEF Redis!Routine
<1>7. ASSUME NEW s \in Subs, Redis!Routine(s) \/ Redis!Take(s) PROVE ControlInv' /\ Effect
  BY <1>6, <1>7 DEF Effect
<1> QED BY <1>1, <1>3, <1>4, <1>5, <1>7
        DEF Redis!Next, Redis!Subscribe, Redis!SubscribeWithTimestamp

-------------------------------------------------------------------------------
(* The no-op bus, and the nodes that start                                 *)

LEMMA NoopEffect ==
    ASSUME ControlInv, DataInv, NoopNext
    PROVE  ControlInv' /\ Effect
<1>1. /\ kind = "noop" /\ Noop!Next
      /\ UNCHANGED <<kind, ts, current, inbox, out, got, js, sender, stopped, live, stream,
                     log, cancelled, attached>>
  BY DEF NoopNext, natsVars, redisVars
<1>2. Taken' = Taken
  BY <1>1 DEF Taken
<1>3. ASSUME NEW m \in Msgs, Noop!Publish(m) PROVE ControlInv' /\ Effect
  <2>1. /\ UNCHANGED <<bus, loop>>
        /\ pub' = [pub EXCEPT ![m] = "failed"] \/ pub' = [pub EXCEPT ![m] = "ok"]
    BY <1>3 DEF Noop!Publish
  <2>2. pub' \in [Msgs -> {"idle", "wait", "ok", "failed"}]
    BY <2>1 DEF ControlInv
  <2>3. ControlInv'
    BY <1>1, <2>1, <2>2 DEF ControlInv
  <2> QED BY <1>1, <1>2, <2>1, <2>3 DEF Effect, Still
<1>4. ASSUME NEW s \in Subs, Noop!Subscribe(s) PROVE ControlInv' /\ Effect
  <2>1. loop[s] = "none" /\ loop' = [loop EXCEPT ![s] = "run"] /\ UNCHANGED <<bus, pub>>
    BY <1>4 DEF Noop!Subscribe
  <2>2. Begun(s)
    BY <1>1, <1>2, <2>1, Begins
  <2>3. ControlInv'
    BY <1>1, <2>1 DEF ControlInv
  <2> QED BY <2>2, <2>3 DEF Effect, About
<1>5. CASE Noop!Close
  <2>1. bus' = "closed" /\ UNCHANGED <<pub, loop>>
    BY <1>5 DEF Noop!Close
  <2>2. ControlInv'
    BY <1>1, <2>1 DEF ControlInv
  <2> QED BY <1>1, <1>2, <2>1, <2>2 DEF Effect, Still
<1> QED BY <1>1, <1>3, <1>4, <1>5 DEF Noop!Next

LEMMA SetupEffect ==
    ASSUME ControlInv, DataInv, UNCHANGED <<kind, busVars, natsVars, redisVars>>
    PROVE  ControlInv' /\ Still
BY DEF busVars, natsVars, redisVars, ControlInv, Still, Taken

-------------------------------------------------------------------------------
(* Every step of every bus                                                 *)

\* A publisher appends to the buffer, and it goes out from its head.
LEMMA LinkStep == ASSUME LinkInv, [Next]_vars PROVE LinkInv'
<1>1. CASE UNCHANGED link
  BY <1>1 DEF LinkInv
<1>2. ASSUME NEW m \in Msgs, Nats!TryOk(m) PROVE LinkInv'
  <2>1. link' = link \/ link' = Append(link, m)
    BY <1>2 DEF Nats!TryOk
  <2> QED BY <2>1, AppendProperties DEF LinkInv
<1>3. CASE Nats!Flush
  <2>1. link # << >> /\ link' = Tail(link)
    BY <1>3 DEF Nats!Flush
  <2> QED BY <2>1, HeadTailProperties DEF LinkInv
<1>4. CASE Nats!Next
  <2>1. ASSUME NEW m \in Msgs, Nats!PublishForeign(m) \/ Nats!Publishing(m)
        PROVE  LinkInv'
    BY <1>1, <1>2, <2>1 DEF Nats!PublishForeign, Nats!Publishing, Nats!Publish,
       Nats!TryFails, Nats!PublishReturns
  <2>2. ASSUME NEW s \in Subs, \/ Nats!Subscribe(s) \/ Nats!SubscribeWithTimestamp(s)
                               \/ Nats!CoreLoop(s) \/ Nats!JsLoop(s) \/ Nats!Take(s)
        PROVE  UNCHANGED link
    BY <2>2 DEF Nats!Subscribe, Nats!SubscribeWithTimestamp, Nats!AddSubscription,
       Nats!CoreLoop, Nats!CoreStop, Nats!CoreReceive, Nats!JsLoop, Nats!JsCheckStop,
       Nats!Fetch, Nats!FetchFails, Nats!JsStopInBatch, Nats!SkipUnreadable, Nats!Send,
       Nats!WaitForRoom, Nats!SendTimeout, Nats!Take, Nats!pubVars
  <2>3. ASSUME \/ \E key \in BOOLEAN : Nats!Unsubscribe(key)
               \/ \E q \in DOMAIN stream : Nats!Redeliver(q)
               \/ Nats!BeginClose \/ Nats!EndClose
        PROVE  UNCHANGED link
    BY <2>3 DEF Nats!Unsubscribe, Nats!Redeliver, Nats!BeginClose, Nats!EndClose,
       Nats!pubVars
  <2> QED BY <1>1, <1>3, <1>4, <2>1, <2>2, <2>3 DEF Nats!Next
<1> QED BY <1>1, <1>4
        DEF Next, NatsStep, RedisStep, NoopNext, SetupNext, vars, natsVars

Core == ControlInv /\ DataInv /\ LinkInv

LEMMA CoreInit == Init => Core
<1> SUFFICES ASSUME Init PROVE Core
  OBVIOUS
<1>1. Nats!Init /\ log = << >> /\ cancelled = {} /\ attached = {}
  BY DEF Init, NatsIdle
<1>2. kind \in {"nats", "redis", "noop", "starting"}
      /\ (kind \in {"redis", "noop"} => ~js)
  BY DEF Init
<1>3. << >> \in Seq(Entries) /\ << >> \in Seq(Msgs) /\ << >> \in Seq(1 .. Len(Taken))
  BY EmptySeq
<1>4. ControlInv
  BY <1>1, <1>2, <1>3 DEF Nats!Init, ControlInv
<1>5. Cap \in Nat
  BY BusAssumption
<1>6. DataInv
  BY <1>1, <1>3, <1>5 DEF Nats!Init, DataInv, Labels
<1>7. LinkInv
  BY <1>1, <1>3 DEF Nats!Init, LinkInv
<1> QED BY <1>4, <1>6, <1>7 DEF Core

LEMMA CoreStep ==
    ASSUME Core, [Next]_vars
    PROVE  Core' /\ Effect
<1>1. ControlInv /\ DataInv /\ LinkInv
  BY DEF Core
<1>2. ControlInv' /\ Effect
  <2>1. CASE NatsStep(Nats!Next)
    BY <1>1, <2>1, NatsEffect
  <2>2. CASE RedisStep(Redis!Next)
    BY <1>1, <2>2, RedisEffect
  <2>3. CASE NoopNext
    BY <1>1, <2>3, NoopEffect
  <2>4. CASE SetupNext
    BY <1>1, <2>4, SetupEffect DEF SetupNext, Effect
  <2>5. CASE UNCHANGED vars
    BY <1>1, <2>5, SetupEffect DEF vars, Effect
  <2> QED BY <2>1, <2>2, <2>3, <2>4, <2>5 DEF Next
<1>3. Taken \in Seq(Msgs)
  BY <1>1, TakenType DEF ControlInv
<1>4. DataInv'
  BY <1>1, <1>2, <1>3, EffectKeepsData
<1>5. LinkInv'
  BY <1>1, LinkStep
<1> QED BY <1>2, <1>4, <1>5 DEF Core

\* The bus that was made keeps the types of its state, and what is on its way to a
\* subscriber, or was put on its channel, is a position of the log.
THEOREM BusCore == Safety => []Core
<1>1. Core /\ [Next]_vars => Core'
  BY CoreStep
<1> QED BY CoreInit, <1>1, PTL DEF Safety

\* Type correctness of every bus (pkg/bus/nats, pkg/bus/redis).
THEOREM BusTypeCorrect == Safety => []TypeOK
<1>1. Core => TypeOK
  <2> SUFFICES ASSUME Core PROVE TypeOK
    OBVIOUS
  <2>1. ControlInv /\ DataInv
    BY DEF Core
  <2>2. \A q \in DOMAIN stream : /\ stream[q].st \in {"ready", "pending", "gone"}
                                 /\ stream[q].n \in 0 .. MaxDeliver
    BY <2>1, StreamType, EntryFields DEF ControlInv
  <2>3. DOMAIN Taken = 1 .. Len(Taken)
    BY <2>1, TakenType DEF ControlInv
  <2>4. \A s \in Subs : out[s] \in 0 .. Cap /\ got[s] \subseteq DOMAIN Taken
    BY <2>1, <2>3 DEF DataInv
  <2>5. loop \in [Subs -> {"none", "run", "fetch", "batch", "send", "check",
                           "range", "ended"}]
    <3>1. Labels = {"none", "run", "fetch", "batch", "send", "check", "range", "ended"}
      BY DEF Labels, Runs
    <3> QED BY <2>1, <3>1 DEF DataInv
  <2> QED BY <2>1, <2>2, <2>4, <2>5 DEF TypeOK, ControlInv
<1> QED BY BusCore, <1>1, PTL

-------------------------------------------------------------------------------
(* Order on core NATS and Redis                                            *)

\* A sequence of positions grows, and starts after those in G.
Ascends(f, G) == /\ \A i, j \in 1 .. Len(f) : i < j => f[i] < f[j]
                 /\ \A i \in 1 .. Len(f) : \A q \in G : q < f[i]

\* What is on its way to a subscriber is in the order of the log, and comes after
\* all it got.
OrderInv == ~js => \A s \in Subs : Ascends(inbox[s], got[s])

LEMMA AscendsAppend ==
    ASSUME NEW n \in Nat, NEW f \in Seq(1 .. n), NEW G \in SUBSET (1 .. n), Ascends(f, G)
    PROVE  Ascends(Append(f, n + 1), G)
<1> DEFINE g == Append(f, n + 1)
<1>1. /\ Len(f) \in Nat /\ Len(g) = Len(f) + 1 /\ g[Len(f) + 1] = n + 1
      /\ \A i \in 1 .. Len(f) : g[i] = f[i] /\ f[i] \in 1 .. n
  <2>1. f \in Seq(Nat) /\ n + 1 \in Nat
    <3>1. 1 .. n \subseteq Nat
      OBVIOUS
    <3> QED BY <3>1, SeqMonotonic
  <2> QED BY <2>1, AppendProperties, LenProperties, ElementOfSeq
<1> HIDE DEF g
<1>2. \A i \in 1 .. Len(g) : i \in 1 .. Len(f) \/ i = Len(f) + 1
  BY <1>1
<1>3. \A i \in 1 .. Len(g) : \A q \in G : q < g[i]
  <2> SUFFICES ASSUME NEW i \in 1 .. Len(g), NEW q \in G PROVE q < g[i]
    OBVIOUS
  <2>1. q \in 1 .. n
    OBVIOUS
  <2>2. CASE i \in 1 .. Len(f)
    BY <1>1, <2>2 DEF Ascends
  <2>3. CASE i = Len(f) + 1
    BY <1>1, <2>1, <2>3
  <2> QED BY <1>2, <2>2, <2>3
<1>4. \A i, j \in 1 .. Len(g) : i < j => g[i] < g[j]
  <2> SUFFICES ASSUME NEW i \in 1 .. Len(g), NEW j \in 1 .. Len(g), i < j PROVE g[i] < g[j]
    OBVIOUS
  <2>1. i \in 1 .. Len(f)
    BY <1>1, <1>2
  <2>2. CASE j \in 1 .. Len(f)
    BY <1>1, <2>1, <2>2 DEF Ascends
  <2>3. CASE j = Len(f) + 1
    BY <1>1, <2>1, <2>3
  <2> QED BY <1>2, <2>2, <2>3
<1>5. Ascends(g, G)
  BY <1>3, <1>4 DEF Ascends
<1> QED BY <1>5 DEF g

LEMMA AscendsTail ==
    ASSUME NEW f \in Seq(Nat), f # << >>, NEW G \in SUBSET Nat, Ascends(f, G)
    PROVE  /\ Ascends(Tail(f), G) /\ Ascends(Tail(f), G \cup {Head(f)})
           /\ \A q \in G : q < Head(f)
<1> DEFINE t == Tail(f)
           h == Head(f)
<1>1. /\ Len(f) \in Nat \ {0} /\ h = f[1] /\ Len(t) = Len(f) - 1
      /\ \A i \in 1 .. Len(t) : t[i] = f[i + 1]
  BY HeadTailProperties, LenProperties, EmptySeq
<1> HIDE DEF t, h
<1>2. \A q \in G : q < h
  <2>1. 1 \in 1 .. Len(f)
    BY <1>1
  <2> QED BY <1>1, <2>1 DEF Ascends
<1>3. \A i \in 1 .. Len(t) : h < t[i] /\ (\A q \in G : q < t[i])
  <2> SUFFICES ASSUME NEW i \in 1 .. Len(t) PROVE h < t[i] /\ (\A q \in G : q < t[i])
    OBVIOUS
  <2>1. 1 \in 1 .. Len(f) /\ i + 1 \in 1 .. Len(f) /\ 1 < i + 1 /\ t[i] = f[i + 1]
    BY <1>1
  <2> QED BY <1>1, <2>1 DEF Ascends
<1>4. \A i, j \in 1 .. Len(t) : i < j => t[i] < t[j]
  <2> SUFFICES ASSUME NEW i \in 1 .. Len(t), NEW j \in 1 .. Len(t), i < j PROVE t[i] < t[j]
    OBVIOUS
  <2>1. /\ i + 1 \in 1 .. Len(f) /\ j + 1 \in 1 .. Len(f) /\ i + 1 < j + 1
        /\ t[i] = f[i + 1] /\ t[j] = f[j + 1]
    BY <1>1
  <2> QED BY <2>1 DEF Ascends
<1>5. Ascends(t, G) /\ Ascends(t, G \cup {h})
  BY <1>3, <1>4 DEF Ascends
<1> QED BY <1>2, <1>5 DEF t, h

LEMMA AscendsEmpty ==
    ASSUME NEW G PROVE Ascends(<< >>, G)
<1>1. Len(<< >>) = 0
  BY EmptySeq
<1> QED BY <1>1 DEF Ascends

LEMMA PositionsAreNumbers ==
    ASSUME Core, NEW s \in Subs
    PROVE  /\ Len(Taken) \in Nat /\ inbox[s] \in Seq(1 .. Len(Taken)) /\ inbox[s] \in Seq(Nat)
           /\ got[s] \in SUBSET (1 .. Len(Taken)) /\ got[s] \in SUBSET Nat
           /\ out[s] \in Nat
<1>1. Len(Taken) \in Nat /\ Cap \in Nat
  BY TakenType, BusAssumption DEF Core, ControlInv
<1>2. 1 .. Len(Taken) \subseteq Nat
  BY <1>1
<1>3. inbox[s] \in Seq(1 .. Len(Taken)) /\ got[s] \in SUBSET (1 .. Len(Taken))
      /\ out[s] \in 0 .. Cap
  BY DEF Core, DataInv
<1> QED BY <1>1, <1>2, <1>3, SeqMonotonic

LEMMA OrderStep ==
    ASSUME Core, OrderInv, Effect
    PROVE  /\ OrderInv'
           /\ ~js => \A s \in Subs : out'[s] > out[s] =>
                        \E new \in got'[s] : \A q \in got[s] : q < new
<1> SUFFICES ASSUME ~js' \/ ~js
             PROVE  \A s \in Subs : /\ Ascends(inbox'[s], got'[s])
                                    /\ out'[s] > out[s] => \E new \in got'[s] :
                                                 \A q \in got[s] : q < new
  BY DEF OrderInv
<1>1. js' = js
  BY DEF Effect, Still, Stored, About, Begun, Ended, HandedOn, Dropped, Moved, TakenOut,
         Going, Alone
<1>2. \A s \in Subs : Ascends(inbox[s], got[s])
  BY <1>1 DEF OrderInv
<1>3. \A s \in Subs : ~(out[s] > out[s])
  BY PositionsAreNumbers
<1>4. CASE Still
  BY <1>2, <1>3, <1>4 DEF Still
<1>5. ASSUME NEW m \in Msgs, Stored(m), NEW s \in Subs PROVE Ascends(inbox'[s], got'[s])
  <2>1. inbox'[s] = inbox[s] \/ inbox'[s] = Append(inbox[s], Len(Taken) + 1)
    BY <1>5 DEF Stored
  <2>2. got' = got
    BY <1>5 DEF Stored
  <2>3. Ascends(Append(inbox[s], Len(Taken) + 1), got[s])
    BY <1>2, PositionsAreNumbers, AscendsAppend
  <2> QED BY <1>2, <2>1, <2>2, <2>3
<1>6. ASSUME NEW m \in Msgs, Stored(m) PROVE out' = out
  BY <1>6 DEF Stored
<1>7. ASSUME NEW r \in Subs, About(r), NEW s \in Subs
      PROVE  /\ Ascends(inbox'[s], got'[s])
             /\ out'[s] > out[s] => \E new \in got'[s] : \A q \in got[s] : q < new
  <2>1. Alone(r)
    BY <1>7 DEF About, Begun, Ended, HandedOn, Dropped, Moved, TakenOut, Going
  <2>2. CASE s # r
    <3>1. inbox'[s] = inbox[s] /\ got'[s] = got[s] /\ out'[s] = out[s]
      BY <2>1, <2>2 DEF Alone, Core, DataInv
    <3> QED BY <1>2, <1>3, <3>1
  <2>3. CASE s = r
    <3>1. CASE Begun(s) \/ Moved(s)
      <4>1. /\ inbox'[s] \in {inbox[s], << >>} /\ got'[s] = got[s] /\ out'[s] = out[s]
        BY <1>1, <3>1 DEF Begun, Moved, NothingPut
      <4> QED BY <1>2, <1>3, <4>1, AscendsEmpty
    <3>2. CASE Ended(s)
      <4>1. ~(0 > out[s])
        BY PositionsAreNumbers
      <4> QED BY <3>2, <4>1, AscendsEmpty DEF Ended
    <3>3. CASE HandedOn(s)
      <4>1. /\ Ascends(Tail(inbox[s]), got[s] \cup {Head(inbox[s])})
            /\ \A q \in got[s] : q < Head(inbox[s])
        BY <1>2, <3>3, PositionsAreNumbers, AscendsTail DEF HandedOn
      <4>2. Head(inbox[s]) \in got'[s]
        BY <3>3 DEF HandedOn
      <4> QED BY <3>3, <4>1, <4>2 DEF HandedOn
    <3>4. CASE Dropped(s)
      <4>1. Ascends(Tail(inbox[s]), got[s])
        BY <1>2, <3>4, PositionsAreNumbers, AscendsTail DEF Dropped
      <4> QED BY <1>3, <3>4, <4>1 DEF Dropped, NothingPut
    <3>5. CASE TakenOut(s)
      <4>1. ~(out[s] - 1 > out[s])
        BY PositionsAreNumbers
      <4> QED BY <1>2, <3>5, <4>1 DEF TakenOut
    <3> QED BY <1>7, <2>3, <3>1, <3>2, <3>3, <3>4, <3>5 DEF About
  <2> QED BY <2>2, <2>3
<1> QED BY <1>3, <1>4, <1>5, <1>6, <1>7 DEF Effect

\* On core NATS and Redis what is put on a channel is later in the log than all
\* that was put on it before (nats/core_pubsub.go:232-257,
\* redis/subscribe.go:13-67).
THEOREM BusInOrderOnce == Safety => InOrderOnce
<1>1. Init => OrderInv
  BY AscendsEmpty DEF Init, NatsIdle, Nats!Init, OrderInv
<1>2. Core /\ OrderInv /\ [Next]_vars => OrderInv'
  BY CoreStep, OrderStep
<1>3. Core /\ OrderInv /\ [Next]_vars =>
         [~js => \A s \in Subs : out'[s] > out[s] =>
                    \E new \in got'[s] : \A q \in got[s] : q < new]_vars
  BY CoreStep, OrderStep
<1> QED BY BusCore, <1>1, <1>2, <1>3, PTL DEF Safety, InOrderOnce

-------------------------------------------------------------------------------
(* What the server has taken                                               *)

LEMMA StoredIsSent ==
    ASSUME Core, NEW m \in Msgs, Stored(m)
    PROVE  /\ Sent' = Sent \cup {m} /\ DOMAIN Taken \subseteq DOMAIN Taken'
           /\ \A q \in DOMAIN Taken : Taken'[q] = Taken[q]
<1>1. /\ Taken \in Seq(Msgs) /\ DOMAIN Taken = 1 .. Len(Taken) /\ Len(Taken) \in Nat
      /\ Taken' = Append(Taken, m)
  BY TakenType DEF Core, ControlInv, Stored
<1> DEFINE t == Taken
           u == Taken'
<1>2. /\ Len(u) = Len(t) + 1 /\ u[Len(t) + 1] = m /\ DOMAIN u = 1 .. Len(t) + 1
      /\ \A q \in 1 .. Len(t) : u[q] = t[q]
  BY <1>1, AppendProperties, LenProperties
<1>3. DOMAIN t = 1 .. Len(t) /\ Len(t) \in Nat
  BY <1>1
<1>4. Sent = {t[q] : q \in DOMAIN t} /\ Sent' = {u[q] : q \in DOMAIN u}
  BY DEF Sent
<1> HIDE DEF t, u
<1>5. \A q \in DOMAIN u : q \in DOMAIN t \/ q = Len(t) + 1
  BY <1>2, <1>3
<1>6. DOMAIN t \subseteq DOMAIN u /\ Len(t) + 1 \in DOMAIN u
  BY <1>2, <1>3
<1>7. \A x : x \in Sent' <=> x \in Sent \cup {m}
  BY <1>2, <1>3, <1>4, <1>5, <1>6
<1> QED BY <1>2, <1>3, <1>6, <1>7 DEF t, u

LEMMA SentGrows ==
    ASSUME Core, Effect
    PROVE  Sent \subseteq Sent'
<1>1. CASE \E m \in Msgs : Stored(m)
  BY <1>1, StoredIsSent
<1>2. CASE Taken' = Taken
  BY <1>2 DEF Sent
<1> QED BY <1>1, <1>2 DEF Effect, Still, About, Begun, Ended, HandedOn, Dropped, Moved,
                         TakenOut, Going, Alone

LEMMA SentInStream ==
    ASSUME Core, kind = "nats", NEW m
    PROVE  m \in Sent <=> \E q \in DOMAIN stream : stream[q].msg = m
<1>1. /\ DOMAIN Taken = DOMAIN stream
      /\ \A q \in DOMAIN stream : Taken[q] = stream[q].msg
  BY TakenType, StreamType DEF Core, ControlInv
<1> QED BY <1>1 DEF Sent

\* The goroutine of a Publish on a stream finds "ok" only for a message that was
\* taken.
OkInv == kind = "nats" /\ js =>
            \A m \in Msgs : pub[m] = "ok" \/ sender[m] = "ok" => m \in Sent

LEMMA OkStep ==
    ASSUME Core, Core', Effect, OkInv, NatsStep(Nats!Next)
    PROVE  OkInv'
<1>0. js' = js
  BY DEF Effect, Still, Stored, About, Begun, Ended, HandedOn, Dropped, Moved, TakenOut,
         Going, Alone
<1>1. kind = "nats" /\ kind' = kind /\ Nats!Next /\ UNCHANGED redisVars
  BY DEF NatsStep
<1>2. Sent \subseteq Sent'
  BY SentGrows
<1>3. ControlInv /\ DataInv
  BY DEF Core
<1>4. pub \in [Msgs -> {"idle", "wait", "ok", "failed"}]
      /\ sender \in [Msgs -> {"none", "trying", "ok", "failed"}]
  BY <1>3 DEF ControlInv
<1>5. ASSUME NEW m \in Msgs, Nats!PublishForeign(m) \/ Nats!Publishing(m),
             js, NEW n \in Msgs, pub'[n] = "ok" \/ sender'[n] = "ok"
      PROVE  n \in Sent'
  <2>1. ASSUME Nats!Store(m), UNCHANGED <<js, loop>> PROVE m \in Sent'
    <3>1. Stored(m)
      BY <1>1, <1>3, <2>1, NatsStore DEF redisVars
    <3> QED BY <3>1, StoredIsSent
  <2>2. CASE Nats!PublishForeign(m)
    <3>1. m \in Sent' /\ (n # m => pub'[n] = pub[n]) /\ sender'[n] = sender[n]
      BY <1>4, <2>1, <2>2 DEF Nats!PublishForeign
    <3> QED BY <1>1, <1>2, <1>5, <3>1 DEF OkInv
  <2>3. CASE Nats!Publish(m)
    <3>1. /\ pub'[n] = "ok" => pub[n] = "ok"
          /\ sender'[n] = "ok" => sender[n] = "ok"
      BY <1>4, <2>3 DEF Nats!Publish
    <3> QED BY <1>1, <1>2, <1>5, <3>1 DEF OkInv
  <2>4. CASE Nats!TryOk(m)
    <3>0. Nats!Store(m) /\ UNCHANGED <<js, loop>>
      BY <1>5, <2>4 DEF Nats!TryOk
    <3>1. m \in Sent' /\ (n # m => sender'[n] = sender[n]) /\ pub'[n] = pub[n]
      BY <1>4, <2>1, <2>4, <3>0 DEF Nats!TryOk, Nats!SenderEnds
    <3> QED BY <1>1, <1>2, <1>5, <3>1 DEF OkInv
  <2>5. CASE Nats!TryFails(m)
    <3>1. /\ pub'[n] = pub[n]
          /\ sender'[n] = "ok" => sender[n] = "ok"
      BY <1>4, <2>5 DEF Nats!TryFails, Nats!SenderEnds
    <3> QED BY <1>1, <1>2, <1>5, <3>1 DEF OkInv
  <2>6. CASE Nats!PublishReturns(m)
    <3>1. /\ pub'[n] = "ok" => pub[n] = "ok" \/ sender[n] = "ok"
          /\ sender'[n] = "ok" => sender[n] = "ok"
      BY <1>4, <2>6 DEF Nats!PublishReturns
    <3> QED BY <1>1, <1>2, <1>5, <3>1 DEF OkInv
  <2> QED BY <1>5, <2>2, <2>3, <2>4, <2>5, <2>6 DEF Nats!Publishing
<1>6. CASE UNCHANGED <<pub, sender>>
  BY <1>0, <1>1, <1>2, <1>6 DEF OkInv
<1>7. \/ \E m \in Msgs : Nats!PublishForeign(m) \/ Nats!Publishing(m)
      \/ UNCHANGED <<pub, sender>>
  <2>1. ASSUME NEW s \in Subs, \/ Nats!Subscribe(s) \/ Nats!SubscribeWithTimestamp(s)
                               \/ Nats!CoreLoop(s) \/ Nats!JsLoop(s) \/ Nats!Take(s)
        PROVE  UNCHANGED <<pub, sender>>
    BY <2>1 DEF Nats!Subscribe, Nats!SubscribeWithTimestamp, Nats!AddSubscription,
       Nats!CoreLoop, Nats!CoreStop, Nats!CoreReceive, Nats!JsLoop, Nats!JsCheckStop,
       Nats!Fetch, Nats!FetchFails, Nats!JsStopInBatch, Nats!SkipUnreadable, Nats!Send,
       Nats!WaitForRoom, Nats!SendTimeout, Nats!Take, Nats!pubVars
  <2>2. ASSUME \/ \E key \in BOOLEAN : Nats!Unsubscribe(key)
               \/ \E q \in DOMAIN stream : Nats!Redeliver(q)
               \/ Nats!BeginClose \/ Nats!EndClose \/ Nats!Flush
        PROVE  UNCHANGED <<pub, sender>>
    BY <2>2 DEF Nats!Flush, Nats!Unsubscribe, Nats!Redeliver, Nats!BeginClose, Nats!EndClose,
       Nats!pubVars
  <2> QED BY <1>1, <2>1, <2>2 DEF Nats!Next
<1> QED BY <1>0, <1>1, <1>5, <1>6, <1>7 DEF OkInv

\* On JetStream Publish of the NATS bus returns nil only when the stream has the
\* message, whatever acknowledgements are lost (nats/core_pubsub.go:21-130).
THEOREM BusOkMeansTaken == Safety => []OkMeansTaken
<1>1. Init => OkInv
  BY DEF Init, NatsIdle, Nats!Init, OkInv
<1>2. Core /\ OkInv /\ [Next]_vars => OkInv'
  <2> SUFFICES ASSUME Core, OkInv, [Next]_vars PROVE OkInv'
    OBVIOUS
  <2>1. Core' /\ Effect
    BY CoreStep
  <2>2. CASE NatsStep(Nats!Next)
    BY <2>1, <2>2, OkStep
  <2>3. CASE RedisStep(Redis!Next) \/ NoopNext
    BY <2>3 DEF OkInv, RedisStep, NoopNext
  <2>4. CASE SetupNext
    BY <2>4 DEF OkInv, SetupNext
  <2>5. CASE UNCHANGED vars
    BY <2>5 DEF OkInv, vars, busVars, natsVars, redisVars, Sent, Taken
  <2> QED BY <2>2, <2>3, <2>4, <2>5 DEF Next
<1>3. Core /\ OkInv => OkMeansTaken
  BY SentInStream DEF OkInv, OkMeansTaken
<1> QED BY BusCore, <1>1, <1>2, <1>3, PTL DEF Safety

-------------------------------------------------------------------------------
(* What JetStream forgets                                                  *)

Read(q) == stream[q].msg \in Foreign \/ \E s \in Subs : q \in got[s]

\* The consumers of the server are the subscriptions of the map, until Close has
\* stopped them; a goroutine without a consumer means that one was stopped.
ReadInv ==
    kind = "nats" /\ js =>
        /\ bus = "up" => live \subseteq {current[k] : k \in BOOLEAN}
        /\ bus = "closing" => live \subseteq stopped
        /\ \A s \in Subs : loop[s] \in Runs /\ s \notin live => stopped # {}
        /\ stopped = {} => \A q \in 1 .. Len(stream) : stream[q].st = "gone" => Read(q)

\* The map, the consumers and the goroutines stay; nothing is forgotten.
LEMMA ReadKept ==
    ASSUME Core, ReadInv, kind = "nats", UNCHANGED <<kind, js, bus, current, live, stopped>>,
           \A s \in Subs : loop'[s] \in Runs => loop[s] \in Runs,
           \A s \in Subs : stopped = {} => got[s] \subseteq got'[s],
           NEW S, Restatus(stream', S),
           \A q \in S : stopped = {} => Read(q)'
    PROVE  ReadInv'
<1>1. \A q \in 1 .. Len(stream) : stopped = {} /\ Read(q) => Read(q)'
  BY DEF Read, Restatus
<1>2. js => \A q \in 1 .. Len(stream') : stopped = {} /\ stream'[q].st = "gone" => Read(q)'
  BY <1>1 DEF ReadInv, Restatus
<1> QED BY <1>2 DEF ReadInv

LEMMA ReadStored ==
    ASSUME Core, ReadInv, kind = "nats", NEW m \in Msgs,
           UNCHANGED <<kind, js, bus, current, live, stopped, loop, got>>,
           stream' = Append(stream, Nats!Entry(m))
    PROVE  ReadInv'
<1>1. stream \in Seq(Entries) /\ Nats!Entry(m) \in Entries /\ Nats!Entry(m).st = "ready"
  BY EntryType DEF Core, ControlInv
<1>2. /\ Len(stream') = Len(stream) + 1 /\ Len(stream) \in Nat
      /\ \A q \in 1 .. Len(stream) : stream'[q] = stream[q]
      /\ stream'[Len(stream) + 1].st = "ready"
  BY <1>1, AppendProperties, LenProperties
<1>3. ASSUME NEW q \in 1 .. Len(stream'), stopped = {}, stream'[q].st = "gone", kind = "nats", js
      PROVE  Read(q)'
  <2>1. q \in 1 .. Len(stream) /\ stream'[q] = stream[q]
    BY <1>2, <1>3
  <2>2. Read(q)
    BY <1>3, <2>1 DEF ReadInv
  <2> QED BY <2>1, <2>2 DEF Read
<1> QED BY <1>3 DEF ReadInv

LEMMA ReadStep ==
    ASSUME Core, ReadInv, NatsStep(Nats!Next), js
    PROVE  ReadInv'
<1>1. kind = "nats" /\ kind' = kind /\ Nats!Next /\ UNCHANGED <<kind, redisVars>>
  BY DEF NatsStep
<1>2. ControlInv /\ DataInv /\ stream \in Seq(Entries)
  BY DEF Core, ControlInv
<1>3. Restatus(stream, {})
  BY <1>2, SameStatus
<1>4. ASSUME NEW m \in Msgs, Nats!PublishForeign(m) \/ Nats!Publishing(m) PROVE ReadInv'
  <2>1. /\ UNCHANGED <<js, bus, loop, ts, current, stopped, live>>
        /\ \/ Nats!Store(m)
           \/ UNCHANGED <<stream, inbox, out, got>>
    BY <1>4 DEF Nats!PublishForeign, Nats!Publishing, Nats!Publish, Nats!TryOk, Nats!TryFails,
           Nats!PublishReturns, Nats!loopVars, Nats!dataVars
  <2>2. CASE Nats!Store(m)
    <3>1. UNCHANGED got /\ stream' = Append(stream, Nats!Entry(m))
      BY <2>2 DEF Nats!Store
    <3> QED BY <1>1, <2>1, <3>1, ReadStored
  <2>3. CASE UNCHANGED <<stream, got>>
    BY <1>1, <1>3, <2>1, <2>3, ReadKept
  <2> QED BY <2>1, <2>2, <2>3
<1>5. ASSUME NEW s \in Subs, Nats!AddSubscription(s) PROVE ReadInv'
  <2>1. /\ UNCHANGED <<js, bus, stopped, stream, got>> /\ bus = "up" /\ live = {}
        /\ loop' = [loop EXCEPT ![s] = "run"]
        /\ current' = [current EXCEPT ![ts[s]] = s] /\ live' = live \cup {s}
    BY <1>5 DEF Nats!AddSubscription, Nats!LoopTo, Nats!dataVars, Nats!Accepted
  <2>2. ts[s] \in BOOLEAN /\ current'[ts[s]] = s
    BY <1>2, <2>1 DEF ControlInv
  <2>3. \A r \in Subs : loop'[r] \in Runs /\ r \notin live' =>
                           loop[r] \in Runs /\ r \notin live
    BY <1>2, <2>1 DEF DataInv
  <2>4. \A q : Read(q)' <=> Read(q)
    BY <2>1 DEF Read
  <2>5. live' \subseteq {current'[k] : k \in BOOLEAN}
    BY <2>1, <2>2
  <2> QED BY <1>1, <2>1, <2>3, <2>4, <2>5 DEF ReadInv
<1>6. ASSUME NEW key \in BOOLEAN, Nats!Unsubscribe(key) PROVE ReadInv'
  <2> DEFINE S == {current[key]} \ {None}
  <2>1. /\ UNCHANGED <<js, bus, loop, got>> /\ bus = "up" /\ current[key] # None
        /\ stopped' = stopped \cup S /\ live' = live \ S
        /\ current' = [current EXCEPT ![key] = None] /\ stream' = Nats!Released(S)
    BY <1>6 DEF Nats!Unsubscribe, Nats!EndCurrent
  <2>2. current[key] \in stopped' /\ stopped' # {}
    BY <2>1
  <2>3. live' \subseteq {current'[k] : k \in BOOLEAN}
    <3>1. ASSUME NEW x \in live' PROVE x \in {current'[k] : k \in BOOLEAN}
      <4>1. x \in live /\ x # current[key]
        BY <2>1, <3>1
      <4>2. PICK k \in BOOLEAN : x = current[k]
        BY <1>1, <2>1, <4>1 DEF ReadInv
      <4>3. k # key /\ current'[k] = x
        BY <1>2, <2>1, <4>1, <4>2 DEF ControlInv
      <4> QED BY <4>3
    <3> QED BY <3>1
  <2> QED BY <2>1, <2>2, <2>3 DEF ReadInv
<1>7. CASE Nats!BeginClose
  <2>1. /\ UNCHANGED <<js, loop, current, live, stream, got>>
        /\ bus = "up" /\ bus' = "closing"
        /\ stopped' = stopped \cup ({current[k] : k \in BOOLEAN} \ {None})
    BY <1>7 DEF Nats!BeginClose, Nats!dataVars
  <2>2. live' \subseteq stopped'
    <3>1. None \notin live
      BY <1>2, BusAssumption DEF ControlInv
    <3>2. live \subseteq {current[k] : k \in BOOLEAN}
      BY <1>1, <2>1 DEF ReadInv
    <3> QED BY <2>1, <3>1, <3>2
  <2>3. \A r \in Subs : loop'[r] \in Runs /\ r \notin live' => stopped' # {}
    BY <1>1, <2>1 DEF ReadInv
  <2>4. stopped' = {} => stopped = {} /\ \A q : Read(q)' <=> Read(q)
    BY <2>1 DEF Read
  <2> QED BY <1>1, <2>1, <2>2, <2>3, <2>4 DEF ReadInv
<1>8. CASE Nats!EndClose
  <2>1. /\ UNCHANGED <<js, loop, stopped, got>>
        /\ bus = "closing" /\ bus' = "closed" /\ live' = {}
        /\ stream' = Nats!Released(live)
    BY <1>8 DEF Nats!EndClose
  <2>2. Restatus(stream', {})
    BY <1>2, <2>1, ReleasedStatus
  <2>3. \A r \in Subs : loop'[r] \in Runs => stopped' # {}
    BY <1>1, <2>1 DEF ReadInv
  <2>4. \A q \in 1 .. Len(stream) : Read(q) => Read(q)'
    BY <2>1, <2>2 DEF Read, Restatus
  <2>5. stopped' = {} => \A q \in 1 .. Len(stream') : stream'[q].st = "gone" => Read(q)'
    BY <1>1, <2>1, <2>2, <2>4 DEF ReadInv, Restatus
  <2> QED BY <2>1, <2>3, <2>5 DEF ReadInv
<1>9. ASSUME NEW s \in Subs, Nats!JsLoop(s) PROVE ReadInv'
  <2>1. UNCHANGED <<js, bus, current, stopped, live>>
    BY <1>9 DEF Nats!JsLoop, Nats!JsCheckStop, Nats!Fetch, Nats!FetchFails,
           Nats!JsStopInBatch, Nats!SkipUnreadable, Nats!Send, Nats!WaitForRoom,
           Nats!SendTimeout, Nats!loopVars
  <2>2. About(s) /\ Reads(s)
    BY <1>1, <1>2, <1>9, JsLooping
  <2>3. PICK S : /\ Restatus(stream', S)
                 /\ \/ s \in stopped
                    \/ \A q \in S : stream[q].msg \in Foreign \/ q \in got'[s]
    BY <2>2 DEF Reads
  <2>4. loop[s] \in Runs
    BY <1>9 DEF Nats!JsLoop, Nats!JsCheckStop, Nats!Fetch, Nats!FetchFails,
           Nats!JsStopInBatch, Nats!SkipUnreadable, Nats!Send, Nats!WaitForRoom,
           Nats!SendTimeout, Runs
  <2>5. Alone(s)
    BY <2>2 DEF About, Begun, Ended, HandedOn, Dropped, Moved, TakenOut, Going
  <2>6. \A r \in Subs : r # s => loop'[r] = loop[r] /\ got'[r] = got[r]
    BY <1>2, <2>5 DEF Alone, DataInv
  <2>7. Ended(s) => stopped # {}
    BY <1>1, <2>2, <2>4 DEF Ended, Reads, ReadInv
  <2>8. ~Ended(s) => got[s] \subseteq got'[s]
    BY <2>2 DEF About, Begun, HandedOn, Dropped, Moved, TakenOut, NothingPut
  <2>9. \A r \in Subs : stopped = {} => got[r] \subseteq got'[r]
    BY <2>6, <2>7, <2>8
  <2>10. \A r \in Subs : loop'[r] \in Runs => loop[r] \in Runs
    BY <2>4, <2>6
  <2>11. CASE s \in stopped
    BY <1>1, <2>1, <2>3, <2>9, <2>10, <2>11, ReadKept
  <2>12. CASE \A q \in S : stream[q].msg \in Foreign \/ q \in got'[s]
    <3>1. S \cap (1 .. Len(stream)) \subseteq S /\ Restatus(stream', S \cap (1 .. Len(stream)))
      BY <2>3 DEF Restatus
    <3>2. \A q \in S \cap (1 .. Len(stream)) : Read(q)'
      BY <2>3, <2>12 DEF Read, Restatus
    <3> QED BY <1>1, <2>1, <2>9, <2>10, <3>1, <3>2, ReadKept
  <2> QED BY <2>3, <2>11, <2>12
<1>10. ASSUME NEW s \in Subs, Nats!Take(s) PROVE ReadInv'
  <2>1. UNCHANGED <<js, bus, current, live, stopped, loop, stream, got>>
    BY <1>10 DEF Nats!Take, Nats!loopVars
  <2> QED BY <1>1, <1>3, <2>1, ReadKept
<1>11. ASSUME NEW q \in DOMAIN stream, Nats!Redeliver(q) PROVE ReadInv'
  <2>1. /\ UNCHANGED <<js, bus, current, live, stopped, loop, got>>
        /\ stream[q].n < MaxDeliver /\ stream' = [stream EXCEPT ![q].st = "ready"]
    BY <1>11 DEF Nats!Redeliver, Nats!loopVars
  <2>2. Restatus(stream', {})
    BY <1>2, <2>1, StreamType, ReadyAgain
  <2> QED BY <1>1, <2>1, <2>2, ReadKept
<1>12. ASSUME NEW s \in Subs PROVE ~Nats!CoreLoop(s)
  BY DEF Nats!CoreLoop, Nats!CoreStop, Nats!CoreReceive
<1>13. ~Nats!Flush
  BY DEF Nats!Flush
<1> QED BY <1>1, <1>4, <1>5, <1>6, <1>7, <1>8, <1>9, <1>10, <1>11, <1>12, <1>13
        DEF Nats!Next, Nats!Subscribe, Nats!SubscribeWithTimestamp

\* Until some subscription is stopped, JetStream forgets only what a subscriber got
\* or cannot be decoded (nats/core_pubsub.go:375-430).
THEOREM BusForgetsNothingUnread == Safety => []NothingForgottenUnread
<1>1. Init => ReadInv
  <2>1. Len(<< >>) = 0
    BY EmptySeq
  <2> QED BY <2>1 DEF Init, NatsIdle, Nats!Init, ReadInv, Runs
<1>2. Core /\ ReadInv /\ [Next]_vars => ReadInv'
  <2> SUFFICES ASSUME Core, ReadInv, [Next]_vars PROVE ReadInv'
    OBVIOUS
  <2>1. js' = js
    BY CoreStep DEF Effect, Still, Stored, About, Begun, Ended, HandedOn, Dropped, Moved,
                    TakenOut, Going, Alone
  <2>2. CASE NatsStep(Nats!Next)
    BY <2>1, <2>2, ReadStep DEF ReadInv
  <2>3. CASE RedisStep(Redis!Next) \/ NoopNext
    BY <2>3 DEF ReadInv, RedisStep, NoopNext
  <2>4. CASE SetupNext
    BY <2>4 DEF ReadInv, SetupNext
  <2>5. CASE UNCHANGED vars
    BY <2>5 DEF ReadInv, Read, vars, busVars, natsVars
  <2> QED BY <2>2, <2>3, <2>4, <2>5 DEF Next
<1>3. Core /\ ReadInv => NothingForgottenUnread
  BY StreamType DEF Core, ControlInv, ReadInv, Read, NothingForgottenUnread
<1> QED BY BusCore, <1>1, <1>2, <1>3, PTL DEF Safety

-------------------------------------------------------------------------------
(* Nodes that start together                                               *)

\* Who wrote since a ready node's subject was read is still in the stream.
SetupInv ==
    /\ step \in [Nodes -> {"info", "add", "update", "ready", "failed"}]
    /\ name \in [Nodes -> Names] /\ seen \in [Nodes -> SUBSET Names]
    /\ subjects \subseteq Names
    /\ \A n \in Nodes : step[n] = "update" => seen[n] # {}
    /\ LostOnlyToStaleWrite

\* For any nodes and names, a node that came up loses its subject only to one that
\* had read the stream before the subject was in it and wrote it back afterwards
\* (nats.go:141-259).
THEOREM BusLosesToStaleWrites == Safety => []LostOnlyToStaleWrite
<1>1. ASSUME Init, kind = "starting" PROVE SetupInv
  BY <1>1 DEF Init, Setup!Init, SetupInv, LostOnlyToStaleWrite
<1>2. ASSUME kind = "starting", SetupInv, [Next]_vars
      PROVE  kind' = "starting" /\ SetupInv'
  <2>1. CASE UNCHANGED <<kind, setupVars>>
    BY <1>2, <2>1 DEF setupVars, SetupInv, LostOnlyToStaleWrite
  <2>2. ASSUME NEW n \in Nodes, kind' = kind,
               Setup!StreamInfo(n) \/ Setup!AddStream(n) \/ Setup!UpdateStream(n)
        PROVE  SetupInv'
    <3> USE <1>2 DEF SetupInv, LostOnlyToStaleWrite
    <3>1. CASE Setup!StreamInfo(n)
      <4>1. /\ UNCHANGED <<name, subjects>>
            /\ \/ /\ subjects # {} /\ seen' = [seen EXCEPT ![n] = subjects]
                  /\ \/ step' = [step EXCEPT ![n] = "ready"] /\ name[n] \in subjects
                     \/ step' = [step EXCEPT ![n] = "update"]
               \/ /\ seen' = seen
                  /\ \/ step' = [step EXCEPT ![n] = "add"]
                     \/ step' = [step EXCEPT ![n] = "info"]
                     \/ step' = [step EXCEPT ![n] = "failed"]
            /\ step[n] = "info"
        BY <3>1 DEF Setup!StreamInfo, Setup!StepTo, Setup!TryAgain
      <4> QED BY <2>2, <4>1
    <3>2. CASE Setup!AddStream(n)
      <4>1. /\ UNCHANGED <<name, seen>> /\ step[n] = "add"
            /\ \/ /\ subjects \in {{}, {name[n]}} /\ subjects' = {name[n]}
                  /\ step' = [step EXCEPT ![n] = "ready"]
               \/ /\ \/ subjects \in {{}, {name[n]}} /\ subjects' = {name[n]}
                     \/ subjects' = subjects
                  /\ \/ step' = [step EXCEPT ![n] = "info"]
                     \/ step' = [step EXCEPT ![n] = "failed"]
        BY <3>2 DEF Setup!AddStream, Setup!StepTo, Setup!TryAgain
      <4>2. \A m \in Nodes : step[m] = "ready" => subjects # {}
        OBVIOUS
      <4>3. CASE subjects' = subjects
        BY <2>2, <4>1, <4>3
      <4>4. CASE subjects = {} /\ subjects' = {name[n]}
        <5>1. \A m \in Nodes : step'[m] = "ready" => m = n
          BY <4>1, <4>2, <4>4
        <5> QED BY <2>2, <4>1, <4>4, <5>1
      <4> QED BY <4>1, <4>3, <4>4
    <3>3. CASE Setup!UpdateStream(n)
      <4>1. /\ UNCHANGED <<name, seen>> /\ step[n] = "update"
            /\ \/ /\ subjects' = seen[n] \cup {name[n]}
                  /\ \/ step' = [step EXCEPT ![n] = "ready"]
                     \/ step' = [step EXCEPT ![n] = "failed"]
               \/ subjects' = subjects /\ step' = [step EXCEPT ![n] = "failed"]
        BY <3>3 DEF Setup!UpdateStream, Setup!StepTo
      <4>2. CASE subjects' = subjects /\ step' = [step EXCEPT ![n] = "failed"]
        BY <2>2, <4>1, <4>2
      <4>3. CASE subjects' = seen[n] \cup {name[n]}
        <5>1. step'[n] \in {"ready", "failed"} /\ seen'[n] # {} /\ name'[n] \in subjects'
          BY <4>1, <4>3
        <5>2. \A m \in Nodes : name'[m] \notin subjects' => name'[m] \notin seen'[n]
          BY <4>1, <4>3
        <5>3. \A m \in Nodes : name'[m] \notin subjects' =>
                 \E k \in Nodes : /\ step'[k] \in {"ready", "failed"}
                                 /\ name'[k] \in subjects'
                                 /\ seen'[k] # {} /\ name'[m] \notin seen'[k]
          BY <5>1, <5>2
        <5>4. subjects' \subseteq Names /\ seen' \in [Nodes -> SUBSET Names]
          BY <4>1, <4>3
        <5>5. /\ step' \in [Nodes -> {"info", "add", "update", "ready", "failed"}]
              /\ \A m \in Nodes : step'[m] = "update" => seen'[m] # {}
          BY <4>1
        <5> QED BY <4>1, <5>3, <5>4, <5>5
      <4> QED BY <4>1, <4>2, <4>3
    <3> QED BY <2>2, <3>1, <3>2, <3>3
  <2>3. SetupNext => kind' = kind /\ Setup!Next
    BY DEF SetupNext
  <2> QED BY <1>2, <2>1, <2>2, <2>3
          DEF Next, NatsStep, RedisStep, NoopNext, Setup!Next, vars
<1> DEFINE Inv == kind = "starting" => SetupInv
<1>3. Init => Inv
  BY <1>1
<1>4. Inv /\ [Next]_vars => Inv'
  <2>1. [Next]_vars => kind' = kind
    BY DEF Next, NatsStep, RedisStep, NoopNext, SetupNext, vars
  <2> QED BY <1>2, <2>1
<1>5. Inv => LostOnlyToStaleWrite
  BY DEF SetupInv, LostOnlyToStaleWrite
<1> HIDE DEF Inv
<1> QED BY <1>3, <1>4, <1>5, PTL DEF Safety

-------------------------------------------------------------------------------
(* Each bus implements MessageBus                                          *)

LEMMA ChannelIs ==
    ASSUME NEW s \in Subs
    PROVE  /\ loop[s] = "none" => Channel[s] = "none"
           /\ loop[s] = "ended" => Channel[s] = "closed"
           /\ loop[s] \notin {"none", "ended"} => Channel[s] = "open"
BY Zenon DEF Channel

LEMMA PutOnIs ==
    ASSUME NEW s \in Subs
    PROVE  PutOn[s] = {Taken[q] : q \in got[s]}
BY DEF PutOn

LEMMA OneChanges ==
    ASSUME NEW s \in Subs, NEW f, NEW g, DOMAIN f = Subs, DOMAIN g = Subs,
           f = [r \in Subs |-> f[r]], g = [r \in Subs |-> g[r]],
           \A r \in Subs : r # s => g[r] = f[r]
    PROVE  g = [f EXCEPT ![s] = g[s]] /\ (g[s] = f[s] => g = f)
OBVIOUS

LEMMA EffectIsPromised ==
    ASSUME Core, Effect
    PROVE  [Promise!Next]_(Promise!vars)
<1>1. /\ Channel = [r \in Subs |-> Channel[r]] /\ Channel' = [r \in Subs |-> Channel'[r]]
      /\ PutOn = [r \in Subs |-> PutOn[r]] /\ PutOn' = [r \in Subs |-> PutOn'[r]]
      /\ DOMAIN Channel = Subs /\ DOMAIN Channel' = Subs
      /\ DOMAIN PutOn = Subs /\ DOMAIN PutOn' = Subs
  BY Zenon DEF Channel, PutOn
<1>2. CASE Still
  <2>1. Sent' = Sent /\ Channel' = Channel /\ PutOn' = PutOn
    BY <1>2 DEF Still, Sent, Channel, PutOn
  <2> QED BY <2>1 DEF Promise!vars
<1>3. ASSUME NEW m \in Msgs, Stored(m) PROVE Promise!Publish(m)
  <2>1. /\ Sent' = Sent \cup {m} /\ loop' = loop /\ got' = got
        /\ \A q \in DOMAIN Taken : Taken'[q] = Taken[q]
    BY <1>3, StoredIsSent DEF Stored
  <2>2. \A s \in Subs : got[s] \subseteq DOMAIN Taken
    BY TakenType DEF Core, ControlInv, DataInv
  <2>3. Channel' = Channel
    BY <2>1 DEF Channel
  <2>4. PutOn' = PutOn
    <3>1. \A s \in Subs : {Taken'[q] : q \in got[s]} = {Taken[q] : q \in got[s]}
      BY <2>1, <2>2
    <3> QED BY <2>1, <3>1 DEF PutOn
  <2> QED BY <2>1, <2>3, <2>4 DEF Promise!Publish
<1>4. ASSUME NEW s \in Subs, About(s)
      PROVE  Promise!Next \/ UNCHANGED Promise!vars
  <2>1. Alone(s)
    BY <1>4 DEF About, Begun, Ended, HandedOn, Dropped, Moved, TakenOut, Going
  <2>2. Taken' = Taken /\ Sent' = Sent
    BY <2>1 DEF Alone, Sent
  <2>3. \A r \in Subs : r # s => loop'[r] = loop[r] /\ got'[r] = got[r]
    BY <2>1 DEF Alone, Core, DataInv
  <2>4. \A r \in Subs : /\ loop'[r] = loop[r] => Channel'[r] = Channel[r]
                        /\ got'[r] = got[r] => PutOn'[r] = PutOn[r]
    BY <2>2, Zenon DEF Channel, PutOn
  <2>5. /\ Channel' = [Channel EXCEPT ![s] = Channel'[s]]
        /\ PutOn' = [PutOn EXCEPT ![s] = PutOn'[s]]
        /\ Channel'[s] = Channel[s] => Channel' = Channel
        /\ PutOn'[s] = PutOn[s] => PutOn' = PutOn
    BY <1>1, <2>3, <2>4, OneChanges
  <2>6. /\ loop'[s] = "none" => Channel'[s] = "none"
        /\ loop'[s] = "ended" => Channel'[s] = "closed"
        /\ loop'[s] \notin {"none", "ended"} => Channel'[s] = "open"
    BY Zenon DEF Channel
  <2>7. PutOn'[s] = {Taken'[q] : q \in got'[s]}
    BY DEF PutOn
  <2>8. CASE Begun(s)
    <3>1. Channel[s] = "none" /\ Channel'[s] = "open" /\ PutOn' = PutOn
      BY <2>4, <2>5, <2>6, <2>8, ChannelIs DEF Begun, NothingPut
    <3>2. Promise!Subscribe(s)
      BY <2>2, <2>5, <3>1 DEF Promise!Subscribe
    <3> QED BY <3>2 DEF Promise!Next
  <2>9. CASE Ended(s)
    <3>1. Channel[s] = "open" /\ Channel'[s] = "closed" /\ PutOn'[s] = {}
      BY <2>6, <2>7, <2>9, ChannelIs DEF Ended, Runs
    <3>2. Promise!CloseChannel(s)
      BY <2>2, <2>5, <3>1 DEF Promise!CloseChannel
    <3> QED BY <3>2 DEF Promise!Next
  <2>10. Going(s) => Channel[s] = "open" /\ Channel'[s] = "open"
    BY <2>6, ChannelIs DEF Going, Runs
  <2>11. CASE HandedOn(s)
    <3> DEFINE q == Head(inbox[s])
    <3>1. q \in DOMAIN Taken /\ got'[s] = got[s] \cup {q}
      BY <2>11, HeadInLog, TakenType DEF HandedOn, Core, ControlInv
    <3> HIDE DEF q
    <3>2. Taken[q] \in Sent /\ Taken[q] \in Msgs
      BY <3>1, TakenType, ElementOfSeq DEF Sent, Core, ControlInv
    <3>3. PutOn'[s] = PutOn[s] \cup {Taken[q]}
      BY <2>2, <2>7, <3>1, PutOnIs
    <3>4. Channel[s] = "open" /\ Channel' = Channel
      BY <2>5, <2>10, <2>11 DEF HandedOn
    <3>5. Promise!Deliver(s, Taken[q])
      BY <2>2, <2>5, <3>2, <3>3, <3>4 DEF Promise!Deliver
    <3> QED BY <3>2, <3>5 DEF Promise!Next
  <2>12. CASE Dropped(s) \/ Moved(s)
    <3>1. Channel' = Channel /\ PutOn' = PutOn
      BY <2>4, <2>5, <2>10, <2>12 DEF Dropped, Moved, NothingPut
    <3> QED BY <2>2, <3>1 DEF Promise!vars
  <2>13. CASE TakenOut(s)
    <3>1. Channel' = Channel /\ PutOn' = PutOn
      BY <2>4, <2>5, <2>13 DEF TakenOut
    <3> QED BY <2>2, <3>1 DEF Promise!vars
  <2> QED BY <1>4, <2>8, <2>9, <2>11, <2>12, <2>13 DEF About
<1> QED BY <1>2, <1>3, <1>4 DEF Effect, Promise!Next

\* Whichever bus was made, its channels behave as pkg/bus/bus.go:16-31 says: every
\* step of it is one step of MessageBus, or none.
THEOREM BusImplementsBus == Safety => ImplementsBus
<1>1. Init => Promise!Init
  <2> SUFFICES ASSUME Init PROVE Promise!Init
    OBVIOUS
  <2>1. Core
    BY CoreInit
  <2>2. /\ stream = << >> /\ log = << >>
        /\ \A s \in Subs : loop[s] = "none" /\ got[s] = {}
    BY DEF Init, NatsIdle, Nats!Init
  <2>3. DOMAIN << >> = {}
    OBVIOUS
  <2>4. DOMAIN Taken = {}
    BY <2>2, <2>3 DEF Taken
  <2>5. Sent = {}
    BY <2>4 DEF Sent
  <2>6. Channel = [s \in Subs |-> "none"]
    BY <2>2, ChannelIs, Zenon DEF Channel
  <2>7. PutOn = [s \in Subs |-> {}]
    BY <2>2 DEF PutOn
  <2> QED BY <2>5, <2>6, <2>7 DEF Promise!Init
<1>2. Core /\ [Next]_vars => [Promise!Next]_(Promise!vars)
  BY CoreStep, EffectIsPromised
<1> QED BY BusCore, <1>1, <1>2, PTL DEF Safety, ImplementsBus, Promise!Spec
===============================================================================
