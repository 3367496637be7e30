----------------------------- MODULE ClusterProofs -----------------------------
(***************************************************************************)
(* Proofs about Cluster.tla, for every set of hubs and of messages, every  *)
(* kind of bus and every number of retries and of repetitions.             *)
(***************************************************************************)
EXTENDS Cluster, SequenceTheorems, TLAPS

Entries == [msg : Msgs, part : {"map", "message"}]

\* What a body may be that clients are handed.
Bodies == {"text", "jstring", "json", "loose", "null", "binary", "base64", "empty"}

\* The frames that come back.
Surviving == {"text", "json", "loose"}

\* A frame that was encoded and decoded is a body; text comes back, and JSON compact.
LEMMA DecodeEncode ==
    ASSUME NEW f \in Frames
    PROVE  /\ Decode(Encode(f)) \in Bodies
           /\ f \in Surviving => Compact(Decode(Encode(f))) = Compact(f)
<1>1. CASE f = "text"
  <2>1. Encode(f) = "jstring"
    BY <1>1, Zenon DEF Encode
  <2>2. Decode("jstring") = "text"
    BY Zenon DEF Decode
  <2> QED BY <1>1, <2>1, <2>2 DEF Bodies
<1>2. CASE f = "jstring"
  <2>1. Encode(f) = "jstring"
    BY <1>2, Zenon DEF Encode, Compact
  <2>2. Decode("jstring") = "text"
    BY Zenon DEF Decode
  <2> QED BY <1>2, <2>1, <2>2 DEF Bodies, Surviving
<1>3. CASE f = "json"
  <2>1. Encode(f) = "json"
    BY <1>3, Zenon DEF Encode, Compact
  <2>2. Decode("json") = "json"
    BY Zenon DEF Decode
  <2> QED BY <1>3, <2>1, <2>2 DEF Bodies
<1>4. CASE f = "null"
  <2>1. Encode(f) = "null"
    BY <1>4, Zenon DEF Encode, Compact
  <2>2. Decode("null") = "empty"
    BY Zenon DEF Decode
  <2> QED BY <1>4, <2>1, <2>2 DEF Bodies, Surviving
<1>5. CASE f = "binary"
  <2>1. Encode(f) = "jbase64"
    BY <1>5, Zenon DEF Encode
  <2>2. Decode("jbase64") = "base64"
    BY Zenon DEF Decode
  <2> QED BY <1>5, <2>1, <2>2 DEF Bodies, Surviving
<1>6. CASE f = "loose"
  <2>1. Encode(f) = "json"
    BY <1>6, Zenon DEF Encode, Compact
  <2>2. Decode("json") = "json"
    BY Zenon DEF Decode
  <2> QED BY <1>6, <2>1, <2>2 DEF Bodies, Compact
<1> QED BY <1>1, <1>2, <1>3, <1>4, <1>5, <1>6 DEF Frames

\* What a frame is compacted to is a body.
LEMMA CompactBody == \A f \in Frames : f \in Bodies /\ Compact(f) \in Bodies
  BY DEF Frames, Bodies, Compact

-------------------------------------------------------------------------------
(* Types                                                                   *)

LoopLabels == {"check", "try", "backoff", "on", "sleep", "deaf", "gone"}
CallLabels == {"idle", "mark", "publish", "done", "lookup", "refused", "ok", "error"}

\* Channels hold entries that were published.
WireInv ==
    /\ wire \in [Nodes -> [Topics -> Seq(Entries)]]
    /\ sent \in [Topics -> SUBSET Entries]
    /\ \A n \in Nodes, t \in Topics :
          \A i \in 1 .. Len(wire[n][t]) : wire[n][t][i] \in sent[t]

HubInv ==
    /\ kind \in {"noop", "exact", "wildcard"}
    /\ what \in [Msgs -> [op : Ops, frame : Frames]]
    /\ has \cup up \cup open \subseteq Nodes
    /\ loop \in [Nodes -> [Topics -> LoopLabels]]
    /\ tries \in [Nodes -> [Topics -> 0 .. Retries]]
    /\ at \in [Msgs -> CallLabels]
    /\ from \in [Msgs -> Nodes]
    /\ marked \in [Nodes -> SUBSET Ids] /\ stale \in [Nodes -> SUBSET Ids]
    /\ repeats \in 0 .. MaxRepeats
    /\ got \in [Nodes -> [Msgs -> Seq(Bodies)]]
    /\ recent \in [Nodes -> [Ids -> Nat]]

Typed == WireInv /\ HubInv

\* These are the types of TypeOK.
LEMMA TypedIsTypeOK == Typed => TypeOK
  BY DEF Typed, WireInv, HubInv, TypeOK, LoopLabels, CallLabels

\* Nothing is under way at first.
LEMMA InitTyped == Init => Typed
<1> SUFFICES ASSUME Init PROVE Typed
  OBVIOUS
<1>1. << >> \in Seq(Entries) /\ << >> \in Seq(Bodies)
  OBVIOUS
<1>2. wire \in [Nodes -> [Topics -> Seq(Entries)]]
  BY <1>1 DEF Init
<1>3. got \in [Nodes -> [Msgs -> Seq(Bodies)]] /\ recent \in [Nodes -> [Ids -> Nat]]
  BY <1>1 DEF Init
<1>4. sent \in [Topics -> SUBSET Entries]
  BY DEF Init
<1>5. \A n \in Nodes, t \in Topics : Len(wire[n][t]) = 0
  BY DEF Init
<1>6. tries \in [Nodes -> [Topics -> 0 .. Retries]]
  BY ClusterAssumption DEF Init
<1>7. loop \in [Nodes -> [Topics -> LoopLabels]]
  BY DEF Init, LoopLabels
<1>8. HubInv
  BY <1>3, <1>6, <1>7, ClusterAssumption DEF Init, HubInv, CallLabels
<1> QED BY <1>2, <1>4, <1>5, <1>8 DEF Typed, WireInv

\* A channel is emptied.
LEMMA WireCleared ==
    ASSUME WireInv, NEW n \in Nodes, NEW t \in Topics, UNCHANGED sent,
           wire' = [wire EXCEPT ![n][t] = << >>]
    PROVE  WireInv'
<1>1. << >> \in Seq(Entries) /\ Len(<< >>) = 0
  OBVIOUS
<1>2. wire' \in [Nodes -> [Topics -> Seq(Entries)]]
  BY <1>1 DEF WireInv
<1>3. ASSUME NEW x \in Nodes, NEW u \in Topics
      PROVE  wire'[x][u] = wire[x][u] \/ wire'[x][u] = << >>
  BY DEF WireInv
<1> QED BY <1>1, <1>2, <1>3 DEF WireInv

\* An entry is read from a channel; it was published on the topic.
LEMMA WireRead ==
    ASSUME WireInv, NEW n \in Nodes, NEW t \in Topics, UNCHANGED sent,
           wire[n][t] # << >>, wire' = [wire EXCEPT ![n][t] = Tail(@)]
    PROVE  WireInv' /\ Head(wire[n][t]) \in Entries /\ Head(wire[n][t]) \in sent[t]
<1>1. wire[n][t] \in Seq(Entries)
  BY DEF WireInv
<1>2. /\ Tail(wire[n][t]) \in Seq(Entries)
      /\ Len(Tail(wire[n][t])) = Len(wire[n][t]) - 1
      /\ \A i \in 1 .. Len(Tail(wire[n][t])) : Tail(wire[n][t])[i] = wire[n][t][i + 1]
      /\ Head(wire[n][t]) = wire[n][t][1]
      /\ Head(wire[n][t]) \in Entries
      /\ Len(wire[n][t]) \in Nat \ {0}
  BY <1>1, HeadTailProperties, EmptySeq
<1>3. wire' \in [Nodes -> [Topics -> Seq(Entries)]]
  BY <1>2 DEF WireInv
<1>4. ASSUME NEW x \in Nodes, NEW u \in Topics
      PROVE  \/ wire'[x][u] = wire[x][u]
             \/ wire'[x][u] = Tail(wire[n][t]) /\ u = t
  BY DEF WireInv
<1>5. \A i \in 1 .. Len(Tail(wire[n][t])) : Tail(wire[n][t])[i] \in sent[t]
  BY <1>2 DEF WireInv
<1> QED BY <1>2, <1>3, <1>4, <1>5 DEF WireInv

\* An entry that was published, or is being published, is added to some channels.
LEMMA WireAdded ==
    ASSUME WireInv, NEW t \in Topics, NEW e \in Entries, NEW R \in SUBSET Nodes,
           wire' = [n \in Nodes |-> IF n \in R THEN [wire[n] EXCEPT ![t] = Append(@, e)]
                                               ELSE wire[n]],
           sent' = [sent EXCEPT ![t] = @ \cup {e}]
    PROVE  WireInv'
<1>1. ASSUME NEW n \in Nodes
      PROVE  wire[n] \in [Topics -> Seq(Entries)] /\ wire[n][t] \in Seq(Entries)
  BY DEF WireInv
<1>2. ASSUME NEW n \in Nodes
      PROVE  /\ Append(wire[n][t], e) \in Seq(Entries)
             /\ Len(Append(wire[n][t], e)) = Len(wire[n][t]) + 1
             /\ \A i \in 1 .. Len(wire[n][t]) : Append(wire[n][t], e)[i] = wire[n][t][i]
             /\ Append(wire[n][t], e)[Len(wire[n][t]) + 1] = e
             /\ Len(wire[n][t]) \in Nat
  BY <1>1, AppendProperties
<1>3. wire' \in [Nodes -> [Topics -> Seq(Entries)]]
  BY <1>1, <1>2
<1>4. sent' \in [Topics -> SUBSET Entries] /\ e \in sent'[t]
      /\ \A u \in Topics : sent[u] \subseteq sent'[u]
  BY DEF WireInv
<1>5. ASSUME NEW n \in Nodes, NEW u \in Topics
      PROVE  \/ wire'[n][u] = wire[n][u]
             \/ u = t /\ wire'[n][u] = Append(wire[n][t], e)
  BY <1>1
<1>6. ASSUME NEW n \in Nodes, NEW i \in 1 .. Len(Append(wire[n][t], e))
      PROVE  Append(wire[n][t], e)[i] \in sent'[t]
  BY <1>2, <1>4 DEF WireInv
<1> QED BY <1>3, <1>4, <1>5, <1>6 DEF WireInv

\* A publication reaches channels, or nothing happens to them.
LEMMA WireCarried ==
    ASSUME WireInv, NEW t \in Topics, NEW e \in Entries, Carry(e, t)
    PROVE  WireInv' /\ sent' = [sent EXCEPT ![t] = @ \cup {e}] /\ UNCHANGED repeats
<1>1. PICK R \in SUBSET Hearing(t) :
         wire' = [n \in Nodes |-> IF n \in R THEN [wire[n] EXCEPT ![t] = Append(@, e)]
                                             ELSE wire[n]]
  BY DEF Carry
<1>2. R \in SUBSET Nodes
  BY DEF Hearing
<1>3. sent' = [sent EXCEPT ![t] = @ \cup {e}] /\ UNCHANGED repeats
  BY DEF Carry
<1> QED BY <1>1, <1>2, <1>3, WireAdded

LEMMA WirePublished ==
    ASSUME WireInv, NEW t \in Topics, NEW e \in Entries, NEW n, NEW error,
           Publish(n, e, t, error)
    PROVE  /\ WireInv' /\ UNCHANGED repeats
           /\ UNCHANGED sent \/ sent' = [sent EXCEPT ![t] = @ \cup {e}]
<1>1. CASE Carry(e, t)
  BY <1>1, WireCarried
<1>2. CASE UNCHANGED busVars
  BY <1>2 DEF busVars, WireInv
<1> QED BY <1>1, <1>2 DEF Publish

\* An id is one.
LEMMA IdIsId == \A m \in Msgs : Id(m) \in Ids /\ m \in Ids
  BY DEF Id, Ids

\* A body is handed to a node's clients.
LEMMA Handed ==
    ASSUME HubInv, NEW n \in Nodes, NEW m \in Msgs, NEW body \in Bodies,
           Hand(n, m, body)
    PROVE  /\ got' \in [Nodes -> [Msgs -> Seq(Bodies)]]
           /\ got'[n][m] = Append(got[n][m], body)
           /\ \A x \in Nodes, k \in Msgs : x # n \/ k # m => got'[x][k] = got[x][k]
           /\ recent' \in [Nodes -> [Ids -> Nat]]
           /\ \A x \in Nodes, i \in Ids :
                 x # n \/ i # Id(m) => recent'[x][i] = recent[x][i]
           /\ recent'[n][Id(m)] = IF what[m].op = "raw" THEN recent[n][Id(m)]
                                  ELSE recent[n][Id(m)] + 1
<1>1. got[n] \in [Msgs -> Seq(Bodies)] /\ got[n][m] \in Seq(Bodies)
  BY DEF HubInv
<1>2. Append(got[n][m], body) \in Seq(Bodies)
  BY <1>1, AppendProperties
<1>3. got' = [got EXCEPT ![n][m] = Append(got[n][m], body)]
  BY DEF Hand
<1>4. PICK c \in Nat : /\ c = IF what[m].op = "raw" THEN recent[n][Id(m)]
                              ELSE recent[n][Id(m)] + 1
                       /\ recent' = [recent EXCEPT ![n][Id(m)] = c]
  <2>1. recent[n][Id(m)] \in Nat
    BY IdIsId DEF HubInv
  <2>2. recent' = [recent EXCEPT ![n][Id(m)] = IF what[m].op = "raw" THEN recent[n][Id(m)]
                                               ELSE recent[n][Id(m)] + 1]
    BY DEF Hand
  <2>3. (IF what[m].op = "raw" THEN recent[n][Id(m)] ELSE recent[n][Id(m)] + 1) \in Nat
    BY <2>1
  <2> QED BY <2>2, <2>3
<1>5. /\ recent' \in [Nodes -> [Ids -> Nat]]
      /\ \A x \in Nodes, i \in Ids : x # n \/ i # Id(m) => recent'[x][i] = recent[x][i]
      /\ recent'[n][Id(m)] = c
  BY <1>4, IdIsId DEF HubInv
<1>6. /\ got' \in [Nodes -> [Msgs -> Seq(Bodies)]]
      /\ got'[n][m] = Append(got[n][m], body)
      /\ \A x \in Nodes, k \in Msgs : x # n \/ k # m => got'[x][k] = got[x][k]
  BY <1>2, <1>3 DEF HubInv
<1> QED BY <1>4, <1>5, <1>6

\* An id is marked on a node: it is fresh, and others that went were stale.
LEMMA Marked ==
    ASSUME HubInv, NEW n \in Nodes, NEW i \in Ids, Mark(n, i)
    PROVE  /\ marked' \in [Nodes -> SUBSET Ids] /\ stale' \in [Nodes -> SUBSET Ids]
           /\ i \in marked'[n] /\ i \notin stale'[n]
           /\ stale'[n] \subseteq stale[n]
           /\ stale[n] \subseteq marked[n] => stale'[n] \subseteq marked'[n]
           /\ \A k \in marked[n] : k \in marked'[n] \/ k \in stale[n]
           /\ \A x \in Nodes \ {n} : marked'[x] = marked[x] /\ stale'[x] = stale[x]
<1>1. PICK gone \in SUBSET stale[n] :
         /\ marked' = [marked EXCEPT ![n] = (marked[n] \ gone) \cup {i}]
         /\ stale' = [stale EXCEPT ![n] = stale[n] \ (gone \cup {i})]
  BY DEF Mark
<1>2. marked[n] \in SUBSET Ids /\ stale[n] \in SUBSET Ids
  BY DEF HubInv
<1>3. (marked[n] \ gone) \cup {i} \in SUBSET Ids /\ stale[n] \ (gone \cup {i}) \in SUBSET Ids
  BY <1>2
<1>4. /\ marked'[n] = (marked[n] \ gone) \cup {i}
      /\ stale'[n] = stale[n] \ (gone \cup {i})
      /\ \A x \in Nodes \ {n} : marked'[x] = marked[x] /\ stale'[x] = stale[x]
  BY <1>1 DEF HubInv
<1>5. marked' \in [Nodes -> SUBSET Ids] /\ stale' \in [Nodes -> SUBSET Ids]
  BY <1>1, <1>3 DEF HubInv
<1> QED BY <1>4, <1>5

\* Every step keeps the types.
LEMMA NextTyped == Typed /\ [Next]_vars => Typed'
<1> SUFFICES ASSUME Typed, [Next]_vars PROVE Typed'
  OBVIOUS
<1>0. WireInv /\ HubInv
  BY DEF Typed
<1>a. ASSUME NEW n \in Nodes, NEW t \in Topics, NEW label \in LoopLabels,
             LoopTo(n, t, label), tries' \in [Nodes -> [Topics -> 0 .. Retries]]
      PROVE  HubInv'
  BY <1>0, <1>a DEF HubInv, LoopTo, rigid, hubVars, callVars, markVars, gotVars
<1>1. ASSUME NEW n \in Nodes, NEW t \in Topics, Check(n, t) PROVE Typed'
  <2>1. tries' \in [Nodes -> [Topics -> 0 .. Retries]]
    BY <1>0, <1>1, ClusterAssumption DEF Check, HubInv
  <2>2. \/ LoopTo(n, t, "try") \/ LoopTo(n, t, "gone")
    BY <1>1 DEF Check
  <2>3. HubInv'
    BY <1>a, <2>1, <2>2 DEF LoopLabels
  <2>4. UNCHANGED <<wire, sent>>
    BY <1>1 DEF Check, LoopTo
  <2> QED BY <1>0, <2>3, <2>4 DEF Typed, WireInv
<1>2. ASSUME NEW n \in Nodes, NEW t \in Topics, Try(n, t) PROVE Typed'
  <2>1. \/ LoopTo(n, t, "on") /\ tries' = [tries EXCEPT ![n][t] = 0]
        \/ /\ LoopTo(n, t, "backoff") /\ tries[n][t] < Retries
           /\ tries' = [tries EXCEPT ![n][t] = tries[n][t] + 1]
        \/ LoopTo(n, t, "deaf") /\ tries' = [tries EXCEPT ![n][t] = 0]
    BY <1>2 DEF Try
  <2>2. tries[n][t] \in 0 .. Retries
    BY <1>0 DEF HubInv
  <2>3. tries' \in [Nodes -> [Topics -> 0 .. Retries]]
    <3>1. 0 \in 0 .. Retries
      BY ClusterAssumption
    <3>2. tries[n][t] < Retries => tries[n][t] + 1 \in 0 .. Retries
      BY <2>2, ClusterAssumption
    <3>3. PICK k \in 0 .. Retries : tries' = [tries EXCEPT ![n][t] = k]
      BY <2>1, <3>1, <3>2
    <3> QED BY <1>0, <3>3 DEF HubInv
  <2>4. HubInv'
    BY <1>a, <2>1, <2>3 DEF LoopLabels
  <2>5. UNCHANGED <<wire, sent>>
    BY <1>2 DEF Try, LoopTo
  <2> QED BY <1>0, <2>4, <2>5 DEF Typed, WireInv
<1>3. ASSUME NEW n \in Nodes, NEW t \in Topics,
             Backoff(n, t) \/ SeeDone(n, t) \/ SleepOver(n, t)
      PROVE  Typed'
  <2>1. tries' \in [Nodes -> [Topics -> 0 .. Retries]]
    BY <1>0, <1>3 DEF Backoff, SeeDone, SleepOver, HubInv
  <2>2. \/ LoopTo(n, t, "try") \/ LoopTo(n, t, "gone") \/ LoopTo(n, t, "check")
    BY <1>3 DEF Backoff, SeeDone, SleepOver
  <2>3. HubInv'
    BY <1>a, <2>1, <2>2 DEF LoopLabels
  <2>4. /\ UNCHANGED sent
        /\ UNCHANGED wire \/ wire' = [wire EXCEPT ![n][t] = << >>]
    BY <1>3 DEF Backoff, SeeDone, SleepOver, LoopTo
  <2>5. UNCHANGED wire => WireInv'
    BY <1>0, <2>4 DEF WireInv
  <2> QED BY <1>0, <2>3, <2>4, <2>5, WireCleared DEF Typed
<1>4. ASSUME NEW n \in Nodes, NEW t \in Topics, ChannelCloses(n, t) PROVE Typed'
  <2>1. HubInv'
    BY <1>0, <1>4 DEF ChannelCloses, HubInv, LoopLabels, rigid, hubVars, callVars,
                      markVars, busVars, gotVars
  <2> QED BY <1>0, <1>4, <2>1 DEF ChannelCloses, busVars, WireInv, Typed
<1>5. ASSUME NEW n \in Nodes, NEW t \in Topics, Repeat(n, t) PROVE Typed'
  <2>1. repeats' \in 0 .. MaxRepeats
    BY <1>0, <1>5, ClusterAssumption DEF Repeat, HubInv
  <2>2. HubInv'
    BY <1>0, <1>5, <2>1 DEF Repeat, HubInv, rigid, hubVars, loopVars, callVars,
                             markVars, gotVars
  <2>3. PICK e \in sent[t] : wire' = [wire EXCEPT ![n][t] = Append(@, e)]
    BY <1>5 DEF Repeat
  <2>4. e \in Entries /\ sent' = sent /\ sent' = [sent EXCEPT ![t] = @ \cup {e}]
    BY <1>0, <1>5, <2>3 DEF Repeat, WireInv
  <2>5. wire' = [x \in Nodes |-> IF x \in {n} THEN [wire[x] EXCEPT ![t] = Append(@, e)]
                                              ELSE wire[x]]
    BY <1>0, <2>3 DEF WireInv
  <2>6. {n} \in SUBSET Nodes
    OBVIOUS
  <2>7. WireInv'
    BY <1>0, <2>4, <2>5, <2>6, WireAdded
  <2> QED BY <2>2, <2>7 DEF Typed
<1>6. ASSUME NEW m \in Msgs, Foreign(m) PROVE Typed'
  <2>1. Entry(m, "message") \in Entries /\ "broadcast" \in Topics
    BY DEF Entry, Entries, Topics
  <2>2. WireInv' /\ UNCHANGED repeats
    BY <1>0, <1>6, <2>1, WireCarried DEF Foreign
  <2>3. HubInv'
    BY <1>0, <1>6, <2>2 DEF Foreign, HubInv, CallLabels, rigid, hubVars, loopVars,
                            markVars, gotVars
  <2> QED BY <2>2, <2>3 DEF Typed
<1>7. ASSUME NEW n \in Nodes, BeginClose(n) \/ EndClose(n) PROVE Typed'
  <2>1. HubInv'
    BY <1>0, <1>7 DEF BeginClose, EndClose, HubInv, rigid, loopVars, callVars, busVars,
                            markVars, gotVars
  <2>2. UNCHANGED <<wire, sent>>
    BY <1>7 DEF BeginClose, EndClose, busVars
  <2> QED BY <1>0, <2>1, <2>2 DEF Typed, WireInv
<1>8. ASSUME NEW m \in Msgs, Broadcast(m) PROVE Typed'
  <2>1. Hand(from[m], m, what[m].frame) /\ at' = [at EXCEPT ![m] = "mark"]
        /\ UNCHANGED <<rigid, hubVars, loopVars, from, markVars, busVars>>
    BY <1>8 DEF Broadcast, CallTo
  <2>2. from[m] \in Nodes /\ what[m].frame \in Bodies
    BY <1>0, CompactBody DEF HubInv
  <2>3. /\ got' \in [Nodes -> [Msgs -> Seq(Bodies)]]
        /\ recent' \in [Nodes -> [Ids -> Nat]]
    BY <1>0, <2>1, <2>2, Handed
  <2>4. HubInv'
    BY <1>0, <2>1, <2>3 DEF HubInv, CallLabels, rigid, hubVars, loopVars, markVars,
                            busVars
  <2> QED BY <1>0, <2>1, <2>4 DEF Typed, WireInv, busVars
<1>9. ASSUME NEW m \in Msgs, MarkOwn(m) PROVE Typed'
  <2>1. Mark(from[m], m) /\ at' = [at EXCEPT ![m] = "publish"]
        /\ UNCHANGED <<rigid, hubVars, loopVars, from, busVars, gotVars>>
    BY <1>9 DEF MarkOwn, CallTo
  <2>2. marked' \in [Nodes -> SUBSET Ids] /\ stale' \in [Nodes -> SUBSET Ids]
    BY <1>0, <2>1, IdIsId, Marked DEF HubInv
  <2>3. HubInv'
    BY <1>0, <2>1, <2>2 DEF HubInv, CallLabels, rigid, hubVars, loopVars, busVars,
                            gotVars
  <2> QED BY <1>0, <2>1, <2>3 DEF Typed, WireInv, busVars
<1>10. ASSUME NEW m \in Msgs,
              PublishBroadcast(m) \/ BroadcastToRoom(m) \/ RmPublish(m)
       PROVE  Typed'
  <2>1. PICK t \in Topics, part \in {"map", "message"}, error \in BOOLEAN :
           Publish(from[m], Entry(m, part), t, error)
    BY <1>10 DEF PublishBroadcast, BroadcastToRoom, RmPublish, Topics
  <2>2. Entry(m, part) \in Entries
    BY DEF Entry, Entries
  <2>3. WireInv' /\ UNCHANGED repeats
    BY <1>0, <2>1, <2>2, WirePublished
  <2>4. /\ UNCHANGED <<rigid, hubVars, loopVars, from, markVars, gotVars>>
        /\ \/ at' = [at EXCEPT ![m] = "done"] \/ at' = [at EXCEPT ![m] = "lookup"]
           \/ at' = [at EXCEPT ![m] = "ok"] \/ at' = [at EXCEPT ![m] = "error"]
    BY <1>10 DEF PublishBroadcast, BroadcastToRoom, RmPublish, CallTo
  <2>5. HubInv'
    BY <1>0, <2>3, <2>4 DEF HubInv, CallLabels, rigid, hubVars, loopVars, markVars,
                            gotVars
  <2> QED BY <2>3, <2>5 DEF Typed
<1>11. ASSUME NEW m \in Msgs, RmPrepare(m) PROVE Typed'
  <2>1. /\ UNCHANGED <<rigid, hubVars, loopVars, from, busVars, gotVars>>
        /\ UNCHANGED markVars \/ Mark(from[m], m)
        /\ at' = [at EXCEPT ![m] = "refused"] \/ at' = [at EXCEPT ![m] = "publish"]
    BY <1>11 DEF RmPrepare, CallTo
  <2>2. marked' \in [Nodes -> SUBSET Ids] /\ stale' \in [Nodes -> SUBSET Ids]
    BY <1>0, <2>1, IdIsId, Marked DEF HubInv, markVars
  <2>3. HubInv'
    BY <1>0, <2>1, <2>2 DEF HubInv, CallLabels, rigid, hubVars, loopVars, busVars,
                            gotVars
  <2> QED BY <1>0, <2>1, <2>3 DEF Typed, WireInv, busVars
<1>12. ASSUME NEW n \in Nodes, HearBroadcast(n) PROVE Typed'
  <2> DEFINE e == Head(wire[n]["broadcast"])
  <2>1. wire' = [wire EXCEPT ![n]["broadcast"] = Tail(@)] /\ UNCHANGED sent
        /\ wire[n]["broadcast"] # << >> /\ "broadcast" \in Topics
    BY <1>12 DEF HearBroadcast, Topics
  <2>2. WireInv' /\ e \in Entries
    BY <1>0, <2>1, WireRead
  <2>3. e.msg \in Msgs /\ what[e.msg].frame \in Frames
    BY <1>0, <2>2 DEF Entries, HubInv
  <2>4. /\ \/ UNCHANGED gotVars
           \/ Hand(n, e.msg, what[e.msg].frame)
           \/ Hand(n, e.msg, Decode(Encode(what[e.msg].frame)))
        /\ UNCHANGED markVars \/ Mark(n, Id(e.msg))
        /\ UNCHANGED <<rigid, hubVars, loopVars, callVars, repeats>>
    BY <1>12 DEF HearBroadcast
  <2>5. PICK m \in Msgs : m = e.msg
    BY <2>3
  <2>6. what[m].frame \in Bodies /\ Decode(Encode(what[m].frame)) \in Bodies
    BY <2>3, <2>5, CompactBody, DecodeEncode
  <2>7. /\ \/ UNCHANGED gotVars
           \/ Hand(n, m, what[m].frame)
           \/ Hand(n, m, Decode(Encode(what[m].frame)))
        /\ UNCHANGED markVars \/ Mark(n, Id(m))
    BY <2>4, <2>5
  <2>8. /\ got' \in [Nodes -> [Msgs -> Seq(Bodies)]]
        /\ recent' \in [Nodes -> [Ids -> Nat]]
    BY <1>0, <2>6, <2>7, Handed DEF HubInv, gotVars
  <2>9. marked' \in [Nodes -> SUBSET Ids] /\ stale' \in [Nodes -> SUBSET Ids]
    BY <1>0, <2>7, IdIsId, Marked DEF HubInv, markVars
  <2>10. HubInv'
    BY <1>0, <2>4, <2>8, <2>9 DEF HubInv, rigid, hubVars, loopVars, callVars
  <2> QED BY <2>2, <2>10 DEF Typed
<1>13. ASSUME NEW n \in Nodes, HearRoom(n) PROVE Typed'
  <2> DEFINE e == Head(wire[n]["room"])
  <2>1. wire' = [wire EXCEPT ![n]["room"] = Tail(@)] /\ UNCHANGED sent
        /\ wire[n]["room"] # << >> /\ "room" \in Topics
    BY <1>13 DEF HearRoom, Topics
  <2>2. WireInv' /\ e \in Entries
    BY <1>0, <2>1, WireRead
  <2>3. e.msg \in Msgs
    BY <2>2 DEF Entries
  <2>4. /\ UNCHANGED gotVars \/ Hand(n, e.msg, Compact(what[e.msg].frame))
        /\ UNCHANGED markVars \/ Mark(n, e.msg)
        /\ UNCHANGED <<rigid, hubVars, loopVars, callVars, repeats>>
    BY <1>13 DEF HearRoom, RoomBroadcast
  <2>5. PICK m \in Msgs : m = e.msg
    BY <2>3
  <2>6. Compact(what[m].frame) \in Bodies
    BY <1>0, CompactBody DEF HubInv
  <2>7. /\ UNCHANGED gotVars \/ Hand(n, m, Compact(what[m].frame))
        /\ UNCHANGED markVars \/ Mark(n, m)
    BY <2>4, <2>5
  <2>8. /\ got' \in [Nodes -> [Msgs -> Seq(Bodies)]]
        /\ recent' \in [Nodes -> [Ids -> Nat]]
    BY <1>0, <2>6, <2>7, Handed DEF HubInv, gotVars
  <2>9. marked' \in [Nodes -> SUBSET Ids] /\ stale' \in [Nodes -> SUBSET Ids]
    BY <1>0, <2>7, IdIsId, Marked DEF HubInv, markVars
  <2>10. HubInv'
    BY <1>0, <2>4, <2>8, <2>9 DEF HubInv, rigid, hubVars, loopVars, callVars
  <2> QED BY <2>2, <2>10 DEF Typed
<1>14. ASSUME NEW n \in Nodes, NEW i \in Ids, Age(n, i) PROVE Typed'
  <2>1. /\ stale' = [stale EXCEPT ![n] = stale[n] \cup {i}]
        /\ recent' = [recent EXCEPT ![n][i] = 0]
        /\ UNCHANGED <<rigid, hubVars, loopVars, callVars, marked, busVars, got>>
    BY <1>14 DEF Age
  <2>2. stale' \in [Nodes -> SUBSET Ids] /\ recent' \in [Nodes -> [Ids -> Nat]]
    BY <1>0, <2>1 DEF HubInv
  <2>3. HubInv'
    BY <1>0, <2>1, <2>2 DEF HubInv, rigid, hubVars, loopVars, callVars, busVars
  <2> QED BY <1>0, <2>1, <2>3 DEF Typed, WireInv, busVars
<1>15. CASE UNCHANGED vars
  BY <1>0, <1>15 DEF vars, rigid, hubVars, loopVars, callVars, busVars, Typed,
                     WireInv, HubInv
<1> QED
  BY <1>1, <1>2, <1>3, <1>4, <1>5, <1>6, <1>7, <1>8, <1>9, <1>10, <1>11, <1>12,
     <1>13, <1>14, <1>15
  DEF Next, Subscription, Hear, Call

\* Every variable of the hubs keeps its type, and channels hold what was published
\* on their topic (hub.go:83-179, room.go:169-258).
THEOREM ClusterTypeCorrect == Safety => []TypeOK
  BY InitTyped, NextTyped, TypedIsTypeOK, PTL DEF Safety

-------------------------------------------------------------------------------
(* What is published, marked and handed over                               *)

Op(m) == what[m].op

\* The stages of each kind of call; what is on a topic says how far its call is.
CallInv ==
    /\ \A m \in Msgs :
          /\ Op(m) \in {"raw", "anon", "other"} => at[m] \in {"idle", "done"}
          /\ Op(m) = "broadcast" => at[m] \in {"idle", "mark", "publish", "done"}
          /\ Op(m) = "room"
                => at[m] \in {"idle", "lookup", "refused", "publish", "ok", "error"}
    /\ \A e \in sent["broadcast"] : Op(e.msg) # "room" /\ at[e.msg] = "done"
    /\ \A e \in sent["room"] :
          /\ Op(e.msg) = "room"
          /\ e.part = "message" => at[e.msg] \in {"ok", "error"}

\* An id that counts a handing is marked and fresh, that of a broadcast which its own
\* call has not marked yet excepted.
AgeInv ==
    \A n \in Nodes, i \in Ids :
        /\ recent[n][i] <= 1
        /\ i \in stale[n] => i \in marked[n] /\ recent[n][i] = 0
        /\ i \notin marked[n] /\ recent[n][i] # 0
              => i \in Msgs /\ at[i] = "mark" /\ n = from[i]
        /\ i \in Msgs /\ at[i] = "idle" => recent[n][i] = 0 /\ i \notin marked[n]

\* Bodies of a broadcast are the frame, text exactly, JSON as a value.
FrameInv ==
    \A n \in Nodes, m \in Msgs :
        Op(m) = "broadcast" /\ what[m].frame \in Surviving =>
            \A i \in 1 .. Len(got[n][m]) : Compact(got[n][m][i]) = Compact(what[m].frame)

ClusterInv == Typed /\ CallInv /\ AgeInv /\ FrameInv

\* Nothing was sent at first.
LEMMA InitClusterInv == Init => ClusterInv
<1> SUFFICES ASSUME Init PROVE ClusterInv
  OBVIOUS
<1>1. Typed
  BY InitTyped
<1>2. /\ \A m \in Msgs : at[m] = "idle"
      /\ sent["broadcast"] = {} /\ sent["room"] = {}
  BY DEF Init, Topics
<1>3. \A n \in Nodes, m \in Msgs : Len(got[n][m]) = 0
  BY DEF Init
<1>4. \A n \in Nodes : /\ marked[n] = {} /\ stale[n] = {}
                       /\ \A i \in Ids : recent[n][i] = 0
  BY DEF Init
<1>5. CallInv
  BY <1>2 DEF CallInv
<1>6. AgeInv
  BY <1>4 DEF AgeInv
<1>7. FrameInv
  BY <1>3 DEF FrameInv
<1> QED BY <1>1, <1>5, <1>6, <1>7 DEF ClusterInv

\* Every step keeps what is said of the calls.
LEMMA NextCallInv == ClusterInv /\ [Next]_vars => CallInv'
<1> SUFFICES ASSUME ClusterInv, [Next]_vars PROVE CallInv'
  OBVIOUS
<1>0. Typed /\ HubInv /\ WireInv /\ CallInv
  BY DEF ClusterInv, Typed
<1>t. /\ at \in [Msgs -> CallLabels]
      /\ sent["broadcast"] \subseteq Entries /\ sent["room"] \subseteq Entries
      /\ "broadcast" \in Topics /\ "room" \in Topics /\ "broadcast" # "room"
      /\ DOMAIN sent = Topics
  BY <1>0 DEF HubInv, WireInv, Topics
\* Nothing is sent and no call goes on.
<1>1. ASSUME UNCHANGED <<rigid, callVars, sent>> PROVE CallInv'
  BY <1>0, <1>t, <1>1 DEF CallInv, Op, rigid, callVars
<1>2. ASSUME NEW n \in Nodes, NEW t \in Topics,
             \/ Check(n, t) \/ Try(n, t) \/ Backoff(n, t) \/ SeeDone(n, t)
             \/ SleepOver(n, t) \/ ChannelCloses(n, t) \/ Repeat(n, t)
      PROVE  CallInv'
  BY <1>1, <1>2 DEF Check, Try, Backoff, SeeDone, SleepOver, ChannelCloses, Repeat,
                    LoopTo, busVars
<1>3. ASSUME NEW n \in Nodes, NEW i \in Ids, Age(n, i) PROVE CallInv'
  BY <1>1, <1>3 DEF Age, busVars
<1>4. ASSUME NEW n \in Nodes, BeginClose(n) \/ EndClose(n) PROVE CallInv'
  BY <1>1, <1>4 DEF BeginClose, EndClose, busVars
<1>5. ASSUME NEW n \in Nodes, HearBroadcast(n) \/ HearRoom(n) PROVE CallInv'
  BY <1>1, <1>5 DEF HearBroadcast, HearRoom
<1>6. ASSUME NEW m \in Msgs, Broadcast(m) PROVE CallInv'
  BY <1>0, <1>t, <1>6 DEF Broadcast, CallTo, CallInv, Op, rigid, busVars
<1>7. ASSUME NEW m \in Msgs, MarkOwn(m) PROVE CallInv'
  BY <1>0, <1>t, <1>7 DEF MarkOwn, CallTo, CallInv, Op, rigid, busVars
<1>8. ASSUME NEW m \in Msgs, RmPrepare(m) PROVE CallInv'
  <2>1. /\ at[m] = "lookup"
        /\ at' = [at EXCEPT ![m] = "refused"] \/ at' = [at EXCEPT ![m] = "publish"]
        /\ UNCHANGED <<what, sent>>
    BY <1>8 DEF RmPrepare, CallTo, rigid, busVars
  <2>2. CASE at' = [at EXCEPT ![m] = "refused"]
    BY <1>0, <1>t, <2>1, <2>2 DEF CallInv, Op
  <2>3. CASE at' = [at EXCEPT ![m] = "publish"]
    BY <1>0, <1>t, <2>1, <2>3 DEF CallInv, Op
  <2> QED BY <2>1, <2>2, <2>3
<1>9. ASSUME NEW m \in Msgs, Foreign(m) \/ PublishBroadcast(m) PROVE CallInv'
  <2>1. Entry(m, "message") \in Entries
    BY DEF Entry, Entries
  <2>2. /\ UNCHANGED what
        /\ Op(m) # "room" /\ at' = [at EXCEPT ![m] = "done"]
        /\ Op(m) = "broadcast" => at[m] = "publish"
        /\ at[m] \in {"idle", "publish"}
    BY <1>9 DEF Foreign, PublishBroadcast, CallTo, rigid, Op
  <2>3. \/ UNCHANGED sent
        \/ sent' = [sent EXCEPT !["broadcast"] = @ \cup {Entry(m, "message")}]
    BY <1>0, <1>t, <1>9, <2>1, WireCarried, WirePublished
    DEF Foreign, PublishBroadcast
  <2>4. /\ sent'["room"] = sent["room"]
        /\ sent'["broadcast"] \subseteq sent["broadcast"] \cup {Entry(m, "message")}
    BY <1>t, <2>3
  <2>5. Entry(m, "message").msg = m
    BY DEF Entry
  <2> QED BY <1>0, <1>t, <2>2, <2>4, <2>5 DEF CallInv, Op
<1>10. ASSUME NEW m \in Msgs, BroadcastToRoom(m) PROVE CallInv'
  <2>1. Entry(m, "map") \in Entries
    BY DEF Entry, Entries
  <2>2. /\ UNCHANGED what
        /\ Op(m) = "room" /\ at' = [at EXCEPT ![m] = "lookup"] /\ at[m] = "idle"
    BY <1>10 DEF BroadcastToRoom, CallTo, rigid, Op
  <2>3. UNCHANGED sent \/ sent' = [sent EXCEPT !["room"] = @ \cup {Entry(m, "map")}]
    BY <1>0, <1>t, <1>10, <2>1, WirePublished DEF BroadcastToRoom
  <2>4. /\ sent'["broadcast"] = sent["broadcast"]
        /\ sent'["room"] \subseteq sent["room"] \cup {Entry(m, "map")}
    BY <1>t, <2>3
  <2>5. Entry(m, "map").msg = m /\ Entry(m, "map").part = "map"
    BY DEF Entry
  <2> QED BY <1>0, <1>t, <2>2, <2>4, <2>5 DEF CallInv, Op
<1>11. ASSUME NEW m \in Msgs, RmPublish(m) PROVE CallInv'
  <2>1. Entry(m, "message") \in Entries
    BY DEF Entry, Entries
  <2>2. /\ UNCHANGED what
        /\ Op(m) = "room" /\ at[m] = "publish"
        /\ at' = [at EXCEPT ![m] = "ok"] \/ at' = [at EXCEPT ![m] = "error"]
    BY <1>11 DEF RmPublish, CallTo, rigid, Op
  <2>3. \/ UNCHANGED sent
        \/ sent' = [sent EXCEPT !["room"] = @ \cup {Entry(m, "message")}]
    BY <1>0, <1>t, <1>11, <2>1, WirePublished DEF RmPublish
  <2>4. /\ sent'["broadcast"] = sent["broadcast"]
        /\ sent'["room"] \subseteq sent["room"] \cup {Entry(m, "message")}
    BY <1>t, <2>3
  <2>5. Entry(m, "message").msg = m
    BY DEF Entry
  <2>6. CASE at' = [at EXCEPT ![m] = "ok"]
    BY <1>0, <1>t, <2>2, <2>4, <2>5, <2>6 DEF CallInv, Op
  <2>7. CASE at' = [at EXCEPT ![m] = "error"]
    BY <1>0, <1>t, <2>2, <2>4, <2>5, <2>7 DEF CallInv, Op
  <2> QED BY <2>2, <2>6, <2>7
<1>12. CASE UNCHANGED vars
  BY <1>1, <1>12 DEF vars, rigid, callVars, busVars
<1> QED
  BY <1>2, <1>3, <1>4, <1>5, <1>6, <1>7, <1>8, <1>9, <1>10, <1>11, <1>12
  DEF Next, Subscription, Hear, Call

-------------------------------------------------------------------------------
(* Handed over within the TTL                                              *)

\* A step that marks ids, forgets stale ones, moves calls on and hands over one frame
\* more of an id that counted none, and that is marked then or is about to be.
LEMMA AgeStep ==
    ASSUME HubInv, AgeInv, UNCHANGED from,
           \A x \in Nodes, k \in Ids : k \in stale'[x] => k \in stale[x] /\ k \in marked'[x],
           \A x \in Nodes, k \in Ids : k \in marked[x] => k \in marked'[x] \/ k \in stale[x],
           \A x \in Nodes, k \in Msgs :
              at'[k] = "idle" => at[k] = "idle" /\ (k \in marked'[x] => k \in marked[x]),
           \A k \in Msgs : at[k] = "mark" => at'[k] = "mark" \/ k \in marked'[from[k]],
           \A x \in Nodes, k \in Ids :
              \/ recent'[x][k] = recent[x][k]
              \/ /\ recent'[x][k] = 1 /\ k \notin stale'[x]
                 /\ \/ k \in marked'[x]
                    \/ k \in Msgs /\ at'[k] = "mark" /\ x = from[k]
                 /\ k \in Msgs => at'[k] # "idle"
    PROVE  AgeInv'
<1> SUFFICES ASSUME NEW n \in Nodes, NEW i \in Ids
             PROVE  /\ recent'[n][i] <= 1
                    /\ i \in stale'[n] => i \in marked'[n] /\ recent'[n][i] = 0
                    /\ i \notin marked'[n] /\ recent'[n][i] # 0
                          => i \in Msgs /\ at'[i] = "mark" /\ n = from'[i]
                    /\ i \in Msgs /\ at'[i] = "idle"
                          => recent'[n][i] = 0 /\ i \notin marked'[n]
  BY DEF AgeInv
<1>0. /\ recent[n][i] <= 1
      /\ i \in stale[n] => i \in marked[n] /\ recent[n][i] = 0
      /\ i \notin marked[n] /\ recent[n][i] # 0
            => i \in Msgs /\ at[i] = "mark" /\ n = from[i]
      /\ i \in Msgs /\ at[i] = "idle" => recent[n][i] = 0 /\ i \notin marked[n]
  BY DEF AgeInv
<1>1. CASE recent'[n][i] = recent[n][i]
  BY <1>0, <1>1
<1>2. CASE recent'[n][i] # recent[n][i]
  <2>1. /\ recent'[n][i] = 1 /\ i \notin stale'[n]
        /\ i \in marked'[n] \/ (i \in Msgs /\ at'[i] = "mark" /\ n = from[i])
        /\ i \in Msgs => at'[i] # "idle"
    BY <1>2
  <2> QED BY <2>1
<1> QED BY <1>1, <1>2

\* Nothing is marked or handed over, and no call marks.
LEMMA AgeKept ==
    ASSUME HubInv, AgeInv, UNCHANGED <<from, markVars, recent>>,
           \A k \in Msgs : at'[k] = "idle" => at[k] = "idle",
           \A k \in Msgs : at[k] = "mark" => at'[k] = "mark"
    PROVE  AgeInv'
  BY AgeStep DEF AgeInv, markVars

\* An id that is not that of an idle call is marked, and a message of that id handed
\* over unless nothing is.
LEMMA AgeMarkedAndHanded ==
    ASSUME HubInv, AgeInv, UNCHANGED <<from, at>>, NEW n \in Nodes, NEW m \in Msgs,
           Mark(n, Id(m)), Id(m) \notin marked[n],
           Id(m) = m => at[m] \notin {"idle", "mark"},
           NEW body \in Bodies, UNCHANGED gotVars \/ Hand(n, m, body)
    PROVE  AgeInv'
<1>1. PICK i \in Ids : i = Id(m) /\ (i \in Msgs => i = m)
  BY IdIsId, ClusterAssumption DEF Id
<1>2. Mark(n, i) /\ i \notin marked[n]
  BY <1>1
<1>3. /\ i \in marked'[n] /\ i \notin stale'[n]
      /\ stale'[n] \subseteq stale[n]
      /\ stale[n] \subseteq marked[n] => stale'[n] \subseteq marked'[n]
      /\ \A k \in marked[n] : k \in marked'[n] \/ k \in stale[n]
      /\ \A x \in Nodes \ {n} : marked'[x] = marked[x] /\ stale'[x] = stale[x]
  BY <1>2, Marked
<1>4. recent[n][i] = 0
  BY <1>1, <1>2 DEF AgeInv
<1>5. \A x \in Nodes, k \in Ids :
         \/ recent'[x][k] = recent[x][k]
         \/ x = n /\ k = i /\ recent'[x][k] = 1
  <2>1. CASE UNCHANGED gotVars
    BY <2>1 DEF gotVars
  <2>2. CASE Hand(n, m, body)
    <3>1. /\ \A x \in Nodes, k \in Ids : x # n \/ k # Id(m) => recent'[x][k] = recent[x][k]
          /\ recent'[n][Id(m)] = IF what[m].op = "raw" THEN recent[n][Id(m)]
                                 ELSE recent[n][Id(m)] + 1
      BY <2>2, Handed
    <3>2. recent'[n][i] = 0 \/ recent'[n][i] = 1
      BY <1>1, <1>4, <3>1
    <3> QED BY <1>1, <1>4, <3>1, <3>2
  <2> QED BY <2>1, <2>2
<1>6. stale[n] \subseteq marked[n]
  BY DEF AgeInv, HubInv
<1>7. marked'[n] \subseteq marked[n] \cup {i}
  BY <1>2 DEF Mark, HubInv
<1>8. \A x \in Nodes, k \in Ids : k \in stale'[x] => k \in stale[x] /\ k \in marked'[x]
  BY <1>3, <1>6 DEF AgeInv
<1>9. \A x \in Nodes, k \in Ids : k \in marked[x] => k \in marked'[x] \/ k \in stale[x]
  BY <1>3
<1>10. \A x \in Nodes, k \in Msgs :
          at'[k] = "idle" => at[k] = "idle" /\ (k \in marked'[x] => k \in marked[x])
  BY <1>1, <1>3, <1>7
<1>11. \A x \in Nodes, k \in Ids :
          \/ recent'[x][k] = recent[x][k]
          \/ /\ recent'[x][k] = 1 /\ k \notin stale'[x] /\ k \in marked'[x]
             /\ k \in Msgs => at'[k] # "idle"
  BY <1>1, <1>3, <1>5
<1> QED BY <1>8, <1>9, <1>10, <1>11, AgeStep

\* A call marks its id.
LEMMA AgeMarked ==
    ASSUME HubInv, AgeInv, UNCHANGED <<from, recent>>, NEW m \in Msgs, Mark(from[m], m),
           at[m] # "idle", at'[m] # "idle", \A k \in Msgs \ {m} : at'[k] = at[k]
    PROVE  AgeInv'
<1>1. from[m] \in Nodes /\ m \in Ids
  BY IdIsId DEF HubInv
<1>2. PICK n \in Nodes : n = from[m]
  BY <1>1
<1>3. /\ m \in marked'[n] /\ m \notin stale'[n]
      /\ stale'[n] \subseteq stale[n]
      /\ stale[n] \subseteq marked[n] => stale'[n] \subseteq marked'[n]
      /\ \A k \in marked[n] : k \in marked'[n] \/ k \in stale[n]
      /\ \A x \in Nodes \ {n} : marked'[x] = marked[x] /\ stale'[x] = stale[x]
  BY <1>1, <1>2, Marked
<1>4. stale[n] \subseteq marked[n]
  BY DEF AgeInv, HubInv
<1>5. marked'[n] \subseteq marked[n] \cup {m}
  BY <1>2 DEF Mark, HubInv
<1>6. \A x \in Nodes, k \in Ids : k \in stale'[x] => k \in stale[x] /\ k \in marked'[x]
  BY <1>3, <1>4 DEF AgeInv
<1>7. \A x \in Nodes, k \in Ids : k \in marked[x] => k \in marked'[x] \/ k \in stale[x]
  BY <1>3
<1>8. \A x \in Nodes, k \in Msgs :
         at'[k] = "idle" => at[k] = "idle" /\ (k \in marked'[x] => k \in marked[x])
  BY <1>3, <1>5
<1>9. \A k \in Msgs : at[k] = "mark" => at'[k] = "mark" \/ k \in marked'[from[k]]
  BY <1>2, <1>3
<1> QED BY <1>6, <1>7, <1>8, <1>9, AgeStep

\* Every step keeps what is said of the ids' age.
LEMMA NextAgeInv == ClusterInv /\ [Next]_vars => AgeInv'
<1> SUFFICES ASSUME ClusterInv, [Next]_vars PROVE AgeInv'
  OBVIOUS
<1>0. HubInv /\ WireInv /\ CallInv /\ AgeInv
  BY DEF ClusterInv, Typed
<1>t. /\ at \in [Msgs -> CallLabels] /\ from \in [Msgs -> Nodes]
      /\ what \in [Msgs -> [op : Ops, frame : Frames]]
      /\ "broadcast" \in Topics /\ "room" \in Topics
  BY <1>0 DEF HubInv, Topics
<1>1. ASSUME NEW n \in Nodes, NEW t \in Topics,
             \/ Check(n, t) \/ Try(n, t) \/ Backoff(n, t) \/ SeeDone(n, t)
             \/ SleepOver(n, t) \/ ChannelCloses(n, t) \/ Repeat(n, t)
      PROVE  AgeInv'
  BY <1>0, <1>1, AgeKept
  DEF Check, Try, Backoff, SeeDone, SleepOver, ChannelCloses, Repeat, LoopTo, callVars,
      gotVars
<1>2. ASSUME NEW n \in Nodes, BeginClose(n) \/ EndClose(n) PROVE AgeInv'
  BY <1>0, <1>2, AgeKept DEF BeginClose, EndClose, callVars, gotVars
<1>3. ASSUME NEW n \in Nodes, NEW i \in Ids, Age(n, i) PROVE AgeInv'
  <2>1. /\ i \in marked[n] /\ UNCHANGED <<at, from, marked>>
        /\ stale' = [stale EXCEPT ![n] = stale[n] \cup {i}]
        /\ recent' = [recent EXCEPT ![n][i] = 0]
    BY <1>3 DEF Age, callVars
  <2>2. /\ stale'[n] = stale[n] \cup {i}
        /\ \A x \in Nodes \ {n} : stale'[x] = stale[x]
        /\ recent'[n][i] = 0
        /\ \A x \in Nodes, k \in Ids : x # n \/ k # i => recent'[x][k] = recent[x][k]
    BY <1>0, <2>1 DEF HubInv
  <2> QED BY <1>0, <2>1, <2>2 DEF AgeInv
<1>4. ASSUME NEW n \in Nodes, HearBroadcast(n) PROVE AgeInv'
  <2> DEFINE e == Head(wire[n]["broadcast"])
  <2>1. /\ UNCHANGED <<rigid, callVars, sent>> /\ wire[n]["broadcast"] # << >>
        /\ wire' = [wire EXCEPT ![n]["broadcast"] = Tail(@)]
    BY <1>4 DEF HearBroadcast
  <2>2. e.msg \in Msgs /\ e \in sent["broadcast"]
    BY <1>0, <1>t, <2>1, WireRead DEF Entries
  <2>3. PICK m \in Msgs : m = e.msg /\ at[m] = "done"
    BY <1>0, <2>2 DEF CallInv
  <2>4. \/ what[m].op = "raw" /\ Hand(n, m, what[m].frame) /\ UNCHANGED markVars
        \/ UNCHANGED <<markVars, gotVars>>
        \/ /\ Id(m) \notin marked[n] /\ Mark(n, Id(m))
           /\ UNCHANGED gotVars \/ Hand(n, m, Decode(Encode(what[m].frame)))
    BY <1>4, <2>3 DEF HearBroadcast
  <2>5. what[m].frame \in Bodies /\ Decode(Encode(what[m].frame)) \in Bodies
    BY <1>t, CompactBody, DecodeEncode
  <2>6. UNCHANGED <<at, from>>
    BY <2>1 DEF callVars
  <2>7. CASE what[m].op = "raw" /\ Hand(n, m, what[m].frame) /\ UNCHANGED markVars
    <3>1. \A x \in Nodes, k \in Ids : recent'[x][k] = recent[x][k]
      BY <1>0, <2>5, <2>7, Handed
    <3> QED BY <1>0, <2>6, <2>7, <3>1, AgeStep DEF AgeInv, markVars
  <2>8. CASE UNCHANGED <<markVars, gotVars>>
    BY <1>0, <2>6, <2>8, AgeKept DEF gotVars
  <2>9. CASE /\ Id(m) \notin marked[n] /\ Mark(n, Id(m))
             /\ UNCHANGED gotVars \/ Hand(n, m, Decode(Encode(what[m].frame)))
    BY <1>0, <2>3, <2>5, <2>6, <2>9, AgeMarkedAndHanded
  <2> QED BY <2>4, <2>7, <2>8, <2>9
<1>5. ASSUME NEW n \in Nodes, HearRoom(n) PROVE AgeInv'
  <2> DEFINE e == Head(wire[n]["room"])
  <2>1. /\ UNCHANGED <<rigid, callVars, sent>> /\ wire[n]["room"] # << >>
        /\ wire' = [wire EXCEPT ![n]["room"] = Tail(@)]
    BY <1>5 DEF HearRoom
  <2>2. e.msg \in Msgs /\ e \in sent["room"]
    BY <1>0, <1>t, <2>1, WireRead DEF Entries
  <2>3. PICK m \in Msgs : m = e.msg
    BY <2>2
  <2>4. Id(m) = m /\ (e.part = "message" => at[m] \in {"ok", "error"})
    BY <1>0, <2>2, <2>3 DEF CallInv, Op, Id
  <2>5. \/ UNCHANGED <<markVars, gotVars>>
        \/ /\ e.part = "message" /\ e.msg \notin marked[n] /\ Mark(n, e.msg)
           /\ Hand(n, e.msg, Compact(what[e.msg].frame))
    BY <1>5 DEF HearRoom, RoomBroadcast
  <2>6. Compact(what[m].frame) \in Bodies
    BY <1>t, CompactBody
  <2>7. UNCHANGED <<at, from>>
    BY <2>1 DEF callVars
  <2>8. CASE UNCHANGED <<markVars, gotVars>>
    BY <1>0, <2>7, <2>8, AgeKept DEF gotVars
  <2>9. CASE /\ e.part = "message" /\ e.msg \notin marked[n] /\ Mark(n, e.msg)
             /\ Hand(n, e.msg, Compact(what[e.msg].frame))
    <3>1. Mark(n, m) /\ m \notin marked[n] /\ Hand(n, m, Compact(what[m].frame))
      BY <2>3, <2>9
    <3>2. at[m] \notin {"idle", "mark"}
      BY <2>4, <2>9
    <3>3. Mark(n, Id(m)) /\ Id(m) \notin marked[n]
      BY <2>4, <3>1
    <3> QED BY <1>0, <2>6, <2>7, <3>1, <3>2, <3>3, AgeMarkedAndHanded
  <2> QED BY <2>5, <2>8, <2>9
<1>6. ASSUME NEW m \in Msgs, Broadcast(m) PROVE AgeInv'
  <2>1. /\ at[m] = "idle" /\ what[m].op = "broadcast"
        /\ Hand(from[m], m, what[m].frame)
        /\ at' = [at EXCEPT ![m] = "mark"]
        /\ UNCHANGED <<from, marked, stale>>
    BY <1>6 DEF Broadcast, CallTo, markVars
  <2>2. /\ from[m] \in Nodes /\ what[m].frame \in Bodies /\ m \in Ids /\ Id(m) = m
        /\ at'[m] = "mark" /\ \A k \in Msgs \ {m} : at'[k] = at[k]
    BY <1>t, <2>1, CompactBody, IdIsId DEF Id
  <2>3. PICK n \in Nodes : n = from[m]
    BY <2>2
  <2>4. recent[n][m] = 0 /\ m \notin stale[n]
    BY <1>0, <2>1, <2>2 DEF AgeInv
  <2>5. /\ \A x \in Nodes, k \in Ids : x # n \/ k # m => recent'[x][k] = recent[x][k]
        /\ recent'[n][m] = recent[n][m] + 1
    BY <1>0, <2>1, <2>2, <2>3, Handed
  <2>6. \A x \in Nodes, k \in Ids :
           \/ recent'[x][k] = recent[x][k]
           \/ /\ recent'[x][k] = 1 /\ k \notin stale'[x]
              /\ k \in Msgs /\ at'[k] = "mark" /\ x = from[k]
    BY <2>1, <2>2, <2>3, <2>4, <2>5
  <2>7. \A x \in Nodes, k \in Ids : k \in stale'[x] => k \in stale[x] /\ k \in marked'[x]
    BY <1>0, <2>1 DEF AgeInv
  <2>8. /\ \A x \in Nodes, k \in Ids : k \in marked[x] => k \in marked'[x]
        /\ \A x \in Nodes, k \in Msgs :
              at'[k] = "idle" => at[k] = "idle" /\ (k \in marked'[x] => k \in marked[x])
        /\ \A k \in Msgs : at[k] = "mark" => at'[k] = "mark"
    BY <2>1, <2>2
  <2> QED BY <1>0, <2>1, <2>6, <2>7, <2>8, AgeStep
<1>7. ASSUME NEW m \in Msgs, MarkOwn(m) PROVE AgeInv'
  <2>1. /\ at[m] = "mark" /\ at' = [at EXCEPT ![m] = "publish"]
        /\ UNCHANGED <<from, recent>> /\ Mark(from[m], m)
    BY <1>7 DEF MarkOwn, CallTo, gotVars
  <2> QED BY <1>0, <1>t, <2>1, AgeMarked
<1>8. ASSUME NEW m \in Msgs, RmPrepare(m) PROVE AgeInv'
  <2>1. /\ at[m] = "lookup"
        /\ at' = [at EXCEPT ![m] = "refused"] \/ at' = [at EXCEPT ![m] = "publish"]
        /\ UNCHANGED <<from, recent>>
        /\ UNCHANGED markVars \/ Mark(from[m], m)
    BY <1>8 DEF RmPrepare, CallTo, gotVars
  <2>2. at'[m] \in {"refused", "publish"} /\ \A k \in Msgs \ {m} : at'[k] = at[k]
    BY <1>t, <2>1
  <2>3. CASE UNCHANGED markVars
    BY <1>0, <2>1, <2>2, <2>3, AgeKept
  <2>4. CASE Mark(from[m], m)
    BY <1>0, <2>1, <2>2, <2>4, AgeMarked
  <2> QED BY <2>1, <2>3, <2>4
<1>9. ASSUME NEW m \in Msgs,
             \/ Foreign(m) \/ PublishBroadcast(m) \/ BroadcastToRoom(m)
             \/ RmPublish(m)
      PROVE  AgeInv'
  <2>1. /\ UNCHANGED <<from, markVars, recent>>
        /\ at[m] \in {"idle", "publish"}
        /\ \E label \in CallLabels \ {"idle"} : at' = [at EXCEPT ![m] = label]
    BY <1>9 DEF Foreign, PublishBroadcast, BroadcastToRoom, RmPublish, CallTo, gotVars,
                CallLabels
  <2>2. /\ at'[m] # "idle" /\ \A k \in Msgs \ {m} : at'[k] = at[k]
    BY <1>t, <2>1
  <2> QED BY <1>0, <2>1, <2>2, AgeKept
<1>10. CASE UNCHANGED vars
  BY <1>0, <1>10, AgeKept DEF vars, markVars
<1> QED
  BY <1>1, <1>2, <1>3, <1>4, <1>5, <1>6, <1>7, <1>8, <1>9, <1>10
  DEF Next, Subscription, Hear, Call

-------------------------------------------------------------------------------
(* What is handed over                                                     *)

\* One body more is handed over, which is the frame if that survives.
LEMMA FrameHanded ==
    ASSUME HubInv, FrameInv, UNCHANGED what, NEW n \in Nodes, NEW m \in Msgs,
           NEW body \in Bodies, Hand(n, m, body),
           Op(m) = "broadcast" /\ what[m].frame \in Surviving
              => Compact(body) = Compact(what[m].frame)
    PROVE  FrameInv'
<1>1. got[n][m] \in Seq(Bodies)
  BY DEF HubInv
<1>2. /\ got'[n][m] = Append(got[n][m], body)
      /\ \A x \in Nodes, k \in Msgs : x # n \/ k # m => got'[x][k] = got[x][k]
  BY Handed
<1>3. /\ Len(got'[n][m]) = Len(got[n][m]) + 1
      /\ \A i \in 1 .. Len(got[n][m]) : got'[n][m][i] = got[n][m][i]
      /\ got'[n][m][Len(got[n][m]) + 1] = body
      /\ Len(got[n][m]) \in Nat
  BY <1>1, <1>2, AppendProperties
<1>4. \A k \in Msgs : Op(k)' = Op(k) /\ what'[k] = what[k]
  BY DEF Op
<1>5. ASSUME NEW x \in Nodes, NEW k \in Msgs, Op(k) = "broadcast",
             what[k].frame \in Surviving, NEW i \in 1 .. Len(got'[x][k])
      PROVE  Compact(got'[x][k][i]) = Compact(what[k].frame)
  <2>1. CASE x = n /\ k = m
    <3>1. CASE i \in 1 .. Len(got[n][m])
      BY <1>3, <1>5, <2>1, <3>1 DEF FrameInv
    <3>2. CASE i = Len(got[n][m]) + 1
      BY <1>3, <1>5, <2>1, <3>2
    <3> QED BY <1>3, <2>1, <3>1, <3>2
  <2>2. CASE x # n \/ k # m
    BY <1>2, <1>5, <2>2 DEF FrameInv
  <2> QED BY <2>1, <2>2
<1> QED BY <1>4, <1>5 DEF FrameInv

\* Every step keeps what is said of the frames handed over.
LEMMA NextFrameInv == ClusterInv /\ [Next]_vars => FrameInv'
<1> SUFFICES ASSUME ClusterInv, [Next]_vars PROVE FrameInv'
  OBVIOUS
<1>0. HubInv /\ WireInv /\ CallInv /\ FrameInv
  BY DEF ClusterInv, Typed
<1>t. /\ from \in [Msgs -> Nodes] /\ what \in [Msgs -> [op : Ops, frame : Frames]]
      /\ "broadcast" \in Topics /\ "room" \in Topics
  BY <1>0 DEF HubInv, Topics
<1>1. ASSUME UNCHANGED <<what, got>> PROVE FrameInv'
  BY <1>0, <1>1 DEF FrameInv, Op
<1>2. ASSUME NEW n \in Nodes, NEW t \in Topics,
             \/ Check(n, t) \/ Try(n, t) \/ Backoff(n, t) \/ SeeDone(n, t)
             \/ SleepOver(n, t) \/ ChannelCloses(n, t) \/ Repeat(n, t)
      PROVE  FrameInv'
  BY <1>1, <1>2 DEF Check, Try, Backoff, SeeDone, SleepOver, ChannelCloses, Repeat,
                    LoopTo, rigid, gotVars
<1>3. ASSUME NEW n \in Nodes, NEW i \in Ids, Age(n, i) PROVE FrameInv'
  BY <1>1, <1>3 DEF Age, rigid
<1>4. ASSUME NEW n \in Nodes, BeginClose(n) \/ EndClose(n) PROVE FrameInv'
  BY <1>1, <1>4 DEF BeginClose, EndClose, rigid, gotVars
<1>5. ASSUME NEW n \in Nodes, HearBroadcast(n) PROVE FrameInv'
  <2> DEFINE e == Head(wire[n]["broadcast"])
  <2>1. /\ UNCHANGED <<what, sent>> /\ wire[n]["broadcast"] # << >>
        /\ wire' = [wire EXCEPT ![n]["broadcast"] = Tail(@)]
    BY <1>5 DEF HearBroadcast, rigid
  <2>2. e.msg \in Msgs
    BY <1>0, <1>t, <2>1, WireRead DEF Entries
  <2>3. PICK m \in Msgs : m = e.msg
    BY <2>2
  <2>4. \/ what[m].op = "raw" /\ Hand(n, m, what[m].frame)
        \/ UNCHANGED gotVars
        \/ Hand(n, m, Decode(Encode(what[m].frame)))
    BY <1>5, <2>3 DEF HearBroadcast
  <2>5. /\ what[m].frame \in Bodies /\ Decode(Encode(what[m].frame)) \in Bodies
        /\ what[m].frame \in Surviving
              => Compact(Decode(Encode(what[m].frame))) = Compact(what[m].frame)
    BY <1>t, CompactBody, DecodeEncode
  <2> QED BY <1>0, <1>1, <2>1, <2>4, <2>5, FrameHanded DEF gotVars
<1>6. ASSUME NEW n \in Nodes, HearRoom(n) PROVE FrameInv'
  <2> DEFINE e == Head(wire[n]["room"])
  <2>1. /\ UNCHANGED <<what, sent>> /\ wire[n]["room"] # << >>
        /\ wire' = [wire EXCEPT ![n]["room"] = Tail(@)]
    BY <1>6 DEF HearRoom, rigid
  <2>2. e.msg \in Msgs /\ e \in sent["room"]
    BY <1>0, <1>t, <2>1, WireRead DEF Entries
  <2>3. PICK m \in Msgs : m = e.msg /\ Op(m) = "room"
    BY <1>0, <2>2 DEF CallInv
  <2>4. UNCHANGED gotVars \/ Hand(n, m, Compact(what[m].frame))
    BY <1>6, <2>3 DEF HearRoom, RoomBroadcast
  <2>5. Compact(what[m].frame) \in Bodies
    BY <1>t, CompactBody
  <2> QED BY <1>0, <1>1, <2>1, <2>3, <2>4, <2>5, FrameHanded DEF gotVars
<1>7. ASSUME NEW m \in Msgs, Broadcast(m) PROVE FrameInv'
  <2>1. Hand(from[m], m, what[m].frame) /\ UNCHANGED what
    BY <1>7 DEF Broadcast, CallTo, rigid
  <2>2. from[m] \in Nodes /\ what[m].frame \in Bodies
    BY <1>t, CompactBody
  <2> QED BY <1>0, <2>1, <2>2, FrameHanded
<1>8. ASSUME NEW m \in Msgs,
             \/ MarkOwn(m) \/ RmPrepare(m) \/ Foreign(m) \/ PublishBroadcast(m)
             \/ BroadcastToRoom(m) \/ RmPublish(m)
      PROVE  FrameInv'
  BY <1>1, <1>8 DEF MarkOwn, RmPrepare, Foreign, PublishBroadcast, BroadcastToRoom,
                    RmPublish, CallTo, rigid, gotVars
<1>9. CASE UNCHANGED vars
  BY <1>1, <1>9 DEF vars
<1> QED
  BY <1>2, <1>3, <1>4, <1>5, <1>6, <1>7, <1>8, <1>9
  DEF Next, Subscription, Hear, Call

\* The invariant is one.
LEMMA NextClusterInv == ClusterInv /\ [Next]_vars => ClusterInv'
  BY NextTyped, NextCallInv, NextAgeInv, NextFrameInv DEF ClusterInv

\* Within the TTL of its mark, a message is handed to a node's clients at most once,
\* whatever the bus loses, repeats or echoes, and of all the messages without an id a
\* node hands over one in that time (hub.go:139-175, 324-363, room.go:224-258,
\* dedup.go:68-113).
THEOREM HandedOncePerTTL == Safety => []OncePerTTL
<1>1. ClusterInv => OncePerTTL
  BY DEF ClusterInv, AgeInv, OncePerTTL
<1> QED BY InitClusterInv, NextClusterInv, <1>1, PTL DEF Safety

\* Clients of every node see a broadcast text as it was sent, and a JSON frame as an
\* equal value: what json.Marshal rewrites is its spelling (hub.go:351, 366-385,
\* 150-160).
THEOREM FramesSurvive == Safety => []RemoteSeesFrame
<1>1. ClusterInv => RemoteSeesFrame
  <2> SUFFICES ASSUME ClusterInv, NEW n \in Nodes, NEW m \in Msgs,
                      NEW i \in DOMAIN got[n][m], what[m].op = "broadcast",
                      what[m].frame \in {"text", "json", "loose"}
               PROVE  Compact(got[n][m][i]) = Compact(what[m].frame)
    BY DEF RemoteSeesFrame
  <2>1. HubInv /\ FrameInv
    BY DEF ClusterInv, Typed
  <2>2. got[n][m] \in Seq(Bodies)
    BY <2>1 DEF HubInv
  <2>3. i \in 1 .. Len(got[n][m])
    BY <2>2, LenProperties
  <2> QED BY <2>1, <2>3 DEF FrameInv, Op, Surviving
<1> QED BY InitClusterInv, NextClusterInv, <1>1, PTL DEF Safety
===============================================================================
