----------------------------- MODULE DedupProofs -----------------------------
(***************************************************************************)
(* Proofs about Dedup.tla, for any number of goroutines and messages, any  *)
(* ttl, cleanup gap and period.                                            *)
(***************************************************************************)
EXTENDS Dedup, TLAPS

\* Which message a goroutine works on.
WorkInv ==
    /\ \A p \in Procs : pc[p] # "idle" => msg[p] # Never
    /\ \A p \in Publishers : /\ pc[p] # "checked"
                             /\ msg[p] # Never => msg[p] \in 1..sequence
    /\ \A p \in Loops : pc[p] # "generated"
    /\ \A p, q \in Publishers : p # q /\ msg[p] # Never => msg[p] # msg[q]
    /\ \A p, q \in Loops : p # q /\ msg[p] # Never => msg[p] # msg[q]
    /\ \A p \in Loops : msg[p] # Never => msg[p] \in Remote \cup published
    /\ \A p \in Publishers : msg[p] \notin published
    /\ published \subseteq 1..sequence

\* What the cache knows: a mark is in it unless it is more than TTL old.
CacheInv ==
    /\ \A m \in Msgs : lastMark[m] # Never =>
           /\ lastMark[m] <= now
           /\ \/ cache[m] = lastMark[m]
              \/ cache[m] = Never /\ now - lastMark[m] > TTL
    /\ \A m \in Msgs : lastMark[m] = Never => cache[m] = Never
    /\ \A p \in Publishers : pc[p] = "generated" => lastMark[msg[p]] = Never
    /\ \A m \in Own : m > sequence => lastMark[m] = Never
    /\ \A p \in Loops : pc[p] = "checked" => cache[msg[p]] = Never

\* Who cleans up, and what is left to do.
CleanInv ==
    /\ \A p \in Procs : pc[p] \in {"locked", "stamp", "scan"} => cleanupMu = p
    /\ \A p \in Procs : pc[p] = "stamp" => now - lastCleanup >= Gap
    /\ \A p \in Procs : pc[p] = "scan" =>
           \A m \in Msgs \ toScan : cache[m] # Never => cutoff - cache[m] <= TTL

DedupInv == TypeOK /\ WorkInv /\ CacheInv /\ CleanInv

\* Never is no message, no time and no number.
LEMMA NeverIsNone == Never \notin Msgs /\ Never \notin Int /\ Own \subseteq Int
  BY DedupAssumption DEF Msgs, Own

\* The fresh deduplicator satisfies the invariant.
LEMMA InitDedupInv == Init => DedupInv
<1> SUFFICES ASSUME Init PROVE DedupInv
  OBVIOUS
<1> USE DedupAssumption, NeverIsNone DEF Init
<1>1. TypeOK
  BY DEF TypeOK, Label, Time
<1>2. WorkInv
  BY DEF WorkInv, Procs
<1>3. CacheInv
  BY DEF CacheInv, Procs, Msgs
<1>4. CleanInv
  BY DEF CleanInv
<1> QED BY <1>1, <1>2, <1>3, <1>4 DEF DedupInv

\* When a goroutine finishes, its message is published or forgotten.
LEMMA FinishWork ==
    ASSUME DedupInv, NEW p \in Procs, Finish(p), UNCHANGED sequence,
           pc[p] \notin {"idle", "generated", "checked"}
    PROVE  /\ WorkInv'
           /\ pc' \in [Procs -> Label] /\ msg' \in [Procs -> Msgs \cup {Never}]
           /\ published' \in SUBSET Own
           /\ pc'[p] = "idle" /\ \A q \in Procs : q # p => pc'[q] = pc[q]
           /\ \A q \in Procs : q # p => msg'[q] = msg[q]
<1> USE DedupAssumption, NeverIsNone DEF DedupInv, TypeOK, WorkInv, Label, Goto,
        Finish, Procs
<1>1. p \in Publishers => msg[p] \in 1..sequence /\ msg[p] \in Own
  BY DEF Own
<1>2. /\ pc' \in [Procs -> Label] /\ msg' \in [Procs -> Msgs \cup {Never}]
      /\ pc'[p] = "idle" /\ msg'[p] = Never
      /\ \A q \in Procs : q # p => pc'[q] = pc[q] /\ msg'[q] = msg[q]
  OBVIOUS
<1>3. published' \in SUBSET Own /\ published' \subseteq 1..sequence
      /\ published \subseteq published'
      /\ \A m \in published' \ published : p \in Publishers /\ m = msg[p]
  BY <1>1
<1> QED BY <1>1, <1>2, <1>3

\* Every step keeps the types.
LEMMA NextTypeOK == DedupInv /\ [Next]_vars => TypeOK'
<1> SUFFICES ASSUME DedupInv, [Next]_vars PROVE TypeOK'
  OBVIOUS
<1> USE DedupAssumption, NeverIsNone
    DEF DedupInv, TypeOK, WorkInv, Label, Time, Goto, Finish
<1>1. ASSUME NEW p \in Procs, GenerateID(p) PROVE TypeOK'
  <2>1. sequence + 1 \in Own /\ sequence + 1 \in Msgs
    BY <1>1 DEF GenerateID, Own, Msgs
  <2> QED BY <1>1, <2>1 DEF GenerateID
<1>2. ASSUME NEW p \in Procs, NEW m \in Msgs, IsNew(p, m) PROVE TypeOK'
  BY <1>2 DEF IsNew
<1>3. ASSUME NEW p \in Procs, MarkProcessed(p) PROVE TypeOK'
  BY <1>3 DEF MarkProcessed
<1>4. ASSUME NEW p \in Procs,
             NoCleanup(p) \/ TryLockFails(p) \/ TooSoon(p) \/ EndCleanup(p)
      PROVE  TypeOK'
  <2>1. /\ Finish(p) /\ UNCHANGED sequence
        /\ pc[p] \notin {"idle", "generated", "checked"}
    BY <1>4 DEF NoCleanup, TryLockFails, TooSoon, EndCleanup
  <2>2. /\ pc' \in [Procs -> Label] /\ msg' \in [Procs -> Msgs \cup {Never}]
        /\ published' \in SUBSET Own
    BY <2>1, FinishWork
  <2>3. /\ UNCHANGED <<cache, sequence, lastCleanup, cutoff, lastMark, now>>
        /\ cleanupMu' \in {cleanupMu, Never} /\ sinceTry' \in {sinceTry, 0}
        /\ toScan' = toScan
    BY <1>4 DEF NoCleanup, TryLockFails, TooSoon, EndCleanup
  <2> QED BY <2>2, <2>3
<1>5. ASSUME NEW p \in Procs, DropUnmarked(p) PROVE TypeOK'
  BY <1>5 DEF DropUnmarked
<1>6. ASSUME NEW p \in Procs, TryLock(p) PROVE TypeOK'
  BY <1>6 DEF TryLock
<1>11. ASSUME NEW p \in Procs, LongEnough(p) PROVE TypeOK'
  BY <1>11 DEF LongEnough
<1>7. ASSUME NEW p \in Procs, StampCleanup(p) PROVE TypeOK'
  BY <1>7 DEF StampCleanup
<1>8. ASSUME NEW p \in Procs, NEW m \in Msgs, ScanEntry(p, m) PROVE TypeOK'
  BY <1>8 DEF ScanEntry
<1>9. CASE Tick
  BY <1>9 DEF Tick
<1>10. CASE UNCHANGED vars
  BY <1>10 DEF vars
<1> QED
  BY <1>1, <1>2, <1>3, <1>4, <1>5, <1>6, <1>7, <1>8, <1>9, <1>10, <1>11
  DEF Next, CleanExpired

\* Every step keeps who works on what.
LEMMA NextWorkInv == DedupInv /\ [Next]_vars => WorkInv'
<1> SUFFICES ASSUME DedupInv, [Next]_vars PROVE WorkInv'
  OBVIOUS
<1> USE DedupAssumption, NeverIsNone
    DEF DedupInv, TypeOK, WorkInv, Label, Goto, Finish, Procs, Msgs, Own
<1>1. ASSUME NEW p \in Procs, GenerateID(p) PROVE WorkInv'
  BY <1>1 DEF GenerateID
<1>2. ASSUME NEW p \in Procs, NEW m \in Msgs, IsNew(p, m) PROVE WorkInv'
  BY <1>2 DEF IsNew
<1>3. ASSUME NEW p \in Procs, MarkProcessed(p) PROVE WorkInv'
  BY <1>3 DEF MarkProcessed
<1>4. ASSUME NEW p \in Procs,
             NoCleanup(p) \/ TryLockFails(p) \/ TooSoon(p) \/ EndCleanup(p)
      PROVE  WorkInv'
  <2>1. /\ Finish(p) /\ UNCHANGED sequence
        /\ pc[p] \notin {"idle", "generated", "checked"}
    BY <1>4 DEF NoCleanup, TryLockFails, TooSoon, EndCleanup
  <2> QED BY <2>1, FinishWork
<1>8. ASSUME NEW p \in Procs, DropUnmarked(p) PROVE WorkInv'
  BY <1>8 DEF DropUnmarked
<1>9. ASSUME NEW p \in Procs, TryLock(p) \/ LongEnough(p) \/ StampCleanup(p)
      PROVE WorkInv'
  <2>1. /\ pc[p] \in {"marked", "locked", "stamp"}
        /\ \E l \in {"locked", "stamp", "scan"} : pc' = [pc EXCEPT ![p] = l]
        /\ UNCHANGED <<msg, sequence, published>>
    BY <1>9 DEF TryLock, LongEnough, StampCleanup
  <2> QED BY <2>1
<1>10. ASSUME NEW p \in Procs, NEW m \in Msgs, ScanEntry(p, m) PROVE WorkInv'
  BY <1>10 DEF ScanEntry
<1>11. CASE Tick
  BY <1>11 DEF Tick
<1>12. CASE UNCHANGED vars
  BY <1>12 DEF vars
<1> QED
  BY <1>1, <1>2, <1>3, <1>4, <1>8, <1>9, <1>10, <1>11, <1>12
  DEF Next, CleanExpired

\* Every step keeps what the cache knows.
LEMMA NextCacheInv == DedupInv /\ [Next]_vars => CacheInv'
<1> SUFFICES ASSUME DedupInv, [Next]_vars PROVE CacheInv'
  OBVIOUS
<1> USE DedupAssumption, NeverIsNone
    DEF DedupInv, TypeOK, CacheInv, Time, Goto
<1>1. ASSUME NEW p \in Procs, GenerateID(p) PROVE CacheInv'
  BY <1>1 DEF GenerateID, WorkInv, Procs, Own, Msgs
<1>2. ASSUME NEW p \in Procs, NEW m \in Msgs, IsNew(p, m) PROVE CacheInv'
  BY <1>2 DEF IsNew, Procs
<1>3. ASSUME NEW p \in Procs, MarkProcessed(p) PROVE CacheInv'
  <2>1. /\ msg[p] \in Msgs
        /\ cache' = [cache EXCEPT ![msg[p]] = now]
        /\ lastMark' = [lastMark EXCEPT ![msg[p]] = now]
        /\ pc' = [pc EXCEPT ![p] = "marked"]
        /\ UNCHANGED <<msg, sequence, published, now>>
    BY <1>3 DEF MarkProcessed, WorkInv
  <2>2. msg[p] \in Own => msg[p] <= sequence
    BY <1>3 DEF MarkProcessed, WorkInv, Procs, Own
  <2>3. \A q \in Publishers : q # p => msg[q] # msg[p] \/ msg[q] = Never
    BY <1>3 DEF MarkProcessed, WorkInv, Procs, Own
  <2>4. \A q \in Loops : q # p /\ pc[q] = "checked" => msg[q] # msg[p]
    BY <1>3 DEF MarkProcessed, WorkInv, Procs, Own
  <2>5. \A q \in Procs : pc[q] # "idle" => msg[q] \in Msgs
    BY DEF WorkInv
  <2>6. /\ \A m \in Msgs : lastMark'[m] # Never =>
              /\ lastMark'[m] <= now'
              /\ \/ cache'[m] = lastMark'[m]
                 \/ cache'[m] = Never /\ now' - lastMark'[m] > TTL
        /\ \A m \in Msgs : lastMark'[m] = Never => cache'[m] = Never
    <3>1. cache'[msg[p]] = now /\ lastMark'[msg[p]] = now /\ now # Never
      BY <2>1
    <3>2. \A m \in Msgs : m # msg[p] => /\ cache'[m] = cache[m]
                                        /\ lastMark'[m] = lastMark[m]
      BY <2>1
    <3>3. now \in Int /\ now' = now
      BY <2>1
    <3>4. ASSUME NEW m \in Msgs, lastMark'[m] # Never
          PROVE  /\ lastMark'[m] <= now'
                 /\ \/ cache'[m] = lastMark'[m]
                    \/ cache'[m] = Never /\ now' - lastMark'[m] > TTL
      <4>1. CASE m = msg[p]
        <5>1. lastMark'[m] = now /\ cache'[m] = now
          BY <3>1, <4>1
        <5>2. now <= now'
          BY <3>3
        <5> QED BY <5>1, <5>2
      <4>2. CASE m # msg[p]
        BY <3>2, <3>3, <3>4, <4>2
      <4> QED BY <4>1, <4>2
    <3>5. \A m \in Msgs : lastMark'[m] = Never => cache'[m] = Never
      BY <3>1, <3>2
    <3> QED BY <3>4, <3>5
  <2>7. \A q \in Publishers : pc'[q] = "generated" => lastMark'[msg'[q]] = Never
    BY <2>1, <2>3, <2>5 DEF Procs
  <2>8. \A m \in Own : m > sequence' => lastMark'[m] = Never
    BY <2>1, <2>2 DEF Msgs, Own
  <2>9. \A q \in Loops : pc'[q] = "checked" => cache'[msg'[q]] = Never
    BY <2>1, <2>4, <2>5 DEF Procs
  <2> QED BY <2>6, <2>7, <2>8, <2>9
<1>4. ASSUME NEW p \in Procs,
             NoCleanup(p) \/ TryLockFails(p) \/ TooSoon(p) \/ EndCleanup(p)
      PROVE  CacheInv'
  <2>1. /\ Finish(p) /\ UNCHANGED <<sequence, cache, lastMark, now>>
        /\ pc[p] \notin {"idle", "generated", "checked"}
    BY <1>4 DEF NoCleanup, TryLockFails, TooSoon, EndCleanup
  <2>2. /\ pc'[p] = "idle" /\ \A q \in Procs : q # p => pc'[q] = pc[q]
        /\ \A q \in Procs : q # p => msg'[q] = msg[q]
    BY <2>1, FinishWork
  <2> QED BY <2>1, <2>2 DEF Procs
<1>5. ASSUME NEW p \in Procs, DropUnmarked(p) PROVE CacheInv'
  BY <1>5 DEF DropUnmarked, Procs
<1>6. ASSUME NEW p \in Procs, TryLock(p) \/ LongEnough(p) \/ StampCleanup(p)
      PROVE  CacheInv'
  <2>1. /\ \E l \in {"locked", "stamp", "scan"} : pc' = [pc EXCEPT ![p] = l]
        /\ UNCHANGED <<msg, sequence, cache, lastMark, now>>
    BY <1>6 DEF TryLock, LongEnough, StampCleanup
  <2> QED BY <2>1 DEF Procs
<1>7. ASSUME NEW p \in Procs, NEW m \in Msgs, ScanEntry(p, m) PROVE CacheInv'
  <2>1. CASE cache' = cache
    BY <1>7, <2>1 DEF ScanEntry
  <2>2. CASE cache[m] # Never /\ Expired(m) /\ cache' = [cache EXCEPT ![m] = Never]
    <3>1. cache[m] = lastMark[m] /\ now - lastMark[m] > TTL
      BY <2>2 DEF Expired
    <3> QED BY <1>7, <2>2, <3>1 DEF ScanEntry
  <2> QED BY <1>7, <2>1, <2>2 DEF ScanEntry
<1>8. CASE Tick
  BY <1>8 DEF Tick
<1>9. CASE UNCHANGED vars
  BY <1>9 DEF vars
<1> QED
  BY <1>1, <1>2, <1>3, <1>4, <1>5, <1>6, <1>7, <1>8, <1>9
  DEF Next, CleanExpired

\* Every step keeps the cleanup's bookkeeping.
LEMMA NextCleanInv == DedupInv /\ [Next]_vars => CleanInv'
<1> SUFFICES ASSUME DedupInv, [Next]_vars PROVE CleanInv'
  OBVIOUS
<1> USE DedupAssumption, NeverIsNone
    DEF DedupInv, TypeOK, CleanInv, Label, Time, Goto
<1>1. ASSUME NEW p \in Procs, NEW l \in {"generated", "checked", "idle", "marked"},
             pc' = [pc EXCEPT ![p] = l],
             UNCHANGED <<cache, cleanupMu, lastCleanup, cutoff, toScan, now>>
      PROVE  CleanInv'
  BY <1>1
<1>2. ASSUME NEW p \in Procs, MarkProcessed(p) PROVE CleanInv'
  <2>1. /\ msg[p] \in Msgs
        /\ cache' = [cache EXCEPT ![msg[p]] = now]
        /\ pc' = [pc EXCEPT ![p] = "marked"]
        /\ UNCHANGED <<cleanupMu, lastCleanup, cutoff, toScan, now>>
    BY <1>2 DEF MarkProcessed, WorkInv
  <2>2. \A m \in Msgs : cache'[m] = cache[m] \/ cache'[m] = now
    BY <2>1
  <2>3. \A q \in Procs : pc'[q] \in {"locked", "stamp", "scan"} => pc'[q] = pc[q]
    BY <2>1
  <2>4. cutoff - now <= TTL
    OBVIOUS
  <2> QED BY <2>1, <2>2, <2>3, <2>4
<1>3. ASSUME NEW p \in Procs,
             GenerateID(p) \/ DropUnmarked(p) \/ NoCleanup(p) \/ TryLockFails(p)
      PROVE  CleanInv'
  BY <1>1, <1>3 DEF GenerateID, DropUnmarked, NoCleanup, TryLockFails, Finish
<1>4. ASSUME NEW p \in Procs, NEW m \in Msgs, IsNew(p, m) PROVE CleanInv'
  BY <1>1, <1>4 DEF IsNew
<1>5. ASSUME NEW p \in Procs, TooSoon(p) \/ EndCleanup(p) PROVE CleanInv'
  <2>1. /\ pc[p] \in {"locked", "scan"} /\ pc' = [pc EXCEPT ![p] = "idle"]
        /\ cleanupMu' = Never
        /\ UNCHANGED <<cache, lastCleanup, cutoff, toScan, now>>
    BY <1>5 DEF TooSoon, EndCleanup, Finish
  <2>2. \A q \in Procs : q # p => pc'[q] \notin {"locked", "stamp", "scan"}
    BY <2>1
  <2> QED BY <2>1, <2>2
<1>6. ASSUME NEW p \in Procs, TryLock(p) PROVE CleanInv'
  <2>1. \A q \in Procs : pc[q] \notin {"locked", "stamp", "scan"}
    BY <1>6 DEF TryLock
  <2> QED BY <1>6, <2>1 DEF TryLock
<1>7. ASSUME NEW p \in Procs, LongEnough(p) PROVE CleanInv'
  BY <1>7 DEF LongEnough
<1>8. ASSUME NEW p \in Procs, StampCleanup(p) PROVE CleanInv'
  <2>1. \A q \in Procs : q # p => pc[q] \notin {"locked", "stamp", "scan"}
    BY <1>8 DEF StampCleanup
  <2> QED BY <1>8, <2>1 DEF StampCleanup
<1>9. ASSUME NEW p \in Procs, NEW m \in Msgs, ScanEntry(p, m) PROVE CleanInv'
  <2>1. UNCHANGED <<pc, cleanupMu, lastCleanup, cutoff, now>>
        /\ toScan' = toScan \ {m}
    BY <1>9 DEF ScanEntry
  <2>2. \A n \in Msgs : cache'[n] = cache[n] \/ cache'[n] = Never
    BY <1>9 DEF ScanEntry
  <2>3. cache'[m] # Never => cutoff - cache'[m] <= TTL
    BY <1>9 DEF ScanEntry, Expired
  <2> QED BY <2>1, <2>2, <2>3
<1>10. CASE Tick
  BY <1>10 DEF Tick
<1>11. CASE UNCHANGED vars
  BY <1>11 DEF vars
<1> QED
  BY <1>2, <1>3, <1>4, <1>5, <1>6, <1>7, <1>8, <1>9, <1>10, <1>11
  DEF Next, CleanExpired

\* The deduplicator's invariant holds throughout.
LEMMA Invariance == Spec => []DedupInv
<1>1. DedupInv /\ [Next]_vars => DedupInv'
  BY NextTypeOK, NextWorkInv, NextCacheInv, NextCleanInv DEF DedupInv
<1> QED BY InitDedupInv, <1>1, PTL DEF Spec

\* Every variable of the deduplicator keeps its type.
THEOREM DedupTypeCorrect == Spec => []TypeOK
<1>1. DedupInv => TypeOK
  BY DEF DedupInv
<1> QED BY Invariance, <1>1, PTL

\* A node marks, and so delivers, one message twice only when more than TTL lies
\* between the two, for any number of publishers, loops and deliveries.
THEOREM MarkedAtMostOncePerTTL == Spec => AtMostOncePerTTL
<1>1. DedupInv /\ [Next]_vars =>
        [\A p \in Procs :
            pc[p] \in {"generated", "checked"} /\ pc'[p] = "marked"
               /\ lastMark[msg[p]] # Never
             => now - lastMark[msg[p]] > TTL]_vars
  <2> SUFFICES ASSUME DedupInv, NEW p \in Procs,
                      pc[p] \in {"generated", "checked"}, lastMark[msg[p]] # Never
               PROVE  now - lastMark[msg[p]] > TTL
    OBVIOUS
  <2>1. msg[p] \in Msgs
    BY DEF DedupInv, TypeOK, WorkInv
  <2>2. p \in Loops /\ pc[p] = "checked"
    BY DEF DedupInv, WorkInv, CacheInv, Procs
  <2>3. cache[msg[p]] = Never
    BY <2>2 DEF DedupInv, CacheInv
  <2> QED BY <2>1, <2>3 DEF DedupInv, CacheInv
<1> QED BY Invariance, <1>1, PTL DEF Spec, AtMostOncePerTTL

\* No two cleanups begin less than Gap apart.
THEOREM CleanupsAreApart == Spec => CleanupsApart
<1>1. DedupInv /\ [Next]_vars =>
        [lastCleanup' # lastCleanup => lastCleanup' - lastCleanup >= Gap]_vars
  <2> SUFFICES ASSUME DedupInv, [Next]_vars, lastCleanup' # lastCleanup
               PROVE  lastCleanup' - lastCleanup >= Gap
    OBVIOUS
  <2>1. PICK p \in Procs : StampCleanup(p)
    BY DEF Next, CleanExpired, GenerateID, MarkProcessed, NoCleanup, DropUnmarked,
           IsNew, TryLockFails, TryLock, TooSoon, LongEnough, EndCleanup,
           ScanEntry, Tick, vars
  <2> QED BY <2>1 DEF StampCleanup, DedupInv, CleanInv
<1> QED BY Invariance, <1>1, PTL DEF Spec, CleanupsApart

\* A cleanup that ends leaves no entry that had expired when it began.
THEOREM CleanupCompletes == Spec => CleanupIsComplete
<1>1. DedupInv /\ [Next]_vars =>
        [\A p \in Procs :
            pc[p] = "scan" /\ pc'[p] = "idle"
              => \A m \in Msgs : cache[m] # Never => cutoff - cache[m] <= TTL]_vars
  <2> SUFFICES ASSUME DedupInv, [Next]_vars, NEW p \in Procs,
                      pc[p] = "scan", pc'[p] = "idle"
               PROVE  \A m \in Msgs : cache[m] # Never => cutoff - cache[m] <= TTL
    OBVIOUS
  <2>1. \A q \in Procs : q # p => pc[q] # "scan"
    BY DEF DedupInv, CleanInv
  <2>2. pc \in [Procs -> Label]
    BY DEF DedupInv, TypeOK
  <2>3. EndCleanup(p)
    BY <2>1, <2>2
    DEF Next, CleanExpired, GenerateID, MarkProcessed, NoCleanup, DropUnmarked,
        IsNew, TryLockFails, TryLock, TooSoon, LongEnough, StampCleanup,
        EndCleanup, ScanEntry, Tick, vars, Finish, Goto
  <2> QED BY <2>3 DEF EndCleanup, DedupInv, CleanInv
<1> QED BY Invariance, <1>1, PTL DEF Spec, CleanupIsComplete
===============================================================================
