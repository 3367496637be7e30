-------------------------------- MODULE Dedup --------------------------------
(***************************************************************************)
(* The message deduplicator of one hub (pkg/hub/dedup.go) under the        *)
(* goroutines that share it: the publishers of Hub.Broadcast and           *)
(* RoomManager.BroadcastToRoom, and the two loops that handle messages     *)
(* from the bus, one for the broadcast topic and one for the room topics.  *)
(*                                                                         *)
(* The bus may deliver a message any number of times, at any time, own     *)
(* messages included.  Delivering to the local clients neither blocks nor  *)
(* touches the deduplicator, so it is one action with MarkProcessed.       *)
(*                                                                         *)
(* pc: idle -> generated -> (marked) for a publisher, idle -> checked ->   *)
(* (marked) for a loop, and marked -> locked -> stamp -> scan -> idle      *)
(* through cleanExpired for both.                                          *)
(***************************************************************************)
EXTENDS Integers, FiniteSets

CONSTANTS Publishers,  \* goroutines that publish
          Loops,       \* goroutines that handle messages from the bus
          RoomLoops,   \* those of them that handle the room topics
          Remote,      \* messages of other nodes
          Never,       \* no message / no time
          TTL,         \* ttl
          Gap,         \* the minute between two cleanups
          Period,      \* the 100 of sequence % 100
          MaxTime,     \* bound: the clock
          MaxOwn       \* bound: messages this node publishes

Procs == Publishers \cup Loops

ASSUME DedupAssumption == /\ TTL \in Nat \ {0} /\ Gap \in Nat /\ Period \in Nat \ {0}
                          /\ MaxTime \in Nat /\ MaxOwn \in Nat
                          /\ Publishers \cap Loops = {}
                          /\ RoomLoops \subseteq Loops
                          /\ Remote \cap (1..MaxOwn) = {}
                          /\ Never \notin Procs \cup Remote \cup Int

Own   == 1..MaxOwn        \* an own message is its sequence number
Msgs  == Remote \cup Own

VARIABLES pc,           \* where each goroutine is
          msg,          \* the message it works on
          cache,        \* message -> when it was marked, or Never
          sequence,     \* number of ids generated
          cleanupMu,    \* the goroutine that holds the cleanup lock, or Never
          lastCleanup,  \* when the last cleanup began
          cutoff,       \* `now` of the cleanup under way
          toScan,       \* messages its Range has not visited
          published,    \* own messages handed to the bus
          lastMark,     \* history: when each message was last marked
          sinceTry,     \* history: marks since a cleanup was last tried
          now           \* the clock

vars == <<pc, msg, cache, sequence, cleanupMu, lastCleanup, cutoff, toScan,
          published, lastMark, sinceTry, now>>

Init == /\ pc = [p \in Procs |-> "idle"]
        /\ msg = [p \in Procs |-> Never]
        /\ cache = [m \in Msgs |-> Never]
        /\ sequence = 0
        /\ cleanupMu = Never /\ lastCleanup = 0 /\ cutoff = 0 /\ toScan = {}
        /\ published = {}
        /\ lastMark = [m \in Msgs |-> Never]
        /\ sinceTry = 0
        /\ now = 0

Goto(p, label) == pc' = [pc EXCEPT ![p] = label]

-------------------------------------------------------------------------------
(* Publishing and receiving                                                *)

\* GenerateID: the atomic counter makes own ids distinct.
GenerateID(p) ==
    /\ p \in Publishers /\ pc[p] = "idle" /\ sequence < MaxOwn
    /\ sequence' = sequence + 1
    /\ msg' = [msg EXCEPT ![p] = sequence + 1]
    /\ Goto(p, "generated")
    /\ UNCHANGED <<cache, cleanupMu, lastCleanup, cutoff, toScan, published,
                   lastMark, sinceTry, now>>

\* The loop takes a message from the bus and IsDuplicate says no.  A loop of
\* each topic handles one message at a time; a message has one topic.
IsNew(p, m) ==
    /\ p \in Loops /\ pc[p] = "idle"
    /\ m \in Remote \/ m \in published
    /\ \A q \in Loops : msg[q] # m
    /\ cache[m] = Never
    /\ msg' = [msg EXCEPT ![p] = m]
    /\ Goto(p, "checked")
    /\ UNCHANGED <<cache, sequence, cleanupMu, lastCleanup, cutoff, toScan,
                   published, lastMark, sinceTry, now>>

MarkExpiry(p) ==
    /\ pc[p] \in {"generated", "checked"}
    /\ cache' = [cache EXCEPT ![msg[p]] = now + TTL]
    /\ lastMark' = [lastMark EXCEPT ![msg[p]] = now]
    /\ sinceTry' = sinceTry + 1
    /\ Goto(p, "marked")
    /\ UNCHANGED <<msg, sequence, cleanupMu, lastCleanup, cutoff, toScan,
                   published, now>>

\* MarkProcessed stores the time; a loop also delivers the message.
MarkProcessed(p) ==
    /\ pc[p] \in {"generated", "checked"}
    /\ cache' = [cache EXCEPT ![msg[p]] = now]
    /\ lastMark' = [lastMark EXCEPT ![msg[p]] = now]
    /\ sinceTry' = sinceTry + 1
    /\ Goto(p, "marked")
    /\ UNCHANGED <<msg, sequence, cleanupMu, lastCleanup, cutoff, toScan,
                   published, now>>

\* The room loop drops a message for a room it does not have, or of another
\* type, without marking it.
DropUnmarked(p) ==
    /\ p \in RoomLoops /\ pc[p] = "checked"
    /\ Goto(p, "idle")
    /\ msg' = [msg EXCEPT ![p] = Never]
    /\ UNCHANGED <<cache, sequence, cleanupMu, lastCleanup, cutoff, toScan,
                   published, lastMark, sinceTry, now>>

\* What the goroutine does once MarkProcessed has returned: a publisher hands
\* the message to the bus, a loop takes the next one.
Finish(p) == /\ Goto(p, "idle")
             /\ msg' = [msg EXCEPT ![p] = Never]
             /\ published' = IF p \in Publishers THEN published \cup {msg[p]}
                                                 ELSE published

\* sequence % 100 # 0: no cleanup is tried.
NoCleanup(p) ==
    /\ pc[p] = "marked" /\ sequence % Period # 0
    /\ Finish(p)
    /\ UNCHANGED <<cache, sequence, cleanupMu, lastCleanup, cutoff, toScan,
                   lastMark, sinceTry, now>>

-------------------------------------------------------------------------------
(* cleanExpired                                                            *)

\* cleanupMu.TryLock fails: someone else is cleaning up.
TryLockFails(p) ==
    /\ pc[p] = "marked" /\ sequence % Period = 0 /\ cleanupMu # Never
    /\ sinceTry' = 0
    /\ Finish(p)
    /\ UNCHANGED <<cache, sequence, cleanupMu, lastCleanup, cutoff, toScan,
                   lastMark, now>>

CleanWithoutLock(p) ==
    /\ pc[p] = "marked" /\ sequence % Period = 0
    /\ cleanupMu' = p
    /\ sinceTry' = 0
    /\ Goto(p, "locked")
    /\ UNCHANGED <<msg, cache, sequence, lastCleanup, cutoff, toScan, published,
                   lastMark, now>>

\* cleanupMu.TryLock succeeds.
TryLock(p) ==
    /\ pc[p] = "marked" /\ sequence % Period = 0 /\ cleanupMu = Never
    /\ cleanupMu' = p
    /\ sinceTry' = 0
    /\ Goto(p, "locked")
    /\ UNCHANGED <<msg, cache, sequence, lastCleanup, cutoff, toScan, published,
                   lastMark, now>>

\* Less than a minute since the last cleanup: unlock and return.
TooSoon(p) ==
    /\ pc[p] = "locked" /\ now - lastCleanup < Gap
    /\ cleanupMu' = Never
    /\ Finish(p)
    /\ UNCHANGED <<cache, sequence, lastCleanup, cutoff, toScan, lastMark,
                   sinceTry, now>>

\* The check is passed ...
LongEnough(p) ==
    /\ pc[p] = "locked" /\ now - lastCleanup >= Gap
    /\ Goto(p, "stamp")
    /\ UNCHANGED <<msg, cache, sequence, cleanupMu, lastCleanup, cutoff, toScan,
                   published, lastMark, sinceTry, now>>

\* ... and the clock is read again for the cutoff; Range begins.
StampCleanup(p) ==
    /\ pc[p] = "stamp"
    /\ cutoff' = now
    /\ lastCleanup' = now
    /\ toScan' = {m \in Msgs : cache[m] # Never}
    /\ Goto(p, "scan")
    /\ UNCHANGED <<msg, cache, sequence, cleanupMu, published, lastMark,
                   sinceTry, now>>

ExpiredOrOnTime(m) == cutoff - cache[m] >= TTL
Expired(m) == cutoff - cache[m] > TTL

\* Range visits one entry and deletes it if it has expired.
ScanEntry(p, m) ==
    /\ pc[p] = "scan" /\ m \in toScan
    /\ toScan' = toScan \ {m}
    /\ cache' = IF cache[m] # Never /\ Expired(m)
                THEN [cache EXCEPT ![m] = Never] ELSE cache
    /\ UNCHANGED <<pc, msg, sequence, cleanupMu, lastCleanup, cutoff, published,
                   lastMark, sinceTry, now>>

StopAtFirst(p) ==
    /\ pc[p] = "scan"
    /\ cleanupMu' = Never /\ toScan' = {}
    /\ Finish(p)
    /\ UNCHANGED <<cache, sequence, lastCleanup, cutoff, lastMark, sinceTry, now>>

\* Range is over: unlock and return.
EndCleanup(p) ==
    /\ pc[p] = "scan" /\ toScan = {}
    /\ cleanupMu' = Never
    /\ Finish(p)
    /\ UNCHANGED <<cache, sequence, lastCleanup, cutoff, toScan, lastMark,
                   sinceTry, now>>

-------------------------------------------------------------------------------
Tick == /\ now < MaxTime
        /\ now' = now + 1
        /\ UNCHANGED <<pc, msg, cache, sequence, cleanupMu, lastCleanup, cutoff,
                       toScan, published, lastMark, sinceTry>>

CleanExpired(p) == \/ TryLockFails(p) \/ TryLock(p) \/ TooSoon(p) \/ LongEnough(p)
                   \/ StampCleanup(p) \/ EndCleanup(p)
                   \/ \E m \in Msgs : ScanEntry(p, m)

Next == \/ \E p \in Procs : \/ GenerateID(p) \/ MarkProcessed(p) \/ NoCleanup(p)
                            \/ DropUnmarked(p)
                            \/ CleanExpired(p)
                            \/ \E m \in Msgs : IsNew(p, m)
        \/ Tick

Spec == Init /\ [][Next]_vars

-------------------------------------------------------------------------------
(* Properties                                                              *)

Label == {"idle", "generated", "checked", "marked", "locked", "stamp", "scan"}
Time  == 0..MaxTime

\* Every variable has its type; no cleanup was stamped in the future.
TypeOK ==
    /\ pc \in [Procs -> Label]
    /\ msg \in [Procs -> Msgs \cup {Never}]
    /\ cache \in [Msgs -> Time \cup {Never}]
    /\ sequence \in 0..MaxOwn
    /\ cleanupMu \in Procs \cup {Never}
    /\ lastCleanup \in 0..now /\ cutoff \in 0..now
    /\ toScan \in SUBSET Msgs
    /\ published \in SUBSET Own
    /\ lastMark \in [Msgs -> Time \cup {Never}]
    /\ sinceTry \in Nat
    /\ now \in Time

\* However often the bus delivers a message and however processing and cleanup
\* interleave, a node accepts it again only when more than TTL has passed since
\* it was last marked; an own message counts as accepted when it is published,
\* so its echo is dropped (dedup.go:68-81, 100-112; hub.go:146-152, 348-349).
AtMostOncePerTTL ==
    [][\A p \in Procs :
          pc[p] \in {"generated", "checked"} /\ pc'[p] = "marked"
              /\ lastMark[msg[p]] # Never
            => now - lastMark[msg[p]] > TTL]_vars

\* Two cleanups begin at least a minute apart although the check and the stamp
\* are separate steps (dedup.go:84-97).
CleanupsApart == [][lastCleanup' # lastCleanup
                      => lastCleanup' - lastCleanup >= Gap]_vars

\* A cleanup that ends leaves no entry behind that had expired when it began,
\* whatever was marked while it ran (dedup.go:99-112).
CleanupIsComplete ==
    [][\A p \in Procs :
          pc[p] = "scan" /\ pc'[p] = "idle"
            => \A m \in Msgs : cache[m] # Never => cutoff - cache[m] <= TTL]_vars
===============================================================================
