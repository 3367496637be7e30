----------------------------- MODULE ClientProofs -----------------------------
(***************************************************************************)
(* Proofs about Client.tla, for every set of senders and closers and every *)
(* buffer capacity.                                                        *)
(***************************************************************************)
EXTENDS Client, SequenceTheorems, TLAPS

\* What the writeLoop holds is determined by where it is.
WriterInv ==
    /\ pc[Writer] = "select" => hand = NoFrame
    /\ pc[Writer] = "write" => hand \in Frame
    /\ pc[Writer] = "ack" => /\ reply.to \in Frame /\ reply.to.ack
                             /\ ~reply.err => hand = NoFrame

TypeInv == PcOK /\ FramesOK /\ FlagsOK /\ WriterInv

\* The answers the writeLoop builds are answers.
LEMMA ReplyType ==
    /\ NoReply \in Reply
    /\ \A f \in Frame, b \in BOOLEAN : [to |-> f, err |-> b] \in Reply
  BY DEF NoReply, Reply

\* Initially every variable has its type and the writer holds nothing.
LEMMA InitTypeInv == Init => TypeInv
<1> SUFFICES ASSUME Init PROVE TypeInv
  OBVIOUS
<1> USE ClientAssumption DEF Init
<1>1. PcOK
  BY DEF PcOK, Procs, Label, ShutdownLabel
<1>2. FramesOK
  BY ReplyType DEF FramesOK
<1>3. FlagsOK
  BY DEF FlagsOK
<1>4. WriterInv
  BY DEF WriterInv, Procs
<1> QED BY <1>1, <1>2, <1>3, <1>4 DEF TypeInv

\* What Send puts into the channel is a frame.
LEMMA AcceptedIsFrame ==
    ASSUME FramesOK, NEW s \in Callers, NEW ack \in BOOLEAN, SendAccept(s, ack)
    PROVE  \E f \in Frame : out' = Append(out, f) /\ accepted' = Append(accepted, f)
<1> DEFINE f == [from |-> s, n |-> sends[s] + 1, ack |-> ack]
<1>1. sends[s] + 1 \in 1..MaxSends /\ (ack => s \in Senders)
  BY ClientAssumption DEF FramesOK, SendAccept, MaySend
<1>2. f \in Frame
  BY <1>1 DEF Frame
<1>3. out' = Append(out, f) /\ accepted' = Append(accepted, f)
  BY DEF SendAccept
<1> QED BY <1>2, <1>3

\* A goroutine that moves inside shutdown() keeps the labels typed.
LEMMA ShutdownPc ==
    ASSUME PcOK, NEW p \in Procs, Shutdown(p)
    PROVE  /\ p \notin Senders
           /\ \A q \in Procs : q # p => pc'[q] = pc[q]
           /\ pc[p] \in {"exit", "onclose", "close"}
           /\ pc'[p] \in {"onclose", "close", "gone"}
           /\ PcOK'
<1> USE ClientAssumption DEF Procs, Label, ShutdownLabel, PcOK
<1>1. /\ pc[p] \in {"exit", "onclose", "close"}
      /\ \E l \in {"onclose", "close", "gone"} : pc' = [pc EXCEPT ![p] = l]
  BY DEF Shutdown, EnterOnce, RunOnClose, CloseConn, SkipOnce, Goto
<1>2. /\ p \notin Senders
      /\ \A q \in Procs : q # p => pc'[q] = pc[q]
      /\ pc'[p] \in {"onclose", "close", "gone"}
      /\ pc' \in [Procs -> Label]
  BY <1>1
<1> QED BY <1>1, <1>2

\* Every step keeps the types and the writer's bookkeeping.
LEMMA NextTypeInv == TypeInv /\ [Next]_vars => TypeInv'
<1> SUFFICES ASSUME TypeInv, [Next]_vars PROVE TypeInv'
  OBVIOUS
<1> USE ClientAssumption DEF TypeInv
<1>1. ASSUME NEW s \in Callers, NEW ack \in BOOLEAN, SendAccept(s, ack)
      PROVE  TypeInv'
  <2>1. PICK f \in Frame : out' = Append(out, f) /\ accepted' = Append(accepted, f)
    BY <1>1, AcceptedIsFrame
  <2>2. Len(out) < Cap /\ sends' \in [Callers -> 0..MaxSends]
    BY <1>1 DEF SendAccept, MaySend, HasRoom, FramesOK
  <2>4. FramesOK'
    BY <1>1, <2>1, <2>2, AppendProperties DEF FramesOK, SendAccept
  <2>5. pc' = pc \/ (s \in Senders /\ pc' = [pc EXCEPT ![s] = "await"])
    BY <1>1 DEF SendAccept, Goto
  <2>6. /\ PcOK'
        /\ pc'[Writer] = pc[Writer]
    BY <2>5 DEF PcOK, Procs, Label
  <2>7. FlagsOK'
    BY <1>1 DEF FlagsOK, SendAccept
  <2>8. WriterInv'
    BY <1>1, <2>6 DEF WriterInv, SendAccept
  <2> QED BY <2>4, <2>6, <2>7, <2>8
<1>2. ASSUME NEW s \in Callers, SendReject(s) PROVE TypeInv'
  BY <1>2 DEF SendReject, MaySend, PcOK, FramesOK, FlagsOK, WriterInv
<1>3. CASE ReadMessage \/ RouteReturn \/ ReadFail
  <2>1. PcOK' /\ pc'[Writer] = pc[Writer]
    BY <1>3 DEF ReadMessage, RouteReturn, ReadFail, Goto, PcOK, Procs, Label,
                ShutdownLabel
  <2>2. FramesOK' /\ FlagsOK' /\ WriterInv'
    BY <1>3, <2>1 DEF ReadMessage, RouteReturn, ReadFail, FramesOK, FlagsOK,
                      WriterInv
  <2> QED BY <2>1, <2>2
<1>4. CASE WriterStop
  <2>1. PcOK' /\ pc'[Writer] = "exit"
    BY <1>4 DEF WriterStop, Goto, PcOK, Procs, Label, ShutdownLabel
  <2>2. FramesOK' /\ FlagsOK' /\ WriterInv'
    BY <1>4, <2>1 DEF WriterStop, FramesOK, FlagsOK, WriterInv
  <2> QED BY <2>1, <2>2
<1>5. CASE TakeFrame
  <2>1. PcOK' /\ pc'[Writer] = "write"
    BY <1>5 DEF TakeFrame, Goto, PcOK, Procs, Label, ShutdownLabel
  <2>2. /\ Head(out) \in Frame /\ Tail(out) \in Seq(Frame)
        /\ Len(Tail(out)) = Len(out) - 1 /\ Len(out) > 0
    BY <1>5 DEF TakeFrame, FramesOK
  <2>3. FramesOK' /\ FlagsOK' /\ WriterInv'
    BY <1>5, <2>1, <2>2 DEF TakeFrame, FramesOK, FlagsOK, WriterInv
  <2> QED BY <2>1, <2>3
<1>6. CASE WriteOk \/ WriteFail
  <2>1. hand \in Frame
    BY <1>6 DEF WriteOk, WriteFail, WriterInv
  <2>2. \/ reply' = NoReply /\ pc' = [pc EXCEPT ![Writer] = "select"]
              /\ hand' = NoFrame
        \/ reply' = NoReply /\ pc' = [pc EXCEPT ![Writer] = "exit"]
        \/ /\ hand.ack /\ pc' = [pc EXCEPT ![Writer] = "ack"]
           /\ \/ reply' = [to |-> hand, err |-> FALSE] /\ hand' = NoFrame
              \/ reply' = [to |-> hand, err |-> TRUE]
    BY <1>6 DEF WriteOk, WriteFail, Goto
  <2>3. reply' \in Reply
    BY <2>1, <2>2, ReplyType
  <2>4. PcOK' /\ pc'[Writer] \in {"select", "exit", "ack"}
    BY <2>2 DEF PcOK, Procs, Label, ShutdownLabel
  <2>5. FramesOK' /\ FlagsOK'
    <3>1. /\ written' = written \/ written' = Append(written, hand)
          /\ hand' = hand \/ hand' = NoFrame
      BY <1>6 DEF WriteOk, WriteFail
    <3>2. Append(written, hand) \in Seq(Frame)
      BY <2>1, AppendProperties DEF FramesOK
    <3>4. written' \in Seq(Frame) /\ hand' \in Frame \cup {NoFrame}
      BY <2>1, <3>1, <3>2 DEF FramesOK
    <3>3. UNCHANGED <<out, ctxDone, once, connClosed, sends, accepted,
                      confirmed, refused, calls>>
      BY <1>6 DEF WriteOk, WriteFail
    <3> QED BY <2>3, <3>3, <3>4 DEF FramesOK, FlagsOK
  <2>6. WriterInv'
    BY <2>1, <2>2, <2>4 DEF WriterInv, PcOK, Procs
  <2> QED BY <2>4, <2>5, <2>6
<1>7. CASE GiveAck
  <2>1. /\ reply.to \in Frame /\ reply.to.from \in Senders
        /\ reply.err \in BOOLEAN
    BY <1>7 DEF GiveAck, WriterInv, Frame, FramesOK, Reply
  <2>2. /\ PcOK' /\ pc'[Writer] \in {"select", "exit"}
        /\ pc'[Writer] = "select" => ~reply.err
    BY <1>7, <2>1 DEF GiveAck, PcOK, Procs, Label, ShutdownLabel
  <2>3. confirmed' \in SUBSET Frame /\ refused' \in SUBSET Frame
    BY <1>7, <2>1 DEF GiveAck, FramesOK
  <2>4. FramesOK' /\ FlagsOK'
    BY <1>7, <2>3, ReplyType DEF GiveAck, FramesOK, FlagsOK
  <2>5. WriterInv'
    BY <1>7, <2>2 DEF GiveAck, WriterInv
  <2> QED BY <2>2, <2>4, <2>5
<1>8. ASSUME NEW p \in Closers, CallShutdown(p) PROVE TypeInv'
  <2>1. PcOK' /\ pc'[Writer] = pc[Writer]
    BY <1>8 DEF CallShutdown, Goto, PcOK, Procs, Label, ShutdownLabel
  <2>2. FramesOK' /\ FlagsOK' /\ WriterInv'
    BY <1>8, <2>1 DEF CallShutdown, FramesOK, FlagsOK, WriterInv
  <2> QED BY <2>1, <2>2
<1>9. ASSUME NEW p \in Procs, Shutdown(p) PROVE TypeInv'
  <2>1. /\ PcOK'
        /\ pc'[Writer] # pc[Writer] => pc'[Writer] \in {"onclose", "close", "gone"}
    BY <1>9, ShutdownPc DEF Procs
  <2>2. UNCHANGED <<out, hand, reply, sends, accepted, written,
                    confirmed, refused>>
    BY <1>9 DEF Shutdown, EnterOnce, RunOnClose, CloseConn, SkipOnce
  <2>3. FlagsOK'
    <3>1. CASE EnterOnce(p)
      BY <3>1 DEF EnterOnce, FlagsOK
    <3>2. CASE RunOnClose(p)
      BY <3>2 DEF RunOnClose, FlagsOK
    <3>3. CASE CloseConn(p)
      BY <3>3 DEF CloseConn, FlagsOK
    <3>4. CASE SkipOnce(p)
      BY <3>4 DEF SkipOnce, FlagsOK
    <3> QED BY <1>9, <3>1, <3>2, <3>3, <3>4 DEF Shutdown
  <2>4. FramesOK' /\ WriterInv'
    BY <2>1, <2>2 DEF FramesOK, WriterInv
  <2> QED BY <2>1, <2>3, <2>4
<1>10. CASE ParentCancel
  BY <1>10 DEF ParentCancel, PcOK, FramesOK, FlagsOK, WriterInv
<1>11. CASE UNCHANGED vars
  BY <1>11 DEF vars, PcOK, FramesOK, FlagsOK, WriterInv
<1> QED
  BY <1>1, <1>2, <1>3, <1>4, <1>5, <1>6, <1>7, <1>8, <1>9, <1>10, <1>11
  DEF Next, WriteLoop

\* Every variable of the connection keeps its type, and the channel never
\* exceeds its capacity (client.go:71, 86-98).
THEOREM TypeCorrect == Safety => []TypeOK
<1>1. TypeInv => TypeOK
  BY DEF TypeInv, TypeOK
<1> QED BY InitTypeInv, NextTypeInv, <1>1, PTL DEF Safety
-------------------------------------------------------------------------------
(* The pipe: NoGapNoReorder is inductive together with TypeInv.            *)

\* Initially nothing was accepted.
LEMMA InitNoGap == Init => NoGapNoReorder
  BY DEF Init, NoGapNoReorder, Held, Pending

\* Every step keeps accepted = written, then the writer's hand, then the channel.
LEMMA NextNoGap == TypeInv /\ NoGapNoReorder /\ [Next]_vars => NoGapNoReorder'
<1> SUFFICES ASSUME TypeInv, NoGapNoReorder, [Next]_vars
             PROVE  NoGapNoReorder'
  OBVIOUS
<1>0. /\ out \in Seq(Frame) /\ accepted \in Seq(Frame)
      /\ written \in Seq(Frame) /\ hand \in Frame \cup {NoFrame}
  BY DEF TypeInv, FramesOK
<1>1. CASE UNCHANGED <<out, hand, accepted, written>>
  BY <1>1 DEF NoGapNoReorder, Held, Pending
<1>2. ASSUME NEW s \in Callers, NEW ack \in BOOLEAN, SendAccept(s, ack)
      PROVE  NoGapNoReorder'
  <2>1. PICK f \in Frame : out' = Append(out, f) /\ accepted' = Append(accepted, f)
    BY <1>2, AcceptedIsFrame DEF TypeInv
  <2>2. hand' = hand /\ written' = written /\ Held' = Held /\ Held \in 0..1
    BY <1>2 DEF SendAccept, Held
  <2>3. /\ Len(out') = Len(out) + 1
        /\ \A i \in 1..Len(out) : out'[i] = out[i]
        /\ out'[Len(out) + 1] = f
    BY <1>0, <2>1, AppendProperties
  <2>4. /\ Len(accepted') = Len(accepted) + 1
        /\ \A i \in 1..Len(accepted) : accepted'[i] = accepted[i]
        /\ accepted'[Len(accepted) + 1] = f
    BY <1>0, <2>1, AppendProperties
  <2>5. /\ Len(accepted) = Len(written) + Held + Len(out)
        /\ hand # NoFrame => Held = 1
    BY <1>0 DEF NoGapNoReorder, Pending, Held
  <2>6. Len(out) \in Nat /\ Len(written) \in Nat /\ Len(accepted) \in Nat
    BY <1>0
  <2>7. Len(accepted') = Len(written') + Pending'
    BY <2>2, <2>3, <2>4, <2>5, <2>6 DEF Pending
  <2>8. \A i \in 1..Len(written') : written'[i] = accepted'[i]
    BY <2>2, <2>4, <2>5, <2>6 DEF NoGapNoReorder
  <2>9. hand' # NoFrame => hand' = accepted'[Len(written') + 1]
    BY <2>2, <2>4, <2>5, <2>6 DEF NoGapNoReorder
  <2>10. ASSUME NEW i \in 1..Len(out')
         PROVE  out'[i] = accepted'[Len(written') + Held' + i]
    <3>1. CASE i = Len(out) + 1
      BY <2>2, <2>3, <2>4, <2>5, <2>6, <3>1
    <3>2. CASE i \in 1..Len(out)
      <4>1. out[i] = accepted[Len(written) + Held + i]
        BY <3>2 DEF NoGapNoReorder
      <4>2. Len(written) + Held + i \in 1..Len(accepted)
        BY <2>2, <2>5, <2>6, <3>2
      <4> QED BY <2>2, <2>3, <2>4, <3>2, <4>1, <4>2
    <3> QED BY <2>3, <2>6, <3>1, <3>2
  <2> QED BY <2>7, <2>8, <2>9, <2>10 DEF NoGapNoReorder
<1>3. CASE TakeFrame
  <2>1. hand = NoFrame /\ out # <<>>
    BY <1>3 DEF TakeFrame, TypeInv, WriterInv
  <2>2. hand' = out[1] /\ out' = Tail(out)
        /\ accepted' = accepted /\ written' = written
    BY <1>0, <1>3 DEF TakeFrame
  <2>3. /\ Len(out') = Len(out) - 1 /\ Len(out) > 0 /\ out[1] \in Frame
        /\ \A i \in 1..Len(out') : out'[i] = out[i + 1]
    BY <1>0, <2>1, <2>2
  <2>4. Held = 0 /\ Held' = 1
    BY <2>1, <2>2, <2>3, NoFrameAssumption DEF Held
  <2>5. Len(accepted) = Len(written) + Len(out)
    BY <1>0, <2>4 DEF NoGapNoReorder, Pending
  <2>6. Len(out) \in Nat /\ Len(written) \in Nat /\ Len(accepted) \in Nat
    BY <1>0
  <2>7. Len(accepted') = Len(written') + Pending'
    BY <2>2, <2>3, <2>4, <2>5, <2>6 DEF Pending
  <2>8. \A i \in 1..Len(written') : written'[i] = accepted'[i]
    BY <2>2 DEF NoGapNoReorder
  <2>9. \A i \in 1..Len(out) : out[i] = accepted[Len(written) + i]
    BY <2>4, <2>6 DEF NoGapNoReorder
  <2>10. hand' = accepted'[Len(written') + 1]
    BY <2>2, <2>3, <2>6, <2>9
  <2>11. ASSUME NEW i \in 1..Len(out')
         PROVE  out'[i] = accepted'[Len(written') + Held' + i]
    <3>1. out'[i] = out[i + 1] /\ i + 1 \in 1..Len(out)
      BY <2>3, <2>6
    <3>2. out'[i] = accepted[Len(written) + (i + 1)]
      BY <2>9, <3>1
    <3>3. Len(written) + (i + 1) = Len(written') + Held' + i
      BY <2>2, <2>4, <2>6, <3>1
    <3> QED BY <2>2, <3>2, <3>3
  <2> QED BY <2>7, <2>8, <2>10, <2>11 DEF NoGapNoReorder
<1>4. CASE WriteOk
  <2>1. hand \in Frame /\ hand # NoFrame
    BY <1>4, NoFrameAssumption DEF WriteOk, TypeInv, WriterInv
  <2>2. /\ hand' = NoFrame /\ written' = Append(written, hand)
        /\ out' = out /\ accepted' = accepted
    BY <1>4 DEF WriteOk
  <2>3. /\ Len(written') = Len(written) + 1
        /\ \A i \in 1..Len(written) : written'[i] = written[i]
        /\ written'[Len(written) + 1] = hand
    BY <1>0, <2>1, <2>2, AppendProperties
  <2>4. Held = 1 /\ Held' = 0
    BY <2>1, <2>2 DEF Held
  <2>5. Len(out) \in Nat /\ Len(written) \in Nat /\ Len(accepted) \in Nat
    BY <1>0
  <2>6. Len(accepted') = Len(written') + Pending'
    BY <2>2, <2>3, <2>4, <2>5 DEF NoGapNoReorder, Pending
  <2>7. \A i \in 1..Len(written') : written'[i] = accepted'[i]
    BY <2>1, <2>2, <2>3, <2>5 DEF NoGapNoReorder
  <2>8. ASSUME NEW i \in 1..Len(out')
        PROVE  out'[i] = accepted'[Len(written') + Held' + i]
    <3>1. out'[i] = out[i] /\ i \in 1..Len(out)
      BY <2>2
    <3>2. out[i] = accepted[Len(written) + Held + i]
      BY <3>1 DEF NoGapNoReorder
    <3>3. Len(written) + Held + i = Len(written') + Held' + i
      BY <2>3, <2>4, <2>5, <3>1
    <3> QED BY <2>2, <3>1, <3>2, <3>3
  <2> QED BY <2>2, <2>6, <2>7, <2>8 DEF NoGapNoReorder
<1> QED
  BY <1>1, <1>2, <1>3, <1>4
  DEF Next, WriteLoop, Shutdown, SendReject, ReadMessage, RouteReturn, ReadFail,
      WriterStop, WriteFail, GiveAck, CallShutdown, EnterOnce, RunOnClose,
      CloseConn, SkipOnce, ParentCancel, vars

\* No accepted frame is lost, duplicated or reordered on its way to the
\* connection, for any number of senders and any capacity (client.go:86-153).
THEOREM PipeCorrect == Safety => []NoGapNoReorder
<1>1. Init => TypeInv /\ NoGapNoReorder
  BY InitTypeInv, InitNoGap
<1>2. TypeInv /\ NoGapNoReorder /\ [Next]_vars => (TypeInv /\ NoGapNoReorder)'
  BY NextTypeInv, NextNoGap
<1> QED BY <1>1, <1>2, PTL DEF Safety

-------------------------------------------------------------------------------
(* The Once: who is inside, and what has happened by then.                 *)

Inside(p) == pc[p] \in {"onclose", "close"}

OnceInv ==
    /\ once = "unused" => /\ calls = 0
                          /\ \A p \in Procs : ~Inside(p) /\ pc[p] # "gone"
    /\ once = "busy" => /\ ctxDone
                        /\ \E p \in Procs : Inside(p)
                        /\ \A p, q \in Procs : Inside(p) /\ Inside(q) => p = q
                        /\ \A p \in Procs : pc[p] = "onclose" => calls = 0
                        /\ \A p \in Procs : pc[p] = "close" => calls = 1
                        /\ \A p \in Procs : pc[p] # "gone"
    /\ once = "used" => /\ ctxDone /\ connClosed /\ calls = 1
                        /\ \A p \in Procs : ~Inside(p)

\* Initially nobody has entered the Once.
LEMMA InitOnce == Init => OnceInv
  BY ClientAssumption DEF Init, OnceInv, Inside, Procs

\* A step outside shutdown() neither enters nor leaves it.
LEMMA OtherSteps ==
    ASSUME TypeInv, Next, \A p \in Procs : ~Shutdown(p)
    PROVE  /\ \A p \in Procs : pc'[p] = pc[p]
                \/ /\ pc[p] \notin ShutdownLabel
                   /\ pc'[p] \notin {"onclose", "close", "gone"}
           /\ UNCHANGED <<once, connClosed, calls>>
           /\ ctxDone => ctxDone'
<1> USE DEF TypeInv, PcOK, Procs, ShutdownLabel, Goto
<1>1. ASSUME NEW s \in Callers, NEW ack \in BOOLEAN, SendAccept(s, ack)
      PROVE  /\ \A p \in Procs : pc'[p] = pc[p]
                  \/ /\ pc[p] \notin ShutdownLabel
                     /\ pc'[p] \notin {"onclose", "close", "gone"}
             /\ UNCHANGED <<once, connClosed, calls, ctxDone>>
  <2>1. pc' = pc \/ (s \in Senders /\ pc' = [pc EXCEPT ![s] = "await"])
    BY <1>1 DEF SendAccept
  <2> QED BY <1>1, <2>1 DEF SendAccept
<1>2. ASSUME NEW s \in Callers, SendReject(s)
      PROVE  UNCHANGED <<pc, once, connClosed, calls, ctxDone>>
  BY <1>2 DEF SendReject
<1>3. CASE ReadMessage \/ RouteReturn \/ ReadFail \/ WriterStop \/ TakeFrame
  BY <1>3 DEF ReadMessage, RouteReturn, ReadFail, WriterStop, TakeFrame
<1>4. CASE WriteOk \/ WriteFail
  <2>1. /\ pc[Writer] = "write"
        /\ \E l \in {"ack", "select", "exit"} : pc' = [pc EXCEPT ![Writer] = l]
        /\ UNCHANGED <<once, connClosed, calls, ctxDone>>
    BY <1>4 DEF WriteOk, WriteFail
  <2> QED BY <2>1
<1>5. CASE GiveAck
  <2>1. reply.to.from \in Senders
    BY <1>5 DEF GiveAck, WriterInv, Frame
  <2>2. /\ pc[Writer] = "ack"
        /\ \E l \in {"select", "exit"} :
              pc' = [pc EXCEPT ![reply.to.from] = "idle", ![Writer] = l]
        /\ UNCHANGED <<once, connClosed, calls, ctxDone>>
    BY <1>5 DEF GiveAck
  <2> QED BY <2>1, <2>2
<1>6. ASSUME NEW p \in Closers, CallShutdown(p)
      PROVE  /\ \A q \in Procs : pc'[q] = pc[q]
                  \/ /\ pc[q] \notin ShutdownLabel
                     /\ pc'[q] \notin {"onclose", "close", "gone"}
             /\ UNCHANGED <<once, connClosed, calls, ctxDone>>
  BY <1>6 DEF CallShutdown
<1>7. CASE ParentCancel
  BY <1>7 DEF ParentCancel
<1> QED
  BY <1>1, <1>2, <1>3, <1>4, <1>5, <1>6, <1>7 DEF Next, WriteLoop

\* Every step keeps the Once's invariant.
LEMMA NextOnce == TypeInv /\ OnceInv /\ [Next]_vars => OnceInv'
<1> SUFFICES ASSUME TypeInv, OnceInv, [Next]_vars PROVE OnceInv'
  OBVIOUS
<1>1. ASSUME NEW p \in Procs, Shutdown(p) PROVE OnceInv'
  <2>1. /\ \A q \in Procs : q # p => pc'[q] = pc[q]
        /\ pc \in [Procs -> Label] /\ pc' \in [Procs -> Label]
    BY <1>1, ShutdownPc DEF TypeInv, PcOK
  <2>2. CASE EnterOnce(p)
    <3>1. pc'[p] = "onclose"
      BY <2>1, <2>2 DEF EnterOnce, Goto
    <3> QED BY <2>1, <2>2, <3>1 DEF EnterOnce, OnceInv, Inside
  <2>3. CASE RunOnClose(p)
    <3>1. pc'[p] = "close"
      BY <2>1, <2>3 DEF RunOnClose, Goto
    <3>2. once = "busy" /\ calls = 0
      BY <2>3 DEF RunOnClose, OnceInv, Inside, TypeInv, FlagsOK
    <3> QED BY <2>1, <2>3, <3>1, <3>2 DEF RunOnClose, OnceInv, Inside
  <2>4. CASE CloseConn(p)
    <3>1. pc'[p] = "gone"
      BY <2>1, <2>4 DEF CloseConn, Goto
    <3>2. once = "busy" /\ calls = 1
      BY <2>4 DEF CloseConn, OnceInv, Inside, TypeInv, FlagsOK
    <3> QED BY <2>1, <2>4, <3>1, <3>2 DEF CloseConn, OnceInv, Inside
  <2>5. CASE SkipOnce(p)
    <3>1. pc'[p] = "gone"
      BY <2>1, <2>5 DEF SkipOnce, Goto
    <3> QED BY <2>1, <2>5, <3>1 DEF SkipOnce, OnceInv, Inside
  <2> QED BY <1>1, <2>2, <2>3, <2>4, <2>5 DEF Shutdown
<1>2. ASSUME Next, \A p \in Procs : ~Shutdown(p) PROVE OnceInv'
  <2>1. /\ \A p \in Procs : pc'[p] = pc[p]
             \/ /\ pc[p] \notin ShutdownLabel
                /\ pc'[p] \notin {"onclose", "close", "gone"}
        /\ UNCHANGED <<once, connClosed, calls>>
        /\ ctxDone => ctxDone'
    BY <1>2, OtherSteps
  <2>2. \A p \in Procs : /\ pc'[p] = "onclose" <=> pc[p] = "onclose"
                         /\ pc'[p] = "close" <=> pc[p] = "close"
                         /\ pc'[p] = "gone" <=> pc[p] = "gone"
    BY <2>1 DEF ShutdownLabel
  <2>3. \A p \in Procs : Inside(p)' <=> Inside(p)
    BY <2>2 DEF Inside
  <2> QED BY <2>1, <2>2, <2>3 DEF OnceInv
<1>3. CASE UNCHANGED vars
  BY <1>3 DEF vars, OnceInv, Inside
<1> QED BY <1>1, <1>2, <1>3

\* When shutdown() returns, to anyone, the callback has run exactly once and
\* the connection is closed (client.go:155-164).
THEOREM BarrierCorrect == Safety => []ShutdownIsABarrier
<1>1. Init => TypeInv /\ OnceInv
  BY InitTypeInv, InitOnce
<1>2. TypeInv /\ OnceInv /\ [Next]_vars => (TypeInv /\ OnceInv)'
  BY NextTypeInv, NextOnce
<1>3. TypeInv /\ OnceInv => ShutdownIsABarrier
  BY DEF TypeInv, FlagsOK, OnceInv, ShutdownIsABarrier, Inside
<1> QED BY <1>1, <1>2, <1>3, PTL DEF Safety
-------------------------------------------------------------------------------
(* Refinement of the abstract pipe: its safety part.                       *)

\* Every step of the connection is a step of the pipe or a stutter.
LEMMA StepRefines ==
    TypeInv /\ NoGapNoReorder /\ [Next]_vars => [Pipe!PipeNext]_(Pipe!pipeVars)
<1> SUFFICES ASSUME TypeInv, NoGapNoReorder, [Next]_vars
             PROVE  Pipe!PipeNext \/ UNCHANGED Pipe!pipeVars
  OBVIOUS
<1> USE DEF Pipe!pipeVars, Pipe!PipeNext
<1>0. /\ out \in Seq(Frame) /\ accepted \in Seq(Frame)
      /\ written \in Seq(Frame) /\ hand \in Frame \cup {NoFrame}
  BY DEF TypeInv, FramesOK
<1>1. ASSUME NEW s \in Callers, NEW ack \in BOOLEAN, SendAccept(s, ack)
      PROVE  Pipe!PipeNext
  <2>1. PICK f \in Frame : accepted' = Append(accepted, f)
    BY <1>1, AcceptedIsFrame DEF TypeInv
  <2>2. written' = written /\ ctxDone' = ctxDone /\ Len(out) < Cap
    BY <1>1 DEF SendAccept, HasRoom
  <2>3. Held \in 0..1 /\ Len(accepted) = Len(written) + Held + Len(out)
    BY DEF NoGapNoReorder, Pending, Held
  <2>4. Len(accepted) < Len(written) + (Cap + 1)
    BY <1>0, <2>2, <2>3, ClientAssumption
  <2> QED BY <2>1, <2>2, <2>4 DEF Pipe!Accept
<1>2. CASE WriteOk
  <2>1. hand \in Frame /\ hand # NoFrame
    BY <1>2, NoFrameAssumption DEF WriteOk, TypeInv, WriterInv
  <2>2. /\ written' = Append(written, hand)
        /\ accepted' = accepted /\ ctxDone' = ctxDone
    BY <1>2 DEF WriteOk
  <2>3. /\ hand = accepted[Len(written) + 1]
        /\ Len(accepted) = Len(written) + 1 + Len(out)
    BY <2>1 DEF NoGapNoReorder, Pending, Held
  <2>4. Len(written) < Len(accepted)
    BY <1>0, <2>3
  <2> QED BY <2>2, <2>3, <2>4 DEF Pipe!Deliver
<1>3. CASE ParentCancel
  BY <1>3 DEF ParentCancel, Pipe!Close
<1>4. ASSUME NEW p \in Procs, EnterOnce(p)
      PROVE  Pipe!PipeNext \/ UNCHANGED Pipe!pipeVars
  <2>1. accepted' = accepted /\ written' = written /\ ctxDone' = TRUE
    BY <1>4 DEF EnterOnce
  <2>2. CASE ctxDone
    BY <2>1, <2>2 DEF TypeInv, FlagsOK
  <2>3. CASE ~ctxDone
    BY <2>1, <2>3 DEF Pipe!Close
  <2> QED BY <2>2, <2>3
<1> QED
  BY <1>1, <1>2, <1>3, <1>4
  DEF Next, WriteLoop, Shutdown, SendReject, ReadMessage, RouteReturn, ReadFail,
      WriterStop, TakeFrame, WriteFail, GiveAck, CallShutdown, RunOnClose,
      CloseConn, SkipOnce, vars

\* The connection implements the safety part of the abstract pipe: what it
\* writes is what callers handed over, in order, at most Cap + 1 behind.
THEOREM RefinesPipe == Safety => Pipe!PipeSafety
<1>1. Init => Pipe!PipeInit
  BY DEF Init, Pipe!PipeInit
<1>2. Init => TypeInv /\ NoGapNoReorder
  BY InitTypeInv, InitNoGap
<1>3. TypeInv /\ NoGapNoReorder /\ [Next]_vars => (TypeInv /\ NoGapNoReorder)'
  BY NextTypeInv, NextNoGap
<1> QED
  BY <1>1, <1>2, <1>3, StepRefines, PTL DEF Safety, Pipe!PipeSafety

-------------------------------------------------------------------------------
(* What an acknowledgement says.                                           *)

Written == {written[i] : i \in 1..Len(written)}

\* A caller numbers its frames, so no frame is accepted twice.
FramesDiffer ==
    /\ \A i \in 1..Len(accepted) : accepted[i].n <= sends[accepted[i].from]
    /\ \A i, j \in 1..Len(accepted) : accepted[i] = accepted[j] => i = j

\* An answer without an error is about a frame that was written; the frame an error
\* is about stays in the hand of a writer that writes no more.
AckInv ==
    /\ confirmed \subseteq Written
    /\ pc[Writer] = "ack" => IF reply.err THEN reply.to = hand ELSE reply.to \in Written
    /\ refused = {} \/ (refused = {hand} /\ hand \in Frame /\ pc[Writer] \in ShutdownLabel)

LEMMA AcceptedDiffers ==
    ASSUME TypeInv, FramesDiffer, NEW s \in Callers, NEW ack \in BOOLEAN, SendAccept(s, ack)
    PROVE  FramesDiffer'
<1> DEFINE f == [from |-> s, n |-> sends[s] + 1, ack |-> ack]
<1>1. accepted' = Append(accepted, f) /\ sends' = [sends EXCEPT ![s] = @ + 1]
  BY DEF SendAccept, MaySend
<1>2. f.from = s /\ f.n = sends[s] + 1
  OBVIOUS
<1>3. accepted \in Seq(Frame) /\ sends \in [Callers -> 0..MaxSends] /\ MaxSends \in Nat
  BY ClientAssumption DEF TypeInv, FramesOK
<1>4. f \in Frame
  <2>1. sends[s] + 1 \in 1..MaxSends /\ (ack => s \in Senders)
    BY <1>3 DEF SendAccept, MaySend
  <2> QED BY <2>1 DEF Frame
<1> HIDE DEF f
<1>5. /\ Len(accepted') = Len(accepted) + 1 /\ Len(accepted) \in Nat
      /\ \A i \in 1..Len(accepted) : accepted'[i] = accepted[i] /\ accepted[i] \in Frame
      /\ accepted'[Len(accepted) + 1] = f
  BY <1>1, <1>3, <1>4, AppendProperties
<1>6. \A i \in 1..Len(accepted') : i \in 1..Len(accepted) \/ i = Len(accepted) + 1
  BY <1>5
<1>7. \A g \in Frame : g.from \in Callers /\ g.n \in Nat
  BY <1>3 DEF Frame
<1>8. /\ sends'[s] = sends[s] + 1 /\ sends[s] \in Nat
      /\ \A c \in Callers : sends[c] \in Nat /\ sends'[c] \in Nat /\ sends[c] <= sends'[c]
  BY <1>1, <1>3
<1>9. \A i \in 1..Len(accepted) : accepted[i] # f
  <2> SUFFICES ASSUME NEW i \in 1..Len(accepted), accepted[i] = f PROVE FALSE
    OBVIOUS
  <2>1. f.n <= sends[f.from]
    BY DEF FramesDiffer
  <2> QED BY <1>2, <1>8, <2>1
<1>10. ASSUME NEW i \in 1..Len(accepted') PROVE accepted'[i].n <= sends'[accepted'[i].from]
  <2>1. CASE i \in 1..Len(accepted)
    <3>1. /\ accepted[i].n <= sends[accepted[i].from] /\ accepted'[i] = accepted[i]
          /\ accepted[i].from \in Callers /\ accepted[i].n \in Nat
      BY <1>5, <1>7, <2>1 DEF FramesDiffer
    <3> QED BY <1>8, <3>1
  <2>2. CASE i = Len(accepted) + 1
    BY <1>2, <1>5, <1>8, <2>2
  <2> QED BY <1>6, <2>1, <2>2
<1>11. ASSUME NEW i \in 1..Len(accepted'), NEW j \in 1..Len(accepted'),
              accepted'[i] = accepted'[j]
       PROVE  i = j
  <2>1. CASE i \in 1..Len(accepted) /\ j \in 1..Len(accepted)
    BY <1>5, <1>11, <2>1 DEF FramesDiffer
  <2>2. CASE i = Len(accepted) + 1 \/ j = Len(accepted) + 1
    BY <1>5, <1>6, <1>9, <1>11, <2>2
  <2> QED BY <1>6, <2>1, <2>2
<1> QED BY <1>10, <1>11 DEF FramesDiffer

\* The frame in the writer's hand was not written.
LEMMA HandNotWritten ==
    ASSUME TypeInv, NoGapNoReorder, FramesDiffer, hand \in Frame
    PROVE  hand \notin Written
<1>1. /\ accepted \in Seq(Frame) /\ written \in Seq(Frame) /\ out \in Seq(Frame)
      /\ hand # NoFrame
  BY NoFrameAssumption DEF TypeInv, FramesOK
<1>2. /\ hand = accepted[Len(written) + 1] /\ Held = 1
      /\ \A i \in 1..Len(written) : written[i] = accepted[i]
      /\ Len(accepted) = Len(written) + 1 + Len(out)
  BY <1>1 DEF NoGapNoReorder, Pending, Held
<1>3. Len(written) \in Nat /\ Len(out) \in Nat
  BY <1>1, LenProperties
<1>4. Len(written) + 1 \in 1..Len(accepted)
      /\ \A i \in 1..Len(written) : i \in 1..Len(accepted) /\ i # Len(written) + 1
  BY <1>2, <1>3
<1>5. \A i \in 1..Len(written) : written[i] # hand
  BY <1>2, <1>4 DEF FramesDiffer
<1> QED BY <1>5 DEF Written

LEMMA InitAck == Init => FramesDiffer /\ AckInv
<1>1. Len(<<>>) = 0
  BY EmptySeq
<1>2. Init => pc[Writer] = "select"
  BY ClientAssumption DEF Init, Procs
<1> QED BY <1>1, <1>2 DEF Init, FramesDiffer, AckInv, ShutdownLabel

\* Steps that leave the frames alone; the writer may end by them.
LEMMA AckKept ==
    ASSUME AckInv, UNCHANGED <<written, confirmed, refused, hand, reply>>,
           pc'[Writer] = pc[Writer] \/ pc'[Writer] \in ShutdownLabel
    PROVE  AckInv'
<1>1. Written' = Written /\ "ack" \notin ShutdownLabel
  BY DEF Written, ShutdownLabel
<1> QED BY <1>1 DEF AckInv

LEMMA NextAck ==
    TypeInv /\ NoGapNoReorder /\ FramesDiffer /\ AckInv /\ [Next]_vars
        => FramesDiffer' /\ AckInv'
<1> SUFFICES ASSUME TypeInv, NoGapNoReorder, FramesDiffer, AckInv, [Next]_vars
             PROVE  FramesDiffer' /\ AckInv'
  OBVIOUS
<1>0. /\ pc \in [Procs -> Label] /\ Writer \in Procs /\ Reader \in Procs
      /\ Writer \notin Senders \cup Closers \cup {Reader}
      /\ written \in Seq(Frame) /\ reply \in Reply
      /\ \A s \in Senders : pc[s] \in {"idle", "await"}
  BY ClientAssumption DEF TypeInv, PcOK, FramesOK, Procs
<1>1. UNCHANGED <<accepted, sends>> => FramesDiffer'
  BY DEF FramesDiffer
<1>2. ASSUME NEW s \in Callers, NEW ack \in BOOLEAN, SendAccept(s, ack)
      PROVE  FramesDiffer' /\ AckInv'
  <2>1. FramesDiffer'
    BY <1>2, AcceptedDiffers
  <2>2. pc'[Writer] = pc[Writer]
    <3>1. s # Writer
      BY <1>0 DEF Callers
    <3> QED BY <1>0, <1>2, <3>1 DEF SendAccept, Goto
  <2>3. UNCHANGED <<written, confirmed, refused, hand, reply>>
    BY <1>2 DEF SendAccept
  <2> QED BY <2>1, <2>2, <2>3, AckKept
<1>3. ASSUME NEW s \in Callers, SendReject(s) PROVE FramesDiffer' /\ AckInv'
  <2>1. FramesDiffer'
    <3>1. /\ UNCHANGED accepted /\ sends' = [sends EXCEPT ![s] = @ + 1]
          /\ sends \in [Callers -> 0..MaxSends] /\ MaxSends \in Nat
          /\ accepted \in Seq(Frame)
      BY <1>3, ClientAssumption DEF SendReject, MaySend, TypeInv, FramesOK
    <3>2. \A c \in Callers : sends[c] \in Nat /\ sends'[c] \in Nat /\ sends[c] <= sends'[c]
      BY <3>1
    <3>3. \A i \in 1..Len(accepted) : accepted[i].from \in Callers /\ accepted[i].n \in Nat
      BY <3>1, ElementOfSeq DEF Frame
    <3>4. \A i \in 1..Len(accepted) : accepted[i].n <= sends'[accepted[i].from]
      BY <3>2, <3>3 DEF FramesDiffer
    <3> QED BY <3>1, <3>4 DEF FramesDiffer
  <2>2. UNCHANGED <<written, confirmed, refused, hand, reply, pc>>
    BY <1>3 DEF SendReject
  <2> QED BY <2>1, <2>2, AckKept
<1>4. CASE ReadMessage \/ RouteReturn \/ ReadFail \/ WriterStop \/ ParentCancel
  <2>1. /\ UNCHANGED <<accepted, sends, written, confirmed, refused, hand, reply>>
        /\ pc'[Writer] = pc[Writer] \/ pc'[Writer] \in ShutdownLabel
    BY <1>0, <1>4 DEF ReadMessage, RouteReturn, ReadFail, WriterStop, ParentCancel, Goto,
                      ShutdownLabel
  <2> QED BY <1>1, <2>1, AckKept
<1>5. CASE TakeFrame
  <2>1. /\ UNCHANGED <<accepted, sends, written, confirmed, refused>>
        /\ pc[Writer] = "select" /\ pc'[Writer] = "write"
    BY <1>0, <1>5 DEF TakeFrame, Goto
  <2>2. refused = {} /\ Written' = Written
    BY <2>1 DEF AckInv, ShutdownLabel, Written
  <2> QED BY <1>1, <2>1, <2>2 DEF AckInv
<1>6. CASE WriteOk
  <2>1. /\ UNCHANGED <<accepted, sends, confirmed, refused>>
        /\ pc[Writer] = "write" /\ written' = Append(written, hand)
        /\ hand \in Frame /\ pc'[Writer] \in {"ack", "select"}
        /\ pc'[Writer] = "ack" => reply' = [to |-> hand, err |-> FALSE]
    BY <1>0, <1>6 DEF WriteOk, Goto, TypeInv, WriterInv
  <2>2. refused = {}
    BY <2>1 DEF AckInv, ShutdownLabel
  <2>3. Written \subseteq Written' /\ hand \in Written'
    <3>1. /\ Len(written') = Len(written) + 1 /\ Len(written) \in Nat
          /\ \A i \in 1..Len(written) : written'[i] = written[i]
          /\ written'[Len(written) + 1] = hand
      BY <1>0, <2>1, AppendProperties
    <3>2. 1..Len(written) \subseteq 1..Len(written') /\ Len(written) + 1 \in 1..Len(written')
      BY <3>1
    <3> QED BY <3>1, <3>2 DEF Written
  <2> QED BY <1>1, <2>1, <2>2, <2>3 DEF AckInv
<1>7. CASE WriteFail
  <2>1. /\ UNCHANGED <<accepted, sends, written, hand, confirmed, refused>>
        /\ pc[Writer] = "write" /\ pc'[Writer] \in {"ack", "exit"}
        /\ pc'[Writer] = "ack" => reply' = [to |-> hand, err |-> TRUE]
    BY <1>0, <1>7 DEF WriteFail, Goto
  <2>2. refused = {} /\ Written' = Written
    BY <2>1 DEF AckInv, ShutdownLabel, Written
  <2> QED BY <1>1, <2>1, <2>2 DEF AckInv
<1>8. CASE GiveAck
  <2>1. /\ UNCHANGED <<accepted, sends, written, hand>>
        /\ pc[Writer] = "ack" /\ reply.to \in Frame /\ reply.to.from \in Senders
        /\ reply.err \in BOOLEAN
    BY <1>8 DEF GiveAck, TypeInv, WriterInv, FramesOK, Reply, Frame
  <2>2. pc'[Writer] = IF reply.err THEN "exit" ELSE "select"
    BY <1>0, <1>8, <2>1 DEF GiveAck
  <2>3. refused = {} /\ Written' = Written
    BY <2>1 DEF AckInv, ShutdownLabel, Written
  <2>4. CASE reply.err = TRUE
    <3>1. /\ refused' = {reply.to} /\ confirmed' = confirmed /\ pc'[Writer] = "exit"
          /\ reply.to = hand
      BY <1>8, <2>1, <2>2, <2>3, <2>4 DEF GiveAck, AckInv
    <3> QED BY <1>1, <2>1, <2>3, <3>1 DEF AckInv, ShutdownLabel
  <2>5. CASE reply.err = FALSE
    <3>1. /\ confirmed' = confirmed \cup {reply.to} /\ refused' = refused
          /\ pc'[Writer] = "select" /\ reply.to \in Written
      BY <1>8, <2>1, <2>2, <2>5 DEF GiveAck, AckInv
    <3> QED BY <1>1, <2>1, <2>3, <3>1 DEF AckInv
  <2> QED BY <2>1, <2>4, <2>5
<1>9. ASSUME NEW p \in Closers, CallShutdown(p) PROVE FramesDiffer' /\ AckInv'
  <2>1. /\ UNCHANGED <<accepted, sends, written, confirmed, refused, hand, reply>>
        /\ pc'[Writer] = pc[Writer]
    BY <1>0, <1>9 DEF CallShutdown, Goto
  <2> QED BY <1>1, <2>1, AckKept
<1>10. ASSUME NEW p \in Procs, Shutdown(p) PROVE FramesDiffer' /\ AckInv'
  <2>1. UNCHANGED <<accepted, sends, written, confirmed, refused, hand, reply>>
    BY <1>10 DEF Shutdown, EnterOnce, RunOnClose, CloseConn, SkipOnce
  <2>2. pc'[Writer] = pc[Writer] \/ pc'[Writer] \in ShutdownLabel
    BY <1>0, <1>10, ShutdownPc DEF TypeInv, ShutdownLabel
  <2> QED BY <1>1, <2>1, <2>2, AckKept
<1>11. CASE UNCHANGED vars
  BY <1>1, <1>11, AckKept DEF vars
<1> QED
  BY <1>2, <1>3, <1>4, <1>5, <1>6, <1>7, <1>8, <1>9, <1>10, <1>11 DEF Next, WriteLoop

\* The answer on a frame's Ack channel is the truth about that frame, for any
\* number of senders and however writes fail (client.go:89-91, 121-145).
THEOREM AckTruthful == Safety => []AckTellsTheTruth
<1>1. Init => TypeInv /\ NoGapNoReorder /\ FramesDiffer /\ AckInv
  BY InitTypeInv, InitNoGap, InitAck
<1>2. TypeInv /\ NoGapNoReorder /\ FramesDiffer /\ AckInv /\ [Next]_vars
         => (TypeInv /\ NoGapNoReorder /\ FramesDiffer /\ AckInv)'
  BY NextTypeInv, NextNoGap, NextAck
<1>3. TypeInv /\ NoGapNoReorder /\ FramesDiffer /\ AckInv => AckTellsTheTruth
  BY HandNotWritten DEF AckInv, AckTellsTheTruth, Written
<1> QED BY <1>1, <1>2, <1>3, PTL DEF Safety
===============================================================================
