-------------------------------- MODULE Client --------------------------------
(***************************************************************************)
(* One websocket connection of gohub: pkg/hub/client.go.                   *)
(*                                                                         *)
(* The goroutines are the readLoop and the writeLoop NewClient starts, the *)
(* callers of Send and the callers of Shutdown (Register replacing a       *)
(* connection, the SDK disconnecting a client).  They share the buffered   *)
(* channel `out`, the client's context and the sync.Once `closed`.         *)
(*                                                                         *)
(* A label of pc is the place a goroutine is about to execute:             *)
(*   Senders  idle -> await (blocked in <-f.Ack) -> idle                   *)
(*   Reader   read <-> route (inside DecodeAndRoute), then exit            *)
(*   Writer   select -> write -> ack -> select, or exit                    *)
(*   Closers  idle -> exit                                                 *)
(* and shutdown() is exit -> onclose -> close -> gone for the goroutine    *)
(* that wins the Once, exit -> gone for the ones that wait for it.         *)
(***************************************************************************)
EXTENDS Naturals, Sequences, SequencesExt

CONSTANTS Senders,   \* goroutines that call Send
          Closers,   \* goroutines that call Shutdown
          Reader,    \* the readLoop goroutine
          Writer,    \* the writeLoop goroutine
          NoFrame,   \* the writer holds no frame
          Cap,       \* cfg.MessageBufferCap
          MaxSends   \* bound: calls of Send by one goroutine

ASSUME ClientAssumption ==
    /\ Cap \in Nat \ {0}        \* server.go and DefaultConfig give at least 1
    /\ MaxSends \in Nat
    /\ Senders \cap Closers = {}
    /\ Reader \notin Senders \cup Closers
    /\ Writer \notin Senders \cup Closers \cup {Reader}

Procs   == Senders \cup Closers \cup {Reader, Writer}
Callers == Senders \cup {Reader}   \* a message handler answers from the readLoop

\* A frame is told apart by its caller and by that caller's count of sends.
\* `ack` says whether the caller attached an Ack channel; handlers never do.
Frame == {f \in [from : Callers, n : 1..MaxSends, ack : BOOLEAN] :
             f.ack => f.from \in Senders}

ASSUME NoFrameAssumption == NoFrame \notin Frame

\* What the writeLoop answers: the frame whose Ack it is, and whether it failed.
Reply == [to : Frame \cup {NoFrame}, err : BOOLEAN]

VARIABLES pc,          \* where each goroutine is
          out,         \* the channel c.out
          hand,        \* the frame the writeLoop took from out and did not write
          reply,       \* the error the writeLoop will put on the frame's Ack
          ctxDone,     \* c.ctx is cancelled
          once,        \* the sync.Once: "unused", "busy" or "used"
          connClosed,  \* c.conn.Close() was called
          sends,       \* calls of Send by each caller (bounds the model)
          accepted,    \* history: frames Send put into out
          written,     \* history: frames WriteMessage wrote
          confirmed,   \* history: frames whose Send returned a nil Ack
          refused,     \* history: frames whose Send returned an Ack error
          calls        \* history: runs of the onClose callback

vars == <<pc, out, hand, reply, ctxDone, once, connClosed, sends,
          accepted, written, confirmed, refused, calls>>

NoReply == [to |-> NoFrame, err |-> FALSE]

Init == /\ pc = [p \in Procs |-> IF p = Reader THEN "read"
                                ELSE IF p = Writer THEN "select" ELSE "idle"]
        /\ out = <<>> /\ hand = NoFrame /\ reply = NoReply
        /\ ctxDone = FALSE /\ once = "unused" /\ connClosed = FALSE
        /\ sends = [s \in Callers |-> 0]
        /\ accepted = <<>> /\ written = <<>>
        /\ confirmed = {} /\ refused = {} /\ calls = 0

Goto(p, label) == pc' = [pc EXCEPT ![p] = label]

-------------------------------------------------------------------------------
(* Send                                                                    *)

\* An idle sender, or the readLoop inside a message handler, calls Send.
MaySend(s) == /\ pc[s] = IF s = Reader THEN "route" ELSE "idle"
              /\ sends[s] < MaxSends
              /\ sends' = [sends EXCEPT ![s] = @ + 1]

HasRoomOffByOne == Len(out) <= Cap
HasRoom == Len(out) < Cap

\* case c.out <- f.  It may be taken although the context is done: select
\* chooses any of the ready cases.
SendAccept(s, ack) ==
    /\ MaySend(s)
    /\ HasRoom
    /\ ack => s \in Senders
    /\ LET f == [from |-> s, n |-> sends[s] + 1, ack |-> ack]
       IN  /\ out' = Append(out, f)
           /\ accepted' = Append(accepted, f)
    /\ IF ack THEN Goto(s, "await") ELSE UNCHANGED pc
    /\ UNCHANGED <<hand, reply, ctxDone, once, connClosed, written,
                   confirmed, refused, calls>>

\* case <-c.ctx.Done(): ErrClientClosed; default: ErrSendBufferFull, taken
\* only when neither channel is ready.
SendReject(s) ==
    /\ MaySend(s)
    /\ ctxDone \/ ~HasRoom
    /\ UNCHANGED <<pc, out, hand, reply, ctxDone, once, connClosed,
                   accepted, written, confirmed, refused, calls>>

-------------------------------------------------------------------------------
(* readLoop                                                                *)

\* ReadMessage returns a message, which DecodeAndRoute handles.
ReadMessage ==
    /\ pc[Reader] = "read" /\ ~connClosed
    /\ Goto(Reader, "route")
    /\ UNCHANGED <<out, hand, reply, ctxDone, once, connClosed, sends,
                   accepted, written, confirmed, refused, calls>>

\* The handler returns; its error is ignored.
RouteReturn ==
    /\ pc[Reader] = "route"
    /\ Goto(Reader, "read")
    /\ UNCHANGED <<out, hand, reply, ctxDone, once, connClosed, sends,
                   accepted, written, confirmed, refused, calls>>

\* The peer is gone, the read deadline passed, or the connection was closed.
ReadFail ==
    /\ pc[Reader] = "read"
    /\ Goto(Reader, "exit")
    /\ UNCHANGED <<out, hand, reply, ctxDone, once, connClosed, sends,
                   accepted, written, confirmed, refused, calls>>

-------------------------------------------------------------------------------
(* writeLoop                                                               *)

\* select, case <-c.ctx.Done(): return.
WriterStop ==
    /\ pc[Writer] = "select" /\ ctxDone
    /\ Goto(Writer, "exit")
    /\ UNCHANGED <<out, hand, reply, ctxDone, once, connClosed, sends,
                   accepted, written, confirmed, refused, calls>>

TakeNewest ==
    /\ pc[Writer] = "select" /\ out # <<>>
    /\ hand' = out[Len(out)]
    /\ out' = SubSeq(out, 1, Len(out) - 1)
    /\ Goto(Writer, "write")
    /\ UNCHANGED <<reply, ctxDone, once, connClosed, sends,
                   accepted, written, confirmed, refused, calls>>

\* select, case frame := <-c.out: ready frames may win over ctx.Done().
TakeFrame ==
    /\ pc[Writer] = "select" /\ out # <<>>
    /\ hand' = Head(out)
    /\ out' = Tail(out)
    /\ Goto(Writer, "write")
    /\ UNCHANGED <<reply, ctxDone, once, connClosed, sends,
                   accepted, written, confirmed, refused, calls>>

\* WriteMessage succeeds.
WriteOk ==
    /\ pc[Writer] = "write" /\ ~connClosed
    /\ written' = Append(written, hand)
    /\ hand' = NoFrame
    /\ IF hand.ack
       THEN reply' = [to |-> hand, err |-> FALSE] /\ Goto(Writer, "ack")
       ELSE reply' = NoReply /\ Goto(Writer, "select")
    /\ UNCHANGED <<out, ctxDone, once, connClosed, sends, accepted,
                   confirmed, refused, calls>>

WriteFailKeepsLooping ==
    /\ pc[Writer] = "write"
    /\ hand' = NoFrame
    /\ IF hand.ack
       THEN reply' = [to |-> hand, err |-> TRUE] /\ Goto(Writer, "ack")
       ELSE reply' = NoReply /\ Goto(Writer, "select")
    /\ UNCHANGED <<out, ctxDone, once, connClosed, sends, accepted, written,
                   confirmed, refused, calls>>

\* WriteMessage fails: deadline, network error or closed connection.  The
\* frame is lost and stays in `hand` as a witness.
WriteFail ==
    /\ pc[Writer] = "write"
    /\ IF hand.ack
       THEN reply' = [to |-> hand, err |-> TRUE] /\ Goto(Writer, "ack")
       ELSE reply' = NoReply /\ Goto(Writer, "exit")
    /\ UNCHANGED <<out, hand, ctxDone, once, connClosed, sends, accepted,
                   written, confirmed, refused, calls>>

AckAlwaysNil ==
    /\ pc[Writer] = "ack"
    /\ pc' = [pc EXCEPT ![reply.to.from] = "idle",
                        ![Writer] = IF reply.err THEN "exit" ELSE "select"]
    /\ confirmed' = confirmed \cup {reply.to}
    /\ reply' = NoReply
    /\ UNCHANGED <<out, hand, ctxDone, once, connClosed, sends, accepted,
                   written, refused, calls>>

\* frame.Ack <- err meets the sender's <-f.Ack; an error ends the loop.
GiveAck ==
    /\ pc[Writer] = "ack"
    /\ pc' = [pc EXCEPT ![reply.to.from] = "idle",
                        ![Writer] = IF reply.err THEN "exit" ELSE "select"]
    /\ IF reply.err
       THEN refused' = refused \cup {reply.to} /\ UNCHANGED confirmed
       ELSE confirmed' = confirmed \cup {reply.to} /\ UNCHANGED refused
    /\ reply' = NoReply
    /\ UNCHANGED <<out, hand, ctxDone, once, connClosed, sends, accepted,
                   written, calls>>

-------------------------------------------------------------------------------
(* shutdown: the body of c.closed.Do                                       *)

\* A caller of Shutdown() arrives.
CallShutdown(p) ==
    /\ p \in Closers /\ pc[p] = "idle"
    /\ Goto(p, "exit")
    /\ UNCHANGED <<out, hand, reply, ctxDone, once, connClosed, sends,
                   accepted, written, confirmed, refused, calls>>

\* The first goroutine enters the Once and cancels the context.
EnterOnce(p) ==
    /\ pc[p] = "exit" /\ once = "unused"
    /\ once' = "busy"
    /\ ctxDone' = TRUE
    /\ Goto(p, "onclose")
    /\ UNCHANGED <<out, hand, reply, connClosed, sends, accepted, written,
                   confirmed, refused, calls>>

RunOnClose(p) ==
    /\ pc[p] = "onclose"
    /\ calls' = calls + 1
    /\ Goto(p, "close")
    /\ UNCHANGED <<out, hand, reply, ctxDone, once, connClosed, sends,
                   accepted, written, confirmed, refused>>

ForgetConn(p) ==
    /\ pc[p] = "close"
    /\ once' = "used"
    /\ Goto(p, "gone")
    /\ UNCHANGED <<out, hand, reply, ctxDone, connClosed, sends, accepted, written,
                   confirmed, refused, calls>>

CloseConn(p) ==
    /\ pc[p] = "close"
    /\ connClosed' = TRUE
    /\ once' = "used"
    /\ Goto(p, "gone")
    /\ UNCHANGED <<out, hand, reply, ctxDone, sends, accepted, written,
                   confirmed, refused, calls>>

SkipIfEntered(p) ==
    /\ pc[p] = "exit" /\ once # "unused"
    /\ Goto(p, "gone")
    /\ UNCHANGED <<out, hand, reply, ctxDone, once, connClosed, sends,
                   accepted, written, confirmed, refused, calls>>

\* Every later goroutine returns only after the first one has finished.
SkipOnce(p) ==
    /\ pc[p] = "exit" /\ once = "used"
    /\ Goto(p, "gone")
    /\ UNCHANGED <<out, hand, reply, ctxDone, once, connClosed, sends,
                   accepted, written, confirmed, refused, calls>>

\* The context NewClient was given is cancelled.
ParentCancel ==
    /\ ~ctxDone
    /\ ctxDone' = TRUE
    /\ UNCHANGED <<pc, out, hand, reply, once, connClosed, sends, accepted,
                   written, confirmed, refused, calls>>

-------------------------------------------------------------------------------
Shutdown(p) == EnterOnce(p) \/ RunOnClose(p) \/ CloseConn(p) \/ SkipOnce(p)
WriteLoop   == WriterStop \/ TakeFrame \/ WriteOk \/ WriteFail \/ GiveAck

Next == \/ \E s \in Callers : \/ \E ack \in BOOLEAN : SendAccept(s, ack)
                              \/ SendReject(s)
        \/ ReadMessage \/ RouteReturn \/ ReadFail
        \/ WriteLoop
        \/ \E p \in Closers : CallShutdown(p)
        \/ \E p \in Procs : Shutdown(p)
        \/ ParentCancel

\* A goroutine that can run is run: a write returns (it has a deadline), a
\* handler and the onClose callback return, a read of a closed connection
\* fails.  select picks a random ready case, so ctx.Done() wins in the end.
\* Nothing makes a caller send, a peer speak or fail, or anyone shut down.
Fairness ==
    /\ WF_vars(RouteReturn)
    /\ WF_vars(connClosed /\ ReadFail)
    /\ WF_vars(WriteLoop)
    /\ SF_vars(WriterStop)
    /\ \A p \in Procs : WF_vars(Shutdown(p))

Safety == Init /\ [][Next]_vars
Spec   == Safety /\ Fairness

-------------------------------------------------------------------------------
(* Properties                                                              *)

ShutdownLabel == {"exit", "onclose", "close", "gone"}
Label == {"idle", "await", "read", "route", "select", "write", "ack"}
         \cup ShutdownLabel

PcOK ==
    /\ pc \in [Procs -> Label]
    /\ \A s \in Senders : pc[s] \in {"idle", "await"}
    /\ \A k \in Closers : pc[k] \in {"idle"} \cup ShutdownLabel
    /\ pc[Reader] \in {"read", "route"} \cup ShutdownLabel
    /\ pc[Writer] \in {"select", "write", "ack"} \cup ShutdownLabel

FramesOK ==
    /\ out \in Seq(Frame) /\ Len(out) \in 0..Cap
    /\ hand \in Frame \cup {NoFrame}
    /\ reply \in Reply
    /\ sends \in [Callers -> 0..MaxSends]
    /\ accepted \in Seq(Frame) /\ written \in Seq(Frame)
    /\ confirmed \in SUBSET Frame /\ refused \in SUBSET Frame

FlagsOK ==
    /\ ctxDone \in BOOLEAN /\ connClosed \in BOOLEAN
    /\ once \in {"unused", "busy", "used"}
    /\ calls \in Nat

\* Every variable has its type; the channel never holds more than its capacity.
TypeOK == PcOK /\ FramesOK /\ FlagsOK

\* The frames accepted and not written: the one the writer took, then the channel.
Held    == IF hand = NoFrame THEN 0 ELSE 1
Pending == Held + Len(out)

\* No frame is lost, duplicated or reordered between Send and the connection
\* (client.go Send, writeLoop): what was accepted is what was written, then the
\* frame in the writer's hand, then the channel's content.
NoGapNoReorder ==
    /\ Len(accepted) = Len(written) + Pending
    /\ \A i \in 1..Len(written) : written[i] = accepted[i]
    /\ hand # NoFrame => hand = accepted[Len(written) + 1]
    /\ \A i \in 1..Len(out) : out[i] = accepted[Len(written) + Held + i]

\* The error a Send with an Ack returns is the truth about that frame: nil only
\* for a frame the connection took, an error only for one it did not
\* (client.go:89-91 and 142-145).
AckTellsTheTruth ==
    /\ confirmed \subseteq {written[i] : i \in 1..Len(written)}
    /\ refused \cap {written[i] : i \in 1..Len(written)} = {}

\* shutdown() is a barrier for everyone who calls it: when it returns, in
\* whichever goroutine, the context is cancelled, the onClose callback has run
\* exactly once and the connection is closed.  Register relies on it before it
\* stores the replacement (hub.go:187-196).
ShutdownIsABarrier ==
    /\ calls <= 1
    /\ \A p \in Procs : pc[p] = "gone" => ctxDone /\ connClosed /\ calls = 1

\* Once the context is cancelled, whoever cancelled it, both loops end: no
\* goroutine of a closed client leaks (client.go readLoop, writeLoop, shutdown).
LoopsEnd == ctxDone ~> (pc[Reader] = "gone" /\ pc[Writer] = "gone")

\* The connection implements the abstract pipe, including that an open client
\* catches up with what it accepted.
Pipe == INSTANCE FramePipe WITH MaxLag <- Cap + 1, delivered <- written,
                                closed <- ctxDone
ImplementsPipe == Pipe!PipeSpec

\* frame.go:7 gives Ack as the channel that confirms whether an asynchronous
\* message was sent: a caller that asked for it gets an answer.
AckAnswered == \A s \in Senders : pc[s] = "await" ~> pc[s] = "idle"
==============================================================================
