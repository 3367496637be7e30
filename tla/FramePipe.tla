------------------------------ MODULE FramePipe ------------------------------
(***************************************************************************)
(* What one gohub connection promises to the callers of Client.Send: a     *)
(* pipe that hands frames to the websocket in the order they were          *)
(* accepted, each at most once and without a gap, never more than MaxLag   *)
(* frames behind, and that catches up for as long as the client is open.   *)
(* Client.tla implements it.                                               *)
(***************************************************************************)
EXTENDS Naturals, Sequences

CONSTANTS Frame,  \* the frames a caller may send
          MaxLag  \* accepted frames that may be waiting at one time

VARIABLES accepted,   \* the frames Send has accepted, oldest first
          delivered,  \* the frames written to the connection, oldest first
          closed      \* the client's context is cancelled

pipeVars == <<accepted, delivered, closed>>

PipeInit == /\ accepted = <<>>
            /\ delivered = <<>>
            /\ closed = FALSE

Accept(f) == /\ Len(accepted) < Len(delivered) + MaxLag
             /\ accepted' = Append(accepted, f)
             /\ UNCHANGED <<delivered, closed>>

\* Only the next undelivered frame may be delivered.
Deliver == /\ Len(delivered) < Len(accepted)
           /\ delivered' = Append(delivered, accepted[Len(delivered) + 1])
           /\ UNCHANGED <<accepted, closed>>

Close == /\ ~closed
         /\ closed' = TRUE
         /\ UNCHANGED <<accepted, delivered>>

PipeNext == (\E f \in Frame : Accept(f)) \/ Deliver \/ Close

PipeSafety == PipeInit /\ [][PipeNext]_pipeVars

\* While the client stays open, an accepted frame is delivered.
PipeSpec == PipeSafety /\ WF_pipeVars(~closed /\ Deliver)
==============================================================================
