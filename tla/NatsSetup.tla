------------------------------- MODULE NatsSetup -------------------------------
(***************************************************************************)
(* setupJetStream (pkg/bus/nats/nats.go) on the nodes of a cluster that    *)
(* start at the same time: each looks the stream up, makes it if there is  *)
(* none, and adds its own subject to it if that is missing.  A node's      *)
(* subject is its service name, cfg.Name.                                  *)
(***************************************************************************)
EXTENDS Naturals

CONSTANTS Nodes,  \* nodes that start
          Names,  \* service names
          Tries   \* attempts to find or make the stream (3)

VARIABLES name,     \* the service name of each node
          subjects, \* the stream's subjects at the server; {} for no stream
          step,     \* where setupJetStream is
          seen,     \* streamInfo.Config.Subjects, as read
          tried     \* attempts used up

vars == <<name, subjects, step, seen, tried>>

Init == /\ name \in [Nodes -> Names]
        /\ subjects \in {{}} \cup {{x} : x \in Names}
        /\ step = [n \in Nodes |-> "info"]
        /\ seen = [n \in Nodes |-> {}]
        /\ tried = [n \in Nodes |-> 0]

StepTo(n, label) == step' = [step EXCEPT ![n] = label]

\* An attempt is used up.
TryAgain(n) == /\ tried' = [tried EXCEPT ![n] = @ + 1]
               /\ StepTo(n, IF tried'[n] = Tries THEN "failed" ELSE "info")

\* StreamInfo: the stream is there, it is not, or the question fails.
StreamInfo(n) ==
    /\ step[n] = "info"
    /\ \/ /\ subjects # {}
          /\ seen' = [seen EXCEPT ![n] = subjects]
          /\ StepTo(n, IF name[n] \in subjects THEN "ready" ELSE "update")
          /\ UNCHANGED tried
       \/ subjects = {} /\ StepTo(n, "add") /\ UNCHANGED <<seen, tried>>
       \/ TryAgain(n) /\ UNCHANGED seen
    /\ UNCHANGED <<name, subjects>>

\* AddStream: a stream of another configuration that was made meanwhile, or a
\* failure, costs an attempt; the failure may be that of the answer.
AddStream(n) ==
    /\ step[n] = "add"
    /\ \/ /\ subjects \in {{}, {name[n]}}
          /\ subjects' = {name[n]}
          /\ (StepTo(n, "ready") /\ UNCHANGED tried) \/ TryAgain(n)
       \/ UNCHANGED subjects /\ TryAgain(n)
    /\ UNCHANGED <<name, seen>>

UpdateToOwn(n) ==
    /\ step[n] = "update"
    /\ subjects' = {name[n]}
    /\ StepTo(n, "ready")
    /\ UNCHANGED <<name, seen, tried>>

\* UpdateStream writes what was read with the own subject added to it; without an
\* answer the node gives up.
UpdateStream(n) ==
    /\ step[n] = "update"
    /\ \/ /\ subjects' = seen[n] \cup {name[n]}
          /\ \E end \in {"ready", "failed"} : StepTo(n, end)
       \/ UNCHANGED subjects /\ StepTo(n, "failed")
    /\ UNCHANGED <<name, seen, tried>>

Next == \E n \in Nodes : StreamInfo(n) \/ AddStream(n) \/ UpdateStream(n)
===============================================================================
