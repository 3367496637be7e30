------------------------------- MODULE MCCluster -------------------------------
\* Cluster.tla for TLC.  Two nodes and two messages, sent on one of the nodes; in
\* a run one of the topics is in use and the goroutine of the other has given up.
EXTENDS Cluster

CONSTANTS m1, m2, n1, n2

Pair(op1, f1, op2, f2) == what = [m \in Msgs |-> IF m = m1 THEN [op |-> op1, frame |-> f1]
                                                 ELSE [op |-> op2, frame |-> f2]]

MCInit == /\ from = [m \in Msgs |-> n1]
          /\ \/ /\ loop = [n \in Nodes |-> [t \in Topics |-> IF t = "room" THEN "deaf" ELSE "check"]]
                /\ has = {}
                /\ kind = "exact"
                /\ \/ Pair("broadcast", "text", "other", "json")
                   \/ Pair("broadcast", "loose", "raw", "text")
                   \/ Pair("anon", "text", "anon", "binary")
             \/ /\ loop = [n \in Nodes |-> [t \in Topics |-> IF t = "room" THEN "check" ELSE "deaf"]]
                /\ \/ kind = "noop" /\ has = Nodes /\ Pair("room", "loose", "room", "text")
                   \/ kind = "exact" /\ has = {n2} /\ Pair("room", "loose", "room", "text")
                   \/ kind = "wildcard" /\ has = Nodes
                      /\ Pair("room", "loose", "raw", "text")
          /\ Init

MCSpec == MCInit /\ [][Next]_vars /\ Fairness
===============================================================================
