------------------------------ MODULE MCRegistry ------------------------------
\* Registry.tla for TLC.  With three connections, an id that repeats and an id of
\* one connection's own, a connection is replaced by two others at once, or by
\* one next to a bystander.
EXTENDS Registry, TLC

\* Sound for the runs without liveness: the actions treat all connections alike.
ConnSymmetry == Permutations(Conns)
===============================================================================
