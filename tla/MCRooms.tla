------------------------------- MODULE MCRooms -------------------------------
\* Rooms.tla for TLC.  Two callers, one name and two room objects give a caller
\* that still holds the deleted room while the next one is in use; two ids and
\* three connections give a member that reconnects.
EXTENDS Rooms, TLC

\* Sound for the safety properties the runs check: the actions treat the members of each set alike.
RoomsSymmetry == Permutations(Callers) \cup Permutations(Objs)
                 \cup Permutations(Ids) \cup Permutations(Conns)
===============================================================================
