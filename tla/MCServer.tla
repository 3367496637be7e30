-------------------------------- MODULE MCServer --------------------------------
\* Server.tla for TLC: two connections under one id with every choice of tokens,
\* one of which sends messages.  Shutdown comes in behaviours of connections
\* without tokens, which are put in the room by the application only; the
\* application does so where the silent connection has no token, and, if it
\* overlaps with Shutdown, is not there.
EXTENDS Server

NoTokens(C) == \A c \in C : token[c] \in {"unasked", "absent"}
Silent == Conns \ Talkers

FromSDK == \E i \in Ids : call[i] # "idle" \/ entered[i] = "sdk"

Bound == /\ stop = "no" \/ NoTokens(Conns)
         /\ FromSDK => /\ NoTokens(Silent)
                       /\ stop = "no" \/ \A c \in Silent : token[c] = "unasked"

MCNext == SNext /\ Bound'

MCSpec == SInit /\ [][MCNext]_svars /\ SFairness
===============================================================================
