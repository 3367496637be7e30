------------------------------- MODULE MCUnicast -------------------------------
\* Unicast.tla for TLC: two connections under one id, one message.  A message is
\* pushed in behaviours that do not close the hub.  The actions treat the
\* connections alike, so the first to be made and to enter Register may be called 1.
EXTENDS Unicast

InOrder == \A c, d \in Conns :
               c < d => \A Before \in {{"none"}, {"none", "register"}} :
                           setup[c] \in Before => setup[d] \in Before

MCNext == /\ UNext
          /\ hub' = "up" \/ \A m \in Msgs : push'[m] = None
          /\ InOrder'

MCSpec == UInit /\ [][MCNext]_uvars /\ UFairness
===============================================================================
