------------------------------ MODULE MCClient -------------------------------
\* Client.tla for TLC.  A sender, a handler that sends from the readLoop, a
\* closer and a parent cancellation are all present, so every race on `out`, the
\* context and the Once occurs.  Liveness is checked: no symmetry.
EXTENDS Client, TLC
==============================================================================
