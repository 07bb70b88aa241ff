---- MODULE MCMsgQueue ----
\* Model checking of MsgQueue on small instances.
EXTENDS MsgQueue, TLC

Symmetry == Permutations(Senders)
=============================================================================
