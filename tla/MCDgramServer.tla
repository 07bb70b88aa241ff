---- MODULE MCDgramServer ----
\* Model checking of DgramServer on small instances.
EXTENDS DgramServer, TLC

Symmetry == Permutations(Clients)
=============================================================================
