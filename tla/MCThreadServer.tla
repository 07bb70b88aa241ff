---------------------------- MODULE MCThreadServer ----------------------------
(* TLC instances of ThreadServer.                                           *)
EXTENDS ThreadServer, TLC

Symmetry == Permutations(Clients)
=============================================================================
