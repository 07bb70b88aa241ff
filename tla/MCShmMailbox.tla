---------------------------- MODULE MCShmMailbox ----------------------------
(* TLC instances of ShmMailbox.                                            *)
EXTENDS ShmMailbox, TLC

Symmetry == Permutations(Senders)
=============================================================================
