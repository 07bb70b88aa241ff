----------------------------- MODULE Selection -----------------------------
(***************************************************************************)
(* What the loops do that walk along a matrix, a list or the lines of a    *)
(* sender and keep some of what they find: MatZuLi and MatZuAr of binRel.c,*)
(* clreven of listen.c, empfaenger.c of u1.                                *)
(***************************************************************************)
EXTENDS Integers, Sequences

\* The members of s that are in S, in their order.
Chosen(s, S) ==
    LET f[k \in 0 .. Len(s)] ==
          IF k = 0 THEN <<>> ELSE IF s[k] \in S THEN Append(f[k - 1], s[k]) ELSE f[k - 1]
    IN  f[Len(s)]
=============================================================================
