------------------------------- MODULE BinRel -------------------------------
(***************************************************************************)
(* Uni/CProg/binRel.c: a relation R on 0 .. n-1 is read pair by pair into a *)
(* matrix, turned into a linked list and into an array of lists, and made  *)
(* into S, which is to be the equivalence relation R generates.            *)
(* A matrix is the set of the pairs whose entry is 1.                      *)
(***************************************************************************)
EXTENDS Integers, FiniteSets, Functions, Selection

CONSTANTS MaxN,         \* bound: n
          MaxPairs      \* bound: pairs read

VARIABLES
    pc,         \* where main stands
    n,
    Rmat, Smat, \* matrices
    Rli, Sli,   \* linked lists of pairs
    Rar, Sar,   \* for every element the list of its successors
    round       \* of the pass that makes Smat transitive

vars == <<pc, n, Rmat, Smat, Rli, Sli, Rar, Sar, round>>

Nodes == 0 .. n - 1

Init ==
    /\ pc = "input"
    /\ n \in 0 .. MaxN
    /\ Rmat = {} /\ Smat = {}
    /\ Rli = <<>> /\ Sli = <<>> /\ Rar = <<>> /\ Sar = <<>>
    /\ round = 0

-----------------------------------------------------------------------------
(* The functions                                                           *)

\* The fields of a matrix in the order of the loops over i and j.
Fields == [r \in 1 .. n * n |-> <<(r - 1) \div n, (r - 1) % n>>]

Reflexive(M) == \A i \in Nodes : <<i, i>> \in M
Symmetric(M) == \A i, j \in Nodes : <<i, j>> \in M => <<j, i>> \in M

\* The test for an equivalence.  Its condition for transitivity is false for
\* i = j = k, so that no relation but the empty one on nothing passes.
adjazenzmatrix(M) ==
    /\ Reflexive(M) /\ Symmetric(M)
    /\ \A i, j, k \in Nodes :
         ~ (<<i, j>> \in M /\ <<j, k>> \in M) /\ <<i, k>> \in M

\* Mutant of MatZuLi: the last row is left out.
LastRowLost(M) == Chosen(Fields, {p \in M : p[1] < n - 1})

MatZuLi(M) == Chosen(Fields, M)
MatZuAr(M) == [i \in Nodes |-> Chosen([j \in 1 .. n |-> j - 1], {j \in Nodes : <<i, j>> \in M})]

-----------------------------------------------------------------------------
(* main                                                                    *)

\* Two elements below n: a pair.  Larger ones are asked for again.
ReadPair ==
    /\ pc = "input"
    /\ Cardinality(Rmat) < MaxPairs
    /\ \E a, b \in Nodes : Rmat' = Rmat \cup {<<a, b>>}
    /\ UNCHANGED <<pc, n, Smat, Rli, Sli, Rar, Sar, round>>

\* A negative element ends the input.
EndInput ==
    /\ pc = "input"
    /\ Rli' = MatZuLi(Rmat) /\ Rar' = MatZuAr(Rmat)
    /\ pc' = "closure"
    /\ UNCHANGED <<n, Rmat, Smat, Sli, Sar, round>>

\* RzuS: an equivalence stays what it is, anything else is made reflexive and
\* symmetric before one pass is to make it transitive.
Begin ==
    /\ pc = "closure"
    /\ IF adjazenzmatrix(Rmat)
       THEN Smat' = Rmat /\ pc' = "convert"
       ELSE /\ Smat' = Rmat \cup {<<i, i>> : i \in Nodes} \cup {<<p[2], p[1]>> : p \in Rmat}
            /\ pc' = "pass"
    /\ round' = 1
    /\ UNCHANGED <<n, Rmat, Rli, Sli, Rar, Sar>>

\* Mutant of Pass: j need not succeed i.
PassAny ==
    /\ pc = "pass" /\ round <= n * n
    /\ LET i == Fields[round][1]
           j == Fields[round][2]
       IN  Smat' = Smat \cup {p \in {i} \X Nodes : <<j, p[2]>> \in Smat}
    /\ round' = round + 1
    /\ UNCHANGED <<pc, n, Rmat, Rli, Sli, Rar, Sar>>

\* One i and one j: if j succeeds i, so do all the successors of j.
Pass ==
    /\ pc = "pass" /\ round <= n * n
    /\ LET i == Fields[round][1]
           j == Fields[round][2]
       IN  Smat' = Smat \cup {p \in {i} \X Nodes : <<i, j>> \in Smat /\ <<j, p[2]>> \in Smat}
    /\ round' = round + 1
    /\ UNCHANGED <<pc, n, Rmat, Rli, Sli, Rar, Sar>>

Convert ==
    /\ pc = "convert" \/ (pc = "pass" /\ round > n * n)
    /\ Sli' = MatZuLi(Smat) /\ Sar' = MatZuAr(Smat)
    /\ pc' = "done"
    /\ UNCHANGED <<n, Rmat, Smat, Rli, Rar, round>>

Next == ReadPair \/ EndInput \/ Begin \/ Pass \/ Convert

-----------------------------------------------------------------------------
(* Properties                                                              *)

\* The type invariant of the model.
TypeOK ==
    /\ pc \in {"input", "closure", "pass", "convert", "done"}
    /\ {Rmat, Smat} \subseteq SUBSET (Nodes \X Nodes)
    /\ round \in 0 .. n * n + 1
    /\ Range(Rli) \cup Range(Sli) \subseteq Nodes \X Nodes

\* A chain of pairs of R, in either direction, leads from i to j.
Linked(i, j) ==
    \A C \in SUBSET Nodes :
        (i \in C /\ \A p \in Rmat : p[1] \in C <=> p[2] \in C) => j \in C

\* S is made of pairs that R links, all of them as long as n is at most 3:
\* with four elements one pass is not enough.
ClosureIsLinked ==
    pc = "done" =>
      /\ \A p \in Smat : Linked(p[1], p[2])
      /\ Rmat \subseteq Smat
      /\ n <= 3 => \A i, j \in Nodes : Linked(i, j) => <<i, j>> \in Smat

\* The list and the array say of each relation what its matrix says, and
\* every pair once, in the order of the matrix.
Increasing(s, F(_)) == \A x, y \in DOMAIN s : x < y => F(s[x]) < F(s[y])

SameRelation(M, li, ar) ==
    /\ Range(li) = M
    /\ Increasing(li, LAMBDA p : p[1] * n + p[2])
    /\ UNION {{<<i, j>> : j \in Range(ar[i])} : i \in Nodes} = M
    /\ \A i \in Nodes : Increasing(ar[i], LAMBDA j : j)

FormsAgree ==
    /\ pc # "input" => SameRelation(Rmat, Rli, Rar)
    /\ pc = "done" => SameRelation(Smat, Sli, Sar)
=============================================================================
