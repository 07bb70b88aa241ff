------------------------------ MODULE ListSums ------------------------------
(***************************************************************************)
(* Uni/CProg/1. Semester/listen.c: two lists of random numbers are joined, *)
(* sums of two elements are put in, even numbers are taken out, and the    *)
(* list is freed.  The nodes lie on a heap, and what is freed may be read. *)
(***************************************************************************)
EXTENDS Integers, SequencesExt, Selection

CONSTANTS Elements,     \* the numbers drawn
          MaxLen        \* bound: length of each list

Null  == 0
\* Every round of addtwo but a last one passes three nodes, and makes one.
Nodes == 1 .. 3 * MaxLen + 1

VARIABLES
    pc,         \* where main stands
    keeps,      \* freed memory keeps the pointers it held
    elem, next, \* the nodes
    used,       \* nodes allocated so far
    freed,      \* nodes that were given back
    liste1, liste2,
    liste, lauf,    \* the variables of the function that runs
    given       \* history: the numbers of the two lists as they were drawn

heap == <<elem, next, used, freed>>
vars == <<pc, keeps, heap, liste1, liste2, liste, lauf, given>>

Init ==
    /\ pc = "draw1" /\ keeps \in BOOLEAN
    /\ elem = [x \in Nodes |-> 0] /\ next = [x \in Nodes |-> Null]
    /\ used = 0 /\ freed = {}
    /\ liste1 = Null /\ liste2 = Null /\ liste = Null /\ lauf = Null
    /\ given = <<<<>>, <<>>>>

\* The node after x steps, and the list from there on.
NodesFrom(x) ==
    LET at[k \in 0 .. used] == IF k = 0 THEN x ELSE LET y == at[k - 1] IN IF y = Null THEN Null ELSE next[y]
    IN  Chosen([k \in 1 .. used + 1 |-> at[k - 1]], Nodes)
Contents(x) == [k \in DOMAIN NodesFrom(x) |-> elem[NodesFrom(x)[k]]]

\* What cannot be foreseen: a pointer read from a freed node that did not keep
\* it, a node reached from Null, a node freed twice.
Undefined ==
    /\ pc' = "undefined"
    /\ UNCHANGED <<keeps, heap, liste1, liste2, liste, lauf, given>>

-----------------------------------------------------------------------------
(* main: the lists are made and joined                                     *)

\* A number for list 1 goes to its end.
Draw1(e) ==
    /\ pc = "draw1" /\ Len(given[1]) < MaxLen
    /\ LET k == used + 1 IN
         /\ used' = k /\ elem' = [elem EXCEPT ![k] = e]
         /\ next' = IF liste1 = Null THEN next ELSE [next EXCEPT ![lauf] = k]
         /\ liste1' = IF liste1 = Null THEN k ELSE liste1
         /\ lauf' = k
    /\ given' = [given EXCEPT ![1] = Append(@, e)]
    /\ UNCHANGED <<pc, keeps, freed, liste2, liste>>

Zero1 ==
    /\ pc = "draw1" /\ pc' = "draw2"
    /\ UNCHANGED <<keeps, heap, liste1, liste2, liste, lauf, given>>

\* A number for list 2 goes to its front.
Draw2(e) ==
    /\ pc = "draw2" /\ Len(given[2]) < MaxLen
    /\ LET k == used + 1 IN
         /\ used' = k /\ elem' = [elem EXCEPT ![k] = e]
         /\ next' = [next EXCEPT ![k] = liste2] /\ liste2' = k
    /\ given' = [given EXCEPT ![2] = Append(@, e)]
    /\ UNCHANGED <<pc, keeps, freed, liste1, liste, lauf>>

verkettung ==
    /\ pc = "draw2"
    /\ IF liste1 = Null
       THEN liste1' = liste2 /\ UNCHANGED next
       ELSE next' = [next EXCEPT ![Last(NodesFrom(liste1))] = liste2] /\ UNCHANGED liste1
    /\ liste' = liste1' /\ pc' = "addtwo"
    /\ UNCHANGED <<keeps, elem, used, freed, liste2, lauf, given>>

-----------------------------------------------------------------------------
(* addtwo                                                                  *)

\* Mutants of AddTwo: an element is added to the next one also when that is the
\* last, and the loop steps on to the next node instead of the one after two.
AddLastToo ==
    /\ pc = "addtwo" /\ liste # Null /\ next[liste] # Null
    /\ LET k     == used + 1
           two   == next[liste]
           three == next[two]
       IN  /\ used' = k
           /\ elem' = [elem EXCEPT ![k] = elem[liste] + elem[two]]
           /\ next' = [next EXCEPT ![k] = IF three # Null THEN next[three] ELSE Null, ![two] = k]
           /\ liste' = next'[k]
    /\ UNCHANGED <<pc, keeps, freed, liste1, liste2, lauf, given>>

\* One round: the sum of this element and the next, of those that are not the
\* last, becomes a node after them.  The node after that is skipped for good.
AddTwo ==
    /\ pc = "addtwo" /\ liste # Null /\ next[liste] # Null
    /\ LET k     == used + 1
           two   == next[liste]
           three == next[two]
       IN  /\ used' = k
           /\ elem' = [elem EXCEPT ![k] = elem[liste] + IF three # Null THEN elem[two] ELSE 0]
           /\ next' = [next EXCEPT ![k] = IF three # Null THEN next[three] ELSE Null, ![two] = k]
           /\ liste' = next'[k]
    /\ UNCHANGED <<pc, keeps, freed, liste1, liste2, lauf, given>>

\* A single element has no next one.
AddToOne ==
    /\ pc = "addtwo" /\ liste # Null /\ next[liste] = Null
    /\ Undefined

AddEnd ==
    /\ pc = "addtwo" /\ liste = Null
    /\ pc' = "front" /\ liste' = liste1
    /\ UNCHANGED <<keeps, heap, liste1, liste2, lauf, given>>

-----------------------------------------------------------------------------
(* clreven and freigabe                                                    *)

Even(x) == elem[x] % 2 = 0
Readable(x) == x \notin freed \/ keeps

\* Mutant of ClearFront: the list keeps its old front.
ClearFrontOnly ==
    /\ pc = "front" /\ liste # Null /\ Even(liste)
    /\ freed' = freed \cup {liste} /\ liste' = next[liste]
    /\ UNCHANGED <<pc, keeps, elem, next, used, liste1, liste2, lauf, given>>

\* Take an even number from the front.
ClearFront ==
    /\ pc = "front" /\ liste # Null /\ Even(liste)
    /\ freed' = freed \cup {liste}
    /\ liste' = next[liste] /\ liste1' = liste'
    /\ UNCHANGED <<pc, keeps, elem, next, used, liste2, lauf, given>>

FrontIsOdd ==
    /\ pc = "front" /\ (liste # Null => ~ Even(liste))
    /\ IF liste = Null
       THEN pc' = "free" /\ UNCHANGED lauf
       ELSE pc' = "inside" /\ lauf' = next[liste]
    /\ UNCHANGED <<keeps, heap, liste1, liste2, liste, given>>

\* One round further in: the node taken out becomes the one that is gone on
\* from, and its pointer is read after it was freed.
ClearInside ==
    /\ pc = "inside" /\ lauf # Null
    /\ freed' = IF Even(lauf) THEN freed \cup {lauf} ELSE freed
    /\ next' = IF Even(lauf) THEN [next EXCEPT ![liste] = next[lauf]] ELSE next
    /\ liste' = lauf
    /\ IF lauf \in freed' /\ ~ keeps
       THEN pc' = "undefined" /\ UNCHANGED lauf
       ELSE lauf' = next'[lauf] /\ UNCHANGED pc
    /\ UNCHANGED <<keeps, elem, used, liste1, liste2, given>>

ClearEnd ==
    /\ pc = "inside" /\ lauf = Null
    /\ pc' = "free" /\ liste' = liste1
    /\ UNCHANGED <<keeps, heap, liste1, liste2, lauf, given>>

freigabe ==
    /\ pc = "free" /\ liste # Null /\ liste \notin freed
    /\ freed' = freed \cup {liste} /\ liste' = next[liste]
    /\ UNCHANGED <<pc, keeps, elem, next, used, liste1, liste2, lauf, given>>

FreeTwice ==
    /\ pc = "free" /\ liste # Null /\ liste \in freed
    /\ Undefined

End ==
    /\ pc = "free" /\ liste = Null
    /\ pc' = "done"
    /\ UNCHANGED <<keeps, heap, liste1, liste2, liste, lauf, given>>

Draw == Zero1 \/ verkettung \/ \E e \in Elements : Draw1(e) \/ Draw2(e)
Run  == AddTwo \/ AddToOne \/ AddEnd \/ ClearFront \/ FrontIsOdd \/ ClearInside \/ ClearEnd
        \/ freigabe \/ FreeTwice \/ End
Next == Draw \/ Run
-----------------------------------------------------------------------------
(* Properties                                                              *)

\* The type invariant of the model.
TypeOK ==
    /\ pc \in {"draw1", "draw2", "addtwo", "front", "inside", "free", "done", "undefined"}
    /\ used \in 0 .. 3 * MaxLen + 1 /\ freed \subseteq 1 .. used
    /\ {liste1, liste2, liste, lauf} \subseteq {Null} \cup 1 .. used

Joined == given[1] \o Reverse(given[2])

\* Of three elements the last gives way to the sum of the others; two that are
\* left over stay, with the first of them for a sum.
Summed ==
    LET g == Joined
        Last2(m) == m % 3 = 0 /\ m > Len(g)
    IN  [m \in 1 .. Len(g) + (IF Len(g) % 3 = 2 THEN 1 ELSE 0) |->
            IF m % 3 # 0 THEN g[m] ELSE g[m - 2] + IF Last2(m) THEN 0 ELSE g[m - 1]]

\* The list that clreven gets is the one summed as above, whose length was not
\* 1, 4, 7 ...: for those addtwo reads behind the list.
ListIsSummed ==
    /\ pc = "front" /\ liste = liste1 /\ freed = {} => Contents(liste1) = Summed /\ Len(Joined) % 3 # 1
    /\ pc = "undefined" => Len(Joined) % 3 = 1 \/ \E m \in 2 .. Len(Summed) : Summed[m] % 2 = 0

\* From the first odd number on, no even number follows another.
EvensApart ==
    \A m \in 2 .. Len(Summed) - 1 : Summed[m] % 2 = 0 /\ Summed[m + 1] % 2 = 0 =>
        \A l \in 1 .. m : Summed[l] % 2 = 0

\* What is to be freed at the end are the odd numbers in their order, and no
\* node is freed twice, as long as no even number follows another.
OddsAreLeft ==
    (pc \in {"free", "done"} \/ (pc = "undefined" /\ keeps /\ freed # {})) /\ EvensApart =>
        /\ pc # "undefined"
        /\ pc = "free" /\ liste = liste1 =>
             Contents(liste1) = Chosen(Summed, {e \in Int : e % 2 = 1})
=============================================================================
