---------------------------- MODULE StreamStore ----------------------------
(***************************************************************************)
(* What the exercises ask of every receiver that serves several senders at *)
(* once: the data of each source is kept apart from that of the others, in *)
(* the order it was sent, without a gap and without a repetition, and      *)
(* nothing is added once the source has ended.                             *)
(***************************************************************************)
EXTENDS Naturals, Sequences

CONSTANT Sources        \* the processes that send

VARIABLES
    stored,     \* stored[s]: the numbers of the lines of s that are stored
    finished    \* finished[s]: the end of s has been seen

Init ==
    /\ stored = [s \in Sources |-> <<>>]
    /\ finished = [s \in Sources |-> FALSE]

Store(s) ==
    /\ ~ finished[s]
    /\ stored' = [stored EXCEPT ![s] = Append(@, Len(@) + 1)]
    /\ UNCHANGED finished

Finish(s) ==
    /\ ~ finished[s]
    /\ finished' = [finished EXCEPT ![s] = TRUE]
    /\ UNCHANGED stored

Next == \E s \in Sources : Store(s) \/ Finish(s)

Spec == Init /\ [][Next]_<<stored, finished>>
=============================================================================
