----------------------------- MODULE MailboxSpec -----------------------------
(***************************************************************************)
(* What the exchange of Uni/bsys2/u6 promises its users (Bs2ueb6.txt): a   *)
(* channel for one message at a time.  A sender registers, sends lines and *)
(* deregisters; every message is delivered once and none is replaced while *)
(* it waits; the receiver closes the channel when no sender it knows of is *)
(* registered.  What is put into the channel after that goes nowhere.      *)
(***************************************************************************)
EXTENDS Integers, Sequences

CONSTANTS Senders, Empty

VARIABLES
    slot,       \* the message that waits, or Empty
    delivered,  \* delivered[s]: the messages of s that were delivered
    open        \* the receiver still takes messages

vars == <<slot, delivered, open>>

Init ==
    /\ slot = Empty
    /\ delivered = [s \in Senders |-> <<>>]
    /\ open = TRUE

New(s) == delivered[s] = <<>>
Out(s) == delivered[s] # <<>> /\ delivered[s][Len(delivered[s])].kind = "abm"

Put(s, kind) ==
    /\ open
    /\ slot = Empty
    /\ ~ Out(s)
    /\ New(s) <=> kind = "anm"
    /\ slot' = [from |-> s, kind |-> kind, n |-> Len(delivered[s]) + 1]
    /\ UNCHANGED <<delivered, open>>

Deliver ==
    /\ open
    /\ slot # Empty
    /\ delivered' = [delivered EXCEPT ![slot.from] = Append(@, slot)]
    /\ slot' = Empty
    /\ UNCHANGED open

\* A message that is still waiting when the channel closes is discarded.
Close ==
    /\ open
    /\ \A s \in Senders : New(s) \/ Out(s)
    /\ open' = FALSE
    /\ slot' = Empty
    /\ UNCHANGED delivered

Next ==
    \/ \E s \in Senders, kind \in {"anm", "msg", "abm"} : Put(s, kind)
    \/ Deliver
    \/ Close

Spec == Init /\ [][Next]_vars
=============================================================================
