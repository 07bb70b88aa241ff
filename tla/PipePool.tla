------------------------------ MODULE PipePool ------------------------------
(***************************************************************************)
(* Uni/Bsys/ueb12: every sender creates a named pipe of its own; the       *)
(* receiver goes round the pipe names, forks a child for each pipe it      *)
(* finds, and collects the children with a waitpid that does not block     *)
(* (empfaenger.c, sender.c).                                               *)
(***************************************************************************)
EXTENDS Integers, Sequences, FiniteSets

CONSTANTS Senders,      \* the sender processes
          NPipes,       \* the number of pipe names
          MaxLines,     \* bound: lines typed into all senders
          MaxStarts,    \* bound: starts of the receiver
          MaxKills      \* bound: senders killed

Pipes == 1 .. NPipes
NoPid == -1

VARIABLES
    spc,        \* where each sender stands; "gone" after any kind of end
    num,        \* num[s]: i of the loop, then the pipe of sender s
    sent,       \* lines the senders have written
    exists,     \* the pipes that exist
    pending,    \* pending[p]: records in pipe p
    child,      \* the receiver's children; a pid is an index
    recv,       \* the variables of the receiver, and where it stands
    starts, kills

senderVars == <<spc, num, sent>>
vars == <<senderVars, exists, pending, child, recv, starts, kills>>

\* The local variables of the receiver when it is started.
Fresh(pc) == [pc |-> pc, i |-> 1, j |-> 1, anz_cld |-> 0,
              working |-> [p \in Pipes |-> FALSE],
              pids |-> [p \in Pipes |-> NoPid]]

Init ==
    /\ spc = [s \in Senders |-> "test"]
    /\ num = [s \in Senders |-> 1]
    /\ sent = 0
    /\ exists = {}
    /\ pending = [p \in Pipes |-> 0]
    /\ child = <<>>
    /\ recv = Fresh("off")
    /\ starts = 0 /\ kills = 0

-----------------------------------------------------------------------------
(* sender.c                                                                *)

Goto(s, l) == spc' = [spc EXCEPT ![s] = l]

\* Look for the first name that does not exist; without one give up.
SenderTest(s) ==
    /\ spc[s] = "test"
    /\ \/ num[s] \notin exists /\ Goto(s, "mkfifo") /\ UNCHANGED num
       \/ /\ num[s] \in exists /\ num[s] < NPipes
          /\ num' = [num EXCEPT ![s] = @ + 1] /\ UNCHANGED spc
       \/ num[s] \in exists /\ num[s] = NPipes /\ Goto(s, "gone") /\ UNCHANGED num
    /\ UNCHANGED <<sent, exists, pending, child, recv, starts, kills>>

\* mkfifo fails when another sender was faster.
SenderMkfifo(s) ==
    /\ spc[s] = "mkfifo"
    /\ Goto(s, IF num[s] \in exists THEN "gone" ELSE "open")
    /\ exists' = exists \cup {num[s]}
    /\ UNCHANGED <<num, sent, pending, child, recv, starts, kills>>

SenderLine(s) ==
    /\ spc[s] = "input"
    /\ sent < MaxLines
    /\ sent' = sent + 1
    /\ pending' = [pending EXCEPT ![num[s]] = @ + 1]
    /\ UNCHANGED <<spc, num, exists, child, recv, starts, kills>>

SenderEnd(s) ==
    /\ spc[s] = "input"
    /\ Goto(s, "gone")
    /\ UNCHANGED <<num, sent, exists, pending, child, recv, starts, kills>>

\* A sender that is killed while it types leaves what SenderEnd leaves; one
\* that waits in open leaves its pipe.
KillSender(s) ==
    /\ kills < MaxKills
    /\ spc[s] = "open"
    /\ kills' = kills + 1
    /\ Goto(s, "gone")
    /\ UNCHANGED <<num, sent, exists, pending, child, recv, starts>>

-----------------------------------------------------------------------------
(* empfaenger.c, the children                                              *)

Become(k, l) == child' = [child EXCEPT ![k].at = l]

\* open blocks on both sides until the other side has come.
Open(s, k) ==
    /\ spc[s] = "open" /\ child[k].at = "open"
    /\ child[k].pipe = num[s]
    /\ Goto(s, "input")
    /\ Become(k, "read")
    /\ UNCHANGED <<num, sent, exists, pending, recv, starts, kills>>

ChildRead(k) ==
    /\ child[k].at = "read"
    /\ pending[child[k].pipe] > 0
    /\ pending' = [pending EXCEPT ![child[k].pipe] = @ - 1]
    /\ UNCHANGED <<senderVars, exists, child, recv, starts, kills>>

NoWriter(p) == ~ \E s \in Senders : spc[s] = "input" /\ num[s] = p

\* Mutant of AtEof: an empty pipe counts as closed.
EmptyIsEof(p) == pending[p] = 0

\* read returns 0: the pipe is empty and nobody has it open for writing.
AtEof(p) == pending[p] = 0 /\ NoWriter(p)

ChildEof(k) ==
    /\ child[k].at = "read"
    /\ AtEof(child[k].pipe)
    /\ Become(k, "remove")
    /\ UNCHANGED <<senderVars, exists, pending, recv, starts, kills>>

ChildRemove(k) ==
    /\ child[k].at = "remove"
    /\ exists' = exists \ {child[k].pipe}
    /\ Become(k, "zombie")
    /\ UNCHANGED <<senderVars, pending, recv, starts, kills>>

-----------------------------------------------------------------------------
(* empfaenger.c, the parent                                                *)

RecvStart ==
    /\ recv.pc = "off"
    /\ starts < MaxStarts
    /\ starts' = starts + 1
    /\ recv' = Fresh("scan")
    /\ UNCHANGED <<senderVars, exists, pending, child, kills>>

\* i goes round; then every slot is looked at.
GoRound == [recv EXCEPT !.pc = "reap", !.j = 1, !.i = (@ % NPipes) + 1]

Forked(r) ==
    [r EXCEPT !.anz_cld = @ + 1, !.pids[recv.i] = Len(child) + 1,
              !.working[recv.i] = TRUE]

\* Mutant of RecvScan: a pipe that is being worked on gets another child.
ScanAgain ==
    /\ recv.pc = "scan"
    /\ IF recv.i \in exists
       THEN /\ child' = Append(child, [pipe |-> recv.i, at |-> "open"])
            /\ recv' = Forked(GoRound)
       ELSE recv' = GoRound /\ UNCHANGED child
    /\ UNCHANGED <<senderVars, exists, pending, starts, kills>>

\* Fork a child if pipe i exists and is not being worked on.
RecvScan ==
    /\ recv.pc = "scan"
    /\ IF recv.i \in exists /\ ~ recv.working[recv.i]
       THEN /\ child' = Append(child, [pipe |-> recv.i, at |-> "open"])
            /\ recv' = Forked(GoRound)
       ELSE recv' = GoRound /\ UNCHANGED child
    /\ UNCHANGED <<senderVars, exists, pending, starts, kills>>

\* The children waitpid may collect: any one if the slot is empty.
Reapable(pid) ==
    {k \in DOMAIN child : child[k].at = "zombie" /\ pid \in {NoPid, k}}

\* Mutant of NextSlot: one slot too many.
SlotTooMany(r) ==
    IF r.j <= NPipes THEN [r EXCEPT !.j = @ + 1]
    ELSE [r EXCEPT !.pc = IF r.anz_cld > 0 THEN "scan" ELSE "off"]

\* The next slot; after the last one the loop ends when no child is left.
NextSlot(r) ==
    IF r.j < NPipes THEN [r EXCEPT !.j = @ + 1]
    ELSE [r EXCEPT !.pc = IF r.anz_cld > 0 THEN "scan" ELSE "off"]

\* Mutant of Cleared: the slot stays marked.
ClearedStaysMarked(r) == [r EXCEPT !.anz_cld = @ - 1, !.pids[r.j] = NoPid]

Cleared(r) ==
    [r EXCEPT !.anz_cld = @ - 1, !.pids[r.j] = NoPid, !.working[r.j] = FALSE]

\* One waitpid.  Whichever child it collects, slot j is the one it clears.
RecvReap ==
    /\ recv.pc = "reap"
    /\ LET Z == Reapable(recv.pids[recv.j])
       IN \/ Z = {} /\ recv' = NextSlot(recv) /\ UNCHANGED child
          \/ \E k \in Z : Become(k, "reaped") /\ recv' = NextSlot(Cleared(recv))
    /\ UNCHANGED <<senderVars, exists, pending, starts, kills>>

ChildStep(k) == ChildRead(k) \/ ChildEof(k) \/ ChildRemove(k)
RecvStep     == RecvScan \/ RecvReap

Next ==
    \/ \E s \in Senders :
         \/ SenderTest(s) \/ SenderMkfifo(s) \/ SenderLine(s) \/ SenderEnd(s)
         \/ KillSender(s)
    \/ \E k \in DOMAIN child : ChildStep(k) \/ \E s \in Senders : Open(s, k)
    \/ RecvStart \/ RecvStep

Spec == Init /\ [][Next]_vars

\* The receiver and its children run once they are started, and open returns
\* when both sides have come.
Fairness ==
    /\ WF_vars(RecvStep)
    /\ WF_vars(\E k \in DOMAIN child : ChildStep(k))
    /\ WF_vars(\E k \in DOMAIN child, s \in Senders : Open(s, k))
-----------------------------------------------------------------------------
(* Properties                                                              *)

\* The type invariant of the model.
TypeOK ==
    /\ spc \in [Senders -> {"test", "mkfifo", "open", "input", "gone"}]
    /\ num \in [Senders -> Pipes]
    /\ sent \in 0 .. MaxLines
    /\ exists \subseteq Pipes
    /\ pending \in [Pipes -> Nat]
    /\ child \in Seq([pipe : Pipes,
                      at : {"open", "read", "remove", "zombie", "reaped"}])
    /\ recv \in [pc : {"off", "scan", "reap"}, i : Pipes, j : Pipes, anz_cld : Nat,
                 working : [Pipes -> BOOLEAN],
                 pids : [Pipes -> DOMAIN child \cup {NoPid}]]
    /\ starts \in 0 .. MaxStarts /\ kills \in 0 .. MaxKills

Living(k) == child[k].at \in {"open", "read", "remove"}

\* A pipe has one child at a time, though waitpid clears slots of other
\* children, and the receiver does not end before its children.
OneChildPerPipe ==
    /\ \A k, l \in DOMAIN child :
         k # l /\ Living(k) /\ Living(l) => child[k].pipe # child[l].pipe
    /\ recv.pc = "off" => \A k \in DOMAIN child : ~ Living(k)

\* A pipe is removed only when everything that was written into it is read.
AllIsRead == \A p \in Pipes \ exists : pending[p] = 0

\* Slot p waits for a child that another slot has collected.
LostSlot(p) ==
    recv.working[p] /\ recv.pids[p] # NoPid /\ child[recv.pids[p]].at = "reaped"

\* Sender s waits for a reader, and the receiver has not lost its slot to a
\* wrong waitpid.
Waits(s) == spc[s] = "open" /\ recv.pc # "off" /\ ~ LostSlot(num[s])

\* No sender waits for ever while the receiver runs, unless its slot is lost.
SenderIsServed == \A s \in Senders : []<> ~ Waits(s)
=============================================================================
