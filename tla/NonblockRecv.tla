---------------------------- MODULE NonblockRecv ----------------------------
(***************************************************************************)
(* Uni/Bsys/ueb13: one receiver reads several named pipes in turn without  *)
(* blocking and takes a pipe out of its tables when the pipe is at its end *)
(* (empfaenger.c); senders create a pipe or, when all names are taken,     *)
(* write into the pipe of another one (send.c).                            *)
(***************************************************************************)
EXTENDS Integers, SequencesExt

CONSTANTS Senders,      \* the sender processes
          NPipes,       \* the number of pipe names
          MaxLines,     \* bound: lines typed into one sender
          MaxKills      \* bound: processes killed

Pipes == 1 .. NPipes

VARIABLES
    spc,        \* where each sender stands
    num,        \* pno of each sender
    sent,       \* lines a sender has written
    exists,     \* the pipes that exist
    pending,    \* pending[p]: the writers of the records in pipe p
    rpc,        \* where the receiver stands
    i,          \* its loop variable
    pname, fd,  \* its tables, up to pno and without the unused index 0
    late,       \* history: senders that opened a pipe between its end and its close
    kills

senderVars == <<spc, num, sent>>
vars == <<senderVars, exists, pending, rpc, i, pname, fd, late, kills>>

Init ==
    /\ spc = [s \in Senders |-> "off"]
    /\ num = [s \in Senders |-> 1]
    /\ sent = [s \in Senders |-> 0]
    /\ exists = {}
    /\ pending = [p \in Pipes |-> <<>>]
    /\ rpc = "off" /\ i = 1
    /\ pname = <<>> /\ fd = <<>>
    /\ late = {} /\ kills = 0

\* The receiver has pipe p open.
HasOpen(p) ==
    \E k \in DOMAIN fd : fd[k] = p /\ ~ (rpc = "remove" /\ k = i)

NoWriter(p) == ~ \E s \in Senders : spc[s] = "input" /\ num[s] = p

-----------------------------------------------------------------------------
(* send.c                                                                  *)

Goto(s, l) == spc' = [spc EXCEPT ![s] = l]

\* The number of the first name to try is an argument.
SenderStart(s) ==
    /\ spc[s] = "off"
    /\ \E p \in Pipes : num' = [num EXCEPT ![s] = p]
    /\ Goto(s, "test")
    /\ UNCHANGED <<sent, exists, pending, rpc, i, pname, fd, late, kills>>

\* After the last name the loop ends without a pipe of the sender's own, and
\* the pipe of that name is opened.
SenderTest(s) ==
    /\ spc[s] = "test"
    /\ \/ num[s] \notin exists /\ Goto(s, "mkfifo") /\ UNCHANGED num
       \/ /\ num[s] \in exists /\ num[s] < NPipes
          /\ num' = [num EXCEPT ![s] = @ + 1] /\ UNCHANGED spc
       \/ num[s] \in exists /\ num[s] = NPipes /\ Goto(s, "open") /\ UNCHANGED num
    /\ UNCHANGED <<sent, exists, pending, rpc, i, pname, fd, late, kills>>

SenderMkfifo(s) ==
    /\ spc[s] = "mkfifo"
    /\ Goto(s, IF num[s] \in exists THEN "refused" ELSE "open")
    /\ exists' = exists \cup {num[s]}
    /\ UNCHANGED <<num, sent, pending, rpc, i, pname, fd, late, kills>>

\* open fails without the pipe, which nobody notices, and waits for a reader.
\* A sender that waits on a pipe which is removed waits for ever. One that
\* opens a pipe whose end the receiver has seen but that it has not closed yet
\* is late.
SenderOpen(s) ==
    /\ spc[s] = "open"
    /\ Goto(s, IF HasOpen(num[s]) THEN "input"
               ELSE IF num[s] \in exists THEN "wait" ELSE "nofile")
    /\ late' = IF rpc = "close" /\ fd[i] = num[s] THEN late \cup {s} ELSE late
    /\ UNCHANGED <<num, sent, exists, pending, rpc, i, pname, fd, kills>>

\* Without a reader the write is SIGPIPE.
SenderLine(s) ==
    /\ spc[s] = "input"
    /\ sent[s] < MaxLines
    /\ sent' = [sent EXCEPT ![s] = @ + 1]
    /\ IF HasOpen(num[s])
       THEN pending' = [pending EXCEPT ![num[s]] = Append(@, s)] /\ UNCHANGED spc
       ELSE Goto(s, "dead") /\ UNCHANGED pending
    /\ UNCHANGED <<num, exists, rpc, i, pname, fd, late, kills>>

SenderEnd(s) ==
    /\ spc[s] \in {"input", "nofile"}
    /\ Goto(s, "done")
    /\ UNCHANGED <<num, sent, exists, pending, rpc, i, pname, fd, late, kills>>

KillSender(s) ==
    /\ kills < MaxKills
    /\ spc[s] \in {"wait", "input"}
    /\ kills' = kills + 1
    /\ Goto(s, "dead")
    /\ UNCHANGED <<num, sent, exists, pending, rpc, i, pname, fd, late>>

-----------------------------------------------------------------------------
(* empfaenger.c                                                            *)

RecvStart ==
    /\ rpc = "off"
    /\ rpc' = "scan"
    /\ UNCHANGED <<senderVars, exists, pending, i, pname, fd, late, kills>>

\* The kernel closes what the receiver had open.
KillRecv ==
    /\ kills < MaxKills
    /\ rpc \in {"scan", "open", "read", "close", "remove"}
    /\ kills' = kills + 1
    /\ rpc' = "dead"
    /\ fd' = <<>>
    /\ UNCHANGED <<senderVars, exists, pending, i, pname, late>>

\* Enter the pipes that exist; without one the receiver ends.
RecvScan ==
    /\ rpc = "scan"
    /\ pname' = IF i \in exists THEN Append(pname, i) ELSE pname
    /\ IF i < NPipes
       THEN i' = i + 1 /\ UNCHANGED rpc
       ELSE i' = 1 /\ rpc' = IF pname' = <<>> THEN "done" ELSE "open"
    /\ UNCHANGED <<senderVars, exists, pending, fd, late, kills>>

\* open waits for a writer and wakes all that wait for a reader.
RecvOpen ==
    /\ rpc = "open"
    /\ \E s \in Senders : spc[s] = "wait" /\ num[s] = pname[i]
    /\ spc' = [s \in Senders |->
                 IF spc[s] = "wait" /\ num[s] = pname[i] THEN "input" ELSE spc[s]]
    /\ fd' = Append(fd, pname[i])
    /\ IF i < Len(pname) THEN i' = i + 1 /\ UNCHANGED rpc
                         ELSE i' = 1 /\ rpc' = "read"
    /\ UNCHANGED <<num, sent, exists, pending, pname, late, kills>>

\* Mutant of RecvRead: an empty pipe counts as closed.
ReadEmptyIsEof ==
    /\ rpc = "read"
    /\ IF pending[fd[i]] = <<>>
       THEN rpc' = "close" /\ UNCHANGED <<i, pending>>
       ELSE /\ pending' = [pending EXCEPT ![fd[i]] = Tail(@)]
            /\ i' = (i % Len(fd)) + 1
            /\ UNCHANGED rpc
    /\ UNCHANGED <<senderVars, exists, pname, fd, late, kills>>

\* Read a record, find the pipe empty, or find it at its end.
RecvRead ==
    /\ rpc = "read"
    /\ IF pending[fd[i]] = <<>> /\ NoWriter(fd[i])
       THEN rpc' = "close" /\ UNCHANGED <<i, pending>>
       ELSE /\ pending' = [pending EXCEPT ![fd[i]] = IF @ = <<>> THEN @ ELSE Tail(@)]
            /\ i' = (i % Len(fd)) + 1
            /\ UNCHANGED rpc
    /\ UNCHANGED <<senderVars, exists, pname, fd, late, kills>>

\* Mutant of RecvClose: the pipe stays in the tables.
CloseKeepsPipe ==
    /\ rpc = "close"
    /\ rpc' = "read"
    /\ UNCHANGED <<senderVars, exists, pending, i, pname, fd, late, kills>>

\* Until here the pipe is open: what is written to it now nobody reads.
RecvClose ==
    /\ rpc = "close"
    /\ rpc' = "remove"
    /\ UNCHANGED <<senderVars, exists, pending, i, pname, fd, late, kills>>

\* Remove the pipe, move up the rest of both tables, start from the front.
RecvRemove ==
    /\ rpc = "remove"
    /\ exists' = exists \ {pname[i]}
    /\ pname' = RemoveAt(pname, i)
    /\ fd' = RemoveAt(fd, i)
    /\ i' = 1
    /\ rpc' = IF Len(pname) = 1 THEN "done" ELSE "read"
    /\ UNCHANGED <<senderVars, pending, late, kills>>

SenderStep(s) == SenderTest(s) \/ SenderMkfifo(s) \/ SenderOpen(s)
RecvStep      == RecvScan \/ RecvOpen \/ RecvRead \/ RecvClose \/ RecvRemove

Next ==
    \/ \E s \in Senders :
         \/ SenderStart(s) \/ SenderStep(s) \/ SenderLine(s) \/ SenderEnd(s)
         \/ KillSender(s)
    \/ RecvStart \/ KillRecv \/ RecvStep

\* The receiver runs once it is started.
Fairness == WF_vars(RecvStep)
-----------------------------------------------------------------------------
(* Properties                                                              *)

\* The type invariant of the model.
TypeOK ==
    /\ spc \in [Senders -> {"off", "test", "mkfifo", "open", "wait", "input",
                            "nofile", "done", "refused", "dead"}]
    /\ num \in [Senders -> Pipes]
    /\ sent \in [Senders -> 0 .. MaxLines]
    /\ exists \subseteq Pipes
    /\ pending \in [Pipes -> Seq(Senders)]
    /\ rpc \in {"scan", "open", "read", "close", "remove", "done", "off", "dead"}
    /\ i \in Pipes
    /\ pname \in Seq(Pipes) /\ fd \in Seq(Pipes)
    /\ late \subseteq Senders
    /\ kills \in 0 .. MaxKills

\* Also with several senders on one pipe everything is read before the pipe is
\* closed, and nobody is left writing to it, but for the late senders.
AllIsRead ==
    rpc # "dead" =>
        \A p \in Pipes : ~ HasOpen(p) =>
            /\ ToSet(pending[p]) \subseteq late
            /\ \A s \in Senders : spc[s] = "input" /\ num[s] = p => s \in late

\* The receiver has opened its pipes, and nobody writes any more.
Waits == rpc \in {"read", "close", "remove"} /\ \A s \in Senders : spc[s] # "input"

\* With all its pipes opened the receiver ends unless a sender keeps writing.
ReceiverEnds == []<> ~ Waits
=============================================================================
