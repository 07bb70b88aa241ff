------------------------------ MODULE MsgQueue ------------------------------
(***************************************************************************)
(* Uni/bsys2/u1: several sender.c pass lines to one empfaenger.c through a *)
(* System V message queue.  A message carries its sender and a flag: 2 for *)
(* the first line, 1 for the others, 0 for the end of the input.           *)
(*                                                                         *)
(* msgget(1337, IPC_CREAT) yields the queue the key names now; queues are  *)
(* numbered, and IPC_RMID moves to the next number.  A sender goes on      *)
(* using the number it got.                                                *)
(***************************************************************************)
EXTENDS Integers, Sequences, SequencesExt, FiniteSets, Selection

CONSTANTS Senders,      \* the sender processes
          MaxLines,     \* bound: lines typed into one sender
          Capacity,     \* messages the queue holds (msg_qbytes / msg_len)
          MaxFiles,     \* files the receiver may open (RLIMIT_NOFILE)
          MaxRuns,      \* bound: how often the receiver is started
          MaxKills      \* bound: how many processes are killed

ASSUME QueueConstants ==
    /\ IsFiniteSet(Senders)
    /\ MaxLines \in Nat
    /\ {Capacity, MaxFiles, MaxRuns} \subseteq Nat \ {0}
    /\ MaxKills \in Nat

Queues  == 1 .. MaxRuns + 1
NoQueue == 0
Message == [spid : Senders, flag : {0, 1, 2}, n : Nat \ {0}]

VARIABLES
    queue,      \* contents of the queue the key names now
    cur,        \* its number
    spc,        \* where each sender stands
    qid,        \* qid[s]: the queue sender s uses
    flag,       \* flag[s]: nachricht.flag of sender s
    sent,       \* sent[s]: messages s has put into the queue
    rpc,        \* where the receiver stands
    anzsender,  \* the receiver's count of senders
    out,        \* the streams the receiver has opened, oldest first: the
                \* message each one buffers
    file,       \* file[s]: numbers of the lines in <spid>.txt
    taken,      \* history: taken[s], the messages of s received
    runs, kills

sendVars == <<spc, qid, flag, sent>>
recvVars == <<rpc, anzsender, out>>
bounds   == <<runs, kills>>
vars     == <<queue, cur, sendVars, recvVars, file, taken, bounds>>

Init ==
    /\ queue = <<>> /\ cur = 1
    /\ spc = [s \in Senders |-> "off"]
    /\ qid = [s \in Senders |-> NoQueue]
    /\ flag = [s \in Senders |-> 2]
    /\ sent = [s \in Senders |-> 0]
    /\ rpc = "off" /\ anzsender = 0 /\ out = <<>>
    /\ file = [s \in Senders |-> <<>>]
    /\ taken = [s \in Senders |-> <<>>]
    /\ runs = 0 /\ kills = 0

-----------------------------------------------------------------------------
(* sender.c                                                                *)

Goto(s, l) == spc' = [spc EXCEPT ![s] = l]

SendStart(s) ==
    /\ spc[s] = "off"
    /\ qid' = [qid EXCEPT ![s] = cur]
    /\ Goto(s, "fgets")
    /\ UNCHANGED <<queue, cur, flag, sent, recvVars, file, taken, bounds>>

\* A line, or Ctrl-D: the empty text with flag 0.
SendInput(s) ==
    /\ spc[s] = "fgets"
    /\ \/ sent[s] < MaxLines /\ UNCHANGED flag
       \/ flag' = [flag EXCEPT ![s] = 0]
    /\ Goto(s, "msgsnd")
    /\ UNCHANGED <<queue, cur, qid, sent, recvVars, file, taken, bounds>>

\* Mutant of Send: the flag stays 2 after the first line.
SendAlwaysFirst(s) ==
    /\ spc[s] = "msgsnd"
    /\ qid[s] = cur
    /\ Len(queue) < Capacity
    /\ queue' = Append(queue, [spid |-> s, flag |-> flag[s], n |-> sent[s] + 1])
    /\ sent' = [sent EXCEPT ![s] = @ + 1]
    /\ Goto(s, IF flag[s] = 0 THEN "ended" ELSE "fgets")
    /\ UNCHANGED <<cur, qid, flag, recvVars, file, taken, bounds>>

\* msgsnd succeeds once the queue has room for the message.
Send(s) ==
    /\ spc[s] = "msgsnd"
    /\ qid[s] = cur
    /\ Len(queue) < Capacity
    /\ queue' = Append(queue, [spid |-> s, flag |-> flag[s], n |-> sent[s] + 1])
    /\ sent' = [sent EXCEPT ![s] = @ + 1]
    /\ IF flag[s] = 0
       THEN Goto(s, "ended") /\ UNCHANGED flag
       ELSE Goto(s, "fgets") /\ flag' = [flag EXCEPT ![s] = 1]
    /\ UNCHANGED <<cur, qid, recvVars, file, taken, bounds>>

\* Mutant of SendFails: the return code of msgsnd is not looked at.
SendFailsUnseen(s) ==
    /\ spc[s] = "msgsnd"
    /\ qid[s] # cur
    /\ UNCHANGED vars

\* The queue is gone (EINVAL, or EIDRM while msgsnd waits for room): perror.
SendFails(s) ==
    /\ spc[s] = "msgsnd"
    /\ qid[s] # cur
    /\ Goto(s, "failed")
    /\ UNCHANGED <<queue, cur, qid, flag, sent, recvVars, file, taken, bounds>>

-----------------------------------------------------------------------------
(* empfaenger.c                                                            *)

\* Mutant of RecvStart: the receiver starts with a new, empty queue.
RecvStartEmpties ==
    /\ rpc \in {"off", "ended", "dead"}
    /\ runs < MaxRuns
    /\ runs' = runs + 1
    /\ rpc' = "msgrcv" /\ anzsender' = 0 /\ out' = <<>>
    /\ queue' = <<>>
    /\ UNCHANGED <<cur, sendVars, file, taken, kills>>

RecvStart ==
    /\ rpc \in {"off", "ended", "dead"}
    /\ runs < MaxRuns
    /\ runs' = runs + 1
    /\ rpc' = "msgrcv" /\ anzsender' = 0 /\ out' = <<>>
    /\ UNCHANGED <<queue, cur, sendVars, file, taken, kills>>

\* Mutant of Counted: the end of a sender is not counted.
CountedUp(count, m) == IF m.flag = 2 THEN count + 1 ELSE count

\* How a message changes the count of senders.
Counted(count, m) ==
    CASE m.flag = 2 -> count + 1
      [] m.flag = 0 -> count - 1
      [] OTHER      -> count

\* The condition of the loop.
GoesOn(count) == count >= 1

\* Mutant of Receive: whether the file has been opened is not looked at.
ReceiveUntested ==
    /\ rpc = "msgrcv"
    /\ queue # <<>>
    /\ LET m == Head(queue)
       IN  /\ queue' = Tail(queue)
           /\ taken' = [taken EXCEPT ![m.spid] = Append(@, m)]
           /\ anzsender' = Counted(anzsender, m)
           /\ out' = Append(out, m)
           /\ rpc' = IF GoesOn(anzsender') THEN "msgrcv" ELSE "msgctl"
    /\ UNCHANGED <<cur, sendVars, file, bounds>>

\* One round of the loop.  Every message opens its file anew and leaves it
\* open; the text stays in the buffer of that stream.  If the file cannot be
\* opened the loop is left, although the message has been counted.
Receive ==
    /\ rpc = "msgrcv"
    /\ queue # <<>>
    /\ LET m == Head(queue)
       IN  /\ queue' = Tail(queue)
           /\ taken' = [taken EXCEPT ![m.spid] = Append(@, m)]
           /\ anzsender' = Counted(anzsender, m)
           /\ IF Len(out) < MaxFiles
              THEN /\ out' = Append(out, m)
                   /\ rpc' = IF GoesOn(anzsender') THEN "msgrcv" ELSE "msgctl"
              ELSE /\ rpc' = "msgctl"
                   /\ UNCHANGED out
    /\ UNCHANGED <<cur, sendVars, file, bounds>>

RemoveQueue ==
    /\ rpc = "msgctl"
    /\ cur' = cur + 1
    /\ queue' = <<>>
    /\ rpc' = "exit"
    /\ UNCHANGED <<sendVars, anzsender, out, file, taken, bounds>>

\* The lines of s among the messages ms; an end message has no text.
LinesOf(s, ms) ==
    LET mine == Chosen(ms, {m \in Message : m.spid = s /\ m.flag # 0})
    IN  [i \in 1 .. Len(mine) |-> mine[i].n]

\* exit() writes out the buffers of all streams that are still open; the C
\* library keeps them in a list with the latest one first.
Exit ==
    /\ rpc = "exit"
    /\ file' = [s \in Senders |-> file[s] \o LinesOf(s, Reverse(out))]
    /\ out' = <<>>
    /\ rpc' = "ended"
    /\ UNCHANGED <<queue, cur, sendVars, anzsender, taken, bounds>>

-----------------------------------------------------------------------------
(* Ctrl-C ends both programs at once; what the receiver has buffered is    *)
(* lost, the queue stays.                                                  *)

Sending(s) == spc[s] \in {"fgets", "msgsnd"}
Receiving  == rpc \in {"msgrcv", "msgctl", "exit"}

KillSender(s) ==
    /\ kills < MaxKills
    /\ Sending(s)
    /\ kills' = kills + 1
    /\ Goto(s, "dead")
    /\ UNCHANGED <<queue, cur, qid, flag, sent, recvVars, file, taken, runs>>

KillReceiver ==
    /\ kills < MaxKills
    /\ Receiving
    /\ kills' = kills + 1
    /\ rpc' = "dead" /\ out' = <<>>
    /\ UNCHANGED <<queue, cur, sendVars, anzsender, file, taken, runs>>

-----------------------------------------------------------------------------

SenderStep(s) == Send(s) \/ SendFails(s)
ReceiverStep  == Receive \/ RemoveQueue \/ Exit

Next ==
    \/ \E s \in Senders :
         SendStart(s) \/ SendInput(s) \/ SenderStep(s) \/ KillSender(s)
    \/ RecvStart \/ ReceiverStep \/ KillReceiver

Spec == Init /\ [][Next]_vars

\* A process that can run does run, and the kernel wakes the senders that wait
\* for room in their order.  Nobody is obliged to start, type or kill.
Fairness ==
    /\ WF_vars(ReceiverStep)
    /\ \A s \in Senders : SF_vars(Send(s)) /\ WF_vars(SendFails(s))

FairSpec == Spec /\ Fairness
-----------------------------------------------------------------------------
(* Properties                                                              *)

\* The type invariant of the model.
TypeOK ==
    /\ queue \in Seq(Message) /\ Len(queue) <= Capacity
    /\ cur \in Queues
    /\ spc \in [Senders -> {"off", "fgets", "msgsnd", "ended", "failed", "dead"}]
    /\ qid \in [Senders -> Queues \cup {NoQueue}]
    /\ flag \in [Senders -> {0, 1, 2}]
    /\ sent \in [Senders -> Nat]
    /\ rpc \in {"off", "msgrcv", "msgctl", "exit", "ended", "dead"}
    /\ anzsender \in Int
    /\ out \in Seq(Message) /\ Len(out) <= MaxFiles
    /\ file \in [Senders -> Seq(Nat)]
    /\ taken \in [Senders -> Seq(Message)]
    /\ runs \in 0 .. MaxRuns /\ kills \in 0 .. MaxKills

Flags(s) == {taken[s][i].flag : i \in DOMAIN taken[s]}

\* The senders the receiver knows as active, and those that ended before they
\* had sent a line: of these it takes the end without having seen a beginning.
Active == {s \in Senders : 2 \in Flags(s) /\ 0 \notin Flags(s)}
Silent == {s \in Senders : Flags(s) = {0}}

\* Unless a receiver was killed before, anzsender is the number of senders
\* that have begun and not ended, less one for each that ended without a line.
CounterIsActive ==
    runs = 1 /\ Receiving =>
        anzsender = Cardinality(Active) - Cardinality(Silent)

\* As long as its queue is not removed under it, everything a sender has sent
\* has been taken or waits in the queue, in its order, and its end is the last
\* of it, across kills and restarts of the receiver.
StreamIsWhole ==
    \A s \in Senders : qid[s] = cur =>
        LET Waiting == {i \in DOMAIN queue : queue[i].spid = s}
        IN  /\ \A i \in DOMAIN taken[s] : taken[s][i].n = i
            /\ {queue[i].n : i \in Waiting} = Len(taken[s]) + 1 .. sent[s]
            /\ \A i, j \in Waiting : i < j => queue[i].n < queue[j].n
            /\ \A m \in Range(taken[s]) \cup {queue[i] : i \in Waiting} :
                 m.flag = 0 <=> m.n = sent[s] /\ spc[s] = "ended"

\* While the receiver runs no sender waits for ever to pass on a message: it
\* is accepted, or the sender learns that the queue is gone.
SendEnds ==
    \A s \in Senders : spc[s] = "msgsnd" ~> spc[s] # "msgsnd" \/ ~ Receiving

\* Once all senders have ended in good order, and at least one of them has
\* reached this receiver, the receiver ends.
ReceiverEnds ==
    (/\ runs = 1 /\ Receiving
     /\ \A s \in Senders : spc[s] = "ended"
     /\ \E s \in Senders : taken[s] # <<>>)
        ~> ~ Receiving

-----------------------------------------------------------------------------
(* What Bs2ueb1.txt asks for and the programs do not keep.                 *)

\* Bs2ueb1.txt:12-15: the streams are stored in separate files; a receiver
\* that has ended in good order has stored what it took, in that order.
StreamsAreStored ==
    rpc = "ended" /\ kills = 0 =>
        \A s \in Senders : file[s] = LinesOf(s, taken[s])
=============================================================================
