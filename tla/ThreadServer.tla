---------------------------- MODULE ThreadServer ----------------------------
(***************************************************************************)
(* Uni/bsys2/Aufgabe7: the server of u3 with a thread for every connection *)
(* (SERVER.C, CLIENT.C).  A thread that has seen the end of its connection *)
(* posts this on semaphore 1 of a set, under a lock that semaphore 0 is;   *)
(* after Ctrl-C the main thread takes one post and joins a thread for each *)
(* one it has created.                                                     *)
(*                                                                         *)
(* The programs are built for SunOS 5.10: signal() installs a handler for  *)
(* one signal only and interrupts calls, and any thread may get it, as     *)
(* pthread_sigmask is called without a set.                                *)
(***************************************************************************)
EXTENDS Integers, Sequences, FiniteSets

CONSTANTS Clients,      \* the client processes; a thread has the name of the
                        \* client whose connection created it
          Files,        \* the file names the clients give
          Unwritable,   \* those of them that cannot be created
          Other,        \* any other name: what a thread takes for a name
          Backlog,      \* the second argument of listen
          MaxLines,     \* bound: lines typed into one client
          MaxLeft,      \* bound: posts an earlier server has left behind
          MaxSigs,      \* bound: SIGINTs sent to the server
          MaxKills      \* bound: clients killed

ASSUME ThreadConstants ==
    /\ IsFiniteSet(Clients)
    /\ Unwritable \subseteq Files
    /\ Other \notin Files
    /\ {Backlog, MaxLines, MaxLeft, MaxSigs, MaxKills} \subseteq Nat

NoFd == "none"

VARIABLES
    cpc,        \* where each client stands
    name,       \* name[c]: the file client c names
    lines,      \* lines[c]: lines client c has sent
    up, down,   \* up[c], down[c]: what is under way to the server and back
    closed,     \* connections a thread has closed
    tpc,        \* where each thread stands
    fd,         \* fd[t]: the connection thread t works on
    exists,     \* the files that can be read
    mpc,        \* where the main thread stands
    conn,       \* connections that wait to be accepted
    args,       \* the local variable through which a thread gets its socket
    thrid,      \* the thread created last
    counter,    \* threads the main thread has yet to join
    ende,       \* SIGINT seen
    semval,     \* the uninitialised semval.val
    sem,        \* the values of semaphores 0 and 1
    left,       \* history: what semaphore 1 was at the start
    sigs, kills

clientVars == <<cpc, name, lines>>
threadVars == <<closed, tpc, fd, exists>>
mainVars   == <<mpc, conn, args, thrid, counter>>
semVars    == <<sem, semval, left>>
vars == <<clientVars, up, down, threadVars, mainVars, ende, semVars, sigs, kills>>

Init ==
    /\ cpc = [c \in Clients |-> "off"]
    /\ name \in [Clients -> Files]
    /\ lines = [c \in Clients |-> 0]
    /\ up = [c \in Clients |-> <<>>] /\ down = [c \in Clients |-> <<>>]
    /\ closed = {}
    /\ tpc = [t \in Clients |-> "none"]
    /\ fd = [t \in Clients |-> NoFd]
    /\ exists \in SUBSET (Files \ Unwritable)
    /\ mpc = "accept" /\ conn = <<>> /\ args = NoFd /\ thrid = NoFd
    /\ counter = 0 /\ ende = FALSE
    /\ semval \in {-1, 0}
    /\ left \in 0 .. MaxLeft
    /\ sem = [i \in {0, 1} |-> IF i = 0 THEN 0 ELSE left]
    /\ sigs = 0 /\ kills = 0

\* The server process exists.
Alive == mpc \notin {"done", "dead"}

-----------------------------------------------------------------------------
(* CLIENT.C                                                                *)

Goto(c, l) == cpc' = [cpc EXCEPT ![c] = l]
Write(q, c, m) == q' = [q EXCEPT ![c] = Append(@, m)]

ClientOpen(c) == cpc[c] \in {"reply", "confirm", "input", "ack"}

\* Nothing more will come from the server.
Hungup(c) == c \in closed \/ ~ Alive

\* How many connections wait to be accepted.
Pending == Len(conn) - (IF mpc = "accepted" THEN 1 ELSE 0)

\* There is a listening socket with room in its queue.
Connectable ==
    /\ mpc \in {"accept", "accepted", "test", "close"}
    /\ Pending <= Backlog

\* connect and the file name.  Without a listening socket connect fails; at a
\* full queue it waits or fails, as the system has it.
Connect(c) ==
    /\ cpc[c] = "off"
    /\ IF Connectable
       THEN /\ conn' = Append(conn, c)
            /\ Write(up, c, "name")
            /\ Goto(c, "reply")
       ELSE Goto(c, "failed") /\ UNCHANGED <<conn, up>>
    /\ UNCHANGED <<name, lines, down, threadVars, mpc, args, thrid, counter, ende, semVars, sigs, kills>>

\* The answer to the file name, or the end of the connection: read returns 0,
\* and the client goes on as after an answer, or fails.
ReadReply(c) ==
    /\ cpc[c] = "reply"
    /\ \/ /\ down[c] # <<>>
          /\ Goto(c, IF Head(down[c]) = "-1" THEN "confirm" ELSE "input")
       \/ /\ down[c] = <<>> /\ Hungup(c)
          /\ Goto(c, "input") \/ Goto(c, "failed")
    /\ down' = [down EXCEPT ![c] = <<>>]
    /\ UNCHANGED <<name, lines, up, threadVars, mainVars, ende, semVars, sigs, kills>>

\* Writing to a connection the server has left is SIGPIPE.
Confirm(c) ==
    /\ cpc[c] = "confirm"
    /\ IF Hungup(c)
       THEN Goto(c, "dead") /\ UNCHANGED up
       ELSE \/ Write(up, c, "j") /\ Goto(c, "input")
            \/ Write(up, c, "n") /\ Goto(c, "done")
    /\ UNCHANGED <<name, lines, down, threadVars, mainVars, ende, semVars, sigs, kills>>

SendLine(c) ==
    /\ cpc[c] = "input"
    /\ lines[c] < MaxLines
    /\ IF Hungup(c)
       THEN Goto(c, "dead") /\ UNCHANGED <<lines, up>>
       ELSE /\ Write(up, c, "line")
            /\ lines' = [lines EXCEPT ![c] = @ + 1]
            /\ Goto(c, "ack")
    /\ UNCHANGED <<name, down, threadVars, mainVars, ende, semVars, sigs, kills>>

EndOfInput(c) ==
    /\ cpc[c] = "input"
    /\ Goto(c, "done")
    /\ UNCHANGED <<name, lines, up, down, threadVars, mainVars, ende, semVars, sigs, kills>>

ReadAck(c) ==
    /\ cpc[c] = "ack"
    /\ \/ down[c] # <<>> /\ Goto(c, "input")
       \/ Hungup(c) /\ (Goto(c, "input") \/ Goto(c, "failed"))
    /\ down' = [down EXCEPT ![c] = <<>>]
    /\ UNCHANGED <<name, lines, up, threadVars, mainVars, ende, semVars, sigs, kills>>

KillClient(c) ==
    /\ kills < MaxKills
    /\ ClientOpen(c)
    /\ kills' = kills + 1
    /\ Goto(c, "dead")
    /\ UNCHANGED <<name, lines, up, down, threadVars, mainVars, ende, semVars, sigs>>

-----------------------------------------------------------------------------
(* SERVER.C, thrfkt.  read takes all of up[c]; only its head counts.       *)

Become(t, l) == tpc' = [tpc EXCEPT ![t] = l]
At(t, l)     == Alive /\ tpc[t] = l

\* read has something to return: data, or the end of the connection.
Readable(c) == up[c] # <<>> \/ ~ ClientOpen(c)

\* Write m into connection c and go to l.  A client that has gone is SIGPIPE,
\* which ends the whole process.
Reply(t, c, m, l) ==
    IF ClientOpen(c)
    THEN Write(down, c, m) /\ Become(t, l) /\ UNCHANGED mpc
    ELSE mpc' = "dead" /\ UNCHANGED <<down, tpc>>

\* The thread reads the descriptor out of the variable of the main thread.
ThreadStart(t) ==
    /\ At(t, "start")
    /\ fd' = [fd EXCEPT ![t] = args]
    /\ Become(t, "name")
    /\ UNCHANGED <<clientVars, up, down, closed, exists, mainVars, ende, semVars, sigs, kills>>

\* The name a thread finds in its buffer: that of the client, unless another
\* thread on the connection took it or the client has gone without sending.
NameRead(c) ==
    IF up[c] # <<>> /\ Head(up[c]) = "name" THEN name[c] ELSE Other

\* Read the name, try fopen "r", then "w".  Without a file the thread ends
\* and leaves the connection open.  A file that can be written need not be one
\* that can be read afterwards.
ThreadName(t) ==
    /\ At(t, "name")
    /\ LET c == fd[t]
           f == NameRead(c)
       IN  \/ /\ c \in closed
              /\ Become(t, "quit")
              /\ UNCHANGED <<up, down, exists, mpc>>
           \/ /\ c \notin closed /\ Readable(c)
              /\ up' = [up EXCEPT ![c] = <<>>]
              /\ \/ /\ f \in exists
                    /\ Reply(t, c, "-1", "answer") /\ UNCHANGED exists
                 \/ /\ f \notin exists \cup Unwritable
                    /\ exists' \in {exists, exists \cup {f}}
                    /\ Reply(t, c, "1", "data")
                 \/ /\ f \in (Unwritable \cup {Other}) \ exists
                    /\ Become(t, "quit") /\ UNCHANGED <<down, exists, mpc>>
    /\ UNCHANGED <<clientVars, closed, fd, conn, args, thrid, counter, ende, semVars, sigs, kills>>

\* Read the answer and, after "j", open the file to write.  What is not "j",
\* or a file that cannot be written, ends the thread.
ThreadAnswer(t) ==
    /\ At(t, "answer")
    /\ LET c == fd[t]
       IN  /\ c \in closed \/ Readable(c)
           /\ \/ /\ c \notin closed /\ up[c] # <<>> /\ Head(up[c]) = "j"
                 /\ Become(t, "data")
              \/ Become(t, "quit")
           /\ up' = IF c \in closed THEN up ELSE [up EXCEPT ![c] = <<>>]
    /\ UNCHANGED <<clientVars, down, closed, fd, exists, mainVars, ende, semVars, sigs, kills>>

\* Mutant of ThreadData: the buffer goes back as it came.
DataEchoed(t) ==
    /\ At(t, "data")
    /\ LET c == fd[t]
       IN  \/ /\ c \in closed /\ ~ ende
              /\ Become(t, "quit") /\ UNCHANGED <<up, down, mpc>>
           \/ /\ c \notin closed /\ up[c] # <<>>
              /\ up' = [up EXCEPT ![c] = <<>>]
              /\ Reply(t, c, Head(up[c]), "data")
           \/ /\ c \notin closed /\ up[c] = <<>> /\ ~ ClientOpen(c)
              /\ Become(t, "lock") /\ UNCHANGED <<up, down, mpc>>
    /\ UNCHANGED <<clientVars, closed, fd, exists, conn, args, thrid, counter, ende, semVars, sigs, kills>>

\* Read a line and acknowledge it; at the end of the connection leave the
\* loop.  A failing read ends the thread before Ctrl-C and is repeated after.
ThreadData(t) ==
    /\ At(t, "data")
    /\ LET c == fd[t]
       IN  \/ /\ c \in closed /\ ~ ende
              /\ Become(t, "quit") /\ UNCHANGED <<up, down, mpc>>
           \/ /\ c \notin closed /\ up[c] # <<>>
              /\ up' = [up EXCEPT ![c] = <<>>]
              /\ Reply(t, c, "bytes", "data")
           \/ /\ c \notin closed /\ up[c] = <<>> /\ ~ ClientOpen(c)
              /\ Become(t, "lock") /\ UNCHANGED <<up, down, mpc>>
    /\ UNCHANGED <<clientVars, closed, fd, exists, conn, args, thrid, counter, ende, semVars, sigs, kills>>

ThreadLock(t) ==
    /\ At(t, "lock")
    /\ sem[0] = 0
    /\ sem' = [sem EXCEPT ![0] = 1]
    /\ Become(t, "unlock")
    /\ UNCHANGED <<clientVars, up, down, closed, fd, exists, mainVars, ende, semval, left, sigs, kills>>

\* Mutant of ThreadUnlock: only one of the two operations is made.
UnlockWithoutPost(t) ==
    /\ At(t, "unlock")
    /\ sem[0] >= 1
    /\ sem' = [sem EXCEPT ![0] = @ - 1]
    /\ Become(t, "close")
    /\ UNCHANGED <<clientVars, up, down, closed, fd, exists, mainVars, ende, semval, left, sigs, kills>>

\* Mutant of ThreadUnlock: the lock is not given back.
PostWithoutUnlock(t) ==
    /\ At(t, "unlock")
    /\ sem[0] >= 1
    /\ sem' = [sem EXCEPT ![1] = @ + 1]
    /\ Become(t, "close")
    /\ UNCHANGED <<clientVars, up, down, closed, fd, exists, mainVars, ende, semval, left, sigs, kills>>

ThreadUnlock(t) ==
    /\ At(t, "unlock")
    /\ sem[0] >= 1
    /\ sem' = [sem EXCEPT ![0] = @ - 1, ![1] = @ + 1]
    /\ Become(t, "close")
    /\ UNCHANGED <<clientVars, up, down, closed, fd, exists, mainVars, ende, semval, left, sigs, kills>>

ThreadClose(t) ==
    /\ At(t, "close")
    /\ closed' = closed \cup {fd[t]}
    /\ Become(t, "ended")
    /\ UNCHANGED <<clientVars, up, down, fd, exists, mainVars, ende, semVars, sigs, kills>>

-----------------------------------------------------------------------------
(* SERVER.C, main                                                          *)

Accept ==
    /\ mpc = "accept"
    /\ conn # <<>>
    /\ mpc' = "accepted"
    /\ UNCHANGED <<clientVars, up, down, threadVars, conn, args, thrid, counter, ende, semVars, sigs, kills>>

\* The connection is served by a new thread unless Ctrl-C has come; if it has
\* the connection stays open and unserved.
CreateThread ==
    /\ mpc = "accepted"
    /\ conn' = Tail(conn)
    /\ LET c == Head(conn)
       IN  IF ende
           THEN UNCHANGED <<args, thrid, counter, tpc>>
           ELSE /\ args' = c /\ thrid' = c
                /\ counter' = counter + 1
                /\ Become(c, "start")
    /\ mpc' = "test"
    /\ UNCHANGED <<clientVars, up, down, closed, fd, exists, ende, semVars, sigs, kills>>

LoopTest ==
    /\ mpc = "test"
    /\ mpc' = IF ende THEN "close" ELSE "accept"
    /\ UNCHANGED <<clientVars, up, down, threadVars, conn, args, thrid, counter, ende, semVars, sigs, kills>>

\* Close the listening socket; connections that wait are at an end.
CloseListener ==
    /\ mpc = "close"
    /\ closed' = closed \cup {conn[i] : i \in DOMAIN conn}
    /\ conn' = <<>>
    /\ mpc' = "join"
    /\ UNCHANGED <<clientVars, up, down, tpc, fd, exists, args, thrid, counter, ende, semVars, sigs, kills>>

\* Take the lock for a join.  The result of semctl is thrown away; what is
\* compared is a variable nobody has set, and unless it happens to be -1 the
\* loop goes round for ever.
JoinLock ==
    /\ mpc = "join"
    /\ counter > 0
    /\ semval = -1
    /\ sem[0] = 0
    /\ sem' = [sem EXCEPT ![0] = 1]
    /\ mpc' = "unlock"
    /\ UNCHANGED <<clientVars, up, down, threadVars, conn, args, thrid, counter, ende, semval, left, sigs, kills>>

\* Mutant of JoinUnlock: only the first of the two operations is made.
JoinWithoutPost ==
    /\ mpc = "unlock"
    /\ sem[0] >= 1
    /\ sem' = [sem EXCEPT ![0] = @ - 1]
    /\ mpc' = "joining"
    /\ UNCHANGED <<clientVars, up, down, threadVars, conn, args, thrid, counter, ende, semval, left, sigs, kills>>

\* Unlock and take a post, in one operation: the main thread keeps the lock
\* while it waits for the post.
JoinUnlock ==
    /\ mpc = "unlock"
    /\ sem[0] >= 1 /\ sem[1] >= 1
    /\ sem' = [sem EXCEPT ![0] = @ - 1, ![1] = @ - 1]
    /\ mpc' = "joining"
    /\ UNCHANGED <<clientVars, up, down, threadVars, conn, args, thrid, counter, ende, semval, left, sigs, kills>>

\* pthread_join of the thread created last, whichever has posted; once it is
\* joined the call fails at once.
Join ==
    /\ mpc = "joining"
    /\ tpc[thrid] \in {"ended", "quit"}
    /\ counter' = counter - 1
    /\ mpc' = "join"
    /\ UNCHANGED <<clientVars, up, down, threadVars, conn, args, thrid, ende, semVars, sigs, kills>>

\* The return of main ends the process and all of its threads.
MainEnds ==
    /\ mpc = "join"
    /\ counter = 0
    /\ mpc' = "done"
    /\ UNCHANGED <<clientVars, up, down, threadVars, conn, args, thrid, counter, ende, semVars, sigs, kills>>

\* What becomes of thread t when SIGINT interrupts the call it waits in.
Interrupted(t) ==
    CASE tpc[t] \in {"name", "answer"} /\ ~ Readable(fd[t]) -> "quit"
      [] tpc[t] = "lock" /\ sem[0] # 0                      -> "unlock"
      [] OTHER                                              -> tpc[t]

\* The first SIGINT reaches any thread, and accept only if that is the main
\* thread; the second ends the process.
SigInt ==
    /\ Alive
    /\ sigs < MaxSigs
    /\ sigs' = sigs + 1
    /\ ende' = TRUE
    /\ \/ /\ ende
          /\ mpc' = "dead" /\ UNCHANGED tpc
       \/ /\ ~ ende
          /\ mpc' = IF mpc = "accept" /\ conn = <<>> THEN "close" ELSE mpc
          /\ UNCHANGED tpc
       \/ /\ ~ ende
          /\ \E t \in Clients :
               /\ tpc[t] \notin {"none", "ended", "quit"}
               /\ Become(t, Interrupted(t))
          /\ UNCHANGED mpc
    /\ UNCHANGED <<clientVars, up, down, closed, fd, exists, conn, args, thrid, counter, semVars, kills>>

-----------------------------------------------------------------------------

ClientStep(c) == ReadReply(c) \/ ReadAck(c)

ThreadStep(t) ==
    \/ ThreadStart(t) \/ ThreadName(t) \/ ThreadAnswer(t) \/ ThreadData(t)
    \/ ThreadUnlock(t) \/ ThreadClose(t)

MainStep ==
    \/ Accept \/ CreateThread \/ LoopTest \/ CloseListener
    \/ JoinUnlock \/ Join \/ MainEnds

Next ==
    \/ \E c \in Clients :
         \/ Connect(c) \/ Confirm(c) \/ SendLine(c) \/ EndOfInput(c)
         \/ KillClient(c) \/ ClientStep(c)
         \/ ThreadStep(c) \/ ThreadLock(c)
    \/ MainStep \/ JoinLock \/ SigInt

Spec == Init /\ [][Next]_vars

\* Processes and threads run, and the lock is given to those that wait for it
\* in turn.  Nobody is obliged to start a client, to type or to send a signal.
Fairness ==
    /\ WF_vars(MainStep) /\ SF_vars(JoinLock)
    /\ \A c \in Clients :
         WF_vars(ClientStep(c)) /\ WF_vars(ThreadStep(c)) /\ SF_vars(ThreadLock(c))

FairSpec == Spec /\ Fairness
-----------------------------------------------------------------------------
(* Properties                                                              *)

\* No more connections wait than the listening socket takes.
QueueFits == Alive => Pending <= Backlog + 1

\* The type invariant of the model.
TypeOK ==
    /\ cpc \in [Clients -> {"off", "reply", "confirm", "input", "ack",
                            "done", "failed", "dead"}]
    /\ name \in [Clients -> Files]
    /\ lines \in [Clients -> 0 .. MaxLines]
    /\ up \in [Clients -> Seq({"name", "j", "n", "line"})]
    /\ down \in [Clients -> Seq({"1", "-1", "bytes"})]
    /\ closed \subseteq Clients
    /\ tpc \in [Clients -> {"none", "start", "name", "answer", "data", "lock",
                            "unlock", "close", "ended", "quit"}]
    /\ fd \in [Clients -> Clients \cup {NoFd}]
    /\ exists \subseteq Files \cup {Other}
    /\ mpc \in {"accept", "accepted", "test", "close", "join", "unlock",
                "joining", "done", "dead"}
    /\ conn \in Seq(Clients) /\ QueueFits
    /\ args \in Clients \cup {NoFd} /\ thrid \in Clients \cup {NoFd}
    /\ counter \in Nat /\ ende \in BOOLEAN
    /\ semval \in {-1, 0}
    /\ sem \in [{0, 1} -> Nat] /\ sem[0] \in {0, 1}
    /\ left \in 0 .. MaxLeft
    /\ sigs \in 0 .. MaxSigs /\ kills \in 0 .. MaxKills

\* If no earlier server has left posts behind, the process does not end
\* before every thread it has created has seen the end of its connection.
OutlivesThreads ==
    mpc = "done" /\ left = 0 =>
        \A t \in Clients : tpc[t] \in {"none", "close", "ended"}

\* Where the uninitialised value happens to be -1 and all threads have ended
\* in good order before Ctrl-C, the server ends.
EndsAfterThreads ==
    (/\ mpc = "join" /\ semval = -1
     /\ \A t \in Clients : tpc[t] \in {"none", "ended"})
        ~> ~ Alive

\* Thread t is the only one on its connection.
Alone(t) == \A u \in Clients \ {t} : fd[u] # fd[t]

\* A thread that is alone on its connection ends when its client has gone, as
\* long as the server is not told to end.
ThreadEnds ==
    \A t \in Clients :
        tpc[t] \in {"answer", "data", "lock"} /\ Alone(t) /\ ~ ClientOpen(fd[t])
            ~> tpc[t] \in {"quit", "ended"} \/ ende \/ ~ Alive

-----------------------------------------------------------------------------
(* What Bs2ueb7.txt asks for and the program does not keep.                *)

\* Bs2ueb7.txt:9-11: a new thread serves the connection whose descriptor it
\* is passed, so no two threads work on the same one.
OwnConnection ==
    \A t, u \in Clients : t # u /\ fd[t] # NoFd => fd[t] # fd[u]
=============================================================================
