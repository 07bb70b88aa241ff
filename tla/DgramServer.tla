---------------------------- MODULE DgramServer ----------------------------
(***************************************************************************)
(* Uni/bsys2/u4: several client.c send lines to one server.c through Unix  *)
(* domain DGRAM sockets.  The server keeps the lines of a client in a file *)
(* named after the client's socket and prints the file when the client     *)
(* says "exit"; that this file exists is all it knows of a client.         *)
(***************************************************************************)
EXTENDS Integers, Sequences, SequencesExt, FiniteSets

CONSTANTS Clients,      \* the client processes
          MaxLines,     \* bound: lines typed into one client
          QLen,         \* datagrams the server's socket holds (max_dgram_qlen)
          MaxRuns,      \* bound: how often the server is started
          MaxKills      \* bound: how many processes are killed

ASSUME DgramConstants ==
    /\ IsFiniteSet(Clients)
    /\ MaxLines \in Nat
    /\ QLen \in Nat \ {0} /\ MaxRuns \in Nat \ {0}
    /\ MaxKills \in Nat

\* What a datagram says: a line, or the word "exit" - which a client also
\* sends for a last line "exit" that Ctrl-D, not Return, has ended.
Texts    == {"line", "exit"}
Datagram == [from : Clients, text : Texts, n : Nat \ {0}]

VARIABLES
    cpc,        \* where each client stands
    text,       \* text[c]: what client c is about to send
    sent,       \* sent[c]: datagrams of c, counting failed sendto calls
    inbox,      \* inbox[c]: answers that wait in the socket of c
    spc,        \* where the server stands
    srvq,       \* datagrams in the server's socket, headed by the one in hand
    counter,    \* the server's count of clients
    ende,       \* the server has seen Ctrl-C
    file,       \* file[c]: the lines in <sockXXXXXX>.txt; empty: no such file
    printed,    \* history: printed[c], the lines of c written to stdout
    silent,     \* history: clients counted when they said "exit" first
    runs, kills

clientVars == <<cpc, text, sent>>
serverVars == <<spc, counter, ende, file, printed, silent>>
bounds     == <<runs, kills>>
vars       == <<clientVars, inbox, srvq, serverVars, bounds>>

Init ==
    /\ cpc = [c \in Clients |-> "off"]
    /\ text = [c \in Clients |-> "line"]
    /\ sent = [c \in Clients |-> 0]
    /\ inbox = [c \in Clients |-> <<>>]
    /\ spc = "off" /\ srvq = <<>> /\ counter = 0 /\ ende = FALSE
    /\ file = [c \in Clients |-> <<>>]
    /\ printed = [c \in Clients |-> <<>>]
    /\ silent = {}
    /\ runs = 0 /\ kills = 0

-----------------------------------------------------------------------------
(* client.c                                                                *)

Goto(c, l) == cpc' = [cpc EXCEPT ![c] = l]

Running == spc \in {"recvfrom", "handle"}

\* How many datagrams wait in the server's socket.
Waiting == Len(srvq) - (IF spc = "handle" THEN 1 ELSE 0)

\* The socket of c is open.
Bound(c) == cpc[c] \in {"fgets", "sendto", "recvfrom", "exit"}

\* sendto waits for room in the server's socket; if there is no server it
\* fails, which nobody notices.
SendTo(c, t) ==
    /\ sent' = [sent EXCEPT ![c] = @ + 1]
    /\ IF Running
       THEN /\ Waiting < QLen
            /\ srvq' = Append(srvq, [from |-> c, text |-> t, n |-> sent[c] + 1])
       ELSE UNCHANGED srvq

ClientStart(c) ==
    /\ cpc[c] = "off"
    /\ Goto(c, "fgets")
    /\ UNCHANGED <<text, sent, inbox, srvq, serverVars, bounds>>

\* A line, a line "exit" without its newline, or Ctrl-D.
Input(c) ==
    /\ cpc[c] = "fgets"
    /\ \/ /\ sent[c] < MaxLines
          /\ \E t \in Texts : text' = [text EXCEPT ![c] = t]
          /\ Goto(c, "sendto")
       \/ /\ Goto(c, "exit")
          /\ UNCHANGED text
    /\ UNCHANGED <<sent, inbox, srvq, serverVars, bounds>>

SendLine(c) ==
    /\ cpc[c] = "sendto"
    /\ SendTo(c, text[c])
    /\ Goto(c, "recvfrom")
    /\ UNCHANGED <<text, inbox, serverVars, bounds>>

ReadAnswer(c) ==
    /\ cpc[c] = "recvfrom"
    /\ inbox[c] # <<>>
    /\ inbox' = [inbox EXCEPT ![c] = Tail(@)]
    /\ Goto(c, IF Head(inbox[c]) = "exit" THEN "exit" ELSE "fgets")
    /\ UNCHANGED <<text, sent, srvq, serverVars, bounds>>

\* The length of the address is set in the loop only: when the input has ended
\* at once sendto is given what is in it, and may fail.
SendUnset(c) ==
    /\ sent[c] = 0
    /\ sent' = [sent EXCEPT ![c] = @ + 1]
    /\ UNCHANGED srvq

\* Say "exit", close and unlink the socket.
SendExit(c) ==
    /\ cpc[c] = "exit"
    /\ SendTo(c, "exit") \/ SendUnset(c)
    /\ Goto(c, "done")
    /\ inbox' = [inbox EXCEPT ![c] = <<>>]
    /\ UNCHANGED <<text, serverVars, bounds>>

-----------------------------------------------------------------------------
(* server.c                                                                *)

ServerStart ==
    /\ ~ Running
    /\ runs < MaxRuns
    /\ runs' = runs + 1
    /\ spc' = "recvfrom" /\ counter' = 0 /\ ende' = FALSE
    /\ UNCHANGED <<clientVars, inbox, srvq, file, printed, silent, kills>>

\* The answer reaches a client whose socket is still open.
Answer(c, a) ==
    inbox' = IF Bound(c) THEN [inbox EXCEPT ![c] = Append(@, a)] ELSE inbox

\* After Ctrl-C: a client without a file is sent away.
Reject(d) ==
    /\ Answer(d.from, "exit")
    /\ UNCHANGED <<counter, file, printed, silent>>

\* Mutant of StoreLine: the file is opened with "w".
StoreAnew(d) ==
    /\ counter' = IF file[d.from] = <<>> THEN counter + 1 ELSE counter
    /\ file' = [file EXCEPT ![d.from] = <<d.n>>]
    /\ Answer(d.from, "length")
    /\ UNCHANGED <<printed, silent>>

\* Mutant of StoreLine: the answer is not sent.
StoreUnanswered(d) ==
    /\ counter' = IF file[d.from] = <<>> THEN counter + 1 ELSE counter
    /\ file' = [file EXCEPT ![d.from] = Append(@, d.n)]
    /\ UNCHANGED <<inbox, printed, silent>>

\* Mutant of StoreLine: the buffer goes back as it came.
StoreEchoed(d) ==
    /\ counter' = IF file[d.from] = <<>> THEN counter + 1 ELSE counter
    /\ file' = [file EXCEPT ![d.from] = Append(@, d.n)]
    /\ Answer(d.from, d.text)
    /\ UNCHANGED <<printed, silent>>

\* A line: a client without a file is counted, the line is appended.
StoreLine(d) ==
    /\ counter' = IF file[d.from] = <<>> THEN counter + 1 ELSE counter
    /\ file' = [file EXCEPT ![d.from] = Append(@, d.n)]
    /\ Answer(d.from, "length")
    /\ UNCHANGED <<printed, silent>>

\* Mutant of EndStream: the client is not counted down.
EndUncounted(d) ==
    /\ IF file[d.from] = <<>>
       THEN /\ counter' = counter + 1
            /\ silent' = silent \cup {d.from}
            /\ UNCHANGED <<file, printed>>
       ELSE /\ counter' = counter
            /\ printed' = [printed EXCEPT ![d.from] = file[d.from]]
            /\ file' = [file EXCEPT ![d.from] = <<>>]
            /\ UNCHANGED silent
    /\ UNCHANGED inbox

\* "exit": the file is printed and removed.  A client without a file is
\* counted here too, and stays so.
EndStream(d) ==
    /\ IF file[d.from] = <<>>
       THEN /\ counter' = counter + 1
            /\ silent' = silent \cup {d.from}
            /\ UNCHANGED <<file, printed>>
       ELSE /\ counter' = counter - 1
            /\ printed' = [printed EXCEPT ![d.from] = file[d.from]]
            /\ file' = [file EXCEPT ![d.from] = <<>>]
            /\ UNCHANGED silent
    /\ UNCHANGED inbox

\* The condition of the loop.
GoesOn(count) == count > 0

Receive ==
    /\ spc = "recvfrom"
    /\ srvq # <<>>
    /\ spc' = "handle"
    /\ UNCHANGED <<clientVars, inbox, srvq, counter, ende, file, printed, silent, bounds>>

\* The rest of the loop; when no client is left the socket is closed with all
\* that has arrived meanwhile.
Handle ==
    /\ spc = "handle"
    /\ LET d == Head(srvq)
       IN  IF ende /\ file[d.from] = <<>> THEN Reject(d)
           ELSE IF d.text = "line" THEN StoreLine(d)
           ELSE EndStream(d)
    /\ IF GoesOn(counter')
       THEN spc' = "recvfrom" /\ srvq' = Tail(srvq)
       ELSE spc' = "ended" /\ srvq' = <<>>
    /\ UNCHANGED <<clientVars, ende, bounds>>

\* Ctrl-C; signal() restarts a recvfrom that waits, further ones are ignored.
SigInt ==
    /\ Running
    /\ ende' = TRUE
    /\ UNCHANGED <<clientVars, inbox, srvq, spc, counter, file, printed, silent, bounds>>

-----------------------------------------------------------------------------
(* A client does not handle Ctrl-C; the server can be killed otherwise.    *)

KillClient(c) ==
    /\ kills < MaxKills
    /\ Bound(c)
    /\ kills' = kills + 1
    /\ Goto(c, "dead")
    /\ inbox' = [inbox EXCEPT ![c] = <<>>]
    /\ UNCHANGED <<text, sent, srvq, serverVars, runs>>

KillServer ==
    /\ kills < MaxKills
    /\ Running
    /\ kills' = kills + 1
    /\ spc' = "dead" /\ srvq' = <<>>
    /\ UNCHANGED <<clientVars, inbox, counter, ende, file, printed, silent, runs>>

-----------------------------------------------------------------------------

ClientStep(c) == SendLine(c) \/ ReadAnswer(c) \/ SendExit(c)
ServerStep    == Receive \/ Handle

Next ==
    \/ \E c \in Clients :
         ClientStart(c) \/ Input(c) \/ ClientStep(c) \/ KillClient(c)
    \/ ServerStart \/ ServerStep \/ SigInt \/ KillServer

Spec == Init /\ [][Next]_vars

\* Processes run, and those that wait for room in the server's socket get it
\* in turn.  Nobody is obliged to start, to type, to press Ctrl-C or to kill.
Fairness ==
    /\ WF_vars(ServerStep)
    /\ \A c \in Clients :
         WF_vars(ReadAnswer(c)) /\ SF_vars(SendLine(c)) /\ SF_vars(SendExit(c))

FairSpec == Spec /\ Fairness
-----------------------------------------------------------------------------
(* Properties                                                              *)

\* The type invariant of the model.
TypeOK ==
    /\ cpc \in [Clients -> {"off", "fgets", "sendto", "recvfrom", "exit", "done", "dead"}]
    /\ text \in [Clients -> Texts]
    /\ sent \in [Clients -> Nat]
    /\ inbox \in [Clients -> Seq({"exit", "length"})]
    /\ spc \in {"off", "recvfrom", "handle", "ended", "dead"}
    /\ srvq \in Seq(Datagram) /\ Waiting \in 0 .. QLen
    /\ counter \in Int /\ ende \in BOOLEAN
    /\ file \in [Clients -> Seq(Nat)]
    /\ printed \in [Clients -> Seq(Nat)]
    /\ silent \subseteq Clients
    /\ runs \in 0 .. MaxRuns /\ kills \in 0 .. MaxKills

\* The first server's counter is the number of files it keeps and of clients
\* that said "exit" before anything else.
CounterIsFiles ==
    Running /\ runs = 1 =>
        counter = Cardinality({c \in Clients : file[c] # <<>>})
                  + Cardinality(silent)

\* A line of c waits in the server's socket for an answer.
LineQueued(c) ==
    /\ cpc[c] = "recvfrom" /\ text[c] = "line"
    /\ \E i \in DOMAIN srvq : srvq[i].from = c

\* While the server runs, a client whose line has reached it is answered.
LineIsAnswered ==
    \A c \in Clients : LineQueued(c) ~> cpc[c] # "recvfrom" \/ ~ Running

\* Once all clients have ended in good order the server ends, unless one of
\* them had said "exit" before anything else.
ServerEnds ==
    (/\ Running /\ counter > 0
     /\ \A c \in Clients : cpc[c] = "done")
        ~> ~ Running \/ silent # {}

Store == INSTANCE StreamStore WITH
    Sources  <- Clients,
    stored   <- [c \in Clients |-> IF printed[c] # <<>> THEN printed[c] ELSE file[c]],
    finished <- [c \in Clients |-> printed[c] # <<>>]

\* The server keeps the streams apart, in order and whole, and prints each
\* once, also across a restart that finds the files of the server before.
ImplementsStore == Store!Spec
=============================================================================
