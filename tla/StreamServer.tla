---------------------------- MODULE StreamServer ----------------------------
(***************************************************************************)
(* Uni/bsys2/u3: a server that forks a child for every connection of a     *)
(* Unix domain STREAM socket.  A client names a file, confirms that it may *)
(* be overwritten if it exists, and sends lines, each of which the child   *)
(* acknowledges and writes into the file.                                  *)
(*                                                                         *)
(* A stream has no message boundaries: read() returns all that has         *)
(* arrived, and the programs look at the first C string of it only.        *)
(***************************************************************************)
EXTENDS Integers, Sequences, Functions

CONSTANTS Clients,      \* the client processes
          Files,        \* the file names they may give
          Unwritable,   \* those that cannot be created or, if they exist, opened with "w"
          Unreadable,   \* those that exist and cannot be opened with "r"
          Backlog,      \* the second argument of listen
          MaxLines,     \* bound: lines typed into one client
          MaxSigs,      \* bound: SIGINTs sent to the server
          MaxKills      \* bound: clients killed

ASSUME StreamConstants ==
    /\ Unwritable \subseteq Files /\ Unreadable \subseteq Files
    /\ {Backlog, MaxLines, MaxSigs, MaxKills} \subseteq Nat

\* A message of a client: its file name, an answer, or its n-th line.
Message == [kind : {"name", "j", "n", "line"}, n : Nat]
Msg(k)  == [kind |-> k, n |-> 0]

Line == [from : Clients, n : Nat \ {0}]
Old  == [from |-> "nobody", n |-> 0]    \* what a file held at the beginning

VARIABLES
    cpc,        \* where each client stands
    name,       \* name[c]: the file client c names
    lines,      \* lines[c]: lines client c has sent
    acked,      \* history: how many of them c knows to be acknowledged
    up, down,   \* up[c], down[c]: what is under way to the child and back
    child,      \* child[c]: where the server end of c's connection stands
    buf,        \* buf[c]: lines the child has put into its stream buffer
    exists,     \* exists[f]: file f exists
    content,    \* content[f]: its lines
    confirmed,  \* history: clients that have answered j
    ppc,        \* where the server's parent process stands
    conn,       \* the connections that wait to be accepted
    ende,       \* the parent has seen SIGINT
    sigs, kills

clientVars == <<cpc, name, lines, acked, confirmed>>
childVars  == <<child, buf, exists, content>>
parentVars == <<ppc, conn, ende, sigs>>
vars == <<clientVars, up, down, childVars, parentVars, kills>>

Init ==
    /\ cpc = [c \in Clients |-> "off"]
    /\ name \in [Clients -> Files]
    /\ lines = [c \in Clients |-> 0] /\ acked = [c \in Clients |-> 0]
    /\ up = [c \in Clients |-> <<>>] /\ down = [c \in Clients |-> <<>>]
    /\ child = [c \in Clients |-> "none"]
    /\ buf = [c \in Clients |-> <<>>]
    /\ exists \in [Files -> BOOLEAN] /\ \A f \in Unreadable : exists[f]
    /\ content = [f \in Files |-> IF exists[f] THEN <<Old>> ELSE <<>>]
    /\ confirmed = {}
    /\ ppc = "loop" /\ conn = <<>> /\ ende = FALSE
    /\ sigs = 0 /\ kills = 0

-----------------------------------------------------------------------------
(* client.c                                                                *)

Goto(c, l) == cpc' = [cpc EXCEPT ![c] = l]
Write(q, c, m) == q' = [q EXCEPT ![c] = Append(@, m)]

ClientOpen(c) == cpc[c] \in {"reply", "confirm", "input", "ack"}
Serving(c)    == child[c] \in {"name", "create", "answer", "data", "quit"}
Listening     == ppc \notin {"wait", "done"}

\* connect succeeds as soon as there is room in the server's queue; the file
\* name follows.
Connect(c) ==
    /\ cpc[c] = "off"
    /\ Listening
    /\ Len(conn) <= Backlog
    /\ conn' = Append(conn, c)
    /\ Write(up, c, Msg("name"))
    /\ child' = [child EXCEPT ![c] = "queued"]
    /\ Goto(c, "reply")
    /\ UNCHANGED <<name, lines, acked, confirmed, down, buf, exists, content, ppc, ende, sigs, kills>>

ConnectRefused(c) ==
    /\ cpc[c] = "off"
    /\ ~ Listening
    /\ Goto(c, "failed")
    /\ UNCHANGED <<name, lines, acked, confirmed, up, down, childVars, parentVars, kills>>

\* Mutant of ReadReply: a failing read is not looked at.
ReadReplyOnly(c) ==
    /\ cpc[c] = "reply"
    /\ down[c] # <<>>
    /\ Goto(c, IF Head(down[c]) = "-1" THEN "confirm" ELSE "input")
    /\ down' = [down EXCEPT ![c] = <<>>]
    /\ UNCHANGED <<name, lines, acked, confirmed, up, childVars, parentVars, kills>>

\* The answer to the file name.  If the child has ended without one, read
\* returns 0 and the client goes on as if the file were there.
ReadReply(c) ==
    /\ cpc[c] = "reply"
    /\ \/ /\ down[c] # <<>>
          /\ Goto(c, IF Head(down[c]) = "-1" THEN "confirm" ELSE "input")
          /\ down' = [down EXCEPT ![c] = <<>>]
       \/ /\ down[c] = <<>> /\ child[c] = "done"
          /\ Goto(c, "input") /\ UNCHANGED down
       \/ /\ child[c] = "reset"
          /\ Goto(c, "failed") /\ UNCHANGED down
    /\ UNCHANGED <<name, lines, acked, confirmed, up, childVars, parentVars, kills>>

\* The user is asked whether to overwrite.
Confirm(c) ==
    /\ cpc[c] = "confirm"
    /\ \/ /\ Write(up, c, Msg("j"))
          /\ confirmed' = confirmed \cup {c}
          /\ Goto(c, "input")
       \/ /\ Write(up, c, Msg("n"))
          /\ Goto(c, "done") /\ UNCHANGED confirmed
    /\ UNCHANGED <<name, lines, acked, down, childVars, parentVars, kills>>

\* Mutant of SendLine: the client does not wait for the acknowledgement.
SendUnacknowledged(c) ==
    /\ cpc[c] = "input"
    /\ lines[c] < MaxLines
    /\ lines' = [lines EXCEPT ![c] = @ + 1]
    /\ Write(up, c, [kind |-> "line", n |-> lines[c] + 1])
    /\ Goto(c, "input")
    /\ UNCHANGED <<name, acked, confirmed, down, childVars, parentVars, kills>>

\* fgets returns a line (the first one may be the rest of the user's answer)
\* or the end of the input.  Writing to a child that has ended is SIGPIPE.
SendLine(c) ==
    /\ cpc[c] = "input"
    /\ lines[c] < MaxLines
    /\ IF child[c] \in {"done", "dead"}
       THEN Goto(c, "dead") /\ UNCHANGED <<lines, up>>
       ELSE /\ lines' = [lines EXCEPT ![c] = @ + 1]
            /\ Write(up, c, [kind |-> "line", n |-> lines[c] + 1])
            /\ Goto(c, "ack")
    /\ UNCHANGED <<name, acked, confirmed, down, childVars, parentVars, kills>>

EndOfInput(c) ==
    /\ cpc[c] = "input"
    /\ Goto(c, "done")
    /\ UNCHANGED <<name, lines, acked, confirmed, up, down, childVars, parentVars, kills>>

\* If the child has ended, read returns 0, and the client goes on, or it fails
\* because something was left unread.
ReadAck(c) ==
    /\ cpc[c] = "ack"
    /\ \/ /\ down[c] # <<>>
          /\ acked' = [acked EXCEPT ![c] = lines[c]]
          /\ Goto(c, "input")
          /\ down' = [down EXCEPT ![c] = <<>>]
       \/ /\ down[c] = <<>> /\ child[c] = "done"
          /\ Goto(c, IF up[c] = <<>> THEN "input" ELSE "failed")
          /\ UNCHANGED <<acked, down>>
    /\ UNCHANGED <<name, lines, confirmed, up, childVars, parentVars, kills>>

\* A client does not handle Ctrl-C.
Kill(c) ==
    /\ kills < MaxKills
    /\ ClientOpen(c)
    /\ kills' = kills + 1
    /\ Goto(c, "dead")
    /\ UNCHANGED <<name, lines, acked, confirmed, up, down, childVars, parentVars>>

-----------------------------------------------------------------------------
(* server.c, a child.  read takes all of up[c]; only its head counts.      *)

Become(c, l) == child' = [child EXCEPT ![c] = l]

\* fopen(dat, "w"): the file is there and empty.
Truncate(f) ==
    /\ exists' = [exists EXCEPT ![f] = TRUE]
    /\ content' = [content EXCEPT ![f] = <<>>]

\* Send m to the client; if it has closed its end this is SIGPIPE, and what
\* the child had buffered is lost.
Reply(c, m, l) ==
    IF ClientOpen(c)
    THEN Write(down, c, m) /\ Become(c, l)
    ELSE Become(c, "dead") /\ UNCHANGED down

\* Read the name and try fopen(dat, "r").
ChildName(c) ==
    /\ child[c] = "name"
    /\ up' = [up EXCEPT ![c] = <<>>]
    /\ IF exists[name[c]] /\ name[c] \notin Unreadable
       THEN Reply(c, "-1", "answer")
       ELSE Become(c, "create") /\ UNCHANGED down
    /\ UNCHANGED <<clientVars, buf, exists, content, parentVars, kills>>

\* It could not be opened, which is taken for not being there: fopen(dat, "w").
ChildCreate(c) ==
    /\ child[c] = "create"
    /\ IF name[c] \in Unwritable
       THEN Become(c, "done") /\ UNCHANGED <<down, exists, content>>
       ELSE Truncate(name[c]) /\ Reply(c, "1", "data")
    /\ UNCHANGED <<clientVars, up, buf, parentVars, kills>>

\* Mutant of ChildAnswer: the answer is not compared with "j".
AnswerIgnored(c) ==
    /\ child[c] = "answer"
    /\ up[c] # <<>> \/ ~ ClientOpen(c)
    /\ Truncate(name[c])
    /\ Become(c, "data")
    /\ up' = [up EXCEPT ![c] = <<>>]
    /\ UNCHANGED <<clientVars, down, buf, parentVars, kills>>

\* Mutant of ChildAnswer: the answer stays in the stream.
AnswerLeft(c) ==
    /\ child[c] = "answer"
    /\ up[c] # <<>> \/ ~ ClientOpen(c)
    /\ IF up[c] # <<>> /\ Head(up[c]).kind = "j" /\ name[c] \notin Unwritable
       THEN Truncate(name[c]) /\ Become(c, "data")
       ELSE Become(c, "done") /\ UNCHANGED <<exists, content>>
    /\ UNCHANGED <<clientVars, up, down, buf, parentVars, kills>>

\* Read the answer; a line that has come with it is lost.  When the client is
\* gone the buffer still holds "-1", which is not "j".  A file that cannot be
\* opened with "w" is left as it is, which the client is not told.
ChildAnswer(c) ==
    /\ child[c] = "answer"
    /\ up[c] # <<>> \/ ~ ClientOpen(c)
    /\ LET j == up[c] # <<>> /\ Head(up[c]).kind = "j"
       IN IF j /\ name[c] \notin Unwritable
          THEN Truncate(name[c]) /\ Become(c, "data")
          ELSE Become(c, "done") /\ UNCHANGED <<exists, content>>
    /\ up' = [up EXCEPT ![c] = <<>>]
    /\ UNCHANGED <<clientVars, down, buf, parentVars, kills>>

\* Read a line, put it into the stream and acknowledge it.
ChildData(c) ==
    /\ child[c] = "data"
    /\ up[c] # <<>>
    /\ up' = [up EXCEPT ![c] = <<>>]
    /\ buf' = [buf EXCEPT ![c] = Append(@, [from |-> c, n |-> Head(up[c]).n])]
    /\ Reply(c, "bytes", "data")
    /\ UNCHANGED <<clientVars, exists, content, parentVars, kills>>

\* Mutant of ChildEof: the child ends with _exit, which writes no buffer.
EofUnwritten(c) ==
    /\ child[c] = "data"
    /\ up[c] = <<>> /\ ~ ClientOpen(c)
    /\ Become(c, "done")
    /\ UNCHANGED <<clientVars, up, down, buf, exists, content, parentVars, kills>>

\* Mutant of ChildEof: the loop does not end when read returns 0.
EofUnseen(c) ==
    /\ child[c] = "data"
    /\ up[c] = <<>> /\ ~ ClientOpen(c)
    /\ UNCHANGED vars

\* The client has closed its end (or died with an answer unread, which makes
\* read fail): leave the loop.
ChildEof(c) ==
    /\ child[c] = "data"
    /\ up[c] = <<>> /\ ~ ClientOpen(c)
    /\ Become(c, "quit")
    /\ UNCHANGED <<clientVars, up, down, buf, exists, content, parentVars, kills>>

\* A stream opened with "w" writes from the start of the file, whatever
\* another stream has put there.
Overlay(new, old) ==
    new \o SubSeq(old, Len(new) + 1, Len(old))

\* fclose or exit writes out the buffer, then the connection is closed.
ChildQuit(c) ==
    /\ child[c] = "quit"
    /\ content' = [content EXCEPT ![name[c]] = Overlay(buf[c], @)]
    /\ Become(c, "done")
    /\ UNCHANGED <<clientVars, up, down, buf, exists, parentVars, kills>>

-----------------------------------------------------------------------------
(* server.c, the parent                                                    *)

\* From the test of ende (or from the start) into accept.
EnterAccept ==
    /\ ppc = "loop"
    /\ ppc' = "accept"
    /\ UNCHANGED <<clientVars, up, down, childVars, conn, ende, sigs, kills>>

\* accept returns a connection, whose child is forked unless SIGINT has come.
Accept ==
    /\ ppc = "accept"
    /\ conn # <<>>
    /\ conn' = Tail(conn)
    /\ ppc' = "accepted"
    /\ Become(Head(conn), "held")
    /\ UNCHANGED <<clientVars, up, down, buf, exists, content, ende, sigs, kills>>

\* Fork, close the parent's descriptor, and test ende again.
Fork(c) ==
    /\ ppc = "accepted"
    /\ child[c] = "held"
    /\ IF ende THEN ppc' = "close" /\ UNCHANGED child
               ELSE ppc' = "test" /\ Become(c, "name")
    /\ UNCHANGED <<clientVars, up, down, buf, exists, content, conn, ende, sigs, kills>>

LoopTest ==
    /\ ppc = "test"
    /\ ppc' = IF ende THEN "close" ELSE "loop"
    /\ UNCHANGED <<clientVars, up, down, childVars, conn, ende, sigs, kills>>

\* Close the listening socket: connections that wait are reset.
CloseListener ==
    /\ ppc = "close"
    /\ conn' = <<>>
    /\ child' = [c \in Clients |->
                   IF child[c] = "queued" THEN "reset" ELSE child[c]]
    /\ ppc' = "wait"
    /\ UNCHANGED <<clientVars, up, down, buf, exists, content, ende, sigs, kills>>

\* The end of the parent closes a connection it has accepted but not served.
ParentEnds ==
    /\ ppc' = "done"
    /\ child' = [c \in Clients |->
                   IF child[c] = "held" THEN "reset" ELSE child[c]]

\* Mutant of WaitChildren: the parent ends without waiting.
NoWait ==
    /\ ppc = "wait"
    /\ ParentEnds
    /\ UNCHANGED <<clientVars, up, down, buf, exists, content, conn, ende, sigs, kills>>

\* wait() has returned all children.
WaitChildren ==
    /\ ppc = "wait"
    /\ \A c \in Clients : ~ Serving(c)
    /\ ParentEnds
    /\ UNCHANGED <<clientVars, up, down, buf, exists, content, conn, ende, sigs, kills>>

\* SIGINT: sigset() installs the handler without SA_RESTART, so a call the
\* parent is blocked in returns -1: accept, after which the loop is left, or
\* wait, after which the parent ends.
SigInt ==
    /\ ppc # "done"
    /\ sigs < MaxSigs
    /\ sigs' = sigs + 1
    /\ ende' = TRUE
    /\ \/ /\ ppc = "accept" /\ conn = <<>>
          /\ ppc' = "close" /\ UNCHANGED child
       \/ /\ ppc = "wait" /\ \E c \in Clients : Serving(c)
          /\ ParentEnds
       \/ /\ ~ (ppc = "accept" /\ conn = <<>>)
          /\ ~ (ppc = "wait" /\ \E c \in Clients : Serving(c))
          /\ UNCHANGED <<ppc, child>>
    /\ UNCHANGED <<clientVars, up, down, buf, exists, content, conn, kills>>

-----------------------------------------------------------------------------

ClientStep(c) == ReadReply(c) \/ ReadAck(c)

ChildStep(c) ==
    \/ ChildName(c) \/ ChildCreate(c) \/ ChildAnswer(c)
    \/ ChildData(c) \/ ChildEof(c) \/ ChildQuit(c)

ParentStep ==
    \/ EnterAccept \/ Accept \/ LoopTest \/ CloseListener \/ WaitChildren
    \/ \E c \in Clients : Fork(c)

Next ==
    \/ \E c \in Clients :
         \/ Connect(c) \/ ConnectRefused(c) \/ Confirm(c)
         \/ SendLine(c) \/ EndOfInput(c) \/ Kill(c)
         \/ ClientStep(c) \/ ChildStep(c)
    \/ ParentStep \/ SigInt

Spec == Init /\ [][Next]_vars

\* Every process that can run does.  Nobody is obliged to start a client, to
\* type, or to send a signal.
Fairness ==
    /\ WF_vars(ParentStep)
    /\ \A c \in Clients : WF_vars(ClientStep(c)) /\ WF_vars(ChildStep(c))

FairSpec == Spec /\ Fairness
-----------------------------------------------------------------------------
(* Properties                                                              *)

\* The type invariant of the model.
TypeOK ==
    /\ cpc \in [Clients -> {"off", "reply", "confirm", "input", "ack",
                            "done", "failed", "dead"}]
    /\ name \in [Clients -> Files]
    /\ lines \in [Clients -> 0 .. MaxLines] /\ acked \in [Clients -> 0 .. MaxLines]
    /\ up \in [Clients -> Seq(Message)]
    /\ down \in [Clients -> Seq({"1", "-1", "bytes"})]
    /\ child \in [Clients -> {"none", "queued", "held", "reset", "name",
                              "create", "answer", "data", "quit", "done", "dead"}]
    /\ buf \in [Clients -> Seq(Line)]
    /\ exists \in [Files -> BOOLEAN]
    /\ content \in [Files -> Seq(Line \cup {Old})]
    /\ confirmed \subseteq Clients
    /\ ppc \in {"loop", "accept", "accepted", "test", "close", "wait", "done"}
    /\ conn \in Seq(Clients) /\ Len(conn) <= Backlog + 1
    /\ ende \in BOOLEAN
    /\ sigs \in 0 .. MaxSigs /\ kills \in 0 .. MaxKills

\* No other client names the file of c.
Alone(c) == \A d \in Clients \ {c} : name[d] # name[c]

\* What a child leaves that has ended in good order in a file of its client's
\* own that can be written: the lines of the client from the first one on, at
\* least those that were acknowledged, and all of them if the client has ended
\* in good order too.  No confirmation is taken for a line, no line for a
\* confirmation.
SentIsStored ==
    \A c \in Clients :
        child[c] = "done" /\ Alone(c) /\ name[c] \notin Unwritable
          /\ (Old \in Range(content[name[c]]) => c \in confirmed)
        => \E m \in acked[c] .. lines[c] :
             /\ content[name[c]] = [i \in 1 .. m |-> [from |-> c, n |-> i]]
             /\ cpc[c] = "done" => m = lines[c]

\* What a file held at the beginning is only ever lost after a client has
\* confirmed it, whoever else uses the same name and whoever is killed, unless
\* the file cannot be opened with "r", which is how the child looks for it.
OldIsKept ==
    [][\A f \in Files \ Unreadable :
         Old \in Range(content[f]) /\ Old \notin Range(content'[f]) =>
            \E c \in confirmed : name[c] = f]_vars

\* After one SIGINT the parent does not end before all of its children.
OutlivesChildren ==
    ppc = "done" /\ sigs = 1 => \A c \in Clients : ~ Serving(c)

\* A child ends when its client has closed the connection or has died.
ChildEnds ==
    \A c \in Clients : Serving(c) /\ ~ ClientOpen(c) ~> ~ Serving(c)

\* A client whose connection the server has taken but does not serve learns
\* that, at the latest when the clients that are served have ended.
UnservedLearns ==
    \A c \in Clients :
        cpc[c] = "reply" /\ ppc \in {"close", "wait"} /\ ~ Serving(c)
            ~> \/ cpc[c] # "reply"
               \/ \E d \in Clients : Serving(d) /\ ClientOpen(d)

Store == INSTANCE StreamStore WITH
    Sources  <- Clients,
    stored   <- [c \in Clients |-> [i \in DOMAIN buf[c] |-> buf[c][i].n]],
    finished <- [c \in Clients |-> child[c] \in {"quit", "done"}]

\* Every child passes the lines of its client on whole and in order.
ImplementsStore == Store!Spec

-----------------------------------------------------------------------------
(* What Bs2ueb3.txt asks for and the programs do not keep.                 *)

\* Bs2ueb3.txt:12-14: every line the client sends is acknowledged.
LineIsAcknowledged ==
    \A c \in Clients : cpc[c] = "ack" ~> cpc[c] # "ack"
=============================================================================
