----------------------------- MODULE StreamsPipe -----------------------------
(***************************************************************************)
(* Uni/bsys2/u2: a named STREAMS pipe (ausgabe.c receives, eingabe.c       *)
(* sends).  The control part of a message says what it is: -pid registers  *)
(* a sender, pid comes with a line, 0 signs off.  getmsg returns 0 on a    *)
(* pipe without writers and leaves the buffers as they are; the receiver   *)
(* has put "0" there, so that a hangup signs a sender off, too.            *)
(***************************************************************************)
EXTENDS Integers, Sequences, FiniteSets

CONSTANTS Senders,
          MaxLines,     \* bound: lines typed into one sender
          MaxKills      \* bound: senders killed from outside

VARIABLES
    spc,        \* where each sender stands
    sent,       \* sent[s]: lines s has put into the pipe
    pipe,       \* the messages in the pipe
    rpc,        \* where the receiver stands
    text,       \* what ctl.buf holds: "0", or "any" before the first message
    sender,     \* the receiver's counter
    beenden,    \* SIGINT seen
    stored,     \* stored[s]: lines in the file of s
    shown,      \* senders whose file was printed and removed
    accepted,   \* history: senders that were counted
    stray,      \* history: a sender that was turned away has signed off
    kills

sendVars == <<spc, sent>>
recvVars == <<rpc, text, sender, beenden, stored, shown, accepted, stray>>
vars == <<sendVars, pipe, recvVars, kills>>

Init ==
    /\ spc = [s \in Senders |-> "off"] /\ sent = [s \in Senders |-> 0]
    /\ pipe = <<>>
    /\ rpc = "open" /\ text = "any" /\ sender = 0 /\ beenden = FALSE
    /\ stored = [s \in Senders |-> 0] /\ shown = {} /\ accepted = {} /\ stray = FALSE
    /\ kills = 0

Goto(s, l) == spc' = [spc EXCEPT ![s] = l]
Msg(s, k)  == [from |-> s, kind |-> k]
Writers    == {s \in Senders : spc[s] \in {"register", "input", "signoff"}}
Reading    == rpc \in {"read", "loop"}

-----------------------------------------------------------------------------
(* eingabe.c                                                               *)

\* fopen of both sides returns when both have come.
Open(s) ==
    /\ spc[s] = "off"
    /\ rpc = "open" \/ Reading
    /\ Goto(s, "register")
    /\ rpc' = IF rpc = "open" THEN "read" ELSE rpc
    /\ UNCHANGED <<sent, pipe, text, sender, beenden, stored, shown, accepted, stray, kills>>

\* putmsg and the step to l.  Without a reader the sender is killed by SIGPIPE
\* or told of the error, which it prints.
Put(s, m, l) ==
    IF Reading
    THEN pipe' = Append(pipe, m) /\ Goto(s, l)
    ELSE UNCHANGED pipe /\ (Goto(s, l) \/ Goto(s, "dead"))

Register(s) ==
    /\ spc[s] = "register"
    /\ Put(s, Msg(s, "register"), "input")
    /\ UNCHANGED <<sent, recvVars, kills>>

SendLine(s) ==
    /\ spc[s] = "input"
    /\ sent[s] < MaxLines
    /\ Put(s, Msg(s, "line"), "input")
    /\ sent' = IF Reading THEN [sent EXCEPT ![s] = @ + 1] ELSE sent
    /\ UNCHANGED <<recvVars, kills>>

EndOfInput(s) ==
    /\ spc[s] = "input"
    /\ Goto(s, "signoff")
    /\ UNCHANGED <<sent, pipe, recvVars, kills>>

SignOff(s) ==
    /\ spc[s] = "signoff"
    /\ Put(s, Msg(s, "0"), "done")
    /\ UNCHANGED <<sent, recvVars, kills>>

KillSender(s) ==
    /\ kills < MaxKills /\ kills' = kills + 1
    /\ s \in Writers
    /\ Goto(s, "dead")
    /\ UNCHANGED <<sent, pipe, recvVars>>

-----------------------------------------------------------------------------
(* ausgabe.c                                                               *)

\* Print and remove the file of s, if there is one.
Show(s) ==
    IF stored[s] > 0
    THEN shown' = shown \cup {s} /\ stored' = [stored EXCEPT ![s] = 0]
    ELSE UNCHANGED <<shown, stored>>

\* Mutant of Handle: a registration sets the count instead of raising it.
HandleSets(s, kind) ==
    \/ /\ kind = "register" /\ ~ beenden
       /\ sender' = 1 /\ accepted' = accepted \cup {s}
       /\ UNCHANGED <<spc, stored, shown, stray>>
    \/ /\ kind = "register" /\ beenden
       /\ spc' = IF s \in Writers THEN [spc EXCEPT ![s] = "dead"] ELSE spc
       /\ UNCHANGED <<sender, accepted, stored, shown, stray>>
    \/ /\ kind = "0"
       /\ sender' = sender - 1 /\ stray' = (stray \/ s \notin accepted)
       /\ Show(s)
       /\ UNCHANGED <<spc, accepted>>
    \/ /\ kind = "line"
       /\ stored' = [stored EXCEPT ![s] = @ + 1]
       /\ UNCHANGED <<spc, sender, accepted, shown, stray>>

\* A message of s.  After Ctrl-C a sender that registers is killed.
Handle(s, kind) ==
    \/ /\ kind = "register" /\ ~ beenden
       /\ sender' = sender + 1 /\ accepted' = accepted \cup {s}
       /\ UNCHANGED <<spc, stored, shown, stray>>
    \/ /\ kind = "register" /\ beenden
       /\ spc' = IF s \in Writers THEN [spc EXCEPT ![s] = "dead"] ELSE spc
       /\ UNCHANGED <<sender, accepted, stored, shown, stray>>
    \/ /\ kind = "0"
       /\ sender' = sender - 1 /\ stray' = (stray \/ s \notin accepted)
       /\ Show(s)
       /\ UNCHANGED <<spc, accepted>>
    \/ /\ kind = "line"
       /\ stored' = [stored EXCEPT ![s] = @ + 1]
       /\ UNCHANGED <<spc, sender, accepted, shown, stray>>

\* Mutant of Hangup: it is taken for a line.
HangupIsLine == {"line"}

\* What a hangup can be taken for: the first time anything.
Hangup == IF text = "0" THEN {"0"} ELSE {"register", "0", "line"}

GetMsg ==
    /\ rpc = "read" /\ rpc' = "loop"
    /\ text' = "0"
    /\ \/ /\ pipe # <<>>
          /\ pipe' = Tail(pipe)
          /\ Handle(Head(pipe).from, Head(pipe).kind)
       \/ /\ pipe = <<>> /\ Writers = {}
          /\ \E k \in Hangup :
                sender' = IF k = "0" THEN sender - 1 ELSE IF k = "register" THEN sender + 1 ELSE sender
          /\ UNCHANGED <<pipe, spc, stored, shown, accepted, stray>>
    /\ UNCHANGED <<sent, beenden, kills>>

\* Mutant of LoopTest: the last sender is not waited for.
LoopTestOneLess ==
    /\ rpc = "loop"
    /\ rpc' = IF sender > 1 THEN "read" ELSE "unlink"
    /\ UNCHANGED <<sendVars, pipe, text, sender, beenden, stored, shown, accepted, stray, kills>>

LoopTest ==
    /\ rpc = "loop"
    /\ rpc' = IF sender > 0 THEN "read" ELSE "unlink"
    /\ UNCHANGED <<sendVars, pipe, text, sender, beenden, stored, shown, accepted, stray, kills>>

\* The pipe is closed and removed, with what is in it.
Unlink ==
    /\ rpc = "unlink" /\ rpc' = "done"
    /\ UNCHANGED <<sendVars, pipe, text, sender, beenden, stored, shown, accepted, stray, kills>>

\* The first SIGINT ends a fopen or getmsg that waits.
Interrupt ==
    /\ ~ beenden /\ rpc \in {"open", "read", "loop"}
    /\ beenden' = TRUE
    /\ rpc' = IF rpc = "open" THEN "failed" ELSE IF pipe = <<>> THEN "loop" ELSE rpc
    /\ UNCHANGED <<sendVars, pipe, text, sender, stored, shown, accepted, stray, kills>>

Receive == GetMsg \/ LoopTest \/ Unlink

Next ==
    \/ \E s \in Senders : \/ Open(s) \/ Register(s) \/ SendLine(s) \/ EndOfInput(s)
                          \/ SignOff(s) \/ KillSender(s)
    \/ Receive \/ Interrupt

Fairness == WF_vars(Receive)

-----------------------------------------------------------------------------
TypeOK ==
    /\ \A s \in Senders : sent[s] \in 0 .. MaxLines /\ stored[s] <= sent[s]
    /\ sender \in -1 .. Cardinality(Senders)
    /\ rpc \in {"open", "failed", "read", "loop", "unlink", "done"}

Unread(s) == \E j \in DOMAIN pipe : pipe[j].from = s

\* Everybody who was accepted and from whom something may still come is
\* counted, unless one who was turned away has signed off: hangups take away
\* no more than the senders that died.
NobodyUncounted ==
    rpc = "read" /\ ~ stray =>
        sender >= Cardinality({s \in accepted : s \in Writers \/ Unread(s)})

\* "empfange bis kein Sender mehr vorhanden" (ausgabe.c:98): with the same
\* exception the receiver leaves nothing of an accepted sender in the pipe, and
\* what a sender that has signed off had stored was shown.
AllIsRead ==
    rpc \in {"unlink", "done"} /\ ~ stray =>
        \A s \in accepted : /\ ~ Unread(s)
                            /\ spc[s] = "done" => stored[s] = 0

\* The receiver goes on though all senders have gone.
Waits == Reading /\ Writers = {}
=============================================================================
