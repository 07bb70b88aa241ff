------------------------------- MODULE FdPass -------------------------------
(***************************************************************************)
(* Uni/bsys2/u5: a server takes one request for a file, passes the open    *)
(* descriptor over its UNIX socket and ends (server.c, client.c).  Every   *)
(* server removes the name of the socket when it starts and when it ends,  *)
(* whoever has bound it.                                                   *)
(***************************************************************************)
EXTENDS Integers, Sequences

CONSTANTS Clients, Servers,
          NoFile,       \* what open returns for a file that is not there
          MaxKills      \* bound: clients killed

VARIABLES
    cpc,        \* where each client stands
    wants,      \* wants[c]: the file client c names, which has its name, NoFile if there is none
    link,       \* link[c]: the server c is connected to, or NoFile
    request,    \* request[c]: its name is on the way
    answer,     \* answer[c]: <<>>, or the descriptor on the way to it
    got,        \* got[c]: what c prints
    vpc,        \* where each server stands
    bound,      \* the server whose socket has the name, or NoFile
    backlog,    \* backlog[v]: connections that v has not accepted
    peer,       \* peer[v]: the client it has accepted
    fd,         \* fd[v]: what it has opened
    kills

clientVars == <<cpc, wants, link, got>>
serverVars == <<vpc, bound, backlog, peer, fd>>
vars == <<clientVars, request, answer, serverVars, kills>>

Init ==
    /\ cpc = [c \in Clients |-> "off"]
    /\ \E S \in SUBSET Clients : wants = [c \in Clients |-> IF c \in S THEN c ELSE NoFile]
    /\ link = [c \in Clients |-> NoFile] /\ got = [c \in Clients |-> NoFile]
    /\ request = [c \in Clients |-> FALSE] /\ answer = [c \in Clients |-> <<>>]
    /\ vpc = [v \in Servers |-> "off"] /\ bound = NoFile
    /\ backlog = [v \in Servers |-> <<>>]
    /\ peer = [v \in Servers |-> NoFile] /\ fd = [v \in Servers |-> NoFile]
    /\ kills = 0

Go(pc, x, l) == [pc EXCEPT ![x] = l]
Listens(v)   == v # NoFile /\ vpc[v] \in {"accept", "recv", "send", "close"}
Gone(c)      == cpc[c] \notin {"name", "wait"}

-----------------------------------------------------------------------------
(* client.c                                                                *)

\* Nobody looks at whether connect has worked.
Connect(c) ==
    /\ cpc[c] = "off" /\ cpc' = Go(cpc, c, "name")
    /\ IF Listens(bound)
       THEN link' = [link EXCEPT ![c] = bound] /\ backlog' = [backlog EXCEPT ![bound] = Append(@, c)]
       ELSE UNCHANGED <<link, backlog>>
    /\ UNCHANGED <<wants, got, request, answer, vpc, bound, peer, fd, kills>>

\* Without a connection sendmsg fails, or SIGPIPE kills the client.
Ask(c) ==
    /\ cpc[c] = "name"
    /\ IF Listens(link[c])
       THEN cpc' = Go(cpc, c, "wait") /\ request' = [request EXCEPT ![c] = TRUE]
       ELSE cpc' = Go(cpc, c, "failed") /\ UNCHANGED request
    /\ UNCHANGED <<wants, link, got, answer, serverVars, kills>>

\* recv_fd: a message with a descriptor, one without, or the end.
ReadAnswer(c) ==
    /\ cpc[c] = "wait"
    /\ \/ answer[c] # <<>> /\ cpc' = Go(cpc, c, "done") /\ got' = [got EXCEPT ![c] = Head(answer[c])]
       \/ answer[c] = <<>> /\ ~ Listens(link[c]) /\ cpc' = Go(cpc, c, "failed") /\ UNCHANGED got
    /\ UNCHANGED <<wants, link, request, answer, serverVars, kills>>

KillClient(c) ==
    /\ kills < MaxKills /\ kills' = kills + 1
    /\ ~ Gone(c) /\ cpc' = Go(cpc, c, "dead")
    /\ UNCHANGED <<wants, link, got, request, answer, serverVars>>

-----------------------------------------------------------------------------
(* server.c                                                                *)

Start(v) ==
    /\ vpc[v] = "off" /\ vpc' = Go(vpc, v, "bind")
    /\ bound' = NoFile
    /\ UNCHANGED <<clientVars, request, answer, backlog, peer, fd, kills>>

\* Another server may have bound the name since it was removed.
Bind(v) ==
    /\ vpc[v] = "bind"
    /\ IF bound = NoFile
       THEN bound' = v /\ vpc' = Go(vpc, v, "accept")
       ELSE UNCHANGED bound /\ vpc' = Go(vpc, v, "failed")
    /\ UNCHANGED <<clientVars, request, answer, backlog, peer, fd, kills>>

Accept(v) ==
    /\ vpc[v] = "accept" /\ vpc' = Go(vpc, v, "recv")
    /\ backlog[v] # <<>> /\ backlog' = [backlog EXCEPT ![v] = Tail(@)]
    /\ peer' = [peer EXCEPT ![v] = Head(backlog[v])]
    /\ UNCHANGED <<clientVars, request, answer, bound, fd, kills>>

\* Mutant of RecvRequest: a request is not waited for.
RequestUnread(v) ==
    /\ vpc[v] = "recv" /\ vpc' = Go(vpc, v, "send")
    /\ \E f \in Clients \cup {NoFile} : fd' = [fd EXCEPT ![v] = f]
    /\ UNCHANGED <<clientVars, request, answer, bound, backlog, peer, kills>>

\* A client that left without a request leaves the name uninitialised: any
\* file may be opened, or none.
RecvRequest(v) ==
    /\ vpc[v] = "recv" /\ vpc' = Go(vpc, v, "send")
    /\ \/ request[peer[v]] /\ fd' = [fd EXCEPT ![v] = wants[peer[v]]]
       \/ ~ request[peer[v]] /\ Gone(peer[v]) /\ \E f \in Clients \cup {NoFile} : fd' = [fd EXCEPT ![v] = f]
    /\ UNCHANGED <<clientVars, request, answer, bound, backlog, peer, kills>>

\* Mutant of SendFd: a file that is not there is not reported.
SendFdOnly(v) ==
    /\ vpc[v] = "send"
    /\ IF Gone(peer[v])
       THEN vpc' = Go(vpc, v, "dead") /\ UNCHANGED answer
       ELSE /\ fd[v] # NoFile
            /\ vpc' = Go(vpc, v, "close") /\ answer' = [answer EXCEPT ![peer[v]] = <<fd[v]>>]
    /\ UNCHANGED <<clientVars, request, bound, backlog, peer, fd, kills>>

\* send_fd; a client that has gone is SIGPIPE, and the name of the socket stays.
SendFd(v) ==
    /\ vpc[v] = "send"
    /\ IF Gone(peer[v])
       THEN vpc' = Go(vpc, v, "dead") /\ UNCHANGED answer
       ELSE vpc' = Go(vpc, v, "close") /\ answer' = [answer EXCEPT ![peer[v]] = <<fd[v]>>]
    /\ UNCHANGED <<clientVars, request, bound, backlog, peer, fd, kills>>

Close(v) ==
    /\ vpc[v] = "close" /\ vpc' = Go(vpc, v, "unlink")
    /\ UNCHANGED <<clientVars, request, answer, bound, backlog, peer, fd, kills>>

Unlink(v) ==
    /\ vpc[v] = "unlink" /\ vpc' = Go(vpc, v, "done")
    /\ bound' = NoFile
    /\ UNCHANGED <<clientVars, request, answer, backlog, peer, fd, kills>>

Serve(v) == Accept(v) \/ RecvRequest(v) \/ SendFd(v) \/ Close(v) \/ Unlink(v)

Next ==
    \/ \E c \in Clients : Connect(c) \/ Ask(c) \/ ReadAnswer(c) \/ KillClient(c)
    \/ \E v \in Servers : Start(v) \/ Bind(v) \/ Serve(v)

Fairness == /\ \A c \in Clients : WF_vars(Ask(c) \/ ReadAnswer(c))
            /\ \A v \in Servers : WF_vars(Serve(v))

-----------------------------------------------------------------------------
TypeOK ==
    /\ bound \in Servers \cup {NoFile}
    /\ \A v \in Servers : vpc[v] \in {"recv", "send", "close", "unlink", "done"} => peer[v] \in Clients
    /\ \A c \in Clients : answer[c] # <<>> => request[c]

\* A client prints the file it has named or says that there is none, though a
\* server opens what it finds in its buffer.
OwnFile == \A c \in Clients : cpc[c] = "done" => got[c] = wants[c]

\* A server that has left by the end of main has answered its client.
AllIsRead ==
    \A v \in Servers : vpc[v] \in {"unlink", "done"} => answer[peer[v]] = <<wants[peer[v]]>>

\* A client has asked a server that can no longer answer, or that is there; a
\* server waits for a request of a client that has gone.
Waits ==
    \/ \E c \in Clients : cpc[c] = "wait" /\ (\E v \in Servers : link[c] = v /\ (peer[v] = c \/ ~ Listens(v)))
    \/ \E v \in Servers : vpc[v] = "recv" /\ Gone(peer[v])
=============================================================================
