------------------------- MODULE DgramServerProofs -------------------------
(***************************************************************************)
(* Proofs about DgramServer for any number of clients, lines, restarts and *)
(* kills: the first server counts the files it keeps and the clients that  *)
(* said "exit" first, and the server implements StreamStore.               *)
(*                                                                         *)
(* The argument is that a client waits for the answer to each line: it has *)
(* one datagram under way at most, whose number is the next of its file.   *)
(***************************************************************************)
EXTENDS DgramServer, SequenceTheorems, FiniteSetTheorems, TLAPS

\* A file holds the lines of its client from the first on, without a gap.
Whole(s) == \A i \in 1 .. Len(s) : s[i] = i

\* What the server has stored of a client: in its file or, once it is printed,
\* on stdout.
FileInv ==
    \A c \in Clients :
        /\ Whole(file[c]) /\ Whole(printed[c])
        /\ printed[c] # <<>> => file[c] = <<>>

\* The stream of c has not ended at the server.
Unended(c) == printed[c] = <<>> /\ c \notin silent

\* The datagram d in the server's socket is the only thing that is under way
\* between its client and the server, and a line is the next of its file.
UnderWay(d) ==
    /\ cpc[d.from] \in {"recvfrom", "done", "dead"}
    /\ inbox[d.from] = <<>>
    /\ Unended(d.from)
    /\ d.text = "line" => d.n = Len(file[d.from]) + 1
    /\ cpc[d.from] = "recvfrom" => d.n = sent[d.from]

QueueInv ==
    /\ \A i \in 1 .. Len(srvq) : UnderWay(srvq[i])
    /\ \A i, j \in 1 .. Len(srvq) : srvq[i].from = srvq[j].from => i = j

\* A client that may still send a line has all of its lines stored; one that
\* is answered is answered once.
ClientInv ==
    \A c \in Clients :
        /\ cpc[c] \in {"off", "fgets", "sendto"} => sent[c] = Len(file[c])
        /\ cpc[c] \in {"off", "fgets", "sendto", "exit"} => Unended(c)
        /\ cpc[c] # "recvfrom" => inbox[c] = <<>>
        /\ inbox[c] # <<>> =>
             /\ Tail(inbox[c]) = <<>> /\ Unended(c)
             /\ Head(inbox[c]) = "length" => sent[c] = Len(file[c])

\* The server's socket exists while the server runs; before its first start
\* nothing is stored.
ServerInv ==
    /\ ~ Running => srvq = <<>>
    /\ spc = "handle" => srvq # <<>>
    /\ runs = 0 => ~ Running /\ silent = {} /\ \A c \in Clients : file[c] = <<>>

\* The clients whose file exists.
Kept == {c \in Clients : file[c] # <<>>}

IndInv == TypeOK /\ FileInv /\ QueueInv /\ ClientInv /\ ServerInv /\ CounterIsFiles

-----------------------------------------------------------------------------
(* Sequences                                                               *)

\* What is left of a sequence without its head.
LEMMA TailLemma ==
    ASSUME NEW S, NEW q \in Seq(S), q # <<>>
    PROVE  /\ Head(q) \in S /\ Head(q) = q[1] /\ 1 \in 1 .. Len(q)
           /\ Tail(q) \in Seq(S) /\ Len(Tail(q)) = Len(q) - 1
           /\ \A i \in 1 .. Len(Tail(q)) : i + 1 \in 1 .. Len(q) /\ Tail(q)[i] = q[i + 1]
BY HeadTailProperties, EmptySeq

\* What a sequence is with one more element.
LEMMA AppendLemma ==
    ASSUME NEW S, NEW q \in Seq(S), NEW e \in S
    PROVE  /\ Append(q, e) \in Seq(S) /\ Len(Append(q, e)) = Len(q) + 1
           /\ Append(q, e) # <<>>
           /\ Append(q, e)[Len(q) + 1] = e
           /\ \A i \in 1 .. Len(q) : Append(q, e)[i] = q[i]
BY AppendProperties

\* A sequence with one element.
LEMMA OneLemma ==
    ASSUME NEW S, NEW e \in S
    PROVE  /\ Append(<<>>, e) # <<>> /\ Append(<<>>, e) \in Seq(S)
           /\ Head(Append(<<>>, e)) = e /\ Tail(Append(<<>>, e)) = <<>>
BY EmptySeq

-----------------------------------------------------------------------------
(* The clients                                                             *)

\* IndInv holds at the beginning.
LEMMA InitCase == Init => IndInv
<1> SUFFICES ASSUME Init PROVE IndInv
  OBVIOUS
<1>1. TypeOK
  <2>1. Waiting = 0
    BY DEF Init, Waiting
  <2>2. /\ <<>> \in Seq(Nat) /\ <<>> \in Seq(Datagram)
        /\ <<>> \in Seq({"exit", "length"})
    BY EmptySeq
  <2>3. inbox \in [Clients -> Seq({"exit", "length"})] /\ srvq \in Seq(Datagram)
        /\ file \in [Clients -> Seq(Nat)] /\ printed \in [Clients -> Seq(Nat)]
    BY <2>2, Zenon DEF Init
  <2>4. cpc \in [Clients -> {"off", "fgets", "sendto", "recvfrom", "exit", "done", "dead"}]
        /\ text \in [Clients -> Texts] /\ sent \in [Clients -> Nat]
    BY DEF Init, Texts
  <2>5. /\ spc = "off" /\ counter \in Int /\ silent \subseteq Clients
        /\ runs \in 0 .. MaxRuns /\ kills \in 0 .. MaxKills /\ Waiting \in 0 .. QLen
    BY <2>1, DgramConstants DEF Init
  <2>6. ende \in BOOLEAN
    BY DEF Init
  <2> QED
    BY <2>3, <2>4, <2>5, <2>6, Zenon DEF TypeOK
<1>2. FileInv /\ QueueInv /\ ClientInv /\ ServerInv
  BY DEF Init, FileInv, Whole, QueueInv, ClientInv, Unended, ServerInv, Running
<1>3. CounterIsFiles
  BY DEF Init, CounterIsFiles, Running
<1> QED
  BY <1>1, <1>2, <1>3 DEF IndInv

\* A step that leaves alone what the server knows and has in its socket, and
\* what waits for the clients.
LEMMA ClientMoves ==
    ASSUME IndInv, NEW c \in Clients, NEW l \in {"fgets", "sendto", "exit"},
           cpc' = [cpc EXCEPT ![c] = l],
           cpc[c] = "off" \/ cpc[c] = "fgets",
           text' \in [Clients -> Texts],
           UNCHANGED <<sent, inbox, srvq, serverVars, bounds>>
    PROVE  IndInv'
<1>1. TypeOK'
  BY DEF IndInv, TypeOK, serverVars, bounds, Waiting
<1>2. FileInv' /\ ServerInv' /\ CounterIsFiles'
  BY DEF IndInv, FileInv, Whole, ServerInv, CounterIsFiles, Running, serverVars, bounds
<1>3. QueueInv'
  BY DEF IndInv, TypeOK, QueueInv, UnderWay, Unended, serverVars
<1>4. ClientInv'
  BY DEF IndInv, TypeOK, ClientInv, Unended, serverVars
<1> QED
  BY <1>1, <1>2, <1>3, <1>4 DEF IndInv

\* ClientStart.
LEMMA StartCase ==
    ASSUME IndInv, NEW c \in Clients, ClientStart(c)
    PROVE  IndInv'
BY ClientMoves DEF ClientStart, Goto, IndInv, TypeOK

\* Input.
LEMMA InputCase ==
    ASSUME IndInv, NEW c \in Clients, Input(c)
    PROVE  IndInv'
<1>1. text' \in [Clients -> Texts]
  BY DEF Input, IndInv, TypeOK
<1> QED
  BY <1>1, ClientMoves DEF Input, Goto

\* sendto puts one datagram into the server's socket or, if it fails, nothing;
\* c had nothing under way.
LEMMA SendToCase ==
    ASSUME IndInv, NEW c \in Clients, NEW t \in Texts, SendTo(c, t) \/ SendUnset(c),
           cpc[c] \in {"sendto", "exit"},
           NEW l \in {"recvfrom", "done"}, cpc' = [cpc EXCEPT ![c] = l],
           l = "recvfrom" => cpc[c] = "sendto",
           t = "line" => l = "recvfrom",
           UNCHANGED <<text, inbox, serverVars, bounds>>
    PROVE  IndInv'
<1> DEFINE d == [from |-> c, text |-> t, n |-> sent[c] + 1]
<1>1. d \in Datagram /\ d.from = c /\ d.text = t /\ d.n = sent[c] + 1
  BY DEF IndInv, TypeOK, Datagram
<1>2. sent' \in [Clients -> Nat] /\ sent'[c] = sent[c] + 1
      /\ \A x \in Clients \ {c} : sent'[x] = sent[x]
  <2>1. sent' = [sent EXCEPT ![c] = sent[c] + 1]
    BY DEF SendTo, SendUnset
  <2>2. sent \in [Clients -> Nat]
    BY DEF IndInv, TypeOK
  <2> QED
    BY <2>1, <2>2
<1>3. \/ srvq' = srvq
      \/ Running /\ srvq' = Append(srvq, d) /\ Waiting < QLen
  BY DEF SendTo, SendUnset
<1> HIDE DEF d
<1>4. srvq \in Seq(Datagram)
  BY DEF IndInv, TypeOK
<1>5. srvq' = Append(srvq, d) =>
        /\ srvq' \in Seq(Datagram) /\ Len(srvq') = Len(srvq) + 1 /\ srvq' # <<>>
        /\ srvq'[Len(srvq) + 1] = d
        /\ \A i \in 1 .. Len(srvq) : srvq'[i] = srvq[i]
  BY <1>1, <1>4, AppendLemma
<1>6. \A i \in 1 .. Len(srvq) : srvq[i].from # c
  BY DEF IndInv, QueueInv, UnderWay
<1>7. TypeOK'
  <2>1. srvq' \in Seq(Datagram) /\ Waiting' \in 0 .. QLen
    BY <1>3, <1>4, <1>5, DgramConstants DEF IndInv, TypeOK, Waiting, serverVars
  <2> QED
    BY <1>2, <2>1 DEF IndInv, TypeOK, serverVars, bounds
<1>8. FileInv' /\ CounterIsFiles'
  BY DEF IndInv, FileInv, Whole, CounterIsFiles, Running, serverVars, bounds
<1>9. ServerInv'
  BY <1>3, <1>5 DEF IndInv, ServerInv, Running, serverVars, bounds
<1>10. ASSUME NEW e \in Datagram, e.from = c, e.text = t, e.n = sent[c] + 1
       PROVE  UnderWay(e)'
  BY <1>2, <1>10 DEF UnderWay, Unended, IndInv, TypeOK, ClientInv, serverVars
<1>11. ASSUME NEW e \in Datagram, UnderWay(e), e.from # c
       PROVE  UnderWay(e)'
  BY <1>2, <1>11 DEF UnderWay, Unended, IndInv, TypeOK, Datagram, serverVars
<1>12. ASSUME NEW i \in 1 .. Len(srvq') PROVE UnderWay(srvq[i])'
  <2>1. PICK e \in Datagram :
          /\ e = srvq'[i]
          /\ \/ e = d
             \/ i \in 1 .. Len(srvq) /\ e = srvq[i]
    BY <1>1, <1>3, <1>4, <1>5
  <2>2. UnderWay(e)'
    BY <1>1, <1>6, <1>10, <1>11, <2>1 DEF IndInv, QueueInv
  <2> QED
    BY <2>1, <2>2 DEF UnderWay, Unended
<1>13. \A i, j \in 1 .. Len(srvq') : srvq'[i].from = srvq'[j].from => i = j
  BY <1>1, <1>3, <1>4, <1>5, <1>6 DEF IndInv, QueueInv
<1>14. QueueInv'
  BY <1>12, <1>13 DEF QueueInv
<1>15. ClientInv'
  BY <1>2 DEF IndInv, TypeOK, ClientInv, Unended, serverVars
<1> QED
  BY <1>7, <1>8, <1>9, <1>14, <1>15 DEF IndInv

\* SendLine.
LEMMA SendLineCase ==
    ASSUME IndInv, NEW c \in Clients, SendLine(c)
    PROVE  IndInv'
<1>1. text[c] \in Texts
  BY DEF IndInv, TypeOK
<1> QED
  BY <1>1, SendToCase DEF SendLine, Goto

\* SendExit: the answers in the socket of c go with it, but there are none.
LEMMA SendExitCase ==
    ASSUME IndInv, NEW c \in Clients, SendExit(c)
    PROVE  IndInv'
<1>1. inbox' = inbox /\ cpc[c] = "exit"
  BY DEF SendExit, IndInv, TypeOK, ClientInv
<1>2. "exit" \in Texts /\ "line" # "exit"
  BY DEF Texts
<1> QED
  BY <1>1, <1>2, SendToCase DEF SendExit, Goto

\* ReadAnswer and KillClient: c has nothing in the server's socket if it was
\* answered, and is not waited for once it is dead.
LEMMA LeaveCase ==
    ASSUME IndInv, NEW c \in Clients, ReadAnswer(c) \/ KillClient(c)
    PROVE  IndInv'
<1>1. /\ inbox' \in [Clients -> Seq({"exit", "length"})]
      /\ inbox'[c] = <<>>
      /\ \A x \in Clients \ {c} : inbox'[x] = inbox[x]
  <2>1. <<>> \in Seq({"exit", "length"})
    BY EmptySeq
  <2>2. ReadAnswer(c) => Tail(inbox[c]) = <<>>
    BY DEF ReadAnswer, IndInv, ClientInv
  <2>3. inbox' = [inbox EXCEPT ![c] = <<>>]
    BY <2>2, Zenon DEF ReadAnswer, KillClient
  <2> QED
    BY <2>1, <2>3 DEF IndInv, TypeOK
<1>2. /\ cpc' \in [Clients -> {"off", "fgets", "sendto", "recvfrom", "exit", "done", "dead"}]
      /\ \A x \in Clients \ {c} : cpc'[x] = cpc[x]
      /\ \/ cpc'[c] = "dead"
         \/ cpc'[c] = "exit" /\ inbox[c] # <<>>
         \/ cpc'[c] = "fgets" /\ inbox[c] # <<>> /\ Head(inbox[c]) # "exit"
  BY DEF ReadAnswer, KillClient, Goto, IndInv, TypeOK
<1>3. UNCHANGED <<text, sent, srvq, serverVars, runs>> /\ kills' \in 0 .. MaxKills
  BY DgramConstants DEF ReadAnswer, KillClient, bounds, IndInv, TypeOK
<1>4. TypeOK'
  BY <1>1, <1>2, <1>3 DEF IndInv, TypeOK, Waiting, serverVars
<1>5. FileInv' /\ ServerInv' /\ CounterIsFiles'
  BY <1>3 DEF IndInv, FileInv, Whole, ServerInv, CounterIsFiles, Running, serverVars
<1>6. QueueInv'
  <2>1. ASSUME NEW e \in Datagram, UnderWay(e) PROVE UnderWay(e)'
    BY <1>1, <1>2, <1>3, <2>1 DEF IndInv, TypeOK, UnderWay, Unended, serverVars, Datagram
  <2>2. ASSUME NEW i \in 1 .. Len(srvq) PROVE UnderWay(srvq[i])'
    <3>1. PICK e \in Datagram : e = srvq[i] /\ UnderWay(e)
      BY DEF IndInv, TypeOK, QueueInv
    <3>2. UnderWay(e)' /\ e = srvq'[i]
      BY <1>3, <2>1, <3>1
    <3> QED
      BY <3>2 DEF UnderWay, Unended
  <2> QED
    BY <1>3, <2>2 DEF IndInv, QueueInv
<1>7. Head(inbox[c]) # "exit" /\ inbox[c] # <<>> => Head(inbox[c]) = "length"
  BY DEF IndInv, TypeOK
<1>8. ClientInv'
  BY <1>1, <1>2, <1>3, <1>7 DEF IndInv, TypeOK, ClientInv, Unended, serverVars
<1> QED
  BY <1>4, <1>5, <1>6, <1>8 DEF IndInv

-----------------------------------------------------------------------------
(* The server                                                              *)

\* ServerStart, Receive, SigInt and KillServer.
LEMMA ServerMoves ==
    ASSUME IndInv, ServerStart \/ Receive \/ SigInt \/ KillServer
    PROVE  IndInv'
<1>1. UNCHANGED <<clientVars, inbox, file, printed, silent>>
  BY DEF ServerStart, Receive, SigInt, KillServer, serverVars
<1>2. srvq' = srvq \/ srvq' = <<>>
  BY DEF ServerStart, Receive, SigInt, KillServer
<1>3. TypeOK'
  <2>1. srvq' \in Seq(Datagram)
    BY <1>2, EmptySeq DEF IndInv, TypeOK
  <2>2. Waiting' \in 0 .. QLen
    BY DgramConstants, EmptySeq
    DEF ServerStart, Receive, SigInt, KillServer, Waiting, Running, IndInv, TypeOK, ServerInv
  <2>3. /\ spc' \in {"off", "recvfrom", "handle", "ended", "dead"}
        /\ counter' \in Int
        /\ runs' \in 0 .. MaxRuns /\ kills' \in 0 .. MaxKills
    BY DgramConstants DEF ServerStart, Receive, SigInt, KillServer, bounds, IndInv, TypeOK
  <2>4. ende' \in BOOLEAN
    BY Zenon DEF ServerStart, Receive, SigInt, KillServer, IndInv, TypeOK
  <2> QED
    BY <1>1, <2>1, <2>2, <2>3, <2>4, Zenon DEF clientVars, IndInv, TypeOK
<1>4. FileInv' /\ ClientInv'
  BY <1>1 DEF IndInv, FileInv, Whole, ClientInv, Unended, clientVars
<1>5. QueueInv'
  BY <1>1, <1>2 DEF IndInv, QueueInv, UnderWay, Unended, clientVars
<1>6. ServerInv'
  BY DEF IndInv, TypeOK, ServerInv, Running, ServerStart, Receive, SigInt, KillServer, bounds
<1>7. CounterIsFiles'
  <2>1. CASE ServerStart /\ runs = 0
    <3>1. Kept' = {} /\ silent' = {} /\ counter' = 0
      BY <1>1, <2>1 DEF IndInv, ServerInv, ServerStart, Kept
    <3>2. Cardinality({}) = 0
      BY FS_EmptySet
    <3>3. Cardinality(Kept') = 0 /\ Cardinality(silent') = 0
      BY <3>1, <3>2, Zenon
    <3> QED
      BY <3>1, <3>3 DEF CounterIsFiles, Kept
  <2>2. CASE ServerStart /\ runs # 0
    BY <2>2 DEF ServerStart, CounterIsFiles, IndInv, TypeOK
  <2>3. CASE Receive \/ SigInt \/ KillServer
    BY <1>1, <2>3 DEF Receive, SigInt, KillServer, CounterIsFiles, Running, IndInv, bounds
  <2> QED
    BY <2>1, <2>2, <2>3
<1> QED
  BY <1>3, <1>4, <1>5, <1>6, <1>7 DEF IndInv

\* The datagram in hand is the only one of its client.
LEMMA InHand ==
    ASSUME IndInv, spc = "handle"
    PROVE  /\ Head(srvq) \in Datagram /\ UnderWay(Head(srvq))
           /\ Tail(srvq) \in Seq(Datagram) /\ Len(Tail(srvq)) = Len(srvq) - 1
           /\ \A i \in 1 .. Len(Tail(srvq)) :
                /\ Tail(srvq)[i] \in Datagram /\ UnderWay(Tail(srvq)[i])
                /\ Tail(srvq)[i].from # Head(srvq).from
                /\ \A j \in 1 .. Len(Tail(srvq)) :
                     Tail(srvq)[i].from = Tail(srvq)[j].from => i = j
<1>1. srvq \in Seq(Datagram) /\ srvq # <<>>
  BY DEF IndInv, TypeOK, ServerInv
<1>2. /\ Head(srvq) \in Datagram /\ Head(srvq) = srvq[1] /\ 1 \in 1 .. Len(srvq)
      /\ Tail(srvq) \in Seq(Datagram) /\ Len(Tail(srvq)) = Len(srvq) - 1
      /\ \A i \in 1 .. Len(Tail(srvq)) :
           i + 1 \in 1 .. Len(srvq) /\ Tail(srvq)[i] = srvq[i + 1]
  BY <1>1, TailLemma, Zenon
<1>3. UnderWay(srvq[1])
  BY <1>2 DEF IndInv, QueueInv
<1>4. ASSUME NEW i \in 1 .. Len(Tail(srvq))
      PROVE  /\ Tail(srvq)[i] \in Datagram /\ UnderWay(Tail(srvq)[i])
             /\ Tail(srvq)[i].from # Head(srvq).from
             /\ \A j \in 1 .. Len(Tail(srvq)) :
                  Tail(srvq)[i].from = Tail(srvq)[j].from => i = j
  BY <1>1, <1>2 DEF IndInv, QueueInv
<1> QED
  BY <1>2, <1>3, <1>4

\* What a handled datagram leaves of the server's socket: the others, to whose
\* clients nothing has happened, or nothing.
LEMMA QueueLeft ==
    ASSUME IndInv, Handle, NEW c \in Clients, c = Head(srvq).from,
           UNCHANGED <<cpc, sent>>,
           \A x \in Clients \ {c} :
             /\ inbox'[x] = inbox[x] /\ file'[x] = file[x] /\ printed'[x] = printed[x]
             /\ x \in silent' <=> x \in silent
    PROVE  /\ QueueInv' /\ ServerInv'
           /\ srvq' \in Seq(Datagram) /\ Waiting' \in 0 .. QLen
           /\ spc' \in {"recvfrom", "ended"}
<1>1. spc = "handle" /\ runs' = runs
      /\ \/ spc' = "recvfrom" /\ srvq' = Tail(srvq)
         \/ spc' = "ended" /\ srvq' = <<>>
  BY DEF Handle, bounds
<1>2. runs # 0
  BY <1>1 DEF IndInv, ServerInv, Running
<1>3. ASSUME NEW e \in Datagram, UnderWay(e), e.from # c PROVE UnderWay(e)'
  BY <1>3 DEF UnderWay, Unended, Datagram
<1>4. ASSUME NEW i \in 1 .. Len(Tail(srvq)), srvq' = Tail(srvq) PROVE UnderWay(srvq[i])'
  <2>1. PICK e \in Datagram : e = srvq'[i] /\ UnderWay(e) /\ e.from # c
    BY <1>1, <1>4, InHand
  <2>2. UnderWay(e)'
    BY <1>3, <2>1
  <2> QED
    BY <2>1, <2>2 DEF UnderWay, Unended
<1>5. QueueInv'
  <2>1. CASE srvq' = Tail(srvq)
    <3>1. \A i, j \in 1 .. Len(srvq') : srvq'[i].from = srvq'[j].from => i = j
      BY <1>1, <2>1, InHand, Zenon
    <3> QED
      BY <1>4, <2>1, <3>1 DEF QueueInv
  <2>2. CASE srvq' = <<>>
    BY <2>2 DEF QueueInv
  <2> QED
    BY <1>1, <2>1, <2>2
<1>6. ServerInv'
  BY <1>1, <1>2 DEF ServerInv, Running
<1>7. srvq' \in Seq(Datagram)
  BY <1>1, InHand, EmptySeq, Zenon
<1>8. Waiting' \in 0 .. QLen
  <2>1. QLen \in Nat /\ Len(srvq) - 1 \in 0 .. QLen
    BY <1>1, DgramConstants DEF Waiting, IndInv, TypeOK
  <2>2. Waiting' = Len(srvq')
    BY <1>1, <1>7 DEF Waiting
  <2>3. Len(srvq') = 0 \/ Len(srvq') = Len(srvq) - 1
    BY <1>1, InHand
  <2> QED
    BY <2>1, <2>2, <2>3
<1> QED
  BY <1>1, <1>5, <1>6, <1>7, <1>8

\* The answer to a client that waits for it, or to nobody.
LEMMA AnswerLemma ==
    ASSUME IndInv, spc = "handle", NEW c \in Clients, c = Head(srvq).from,
           NEW a \in {"exit", "length"}, Answer(c, a)
    PROVE  /\ inbox' \in [Clients -> Seq({"exit", "length"})]
           /\ \A x \in Clients \ {c} : inbox'[x] = inbox[x]
           /\ \/ inbox'[c] = <<>>
              \/ /\ cpc[c] = "recvfrom" /\ Tail(inbox'[c]) = <<>>
                 /\ Head(inbox'[c]) = a
<1>1. inbox[c] = <<>> /\ cpc[c] \in {"recvfrom", "done", "dead"}
  BY InHand DEF UnderWay
<1>2. /\ Append(<<>>, a) \in Seq({"exit", "length"})
      /\ Head(Append(<<>>, a)) = a /\ Tail(Append(<<>>, a)) = <<>>
  BY OneLemma
<1>3. CASE ~ Bound(c)
  BY <1>1, <1>3, Zenon DEF Answer, IndInv, TypeOK
<1>4. CASE Bound(c)
  <2>1. inbox' = [inbox EXCEPT ![c] = Append(inbox[c], a)] /\ cpc[c] = "recvfrom"
    BY <1>1, <1>4 DEF Answer, Bound
  <2>2. Append(inbox[c], a) = Append(<<>>, a)
    BY <1>1
  <2>3. inbox'[c] = Append(<<>>, a) /\ \A x \in Clients \ {c} : inbox'[x] = inbox[x]
    BY <2>1, <2>2 DEF IndInv, TypeOK
  <2>4. inbox' \in [Clients -> Seq({"exit", "length"})]
    BY <1>2, <2>1, <2>2 DEF IndInv, TypeOK
  <2> QED
    BY <1>2, <2>1, <2>3, <2>4
<1> QED
  BY <1>3, <1>4

\* Reject: nothing is stored.
LEMMA RejectCase ==
    ASSUME IndInv, Handle, NEW d \in Datagram, d = Head(srvq), Reject(d),
           ende /\ file[d.from] = <<>>
    PROVE  IndInv'
<1> DEFINE c == d.from
<1>1. c \in Clients /\ c = Head(srvq).from
  BY DEF Datagram
<1>2. /\ spc = "handle" /\ runs' = runs /\ kills' = kills
      /\ UNCHANGED <<cpc, text, sent, ende, counter, file, printed, silent>>
  BY DEF Handle, Reject, clientVars, bounds
<1>3. UnderWay(d)
  BY <1>2, InHand
<1>4. /\ inbox' \in [Clients -> Seq({"exit", "length"})]
      /\ \A x \in Clients \ {c} : inbox'[x] = inbox[x]
      /\ \/ inbox'[c] = <<>>
         \/ cpc[c] = "recvfrom" /\ Tail(inbox'[c]) = <<>> /\ Head(inbox'[c]) = "exit"
  BY <1>1, <1>2, AnswerLemma DEF Reject
<1> HIDE DEF c
<1>5. /\ QueueInv' /\ ServerInv'
      /\ srvq' \in Seq(Datagram) /\ Waiting' \in 0 .. QLen
      /\ spc' \in {"recvfrom", "ended"}
  BY <1>1, <1>2, <1>4, QueueLeft
<1>6. TypeOK'
  BY <1>2, <1>4, <1>5, Zenon DEF IndInv, TypeOK
<1>7. FileInv'
  BY <1>2 DEF IndInv, FileInv, Whole
<1>8. ClientInv'
  BY <1>1, <1>2, <1>3, <1>4 DEF IndInv, ClientInv, UnderWay, Unended, c
<1>9. CounterIsFiles'
  BY <1>2 DEF IndInv, CounterIsFiles, Running
<1> QED
  BY <1>5, <1>6, <1>7, <1>8, <1>9 DEF IndInv

\* StoreLine: the line is the next of its file; if there was none, there is a
\* file more and a client more.
LEMMA StoreCase ==
    ASSUME IndInv, Handle, NEW d \in Datagram, d = Head(srvq), StoreLine(d),
           d.text = "line"
    PROVE  /\ IndInv'
           /\ file' = [file EXCEPT ![d.from] = Append(file[d.from], Len(file[d.from]) + 1)]
           /\ printed' = printed /\ printed[d.from] = <<>>
<1> DEFINE c == d.from
           k == Len(file[c]) + 1
<1>1. c \in Clients /\ c = Head(srvq).from
  BY DEF Datagram
<1>2. /\ spc = "handle" /\ runs' = runs /\ kills' = kills
      /\ UNCHANGED <<cpc, text, sent, ende, printed, silent>>
  BY DEF Handle, StoreLine, clientVars, bounds
<1>3. UnderWay(d)
  BY <1>2, InHand
<1>4. /\ inbox' \in [Clients -> Seq({"exit", "length"})]
      /\ \A x \in Clients \ {c} : inbox'[x] = inbox[x]
      /\ \/ inbox'[c] = <<>>
         \/ cpc[c] = "recvfrom" /\ Tail(inbox'[c]) = <<>> /\ Head(inbox'[c]) = "length"
  BY <1>1, <1>2, AnswerLemma DEF StoreLine
<1>5. d.n = k /\ printed[c] = <<>> /\ c \notin silent
  BY <1>3 DEF UnderWay, Unended
<1>6. file' = [file EXCEPT ![c] = Append(file[c], k)]
  BY <1>5 DEF StoreLine
<1>7. file[c] \in Seq(Nat) /\ k \in Nat
  BY <1>1 DEF IndInv, TypeOK
<1> HIDE DEF c
<1>8. /\ Append(file[c], k) \in Seq(Nat) /\ Len(Append(file[c], k)) = k
      /\ Append(file[c], k) # <<>> /\ Append(file[c], k)[k] = k
      /\ \A i \in 1 .. Len(file[c]) : Append(file[c], k)[i] = file[c][i]
  BY <1>7, AppendLemma
<1>9. /\ file' \in [Clients -> Seq(Nat)]
      /\ file'[c] = Append(file[c], k)
      /\ \A x \in Clients \ {c} : file'[x] = file[x]
  BY <1>1, <1>6, <1>8 DEF IndInv, TypeOK
<1>10. /\ QueueInv' /\ ServerInv'
       /\ srvq' \in Seq(Datagram) /\ Waiting' \in 0 .. QLen
       /\ spc' \in {"recvfrom", "ended"}
  BY <1>1, <1>2, <1>4, <1>9, QueueLeft
<1>11. TypeOK'
  <2>1. counter' \in Int
    BY DEF StoreLine, IndInv, TypeOK
  <2> QED
    BY <1>2, <1>4, <1>9, <1>10, <2>1, Zenon DEF IndInv, TypeOK
<1>12. FileInv'
  <2>1. Whole(file[c])
    BY <1>1 DEF IndInv, FileInv
  <2>2. Whole(Append(file[c], k))
    BY <1>7, <1>8, <2>1 DEF Whole
  <2>3. ASSUME NEW x \in Clients PROVE Whole(file'[x])
    BY <1>9, <2>2 DEF IndInv, FileInv
  <2>4. printed'[c] = <<>>
    BY <1>2, <1>5
  <2>5. \A x \in Clients : Whole(printed'[x]) /\ (printed'[x] # <<>> => file'[x] = <<>>)
    BY <1>2, <1>9, <2>4 DEF IndInv, FileInv
  <2> QED
    BY <2>3, <2>5 DEF FileInv, Whole
<1>13. ClientInv'
  <2>1. Len(file'[c]) = k
    BY <1>8, <1>9
  <2>2. cpc[c] = "recvfrom" => sent[c] = k
    BY <1>3, <1>5 DEF UnderWay, c
  <2>3. cpc[c] \in {"recvfrom", "done", "dead"}
    BY <1>3 DEF UnderWay, c
  <2>4. ASSUME NEW x \in Clients \ {c}
        PROVE  inbox'[x] = inbox[x] /\ file'[x] = file[x]
    BY <1>4, <1>9
  <2> QED
    BY <1>2, <1>4, <1>5, <2>1, <2>2, <2>3, <2>4 DEF IndInv, ClientInv, Unended
<1>14. CounterIsFiles'
  <2>1. IsFiniteSet(Kept) /\ Kept \subseteq Clients
    BY DgramConstants, FS_Subset DEF Kept
  <2>2. Kept' = Kept \cup {c}
    BY <1>1, <1>8, <1>9 DEF Kept
  <2>3. counter' = IF c \in Kept THEN counter ELSE counter + 1
    BY <1>1 DEF StoreLine, Kept, c
  <2>4. /\ Cardinality(Kept) \in Nat
        /\ Cardinality(Kept') = IF c \in Kept THEN Cardinality(Kept) ELSE Cardinality(Kept) + 1
    BY <2>1, <2>2, FS_AddElement, FS_CardinalityType
  <2>5. Running /\ runs = 1 => counter = Cardinality(Kept) + Cardinality(silent)
    BY DEF IndInv, CounterIsFiles, Kept
  <2>6. Cardinality(silent) \in Nat
    BY DgramConstants, FS_Subset, FS_CardinalityType DEF IndInv, TypeOK
  <2>7. Running /\ (Running /\ runs = 1)' => counter' = Cardinality(Kept') + Cardinality(silent')
    BY <1>2, <2>3, <2>4, <2>5, <2>6
  <2> QED
    BY <1>2, <2>7 DEF CounterIsFiles, Kept, Running
<1> QED
  BY <1>2, <1>5, <1>6, <1>10, <1>11, <1>12, <1>13, <1>14 DEF IndInv, c

\* EndStream: a file less and a client less or, for a client without a file, a
\* silent client more.
LEMMA EndCase ==
    ASSUME IndInv, Handle, NEW d \in Datagram, d = Head(srvq), EndStream(d)
    PROVE  /\ IndInv'
           /\ printed[d.from] = <<>>
           /\ \/ file' = file /\ printed' = printed
              \/ /\ file[d.from] # <<>>
                 /\ file' = [file EXCEPT ![d.from] = <<>>]
                 /\ printed' = [printed EXCEPT ![d.from] = file[d.from]]
<1> DEFINE c == d.from
<1>1. c \in Clients /\ c = Head(srvq).from
  BY DEF Datagram
<1>2. /\ spc = "handle" /\ runs' = runs /\ kills' = kills
      /\ UNCHANGED <<cpc, text, sent, ende, inbox>>
  BY DEF Handle, EndStream, clientVars, bounds
<1>3. UnderWay(d)
  BY <1>2, InHand
<1>4. inbox[c] = <<>> /\ cpc[c] \in {"recvfrom", "done", "dead"}
      /\ printed[c] = <<>> /\ c \notin silent
  BY <1>3 DEF UnderWay, Unended
<1>5. \/ /\ file[c] = <<>> /\ UNCHANGED <<file, printed>>
         /\ silent' = silent \cup {c} /\ counter' = counter + 1
      \/ /\ file[c] # <<>> /\ silent' = silent /\ counter' = counter - 1
         /\ file' = [file EXCEPT ![c] = <<>>]
         /\ printed' = [printed EXCEPT ![c] = file[c]]
  BY DEF EndStream
<1> HIDE DEF c
<1>6. <<>> \in Seq(Nat) /\ file[c] \in Seq(Nat)
  BY <1>1, EmptySeq DEF IndInv, TypeOK
<1>7. /\ file' \in [Clients -> Seq(Nat)] /\ printed' \in [Clients -> Seq(Nat)]
      /\ file'[c] = <<>>
      /\ \/ printed'[c] = <<>> /\ file[c] = <<>> /\ silent' = silent \cup {c}
         \/ printed'[c] = file[c] /\ file[c] # <<>> /\ silent' = silent
      /\ \A x \in Clients \ {c} : file'[x] = file[x] /\ printed'[x] = printed[x]
      /\ \A x \in Clients \ {c} : x \in silent' <=> x \in silent
  BY <1>1, <1>4, <1>5, <1>6 DEF IndInv, TypeOK
<1>8. /\ QueueInv' /\ ServerInv'
      /\ srvq' \in Seq(Datagram) /\ Waiting' \in 0 .. QLen
      /\ spc' \in {"recvfrom", "ended"}
  BY <1>1, <1>2, <1>7, QueueLeft
<1>9. TypeOK'
  <2>1. counter' \in Int /\ silent' \subseteq Clients
    <3>1. counter \in Int /\ silent \subseteq Clients
      BY DEF IndInv, TypeOK
    <3> QED
      BY <1>1, <1>5, <3>1
  <2> QED
    BY <1>2, <1>7, <1>8, <2>1, Zenon DEF IndInv, TypeOK
<1>10. FileInv'
  <2>1. Whole(<<>>) /\ Whole(file[c])
    BY <1>1 DEF IndInv, FileInv, Whole
  <2>2. Whole(file'[c]) /\ Whole(printed'[c])
    BY <1>7, <2>1, Zenon
  <2>3. \A x \in Clients : Whole(file'[x]) /\ Whole(printed'[x])
    BY <1>7, <2>2 DEF IndInv, FileInv
  <2>4. \A x \in Clients : printed'[x] # <<>> => file'[x] = <<>>
    BY <1>7 DEF IndInv, FileInv
  <2> QED
    BY <2>3, <2>4 DEF FileInv, Whole
<1>11. ClientInv'
  BY <1>2, <1>4, <1>7 DEF IndInv, ClientInv, Unended
<1>12. CounterIsFiles'
  <2>1. IsFiniteSet(Kept) /\ IsFiniteSet(silent)
    BY DgramConstants, FS_Subset DEF Kept, IndInv, TypeOK
  <2>2. Kept' = Kept \ {c}
    BY <1>1, <1>7 DEF Kept
  <2>3. c \in Kept <=> file[c] # <<>>
    BY <1>1 DEF Kept
  <2>4. /\ Cardinality(Kept) \in Nat /\ Cardinality(silent) \in Nat
        /\ Cardinality(Kept') = IF c \in Kept THEN Cardinality(Kept) - 1 ELSE Cardinality(Kept)
        /\ Cardinality(silent \cup {c}) = Cardinality(silent) + 1
    BY <1>4, <2>1, <2>2, FS_RemoveElement, FS_AddElement, FS_CardinalityType
  <2>5. Running /\ runs = 1 => counter = Cardinality(Kept) + Cardinality(silent)
    BY DEF IndInv, CounterIsFiles, Kept
  <2>6. runs = 1 => counter' = Cardinality(Kept') + Cardinality(silent')
    <3>1. CASE file[c] = <<>>
      <4>1. counter' = counter + 1 /\ silent' = silent \cup {c} /\ c \notin Kept
        BY <1>5, <2>3, <3>1
      <4>2. Cardinality(silent') = Cardinality(silent) + 1
        BY <2>4, <4>1, Zenon
      <4> QED
        BY <1>2, <2>4, <2>5, <4>1, <4>2 DEF Running
    <3>2. CASE file[c] # <<>>
      BY <1>2, <1>5, <2>3, <2>4, <2>5, <3>2 DEF Running
    <3> QED
      BY <3>1, <3>2
  <2> QED
    BY <1>2, <2>6 DEF CounterIsFiles, Kept
<1> QED
  BY <1>4, <1>5, <1>8, <1>9, <1>10, <1>11, <1>12 DEF IndInv, c

\* The three ways to handle a datagram.
LEMMA HandleWays ==
    ASSUME IndInv, Handle
    PROVE  \E d \in Datagram :
             /\ d = Head(srvq)
             /\ \/ Reject(d) /\ ende /\ file[d.from] = <<>>
                \/ StoreLine(d) /\ d.text = "line"
                \/ EndStream(d)
<1>1. Head(srvq) \in Datagram
  BY InHand DEF Handle
<1> QED
  BY <1>1 DEF Handle

-----------------------------------------------------------------------------
(* The invariant                                                           *)

\* No step breaks the invariant.
LEMMA Inductive ==
    ASSUME IndInv, [Next]_vars
    PROVE  IndInv'
<1>1. ASSUME NEW c \in Clients,
             ClientStart(c) \/ Input(c) \/ ClientStep(c) \/ KillClient(c)
      PROVE  IndInv'
  BY <1>1, StartCase, InputCase, SendLineCase, SendExitCase, LeaveCase DEF ClientStep
<1>2. ASSUME ServerStart \/ Receive \/ SigInt \/ KillServer PROVE IndInv'
  BY <1>2, ServerMoves
<1>3. ASSUME Handle PROVE IndInv'
  BY <1>3, HandleWays, RejectCase, StoreCase, EndCase
<1>4. CASE UNCHANGED vars
  BY <1>4 DEF vars, clientVars, serverVars, bounds, IndInv, TypeOK, Waiting, FileInv,
     Whole, QueueInv, UnderWay, Unended, ClientInv, ServerInv, Running, CounterIsFiles
<1> QED
  BY <1>1, <1>2, <1>3, <1>4 DEF Next, ServerStep

\* IndInv is an invariant.
LEMMA Invariant == Spec => []IndInv
BY InitCase, Inductive, PTL DEF Spec

\* Every variable keeps its type; in particular the server's socket never
\* holds more datagrams than it has room for.
THEOREM TypeCorrect == Spec => []TypeOK
<1>1. IndInv => TypeOK
  BY DEF IndInv
<1> QED
  BY <1>1, Invariant, PTL

\* What the first server counts are its files and the clients that have said
\* "exit" before anything else, whatever Ctrl-C and kills do to the clients.
THEOREM CounterCorrect == Spec => []CounterIsFiles
<1>1. IndInv => CounterIsFiles
  BY DEF IndInv
<1> QED
  BY <1>1, Invariant, PTL

-----------------------------------------------------------------------------
(* Refinement                                                              *)

\* The mapping of ImplementsStore.
Stored   == [c \in Clients |-> IF printed[c] # <<>> THEN printed[c] ELSE file[c]]
Finished == [c \in Clients |-> printed[c] # <<>>]

\* To handle a line is to store it, to handle the end of a stream that has a
\* file is to finish it; all other steps are invisible.
LEMMA RefinementStep ==
    ASSUME IndInv, [Next]_vars
    PROVE  [Store!Next]_<<Stored, Finished>>
<1>1. CASE UNCHANGED <<file, printed>>
  BY <1>1 DEF Stored, Finished
<1>2. ASSUME Handle PROVE [Store!Next]_<<Stored, Finished>>
  <2>1. PICK d \in Datagram :
          /\ d = Head(srvq)
          /\ \/ Reject(d) /\ ende /\ file[d.from] = <<>>
             \/ StoreLine(d) /\ d.text = "line"
             \/ EndStream(d)
    BY <1>2, HandleWays
  <2>2. d.from \in Clients
    BY DEF Datagram
  <2>3. CASE Reject(d)
    BY <1>1, <2>3 DEF Reject
  <2>4. CASE StoreLine(d) /\ d.text = "line"
    <3>1. /\ file' = [file EXCEPT ![d.from] = Append(file[d.from], Len(file[d.from]) + 1)]
          /\ printed' = printed /\ printed[d.from] = <<>>
      BY <1>2, <2>1, <2>4, StoreCase
    <3>2. ~ Finished[d.from] /\ Finished' = Finished
      BY <2>2, <3>1 DEF Finished
    <3>3. Stored' = [Stored EXCEPT ![d.from] = Append(@, Len(@) + 1)]
      BY <2>2, <3>1 DEF Stored, IndInv, TypeOK
    <3> QED
      BY <2>2, <3>2, <3>3 DEF Store!Next, Store!Store, Stored, Finished
  <2>5. CASE EndStream(d)
    <3>1. /\ printed[d.from] = <<>>
          /\ \/ file' = file /\ printed' = printed
             \/ /\ file[d.from] # <<>>
                /\ file' = [file EXCEPT ![d.from] = <<>>]
                /\ printed' = [printed EXCEPT ![d.from] = file[d.from]]
      BY <1>2, <2>1, <2>5, EndCase
    <3>2. CASE file[d.from] # <<>> /\ file' = [file EXCEPT ![d.from] = <<>>]
               /\ printed' = [printed EXCEPT ![d.from] = file[d.from]]
      <4>1. ~ Finished[d.from] /\ Finished' = [Finished EXCEPT ![d.from] = TRUE]
        BY <2>2, <3>1, <3>2 DEF Finished, IndInv, TypeOK
      <4>2. Stored' = Stored
        BY <2>2, <3>1, <3>2 DEF Stored, IndInv, TypeOK
      <4> QED
        BY <2>2, <4>1, <4>2 DEF Store!Next, Store!Finish, Stored, Finished
    <3> QED
      BY <1>1, <3>1, <3>2
  <2> QED
    BY <2>1, <2>3, <2>4, <2>5
<1>3. ASSUME NEW c \in Clients,
             ClientStart(c) \/ Input(c) \/ ClientStep(c) \/ KillClient(c)
      PROVE  UNCHANGED <<file, printed>>
  BY <1>3 DEF ClientStart, Input, ClientStep, SendLine, ReadAnswer, SendExit,
     KillClient, serverVars
<1>4. ASSUME ServerStart \/ Receive \/ SigInt \/ KillServer
      PROVE  UNCHANGED <<file, printed>>
  BY <1>4 DEF ServerStart, Receive, SigInt, KillServer
<1>5. CASE UNCHANGED vars
  BY <1>1, <1>5 DEF vars, serverVars
<1> QED
  BY <1>1, <1>2, <1>3, <1>4, <1>5 DEF Next, ServerStep

\* The server keeps the streams of its clients apart, whole and in order, and
\* ends each once: it implements StreamStore.
THEOREM Refinement == Spec => ImplementsStore
<1>1. Init => Store!Init
  BY DEF Init, Store!Init
<1>2. IndInv /\ [Next]_vars => [Store!Next]_<<Stored, Finished>>
  BY RefinementStep
<1> QED
  BY <1>1, <1>2, Invariant, PTL DEF Spec, ImplementsStore, Store!Spec, Stored, Finished
=============================================================================
