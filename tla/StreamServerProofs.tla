------------------------- MODULE StreamServerProofs -------------------------
(***************************************************************************)
(* Proofs about StreamServer for any number of clients, files, lines and   *)
(* signals: what was sent is what is stored, a file is lost to those only  *)
(* who agreed, the parent outlives its children, and the children keep the *)
(* streams of their clients apart.                                         *)
(***************************************************************************)
EXTENDS StreamServer, SequenceTheorems, FiniteSetTheorems, TLAPS

\* The client has neither sent a line nor agreed to anything.
Fresh(c) == lines[c] = 0 /\ acked[c] = 0 /\ buf[c] = <<>> /\ c \notin confirmed

\* What a client and its child know of each other, by where the child stands:
\* until the child asks, nothing has been said but the name.
BeforeTalk(c) ==
    /\ cpc[c] = "off" => child[c] = "none"
    /\ child[c] = "none" =>
         cpc[c] \in {"off", "failed"} /\ up[c] = <<>>
    /\ child[c] \in {"queued", "held", "name", "create"} => cpc[c] \in {"reply", "dead"}
    /\ child[c] = "reset" => cpc[c] \in {"reply", "dead", "failed"}
    /\ child[c] = "create" => up[c] = <<>>
    /\ child[c] \in {"none", "queued", "held", "reset", "name", "create"} =>
         Fresh(c) /\ down[c] = <<>>

\* While the child waits for the answer: it finds j only if the user agreed,
\* whatever has come with it.
InAnswer(c) ==
    child[c] = "answer" =>
        /\ buf[c] = <<>>
        /\ up[c] = <<>> => cpc[c] \in {"reply", "confirm", "dead"} /\ c \notin confirmed
        /\ up[c] # <<>> =>
             /\ cpc[c] \in {"input", "ack", "done", "dead"}
             /\ Head(up[c]).kind = "j" => c \in confirmed
             /\ Head(up[c]).kind # "j" => cpc[c] = "done" /\ c \notin confirmed
        /\ cpc[c] = "reply" => down[c] # <<>> /\ Head(down[c]) = "-1"
        /\ cpc[c] # "reply" /\ ClientOpen(c) => down[c] = <<>>
        /\ cpc[c] # "ack" /\ cpc[c] # "dead" => lines[c] = 0

\* While lines pass: at most one is under way, and an acknowledgement is one
\* of the line sent last.
InData(c) ==
    child[c] = "data" =>
        /\ cpc[c] \in {"reply", "input", "ack", "done", "dead"}
        /\ cpc[c] = "reply" => down[c] # <<>> /\ Head(down[c]) # "-1"
        /\ cpc[c] = "input" => down[c] = <<>>
        /\ up[c] # <<>> =>
             /\ Head(up[c]).n = Len(buf[c]) + 1 /\ lines[c] = Len(buf[c]) + 1
             /\ (cpc[c] = "ack" /\ down[c] = <<>>) \/ cpc[c] = "dead"
        /\ cpc[c] = "ack" /\ down[c] # <<>> => lines[c] = Len(buf[c])
        /\ cpc[c] \in {"reply", "input", "done"} => lines[c] = Len(buf[c])

\* When the child has left its loop or ended.
AfterTalk(c) ==
    /\ child[c] = "quit" => cpc[c] \in {"done", "dead"}
    /\ child[c] = "done" =>
         /\ cpc[c] \in {"reply", "input", "ack", "done", "failed", "dead"}
         /\ cpc[c] \in {"reply", "input", "ack"} => down[c] = <<>>
    /\ child[c] = "dead" => cpc[c] = "dead"
    /\ child[c] \in {"quit", "done"} /\ cpc[c] # "dead" /\ name[c] \notin Unwritable =>
         lines[c] = Len(buf[c])

\* A child puts into its buffer the lines of its own client, in their order.
BufOK(c) == \A i \in 1 .. Len(buf[c]) : buf[c][i] = [from |-> c, n |-> i]

\* What is acknowledged is in the buffer, and what is there was sent.
AckOK(c) == acked[c] <= Len(buf[c]) /\ Len(buf[c]) <= lines[c]

Talk(c) == /\ BeforeTalk(c) /\ InAnswer(c) /\ InData(c) /\ AfterTalk(c)
           /\ BufOK(c) /\ AckOK(c)

TalkInv == \A c \in Clients : Talk(c)

\* What a file that one client alone names holds, by where its child stands.
Mine(c) ==
    Alone(c) =>
        /\ child[c] \in {"none", "queued", "held", "reset", "name", "create"} =>
             content[name[c]] = IF exists[name[c]] THEN <<Old>> ELSE <<>>
        /\ child[c] \in {"data", "quit"} => content[name[c]] = <<>>
        /\ child[c] = "answer" => content[name[c]] = <<Old>>
        /\ child[c] = "done" =>
             \/ content[name[c]] = buf[c]
             \/ content[name[c]] = <<Old>> /\ (c \notin confirmed \/ name[c] \in Unwritable)

FileInv == \A c \in Clients : Mine(c)

\* What was there at the beginning is in files that exist, and in none that a
\* child has found missing or has opened.
OldInv ==
    /\ \A f \in Files : Old \in Range(content[f]) => exists[f]
    /\ \A c \in Clients :
         child[c] \in {"data", "quit"} \/ (child[c] = "create" /\ name[c] \notin Unreadable) =>
            Old \notin Range(content[name[c]])

\* The connections that wait are different ones.
ConnInv ==
    /\ \A i \in 1 .. Len(conn) : child[conn[i]] = "queued"
    /\ \A i, j \in 1 .. Len(conn) : conn[i] = conn[j] => i = j

\* The parent leaves its loop after SIGINT only.
ParentInv ==
    /\ ende = TRUE <=> sigs # 0
    /\ ppc \in {"close", "wait", "done"} => sigs # 0

IndInv ==
    /\ TypeOK /\ TalkInv /\ FileInv /\ OldInv /\ ConnInv /\ ParentInv
    /\ OutlivesChildren

-----------------------------------------------------------------------------
(* Sequences                                                               *)

\* What Write leaves of a family of sequences.
LEMMA WriteLemma ==
    ASSUME NEW S, NEW q \in [Clients -> Seq(S)], NEW c \in Clients, NEW m \in S,
           NEW r, r = [q EXCEPT ![c] = Append(q[c], m)]
    PROVE  /\ r \in [Clients -> Seq(S)]
           /\ r[c] # <<>>
           /\ Head(r[c]) = IF q[c] = <<>> THEN m ELSE Head(q[c])
           /\ \A x \in Clients \ {c} : r[x] = q[x]
<1>1. /\ Append(q[c], m) \in Seq(S) /\ Append(q[c], m) # <<>>
      /\ Len(Append(q[c], m)) = Len(q[c]) + 1
      /\ \A i \in 1 .. Len(q[c]) : Append(q[c], m)[i] = q[c][i]
      /\ Append(q[c], m)[Len(q[c]) + 1] = m
  BY AppendProperties
<1>2. Head(Append(q[c], m)) = Append(q[c], m)[1]
  BY <1>1, HeadTailProperties
<1>3. q[c] # <<>> => 1 \in 1 .. Len(q[c]) /\ Head(q[c]) = q[c][1]
  BY HeadTailProperties, EmptySeq
<1>4. q[c] = <<>> => Len(q[c]) = 0
  BY EmptySeq
<1>5. Head(Append(q[c], m)) = IF q[c] = <<>> THEN m ELSE Head(q[c])
  BY <1>1, <1>2, <1>3, <1>4
<1>6. /\ r \in [Clients -> Seq(S)]
      /\ r[c] = Append(q[c], m)
      /\ \A x \in Clients \ {c} : r[x] = q[x]
  BY <1>1
<1> QED
  BY <1>1, <1>5, <1>6, Zenon

\* What a read that takes everything leaves.
LEMMA EmptyLemma ==
    ASSUME NEW S, NEW q \in [Clients -> Seq(S)], NEW c \in Clients,
           NEW r, r = [q EXCEPT ![c] = <<>>]
    PROVE  /\ r \in [Clients -> Seq(S)]
           /\ r[c] = <<>>
           /\ \A x \in Clients \ {c} : r[x] = q[x]
BY EmptySeq

\* Nothing is left of an empty file, and no old line comes back.
LEMMA OverlayLemma ==
    ASSUME NEW S, NEW new \in Seq(S), NEW old \in Seq(S)
    PROVE  /\ Overlay(new, old) \in Seq(S)
           /\ Range(Overlay(new, old)) \subseteq Range(new) \cup Range(old)
           /\ old = <<>> => Overlay(new, old) = new
<1>1. Len(new) \in Nat /\ Len(old) \in Nat
  OBVIOUS
<1> DEFINE rest == SubSeq(old, Len(new) + 1, Len(old))
<1>2. /\ rest \in Seq(S)
      /\ \A i \in 1 .. Len(rest) : Len(new) + i \in 1 .. Len(old) /\ rest[i] = old[Len(new) + i]
  <2>1. CASE Len(new) + 1 <= Len(old)
    BY <1>1, <2>1, SubSeqProperties
  <2>2. CASE Len(new) + 1 > Len(old)
    <3>1. rest = <<>>
      BY <1>1, <2>2, SubSeqProperties
    <3> QED
      BY <3>1, EmptySeq
  <2> QED
    BY <1>1, <2>1, <2>2
<1>3. old = <<>> => rest = <<>>
  <2>1. old = <<>> => Len(rest) = 0
    BY <1>1, <1>2, EmptySeq
  <2> QED
    BY <1>2, <2>1, EmptySeq
<1> HIDE DEF rest
<1>4. /\ new \o rest \in Seq(S) /\ Len(new \o rest) = Len(new) + Len(rest)
      /\ \A i \in 1 .. Len(new) + Len(rest) :
           (new \o rest)[i] = IF i <= Len(new) THEN new[i] ELSE rest[i - Len(new)]
  BY <1>2, ConcatProperties
<1>5. ASSUME NEW i \in 1 .. Len(new) + Len(rest)
      PROVE  (new \o rest)[i] \in Range(new) \cup Range(old)
  <2>1. CASE i <= Len(new)
    <3>1. i \in DOMAIN new /\ (new \o rest)[i] = new[i]
      BY <1>1, <1>4, <2>1
    <3> QED
      BY <3>1 DEF Range
  <2>2. CASE i > Len(new)
    <3>1. i - Len(new) \in 1 .. Len(rest)
      BY <1>1, <1>2, <2>2
    <3>2. (new \o rest)[i] = rest[i - Len(new)]
      BY <1>1, <1>2, <1>4, <2>2
    <3>3. PICK j \in 1 .. Len(old) : rest[i - Len(new)] = old[j]
      BY <1>2, <3>1
    <3> QED
      BY <3>2, <3>3 DEF Range
  <2> QED
    BY <1>1, <2>1, <2>2
<1>6. Range(new \o rest) \subseteq Range(new) \cup Range(old)
  BY <1>4, <1>5 DEF Range
<1>7. rest = <<>> => new \o rest = new
  BY ConcatEmptySeq
<1> QED
  BY <1>3, <1>4, <1>6, <1>7 DEF Overlay, rest

-----------------------------------------------------------------------------
(* What a step leaves alone                                                *)

\* Nothing of client x and its child changes.
Same(x) ==
    /\ cpc'[x] = cpc[x] /\ child'[x] = child[x]
    /\ up'[x] = up[x] /\ down'[x] = down[x]
    /\ lines'[x] = lines[x] /\ acked'[x] = acked[x] /\ buf'[x] = buf[x]
    /\ x \in confirmed' <=> x \in confirmed

\* Nothing of the file that x names changes.
SameFile(x) ==
    /\ exists'[name[x]] = exists[name[x]]
    /\ content'[name[x]] = content[name[x]]

\* A step that leaves a client and its child alone leaves their dialogue alone.
LEMMA TalkFrame ==
    ASSUME NEW x \in Clients, Talk(x), Same(x), name' = name
    PROVE  Talk(x)'
BY DEF Talk, BeforeTalk, InAnswer, InData, AfterTalk, BufOK, AckOK, Fresh, ClientOpen, Same

\* A step that leaves a client's file alone leaves its claim to the file alone.
LEMMA MineFrame ==
    ASSUME NEW x \in Clients, Mine(x), Same(x), SameFile(x), name' = name
    PROVE  Mine(x)'
BY DEF Mine, Alone, Same, SameFile

\* IndInv holds at the beginning.
LEMMA InitCase == Init => IndInv
<1> SUFFICES ASSUME Init PROVE IndInv
  OBVIOUS
<1>1. <<>> \in Seq(Message) /\ <<>> \in Seq({"1", "-1", "bytes"}) /\ <<>> \in Seq(Line)
      /\ <<>> \in Seq(Clients) /\ Len(<<>>) = 0
      /\ <<>> \in Seq(Line \cup {Old}) /\ <<Old>> \in Seq(Line \cup {Old})
  BY EmptySeq
<1>2. TypeOK
  <2>1. /\ up \in [Clients -> Seq(Message)] /\ down \in [Clients -> Seq({"1", "-1", "bytes"})]
        /\ buf \in [Clients -> Seq(Line)] /\ conn \in Seq(Clients)
        /\ exists \in [Files -> BOOLEAN] /\ name \in [Clients -> Files]
        /\ cpc \in [Clients -> {"off", "reply", "confirm", "input", "ack",
                            "done", "failed", "dead"}]
        /\ child \in [Clients -> {"none", "queued", "held", "reset", "name",
                              "create", "answer", "data", "quit", "done", "dead"}]
        /\ ppc \in {"loop", "accept", "accepted", "test", "close", "wait", "done"}
        /\ ende \in BOOLEAN /\ confirmed \subseteq Clients
    BY <1>1, Zenon DEF Init
  <2>2. content \in [Files -> Seq(Line \cup {Old})]
    <3>1. \A f \in Files : (IF exists[f] THEN <<Old>> ELSE <<>>) \in Seq(Line \cup {Old})
      BY <1>1, Zenon
    <3> QED
      BY <3>1 DEF Init
  <2>3. /\ lines \in [Clients -> 0 .. MaxLines] /\ acked \in [Clients -> 0 .. MaxLines] /\ Len(conn) <= Backlog + 1
        /\ sigs \in 0 .. MaxSigs /\ kills \in 0 .. MaxKills
    BY <1>1, StreamConstants DEF Init
  <2> QED
    BY <2>1, <2>2, <2>3, Zenon DEF TypeOK
<1>3. TalkInv
  BY <1>1 DEF Init, TalkInv, Talk, BeforeTalk, InAnswer, InData, AfterTalk, BufOK, AckOK, Fresh
<1>4. FileInv
  BY <1>2 DEF TypeOK, Init, FileInv, Mine
<1>5. OldInv
  <2>1. \A f \in Files : ~ exists[f] => content[f] = <<>>
    BY DEF Init
  <2>2. Old \notin Range(<<>>)
    BY DEF Range
  <2>3. \A c \in Clients : child[c] = "none"
    BY DEF Init
  <2> QED
    BY <2>1, <2>2, <2>3, Zenon DEF OldInv
<1>6. ConnInv /\ ParentInv /\ OutlivesChildren
  BY <1>1 DEF Init, ConnInv, ParentInv, OutlivesChildren
<1> QED
  BY <1>2, <1>3, <1>4, <1>5, <1>6 DEF IndInv

-----------------------------------------------------------------------------
(* The clients                                                             *)

\* A step of a client whose connection is made touches neither the files nor
\* the parent, and its child does not move.
LEMMA ClientLeaves ==
    ASSUME IndInv, NEW c \in Clients, TypeOK', Talk(c)',
           UNCHANGED <<name, childVars, parentVars>>,
           \A x \in Clients \ {c} : Same(x),
           child[c] = "done" => (c \in confirmed' <=> c \in confirmed)
    PROVE  IndInv'
<1>1. TalkInv'
  BY TalkFrame DEF IndInv, TalkInv
<1>2. FileInv'
  <2>1. ASSUME NEW x \in Clients \ {c} PROVE Mine(x)'
    BY <2>1, MineFrame DEF IndInv, FileInv, childVars, SameFile
  <2>2. Mine(c)'
    BY DEF IndInv, FileInv, Mine, Alone, childVars
  <2> QED
    BY <2>1, <2>2 DEF FileInv
<1>3. OldInv' /\ ConnInv' /\ ParentInv' /\ OutlivesChildren'
  BY DEF IndInv, OldInv, ConnInv, ParentInv, OutlivesChildren, Serving, childVars, parentVars
<1> QED
  BY <1>1, <1>2, <1>3 DEF IndInv

\* ConnectRefused, EndOfInput and Kill.
LEMMA ClientEnds ==
    ASSUME IndInv, NEW c \in Clients, ConnectRefused(c) \/ EndOfInput(c) \/ Kill(c)
    PROVE  IndInv'
<1>1. /\ cpc' \in [Clients -> {"off", "reply", "confirm", "input", "ack",
                                "done", "failed", "dead"}]
      /\ \A x \in Clients \ {c} : cpc'[x] = cpc[x]
      /\ \/ cpc[c] = "off" /\ cpc'[c] = "failed"
         \/ cpc[c] = "input" /\ cpc'[c] = "done"
         \/ ClientOpen(c) /\ cpc'[c] = "dead"
      /\ UNCHANGED <<name, lines, acked, confirmed, up, down, childVars, parentVars>>
  BY DEF ConnectRefused, EndOfInput, Kill, Goto, IndInv, TypeOK
<1>2. kills' \in 0 .. MaxKills
  BY StreamConstants DEF ConnectRefused, EndOfInput, Kill, IndInv, TypeOK
<1>3. TypeOK'
  BY <1>1, <1>2, Zenon DEF IndInv, TypeOK, childVars, parentVars
<1>4. Talk(c)
  BY DEF IndInv, TalkInv
<1>5. Talk(c)'
  <2>1. UNCHANGED <<child[c], up[c], down[c], lines[c], acked[c], buf[c]>>
    BY <1>1 DEF childVars
  <2> QED
    BY <1>1, <1>4, <2>1 DEF Talk, BeforeTalk, InAnswer, InData, AfterTalk, BufOK, AckOK, Fresh, ClientOpen
<1> QED
  BY <1>1, <1>3, <1>5, ClientLeaves DEF Same, childVars

\* ReadReply and ReadAck.
LEMMA ClientReads ==
    ASSUME IndInv, NEW c \in Clients, ReadReply(c) \/ ReadAck(c)
    PROVE  IndInv'
<1>1. UNCHANGED <<name, lines, confirmed, up, childVars, parentVars, kills>>
  BY DEF ReadReply, ReadAck
<1>2. /\ cpc' \in [Clients -> {"off", "reply", "confirm", "input", "ack",
                                "done", "failed", "dead"}]
      /\ \A x \in Clients \ {c} : cpc'[x] = cpc[x]
  BY DEF ReadReply, ReadAck, Goto, IndInv, TypeOK
<1>3. /\ down' \in [Clients -> Seq({"1", "-1", "bytes"})]
      /\ \A x \in Clients \ {c} : down'[x] = down[x]
      /\ down'[c] = <<>> \/ down'[c] = down[c]
  <2>1. down \in [Clients -> Seq({"1", "-1", "bytes"})]
    BY DEF IndInv, TypeOK
  <2>2. down' = down \/ down' = [down EXCEPT ![c] = <<>>]
    BY DEF ReadReply, ReadAck
  <2> QED
    BY <2>1, <2>2, EmptyLemma
<1>4. \/ /\ cpc[c] = "reply" /\ down[c] # <<>> /\ down'[c] = <<>>
         /\ cpc'[c] = IF Head(down[c]) = "-1" THEN "confirm" ELSE "input"
      \/ /\ cpc[c] = "reply" /\ down[c] = <<>> /\ down'[c] = <<>>
         /\ child[c] = "done" /\ cpc'[c] = "input"
      \/ /\ cpc[c] = "reply" /\ child[c] = "reset" /\ cpc'[c] = "failed"
      \/ /\ cpc[c] = "ack" /\ down[c] # <<>> /\ down'[c] = <<>> /\ cpc'[c] = "input"
      \/ /\ cpc[c] = "ack" /\ down[c] = <<>> /\ down'[c] = <<>>
         /\ child[c] = "done" /\ cpc'[c] \in {"input", "failed"}
  BY DEF ReadReply, ReadAck, Goto, IndInv, TypeOK
<1>a. /\ acked' \in [Clients -> 0 .. MaxLines]
      /\ \A x \in Clients \ {c} : acked'[x] = acked[x]
      /\ \/ acked'[c] = acked[c]
         \/ acked'[c] = lines[c] /\ cpc[c] = "ack" /\ down[c] # <<>>
  <2>1. acked \in [Clients -> 0 .. MaxLines] /\ lines[c] \in 0 .. MaxLines
    BY DEF IndInv, TypeOK
  <2>2. \/ acked' = acked
        \/ acked' = [acked EXCEPT ![c] = lines[c]] /\ cpc[c] = "ack" /\ down[c] # <<>>
    BY DEF ReadReply, ReadAck
  <2> QED
    BY <2>1, <2>2
<1>5. TypeOK'
  BY <1>1, <1>2, <1>3, <1>a, Zenon DEF IndInv, TypeOK, childVars, parentVars
<1>6. Talk(c)
  BY DEF IndInv, TalkInv
<1>7. /\ child[c] \in {"none", "queued", "held", "reset", "name",
                       "create", "answer", "data", "quit", "done", "dead"}
      /\ Len(buf[c]) \in Nat /\ lines[c] \in Nat
  BY DEF IndInv, TypeOK
<1>8. Talk(c)'
  <2>1. UNCHANGED <<child[c], up[c], lines[c], buf[c]>>
    BY <1>1 DEF childVars
  <2>2. BeforeTalk(c)'
    BY <1>1, <1>3, <1>4, <1>6, <1>a, <2>1 DEF Talk, BeforeTalk, Fresh
  <2>3. InAnswer(c)'
    BY <1>1, <1>3, <1>4, <1>6, <2>1 DEF Talk, InAnswer, ClientOpen
  <2>4. InData(c)'
    BY <1>1, <1>3, <1>4, <1>6, <1>7, <2>1 DEF Talk, InData
  <2>5. AfterTalk(c)' /\ BufOK(c)'
    BY <1>1, <1>3, <1>4, <1>6, <1>7, <2>1 DEF Talk, AfterTalk, BufOK
  <2>6. AckOK(c)'
    <3>1. acked'[c] = acked[c] \/ lines[c] = Len(buf[c])
      BY <1>6, <1>7, <1>a DEF Talk, BeforeTalk, InAnswer, InData, AfterTalk, ClientOpen
    <3>2. acked'[c] = acked[c] \/ acked'[c] = lines[c]
      BY <1>a
    <3> QED
      BY <1>6, <1>7, <2>1, <3>1, <3>2 DEF Talk, AckOK
  <2> QED
    BY <2>2, <2>3, <2>4, <2>5, <2>6 DEF Talk
<1> QED
  BY <1>1, <1>2, <1>3, <1>5, <1>8, <1>a, ClientLeaves DEF Same, childVars

\* Confirm.
LEMMA ConfirmCase ==
    ASSUME IndInv, NEW c \in Clients, Confirm(c)
    PROVE  IndInv'
<1>1. /\ UNCHANGED <<name, lines, acked, down, childVars, parentVars, kills>>
      /\ cpc[c] = "confirm"
  BY DEF Confirm
<1>2. /\ cpc' \in [Clients -> {"off", "reply", "confirm", "input", "ack",
                                "done", "failed", "dead"}]
      /\ \A x \in Clients \ {c} : cpc'[x] = cpc[x]
  BY DEF Confirm, Goto, IndInv, TypeOK
<1>3. PICK m \in Message :
         /\ up' = [up EXCEPT ![c] = Append(up[c], m)]
         /\ \/ m.kind = "j" /\ confirmed' = confirmed \cup {c} /\ cpc'[c] = "input"
            \/ m.kind = "n" /\ confirmed' = confirmed /\ cpc'[c] = "done"
  <2>1. Msg("j") \in Message /\ Msg("n") \in Message
        /\ Msg("j").kind = "j" /\ Msg("n").kind = "n"
    BY DEF Msg, Message
  <2>2. cpc \in [Clients -> {"off", "reply", "confirm", "input", "ack",
                                "done", "failed", "dead"}]
    BY DEF IndInv, TypeOK
  <2> QED
    BY <2>1, <2>2 DEF Confirm, Write, Goto
<1>4. /\ up' \in [Clients -> Seq(Message)] /\ up'[c] # <<>>
      /\ up[c] = <<>> => Head(up'[c]) = m
      /\ \A x \in Clients \ {c} : up'[x] = up[x]
  <2>1. up \in [Clients -> Seq(Message)]
    BY DEF IndInv, TypeOK
  <2> QED
    BY <1>3, <2>1, WriteLemma
<1>5. confirmed' \subseteq Clients
  BY <1>3 DEF IndInv, TypeOK
<1>6. TypeOK'
  BY <1>1, <1>2, <1>4, <1>5, Zenon DEF IndInv, TypeOK, childVars, parentVars
<1>7. Talk(c) /\ child[c] \in {"none", "queued", "held", "reset", "name",
                       "create", "answer", "data", "quit", "done", "dead"}
  BY DEF IndInv, TalkInv, TypeOK
<1>8. child[c] = "answer" /\ up[c] = <<>> /\ c \notin confirmed /\ down[c] = <<>>
      /\ lines[c] = 0 /\ buf[c] = <<>>
  BY <1>1, <1>7 DEF Talk, BeforeTalk, InAnswer, InData, AfterTalk, ClientOpen
<1>9. Talk(c)'
  <2>1. UNCHANGED <<child[c], down[c], lines[c], acked[c], buf[c]>>
    BY <1>1 DEF childVars
  <2>2. InAnswer(c)'
    BY <1>3, <1>4, <1>8, <2>1 DEF InAnswer, ClientOpen
  <2>3. BufOK(c)' /\ AckOK(c)'
    BY <1>7, <2>1 DEF Talk, BufOK, AckOK
  <2> QED
    BY <1>3, <1>8, <2>1, <2>2, <2>3 DEF Talk, BeforeTalk, InData, AfterTalk
<1> QED
  BY <1>1, <1>2, <1>3, <1>4, <1>6, <1>8, <1>9, ClientLeaves DEF Same, childVars

\* SendLine: the line is the one after those in the child's buffer, unless it
\* follows the answer at once.
LEMMA SendLineCase ==
    ASSUME IndInv, NEW c \in Clients, SendLine(c)
    PROVE  IndInv'
<1> DEFINE m == [kind |-> "line", n |-> lines[c] + 1]
<1>1. /\ UNCHANGED <<name, acked, confirmed, down, childVars, parentVars, kills>>
      /\ cpc[c] = "input" /\ lines[c] < MaxLines
      /\ \/ cpc'[c] = "dead" /\ UNCHANGED <<lines, up>>
         \/ /\ child[c] # "done" /\ lines' = [lines EXCEPT ![c] = lines[c] + 1]
            /\ up' = [up EXCEPT ![c] = Append(up[c], m)]
            /\ cpc'[c] = "ack"
  BY DEF SendLine, Goto, Write, IndInv, TypeOK
<1>2. /\ cpc' \in [Clients -> {"off", "reply", "confirm", "input", "ack",
                                "done", "failed", "dead"}]
      /\ \A x \in Clients \ {c} : cpc'[x] = cpc[x]
  BY DEF SendLine, Goto, IndInv, TypeOK
<1>3. lines[c] \in Nat /\ m \in Message /\ m.n = lines[c] + 1 /\ MaxLines \in Nat
  BY StreamConstants DEF IndInv, TypeOK, Message
<1> HIDE DEF m
<1>4. /\ up' \in [Clients -> Seq(Message)] /\ lines' \in [Clients -> 0 .. MaxLines]
      /\ \A x \in Clients \ {c} : up'[x] = up[x] /\ lines'[x] = lines[x]
      /\ \/ cpc'[c] = "dead" /\ UNCHANGED <<lines[c], up[c]>>
         \/ /\ child[c] # "done" /\ cpc'[c] = "ack" /\ lines'[c] = lines[c] + 1
            /\ up'[c] # <<>>
            /\ Head(up'[c]) = IF up[c] = <<>> THEN m ELSE Head(up[c])
  <2>1. up \in [Clients -> Seq(Message)] /\ lines \in [Clients -> 0 .. MaxLines]
    BY DEF IndInv, TypeOK
  <2>2. CASE cpc'[c] = "dead" /\ UNCHANGED <<lines, up>>
    BY <2>1, <2>2
  <2>3. CASE /\ child[c] # "done" /\ lines' = [lines EXCEPT ![c] = lines[c] + 1]
             /\ up' = [up EXCEPT ![c] = Append(up[c], m)]
             /\ cpc'[c] = "ack"
    <3>1. /\ lines' \in [Clients -> 0 .. MaxLines] /\ lines'[c] = lines[c] + 1
          /\ \A x \in Clients \ {c} : lines'[x] = lines[x]
      BY <1>1, <1>3, <2>1, <2>3
    <3>2. /\ up' \in [Clients -> Seq(Message)] /\ up'[c] # <<>>
          /\ Head(up'[c]) = IF up[c] = <<>> THEN m ELSE Head(up[c])
          /\ \A x \in Clients \ {c} : up'[x] = up[x]
      BY <1>3, <2>1, <2>3, WriteLemma
    <3> QED
      BY <2>3, <3>1, <3>2, Zenon
  <2> QED
    BY <1>1, <2>2, <2>3
<1>5. TypeOK'
  BY <1>1, <1>2, <1>4, Zenon DEF IndInv, TypeOK, childVars, parentVars
<1>6. Talk(c) /\ child[c] \in {"none", "queued", "held", "reset", "name",
                       "create", "answer", "data", "quit", "done", "dead"}
  BY DEF IndInv, TalkInv, TypeOK
<1>7. /\ child[c] \in {"answer", "data", "done"} /\ down[c] = <<>>
      /\ child[c] = "answer" => up[c] # <<>>
      /\ child[c] = "data" => lines[c] = Len(buf[c]) /\ up[c] = <<>>
  BY <1>1, <1>6 DEF Talk, BeforeTalk, InAnswer, InData, AfterTalk, ClientOpen
<1>8. Talk(c)'
  <2>1. UNCHANGED <<child[c], down[c], buf[c], acked[c]>> /\ confirmed' = confirmed
    BY <1>1 DEF childVars
  <2>a. AckOK(c)'
    <3>1. Len(buf[c]) \in Nat /\ lines'[c] \in Nat /\ lines'[c] >= lines[c]
      BY <1>3, <1>4 DEF IndInv, TypeOK
    <3> QED
      BY <1>3, <1>6, <2>1, <3>1 DEF Talk, AckOK
  <2>2. BeforeTalk(c)' /\ AfterTalk(c)' /\ BufOK(c)'
    BY <1>1, <1>4, <1>6, <1>7, <2>1 DEF Talk, BeforeTalk, AfterTalk, BufOK, Fresh
  <2>3. InAnswer(c)'
    BY <1>1, <1>4, <1>6, <1>7, <2>1 DEF Talk, InAnswer, ClientOpen
  <2>4. InData(c)'
    BY <1>1, <1>3, <1>4, <1>6, <1>7, <2>1 DEF Talk, InData
  <2> QED
    BY <2>2, <2>3, <2>4, <2>a DEF Talk
<1> QED
  BY <1>1, <1>2, <1>4, <1>5, <1>8, ClientLeaves DEF Same, childVars

\* Connect.
LEMMA ConnectCase ==
    ASSUME IndInv, NEW c \in Clients, Connect(c)
    PROVE  IndInv'
<1>1. /\ UNCHANGED <<name, lines, acked, confirmed, down, buf, exists, content, ppc, ende, sigs, kills>>
      /\ cpc[c] = "off" /\ Len(conn) <= Backlog
      /\ conn' = Append(conn, c)
      /\ up' = [up EXCEPT ![c] = Append(up[c], Msg("name"))]
  BY DEF Connect, Write
<1>2. /\ cpc' \in [Clients -> {"off", "reply", "confirm", "input", "ack",
                                "done", "failed", "dead"}]
      /\ cpc'[c] = "reply" /\ \A x \in Clients \ {c} : cpc'[x] = cpc[x]
      /\ child' \in [Clients -> {"none", "queued", "held", "reset", "name",
                              "create", "answer", "data", "quit", "done", "dead"}]
      /\ child'[c] = "queued" /\ \A x \in Clients \ {c} : child'[x] = child[x]
  BY DEF Connect, Goto, IndInv, TypeOK
<1>3. /\ up' \in [Clients -> Seq(Message)]
      /\ \A x \in Clients \ {c} : up'[x] = up[x]
  <2>1. up \in [Clients -> Seq(Message)] /\ Msg("name") \in Message
    BY DEF IndInv, TypeOK, Msg, Message
  <2> QED
    BY <1>1, <2>1, WriteLemma
<1>4. /\ conn' \in Seq(Clients) /\ Len(conn') = Len(conn) + 1
      /\ conn \in Seq(Clients) /\ Len(conn) \in Nat
      /\ conn'[Len(conn) + 1] = c
      /\ \A i \in 1 .. Len(conn) : conn'[i] = conn[i]
  <2>1. conn \in Seq(Clients)
    BY DEF IndInv, TypeOK
  <2> QED
    BY <1>1, <2>1, AppendProperties
<1>5. TypeOK'
  <2>1. Len(conn') <= Backlog + 1
    BY <1>1, <1>4, StreamConstants
  <2> QED
    BY <1>1, <1>2, <1>3, <1>4, <2>1, Zenon DEF IndInv, TypeOK
<1>6. Talk(c) /\ Mine(c) /\ child[c] = "none"
  BY <1>1 DEF IndInv, TalkInv, FileInv, Talk, BeforeTalk
<1>7. TalkInv'
  <2>1. ASSUME NEW x \in Clients \ {c} PROVE Talk(x)'
    BY <1>1, <1>2, <1>3, TalkFrame DEF IndInv, TalkInv, Same
  <2>2. Talk(c)'
    BY <1>1, <1>2, <1>6 DEF Talk, BeforeTalk, InAnswer, InData, AfterTalk, BufOK, AckOK, Fresh
  <2> QED
    BY <2>1, <2>2 DEF TalkInv
<1>8. FileInv'
  <2>1. ASSUME NEW x \in Clients \ {c} PROVE Mine(x)'
    BY <1>1, <1>2, <1>3, MineFrame DEF IndInv, FileInv, Same, SameFile
  <2>2. Mine(c)'
    BY <1>1, <1>2, <1>6 DEF Mine, Alone
  <2> QED
    BY <2>1, <2>2 DEF FileInv
<1>9. OldInv'
  BY <1>1, <1>2 DEF IndInv, OldInv
<1>10. ConnInv'
  <2>1. \A i \in 1 .. Len(conn) : conn[i] \in Clients \ {c}
    BY <1>4, <1>6 DEF IndInv, ConnInv
  <2>2. \A i \in 1 .. Len(conn') : child'[conn'[i]] = "queued"
    <3> TAKE i \in 1 .. Len(conn')
    <3>1. CASE i \in 1 .. Len(conn)
      BY <1>2, <1>4, <2>1, <3>1 DEF IndInv, ConnInv
    <3>2. CASE i = Len(conn) + 1
      BY <1>2, <1>4, <3>2
    <3> QED
      BY <1>4, <3>1, <3>2
  <2>3. \A i, j \in 1 .. Len(conn') : conn'[i] = conn'[j] => i = j
    BY <1>4, <2>1 DEF IndInv, ConnInv
  <2> QED
    BY <2>2, <2>3 DEF ConnInv
<1>11. ParentInv' /\ OutlivesChildren'
  BY <1>1, <1>2 DEF IndInv, ParentInv, OutlivesChildren, Serving
<1> QED
  BY <1>5, <1>7, <1>8, <1>9, <1>10, <1>11 DEF IndInv

-----------------------------------------------------------------------------
(* The children                                                            *)

\* What a child sends: if the client is gone the child is killed.
LEMMA ReplyLemma ==
    ASSUME IndInv, NEW c \in Clients, NEW m \in {"1", "-1", "bytes"},
           NEW l \in {"answer", "data"}, Reply(c, m, l)
    PROVE  /\ child' \in [Clients -> {"none", "queued", "held", "reset", "name",
                              "create", "answer", "data", "quit", "done", "dead"}]
           /\ down' \in [Clients -> Seq({"1", "-1", "bytes"})]
           /\ \A x \in Clients \ {c} : child'[x] = child[x] /\ down'[x] = down[x]
           /\ ClientOpen(c) =>
                /\ child'[c] = l /\ down'[c] # <<>>
                /\ Head(down'[c]) = IF down[c] = <<>> THEN m ELSE Head(down[c])
           /\ ~ ClientOpen(c) => child'[c] = "dead" /\ down'[c] = down[c]
<1>1. /\ child \in [Clients -> {"none", "queued", "held", "reset", "name",
                              "create", "answer", "data", "quit", "done", "dead"}]
      /\ down \in [Clients -> Seq({"1", "-1", "bytes"})]
  BY DEF IndInv, TypeOK
<1>2. CASE ClientOpen(c)
  <2>1. down' = [down EXCEPT ![c] = Append(down[c], m)] /\ child' = [child EXCEPT ![c] = l]
    BY <1>2 DEF Reply, Write, Become
  <2>2. /\ down' \in [Clients -> Seq({"1", "-1", "bytes"})]
        /\ down'[c] # <<>>
        /\ Head(down'[c]) = IF down[c] = <<>> THEN m ELSE Head(down[c])
        /\ \A x \in Clients \ {c} : down'[x] = down[x]
    BY <1>1, <2>1, WriteLemma
  <2>3. /\ child' \in [Clients -> {"none", "queued", "held", "reset", "name",
                              "create", "answer", "data", "quit", "done", "dead"}]
        /\ child'[c] = l /\ \A x \in Clients \ {c} : child'[x] = child[x]
    BY <1>1, <2>1
  <2> QED
    BY <1>2, <2>2, <2>3, Zenon
<1>3. CASE ~ ClientOpen(c)
  BY <1>1, <1>3 DEF Reply, Become
<1> QED
  BY <1>2, <1>3

\* A step of a child that serves changes nothing of the parent's, of other
\* clients, or of files with other names.
LEMMA ChildLeaves ==
    ASSUME IndInv, NEW c \in Clients, Serving(c), child'[c] # "queued",
           TypeOK', Talk(c)', Mine(c)', OldInv',
           UNCHANGED <<clientVars, parentVars>>,
           \A x \in Clients \ {c} : child'[x] = child[x] /\ up'[x] = up[x]
                                    /\ down'[x] = down[x] /\ buf'[x] = buf[x],
           \A f \in Files \ {name[c]} : exists'[f] = exists[f] /\ content'[f] = content[f]
    PROVE  IndInv'
<1>1. ASSUME NEW x \in Clients \ {c} PROVE Same(x)
  BY DEF Same, clientVars
<1>2. TalkInv'
  BY <1>1, TalkFrame DEF IndInv, TalkInv, clientVars
<1>3. FileInv'
  <2>1. ASSUME NEW x \in Clients \ {c} PROVE Mine(x)'
    <3>1. CASE Alone(x)
      <4>1. name[x] \in Files \ {name[c]} /\ name' = name
        BY <3>1 DEF Alone, IndInv, TypeOK, clientVars
      <4> QED
        BY <1>1, <4>1, MineFrame DEF IndInv, FileInv, SameFile
    <3>2. CASE ~ Alone(x)
      BY <3>2 DEF Mine, Alone, clientVars
    <3> QED
      BY <3>1, <3>2
  <2> QED
    BY <2>1 DEF FileInv
<1>4. ConnInv'
  <2>1. \A i \in 1 .. Len(conn) : conn[i] \in Clients \ {c}
    <3> TAKE i \in 1 .. Len(conn)
    <3>1. conn[i] \in Clients
      BY DEF IndInv, TypeOK
    <3>2. child[conn[i]] = "queued" /\ child[c] # "queued"
      BY DEF IndInv, ConnInv, Serving
    <3> QED
      BY <3>1, <3>2
  <2> QED
    BY <2>1 DEF IndInv, ConnInv, parentVars
<1>5. ParentInv' /\ OutlivesChildren'
  BY DEF IndInv, ParentInv, OutlivesChildren, parentVars
<1> QED
  BY <1>2, <1>3, <1>4, <1>5 DEF IndInv

\* Without a change of the files no old line is lost.
LEMMA OldStays ==
    ASSUME IndInv, NEW c \in Clients, UNCHANGED <<name, exists, content>>,
           \A x \in Clients \ {c} : child'[x] = child[x],
           child'[c] \in {"data", "quit"} \/ (child'[c] = "create" /\ name[c] \notin Unreadable) =>
              Old \notin Range(content[name[c]])
    PROVE  OldInv'
BY DEF IndInv, OldInv

\* After fopen(dat, "w") the file is empty.
LEMMA OldTruncated ==
    ASSUME IndInv, NEW c \in Clients, UNCHANGED name, Truncate(name[c]),
           \A x \in Clients \ {c} : child'[x] = child[x]
    PROVE  /\ OldInv'
           /\ exists' \in [Files -> BOOLEAN]
           /\ content' \in [Files -> Seq(Line \cup {Old})]
           /\ exists'[name[c]] = TRUE /\ content'[name[c]] = <<>>
           /\ \A f \in Files \ {name[c]} : exists'[f] = exists[f] /\ content'[f] = content[f]
<1>1. <<>> \in Seq(Line \cup {Old}) /\ name[c] \in Files
  BY EmptySeq DEF IndInv, TypeOK
<1>2. /\ exists' \in [Files -> BOOLEAN]
      /\ content' \in [Files -> Seq(Line \cup {Old})]
      /\ exists'[name[c]] = TRUE /\ content'[name[c]] = <<>>
      /\ \A f \in Files \ {name[c]} : exists'[f] = exists[f] /\ content'[f] = content[f]
  BY <1>1 DEF Truncate, IndInv, TypeOK
<1>3. Old \notin Range(<<>>)
  BY DEF Range
<1>4. \A x \in Clients : name[x] \in Files
  BY DEF IndInv, TypeOK
<1>5. OldInv'
  BY <1>2, <1>3, <1>4 DEF IndInv, OldInv
<1> QED
  BY <1>2, <1>5

\* ChildName.
LEMMA NameCase ==
    ASSUME IndInv, NEW c \in Clients, ChildName(c)
    PROVE  IndInv'
<1>1. /\ child[c] = "name" /\ up' = [up EXCEPT ![c] = <<>>]
      /\ UNCHANGED <<clientVars, buf, exists, content, parentVars, kills>>
  BY DEF ChildName
<1>2. Talk(c) /\ Mine(c)
  BY DEF IndInv, TalkInv, FileInv
<1>3. Fresh(c) /\ down[c] = <<>> /\ cpc[c] \in {"reply", "dead"}
  BY <1>1, <1>2 DEF Talk, BeforeTalk
<1>4. /\ up' \in [Clients -> Seq(Message)] /\ up'[c] = <<>>
      /\ \A x \in Clients \ {c} : up'[x] = up[x]
  <2>1. up \in [Clients -> Seq(Message)]
    BY DEF IndInv, TypeOK
  <2> QED
    BY <1>1, <2>1, EmptyLemma
<1>5. /\ child' \in [Clients -> {"none", "queued", "held", "reset", "name",
                              "create", "answer", "data", "quit", "done", "dead"}]
      /\ down' \in [Clients -> Seq({"1", "-1", "bytes"})]
      /\ \A x \in Clients \ {c} : child'[x] = child[x] /\ down'[x] = down[x]
      /\ \/ /\ exists[name[c]] /\ cpc[c] = "reply" /\ child'[c] = "answer"
            /\ down'[c] # <<>> /\ Head(down'[c]) = "-1"
         \/ /\ cpc[c] # "reply" /\ child'[c] = "dead"
         \/ /\ ~ (exists[name[c]] /\ name[c] \notin Unreadable) /\ child'[c] = "create" /\ down'[c] = <<>>
  <2>1. CASE exists[name[c]] /\ name[c] \notin Unreadable
    <3>1. Reply(c, "-1", "answer")
      BY <2>1 DEF ChildName
    <3>2. ClientOpen(c) <=> cpc[c] = "reply"
      BY <1>3 DEF ClientOpen
    <3> QED
      BY <1>3, <2>1, <3>1, <3>2, ReplyLemma
  <2>2. CASE ~ (exists[name[c]] /\ name[c] \notin Unreadable)
    BY <1>3, <2>2 DEF ChildName, Become, IndInv, TypeOK
  <2> QED
    BY <2>1, <2>2
<1>6. TypeOK'
  BY <1>1, <1>4, <1>5, Zenon DEF IndInv, TypeOK, clientVars, parentVars
<1>7. Talk(c)'
  BY <1>1, <1>2, <1>3, <1>4, <1>5 DEF Talk, BeforeTalk, InAnswer, InData, AfterTalk,
     BufOK, AckOK, Fresh, ClientOpen, clientVars
<1>8. Mine(c)'
  BY <1>1, <1>2, <1>5 DEF Mine, Alone, clientVars
<1>9. OldInv'
  <2>1. /\ child'[c] \notin {"data", "quit"}
        /\ child'[c] = "create" /\ name[c] \notin Unreadable => ~ exists[name[c]]
    BY <1>5
  <2>2. name[c] \in Files
    BY DEF IndInv, TypeOK
  <2>3. child'[c] \in {"data", "quit"} \/ (child'[c] = "create" /\ name[c] \notin Unreadable) =>
           Old \notin Range(content[name[c]])
    BY <2>1, <2>2 DEF IndInv, OldInv
  <2> QED
    BY <1>1, <1>5, <2>3, OldStays DEF clientVars
<1> QED
  BY <1>1, <1>4, <1>5, <1>6, <1>7, <1>8, <1>9, ChildLeaves DEF Serving

\* ChildCreate.
LEMMA CreateCase ==
    ASSUME IndInv, NEW c \in Clients, ChildCreate(c)
    PROVE  IndInv'
<1>1. /\ child[c] = "create"
      /\ UNCHANGED <<clientVars, up, buf, parentVars, kills>>
      /\ \/ Become(c, "done") /\ UNCHANGED <<down, exists, content>>
         \/ Truncate(name[c]) /\ Reply(c, "1", "data")
  BY DEF ChildCreate
<1>2. Talk(c) /\ Mine(c)
  BY DEF IndInv, TalkInv, FileInv
<1>3. Fresh(c) /\ down[c] = <<>> /\ up[c] = <<>> /\ cpc[c] \in {"reply", "dead"}
      /\ Len(buf[c]) = 0
  BY <1>1, <1>2, EmptySeq DEF Talk, BeforeTalk, Fresh
<1>4. /\ child' \in [Clients -> {"none", "queued", "held", "reset", "name",
                              "create", "answer", "data", "quit", "done", "dead"}]
      /\ down' \in [Clients -> Seq({"1", "-1", "bytes"})]
      /\ \A x \in Clients \ {c} : child'[x] = child[x] /\ down'[x] = down[x]
      /\ \/ child'[c] = "done" /\ UNCHANGED <<down, exists, content>>
         \/ /\ Truncate(name[c]) /\ cpc[c] = "reply" /\ child'[c] = "data"
            /\ down'[c] # <<>> /\ Head(down'[c]) = "1"
         \/ Truncate(name[c]) /\ cpc[c] # "reply" /\ child'[c] = "dead"
  <2>1. CASE Become(c, "done") /\ UNCHANGED <<down, exists, content>>
    BY <2>1 DEF Become, IndInv, TypeOK
  <2>2. CASE Truncate(name[c]) /\ Reply(c, "1", "data")
    <3>1. ClientOpen(c) <=> cpc[c] = "reply"
      BY <1>3 DEF ClientOpen
    <3> QED
      BY <1>3, <2>2, <3>1, ReplyLemma
  <2> QED
    BY <1>1, <2>1, <2>2
<1>5. /\ OldInv' /\ exists' \in [Files -> BOOLEAN]
      /\ content' \in [Files -> Seq(Line \cup {Old})]
      /\ child'[c] = "data" => content'[name[c]] = <<>>
      /\ child'[c] = "done" => content'[name[c]] = content[name[c]]
      /\ \A f \in Files \ {name[c]} : exists'[f] = exists[f] /\ content'[f] = content[f]
  <2>1. CASE child'[c] = "done" /\ UNCHANGED <<down, exists, content>>
    <3>1. OldInv'
      BY <1>1, <1>4, <2>1, OldStays DEF clientVars
    <3>2. exists \in [Files -> BOOLEAN] /\ content \in [Files -> Seq(Line \cup {Old})]
      BY DEF IndInv, TypeOK
    <3> QED
      BY <2>1, <3>1, <3>2
  <2>2. CASE Truncate(name[c]) /\ child'[c] # "done"
    BY <1>1, <1>4, <2>2, OldTruncated DEF clientVars
  <2> QED
    BY <1>4, <2>1, <2>2
<1>6. TypeOK'
  BY <1>1, <1>4, <1>5, Zenon DEF IndInv, TypeOK, clientVars, parentVars
<1>7. Talk(c)'
  BY <1>1, <1>2, <1>3, <1>4 DEF Talk, BeforeTalk, InAnswer, InData, AfterTalk,
     BufOK, AckOK, Fresh, ClientOpen, clientVars
<1>8. Mine(c)'
  BY <1>1, <1>2, <1>3, <1>4, <1>5 DEF Mine, Alone, Fresh, clientVars
<1> QED
  BY <1>1, <1>4, <1>5, <1>6, <1>7, <1>8, ChildLeaves DEF Serving

\* ChildAnswer.
LEMMA AnswerCase ==
    ASSUME IndInv, NEW c \in Clients, ChildAnswer(c)
    PROVE  IndInv'
<1>1. /\ child[c] = "answer" /\ up' = [up EXCEPT ![c] = <<>>]
      /\ UNCHANGED <<clientVars, down, buf, parentVars, kills>>
      /\ up[c] = <<>> => ~ ClientOpen(c)
      /\ \/ /\ up[c] # <<>> /\ Head(up[c]).kind = "j" /\ Truncate(name[c])
            /\ child' = [child EXCEPT ![c] = "data"]
         \/ /\ up[c] # <<>> /\ name[c] \notin Unwritable => Head(up[c]).kind # "j"
            /\ child' = [child EXCEPT ![c] = "done"]
            /\ UNCHANGED <<exists, content>>
  BY DEF ChildAnswer, Become
<1>2. Talk(c) /\ Mine(c)
  BY DEF IndInv, TalkInv, FileInv
<1>3. buf[c] = <<>> /\ Len(buf[c]) = 0
  BY <1>1, <1>2, EmptySeq DEF Talk, InAnswer
<1>4. /\ up' \in [Clients -> Seq(Message)] /\ up'[c] = <<>>
      /\ \A x \in Clients \ {c} : up'[x] = up[x]
  <2>1. up \in [Clients -> Seq(Message)]
    BY DEF IndInv, TypeOK
  <2> QED
    BY <1>1, <2>1, EmptyLemma
<1>5. /\ child' \in [Clients -> {"none", "queued", "held", "reset", "name",
                              "create", "answer", "data", "quit", "done", "dead"}]
      /\ \A x \in Clients \ {c} : child'[x] = child[x]
      /\ \/ /\ up[c] # <<>> /\ Head(up[c]).kind = "j" /\ Truncate(name[c])
            /\ child'[c] = "data"
         \/ /\ up[c] # <<>> /\ name[c] \notin Unwritable => Head(up[c]).kind # "j"
            /\ child'[c] = "done"
            /\ UNCHANGED <<exists, content>>
  BY <1>1 DEF IndInv, TypeOK
<1>6. /\ OldInv' /\ exists' \in [Files -> BOOLEAN]
      /\ content' \in [Files -> Seq(Line \cup {Old})]
      /\ child'[c] = "data" => content'[name[c]] = <<>>
      /\ child'[c] = "done" => content'[name[c]] = content[name[c]]
      /\ \A f \in Files \ {name[c]} : exists'[f] = exists[f] /\ content'[f] = content[f]
  <2>1. CASE child'[c] = "done" /\ UNCHANGED <<exists, content>>
    <3>1. OldInv'
      BY <1>1, <1>5, <2>1, OldStays DEF clientVars
    <3>2. exists \in [Files -> BOOLEAN] /\ content \in [Files -> Seq(Line \cup {Old})]
      BY DEF IndInv, TypeOK
    <3> QED
      BY <2>1, <3>1, <3>2
  <2>2. CASE Truncate(name[c]) /\ child'[c] # "done"
    BY <1>1, <1>5, <2>2, OldTruncated DEF clientVars
  <2> QED
    BY <1>5, <2>1, <2>2
<1>7. TypeOK'
  BY <1>1, <1>4, <1>5, <1>6, Zenon DEF IndInv, TypeOK, clientVars, parentVars
<1>8. \/ /\ child'[c] = "data" /\ cpc[c] \in {"input", "ack", "done", "dead"}
         /\ cpc[c] \in {"input", "ack"} => down[c] = <<>>
         /\ cpc[c] \in {"input", "done"} => lines[c] = 0
      \/ /\ child'[c] = "done" /\ cpc[c] \in {"input", "ack", "done", "dead"}
         /\ cpc[c] \in {"input", "ack"} => down[c] = <<>>
         /\ name[c] \notin Unwritable => cpc[c] \in {"done", "dead"} /\ c \notin confirmed
         /\ name[c] \notin Unwritable /\ cpc[c] = "done" => lines[c] = 0
  <2>1. CASE up[c] = <<>>
    BY <1>1, <1>2, <1>5, <2>1 DEF Talk, InAnswer, ClientOpen
  <2>2. CASE up[c] # <<>>
    BY <1>1, <1>2, <1>5, <2>2 DEF Talk, InAnswer, ClientOpen
  <2> QED
    BY <2>1, <2>2
<1>9. Talk(c)'
  BY <1>1, <1>2, <1>3, <1>4, <1>8 DEF Talk, BeforeTalk, InAnswer, InData, AfterTalk,
     BufOK, AckOK, clientVars
<1>10. Mine(c)'
  BY <1>1, <1>2, <1>6, <1>8 DEF Mine, Alone, clientVars
<1> QED
  BY <1>1, <1>4, <1>5, <1>6, <1>7, <1>9, <1>10, ChildLeaves DEF Serving

\* ChildData: the line is the next one.
LEMMA DataCase ==
    ASSUME IndInv, NEW c \in Clients, ChildData(c)
    PROVE  /\ IndInv'
           /\ child[c] = "data" /\ child'[c] \in {"data", "dead"}
           /\ \A x \in Clients \ {c} : child'[x] = child[x]
           /\ buf' = [buf EXCEPT ![c] = Append(buf[c], [from |-> c, n |-> Len(buf[c]) + 1])]
           /\ UNCHANGED <<exists, content>>
<1> DEFINE e == [from |-> c, n |-> Len(buf[c]) + 1]
<1>1. /\ child[c] = "data" /\ up[c] # <<>> /\ up' = [up EXCEPT ![c] = <<>>]
      /\ buf' = [buf EXCEPT ![c] = Append(buf[c], [from |-> c, n |-> Head(up[c]).n])]
      /\ Reply(c, "bytes", "data")
      /\ UNCHANGED <<clientVars, exists, content, parentVars, kills>>
  BY DEF ChildData
<1>2. Talk(c) /\ Mine(c)
  BY DEF IndInv, TalkInv, FileInv
<1>3. /\ Head(up[c]).n = Len(buf[c]) + 1 /\ lines[c] = Len(buf[c]) + 1
      /\ (cpc[c] = "ack" /\ down[c] = <<>>) \/ cpc[c] = "dead"
  BY <1>1, <1>2 DEF Talk, InData
<1>4. buf' = [buf EXCEPT ![c] = Append(buf[c], e)]
  BY <1>1, <1>3
<1>5. buf[c] \in Seq(Line) /\ buf \in [Clients -> Seq(Line)]
      /\ e \in Line /\ e = [from |-> c, n |-> Len(buf[c]) + 1]
  <2>1. buf[c] \in Seq(Line) /\ buf \in [Clients -> Seq(Line)]
    BY DEF IndInv, TypeOK
  <2>2. Len(buf[c]) + 1 \in Nat \ {0}
    BY <2>1
  <2> QED
    BY <2>1, <2>2 DEF Line
<1> HIDE DEF e
<1>6. /\ up' \in [Clients -> Seq(Message)] /\ up'[c] = <<>>
      /\ \A x \in Clients \ {c} : up'[x] = up[x]
  <2>1. up \in [Clients -> Seq(Message)]
    BY DEF IndInv, TypeOK
  <2> QED
    BY <1>1, <2>1, EmptyLemma
<1>7. /\ child' \in [Clients -> {"none", "queued", "held", "reset", "name",
                              "create", "answer", "data", "quit", "done", "dead"}]
      /\ down' \in [Clients -> Seq({"1", "-1", "bytes"})]
      /\ \A x \in Clients \ {c} : child'[x] = child[x] /\ down'[x] = down[x]
      /\ \/ child'[c] = "data" /\ cpc[c] = "ack" /\ down'[c] # <<>>
         \/ child'[c] = "dead" /\ cpc[c] = "dead"
  <2>1. ClientOpen(c) <=> cpc[c] = "ack"
    BY <1>3 DEF ClientOpen
  <2> QED
    BY <1>1, <1>3, <2>1, ReplyLemma
<1>8. /\ buf' \in [Clients -> Seq(Line)]
      /\ Len(buf'[c]) = Len(buf[c]) + 1
      /\ buf'[c][Len(buf[c]) + 1] = e
      /\ \A i \in 1 .. Len(buf[c]) : buf'[c][i] = buf[c][i]
      /\ \A x \in Clients \ {c} : buf'[x] = buf[x]
  <2>1. /\ Append(buf[c], e) \in Seq(Line) /\ Len(Append(buf[c], e)) = Len(buf[c]) + 1
        /\ Append(buf[c], e)[Len(buf[c]) + 1] = e
        /\ \A i \in 1 .. Len(buf[c]) : Append(buf[c], e)[i] = buf[c][i]
    BY <1>5, AppendProperties
  <2>2. /\ buf' \in [Clients -> Seq(Line)] /\ buf'[c] = Append(buf[c], e)
        /\ \A x \in Clients \ {c} : buf'[x] = buf[x]
    BY <1>4, <1>5, <2>1
  <2> QED
    BY <2>1, <2>2
<1>9. TypeOK'
  BY <1>1, <1>6, <1>7, <1>8, Zenon DEF IndInv, TypeOK, clientVars, parentVars
<1>10. BufOK(c)'
  <2> SUFFICES ASSUME NEW i \in 1 .. Len(buf'[c])
               PROVE  buf'[c][i] = [from |-> c, n |-> i]
    BY DEF BufOK
  <2>1. CASE i = Len(buf[c]) + 1
    BY <1>5, <1>8, <2>1
  <2>2. CASE i \in 1 .. Len(buf[c])
    BY <1>2, <1>8, <2>2 DEF Talk, BufOK
  <2> QED
    BY <1>5, <1>8, <2>1, <2>2
<1>a. AckOK(c)'
  <2>1. acked[c] \in Nat /\ lines[c] \in Nat /\ Len(buf[c]) \in Nat /\ acked' = acked /\ lines' = lines
    BY <1>1 DEF IndInv, TypeOK, clientVars
  <2> QED
    BY <1>2, <1>3, <1>8, <2>1 DEF Talk, AckOK
<1>11. Talk(c)'
  BY <1>1, <1>3, <1>5, <1>6, <1>7, <1>8, <1>10, <1>a DEF Talk, BeforeTalk, InAnswer, InData,
     AfterTalk, clientVars
<1>12. Mine(c)'
  BY <1>1, <1>2, <1>7 DEF Mine, Alone, clientVars
<1>13. OldInv'
  <2>1. Old \notin Range(content[name[c]])
    BY <1>1 DEF IndInv, OldInv
  <2> QED
    BY <1>1, <1>7, <2>1, OldStays DEF clientVars
<1>14. IndInv'
  BY <1>1, <1>6, <1>7, <1>8, <1>9, <1>11, <1>12, <1>13, ChildLeaves DEF Serving
<1> QED
  BY <1>1, <1>4, <1>7, <1>14 DEF e

\* ChildEof.
LEMMA EofCase ==
    ASSUME IndInv, NEW c \in Clients, ChildEof(c)
    PROVE  IndInv'
<1>1. /\ child[c] = "data" /\ up[c] = <<>> /\ ~ ClientOpen(c)
      /\ UNCHANGED <<clientVars, up, down, buf, exists, content, parentVars, kills>>
  BY DEF ChildEof
<1>2. /\ child' \in [Clients -> {"none", "queued", "held", "reset", "name",
                              "create", "answer", "data", "quit", "done", "dead"}]
      /\ child'[c] = "quit" /\ \A x \in Clients \ {c} : child'[x] = child[x]
  BY DEF ChildEof, Become, IndInv, TypeOK
<1>3. TypeOK'
  BY <1>1, <1>2, Zenon DEF IndInv, TypeOK, clientVars, parentVars
<1>4. Talk(c) /\ Mine(c)
  BY DEF IndInv, TalkInv, FileInv
<1>5. /\ cpc[c] \in {"done", "dead"}
      /\ cpc[c] = "done" => lines[c] = Len(buf[c])
  BY <1>1, <1>4 DEF Talk, InData, ClientOpen
<1>6. Talk(c)'
  <2>1. AfterTalk(c)'
    BY <1>1, <1>2, <1>5 DEF AfterTalk, clientVars
  <2>2. BeforeTalk(c)'
    BY <1>1, <1>2, <1>5 DEF BeforeTalk, clientVars
  <2>3. InAnswer(c)' /\ InData(c)'
    BY <1>2 DEF InAnswer, InData
  <2>4. BufOK(c)' /\ AckOK(c)'
    BY <1>1, <1>4 DEF Talk, BufOK, AckOK, clientVars
  <2> QED
    BY <2>1, <2>2, <2>3, <2>4 DEF Talk
<1>7. Mine(c)'
  BY <1>1, <1>2, <1>4 DEF Mine, Alone, clientVars
<1>8. OldInv'
  <2>1. Old \notin Range(content[name[c]])
    BY <1>1 DEF IndInv, OldInv
  <2> QED
    BY <1>1, <1>2, <2>1, OldStays DEF clientVars
<1> QED
  BY <1>1, <1>2, <1>3, <1>6, <1>7, <1>8, ChildLeaves DEF Serving

\* ChildQuit: the buffer is written over whatever the file holds.
LEMMA QuitCase ==
    ASSUME IndInv, NEW c \in Clients, ChildQuit(c)
    PROVE  IndInv'
<1> DEFINE f == name[c]
<1>1. /\ child[c] = "quit" /\ content' = [content EXCEPT ![f] = Overlay(buf[c], content[f])]
      /\ UNCHANGED <<clientVars, up, down, buf, exists, parentVars, kills>>
  BY DEF ChildQuit
<1>2. /\ child' \in [Clients -> {"none", "queued", "held", "reset", "name",
                              "create", "answer", "data", "quit", "done", "dead"}]
      /\ child'[c] = "done" /\ \A x \in Clients \ {c} : child'[x] = child[x]
  BY DEF ChildQuit, Become, IndInv, TypeOK
<1>3. f \in Files /\ buf[c] \in Seq(Line) /\ content[f] \in Seq(Line \cup {Old})
      /\ content \in [Files -> Seq(Line \cup {Old})]
  BY DEF IndInv, TypeOK
<1>4. buf[c] \in Seq(Line \cup {Old})
  <2>1. Seq(Line) \subseteq Seq(Line \cup {Old})
    BY SeqMonotonic
  <2> QED
    BY <1>3, <2>1
<1>5. /\ Overlay(buf[c], content[f]) \in Seq(Line \cup {Old})
      /\ Range(Overlay(buf[c], content[f])) \subseteq Range(buf[c]) \cup Range(content[f])
      /\ content[f] = <<>> => Overlay(buf[c], content[f]) = buf[c]
  BY <1>3, <1>4, OverlayLemma
<1>6. /\ content' \in [Files -> Seq(Line \cup {Old})]
      /\ content'[f] = Overlay(buf[c], content[f])
      /\ \A g \in Files \ {f} : content'[g] = content[g]
  BY <1>1, <1>3, <1>5
<1>7. TypeOK'
  BY <1>1, <1>2, <1>6, Zenon DEF IndInv, TypeOK, clientVars, parentVars
<1>8. Talk(c) /\ Mine(c)
  BY DEF IndInv, TalkInv, FileInv
<1>9. Talk(c)'
  <2>1. AfterTalk(c)'
    BY <1>1, <1>2, <1>8 DEF Talk, AfterTalk, clientVars
  <2>2. BeforeTalk(c)'
    BY <1>1, <1>2, <1>8 DEF Talk, BeforeTalk, AfterTalk, clientVars
  <2>3. InAnswer(c)' /\ InData(c)'
    BY <1>2 DEF InAnswer, InData
  <2>4. BufOK(c)' /\ AckOK(c)'
    BY <1>1, <1>8 DEF Talk, BufOK, AckOK, clientVars
  <2> QED
    BY <2>1, <2>2, <2>3, <2>4 DEF Talk
<1>10. Mine(c)'
  BY <1>1, <1>2, <1>5, <1>6, <1>8 DEF Mine, Alone, clientVars
<1>11. Old \notin Range(content'[f])
  <2>1. Old \notin Range(content[f])
    BY <1>1 DEF IndInv, OldInv
  <2>2. Old \notin Range(buf[c])
    BY <1>3 DEF Range, Old, Line
  <2> QED
    BY <1>5, <1>6, <2>1, <2>2, Zenon
<1>12. OldInv'
  <2>1. ASSUME NEW g \in Files, Old \in Range(content'[g]) PROVE exists'[g]
    <3>1. g # f
      BY <1>11, <2>1
    <3> QED
      BY <1>1, <1>6, <2>1, <3>1 DEF IndInv, OldInv
  <2>2. ASSUME NEW x \in Clients,
               child'[x] \in {"data", "quit"} \/ (child'[x] = "create" /\ name'[x] \notin Unreadable)
        PROVE  Old \notin Range(content'[name'[x]])
    <3>1. x # c /\ child[x] = child'[x] /\ name[x] \in Files /\ name' = name
      BY <1>1, <1>2, <2>2 DEF IndInv, TypeOK, clientVars
    <3>2. Old \notin Range(content[name[x]])
      BY <2>2, <3>1 DEF IndInv, OldInv
    <3> QED
      BY <1>6, <1>11, <3>1, <3>2
  <2> QED
    BY <2>1, <2>2 DEF OldInv
<1> QED
  BY <1>1, <1>2, <1>6, <1>7, <1>9, <1>10, <1>12, ChildLeaves DEF Serving

-----------------------------------------------------------------------------
(* The parent                                                              *)

\* What the parent does to a connection.
Moved(x) ==
    \/ child'[x] = child[x]
    \/ child[x] = "queued" /\ child'[x] \in {"held", "reset"}
    \/ child[x] = "held" /\ child'[x] \in {"name", "reset"}

\* A step of the parent that only moves connections keeps the invariant.
LEMMA ParentLeaves ==
    ASSUME IndInv, UNCHANGED <<clientVars, up, down, buf, exists, content, kills>>,
           child' \in [Clients -> {"none", "queued", "held", "reset", "name",
                              "create", "answer", "data", "quit", "done", "dead"}],
           \A x \in Clients : Moved(x),
           ppc' \in {"loop", "accept", "accepted", "test", "close", "wait", "done"},
           conn' \in Seq(Clients), Len(conn') <= Backlog + 1,
           ende' \in BOOLEAN, sigs' \in 0 .. MaxSigs,
           ConnInv', ParentInv', OutlivesChildren'
    PROVE  IndInv'
<1>1. TypeOK'
  BY Zenon DEF IndInv, TypeOK, clientVars
<1>2. TalkInv'
  <2> SUFFICES ASSUME NEW x \in Clients PROVE Talk(x)'
    BY DEF TalkInv
  <2>1. Talk(x) /\ Moved(x)
    BY DEF IndInv, TalkInv
  <2>2. CASE child'[x] = child[x]
    BY <2>1, <2>2, TalkFrame DEF Same, clientVars
  <2>3. CASE child[x] \in {"queued", "held"} /\ child'[x] \in {"held", "name", "reset"}
    <3>1. BeforeTalk(x)'
      BY <2>1, <2>3 DEF Talk, BeforeTalk, Fresh, clientVars
    <3>2. InAnswer(x)' /\ InData(x)' /\ AfterTalk(x)'
      BY <2>3 DEF InAnswer, InData, AfterTalk
    <3>3. BufOK(x)' /\ AckOK(x)'
      BY <2>1 DEF Talk, BufOK, AckOK, clientVars
    <3> QED
      BY <3>1, <3>2, <3>3 DEF Talk
  <2> QED
    BY <2>1, <2>2, <2>3 DEF Moved
<1>3. FileInv'
  <2> SUFFICES ASSUME NEW x \in Clients PROVE Mine(x)'
    BY DEF FileInv
  <2> QED
    BY DEF IndInv, FileInv, Mine, Alone, Moved, clientVars
<1>4. OldInv'
  <2>1. \A x \in Clients : child'[x] \in {"create", "data", "quit"} => child'[x] = child[x]
    BY DEF Moved
  <2> QED
    BY <2>1 DEF IndInv, OldInv, clientVars
<1> QED
  BY <1>1, <1>2, <1>3, <1>4 DEF IndInv

\* EnterAccept, LoopTest and Fork.
LEMMA ParentLoop ==
    ASSUME IndInv, EnterAccept \/ LoopTest \/ \E c \in Clients : Fork(c)
    PROVE  IndInv'
<1>1. UNCHANGED <<clientVars, up, down, buf, exists, content, conn, ende, sigs, kills>>
  BY DEF EnterAccept, LoopTest, Fork, childVars
<1>2. /\ child' \in [Clients -> {"none", "queued", "held", "reset", "name",
                              "create", "answer", "data", "quit", "done", "dead"}]
      /\ \A x \in Clients : \/ child'[x] = child[x]
                            \/ child[x] = "held" /\ child'[x] = "name"
  <2>1. child \in [Clients -> {"none", "queued", "held", "reset", "name",
                              "create", "answer", "data", "quit", "done", "dead"}]
    BY DEF IndInv, TypeOK
  <2>2. \/ child' = child
        \/ \E c \in Clients : child[c] = "held" /\ child' = [child EXCEPT ![c] = "name"]
    BY DEF EnterAccept, LoopTest, Fork, Become, childVars
  <2> QED
    BY <2>1, <2>2
<1>3. /\ ppc \in {"loop", "test", "accepted"} /\ ppc' \in {"accept", "test", "loop", "close"}
      /\ ppc' = "close" => ende = TRUE
  BY DEF EnterAccept, LoopTest, Fork, IndInv, TypeOK
<1>4. ConnInv'
  <2>1. \A i \in 1 .. Len(conn) : conn[i] \in Clients
    BY DEF IndInv, TypeOK
  <2> QED
    BY <1>1, <1>2, <2>1 DEF IndInv, ConnInv
<1>5. ParentInv' /\ OutlivesChildren'
  BY <1>1, <1>3 DEF IndInv, ParentInv, OutlivesChildren
<1>6. conn' \in Seq(Clients) /\ Len(conn') <= Backlog + 1 /\ sigs' \in 0 .. MaxSigs
  BY <1>1 DEF IndInv, TypeOK
<1>7. ende' \in BOOLEAN
  BY <1>1, Zenon DEF IndInv, TypeOK
<1> QED
  BY <1>1, <1>2, <1>3, <1>4, <1>5, <1>6, <1>7, ParentLeaves DEF Moved

\* Accept.
LEMMA AcceptCase ==
    ASSUME IndInv, Accept
    PROVE  IndInv'
<1> DEFINE c == Head(conn)
<1>1. /\ conn # <<>> /\ conn' = Tail(conn) /\ ppc' = "accepted"
      /\ child' = [child EXCEPT ![c] = "held"]
      /\ UNCHANGED <<clientVars, up, down, buf, exists, content, ende, sigs, kills>>
  BY DEF Accept, Become
<1>2. conn \in Seq(Clients) /\ Len(conn) \in Nat /\ Len(conn) <= Backlog + 1
  BY DEF IndInv, TypeOK
<1>3. /\ c = conn[1] /\ c \in Clients /\ 1 \in 1 .. Len(conn)
      /\ conn' \in Seq(Clients) /\ Len(conn') = Len(conn) - 1
      /\ \A i \in 1 .. Len(conn') : i + 1 \in 1 .. Len(conn) /\ conn'[i] = conn[i + 1]
  BY <1>1, <1>2, HeadTailProperties, EmptySeq
<1> HIDE DEF c
<1>4. child[c] = "queued"
  BY <1>3 DEF IndInv, ConnInv
<1>5. /\ child' \in [Clients -> {"none", "queued", "held", "reset", "name",
                              "create", "answer", "data", "quit", "done", "dead"}]
      /\ child'[c] = "held" /\ \A x \in Clients \ {c} : child'[x] = child[x]
  BY <1>1, <1>3 DEF IndInv, TypeOK
<1>6. ConnInv'
  <2>1. ASSUME NEW i \in 1 .. Len(conn') PROVE child'[conn'[i]] = "queued"
    <3>1. /\ i + 1 \in 1 .. Len(conn) /\ conn'[i] = conn[i + 1] /\ i + 1 # 1
          /\ conn[i + 1] \in Clients
      BY <1>2, <1>3
    <3>2. conn[i + 1] # c /\ child[conn[i + 1]] = "queued"
      BY <1>3, <3>1 DEF IndInv, ConnInv
    <3> QED
      BY <1>5, <3>1, <3>2
  <2>2. ASSUME NEW i \in 1 .. Len(conn'), NEW j \in 1 .. Len(conn'), conn'[i] = conn'[j]
        PROVE  i = j
    <3>1. i + 1 \in 1 .. Len(conn) /\ j + 1 \in 1 .. Len(conn) /\ conn[i + 1] = conn[j + 1]
      BY <1>3, <2>2
    <3>2. i + 1 = j + 1
      BY <3>1 DEF IndInv, ConnInv
    <3> QED
      BY <3>2
  <2> QED
    BY <2>1, <2>2 DEF ConnInv
<1>7. ParentInv' /\ OutlivesChildren'
  BY <1>1 DEF IndInv, ParentInv, OutlivesChildren
<1>8. Len(conn') <= Backlog + 1 /\ sigs' \in 0 .. MaxSigs
  BY <1>1, <1>2, <1>3, StreamConstants DEF IndInv, TypeOK
<1>9. ende' \in BOOLEAN
  BY <1>1, Zenon DEF IndInv, TypeOK
<1>10. \A x \in Clients : Moved(x)
  BY <1>4, <1>5 DEF Moved
<1> QED
  BY <1>1, <1>3, <1>5, <1>6, <1>7, <1>8, <1>9, <1>10, ParentLeaves

\* CloseListener and WaitChildren.
LEMMA ParentStops ==
    ASSUME IndInv, CloseListener \/ WaitChildren
    PROVE  IndInv'
<1>1. UNCHANGED <<clientVars, up, down, buf, exists, content, ende, sigs, kills>>
  BY DEF CloseListener, WaitChildren
<1>2. child' \in [Clients -> {"none", "queued", "held", "reset", "name",
                              "create", "answer", "data", "quit", "done", "dead"}]
  BY DEF CloseListener, WaitChildren, ParentEnds, IndInv, TypeOK
<1>3. \A x \in Clients : Moved(x)
  BY DEF CloseListener, WaitChildren, ParentEnds, Moved
<1>4. /\ ppc \in {"close", "wait"} /\ ppc' \in {"wait", "done"}
      /\ ppc' = "done" => \A x \in Clients :
           ~ Serving(x) /\ (child'[x] = child[x] \/ child'[x] = "reset")
  BY DEF CloseListener, WaitChildren, ParentEnds, Serving
<1>5. \/ conn' = <<>>
      \/ conn' = conn /\ \A x \in Clients : child'[x] = child[x] \/ child[x] = "held"
  BY DEF CloseListener, WaitChildren, ParentEnds
<1>6. ConnInv'
  <2>1. \A i \in 1 .. Len(conn) : conn[i] \in Clients
    BY DEF IndInv, TypeOK
  <2> QED
    BY <1>5, <2>1, EmptySeq DEF IndInv, ConnInv
<1>7. ParentInv' /\ OutlivesChildren'
  BY <1>1, <1>4 DEF IndInv, ParentInv, OutlivesChildren, Serving
<1>8. conn' \in Seq(Clients) /\ Len(conn') <= Backlog + 1 /\ sigs' \in 0 .. MaxSigs
  <2>1. /\ conn \in Seq(Clients) /\ Len(conn) <= Backlog + 1 /\ sigs' \in 0 .. MaxSigs
    BY <1>1 DEF IndInv, TypeOK
  <2>2. <<>> \in Seq(Clients) /\ Len(<<>>) <= Backlog + 1
    BY EmptySeq, StreamConstants
  <2> QED
    BY <1>5, <2>1, <2>2
<1>9. ende' \in BOOLEAN
  BY <1>1, Zenon DEF IndInv, TypeOK
<1> QED
  BY <1>1, <1>2, <1>3, <1>4, <1>6, <1>7, <1>8, <1>9, ParentLeaves

\* SigInt: the first one does not find the parent waiting.
LEMMA SigIntCase ==
    ASSUME IndInv, SigInt
    PROVE  IndInv'
<1>1. /\ UNCHANGED <<clientVars, up, down, buf, exists, content, conn, kills>>
      /\ ppc # "done" /\ sigs < MaxSigs /\ sigs' = sigs + 1 /\ ende' = TRUE
  BY DEF SigInt
<1>2. child' \in [Clients -> {"none", "queued", "held", "reset", "name",
                              "create", "answer", "data", "quit", "done", "dead"}]
  <2>1. child' = child \/ ParentEnds
    BY DEF SigInt
  <2> QED
    BY <2>1 DEF ParentEnds, IndInv, TypeOK
<1>3. \A x \in Clients : \/ child'[x] = child[x]
                         \/ child[x] = "held" /\ child'[x] = "reset"
  <2>1. child' = child \/ ParentEnds
    BY DEF SigInt
  <2> QED
    BY <2>1 DEF ParentEnds
<1>4. /\ ppc' \in {"loop", "accept", "accepted", "test", "close", "wait", "done"}
      /\ ppc' = "done" => ppc = "wait"
  BY <1>1 DEF SigInt, ParentEnds, IndInv, TypeOK
<1>5. ConnInv'
  <2>1. \A i \in 1 .. Len(conn) : conn[i] \in Clients
    BY DEF IndInv, TypeOK
  <2> QED
    BY <1>1, <1>3, <2>1 DEF IndInv, ConnInv
<1>6. sigs \in Nat /\ sigs' \in 0 .. MaxSigs
  BY <1>1, StreamConstants DEF IndInv, TypeOK
<1>7. ParentInv' /\ OutlivesChildren'
  BY <1>1, <1>4, <1>6 DEF IndInv, ParentInv, OutlivesChildren
<1>8. conn' \in Seq(Clients) /\ Len(conn') <= Backlog + 1 /\ ende' \in BOOLEAN
  BY <1>1 DEF IndInv, TypeOK
<1>9. \A x \in Clients : Moved(x)
  BY <1>3 DEF Moved
<1> QED
  BY <1>1, <1>2, <1>4, <1>5, <1>6, <1>7, <1>8, <1>9, ParentLeaves

-----------------------------------------------------------------------------
(* The invariant                                                           *)

\* No step breaks the invariant.
LEMMA Inductive ==
    ASSUME IndInv, [Next]_vars
    PROVE  IndInv'
<1>1. ASSUME NEW c \in Clients,
             \/ Connect(c) \/ ConnectRefused(c) \/ Confirm(c)
             \/ SendLine(c) \/ EndOfInput(c) \/ Kill(c) \/ ClientStep(c)
      PROVE  IndInv'
  BY <1>1, ConnectCase, ClientEnds, ConfirmCase, SendLineCase, ClientReads DEF ClientStep
<1>2. ASSUME NEW c \in Clients, ChildStep(c) PROVE IndInv'
  BY <1>2, NameCase, CreateCase, AnswerCase, DataCase, EofCase, QuitCase DEF ChildStep
<1>3. ASSUME ParentStep \/ SigInt PROVE IndInv'
  BY <1>3, ParentLoop, AcceptCase, ParentStops, SigIntCase DEF ParentStep
<1>4. CASE UNCHANGED vars
  <2>1. /\ UNCHANGED <<clientVars, up, down, buf, exists, content, kills>>
        /\ UNCHANGED <<child, ppc, conn, ende, sigs>>
    BY <1>4 DEF vars, childVars, parentVars
  <2>2. ConnInv' /\ ParentInv' /\ OutlivesChildren'
    BY <2>1 DEF IndInv, ConnInv, ParentInv, OutlivesChildren, Serving
  <2>3. \A x \in Clients : Moved(x)
    BY <2>1 DEF Moved
  <2>4. /\ child' \in [Clients -> {"none", "queued", "held", "reset", "name",
                              "create", "answer", "data", "quit", "done", "dead"}]
        /\ ppc' \in {"loop", "accept", "accepted", "test", "close", "wait", "done"}
        /\ conn' \in Seq(Clients) /\ Len(conn') <= Backlog + 1
        /\ ende' \in BOOLEAN /\ sigs' \in 0 .. MaxSigs
    BY <2>1, Zenon DEF IndInv, TypeOK
  <2> QED
    BY <2>1, <2>2, <2>3, <2>4, ParentLeaves
<1> QED
  BY <1>1, <1>2, <1>3, <1>4 DEF Next

\* IndInv is an invariant.
LEMMA Invariant == Spec => []IndInv
BY InitCase, Inductive, PTL DEF Spec

\* Every variable keeps its type; in particular no more connections wait than
\* listen allows.
THEOREM TypeCorrect == Spec => []TypeOK
<1>1. IndInv => TypeOK
  BY DEF IndInv
<1> QED
  BY <1>1, Invariant, PTL

\* However many clients, children and signals there are, a parent that gets
\* one SIGINT ends after its children.
THEOREM ParentIsLast == Spec => []OutlivesChildren
<1>1. IndInv => OutlivesChildren
  BY DEF IndInv
<1> QED
  BY <1>1, Invariant, PTL

\* However many clients there are, a child that ends in good order leaves in a
\* file of its client's own that can be written the client's first lines, no
\* acknowledged one missing, and all of them if the client ended in good order.
THEOREM StoredAsSent == Spec => []SentIsStored
<1>1. ASSUME IndInv PROVE SentIsStored
  <2> SUFFICES ASSUME NEW c \in Clients, child[c] = "done", Alone(c), name[c] \notin Unwritable,
                      Old \in Range(content[name[c]]) => c \in confirmed
               PROVE  \E m \in acked[c] .. lines[c] :
                        /\ content[name[c]] = [i \in 1 .. m |-> [from |-> c, n |-> i]]
                        /\ cpc[c] = "done" => m = lines[c]
    BY DEF SentIsStored
  <2>1. /\ Talk(c) /\ Mine(c) /\ buf[c] \in Seq(Line)
        /\ acked[c] \in Nat /\ lines[c] \in Nat /\ Len(buf[c]) \in Nat
    BY <1>1 DEF IndInv, TalkInv, FileInv, TypeOK
  <2>2. Old \in Range(<<Old>>)
    BY DEF Range
  <2>3. content[name[c]] = buf[c]
    BY <2>1, <2>2 DEF Mine
  <2>4. buf[c] = [i \in 1 .. Len(buf[c]) |-> [from |-> c, n |-> i]]
    BY <2>1 DEF Talk, BufOK
  <2>5. Len(buf[c]) \in acked[c] .. lines[c]
    BY <2>1 DEF Talk, AckOK
  <2>6. cpc[c] = "done" => Len(buf[c]) = lines[c]
    BY <2>1 DEF Talk, AfterTalk
  <2> WITNESS Len(buf[c]) \in acked[c] .. lines[c]
  <2> QED
    BY <2>3, <2>4, <2>6
<1> QED
  BY <1>1, Invariant, PTL

\* What a file held before the server started is lost by no step before some
\* client has agreed to it, if the file can be opened for reading.
THEOREM OldContentKept == Spec => OldIsKept
<1>1. ASSUME IndInv, [Next]_vars
      PROVE  [\A f \in Files \ Unreadable :
                Old \in Range(content[f]) /\ Old \notin Range(content'[f]) =>
                   \E c \in confirmed : name[c] = f]_vars
  <2> SUFFICES ASSUME Next, NEW f \in Files \ Unreadable,
                      Old \in Range(content[f]), Old \notin Range(content'[f])
               PROVE  \E c \in confirmed : name[c] = f
    BY <1>1
  <2>1. content' # content
    OBVIOUS
  <2>2. \E c \in Clients : ChildCreate(c) \/ ChildAnswer(c) \/ ChildQuit(c)
    <3>1. ASSUME NEW c \in Clients,
                 \/ Connect(c) \/ ConnectRefused(c) \/ Confirm(c)
                 \/ SendLine(c) \/ EndOfInput(c) \/ Kill(c) \/ ClientStep(c)
          PROVE  content' = content
      BY <3>1 DEF Connect, ConnectRefused, Confirm, SendLine, EndOfInput, Kill, ClientStep,
         ReadReply, ReadAck, childVars
    <3>2. ASSUME NEW c \in Clients, ChildName(c) \/ ChildData(c) \/ ChildEof(c)
          PROVE  content' = content
      BY <3>2 DEF ChildName, ChildData, ChildEof
    <3>3. ASSUME ParentStep \/ SigInt PROVE content' = content
      BY <3>3 DEF ParentStep, EnterAccept, Accept, LoopTest, CloseListener, WaitChildren,
         Fork, SigInt, childVars
    <3> QED
      BY <2>1, <3>1, <3>2, <3>3 DEF Next, ChildStep
  <2>3. PICK c \in Clients : ChildCreate(c) \/ ChildAnswer(c) \/ ChildQuit(c)
    BY <2>2
  <2>4. name[c] = f
    <3>1. \E v : content' = content \/ content' = [content EXCEPT ![name[c]] = v]
      BY <2>3 DEF ChildCreate, ChildAnswer, ChildQuit, Truncate
    <3> QED
      BY <1>1, <3>1 DEF IndInv, TypeOK
  <2>5. child[c] \notin {"create", "data", "quit"}
    BY <1>1, <2>4 DEF IndInv, OldInv
  <2>6. ChildAnswer(c) /\ child[c] = "answer"
    BY <2>3, <2>5 DEF ChildCreate, ChildQuit, ChildAnswer
  <2>7. up[c] # <<>> /\ Head(up[c]).kind = "j"
    BY <2>1, <2>6 DEF ChildAnswer
  <2>8. c \in confirmed
    BY <1>1, <2>6, <2>7 DEF IndInv, TalkInv, Talk, InAnswer
  <2> QED
    BY <2>4, <2>8
<1> QED
  BY <1>1, Invariant, PTL DEF Spec, OldIsKept

-----------------------------------------------------------------------------
(* Refinement                                                              *)

\* The mapping of ImplementsStore.
Stored   == [c \in Clients |-> [i \in DOMAIN buf[c] |-> buf[c][i].n]]
Finished == [c \in Clients |-> child[c] \in {"quit", "done"}]

\* A function on 1 .. n is a sequence.
LEMMA FamilyLemma ==
    ASSUME NEW S, NEW n \in Nat, NEW f \in [1 .. n -> S]
    PROVE  f \in Seq(S) /\ Len(f) = n
<1>1. f \in Seq(S)
  BY SeqDef
<1>2. 1 .. Len(f) = 1 .. n /\ Len(f) \in Nat
  BY <1>1, LenProperties
<1> QED
  BY <1>1, <1>2

\* The numbers of a sequence of lines, when it grows.
LEMMA NumbersLemma ==
    ASSUME NEW q \in Seq(Line), NEW e \in Line, e.n = Len(q) + 1
    PROVE  LET numbers == [i \in DOMAIN q |-> q[i].n]
           IN  [i \in DOMAIN Append(q, e) |-> Append(q, e)[i].n]
                  = Append(numbers, Len(numbers) + 1)
<1> DEFINE numbers == [i \in DOMAIN q |-> q[i].n]
           longer == [i \in DOMAIN Append(q, e) |-> Append(q, e)[i].n]
<1>1. /\ DOMAIN q = 1 .. Len(q) /\ DOMAIN Append(q, e) = 1 .. Len(q) + 1
      /\ Append(q, e)[Len(q) + 1] = e
      /\ \A i \in 1 .. Len(q) : Append(q, e)[i] = q[i]
      /\ Len(q) \in Nat
  BY AppendProperties
<1>2. /\ numbers \in Seq(Nat) /\ Len(numbers) = Len(q)
      /\ \A i \in 1 .. Len(q) : numbers[i] = q[i].n
  <2>1. \A i \in 1 .. Len(q) : q[i] \in Line
    BY ElementOfSeq
  <2>2. \A i \in 1 .. Len(q) : q[i].n \in Nat
    BY <2>1 DEF Line
  <2>3. numbers \in [1 .. Len(q) -> Nat]
    BY <1>1, <2>2
  <2> QED
    BY <1>1, <2>3, FamilyLemma
<1>3. /\ longer \in Seq(Nat) /\ Len(longer) = Len(q) + 1
      /\ \A i \in 1 .. Len(q) + 1 : longer[i] = Append(q, e)[i].n
  <2>1. \A i \in 1 .. Len(q) + 1 : Append(q, e)[i] \in Line
    BY <1>1, ElementOfSeq
  <2>2. \A i \in 1 .. Len(q) + 1 : Append(q, e)[i].n \in Nat
    BY <2>1 DEF Line
  <2>3. longer \in [1 .. Len(q) + 1 -> Nat] /\ Len(q) + 1 \in Nat
    BY <1>1, <2>2
  <2>4. longer \in Seq(Nat) /\ Len(longer) = Len(q) + 1
    BY <2>3, FamilyLemma
  <2> QED
    BY <1>1, <2>4
<1> HIDE DEF numbers, longer
<1>4. /\ Append(numbers, Len(numbers) + 1) \in Seq(Nat)
      /\ Len(Append(numbers, Len(numbers) + 1)) = Len(q) + 1
      /\ Append(numbers, Len(numbers) + 1)[Len(q) + 1] = Len(q) + 1
      /\ \A i \in 1 .. Len(q) : Append(numbers, Len(numbers) + 1)[i] = numbers[i]
  BY <1>1, <1>2, AppendProperties
<1>5. ASSUME NEW i \in 1 .. Len(q) + 1
      PROVE  longer[i] = Append(numbers, Len(numbers) + 1)[i]
  <2>1. CASE i = Len(q) + 1
    BY <1>1, <1>3, <1>4, <2>1
  <2>2. CASE i \in 1 .. Len(q)
    BY <1>1, <1>2, <1>3, <1>4, <2>2
  <2>3. i = Len(q) + 1 \/ i \in 1 .. Len(q)
    BY <1>1
  <2> QED
    BY <2>1, <2>2, <2>3, Zenon
<1>6. longer = Append(numbers, Len(numbers) + 1)
  BY <1>3, <1>4, <1>5, SeqEqual
<1> QED
  BY <1>6 DEF numbers, longer

\* To read a line is to store it, to leave the loop is to finish; all other
\* steps are invisible.
LEMMA RefinementStep ==
    ASSUME IndInv, [Next]_vars
    PROVE  [Store!Next]_<<Stored, Finished>>
<1>1. ASSUME UNCHANGED buf,
             \A x \in Clients : child'[x] \in {"quit", "done"} <=> child[x] \in {"quit", "done"}
      PROVE  UNCHANGED <<Stored, Finished>>
  BY <1>1 DEF Stored, Finished
<1>2. ASSUME NEW c \in Clients, UNCHANGED buf, child[c] \notin {"quit", "done"},
             \A x \in Clients \ {c} : child'[x] = child[x]
      PROVE  [Store!Next]_<<Stored, Finished>>
  <2>1. CASE child'[c] \notin {"quit", "done"}
    BY <1>1, <1>2, <2>1
  <2>2. CASE child'[c] \in {"quit", "done"}
    <3>1. ~ Finished[c] /\ Stored' = Stored
      BY <1>2 DEF Stored, Finished
    <3>2. Finished' = [Finished EXCEPT ![c] = TRUE]
      BY <1>2, <2>2 DEF Finished
    <3> QED
      BY <3>1, <3>2 DEF Store!Next, Store!Finish, Stored, Finished
  <2> QED
    BY <2>1, <2>2
<1>3. ASSUME NEW c \in Clients,
             ChildName(c) \/ ChildCreate(c) \/ ChildAnswer(c) \/ ChildEof(c)
      PROVE  [Store!Next]_<<Stored, Finished>>
  <2>1. UNCHANGED buf /\ child[c] \in {"name", "create", "answer", "data"}
    BY <1>3 DEF ChildName, ChildCreate, ChildAnswer, ChildEof
  <2>2. \A x \in Clients \ {c} : child'[x] = child[x]
    BY <1>3 DEF ChildName, ChildCreate, ChildAnswer, ChildEof, Reply, Become, IndInv, TypeOK
  <2> QED
    BY <1>2, <2>1, <2>2
<1>4. ASSUME NEW c \in Clients, ChildQuit(c)
      PROVE  [Store!Next]_<<Stored, Finished>>
  <2>1. UNCHANGED buf /\ child[c] = "quit" /\ child' = [child EXCEPT ![c] = "done"]
    BY <1>4 DEF ChildQuit, Become
  <2> QED
    BY <1>1, <2>1 DEF IndInv, TypeOK
<1>5. ASSUME NEW c \in Clients, ChildData(c)
      PROVE  [Store!Next]_<<Stored, Finished>>
  <2>1. /\ child[c] = "data" /\ child'[c] \in {"data", "dead"}
        /\ \A x \in Clients \ {c} : child'[x] = child[x]
        /\ buf' = [buf EXCEPT ![c] = Append(buf[c], [from |-> c, n |-> Len(buf[c]) + 1])]
    BY <1>5, DataCase
  <2>2. ~ Finished[c] /\ Finished' = Finished
    <3>1. \A x \in Clients : child'[x] \in {"quit", "done"} <=> child[x] \in {"quit", "done"}
      BY <2>1
    <3>2. Finished' = Finished
      BY <3>1 DEF Finished
    <3>3. ~ Finished[c]
      BY <2>1 DEF Finished
    <3> QED
      BY <3>2, <3>3
  <2>3. buf \in [Clients -> Seq(Line)]
    BY DEF IndInv, TypeOK
  <2>4. Stored' = [Stored EXCEPT ![c] = Append(Stored[c], Len(Stored[c]) + 1)]
    <3> DEFINE e == [from |-> c, n |-> Len(buf[c]) + 1]
    <3>1. buf[c] \in Seq(Line) /\ Len(buf[c]) + 1 \in Nat \ {0}
      BY <2>3
    <3>2. e \in Line /\ e.n = Len(buf[c]) + 1
      BY <3>1 DEF Line
    <3>3. buf'[c] = Append(buf[c], e) /\ \A x \in Clients \ {c} : buf'[x] = buf[x]
      BY <2>1, <2>3
    <3> HIDE DEF e
    <3>4. Stored'[c] = Append(Stored[c], Len(Stored[c]) + 1)
      BY <3>1, <3>2, <3>3, NumbersLemma DEF Stored
    <3>5. \A x \in Clients \ {c} : Stored'[x] = Stored[x]
      BY <3>3 DEF Stored
    <3> QED
      BY <3>4, <3>5 DEF Stored
  <2> QED
    BY <2>2, <2>4 DEF Store!Next, Store!Store, Stored, Finished
<1>6. ASSUME NEW c \in Clients,
             \/ Connect(c) \/ ConnectRefused(c) \/ Confirm(c)
             \/ SendLine(c) \/ EndOfInput(c) \/ Kill(c) \/ ClientStep(c)
      PROVE  UNCHANGED <<Stored, Finished>>
  <2>1. \/ buf' = buf /\ child' = child
        \/ buf' = buf /\ cpc[c] = "off" /\ child' = [child EXCEPT ![c] = "queued"]
    BY <1>6 DEF Connect, ConnectRefused, Confirm, SendLine, EndOfInput, Kill, ClientStep,
       ReadReply, ReadAck, childVars
  <2>2. cpc[c] = "off" => child[c] = "none"
    BY DEF IndInv, TalkInv, Talk, BeforeTalk
  <2> QED
    BY <1>1, <2>1, <2>2 DEF IndInv, TypeOK
<1>7. ASSUME ParentStep \/ SigInt PROVE UNCHANGED <<Stored, Finished>>
  <2>1. buf' = buf
    BY <1>7 DEF ParentStep, EnterAccept, Accept, LoopTest, CloseListener, WaitChildren,
       Fork, SigInt, childVars
  <2>2. \A x \in Clients : child'[x] \in {"quit", "done"} <=> child[x] \in {"quit", "done"}
    <3>1. CASE Accept
      <4>1. conn[1] \in Clients /\ Head(conn) = conn[1] /\ child[conn[1]] = "queued"
        BY <3>1, HeadTailProperties, EmptySeq DEF Accept, IndInv, TypeOK, ConnInv
      <4> QED
        BY <3>1, <4>1 DEF Accept, Become, IndInv, TypeOK
    <3>2. CASE \E c \in Clients : Fork(c)
      BY <3>2 DEF Fork, Become, IndInv, TypeOK
    <3>3. CASE EnterAccept \/ LoopTest \/ CloseListener \/ WaitChildren
      BY <3>3 DEF EnterAccept, LoopTest, CloseListener, WaitChildren, ParentEnds, childVars
    <3>4. CASE SigInt
      BY <3>4 DEF SigInt, ParentEnds
    <3> QED
      BY <1>7, <3>1, <3>2, <3>3, <3>4 DEF ParentStep
  <2> QED
    BY <1>1, <2>1, <2>2
<1>8. CASE UNCHANGED vars
  BY <1>1, <1>8 DEF vars, childVars
<1> QED
  BY <1>3, <1>4, <1>5, <1>6, <1>7, <1>8 DEF Next, ChildStep

\* The children keep the streams of their clients apart, whole and in order,
\* and end each once: the server implements StreamStore.
THEOREM Refinement == Spec => ImplementsStore
<1>1. Init => Store!Init
  <2> SUFFICES ASSUME Init PROVE Store!Init
    OBVIOUS
  <2>1. \A c \in Clients : [i \in DOMAIN buf[c] |-> buf[c][i].n] = <<>>
    BY DEF Init
  <2>2. \A c \in Clients : (child[c] \in {"quit", "done"}) = FALSE
    BY DEF Init
  <2> QED
    BY <2>1, <2>2 DEF Store!Init
<1>2. IndInv /\ [Next]_vars => [Store!Next]_<<Stored, Finished>>
  BY RefinementStep
<1> QED
  BY <1>1, <1>2, Invariant, PTL DEF Spec, ImplementsStore, Store!Spec, Stored, Finished
=============================================================================
