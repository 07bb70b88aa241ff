------------------------- MODULE ThreadServerProofs -------------------------
(***************************************************************************)
(* Proofs about ThreadServer for any number of clients, lines and kills:   *)
(* the main thread outlives the threads it has created, although it joins  *)
(* the last of them only and takes the post of any.                        *)
(***************************************************************************)
EXTENDS ThreadServer, SequenceTheorems, FiniteSetTheorems, TLAPS

\* A thread works on some connection once it has started.
FdInv ==
    \A t \in Clients :
        /\ tpc[t] # "none" => args \in Clients /\ cpc[t] # "off"
        /\ tpc[t] \notin {"none", "start"} => fd[t] \in Clients

\* The connections that wait are different ones, and have no thread yet.
ConnInv ==
    /\ \A i \in 1 .. Len(conn) : tpc[conn[i]] = "none" /\ cpc[conn[i]] # "off"
    /\ \A i, j \in 1 .. Len(conn) : conn[i] = conn[j] => i = j
    /\ mpc = "accepted" => conn # <<>>

\* What the main thread knows of the number of joins it has yet to make.
MainInv ==
    /\ mpc \in {"unlock", "joining"} => counter # 0
    /\ mpc = "done" => counter = 0

Created == {t \in Clients : tpc[t] # "none"}
Posted  == {t \in Clients : tpc[t] \in {"close", "ended"}}

\* Semaphore 1 holds the posts that were made and not taken: one was taken for
\* each join, and for the one under way.
Balance ==
    mpc # "dead" =>
        sem[1] + Cardinality(Created) + (IF mpc = "joining" THEN 1 ELSE 0)
           = left + Cardinality(Posted) + counter

IndInv == TypeOK /\ FdInv /\ ConnInv /\ MainInv /\ Balance

-----------------------------------------------------------------------------
(* Sequences and sets                                                      *)

\* What Write leaves of a family of sequences.
LEMMA WriteLemma ==
    ASSUME NEW S, NEW q \in [Clients -> Seq(S)], NEW c \in Clients, NEW m \in S,
           NEW r, r = [q EXCEPT ![c] = Append(q[c], m)]
    PROVE  r \in [Clients -> Seq(S)]
<1>1. Append(q[c], m) \in Seq(S)
  BY AppendProperties
<1> QED
  BY <1>1

\* What a read that takes everything leaves.
LEMMA EmptyLemma ==
    ASSUME NEW S, NEW q \in [Clients -> Seq(S)], NEW c,
           NEW r, r = [q EXCEPT ![c] = <<>>]
    PROVE  r \in [Clients -> Seq(S)]
BY EmptySeq

\* Threads can be counted.
LEMMA Counting ==
    /\ IsFiniteSet(Created) /\ IsFiniteSet(Posted)
    /\ Cardinality(Created) \in Nat /\ Cardinality(Posted) \in Nat
<1>1. Created \subseteq Clients /\ Posted \subseteq Clients
  BY DEF Created, Posted
<1> QED
  BY <1>1, ThreadConstants, FS_Subset, FS_CardinalityType

\* The queue of the listening socket grows by Connect only.
LEMMA QueueFrame ==
    ASSUME IndInv, conn' = conn,
           mpc' \in {mpc, "dead"} \/ (Alive /\ mpc # "accepted")
    PROVE  QueueFits'
<1>1. Len(conn) \in Nat /\ QueueFits
  BY DEF IndInv, TypeOK
<1> QED
  BY <1>1, ThreadConstants DEF QueueFits, Pending, Alive

\* IndInv holds at the beginning.
LEMMA InitCase == Init => IndInv
<1> SUFFICES ASSUME Init PROVE IndInv
  OBVIOUS
<1>1. <<>> \in Seq({"name", "j", "n", "line"}) /\ <<>> \in Seq({"1", "-1", "bytes"})
      /\ <<>> \in Seq(Clients) /\ Len(<<>>) = 0
  BY EmptySeq
<1>2. TypeOK
  <2>1. /\ up \in [Clients -> Seq({"name", "j", "n", "line"})]
        /\ down \in [Clients -> Seq({"1", "-1", "bytes"})]
        /\ conn \in Seq(Clients) /\ name \in [Clients -> Files]
        /\ cpc \in [Clients -> {"off", "reply", "confirm", "input", "ack",
                                "done", "failed", "dead"}]
        /\ tpc \in [Clients -> {"none", "start", "name", "answer", "data", "lock",
                                "unlock", "close", "ended", "quit"}]
        /\ fd \in [Clients -> Clients \cup {NoFd}]
        /\ mpc \in {"accept", "accepted", "test", "close", "join", "unlock",
                    "joining", "done", "dead"}
        /\ args \in Clients \cup {NoFd} /\ thrid \in Clients \cup {NoFd}
        /\ ende \in BOOLEAN /\ closed \subseteq Clients
    BY <1>1, Zenon DEF Init
  <2>2. /\ lines \in [Clients -> 0 .. MaxLines] /\ counter \in Nat
        /\ sigs \in 0 .. MaxSigs /\ kills \in 0 .. MaxKills
        /\ semval \in {-1, 0} /\ left \in 0 .. MaxLeft
        /\ exists \subseteq Files \cup {Other}
    BY ThreadConstants DEF Init
  <2>3. sem \in [{0, 1} -> Nat] /\ sem[0] \in {0, 1}
    BY <2>2, ThreadConstants DEF Init
  <2>4. QueueFits
    BY <1>1, ThreadConstants DEF Init, QueueFits, Pending
  <2> QED
    BY <2>1, <2>2, <2>3, <2>4, Zenon DEF TypeOK
<1>3. FdInv /\ ConnInv /\ MainInv
  BY <1>1 DEF Init, FdInv, ConnInv, MainInv
<1>4. Balance
  <2>1. Created = {} /\ Posted = {}
    BY DEF Created, Posted, Init
  <2>2. Cardinality(Created) = 0 /\ Cardinality(Posted) = 0
    BY <2>1, FS_EmptySet
  <2>3. sem[1] = left /\ left \in Nat /\ counter = 0 /\ mpc = "accept"
    BY ThreadConstants DEF Init
  <2> QED
    BY <2>2, <2>3 DEF Balance
<1> QED
  BY <1>2, <1>3, <1>4 DEF IndInv

-----------------------------------------------------------------------------
(* The clients                                                             *)

\* A step of a client that is connected, and Confirm, SendLine and the rest
\* write at most into its own connection.
LEMMA ClientMoves ==
    ASSUME IndInv, NEW c \in Clients,
           \/ Confirm(c) \/ SendLine(c) \/ EndOfInput(c) \/ KillClient(c)
           \/ ClientStep(c)
    PROVE  IndInv'
<1>1. UNCHANGED <<name, threadVars, mainVars, ende, semVars, sigs>>
  BY DEF Confirm, SendLine, EndOfInput, KillClient, ClientStep, ReadReply, ReadAck
<1>2. /\ cpc' \in [Clients -> {"off", "reply", "confirm", "input", "ack",
                                "done", "failed", "dead"}]
      /\ \A x \in Clients : cpc[x] # "off" => cpc'[x] # "off"
  <2>1. \E l \in {"confirm", "input", "ack", "done", "failed", "dead"} :
           cpc' = [cpc EXCEPT ![c] = l]
    BY DEF Confirm, SendLine, EndOfInput, KillClient, ClientStep, ReadReply, ReadAck, Goto
  <2> QED
    BY <2>1 DEF IndInv, TypeOK
<1>3. up' \in [Clients -> Seq({"name", "j", "n", "line"})]
  <2>1. up \in [Clients -> Seq({"name", "j", "n", "line"})]
    BY DEF IndInv, TypeOK
  <2>2. \/ up' = up
        \/ \E m \in {"name", "j", "n", "line"} : up' = [up EXCEPT ![c] = Append(up[c], m)]
    BY DEF Confirm, SendLine, EndOfInput, KillClient, ClientStep, ReadReply, ReadAck, Write
  <2> QED
    BY <2>1, <2>2, WriteLemma
<1>4. down' \in [Clients -> Seq({"1", "-1", "bytes"})]
  <2>1. down \in [Clients -> Seq({"1", "-1", "bytes"})]
    BY DEF IndInv, TypeOK
  <2>2. down' = down \/ down' = [down EXCEPT ![c] = <<>>]
    BY DEF Confirm, SendLine, EndOfInput, KillClient, ClientStep, ReadReply, ReadAck
  <2> QED
    BY <2>1, <2>2, EmptyLemma
<1>5. lines' \in [Clients -> 0 .. MaxLines]
  <2>1. lines \in [Clients -> 0 .. MaxLines] /\ MaxLines \in Nat
    BY ThreadConstants DEF IndInv, TypeOK
  <2>2. lines' = lines \/ (lines[c] < MaxLines /\ lines' = [lines EXCEPT ![c] = lines[c] + 1])
    BY DEF Confirm, SendLine, EndOfInput, KillClient, ClientStep, ReadReply, ReadAck
  <2> QED
    BY <2>1, <2>2
<1>6. kills' \in 0 .. MaxKills
  <2>1. kills \in 0 .. MaxKills /\ MaxKills \in Nat
    BY ThreadConstants DEF IndInv, TypeOK
  <2>2. kills' = kills \/ (kills < MaxKills /\ kills' = kills + 1)
    BY DEF Confirm, SendLine, EndOfInput, KillClient, ClientStep, ReadReply, ReadAck
  <2> QED
    BY <2>1, <2>2
<1>fits. QueueFits'
  BY <1>1, QueueFrame DEF mainVars
<1>7. TypeOK'
  BY <1>1, <1>2, <1>3, <1>4, <1>5, <1>6, <1>fits, Zenon DEF IndInv, TypeOK, threadVars, mainVars, semVars
<1>8. FdInv' /\ MainInv'
  BY <1>1, <1>2 DEF IndInv, FdInv, MainInv, threadVars, mainVars
<1>9. ConnInv'
  <2>1. \A i \in 1 .. Len(conn) : conn[i] \in Clients
    BY DEF IndInv, TypeOK
  <2> QED
    BY <1>1, <1>2, <2>1 DEF IndInv, ConnInv, threadVars, mainVars
<1>10. Balance'
  BY <1>1 DEF IndInv, Balance, Created, Posted, threadVars, mainVars, semVars
<1> QED
  BY <1>7, <1>8, <1>9, <1>10 DEF IndInv

\* Connect.
LEMMA ConnectCase ==
    ASSUME IndInv, NEW c \in Clients, Connect(c)
    PROVE  IndInv'
<1>1. /\ UNCHANGED <<name, lines, down, threadVars, mpc, args, thrid, counter, ende, semVars, sigs, kills>>
      /\ cpc[c] = "off"
      /\ \/ /\ conn' = Append(conn, c)
            /\ up' = [up EXCEPT ![c] = Append(up[c], "name")]
         \/ UNCHANGED <<conn, up>>
  BY DEF Connect, Write
<1>2. /\ cpc' \in [Clients -> {"off", "reply", "confirm", "input", "ack",
                                "done", "failed", "dead"}]
      /\ cpc'[c] # "off" /\ \A x \in Clients \ {c} : cpc'[x] = cpc[x]
  BY DEF Connect, Goto, IndInv, TypeOK
<1>3. up' \in [Clients -> Seq({"name", "j", "n", "line"})]
  <2>1. up \in [Clients -> Seq({"name", "j", "n", "line"})]
    BY DEF IndInv, TypeOK
  <2> QED
    <3>1. CASE up' = up
      BY <2>1, <3>1
    <3>2. CASE up' = [up EXCEPT ![c] = Append(up[c], "name")]
      BY <2>1, <3>2, WriteLemma
    <3> QED
      BY <1>1, <3>1, <3>2
<1>4. conn \in Seq(Clients) /\ Len(conn) \in Nat
  BY DEF IndInv, TypeOK
<1>5. tpc[c] = "none"
  BY <1>1 DEF IndInv, FdInv
<1>6. conn' \in Seq(Clients) /\ ConnInv'
  <2>1. \A i \in 1 .. Len(conn) : conn[i] \in Clients \ {c}
    BY <1>1, <1>4 DEF IndInv, ConnInv
  <2>2. CASE conn' = Append(conn, c)
    <3>1. /\ conn' \in Seq(Clients) /\ Len(conn') = Len(conn) + 1 /\ conn' # <<>>
          /\ conn'[Len(conn) + 1] = c
          /\ \A i \in 1 .. Len(conn) : conn'[i] = conn[i]
      BY <1>4, <2>2, AppendProperties
    <3>2. \A i \in 1 .. Len(conn') : tpc'[conn'[i]] = "none" /\ cpc'[conn'[i]] # "off"
      <4> TAKE i \in 1 .. Len(conn')
      <4>1. CASE i \in 1 .. Len(conn)
        BY <1>1, <1>2, <2>1, <3>1, <4>1 DEF IndInv, ConnInv, threadVars
      <4>2. CASE i = Len(conn) + 1
        BY <1>1, <1>2, <1>5, <3>1, <4>2 DEF threadVars
      <4> QED
        BY <1>4, <3>1, <4>1, <4>2
    <3>3. \A i, j \in 1 .. Len(conn') : conn'[i] = conn'[j] => i = j
      BY <1>4, <2>1, <3>1 DEF IndInv, ConnInv
    <3> QED
      BY <3>1, <3>2, <3>3 DEF ConnInv
  <2>3. CASE conn' = conn
    BY <1>1, <1>2, <1>4, <2>1, <2>3 DEF IndInv, ConnInv, threadVars
  <2> QED
    BY <1>1, <2>2, <2>3
<1>fits. QueueFits'
  <2>1. CASE conn' = conn
    BY <1>1, <2>1, QueueFrame
  <2>2. CASE conn' # conn
    <3>1. /\ conn' = Append(conn, c) /\ mpc' = mpc
          /\ mpc \in {"accept", "accepted", "test", "close"} /\ Pending <= Backlog
      BY <2>2 DEF Connect, Connectable
    <3>2. Len(conn') = Len(conn) + 1
      BY <1>4, <3>1, AppendProperties
    <3> QED
      BY <1>4, <3>1, <3>2, ThreadConstants DEF QueueFits, Pending
  <2> QED
    BY <2>1, <2>2
<1>7. TypeOK'
  BY <1>1, <1>2, <1>3, <1>6, <1>fits, Zenon DEF IndInv, TypeOK, threadVars, semVars
<1>8. FdInv' /\ MainInv'
  BY <1>1, <1>2, <1>5 DEF IndInv, FdInv, MainInv, threadVars
<1>9. Balance'
  BY <1>1 DEF IndInv, Balance, Created, Posted, threadVars, semVars
<1> QED
  BY <1>6, <1>7, <1>8, <1>9 DEF IndInv

-----------------------------------------------------------------------------
(* The threads                                                             *)

\* A step of a thread, or of the process because of it, that neither creates a
\* thread nor makes a post.
LEMMA ThreadLeaves ==
    ASSUME IndInv, NEW t \in Clients, TypeOK',
           UNCHANGED <<cpc, conn, args, counter, left>>, sem'[1] = sem[1],
           \A x \in Clients \ {t} : tpc'[x] = tpc[x] /\ fd'[x] = fd[x],
           tpc[t] # "none", tpc'[t] # "none",
           tpc'[t] # "start" => fd'[t] \in Clients,
           tpc'[t] \in {"close", "ended"} <=> tpc[t] \in {"close", "ended"},
           mpc' = mpc \/ mpc' = "dead"
    PROVE  IndInv'
<1>1. FdInv' /\ MainInv'
  BY DEF IndInv, FdInv, MainInv
<1>2. ConnInv'
  <2>1. \A i \in 1 .. Len(conn) : conn[i] \in Clients \ {t}
    <3> TAKE i \in 1 .. Len(conn)
    <3>1. conn[i] \in Clients
      BY DEF IndInv, TypeOK
    <3>2. tpc[conn[i]] = "none"
      BY DEF IndInv, ConnInv
    <3> QED
      BY <3>1, <3>2
  <2> QED
    BY <2>1 DEF IndInv, ConnInv
<1>3. Balance'
  <2>1. Created' = Created
    BY DEF Created
  <2>2. Posted' = Posted
    BY DEF Posted
  <2> QED
    BY <2>1, <2>2 DEF IndInv, Balance
<1> QED
  BY <1>1, <1>2, <1>3 DEF IndInv

\* Writing to a client that has gone ends the process.
LEMMA ReplyLemma ==
    ASSUME IndInv, NEW t \in Clients, NEW c \in Clients,
           NEW m \in {"1", "-1", "bytes"}, NEW l \in {"answer", "data"},
           Reply(t, c, m, l)
    PROVE  /\ down' \in [Clients -> Seq({"1", "-1", "bytes"})]
           /\ \/ tpc' = [tpc EXCEPT ![t] = l] /\ mpc' = mpc
              \/ tpc' = tpc /\ mpc' = "dead"
<1>1. down \in [Clients -> Seq({"1", "-1", "bytes"})]
  BY DEF IndInv, TypeOK
<1>2. \/ /\ down' = [down EXCEPT ![c] = Append(down[c], m)]
         /\ tpc' = [tpc EXCEPT ![t] = l] /\ mpc' = mpc
      \/ down' = down /\ tpc' = tpc /\ mpc' = "dead"
  BY DEF Reply, Write, Become
<1>3. CASE /\ down' = [down EXCEPT ![c] = Append(down[c], m)]
           /\ tpc' = [tpc EXCEPT ![t] = l] /\ mpc' = mpc
  BY <1>1, <1>3, WriteLemma
<1>4. CASE down' = down /\ tpc' = tpc /\ mpc' = "dead"
  BY <1>1, <1>4
<1> QED
  BY <1>2, <1>3, <1>4

\* ThreadStart, ThreadLock and ThreadClose.
LEMMA ThreadRuns ==
    ASSUME IndInv, NEW t \in Clients, ThreadStart(t) \/ ThreadLock(t) \/ ThreadClose(t)
    PROVE  IndInv'
<1>1. UNCHANGED <<clientVars, up, down, exists, mainVars, ende, semval, left, sigs, kills>>
  BY DEF ThreadStart, ThreadLock, ThreadClose, semVars
<1>2. /\ tpc' \in [Clients -> {"none", "start", "name", "answer", "data", "lock",
                               "unlock", "close", "ended", "quit"}]
      /\ \A x \in Clients \ {t} : tpc'[x] = tpc[x]
      /\ \/ tpc[t] = "start" /\ tpc'[t] = "name"
         \/ tpc[t] = "lock" /\ tpc'[t] = "unlock"
         \/ tpc[t] = "close" /\ tpc'[t] = "ended"
  BY DEF ThreadStart, ThreadLock, ThreadClose, At, Become, IndInv, TypeOK
<1>3. /\ fd' \in [Clients -> Clients \cup {NoFd}] /\ fd'[t] \in Clients
      /\ \A x \in Clients \ {t} : fd'[x] = fd[x]
  <2>1. fd \in [Clients -> Clients \cup {NoFd}] /\ args \in Clients
    BY <1>2 DEF IndInv, TypeOK, FdInv
  <2>2. fd' = [fd EXCEPT ![t] = args] \/ (fd' = fd /\ tpc[t] \in {"lock", "close"})
    BY DEF ThreadStart, ThreadLock, ThreadClose, At
  <2> QED
    BY <2>1, <2>2 DEF IndInv, FdInv
<1>4. closed' \subseteq Clients
  <2>1. closed' = closed \/ (closed' = closed \cup {fd[t]} /\ tpc[t] = "close")
    BY DEF ThreadStart, ThreadLock, ThreadClose, At
  <2> QED
    BY <2>1 DEF IndInv, TypeOK, FdInv
<1>5. sem' \in [{0, 1} -> Nat] /\ sem'[0] \in {0, 1} /\ sem'[1] = sem[1]
  BY DEF ThreadStart, ThreadLock, ThreadClose, semVars, IndInv, TypeOK
<1>fits. QueueFits'
  BY <1>1, QueueFrame DEF mainVars
<1>6. TypeOK'
  BY <1>1, <1>2, <1>3, <1>4, <1>5, <1>fits, Zenon DEF IndInv, TypeOK, clientVars, mainVars
<1> QED
  BY <1>1, <1>2, <1>3, <1>5, <1>6, ThreadLeaves DEF clientVars, mainVars

\* ThreadName, ThreadAnswer and ThreadData: what they read and write is the
\* connection the thread works on.
LEMMA ThreadTalks ==
    ASSUME IndInv, NEW t \in Clients, ThreadName(t) \/ ThreadAnswer(t) \/ ThreadData(t)
    PROVE  IndInv'
<1> DEFINE c == fd[t]
           f == NameRead(c)
<1>1. /\ UNCHANGED <<clientVars, closed, fd, conn, args, thrid, counter, ende, semVars, sigs, kills>>
      /\ tpc[t] \in {"name", "answer", "data"}
  BY DEF ThreadName, ThreadAnswer, ThreadData, At, mainVars
<1>2. c \in Clients
  BY <1>1 DEF IndInv, FdInv
<1>3. f \in Files \cup {Other}
  BY <1>2 DEF NameRead, IndInv, TypeOK
<1>4. up' = up \/ up' = [up EXCEPT ![c] = <<>>]
  BY DEF ThreadName, ThreadAnswer, ThreadData
<1>5. exists' = exists \/ exists' = exists \cup {f}
  BY DEF ThreadName, ThreadAnswer, ThreadData
<1>6. \/ /\ tpc' = [tpc EXCEPT ![t] = "quit"] \/ tpc' = [tpc EXCEPT ![t] = "lock"]
            \/ tpc' = [tpc EXCEPT ![t] = "data"]
         /\ mpc' = mpc /\ down' = down
      \/ Reply(t, c, "-1", "answer") \/ Reply(t, c, "1", "data") \/ Reply(t, c, "bytes", "data")
  <2>1. CASE ThreadName(t)
    BY <2>1 DEF ThreadName, Become
  <2>2. CASE ThreadAnswer(t)
    BY <2>2 DEF ThreadAnswer, Become, mainVars
  <2>3. CASE ThreadData(t)
    BY <2>3 DEF ThreadData, Become
  <2> QED
    BY <2>1, <2>2, <2>3
<1> HIDE DEF f
<1>7. up' \in [Clients -> Seq({"name", "j", "n", "line"})]
  <2>1. up \in [Clients -> Seq({"name", "j", "n", "line"})]
    BY DEF IndInv, TypeOK
  <2>2. CASE up' = up
    BY <2>1, <2>2
  <2>3. CASE up' = [up EXCEPT ![c] = <<>>]
    BY <2>1, <2>3, EmptyLemma
  <2> QED
    BY <1>4, <2>2, <2>3
<1>8. exists' \subseteq Files \cup {Other}
  BY <1>3, <1>5 DEF IndInv, TypeOK
<1>9. /\ down' \in [Clients -> Seq({"1", "-1", "bytes"})]
      /\ \/ \E l \in {"quit", "lock", "answer", "data"} :
              tpc' = [tpc EXCEPT ![t] = l] /\ mpc' = mpc
         \/ tpc' = tpc /\ mpc' = "dead"
  <2>1. CASE Reply(t, c, "-1", "answer")
    BY <1>2, <2>1, ReplyLemma
  <2>2. CASE Reply(t, c, "1", "data")
    BY <1>2, <2>2, ReplyLemma
  <2>3. CASE Reply(t, c, "bytes", "data")
    BY <1>2, <2>3, ReplyLemma
  <2>4. CASE \/ tpc' = [tpc EXCEPT ![t] = "quit"] /\ mpc' = mpc /\ down' = down
             \/ tpc' = [tpc EXCEPT ![t] = "lock"] /\ mpc' = mpc /\ down' = down
             \/ tpc' = [tpc EXCEPT ![t] = "data"] /\ mpc' = mpc /\ down' = down
    BY <2>4 DEF IndInv, TypeOK
  <2> QED
    BY <1>6, <2>1, <2>2, <2>3, <2>4
<1>10. /\ tpc' \in [Clients -> {"none", "start", "name", "answer", "data", "lock",
                               "unlock", "close", "ended", "quit"}]
       /\ \A x \in Clients \ {t} : tpc'[x] = tpc[x]
       /\ tpc'[t] \in {"quit", "lock", "name", "answer", "data"}
  BY <1>1, <1>9 DEF IndInv, TypeOK
<1>11. /\ mpc' = mpc \/ mpc' = "dead"
       /\ mpc' \in {"accept", "accepted", "test", "close", "join", "unlock",
                    "joining", "done", "dead"}
  BY <1>9 DEF IndInv, TypeOK
<1>fits. QueueFits'
  BY <1>1, <1>11, QueueFrame
<1>12. TypeOK'
  BY <1>1, <1>7, <1>8, <1>9, <1>10, <1>11, <1>fits, Zenon DEF IndInv, TypeOK, clientVars, semVars
<1> QED
  BY <1>1, <1>2, <1>10, <1>11, <1>12, ThreadLeaves DEF clientVars, semVars

\* ThreadUnlock: a post more.
LEMMA UnlockCase ==
    ASSUME IndInv, NEW t \in Clients, ThreadUnlock(t)
    PROVE  IndInv'
<1>1. /\ UNCHANGED <<clientVars, up, down, closed, fd, exists, mainVars, ende, semval, left, sigs, kills>>
      /\ tpc[t] = "unlock" /\ sem[0] >= 1
      /\ sem' = [sem EXCEPT ![0] = sem[0] - 1, ![1] = sem[1] + 1]
  BY DEF ThreadUnlock, At
<1>2. /\ tpc' \in [Clients -> {"none", "start", "name", "answer", "data", "lock",
                               "unlock", "close", "ended", "quit"}]
      /\ tpc'[t] = "close" /\ \A x \in Clients \ {t} : tpc'[x] = tpc[x]
  BY DEF ThreadUnlock, Become, IndInv, TypeOK
<1>3. /\ sem' \in [{0, 1} -> Nat] /\ sem'[0] \in {0, 1}
      /\ sem'[1] = sem[1] + 1 /\ sem[1] \in Nat
  <2>1. sem \in [{0, 1} -> Nat] /\ sem[0] \in {0, 1}
    BY DEF IndInv, TypeOK
  <2>2. PICK a, b \in Nat : a = sem[0] /\ b = sem[1]
    BY <2>1
  <2>3. /\ sem' = [sem EXCEPT ![0] = a - 1, ![1] = b + 1]
        /\ a - 1 \in {0, 1} /\ a - 1 \in Nat /\ b + 1 \in Nat
    BY <1>1, <2>1, <2>2
  <2>4. sem' \in [{0, 1} -> Nat] /\ sem'[0] = a - 1 /\ sem'[1] = b + 1
    BY <2>1, <2>3
  <2> QED
    BY <2>2, <2>3, <2>4
<1>fits. QueueFits'
  BY <1>1, QueueFrame DEF mainVars
<1>4. TypeOK'
  BY <1>1, <1>2, <1>3, <1>fits, Zenon DEF IndInv, TypeOK, clientVars, mainVars
<1>5. FdInv' /\ MainInv'
  BY <1>1, <1>2 DEF IndInv, FdInv, MainInv, clientVars, mainVars
<1>6. ConnInv'
  <2>1. \A i \in 1 .. Len(conn) : conn[i] \in Clients \ {t}
    <3> TAKE i \in 1 .. Len(conn)
    <3>1. conn[i] \in Clients
      BY DEF IndInv, TypeOK
    <3>2. tpc[conn[i]] = "none"
      BY DEF IndInv, ConnInv
    <3> QED
      BY <1>1, <3>1, <3>2
  <2> QED
    BY <1>1, <1>2, <2>1 DEF IndInv, ConnInv, clientVars, mainVars
<1>7. Balance'
  <2>1. Created' = Created
    BY <1>1, <1>2 DEF Created
  <2>2. Posted' = Posted \cup {t} /\ t \notin Posted
    BY <1>1, <1>2 DEF Posted
  <2>3. Cardinality(Posted') = Cardinality(Posted) + 1
    BY <2>2, Counting, FS_AddElement
  <2>4. counter \in Nat /\ left \in Nat
    BY ThreadConstants DEF IndInv, TypeOK
  <2>5. mpc # "dead" =>
          sem[1] + Cardinality(Created) + (IF mpc = "joining" THEN 1 ELSE 0)
             = left + Cardinality(Posted) + counter
    BY DEF IndInv, Balance
  <2>6. UNCHANGED <<mpc, counter, left>>
    BY <1>1 DEF mainVars
  <2> QED
    BY <1>3, <2>1, <2>3, <2>4, <2>5, <2>6, Counting DEF Balance
<1> QED
  BY <1>4, <1>5, <1>6, <1>7 DEF IndInv

-----------------------------------------------------------------------------
(* The main thread                                                         *)

\* Accept, LoopTest, JoinLock and MainEnds, and a SIGINT no thread gets.
LEMMA MainMoves ==
    ASSUME IndInv,
           \/ Accept \/ LoopTest \/ JoinLock \/ MainEnds
           \/ SigInt /\ UNCHANGED tpc
    PROVE  IndInv'
<1>1. UNCHANGED <<clientVars, up, down, threadVars, conn, args, thrid, counter, semval, left, kills>>
  BY DEF Accept, LoopTest, JoinLock, MainEnds, SigInt, semVars, threadVars
<1>2. /\ mpc' \in {"accept", "accepted", "test", "close", "join", "unlock",
                    "joining", "done", "dead"}
      /\ \/ mpc' = mpc
         \/ mpc' \in {"accept", "close", "dead"} /\ mpc # "joining"
         \/ mpc' = "accepted" /\ mpc # "joining" /\ conn # <<>>
         \/ mpc' = "unlock" /\ mpc # "joining" /\ counter > 0
         \/ mpc' = "done" /\ mpc # "joining" /\ counter = 0
         \/ mpc' = "dead"
      /\ mpc = "dead" => mpc' = "dead"
  BY DEF Accept, LoopTest, JoinLock, MainEnds, SigInt, Alive, IndInv, TypeOK
<1>3. /\ sem' \in [{0, 1} -> Nat] /\ sem'[0] \in {0, 1} /\ sem'[1] = sem[1]
  BY DEF Accept, LoopTest, JoinLock, MainEnds, SigInt, semVars, IndInv, TypeOK
<1>4. sigs' \in 0 .. MaxSigs
  <2>1. sigs \in 0 .. MaxSigs /\ MaxSigs \in Nat
    BY ThreadConstants DEF IndInv, TypeOK
  <2>2. sigs' = sigs \/ (sigs < MaxSigs /\ sigs' = sigs + 1)
    BY DEF Accept, LoopTest, JoinLock, MainEnds, SigInt
  <2> QED
    BY <2>1, <2>2
<1>5. ende' \in BOOLEAN
  <2>1. ende' = ende \/ ende' = TRUE
    BY DEF Accept, LoopTest, JoinLock, MainEnds, SigInt
  <2>2. ende \in BOOLEAN
    BY DEF IndInv, TypeOK
  <2> QED
    BY <2>1, <2>2, Zenon
<1>fits. QueueFits'
  BY <1>1, QueueFrame DEF Accept, LoopTest, JoinLock, MainEnds, SigInt, Alive
<1>6. TypeOK'
  BY <1>1, <1>2, <1>3, <1>4, <1>5, <1>fits, Zenon DEF IndInv, TypeOK, clientVars, threadVars
<1>7. FdInv'
  BY <1>1 DEF IndInv, FdInv, clientVars, threadVars
<1>8. MainInv' /\ counter \in Nat
  BY <1>1, <1>2 DEF IndInv, TypeOK, MainInv
<1>9. ConnInv'
  BY <1>1, <1>2 DEF IndInv, ConnInv, clientVars, threadVars
<1>10. Balance'
  <2>1. Created' = Created /\ Posted' = Posted
    BY <1>1 DEF Created, Posted, threadVars
  <2>2. mpc' # "dead" => mpc # "dead" /\ (mpc' = "joining" <=> mpc = "joining")
    BY <1>2
  <2> QED
    BY <1>1, <1>3, <2>1, <2>2 DEF IndInv, Balance
<1> QED
  BY <1>6, <1>7, <1>8, <1>9, <1>10 DEF IndInv

\* A SIGINT that interrupts a thread.
LEMMA InterruptCase ==
    ASSUME IndInv, SigInt, tpc' # tpc
    PROVE  IndInv'
<1>1. /\ UNCHANGED <<clientVars, up, down, closed, fd, exists, conn, args, thrid, counter, semVars, kills>>
      /\ mpc' = mpc /\ sigs < MaxSigs /\ sigs' = sigs + 1 /\ ende' = TRUE
  BY DEF SigInt
<1>2. PICK t \in Clients :
         tpc[t] \notin {"none", "ended", "quit"} /\ tpc' = [tpc EXCEPT ![t] = Interrupted(t)]
  BY DEF SigInt, Become
<1>3. /\ tpc[t] \in {"start", "name", "answer", "data", "lock", "unlock", "close"}
      /\ \/ Interrupted(t) = tpc[t]
         \/ tpc[t] \in {"name", "answer", "lock"} /\ Interrupted(t) \in {"quit", "unlock"}
  BY <1>2 DEF Interrupted, IndInv, TypeOK
<1>4. /\ tpc' \in [Clients -> {"none", "start", "name", "answer", "data", "lock",
                               "unlock", "close", "ended", "quit"}]
      /\ \A x \in Clients \ {t} : tpc'[x] = tpc[x]
      /\ tpc'[t] = Interrupted(t)
  BY <1>2, <1>3 DEF IndInv, TypeOK
<1>5. sigs' \in 0 .. MaxSigs
  <2>1. sigs \in 0 .. MaxSigs /\ MaxSigs \in Nat
    BY ThreadConstants DEF IndInv, TypeOK
  <2> QED
    BY <1>1, <2>1
<1>fits. QueueFits'
  BY <1>1, QueueFrame
<1>6. TypeOK'
  BY <1>1, <1>4, <1>5, <1>fits, Zenon DEF IndInv, TypeOK, clientVars, semVars
<1>7. tpc'[t] # "start" => fd'[t] \in Clients
  BY <1>1, <1>3, <1>4 DEF IndInv, FdInv
<1> QED
  BY <1>1, <1>3, <1>4, <1>6, <1>7, ThreadLeaves DEF clientVars, semVars

\* CloseListener.
LEMMA CloseCase ==
    ASSUME IndInv, CloseListener
    PROVE  IndInv'
<1>1. /\ UNCHANGED <<clientVars, up, down, tpc, fd, exists, args, thrid, counter, ende, semVars, sigs, kills>>
      /\ mpc = "close" /\ mpc' = "join" /\ conn' = <<>>
      /\ closed' = closed \cup {conn[i] : i \in DOMAIN conn}
  BY DEF CloseListener
<1>2. closed' \subseteq Clients
  BY <1>1 DEF IndInv, TypeOK
<1>3. conn' \in Seq(Clients) /\ Len(conn') = 0
  BY <1>1, EmptySeq
<1>fits. QueueFits'
  BY <1>1, <1>3, ThreadConstants DEF QueueFits, Pending
<1>4. TypeOK'
  BY <1>1, <1>2, <1>3, <1>fits, Zenon DEF IndInv, TypeOK, clientVars, semVars
<1>5. FdInv' /\ MainInv' /\ ConnInv'
  BY <1>1, <1>3 DEF IndInv, FdInv, MainInv, ConnInv, clientVars
<1>6. Balance'
  BY <1>1 DEF IndInv, Balance, Created, Posted, semVars
<1> QED
  BY <1>4, <1>5, <1>6 DEF IndInv

\* CreateThread: a thread more, and a join more to make.
LEMMA CreateCase ==
    ASSUME IndInv, CreateThread
    PROVE  IndInv'
<1> DEFINE c == Head(conn)
<1>1. /\ UNCHANGED <<clientVars, up, down, closed, fd, exists, ende, semVars, sigs, kills>>
      /\ mpc = "accepted" /\ mpc' = "test" /\ conn' = Tail(conn)
      /\ \/ UNCHANGED <<args, thrid, counter, tpc>>
         \/ /\ args' = c /\ thrid' = c /\ counter' = counter + 1
            /\ tpc' = [tpc EXCEPT ![c] = "start"]
  BY DEF CreateThread, Become
<1>2. conn \in Seq(Clients) /\ conn # <<>> /\ Len(conn) \in Nat
  BY <1>1 DEF IndInv, TypeOK, ConnInv
<1>3. /\ c = conn[1] /\ c \in Clients /\ 1 \in 1 .. Len(conn)
      /\ conn' \in Seq(Clients) /\ Len(conn') = Len(conn) - 1
      /\ \A i \in 1 .. Len(conn') : i + 1 \in 1 .. Len(conn) /\ conn'[i] = conn[i + 1]
  BY <1>1, <1>2, HeadTailProperties, EmptySeq
<1> HIDE DEF c
<1>4. tpc[c] = "none" /\ cpc[c] # "off"
  BY <1>3 DEF IndInv, ConnInv
<1>5. /\ tpc' \in [Clients -> {"none", "start", "name", "answer", "data", "lock",
                               "unlock", "close", "ended", "quit"}]
      /\ \A x \in Clients \ {c} : tpc'[x] = tpc[x]
      /\ \/ UNCHANGED <<args, thrid, counter, tpc>>
         \/ args' = c /\ thrid' = c /\ counter' = counter + 1 /\ tpc'[c] = "start"
  <2>1. tpc \in [Clients -> {"none", "start", "name", "answer", "data", "lock",
                             "unlock", "close", "ended", "quit"}]
    BY DEF IndInv, TypeOK
  <2> QED
    BY <1>1, <1>3, <2>1
<1>6. args' \in Clients \cup {NoFd} /\ thrid' \in Clients \cup {NoFd} /\ counter' \in Nat
  <2>1. args \in Clients \cup {NoFd} /\ thrid \in Clients \cup {NoFd} /\ counter \in Nat
    BY DEF IndInv, TypeOK
  <2>2. CASE UNCHANGED <<args, thrid, counter, tpc>>
    <3>1. args' = args /\ thrid' = thrid /\ counter' = counter
      BY <2>2
    <3> QED
      BY <2>1, <3>1, Zenon
  <2>3. CASE args' = c /\ thrid' = c /\ counter' = counter + 1 /\ tpc'[c] = "start"
    <3>1. counter' \in Nat
      BY <2>1, <2>3
    <3> QED
      BY <1>3, <2>3, <3>1, Zenon
  <2> QED
    BY <1>5, <2>2, <2>3
<1>fits. QueueFits'
  <2>1. Alive /\ Pending = Len(conn) - 1 /\ Pending <= Backlog + 1
    BY <1>1 DEF Alive, Pending, IndInv, TypeOK, QueueFits
  <2> QED
    BY <1>1, <1>2, <1>3, <2>1, ThreadConstants DEF QueueFits, Pending
<1>7. TypeOK'
  BY <1>1, <1>3, <1>5, <1>6, <1>fits, Zenon DEF IndInv, TypeOK, clientVars, semVars
<1>8. FdInv' /\ MainInv'
  BY <1>1, <1>3, <1>4, <1>5 DEF IndInv, FdInv, MainInv, clientVars
<1>9. ConnInv'
  <2>1. ASSUME NEW i \in 1 .. Len(conn')
        PROVE  tpc'[conn'[i]] = "none" /\ cpc'[conn'[i]] # "off"
    <3>1. /\ i + 1 \in 1 .. Len(conn) /\ conn'[i] = conn[i + 1] /\ i + 1 # 1
          /\ conn[i + 1] \in Clients
      BY <1>2, <1>3
    <3>2. conn[i + 1] # c /\ tpc[conn[i + 1]] = "none" /\ cpc[conn[i + 1]] # "off"
      BY <1>3, <3>1 DEF IndInv, ConnInv
    <3> QED
      BY <1>1, <1>5, <3>1, <3>2 DEF clientVars
  <2>2. ASSUME NEW i \in 1 .. Len(conn'), NEW j \in 1 .. Len(conn'), conn'[i] = conn'[j]
        PROVE  i = j
    <3>1. i + 1 \in 1 .. Len(conn) /\ j + 1 \in 1 .. Len(conn) /\ conn[i + 1] = conn[j + 1]
      BY <1>3, <2>2
    <3>2. i + 1 = j + 1
      BY <3>1 DEF IndInv, ConnInv
    <3> QED
      BY <3>2
  <2> QED
    BY <1>1, <2>1, <2>2 DEF ConnInv
<1>10. Balance'
  <2>1. CASE UNCHANGED <<args, thrid, counter, tpc>>
    BY <1>1, <2>1 DEF IndInv, Balance, Created, Posted, semVars
  <2>2. CASE counter' = counter + 1 /\ tpc'[c] = "start"
    <3>1. Created' = Created \cup {c} /\ c \notin Created
      BY <1>3, <1>4, <1>5, <2>2 DEF Created
    <3>2. Posted' = Posted
      BY <1>3, <1>4, <1>5, <2>2 DEF Posted
    <3>3. Cardinality(Created') = Cardinality(Created) + 1
      BY <3>1, Counting, FS_AddElement
    <3>4. counter \in Nat /\ left \in Nat /\ sem[1] \in Nat /\ sem' = sem /\ left' = left
      BY <1>1, ThreadConstants DEF IndInv, TypeOK, semVars
    <3>5. sem[1] + Cardinality(Created) = left + Cardinality(Posted) + counter
      BY <1>1, <3>4, Counting DEF IndInv, Balance
    <3> QED
      BY <1>1, <2>2, <3>2, <3>3, <3>4, <3>5, Counting DEF Balance
  <2> QED
    BY <1>5, <2>1, <2>2
<1> QED
  BY <1>7, <1>8, <1>9, <1>10 DEF IndInv

\* JoinUnlock takes a post; Join, for whichever thread, makes the join.
LEMMA JoinCase ==
    ASSUME IndInv, JoinUnlock \/ Join
    PROVE  IndInv'
<1>1. /\ UNCHANGED <<clientVars, up, down, threadVars, conn, args, thrid, ende, semval, left, sigs, kills>>
      /\ \/ /\ mpc = "unlock" /\ mpc' = "joining" /\ counter' = counter
            /\ sem[0] >= 1 /\ sem[1] >= 1
            /\ sem' = [sem EXCEPT ![0] = sem[0] - 1, ![1] = sem[1] - 1]
         \/ /\ mpc = "joining" /\ mpc' = "join" /\ counter' = counter - 1
            /\ sem' = sem
  BY DEF JoinUnlock, Join, semVars
<1>2. /\ counter \in Nat /\ counter # 0 /\ counter' \in Nat
      /\ sem[1] \in Nat /\ left \in Nat
  BY <1>1, ThreadConstants DEF IndInv, TypeOK, MainInv
<1>3. /\ sem' \in [{0, 1} -> Nat] /\ sem'[0] \in {0, 1}
      /\ mpc = "unlock" => sem'[1] = sem[1] - 1
  BY <1>1 DEF IndInv, TypeOK
<1>4. mpc' \in {"accept", "accepted", "test", "close", "join", "unlock",
                "joining", "done", "dead"}
  BY <1>1
<1>fits. QueueFits'
  BY <1>1, QueueFrame DEF Alive
<1>5. TypeOK'
  BY <1>1, <1>2, <1>3, <1>4, <1>fits, Zenon DEF IndInv, TypeOK, clientVars, threadVars
<1>6. FdInv' /\ MainInv' /\ ConnInv'
  BY <1>1, <1>2 DEF IndInv, FdInv, MainInv, ConnInv, clientVars, threadVars
<1>7. Balance'
  <2>1. Created' = Created /\ Posted' = Posted
    BY <1>1 DEF Created, Posted, threadVars
  <2>2. sem[1] + Cardinality(Created) + (IF mpc = "joining" THEN 1 ELSE 0)
           = left + Cardinality(Posted) + counter
    BY <1>1 DEF IndInv, Balance
  <2> QED
    BY <1>1, <1>2, <1>3, <2>1, <2>2, Counting DEF Balance
<1> QED
  BY <1>5, <1>6, <1>7 DEF IndInv

-----------------------------------------------------------------------------
(* The invariant                                                           *)

\* No step breaks the invariant.
LEMMA Inductive ==
    ASSUME IndInv, [Next]_vars
    PROVE  IndInv'
<1>1. ASSUME NEW c \in Clients,
             \/ Connect(c) \/ Confirm(c) \/ SendLine(c) \/ EndOfInput(c)
             \/ KillClient(c) \/ ClientStep(c)
      PROVE  IndInv'
  BY <1>1, ConnectCase, ClientMoves
<1>2. ASSUME NEW t \in Clients, ThreadStep(t) \/ ThreadLock(t) PROVE IndInv'
  BY <1>2, ThreadRuns, ThreadTalks, UnlockCase DEF ThreadStep
<1>3. ASSUME MainStep \/ JoinLock PROVE IndInv'
  BY <1>3, MainMoves, CloseCase, CreateCase, JoinCase DEF MainStep
<1>4. CASE SigInt
  BY <1>4, MainMoves, InterruptCase
<1>5. CASE UNCHANGED vars
  <2>1. /\ UNCHANGED <<clientVars, up, down, threadVars, ende, semVars, sigs, kills>>
        /\ UNCHANGED <<mpc, conn, args, thrid, counter>>
    BY <1>5 DEF vars, mainVars
  <2>fits. QueueFits'
    BY <2>1, QueueFrame
  <2>2. TypeOK'
    BY <2>1, <2>fits, Zenon DEF IndInv, TypeOK, clientVars, threadVars, semVars
  <2>3. FdInv' /\ ConnInv' /\ MainInv' /\ Balance'
    BY <2>1 DEF IndInv, FdInv, ConnInv, MainInv, Balance, Created, Posted, clientVars,
       threadVars, semVars
  <2> QED
    BY <2>2, <2>3 DEF IndInv
<1> QED
  BY <1>1, <1>2, <1>3, <1>4, <1>5 DEF Next

\* IndInv is an invariant.
LEMMA Invariant == Spec => []IndInv
BY InitCase, Inductive, PTL DEF Spec

\* Every variable keeps its type; in particular the lock is never raised above
\* one, nor a semaphore lowered below zero.
THEOREM TypeCorrect == Spec => []TypeOK
<1>1. IndInv => TypeOK
  BY DEF IndInv
<1> QED
  BY <1>1, Invariant, PTL

\* The process ends only after every thread it has created has posted, if no
\* posts were left from an earlier run: as many posts as joins are as many as
\* threads.
THEOREM MainIsLast == Spec => []OutlivesThreads
<1>1. ASSUME IndInv PROVE OutlivesThreads
  <2> SUFFICES ASSUME mpc = "done", left = 0
               PROVE  \A t \in Clients : tpc[t] \in {"none", "close", "ended"}
    BY DEF OutlivesThreads
  <2>1. counter = 0 /\ sem[1] \in Nat
    BY <1>1 DEF IndInv, MainInv, TypeOK
  <2>2. sem[1] + Cardinality(Created) = Cardinality(Posted)
    BY <1>1, <2>1, Counting DEF IndInv, Balance
  <2>3. Posted \subseteq Created
    BY DEF Posted, Created
  <2>4. Posted = Created
    BY <2>1, <2>2, <2>3, Counting, FS_Subset
  <2> QED
    BY <2>4 DEF Posted, Created
<1> QED
  BY <1>1, Invariant, PTL
=============================================================================
