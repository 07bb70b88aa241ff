--------------------------- MODULE MsgQueueProofs ---------------------------
(***************************************************************************)
(* Proofs about MsgQueue for any number of senders, lines, restarts and    *)
(* kills: the queue hands on the stream of a sender whole and in order,    *)
(* and the first receiver counts the senders that are active.              *)
(***************************************************************************)
EXTENDS MsgQueue, SequenceTheorems, FiniteSetTheorems, TLAPS

\* The types of TypeOK, without the files (FilesInv).  The key has named as many
\* queues as receivers have come to remove one.
TypeInv ==
    /\ queue \in Seq(Message) /\ Len(queue) <= Capacity
    /\ cur \in 1 .. runs + 1
    /\ rpc \in {"msgrcv", "msgctl"} => cur <= runs
    /\ spc \in [Senders -> {"off", "fgets", "msgsnd", "ended", "failed", "dead"}]
    /\ qid \in [Senders -> 0 .. cur]
    /\ flag \in [Senders -> {0, 1, 2}]
    /\ sent \in [Senders -> Nat]
    /\ rpc \in {"off", "msgrcv", "msgctl", "exit", "ended", "dead"}
    /\ anzsender \in Int
    /\ out \in Seq(Message) /\ Len(out) <= MaxFiles
    /\ taken \in [Senders -> Seq(Message)]
    /\ runs \in 0 .. MaxRuns /\ kills \in 0 .. MaxKills

\* The flag a sender is about to use: 2 as long as it has sent nothing, 0 after
\* Ctrl-D only.
FlagInv ==
    \A s \in Senders :
        /\ spc[s] = "off" => sent[s] = 0 /\ flag[s] = 2 /\ qid[s] = NoQueue
        /\ spc[s] = "fgets" => flag[s] # 0
        /\ flag[s] # 0 => (flag[s] = 2 <=> sent[s] = 0)

\* The flag of a message tells where it stands in the stream of its sender.
FlagOK(m) ==
    /\ m.n <= sent[m.spid]
    /\ m.flag = 0 <=> m.n = sent[m.spid] /\ spc[m.spid] = "ended"
    /\ m.flag = 2 => m.n = 1
    /\ m.flag = 1 => m.n # 1

\* What was taken of a sender is the beginning of its stream.
TakenInv ==
    \A s \in Senders : \A i \in 1 .. Len(taken[s]) :
        /\ taken[s][i].spid = s /\ taken[s][i].n = i
        /\ FlagOK(taken[s][i])

\* What waits in the queue is the rest of it.
QueueInv ==
    /\ \A i \in 1 .. Len(queue) :
         /\ FlagOK(queue[i])
         /\ qid[queue[i].spid] = cur
         /\ queue[i].n > Len(taken[queue[i].spid])
    /\ \A i, j \in 1 .. Len(queue) :
         queue[i].spid = queue[j].spid /\ i < j => queue[i].n < queue[j].n
    /\ \A s \in Senders : qid[s] = cur =>
         \A n \in Len(taken[s]) + 1 .. sent[s] :
            \E i \in 1 .. Len(queue) : queue[i].spid = s /\ queue[i].n = n

\* Nothing is taken before the first receiver.
RunInv ==
    /\ runs = 0 => rpc = "off" /\ \A s \in Senders : taken[s] = <<>>
    /\ Receiving => runs # 0

IndInv == TypeInv /\ FlagInv /\ TakenInv /\ QueueInv /\ RunInv /\ CounterIsActive

-----------------------------------------------------------------------------
(* Sequences                                                               *)

\* What is left of a sequence without its head.
LEMMA TailLemma ==
    ASSUME NEW S, NEW q \in Seq(S), q # <<>>
    PROVE  /\ Head(q) \in S /\ Head(q) = q[1] /\ 1 \in 1 .. Len(q)
           /\ Tail(q) \in Seq(S) /\ Len(Tail(q)) = Len(q) - 1
           /\ \A i \in 1 .. Len(Tail(q)) : i + 1 \in 1 .. Len(q) /\ Tail(q)[i] = q[i + 1]
BY HeadTailProperties, EmptySeq

\* What a sequence is with one more element.
LEMMA AppendLemma ==
    ASSUME NEW S, NEW q \in Seq(S), NEW e \in S
    PROVE  /\ Append(q, e) \in Seq(S) /\ Len(Append(q, e)) = Len(q) + 1
           /\ Append(q, e) # <<>>
           /\ Append(q, e)[Len(q) + 1] = e
           /\ \A i \in 1 .. Len(q) : Append(q, e)[i] = q[i]
BY AppendProperties

-----------------------------------------------------------------------------
(* Induction along a sequence.  The theorem of the library takes an        *)
(* operator as a parameter; here it is about a set, and rests on the       *)
(* well-foundedness of the finite sets.                                    *)

\* A set of numbers that is not empty has a least one: the finite sets of numbers
\* are well-founded.
LEMMA LeastNat ==
  ASSUME NEW S, S \subseteq Nat, S # {}
  PROVE \E m \in S : \A k \in S : m <= k
<1> DEFINE T == {0 .. m - 1 : m \in S}
<1>1. T \subseteq FiniteSubsetsOf(Nat) /\ T # {}
  <2>1. \A m \in S : IsFiniteSet(0 .. m - 1)  /\ 0 .. m - 1 \in SUBSET Nat
    BY FS_Interval
  <2> QED BY <2>1 DEF FiniteSubsetsOf
<1> HIDE DEF T
<1>2. PICK x \in T : \A y \in T : ~ (<<y, x>> \in StrictSubsetOrdering(Nat))
  BY <1>1, FS_StrictSubsetOrderingWellFounded, WFMin
<1>3. PICK m \in S : x = 0 .. m - 1
  BY <1>2 DEF T
<1>4. ASSUME NEW k \in S PROVE m <= k
  <2>1. SUFFICES ASSUME k < m PROVE FALSE
    BY <1>3
  <2>2. k \in Nat /\ m \in Nat /\ m - 1 \in 0 .. m - 1 /\ ~ (m - 1 \in 0 .. k - 1)
    BY <2>1
  <2>3. 0 .. k - 1 \subseteq x /\ 0 .. k - 1 # x /\ 0 .. k - 1 \in SUBSET Nat /\ x \in SUBSET Nat
    BY <2>1, <2>2, <1>3
  <2>4. <<0 .. k - 1, x>> \in StrictSubsetOrdering(Nat)
    BY <2>3 DEF StrictSubsetOrdering
  <2>5. 0 .. k - 1 \in T
    BY <1>4 DEF T
  <2> QED BY <2>4, <2>5, <1>2
<1> QED BY <1>3, <1>4

\* Induction over a set of numbers.
LEMMA Upwards ==
  ASSUME NEW S, 0 \in S, \A k \in Nat : k \in S => k + 1 \in S
  PROVE  Nat \subseteq S
<1> DEFINE Bad == Nat \ S
<1>1. SUFFICES ASSUME Bad # {} PROVE FALSE
  OBVIOUS
<1>2. PICK m \in Bad : \A k \in Bad : m <= k
  BY <1>1, LeastNat
<1>3. m \in Nat /\ m # 0 /\ m - 1 \in Nat /\ m - 1 \in S
  BY <1>2
<1> QED
  BY <1>2, <1>3

\* The function that Chosen computes along a sequence.
Along(g, s, S, m) ==
  [k \in 0 .. m |-> IF k = 0 THEN <<>> ELSE IF s[k] \in S THEN Append(g[k - 1], s[k]) ELSE g[k - 1]]

\* There is such a function for any length.
LEMMA AlongExists ==
  ASSUME NEW s, NEW S
  PROVE  \A m \in Nat : \E g : g = Along(g, s, S, m)
<1> DEFINE Good == {m \in Nat : \E g : g = Along(g, s, S, m)}
<1>1. 0 \in Good
  <2> DEFINE g == [k \in 0 .. 0 |-> <<>>]
  <2>1. g = Along(g, s, S, 0)
    BY DEF Along
  <2> QED
    BY <2>1
<1>2. ASSUME NEW m \in Nat, m \in Good PROVE m + 1 \in Good
  <2>1. PICK g : g = Along(g, s, S, m)
    BY <1>2
  <2> DEFINE a == IF s[m + 1] \in S THEN Append(g[m], s[m + 1]) ELSE g[m]
             h == [k \in 0 .. m + 1 |-> IF k = m + 1 THEN a ELSE g[k]]
  <2>2. \A k \in 0 .. m : g[k] = IF k = 0 THEN <<>> ELSE IF s[k] \in S THEN Append(g[k - 1], s[k]) ELSE g[k - 1]
    BY <2>1 DEF Along
  <2>3. ASSUME NEW k \in 0 .. m + 1
        PROVE  h[k] = IF k = 0 THEN <<>> ELSE IF s[k] \in S THEN Append(h[k - 1], s[k]) ELSE h[k - 1]
    <3>1. CASE k = m + 1
      <4>1. h[k] = a /\ h[k - 1] = g[m] /\ k # 0
        BY <3>1
      <4> QED
        BY <3>1, <4>1
    <3>2. CASE k # m + 1
      <4>1. k \in 0 .. m /\ h[k] = g[k] /\ (k # 0 => h[k - 1] = g[k - 1])
        BY <3>2
      <4> HIDE DEF h, a
      <4> QED
        BY <2>2, <4>1
    <3> QED
      BY <3>1, <3>2
  <2>4. DOMAIN h = 0 .. m + 1 /\ h = [k \in 0 .. m + 1 |-> h[k]]
    OBVIOUS
  <2> HIDE DEF h
  <2>5. h = Along(h, s, S, m + 1)
    BY <2>3, <2>4 DEF Along
  <2> QED
    BY <2>5
<1> HIDE DEF Good
<1>3. Nat \subseteq Good
  BY <1>1, <1>2, Upwards
<1> QED
  BY <1>3 DEF Good

\* Chosen computes the last value of such a function.
LEMMA ChosenAlong ==
  ASSUME NEW s, NEW S, Len(s) \in Nat
  PROVE  \E g : /\ Chosen(s, S) = g[Len(s)]
                /\ g[0] = <<>>
                /\ \A k \in 1 .. Len(s) : g[k] = IF s[k] \in S THEN Append(g[k - 1], s[k]) ELSE g[k - 1]
<1> DEFINE g == CHOOSE g : g = Along(g, s, S, Len(s))
<1>1. g = Along(g, s, S, Len(s))
  BY AlongExists
<1>2. Chosen(s, S) = g[Len(s)]
  BY DEF Chosen, Along
<1> HIDE DEF g
<1>3. g[0] = <<>> /\ \A k \in 1 .. Len(s) : g[k] = IF s[k] \in S THEN Append(g[k - 1], s[k]) ELSE g[k - 1]
  <2>1. 0 \in 0 .. Len(s) /\ \A k \in 1 .. Len(s) : k \in 0 .. Len(s) /\ k # 0
    OBVIOUS
  <2>2. \A k \in 0 .. Len(s) : g[k] = IF k = 0 THEN <<>> ELSE IF s[k] \in S THEN Append(g[k - 1], s[k]) ELSE g[k - 1]
    BY <1>1 DEF Along
  <2> QED
    BY <2>1, <2>2
<1> QED
  BY <1>2, <1>3

\* What is chosen of a sequence is a sequence of the same kind.
LEMMA ChosenTypes ==
  ASSUME NEW T, NEW s \in Seq(T), NEW S
  PROVE  Chosen(s, S) \in Seq(T)
<1>0. Len(s) \in Nat /\ DOMAIN s = 1 .. Len(s)
  OBVIOUS
<1>1. PICK g : /\ Chosen(s, S) = g[Len(s)]
               /\ g[0] = <<>>
               /\ \A k \in 1 .. Len(s) : g[k] = IF s[k] \in S THEN Append(g[k - 1], s[k]) ELSE g[k - 1]
  BY <1>0, ChosenAlong
<1> DEFINE Good == {m \in Nat : m <= Len(s) => g[m] \in Seq(T)}
<1>2. 0 \in Good
  BY <1>1, EmptySeq
<1>3. ASSUME NEW m \in Nat, m \in Good PROVE m + 1 \in Good
  <2>1. SUFFICES ASSUME m + 1 <= Len(s) PROVE g[m + 1] \in Seq(T)
    OBVIOUS
  <2>2. g[m] \in Seq(T)
    BY <1>0, <1>3, <2>1
  <2>3. m + 1 \in 1 .. Len(s) /\ (m + 1) - 1 = m /\ s[m + 1] \in T
    BY <1>0, <2>1
  <2>4. g[m + 1] = IF s[m + 1] \in S THEN Append(g[m], s[m + 1]) ELSE g[m]
    BY <1>1, <2>3
  <2> QED
    BY <2>2, <2>3, <2>4, AppendProperties
<1>4. Len(s) \in Good
  <2> HIDE DEF Good
  <2> QED
    BY <1>0, <1>2, <1>3, Upwards
<1> QED
  BY <1>0, <1>1, <1>4

\* The lines that Exit writes out are numbers of messages.
LEMMA LinesTypes ==
  ASSUME NEW q \in Seq(Message), NEW s
  PROVE  LinesOf(s, Reverse(q)) \in Seq(Nat)
<1> DEFINE S == {m \in Message : m.spid = s /\ m.flag # 0}
           mine == Chosen(Reverse(q), S)
<1>1. Reverse(q) \in Seq(Message)
  BY DEF Reverse
<1> HIDE DEF S
<1>2. mine \in Seq(Message)
  BY <1>1, ChosenTypes
<1>3. LinesOf(s, Reverse(q)) = [i \in 1 .. Len(mine) |-> mine[i].n]
  BY DEF LinesOf, S
<1> HIDE DEF mine
<1>4. Len(mine) \in Nat /\ \A i \in 1 .. Len(mine) : mine[i] \in Message
  BY <1>2
<1>5. \A m \in Message : m.n \in Nat
  BY DEF Message
<1>6. \A i \in 1 .. Len(mine) : mine[i].n \in Nat
  BY <1>4, <1>5
<1> QED
  BY <1>3, <1>4, <1>6

-----------------------------------------------------------------------------
(* The senders                                                             *)

\* IndInv holds at the beginning.
LEMMA InitCase == Init => IndInv
<1> SUFFICES ASSUME Init PROVE IndInv
  OBVIOUS
<1>1. <<>> \in Seq(Message) /\ Len(<<>>) = 0
  BY EmptySeq
<1>2. TypeInv
  <2>1. queue \in Seq(Message) /\ out \in Seq(Message) /\ taken \in [Senders -> Seq(Message)]
        /\ spc \in [Senders -> {"off", "fgets", "msgsnd", "ended", "failed", "dead"}]
    BY <1>1, Zenon DEF Init
  <2> QED
    BY <1>1, <2>1, QueueConstants DEF Init, TypeInv, NoQueue
<1>3. FlagInv /\ TakenInv /\ QueueInv /\ RunInv
  BY <1>1 DEF Init, FlagInv, TakenInv, QueueInv, RunInv, NoQueue, Receiving
<1>4. CounterIsActive
  BY DEF Init, CounterIsActive
<1> QED
  BY <1>2, <1>3, <1>4 DEF IndInv

\* FlagOK looks only at how much its sender has sent and whether it has ended.
LEMMA FlagKept ==
    ASSUME IndInv, NEW m \in Message, FlagOK(m),
           sent'[m.spid] = sent[m.spid],
           spc'[m.spid] = "ended" <=> spc[m.spid] = "ended"
    PROVE  FlagOK(m)'
BY DEF FlagOK

\* A step that changes neither the queue nor what was taken, and by which no
\* sender ends.
LEMMA StreamsKept ==
    ASSUME IndInv, UNCHANGED <<queue, cur, qid, sent, taken>>,
           \A s \in Senders : spc'[s] = "ended" <=> spc[s] = "ended"
    PROVE  TakenInv' /\ QueueInv'
<1>1. ASSUME NEW s \in Senders, NEW i \in 1 .. Len(taken[s])
      PROVE  FlagOK(taken[s][i])'
  <2>1. PICK m \in Message : m = taken[s][i] /\ FlagOK(m)
    BY DEF IndInv, TypeInv, TakenInv
  <2>2. m.spid \in Senders
    BY DEF Message
  <2>3. FlagOK(m)'
    BY <2>1, <2>2, FlagKept
  <2> QED
    BY <2>1, <2>3 DEF FlagOK
<1>2. ASSUME NEW i \in 1 .. Len(queue) PROVE FlagOK(queue[i])'
  <2>1. PICK m \in Message : m = queue[i] /\ FlagOK(m)
    BY DEF IndInv, TypeInv, QueueInv
  <2>2. m.spid \in Senders
    BY DEF Message
  <2>3. FlagOK(m)'
    BY <2>1, <2>2, FlagKept
  <2> QED
    BY <2>1, <2>3 DEF FlagOK
<1>3. TakenInv'
  BY <1>1 DEF IndInv, TakenInv
<1>4. QueueInv'
  BY <1>2 DEF IndInv, QueueInv
<1> QED
  BY <1>3, <1>4

\* What the receiver knows of the senders is what it has taken.
LEMMA CounterKept ==
    ASSUME IndInv, UNCHANGED <<taken, anzsender, runs>>, Receiving' => Receiving
    PROVE  CounterIsActive'
<1>1. Active' = Active /\ Silent' = Silent
  BY DEF Active, Silent, Flags
<1> QED
  BY <1>1 DEF IndInv, CounterIsActive

\* SendStart.
LEMMA SendStartCase ==
    ASSUME IndInv, NEW s \in Senders, SendStart(s)
    PROVE  IndInv'
<1>1. /\ qid' \in [Senders -> 0 .. cur] /\ qid'[s] = cur
      /\ \A x \in Senders \ {s} : qid'[x] = qid[x]
      /\ spc' \in [Senders -> {"off", "fgets", "msgsnd", "ended", "failed", "dead"}]
      /\ spc[s] = "off" /\ spc'[s] = "fgets" /\ \A x \in Senders \ {s} : spc'[x] = spc[x]
      /\ UNCHANGED <<queue, cur, flag, sent, rpc, anzsender, out, file, taken, runs, kills>>
  BY DEF SendStart, Goto, IndInv, TypeInv, recvVars, bounds
<1>2. TypeInv'
  BY <1>1, Zenon DEF IndInv, TypeInv
<1>3. FlagInv'
  BY <1>1 DEF IndInv, FlagInv
<1>4. sent[s] = 0 /\ qid[s] # cur
  BY <1>1 DEF IndInv, FlagInv, TypeInv, NoQueue
<1>5. \A i \in 1 .. Len(queue) : queue[i].spid \in Senders /\ queue[i].spid # s
  <2> TAKE i \in 1 .. Len(queue)
  <2>1. queue[i] \in Message /\ qid[queue[i].spid] = cur
    BY DEF IndInv, QueueInv, TypeInv
  <2> QED
    BY <1>4, <2>1 DEF Message
<1>6. ASSUME NEW m \in Message, FlagOK(m) PROVE FlagOK(m)'
  BY <1>1, <1>6, FlagKept DEF Message
<1>7. TakenInv'
  <2>1. ASSUME NEW x \in Senders, NEW i \in 1 .. Len(taken[x]) PROVE FlagOK(taken[x][i])'
    <3>1. PICK m \in Message : m = taken[x][i] /\ FlagOK(m)
      BY DEF IndInv, TypeInv, TakenInv
    <3> QED
      BY <1>1, <1>6, <3>1 DEF FlagOK
  <2> QED
    BY <1>1, <2>1 DEF IndInv, TakenInv
<1>8. QueueInv'
  <2>1. ASSUME NEW i \in 1 .. Len(queue) PROVE FlagOK(queue[i])'
    <3>1. PICK m \in Message : m = queue[i] /\ FlagOK(m)
      BY DEF IndInv, TypeInv, QueueInv
    <3> QED
      BY <1>1, <1>6, <3>1 DEF FlagOK
  <2>2. Len(taken[s]) \in Nat
    BY DEF IndInv, TypeInv
  <2> QED
    BY <1>1, <1>4, <1>5, <2>1, <2>2 DEF IndInv, QueueInv
<1>9. RunInv' /\ CounterIsActive'
  BY <1>1, CounterKept DEF IndInv, RunInv, Receiving
<1> QED
  BY <1>2, <1>3, <1>7, <1>8, <1>9 DEF IndInv

\* SendInput, SendFails and KillSender.
LEMMA SenderMoves ==
    ASSUME IndInv, NEW s \in Senders, SendInput(s) \/ SendFails(s) \/ KillSender(s)
    PROVE  IndInv'
<1>1. /\ spc' \in [Senders -> {"off", "fgets", "msgsnd", "ended", "failed", "dead"}]
      /\ spc[s] \in {"fgets", "msgsnd"} /\ spc'[s] \in {"msgsnd", "failed", "dead"}
      /\ \A x \in Senders \ {s} : spc'[x] = spc[x]
      /\ UNCHANGED <<queue, cur, qid, sent, rpc, anzsender, out, file, taken, runs>>
  BY DEF SendInput, SendFails, KillSender, Sending, Goto, IndInv, TypeInv, recvVars, bounds
<1>2. flag' = flag \/ flag' = [flag EXCEPT ![s] = 0]
  BY DEF SendInput, SendFails, KillSender
<1>3. kills' \in 0 .. MaxKills
  BY QueueConstants DEF SendInput, SendFails, KillSender, IndInv, TypeInv, bounds
<1>4. flag' \in [Senders -> {0, 1, 2}]
  BY <1>2 DEF IndInv, TypeInv
<1>5. TypeInv'
  BY <1>1, <1>3, <1>4, Zenon DEF IndInv, TypeInv
<1>6. FlagInv'
  BY <1>1, <1>2 DEF IndInv, TypeInv, FlagInv
<1>7. TakenInv' /\ QueueInv'
  BY <1>1, StreamsKept
<1>8. RunInv' /\ CounterIsActive'
  BY <1>1, CounterKept DEF IndInv, RunInv, Receiving
<1> QED
  BY <1>5, <1>6, <1>7, <1>8 DEF IndInv

\* Send: the message is the next of its sender, and its end if it has flag 0.
LEMMA SendCase ==
    ASSUME IndInv, NEW s \in Senders, Send(s)
    PROVE  IndInv'
<1> DEFINE e == [spid |-> s, flag |-> flag[s], n |-> sent[s] + 1]
<1>1. e \in Message /\ e.spid = s /\ e.flag = flag[s] /\ e.n = sent[s] + 1
  BY DEF IndInv, TypeInv, Message
<1>2. /\ spc[s] = "msgsnd" /\ qid[s] = cur /\ Len(queue) < Capacity
      /\ queue' = Append(queue, e)
      /\ UNCHANGED <<cur, qid, rpc, anzsender, out, file, taken, runs, kills>>
  BY DEF Send, recvVars, bounds
<1>3. /\ sent' \in [Senders -> Nat] /\ sent'[s] = sent[s] + 1
      /\ \A x \in Senders \ {s} : sent'[x] = sent[x]
  BY DEF Send, IndInv, TypeInv
<1>4. /\ spc' \in [Senders -> {"off", "fgets", "msgsnd", "ended", "failed", "dead"}]
      /\ flag' \in [Senders -> {0, 1, 2}]
      /\ \A x \in Senders \ {s} : spc'[x] = spc[x] /\ flag'[x] = flag[x]
      /\ \/ flag[s] = 0 /\ spc'[s] = "ended" /\ flag'[s] = 0
         \/ flag[s] # 0 /\ spc'[s] = "fgets" /\ flag'[s] = 1
  BY DEF Send, Goto, IndInv, TypeInv
<1> HIDE DEF e
<1>5. /\ queue \in Seq(Message) /\ sent[s] \in Nat /\ flag[s] \in {0, 1, 2}
      /\ taken[s] \in Seq(Message)
  BY DEF IndInv, TypeInv
<1>6. /\ queue' \in Seq(Message) /\ Len(queue') = Len(queue) + 1
      /\ queue'[Len(queue) + 1] = e
      /\ \A i \in 1 .. Len(queue) : queue'[i] = queue[i]
  BY <1>1, <1>2, <1>5, AppendLemma
<1>7. TypeInv'
  <2>1. Len(queue') <= Capacity
    BY <1>2, <1>5, <1>6, QueueConstants
  <2> QED
    BY <1>2, <1>3, <1>4, <1>6, <2>1, Zenon DEF IndInv, TypeInv
<1>8. FlagInv'
  <2>1. /\ spc'[s] # "off" /\ spc'[s] = "fgets" => flag'[s] # 0
        /\ flag'[s] # 0 => flag'[s] # 2 /\ sent'[s] # 0
    BY <1>3, <1>4, <1>5
  <2> QED
    BY <1>2, <1>3, <1>4, <2>1 DEF IndInv, FlagInv
<1>9. ASSUME NEW m \in Message, FlagOK(m) PROVE FlagOK(m)'
  <2>1. m.spid \in Senders
    BY DEF Message
  <2>2. CASE m.spid # s
    BY <1>3, <1>4, <1>9, <2>1, <2>2, FlagKept
  <2>3. CASE m.spid = s
    <3>1. m.n <= sent[s] /\ m.flag # 0
      BY <1>2, <1>9, <2>3 DEF FlagOK
    <3>2. m.n \in Nat /\ m.n < sent'[s]
      BY <1>3, <1>5, <3>1 DEF Message
    <3> QED
      BY <1>9, <2>3, <3>1, <3>2, <1>3, <1>5 DEF FlagOK
  <2> QED
    BY <2>2, <2>3
<1>10. ASSUME NEW m \in Message, m.spid = s, m.flag = flag[s], m.n = sent[s] + 1
       PROVE  FlagOK(m)'
  <2>1. flag[s] = 2 => sent[s] = 0
    BY DEF IndInv, FlagInv
  <2>2. flag[s] = 1 => sent[s] # 0
    BY DEF IndInv, FlagInv
  <2> QED
    BY <1>3, <1>4, <1>5, <1>10, <2>1, <2>2 DEF FlagOK
<1>11. TakenInv'
  <2>1. ASSUME NEW x \in Senders, NEW i \in 1 .. Len(taken[x]) PROVE FlagOK(taken[x][i])'
    <3>1. PICK m \in Message : m = taken[x][i] /\ FlagOK(m)
      BY DEF IndInv, TypeInv, TakenInv
    <3>2. FlagOK(m)' /\ m = taken'[x][i]
      BY <1>2, <1>9, <3>1
    <3> QED
      BY <3>2 DEF FlagOK
  <2> QED
    BY <1>2, <2>1 DEF IndInv, TakenInv
<1>12. ASSUME NEW i \in 1 .. Len(queue')
       PROVE  /\ FlagOK(queue[i])'
              /\ qid[queue'[i].spid] = cur
              /\ queue'[i].n > Len(taken[queue'[i].spid])
  <2>1. CASE i = Len(queue) + 1
    <3>1. PICK m \in Message : m = queue'[i] /\ m = e
      BY <1>1, <1>6, <2>1
    <3>2. Len(taken[s]) <= sent[s]
      <4>1. ASSUME Len(taken[s]) > 0 PROVE Len(taken[s]) <= sent[s]
        <5>1. Len(taken[s]) \in 1 .. Len(taken[s])
          BY <1>5, <4>1
        <5> QED
          BY <5>1 DEF IndInv, TakenInv, FlagOK
      <4> QED
        BY <1>5, <4>1
    <3>3. FlagOK(m)'
      BY <1>1, <1>10, <3>1
    <3>4. FlagOK(queue[i])'
      BY <3>1, <3>3 DEF FlagOK
    <3>5. m.spid = s /\ m.n > Len(taken[s])
      BY <1>1, <1>5, <3>1, <3>2
    <3> QED
      BY <1>2, <3>1, <3>4, <3>5
  <2>2. CASE i \in 1 .. Len(queue)
    <3>1. PICK m \in Message : m = queue[i] /\ FlagOK(m)
      BY <2>2 DEF IndInv, TypeInv, QueueInv
    <3>2. FlagOK(m)' /\ m = queue'[i]
      BY <1>6, <1>9, <2>2, <3>1
    <3>3. qid[m.spid] = cur /\ m.n > Len(taken[m.spid])
      BY <2>2, <3>1 DEF IndInv, QueueInv
    <3> QED
      BY <3>2, <3>3 DEF FlagOK
  <2> QED
    BY <1>5, <1>6, <2>1, <2>2
<1>13. \A i, j \in 1 .. Len(queue') :
         queue'[i].spid = queue'[j].spid /\ i < j => queue'[i].n < queue'[j].n
  <2>1. ASSUME NEW i \in 1 .. Len(queue), queue[i].spid = s PROVE queue[i].n < e.n
    <3>1. queue[i] \in Message /\ queue[i].n <= sent[s]
      BY <1>5, <2>1 DEF IndInv, QueueInv, FlagOK
    <3> QED
      BY <1>1, <1>5, <3>1 DEF Message
  <2> SUFFICES ASSUME NEW i \in 1 .. Len(queue'), NEW j \in 1 .. Len(queue'),
                      queue'[i].spid = queue'[j].spid, i < j
               PROVE  queue'[i].n < queue'[j].n
    OBVIOUS
  <2>2. i \in 1 .. Len(queue) /\ queue'[i] = queue[i]
    BY <1>5, <1>6
  <2>3. CASE j = Len(queue) + 1
    BY <1>1, <1>6, <2>1, <2>2, <2>3
  <2>4. CASE j \in 1 .. Len(queue)
    BY <1>6, <2>2, <2>4 DEF IndInv, QueueInv
  <2>5. Len(queue) \in Nat /\ j \in 1 .. Len(queue) + 1
    BY <1>5, <1>6
  <2>6. j = Len(queue) + 1 \/ j \in 1 .. Len(queue)
    BY <2>5
  <2> QED
    BY <2>3, <2>4, <2>6
<1>14. ASSUME NEW x \in Senders, qid[x] = cur, NEW n \in Len(taken[x]) + 1 .. sent'[x]
       PROVE  \E i \in 1 .. Len(queue') : queue'[i].spid = x /\ queue'[i].n = n
  <2>1. CASE x = s /\ n = sent[s] + 1
    BY <1>1, <1>5, <1>6, <2>1
  <2>2. CASE ~ (x = s /\ n = sent[s] + 1)
    <3>1. n \in Len(taken[x]) + 1 .. sent[x]
      BY <1>3, <1>5, <1>14, <2>2
    <3>2. PICK i \in 1 .. Len(queue) : queue[i].spid = x /\ queue[i].n = n
      BY <1>14, <3>1 DEF IndInv, QueueInv
    <3> QED
      BY <1>5, <1>6, <3>2
  <2> QED
    BY <2>1, <2>2
<1>15. QueueInv'
  BY <1>2, <1>12, <1>13, <1>14 DEF QueueInv
<1>16. RunInv' /\ CounterIsActive'
  BY <1>2, CounterKept DEF IndInv, RunInv, Receiving
<1> QED
  BY <1>7, <1>8, <1>11, <1>15, <1>16 DEF IndInv

-----------------------------------------------------------------------------
(* The receiver                                                            *)

\* RecvStart: the first receiver knows of nobody.
LEMMA RecvStartCase ==
    ASSUME IndInv, RecvStart
    PROVE  IndInv'
<1>1. /\ rpc' = "msgrcv" /\ anzsender' = 0 /\ out' = <<>> /\ runs' = runs + 1
      /\ runs < MaxRuns
      /\ UNCHANGED <<queue, cur, spc, qid, flag, sent, file, taken, kills>>
  BY DEF RecvStart, sendVars
<1>2. TypeInv'
  <2>1. <<>> \in Seq(Message) /\ Len(<<>>) = 0 /\ MaxFiles \in Nat
    BY EmptySeq, QueueConstants
  <2>2. runs' \in 0 .. MaxRuns /\ cur' \in 1 .. runs' + 1 /\ cur' <= runs'
    BY <1>1, QueueConstants DEF IndInv, TypeInv
  <2>3. anzsender' \in Int /\ out' \in Seq(Message) /\ Len(out') <= MaxFiles
    BY <1>1, <2>1
  <2> QED
    BY <1>1, <2>2, <2>3, Zenon DEF IndInv, TypeInv
<1>3. FlagInv'
  BY <1>1 DEF IndInv, FlagInv
<1>4. TakenInv' /\ QueueInv'
  BY <1>1, StreamsKept
<1>5. RunInv'
  BY <1>1 DEF IndInv, TypeInv, RunInv
<1>6. CounterIsActive'
  <2>1. CASE runs = 0
    <3>1. \A s \in Senders : taken'[s] = <<>>
      BY <1>1, <2>1 DEF IndInv, RunInv
    <3>2. Active' = {} /\ Silent' = {}
      BY <3>1 DEF Active, Silent, Flags
    <3>3. Cardinality({}) = 0
      BY FS_EmptySet
    <3>4. Cardinality(Active') = 0 /\ Cardinality(Silent') = 0
      BY <3>2, <3>3, Zenon
    <3> QED
      BY <1>1, <3>4 DEF CounterIsActive
  <2>2. CASE runs # 0
    BY <1>1, <2>2 DEF CounterIsActive, IndInv, TypeInv
  <2> QED
    BY <2>1, <2>2
<1> QED
  BY <1>2, <1>3, <1>4, <1>5, <1>6 DEF IndInv

\* Exit and KillReceiver.
LEMMA ReceiverEndsCase ==
    ASSUME IndInv, Exit \/ KillReceiver
    PROVE  IndInv'
<1>1. /\ rpc' \in {"ended", "dead"} /\ out' = <<>>
      /\ Receiving /\ ~ Receiving'
      /\ UNCHANGED <<queue, cur, spc, qid, flag, sent, anzsender, taken, runs>>
  BY DEF Exit, KillReceiver, Receiving, sendVars, bounds
<1>2. kills' \in 0 .. MaxKills
  BY QueueConstants DEF Exit, KillReceiver, IndInv, TypeInv, bounds
<1>3. TypeInv'
  <2>1. <<>> \in Seq(Message) /\ Len(<<>>) = 0 /\ MaxFiles \in Nat
    BY EmptySeq, QueueConstants
  <2>2. out' \in Seq(Message) /\ Len(out') <= MaxFiles
    BY <1>1, <2>1
  <2>3. /\ rpc' \in {"msgrcv", "msgctl"} => cur' <= runs'
        /\ rpc' \in {"off", "msgrcv", "msgctl", "exit", "ended", "dead"}
    BY <1>1
  <2> QED
    BY <1>1, <1>2, <2>2, <2>3, Zenon DEF IndInv, TypeInv
<1>4. FlagInv'
  BY <1>1 DEF IndInv, FlagInv
<1>5. TakenInv' /\ QueueInv'
  BY <1>1, StreamsKept
<1>6. RunInv' /\ CounterIsActive'
  BY <1>1 DEF IndInv, RunInv, CounterIsActive
<1> QED
  BY <1>2, <1>3, <1>4, <1>5, <1>6 DEF IndInv

\* RemoveQueue: no sender uses the new queue yet.
LEMMA RemoveQueueCase ==
    ASSUME IndInv, RemoveQueue
    PROVE  IndInv'
<1>1. /\ rpc = "msgctl" /\ rpc' = "exit" /\ cur' = cur + 1 /\ queue' = <<>>
      /\ UNCHANGED <<spc, qid, flag, sent, anzsender, out, file, taken, runs, kills>>
  BY DEF RemoveQueue, sendVars, bounds
<1>2. cur \in Nat /\ cur <= runs /\ runs \in Nat /\ qid \in [Senders -> 0 .. cur]
  BY <1>1, QueueConstants DEF IndInv, TypeInv
<1>3. TypeInv'
  <2>1. queue' \in Seq(Message) /\ Len(queue') <= Capacity
    BY <1>1, EmptySeq, QueueConstants
  <2>2. cur' \in 1 .. runs' + 1 /\ qid' \in [Senders -> 0 .. cur']
    BY <1>1, <1>2
  <2>3. /\ rpc' \in {"msgrcv", "msgctl"} => cur' <= runs'
        /\ rpc' \in {"off", "msgrcv", "msgctl", "exit", "ended", "dead"}
    BY <1>1
  <2> QED
    BY <1>1, <2>1, <2>2, <2>3, Zenon DEF IndInv, TypeInv
<1>4. FlagInv' /\ RunInv'
  BY <1>1 DEF IndInv, FlagInv, RunInv, Receiving
<1>5. TakenInv'
  <2>1. ASSUME NEW x \in Senders, NEW i \in 1 .. Len(taken[x]) PROVE FlagOK(taken[x][i])'
    BY <1>1 DEF IndInv, TakenInv, FlagOK
  <2> QED
    BY <1>1, <2>1 DEF IndInv, TakenInv
<1>6. QueueInv'
  <2>1. \A s \in Senders : qid'[s] # cur'
    BY <1>1, <1>2
  <2>2. 1 .. Len(queue') = {}
    BY <1>1
  <2> QED
    BY <2>1, <2>2 DEF QueueInv
<1>7. CounterIsActive'
  BY <1>1, CounterKept DEF Receiving
<1> QED
  BY <1>3, <1>4, <1>5, <1>6, <1>7 DEF IndInv

\* The message at the head of the queue is the next of its sender.
LEMMA HeadIsNext ==
    ASSUME IndInv, queue # <<>>
    PROVE  /\ Head(queue) \in Message /\ FlagOK(Head(queue))
           /\ Head(queue) = queue[1]
           /\ qid[Head(queue).spid] = cur
           /\ Head(queue).n = Len(taken[Head(queue).spid]) + 1
<1> DEFINE m == Head(queue)
           s == m.spid
<1>1. /\ queue \in Seq(Message)
      /\ m \in Message /\ m = queue[1] /\ 1 \in 1 .. Len(queue)
  BY TailLemma DEF IndInv, TypeInv
<1>2. s \in Senders /\ m.n \in Nat
  BY <1>1 DEF Message
<1>3. FlagOK(queue[1]) /\ qid[queue[1].spid] = cur /\ queue[1].n > Len(taken[queue[1].spid])
  BY <1>1 DEF IndInv, QueueInv
<1>4. FlagOK(m) /\ qid[s] = cur /\ m.n > Len(taken[s]) /\ m.n <= sent[s]
  BY <1>1, <1>3 DEF FlagOK
<1> HIDE DEF s, m
<1>5. sent[s] \in Nat /\ Len(taken[s]) \in Nat
  BY <1>2 DEF IndInv, TypeInv
<1>6. Len(taken[s]) + 1 \in Len(taken[s]) + 1 .. sent[s]
  BY <1>2, <1>4, <1>5
<1>7. PICK i \in 1 .. Len(queue) : queue[i].spid = s /\ queue[i].n = Len(taken[s]) + 1
  BY <1>2, <1>4, <1>6 DEF IndInv, QueueInv
<1>8. i = 1 \/ m.n < queue[i].n
  BY <1>1, <1>7 DEF IndInv, QueueInv, s
<1>9. m.n = Len(taken[s]) + 1
  BY <1>1, <1>2, <1>4, <1>5, <1>7, <1>8
<1> QED
  BY <1>1, <1>4, <1>9 DEF s, m

\* Who is active and who ended in silence after a message was taken.
LEMMA CounterStep ==
    ASSUME IndInv, NEW m \in Message, FlagOK(m), m.n = Len(taken[m.spid]) + 1,
           taken' = [taken EXCEPT ![m.spid] = Append(@, m)],
           anzsender' = Counted(anzsender, m),
           anzsender = Cardinality(Active) - Cardinality(Silent)
    PROVE  anzsender' = Cardinality(Active') - Cardinality(Silent')
<1> DEFINE s == m.spid
<1>1. s \in Senders /\ m.flag \in {0, 1, 2} /\ taken[s] \in Seq(Message)
  BY DEF Message, IndInv, TypeInv
<1>2. /\ taken'[s] \in Seq(Message) /\ Len(taken'[s]) = Len(taken[s]) + 1
      /\ taken'[s][Len(taken[s]) + 1] = m
      /\ \A i \in 1 .. Len(taken[s]) : taken'[s][i] = taken[s][i]
      /\ \A x \in Senders \ {s} : taken'[x] = taken[x]
  <2>1. taken'[s] = Append(taken[s], m) /\ \A x \in Senders \ {s} : taken'[x] = taken[x]
    BY <1>1 DEF IndInv, TypeInv
  <2> QED
    BY <1>1, <2>1, AppendLemma
<1> HIDE DEF s
<1>3. Flags(s)' = Flags(s) \cup {m.flag}
  <2>1. DOMAIN taken[s] = 1 .. Len(taken[s]) /\ DOMAIN taken'[s] = 1 .. Len(taken[s]) + 1
    BY <1>1, <1>2
  <2>2. Len(taken[s]) \in Nat
    BY <1>1
  <2> QED
    BY <1>2, <2>1, <2>2 DEF Flags
<1>4. \A x \in Senders \ {s} : Flags(x)' = Flags(x)
  BY <1>2 DEF Flags
<1>5. 0 \notin Flags(s)
  <2> SUFFICES ASSUME NEW i \in 1 .. Len(taken[s]) PROVE taken[s][i].flag # 0
    BY <1>1 DEF Flags
  <2>1. taken[s][i].spid = s /\ taken[s][i].n = i /\ FlagOK(taken[s][i])
    BY <1>1 DEF IndInv, TakenInv
  <2>2. i < sent[s] /\ sent[s] \in Nat
    BY <1>1 DEF FlagOK, s, IndInv, TypeInv
  <2> QED
    BY <2>1, <2>2 DEF FlagOK
<1>6. IF m.n = 1 THEN Flags(s) = {} ELSE 2 \in Flags(s)
  <2>1. CASE Len(taken[s]) = 0
    BY <1>1, <2>1 DEF Flags, s
  <2>2. CASE Len(taken[s]) # 0
    <3>1. 1 \in 1 .. Len(taken[s]) /\ m.n # 1
      BY <1>1, <2>2 DEF s
    <3>2. taken[s][1].spid = s /\ taken[s][1].n = 1 /\ FlagOK(taken[s][1]) /\ taken[s][1] \in Message
      BY <1>1, <3>1 DEF IndInv, TakenInv
    <3>3. taken[s][1].flag # 1 /\ taken[s][1].flag \in {0, 1, 2}
      BY <3>2 DEF FlagOK, Message
    <3>4. taken[s][1].flag \in Flags(s)
      BY <1>1, <3>1 DEF Flags
    <3> QED
      BY <1>5, <3>1, <3>3, <3>4
  <2> QED
    BY <2>1, <2>2
<1>7. IsFiniteSet(Active) /\ IsFiniteSet(Silent)
  BY QueueConstants, FS_Subset DEF Active, Silent
<1>8. Cardinality(Active) \in Nat /\ Cardinality(Silent) \in Nat
  BY <1>7, FS_CardinalityType
<1>9. CASE m.flag = 2
  <2>1. Active' = Active \cup {s} /\ s \notin Active /\ Silent' = Silent
    BY <1>1, <1>3, <1>4, <1>6, <1>9 DEF Active, Silent, FlagOK
  <2>2. Cardinality(Active') = Cardinality(Active) + 1
    BY <1>7, <2>1, FS_AddElement, Zenon
  <2>3. anzsender' = anzsender + 1
    BY <1>9 DEF Counted
  <2> QED
    BY <1>8, <2>1, <2>2, <2>3
<1>10. CASE m.flag = 1
  <2>1. Active' = Active /\ Silent' = Silent
    BY <1>1, <1>3, <1>4, <1>5, <1>6, <1>10 DEF Active, Silent, FlagOK
  <2>2. anzsender' = anzsender
    BY <1>10 DEF Counted
  <2> QED
    BY <2>1, <2>2
<1>11. CASE m.flag = 0 /\ m.n = 1
  <2>1. Active' = Active /\ Silent' = Silent \cup {s} /\ s \notin Silent
    BY <1>1, <1>3, <1>4, <1>6, <1>11 DEF Active, Silent
  <2>2. Cardinality(Silent') = Cardinality(Silent) + 1
    BY <1>7, <2>1, FS_AddElement, Zenon
  <2>3. anzsender' = anzsender - 1
    BY <1>11 DEF Counted
  <2> QED
    BY <1>8, <2>1, <2>2, <2>3
<1>12. CASE m.flag = 0 /\ m.n # 1
  <2>1. Active' = Active \ {s} /\ s \in Active /\ Silent' = Silent
    BY <1>1, <1>3, <1>4, <1>5, <1>6, <1>12 DEF Active, Silent
  <2>2. Cardinality(Active') = Cardinality(Active) - 1
    BY <1>7, <2>1, FS_RemoveElement, Zenon
  <2>3. anzsender' = anzsender - 1
    BY <1>12 DEF Counted
  <2> QED
    BY <1>8, <2>1, <2>2, <2>3
<1> QED
  BY <1>1, <1>9, <1>10, <1>11, <1>12

\* Receive: the next message of a stream moves from the queue to what was
\* taken of it.
LEMMA ReceiveCase ==
    ASSUME IndInv, Receive
    PROVE  IndInv'
<1> DEFINE m == Head(queue)
           s == m.spid
<1>1. /\ rpc = "msgrcv" /\ queue # <<>> /\ queue' = Tail(queue)
      /\ taken' = [taken EXCEPT ![s] = Append(taken[s], m)]
      /\ anzsender' = Counted(anzsender, m)
      /\ rpc' \in {"msgrcv", "msgctl"}
      /\ \/ Len(out) < MaxFiles /\ out' = Append(out, m)
         \/ out' = out
      /\ UNCHANGED <<cur, spc, qid, flag, sent, file, runs, kills>>
  BY DEF Receive, sendVars, bounds
<1>2. /\ m \in Message /\ FlagOK(m) /\ m = queue[1]
      /\ qid[s] = cur /\ m.n = Len(taken[s]) + 1
  BY <1>1, HeadIsNext
<1> HIDE DEF m
<1>3. s \in Senders /\ m.flag \in {0, 1, 2}
  BY <1>2 DEF Message
<1>4. queue \in Seq(Message) /\ taken[s] \in Seq(Message) /\ out \in Seq(Message)
  BY <1>3 DEF IndInv, TypeInv
<1>5. /\ queue' \in Seq(Message) /\ Len(queue') = Len(queue) - 1
      /\ \A i \in 1 .. Len(queue') : i + 1 \in 1 .. Len(queue) /\ queue'[i] = queue[i + 1]
  BY <1>1, <1>4, TailLemma, Zenon
<1> HIDE DEF s
<1>6. /\ taken' \in [Senders -> Seq(Message)]
      /\ Len(taken'[s]) = Len(taken[s]) + 1
      /\ taken'[s][Len(taken[s]) + 1] = m
      /\ \A i \in 1 .. Len(taken[s]) : taken'[s][i] = taken[s][i]
      /\ \A x \in Senders \ {s} : taken'[x] = taken[x]
  <2>1. /\ Append(taken[s], m) \in Seq(Message)
        /\ Len(Append(taken[s], m)) = Len(taken[s]) + 1
        /\ Append(taken[s], m)[Len(taken[s]) + 1] = m
        /\ \A i \in 1 .. Len(taken[s]) : Append(taken[s], m)[i] = taken[s][i]
    BY <1>2, <1>4, AppendLemma
  <2>2. /\ taken' \in [Senders -> Seq(Message)]
        /\ taken'[s] = Append(taken[s], m)
        /\ \A x \in Senders \ {s} : taken'[x] = taken[x]
    BY <1>1, <1>3, <2>1 DEF IndInv, TypeInv
  <2> QED
    BY <2>1, <2>2
<1>7. TypeInv'
  <2>1. out' \in Seq(Message) /\ Len(out') <= MaxFiles
    <3>1. Len(out) <= MaxFiles /\ MaxFiles \in Nat
      BY QueueConstants DEF IndInv, TypeInv
    <3>2. Append(out, m) \in Seq(Message) /\ Len(Append(out, m)) = Len(out) + 1
      BY <1>2, <1>4, AppendLemma
    <3>3. CASE Len(out) < MaxFiles /\ out' = Append(out, m)
      BY <1>4, <3>1, <3>2, <3>3
    <3>4. CASE out' = out
      BY <1>4, <3>1, <3>4
    <3> QED
      BY <1>1, <3>3, <3>4
  <2>2. anzsender' \in Int
    BY <1>1, <1>3 DEF Counted, IndInv, TypeInv
  <2>3. Len(queue') <= Capacity
    BY <1>4, <1>5, QueueConstants DEF IndInv, TypeInv
  <2>4. cur' <= runs' /\ rpc' \in {"off", "msgrcv", "msgctl", "exit", "ended", "dead"}
    BY <1>1 DEF IndInv, TypeInv
  <2> QED
    BY <1>1, <1>5, <1>6, <2>1, <2>2, <2>3, <2>4, Zenon DEF IndInv, TypeInv
<1>8. FlagInv'
  BY <1>1 DEF IndInv, FlagInv
<1>9. ASSUME NEW e \in Message, FlagOK(e) PROVE FlagOK(e)'
  BY <1>1, <1>9 DEF FlagOK
<1>10. TakenInv'
  <2> SUFFICES ASSUME NEW x \in Senders, NEW i \in 1 .. Len(taken'[x])
               PROVE  /\ taken'[x][i].spid = x /\ taken'[x][i].n = i
                      /\ FlagOK(taken[x][i])'
    BY DEF TakenInv
  <2>1. CASE x = s /\ i = Len(taken[s]) + 1
    <3>1. PICK e \in Message : e = m /\ FlagOK(e) /\ e = taken'[x][i]
      BY <1>2, <1>6, <2>1
    <3>2. FlagOK(e)' /\ e.spid = x /\ e.n = i
      BY <1>2, <1>9, <2>1, <3>1 DEF s
    <3> QED
      BY <3>1, <3>2 DEF FlagOK
  <2>2. CASE ~ (x = s /\ i = Len(taken[s]) + 1)
    <3>1. i \in 1 .. Len(taken[x]) /\ taken'[x][i] = taken[x][i]
      BY <1>4, <1>6, <2>2
    <3>2. PICK e \in Message : e = taken[x][i] /\ FlagOK(e) /\ e.spid = x /\ e.n = i
      BY <3>1 DEF IndInv, TypeInv, TakenInv
    <3>3. FlagOK(e)' /\ e = taken'[x][i]
      BY <1>9, <3>1, <3>2
    <3> QED
      BY <3>2, <3>3 DEF FlagOK
  <2> QED
    BY <2>1, <2>2
<1>11. ASSUME NEW i \in 1 .. Len(queue')
       PROVE  /\ FlagOK(queue[i])'
              /\ qid[queue'[i].spid] = cur
              /\ queue'[i].n > Len(taken'[queue'[i].spid])
  <2>1. PICK e \in Message : e = queue'[i] /\ e = queue[i + 1] /\ FlagOK(e)
                             /\ qid[e.spid] = cur /\ e.n > Len(taken[e.spid])
    BY <1>4, <1>5 DEF IndInv, QueueInv
  <2>2. FlagOK(e)'
    BY <1>9, <2>1
  <2>3. e.spid = s => m.n < e.n
    <3>1. i + 1 \in 1 .. Len(queue) /\ 1 \in 1 .. Len(queue) /\ 1 < i + 1
      BY <1>4, <1>5
    <3>2. queue[1].spid = queue[i + 1].spid => queue[1].n < queue[i + 1].n
      BY <3>1 DEF IndInv, QueueInv
    <3> QED
      BY <1>2, <2>1, <3>2 DEF s
  <2>4. e.n > Len(taken'[e.spid])
    BY <1>2, <1>4, <1>6, <2>1, <2>3 DEF Message
  <2> QED
    BY <2>1, <2>2, <2>4 DEF FlagOK
<1>12. ASSUME NEW i \in 1 .. Len(queue'), NEW j \in 1 .. Len(queue'),
              queue'[i].spid = queue'[j].spid, i < j
       PROVE  queue'[i].n < queue'[j].n
  <2>1. /\ i + 1 \in 1 .. Len(queue) /\ queue'[i] = queue[i + 1]
        /\ j + 1 \in 1 .. Len(queue) /\ queue'[j] = queue[j + 1]
        /\ i + 1 < j + 1
    BY <1>4, <1>5, <1>12
  <2> QED
    BY <1>12, <2>1 DEF IndInv, QueueInv
<1>13. ASSUME NEW x \in Senders, qid[x] = cur, NEW n \in Len(taken'[x]) + 1 .. sent[x]
       PROVE  \E i \in 1 .. Len(queue') : queue'[i].spid = x /\ queue'[i].n = n
  <2>1. n \in Len(taken[x]) + 1 .. sent[x] /\ (x = s => n # m.n)
    <3>1. Len(taken[x]) \in Nat /\ sent[x] \in Nat
      BY DEF IndInv, TypeInv
    <3> QED
      BY <1>2, <1>6, <3>1
  <2>2. PICK i \in 1 .. Len(queue) : queue[i].spid = x /\ queue[i].n = n
    BY <1>13, <2>1 DEF IndInv, QueueInv
  <2>3. i # 1
    BY <1>2, <2>1, <2>2 DEF s
  <2>4. i - 1 \in 1 .. Len(queue') /\ (i - 1) + 1 = i
    BY <1>4, <1>5, <2>3
  <2>5. queue'[i - 1] = queue[i]
    BY <1>5, <2>4
  <2> QED
    BY <2>2, <2>4, <2>5
<1>14. QueueInv'
  BY <1>1, <1>11, <1>12, <1>13 DEF QueueInv
<1>15. RunInv'
  BY <1>1 DEF IndInv, RunInv, Receiving
<1>16. CounterIsActive'
  <2>1. runs = 1 =>
          /\ anzsender = Cardinality(Active) - Cardinality(Silent)
          /\ anzsender' = Cardinality(Active') - Cardinality(Silent')
    <3>1. runs = 1 => anzsender = Cardinality(Active) - Cardinality(Silent)
      BY <1>1 DEF IndInv, CounterIsActive, Receiving
    <3> QED
      BY <1>1, <1>2, <3>1, CounterStep DEF s
  <2> QED
    BY <1>1, <2>1 DEF CounterIsActive
<1> QED
  BY <1>7, <1>8, <1>10, <1>14, <1>15, <1>16 DEF IndInv

-----------------------------------------------------------------------------
(* The invariant                                                           *)

\* No step breaks the invariant.
LEMMA Inductive ==
    ASSUME IndInv, [Next]_vars
    PROVE  IndInv'
<1>1. ASSUME NEW s \in Senders,
             SendStart(s) \/ SendInput(s) \/ SenderStep(s) \/ KillSender(s)
      PROVE  IndInv'
  BY <1>1, SendStartCase, SenderMoves, SendCase DEF SenderStep
<1>2. ASSUME RecvStart \/ ReceiverStep \/ KillReceiver PROVE IndInv'
  BY <1>2, RecvStartCase, ReceiveCase, RemoveQueueCase, ReceiverEndsCase DEF ReceiverStep
<1>3. CASE UNCHANGED vars
  <2>1. UNCHANGED <<queue, cur, spc, qid, flag, sent, rpc, anzsender, out, taken, runs, kills>>
    BY <1>3 DEF vars, sendVars, recvVars, bounds
  <2>2. TypeInv' /\ FlagInv' /\ RunInv'
    BY <2>1 DEF IndInv, TypeInv, FlagInv, RunInv, Receiving
  <2>3. TakenInv' /\ QueueInv' /\ CounterIsActive'
    BY <2>1, StreamsKept, CounterKept DEF Receiving
  <2> QED
    BY <2>2, <2>3 DEF IndInv
<1> QED
  BY <1>1, <1>2, <1>3 DEF Next

\* IndInv is an invariant.
LEMMA Invariant == Spec => []IndInv
BY InitCase, Inductive, PTL DEF Spec

\* The files hold numbers of lines; only Exit writes to them.
FilesInv == file \in [Senders -> Seq(Nat)]

\* No step breaks the types of the files.
LEMMA FilesStep ==
    ASSUME IndInv, FilesInv, [Next]_vars
    PROVE  FilesInv'
<1>1. CASE Exit
  <2>1. out \in Seq(Message)
    BY DEF IndInv, TypeInv
  <2>2. ASSUME NEW s \in Senders PROVE file[s] \o LinesOf(s, Reverse(out)) \in Seq(Nat)
    <3>1. file[s] \in Seq(Nat) /\ LinesOf(s, Reverse(out)) \in Seq(Nat)
      BY <2>1, LinesTypes DEF FilesInv
    <3> QED
      BY <3>1, ConcatProperties
  <2>3. file' = [s \in Senders |-> file[s] \o LinesOf(s, Reverse(out))]
    BY <1>1 DEF Exit
  <2> QED
    BY <2>2, <2>3 DEF FilesInv
<1>2. ASSUME NEW s \in Senders,
             SendStart(s) \/ SendInput(s) \/ SenderStep(s) \/ KillSender(s)
      PROVE  FilesInv'
  BY <1>2 DEF SendStart, SendInput, SenderStep, Send, SendFails, KillSender, FilesInv
<1>3. CASE RecvStart \/ Receive \/ RemoveQueue \/ KillReceiver \/ UNCHANGED vars
  BY <1>3 DEF RecvStart, Receive, RemoveQueue, KillReceiver, vars, FilesInv
<1> QED
  BY <1>1, <1>2, <1>3 DEF Next, ReceiverStep

\* All variables keep their types: the queue and the list of open streams
\* keep their limits, and no more queues come to be than receivers.
THEOREM QueueTypes == Spec => []TypeOK
<1>1. Init => FilesInv
  BY EmptySeq DEF Init, FilesInv
<1>2. ASSUME IndInv, FilesInv PROVE TypeOK
  <2>1. TypeInv /\ MaxRuns \in Nat
    BY <1>2, QueueConstants DEF IndInv
  <2>2. cur \in Queues /\ 0 .. cur \subseteq Queues \cup {NoQueue}
    BY <2>1 DEF TypeInv, Queues, NoQueue
  <2>3. qid \in [Senders -> Queues \cup {NoQueue}]
    BY <2>1, <2>2 DEF TypeInv
  <2> QED
    BY <1>2, <2>1, <2>2, <2>3 DEF TypeInv, TypeOK, FilesInv
<1>3. IndInv /\ FilesInv /\ [Next]_vars => FilesInv'
  BY FilesStep
<1> QED
  BY <1>1, <1>2, <1>3, Invariant, PTL DEF Spec

\* Unless a receiver was killed before, anzsender is the number of senders
\* that have begun and not ended, less one for each that ended in silence.
THEOREM CounterCorrect == Spec => []CounterIsActive
<1>1. IndInv => CounterIsActive
  BY DEF IndInv
<1> QED
  BY <1>1, Invariant, PTL

\* As long as its queue is not removed under it, nothing a sender has sent is
\* lost, doubled or overtaken, and its end comes last.
THEOREM WholeStreams == Spec => []StreamIsWhole
<1>1. ASSUME IndInv PROVE StreamIsWhole
  <2> SUFFICES ASSUME NEW s \in Senders, qid[s] = cur
               PROVE  LET W == {i \in DOMAIN queue : queue[i].spid = s}
                      IN  /\ \A i \in DOMAIN taken[s] : taken[s][i].n = i
                          /\ {queue[i].n : i \in W} = Len(taken[s]) + 1 .. sent[s]
                          /\ \A i, j \in W : i < j => queue[i].n < queue[j].n
                          /\ \A m \in Range(taken[s]) \cup {queue[i] : i \in W} :
                               m.flag = 0 <=> m.n = sent[s] /\ spc[s] = "ended"
    BY DEF StreamIsWhole
  <2> DEFINE W == {i \in DOMAIN queue : queue[i].spid = s}
  <2>1. /\ taken[s] \in Seq(Message) /\ queue \in Seq(Message) /\ sent[s] \in Nat
        /\ DOMAIN taken[s] = 1 .. Len(taken[s]) /\ DOMAIN queue = 1 .. Len(queue)
    BY <1>1 DEF IndInv, TypeInv
  <2>2. \A i \in DOMAIN taken[s] : taken[s][i].spid = s /\ taken[s][i].n = i /\ FlagOK(taken[s][i])
    BY <1>1, <2>1 DEF IndInv, TakenInv
  <2>3. ASSUME NEW i \in W
        PROVE  FlagOK(queue[i]) /\ queue[i].n \in Len(taken[s]) + 1 .. sent[s]
    <3>1. queue[i] \in Message /\ queue[i].spid = s /\ FlagOK(queue[i])
          /\ queue[i].n > Len(taken[queue[i].spid])
      BY <1>1, <2>1 DEF IndInv, QueueInv
    <3> QED
      BY <2>1, <3>1 DEF Message, FlagOK
  <2>4. \A n \in Len(taken[s]) + 1 .. sent[s] : \E i \in W : queue[i].n = n
    <3> TAKE n \in Len(taken[s]) + 1 .. sent[s]
    <3>1. PICK i \in 1 .. Len(queue) : queue[i].spid = s /\ queue[i].n = n
      BY <1>1 DEF IndInv, QueueInv
    <3>2. i \in W
      BY <2>1, <3>1
    <3> QED
      BY <3>1, <3>2
  <2>5. {queue[i].n : i \in W} = Len(taken[s]) + 1 .. sent[s]
    BY <2>3, <2>4, Zenon
  <2>6. \A i, j \in W : i < j => queue[i].n < queue[j].n
    BY <1>1, <2>1 DEF IndInv, QueueInv
  <2>7. \A m \in Range(taken[s]) \cup {queue[i] : i \in W} : m.spid = s /\ FlagOK(m)
    BY <2>2, <2>3 DEF Range
  <2>8. \A m \in Range(taken[s]) \cup {queue[i] : i \in W} :
          m.flag = 0 <=> m.n = sent[s] /\ spc[s] = "ended"
    BY <2>7 DEF FlagOK
  <2> QED
    BY <2>2, <2>5, <2>6, <2>8
<1> QED
  BY <1>1, Invariant, PTL
=============================================================================
