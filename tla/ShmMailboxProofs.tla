-------------------------- MODULE ShmMailboxProofs --------------------------
(***************************************************************************)
(* Proofs about ShmMailbox for any set of senders and any bounds: mutual   *)
(* exclusion, no unread message is lost, every message is taken once and   *)
(* in order, the lock is never lost with a killed sender, the counter fits *)
(* the registrations, and one receiver makes it MailboxSpec's channel.     *)
(***************************************************************************)
EXTENDS ShmMailbox, FiniteSetTheorems, TLAPS

\* The semaphore and segment numbers processes hold are numbers that were
\* handed out, and a running receiver works on the current ones.
IdInv ==
    /\ \A p \in Procs : sem[p] <= curSem
    /\ \A s \in Senders :
         /\ pc[s] = "off" => shm[s] = NoId
         /\ shm[s] = NoId => pc[s] = "off" \/ pc[s] = "dead"
         /\ pc[s] \in {"off", "shmat", "semget"} => sem[s] = NoId
         /\ sem[s] = NoId => pc[s] \in {"off", "shmat", "semget", "dead"}
    /\ curShm <= runs + 1 /\ curSem <= runs + 1
    /\ pc[Rcv] \in {"shmat", "semget"} => sem[Rcv] = NoId
    /\ Running(Rcv) =>
         /\ curSem <= runs
         /\ shm[Rcv] # NoId /\ shm[Rcv] <= runs
         /\ pc[Rcv] # "rmsem" => shm[Rcv] = curShm
         /\ pc[Rcv] \notin {"shmat", "semget"} => sem[Rcv] = curSem
    /\ pc[Rcv] \in {"while", "rmshm", "rmsem"} => semop = -1
    /\ pc[Rcv] \in {"shmat", "semget"} => semop = 0
    /\ pc[Rcv] = "done" => sem[Rcv] < curSem
    /\ pc[Rcv] = "dead" /\ sem[Rcv] # NoId => sem[Rcv] \in broken
    /\ sem[Rcv] # NoId /\ shm[Rcv] # sem[Rcv] => shm[Rcv] \in broken

\* The receiver has been through its wait-for-zero on the current semaphore.
Opened ==
    /\ Running(Rcv)
    /\ sem[Rcv] = curSem
    /\ pc[Rcv] = "lock" => semop = -1

\* The value of the current semaphore says whether somebody holds it; the
\* kernel's adjustment for a sender is what it owes.
LockInv ==
    /\ \A g \in Gens : g > curSem => val[g] = 0
    /\ \A s \in Senders : sem[s] = NoId => adj[s] = 0
    /\ curSem \notin broken =>
         /\ ~ Opened => /\ val[curSem] = 0
                        /\ \A p \in Procs : sem[p] = curSem => ~ Holding(p)
         /\ val[curSem] \in {0, 1}
         /\ val[curSem] = 1 <=> /\ Opened
                                /\ \A p \in Procs :
                                     sem[p] = curSem => ~ Holding(p)
         /\ \A s \in Senders :
              sem[s] = curSem => adj[s] = IF Holding(s) THEN 1 ELSE 0

\* The message in a segment is from a sender that works on it.
SlotOwner ==
    \A g \in Gens :
        seg[g] # Empty => shm[seg[g].from] = g /\ sem[seg[g].from] # NoId

\* What the receiver has seen in the segment does not disappear.
SlotFull == pc[Rcv] \in {"take", "clear"} => seg[shm[Rcv]] # Empty

\* A segment that a sender has seen empty is still empty.
SlotFree ==
    \A s \in Senders :
        pc[s] = "write" /\ Exclusive(shm[s]) => seg[shm[s]] = Empty

\* The message about to be cleared is the last one taken from its sender.
SlotTaken ==
    pc[Rcv] = "clear" /\ Exclusive(shm[Rcv]) =>
        Len(got[seg[shm[Rcv]].from]) = seg[shm[Rcv]].n

\* The message of s in a segment is the last one s wrote.
SlotLatest ==
    \A s \in Senders :
        /\ shm[s] # NoId /\ Exclusive(shm[s])
        /\ seg[shm[s]] # Empty
        /\ seg[shm[s]].from = s
        => seg[shm[s]].n = n[s]

\* A sender that has not started has sent nothing.
SlotNew == \A s \in Senders : shm[s] = NoId => n[s] = 0 /\ got[s] = <<>>

SlotInv ==
    SlotOwner /\ SlotFull /\ SlotFree /\ SlotTaken /\ SlotLatest /\ SlotNew

IndInv ==
    /\ TypeOK
    /\ IdInv
    /\ LockInv
    /\ MutualExclusion
    /\ SlotInv
    /\ ExactlyOnce

-----------------------------------------------------------------------------
(* Type correctness *)

\* The part of the type invariant that is about the semaphores.
SemType ==
    /\ val \in [Gens -> Nat]
    /\ adj \in [Procs -> Int]
    /\ curSem \in Gens
    /\ sem \in [Procs -> Gens \cup {NoId}]

\* A semaphore that exists has a number that was handed out.
LEMMA LiveIsGen ==
    ASSUME SemType, NEW p \in Procs, Live(sem[p])
    PROVE  sem[p] \in Gens
BY ConstantsAssumption DEF SemType, Gens, NoId, Live

\* Unlocking, the kernel's clean-up and locking keep the semaphore typed; for
\* locking this is where the value must not be zero when 1 is subtracted.
LEMMA UpType ==
    ASSUME SemType, NEW p \in Procs, Up(p)
    PROVE  val' \in [Gens -> Nat] /\ adj' \in [Procs -> Int]
<1>1. CASE Live(sem[p])
  <2>1. sem[p] \in Gens
    BY <1>1, LiveIsGen
  <2>2. val[sem[p]] + 1 \in Nat
    BY <2>1 DEF SemType
  <2>3. adj[p] - 1 \in Int
    BY DEF SemType
  <2> QED
    BY <1>1, <2>1, <2>2, <2>3 DEF Up, SemType
<1>2. CASE ~ Live(sem[p])
  BY <1>2 DEF Up, SemType
<1> QED
  BY <1>1, <1>2

\* The kernel's clean-up when a process ends keeps the semaphore typed.
LEMMA UndoType ==
    ASSUME SemType, NEW p \in Procs, Undo(p)
    PROVE  val' \in [Gens -> Nat] /\ adj' \in [Procs -> Int]
<1>1. CASE Live(sem[p])
  <2>1. sem[p] \in Gens
    BY <1>1, LiveIsGen
  <2>2. (IF val[sem[p]] + adj[p] < 0 THEN 0 ELSE val[sem[p]] + adj[p]) \in Nat
    BY <2>1 DEF SemType
  <2> QED
    BY <1>1, <2>1, <2>2 DEF Undo, SemType
<1>2. CASE ~ Live(sem[p])
  BY <1>2 DEF Undo, SemType
<1> QED
  BY <1>1, <1>2

\* So does a lock operation: 1 is only subtracted from a value above zero.
LEMMA LockType ==
    ASSUME SemType, semop \in {0, -1}, NEW p \in Procs, Lock(p)
    PROVE  val' \in [Gens -> Nat] /\ adj' \in [Procs -> Int]
<1>1. sem[p] \in Gens
  BY LiveIsGen DEF Lock
<1>2. LockOp(p) \in {0, -1}
  BY DEF LockOp
<1>3. val[sem[p]] + LockOp(p) \in Nat
  BY <1>1, <1>2 DEF Lock, WouldBlock, SemType
<1>4. adj[p] - LockOp(p) \in Int
  BY <1>2 DEF SemType
<1> QED
  BY <1>1, <1>3, <1>4 DEF Lock, SemType

\* A process that moves to a place of the programs is at such a place.
LEMMA GotoType ==
    ASSUME NEW p \in Procs, NEW l \in PCs, pc \in [Procs -> PCs], Goto(p, l)
    PROVE  pc' \in [Procs -> PCs]
BY DEF Goto

\* The segment of a receiver that attaches it has not been removed: only a
\* receiver removes it.
LEMMA RecvAttaches ==
    ASSUME TypeOK, IdInv, Attach(Rcv)
    PROVE  pc' = [pc EXCEPT ![Rcv] = "semget"]
<1>1. pc[Rcv] = "shmat"
  BY DEF Attach
<1>2. shm[Rcv] = curShm /\ curShm >= curShm
  BY <1>1 DEF IdInv, Running, TypeOK, Gens
<1>3. Attachable(shm[Rcv])
  BY <1>2 DEF Attachable
<1> QED
  BY <1>3 DEF Attach, Goto

\* Every step keeps the type invariant.
LEMMA TypeStep == IndInv /\ [Next]_vars => TypeOK'
<1> SUFFICES ASSUME TypeOK, IdInv, SlotInv, [Next]_vars PROVE TypeOK'
  BY DEF IndInv
<1>p. SemType /\ Rcv \in Procs /\ Senders \subseteq Procs
  BY DEF SemType, TypeOK, Procs
<1>1. ASSUME NEW s \in Senders, SendStart(s) PROVE TypeOK'
  <2>1. pc' \in [Procs -> PCs]
    BY <1>1, <1>p, GotoType DEF SendStart, PCs, TypeOK
  <2>2. shm' \in [Procs -> Gens \cup {NoId}]
    BY <1>1, <1>p DEF SendStart, TypeOK
  <2> QED
    BY <1>1, <2>1, <2>2 DEF SendStart, TypeOK, shmVars, semVars, sendVars, recvVars, bounds
<1>2. ASSUME NEW s \in Senders, SendSemget(s) PROVE TypeOK'
  <2>1. pc' \in [Procs -> PCs]
    BY <1>2, <1>p, GotoType DEF SendSemget, PCs, TypeOK
  <2>2. sem' \in [Procs -> Gens \cup {NoId}]
    BY <1>2, <1>p DEF SendSemget, TypeOK
  <2> QED
    BY <1>2, <2>1, <2>2 DEF SendSemget, TypeOK, shmVars, semVars, sendVars, recvVars, bounds
<1>3. ASSUME NEW s \in Senders, Lock(s) PROVE TypeOK'
  <2>1. pc' \in [Procs -> PCs]
    BY <1>3, <1>p, GotoType DEF Lock, PCs, TypeOK
  <2>2. val' \in [Gens -> Nat] /\ adj' \in [Procs -> Int]
    BY <1>3, <1>p, LockType DEF Lock, TypeOK
  <2> QED
    BY <1>3, <2>1, <2>2 DEF Lock, TypeOK, shmVars, semVars, sendVars, recvVars, bounds
<1>4. ASSUME NEW s \in Senders, LockFails(s) PROVE TypeOK'
  <2>1. pc' \in [Procs -> PCs]
    BY <1>4, <1>p, GotoType DEF LockFails, PCs, TypeOK
  <2>2. broken' \subseteq Gens
    BY <1>4, <1>p, ConstantsAssumption DEF LockFails, IdInv, TypeOK, Gens, NoId, PCs
  <2> QED
    BY <1>4, <2>1, <2>2 DEF LockFails, TypeOK, shmVars, semVars, sendVars, recvVars, bounds
<1>5. ASSUME NEW s \in Senders, SendCheck(s) PROVE TypeOK'
  <2>1. pc' \in [Procs -> PCs]
    BY <1>5, <1>p, GotoType DEF SendCheck, PCs, TypeOK
  <2> QED
    BY <1>5, <2>1 DEF SendCheck, TypeOK, shmVars, semVars, sendVars, recvVars, bounds
<1>6. ASSUME NEW s \in Senders, SendBusy(s) PROVE TypeOK'
  <2>1. pc' \in [Procs -> PCs]
    BY <1>6, <1>p, GotoType DEF SendBusy, PCs, TypeOK
  <2>2. val' \in [Gens -> Nat] /\ adj' \in [Procs -> Int]
    BY <1>6, <1>p, UpType DEF SendBusy, TypeOK
  <2> QED
    BY <1>6, <2>1, <2>2 DEF SendBusy, TypeOK, shmVars, semVars, sendVars, recvVars, bounds
<1>7. ASSUME NEW s \in Senders, SendWrite(s) PROVE TypeOK'
  <2>1. pc' \in [Procs -> PCs]
    BY <1>7, <1>p, GotoType DEF SendWrite, PCs, TypeOK
  <2>2. NextMessage(s) \in Message
    BY <1>7 DEF NextMessage, Message, TypeOK
  <2>3. seg' \in [Gens -> Message \cup {Empty}]
    BY <1>7, <2>2 DEF SendWrite, TypeOK
  <2>4. n' \in [Senders -> Nat]
    BY <1>7 DEF SendWrite, TypeOK
  <2> QED
    BY <1>7, <2>1, <2>3, <2>4 DEF SendWrite, TypeOK, shmVars, semVars, sendVars, recvVars, bounds
<1>8. ASSUME NEW s \in Senders, SendUnlock(s) PROVE TypeOK'
  <2>1. pc' \in [Procs -> PCs]
    BY <1>8, <1>p, GotoType DEF SendUnlock, PCs, TypeOK
  <2>2. val' \in [Gens -> Nat] /\ adj' \in [Procs -> Int]
    BY <1>8, <1>p, UpType DEF SendUnlock, TypeOK
  <2> QED
    BY <1>8, <2>1, <2>2 DEF SendUnlock, TypeOK, shmVars, semVars, sendVars, recvVars, bounds
<1>9. ASSUME NEW s \in Senders, SendInput(s) PROVE TypeOK'
  <2>1. pc' \in [Procs -> PCs]
    BY <1>9, <1>p, GotoType DEF SendInput, PCs, TypeOK
  <2>2. phase' \in [Senders -> Kinds]
    BY <1>9 DEF SendInput, TypeOK, Kinds
  <2> QED
    BY <1>9, <2>1, <2>2 DEF SendInput, TypeOK, shmVars, semVars, sendVars, recvVars, bounds
<1>10. ASSUME NEW s \in Senders, SendExit(s) PROVE TypeOK'
  <2>1. pc' \in [Procs -> PCs]
    BY <1>10, <1>p, GotoType DEF SendExit, PCs, TypeOK
  <2>2. val' \in [Gens -> Nat] /\ adj' \in [Procs -> Int]
    BY <1>10, <1>p, UndoType DEF SendExit, TypeOK
  <2> QED
    BY <1>10, <2>1, <2>2 DEF SendExit, TypeOK, shmVars, semVars, sendVars, recvVars, bounds
<1>11. ASSUME RecvStart PROVE TypeOK'
  <2>1. pc' \in [Procs -> PCs]
    BY <1>11, <1>p, GotoType DEF RecvStart, PCs, TypeOK
  <2>2. shm' \in [Procs -> Gens \cup {NoId}] /\ sem' \in [Procs -> Gens \cup {NoId}]
    BY <1>11, <1>p DEF RecvStart, TypeOK
  <2>3. adj' \in [Procs -> Int]
    BY <1>11, <1>p DEF RecvStart, TypeOK
  <2>4. runs' \in 0 .. MaxRuns
    BY <1>11, ConstantsAssumption DEF RecvStart, TypeOK
  <2>5. counter' \in Int
    BY <1>11 DEF RecvStart
  <2>6. ende' \in BOOLEAN
    BY <1>11, Zenon DEF RecvStart
  <2>7. semop' \in {0, -1}
    BY <1>11, Zenon DEF RecvStart
  <2> QED
    BY <1>11, <2>1, <2>2, <2>3, <2>4, <2>5, <2>6, <2>7 DEF RecvStart, TypeOK, shmVars, semVars, sendVars, recvVars, bounds
<1>12. ASSUME RecvSemget PROVE TypeOK'
  <2>1. pc' \in [Procs -> PCs]
    BY <1>12, <1>p, GotoType DEF RecvSemget, PCs, TypeOK
  <2>2. sem' \in [Procs -> Gens \cup {NoId}]
    BY <1>12, <1>p DEF RecvSemget, TypeOK
  <2>3. broken' \subseteq Gens
    BY <1>12, <1>p DEF RecvSemget, TypeOK, IdInv, Running
  <2> QED
    BY <1>12, <2>1, <2>2, <2>3 DEF RecvSemget, TypeOK, shmVars, semVars, sendVars, recvVars, bounds
<1>13. ASSUME Lock(Rcv) PROVE TypeOK'
  <2>1. pc' \in [Procs -> PCs]
    BY <1>13, <1>p, GotoType DEF Lock, PCs, TypeOK
  <2>2. val' \in [Gens -> Nat] /\ adj' \in [Procs -> Int]
    BY <1>13, <1>p, LockType DEF Lock, TypeOK
  <2> QED
    BY <1>13, <2>1, <2>2 DEF Lock, TypeOK, shmVars, semVars, sendVars, recvVars, bounds
<1>14. ASSUME RecvCheck PROVE TypeOK'
  <2>1. pc' \in [Procs -> PCs]
    BY <1>14, <1>p, GotoType DEF RecvCheck, PCs, TypeOK
  <2> QED
    BY <1>14, <2>1 DEF RecvCheck, TypeOK, shmVars, semVars, sendVars, recvVars, bounds
<1>15. ASSUME RecvTake PROVE TypeOK'
  <2>1. pc' \in [Procs -> PCs]
    BY <1>15, <1>p, GotoType DEF RecvTake, PCs, TypeOK
  <2>2. seg[shm[Rcv]] \in Message
    BY <1>15, <1>p DEF RecvTake, SlotInv, SlotFull, IdInv, TypeOK, Running
  <2>3. got' \in [Senders -> Seq(Message)]
    <3> DEFINE m == seg[shm[Rcv]]
    <3>1. m.from \in Senders
      BY <2>2 DEF Message
    <3>2. Append(got[m.from], m) \in Seq(Message)
      BY <2>2, <3>1 DEF TypeOK
    <3> QED
      BY <1>15, <3>1, <3>2 DEF RecvTake, TypeOK
  <2>4. counter' \in Int
    BY <1>15 DEF RecvTake, TypeOK
  <2> QED
    BY <1>15, <2>1, <2>2, <2>3, <2>4 DEF RecvTake, TypeOK, shmVars, semVars, sendVars, recvVars, bounds
<1>16. ASSUME RecvClear PROVE TypeOK'
  <2>1. pc' \in [Procs -> PCs]
    BY <1>16, <1>p, GotoType DEF RecvClear, PCs, TypeOK
  <2>2. seg' \in [Gens -> Message \cup {Empty}]
    BY <1>16 DEF RecvClear, TypeOK
  <2> QED
    BY <1>16, <2>1, <2>2 DEF RecvClear, TypeOK, shmVars, semVars, sendVars, recvVars, bounds
<1>17. ASSUME RecvUnlock PROVE TypeOK'
  <2>1. pc' \in [Procs -> PCs]
    BY <1>17, <1>p, GotoType DEF RecvUnlock, PCs, TypeOK
  <2>2. val' \in [Gens -> Nat] /\ adj' \in [Procs -> Int]
    BY <1>17, <1>p, UpType DEF RecvUnlock, TypeOK
  <2> QED
    BY <1>17, <2>1, <2>2 DEF RecvUnlock, TypeOK, shmVars, semVars, sendVars, recvVars, bounds
<1>18. ASSUME RecvWhile PROVE TypeOK'
  <2>1. pc' \in [Procs -> PCs]
    BY <1>18, <1>p, GotoType DEF RecvWhile, PCs, TypeOK
  <2> QED
    BY <1>18, <2>1 DEF RecvWhile, TypeOK, shmVars, semVars, sendVars, recvVars, bounds
<1>19. ASSUME RecvRemoveShm PROVE TypeOK'
  <2>1. pc' \in [Procs -> PCs]
    BY <1>19, <1>p, GotoType DEF RecvRemoveShm, PCs, TypeOK
  <2>2. curShm' \in Gens
    BY <1>19, <1>p, ConstantsAssumption DEF RecvRemoveShm, TypeOK, IdInv, Running, Gens, NoId
  <2> QED
    BY <1>19, <2>1, <2>2 DEF RecvRemoveShm, TypeOK, shmVars, semVars, sendVars, recvVars, bounds
<1>20. ASSUME RecvRemoveSem PROVE TypeOK'
  <2>1. pc' \in [Procs -> PCs]
    BY <1>20, <1>p, GotoType DEF RecvRemoveSem, PCs, TypeOK
  <2>2. curSem' \in Gens
    BY <1>20, <1>p, ConstantsAssumption DEF RecvRemoveSem, TypeOK, IdInv, Running, Gens, NoId
  <2> QED
    BY <1>20, <2>1, <2>2 DEF RecvRemoveSem, TypeOK, shmVars, semVars, sendVars, recvVars, bounds
<1>21. ASSUME SigInt PROVE TypeOK'
  <2> QED
    BY <1>21 DEF SigInt, TypeOK, shmVars, semVars, sendVars, recvVars, bounds
<1>22. ASSUME SigIntInLock PROVE TypeOK'
  <2>1. pc' \in [Procs -> PCs]
    BY <1>22, <1>p, GotoType DEF SigIntInLock, PCs, TypeOK
  <2>2. broken' \subseteq Gens
    BY <1>22, <1>p DEF SigIntInLock, TypeOK, IdInv, Running
  <2>3. intrs' \in 0 .. MaxIntr
    BY <1>22, ConstantsAssumption DEF SigIntInLock, TypeOK
  <2> QED
    BY <1>22, <2>1, <2>2, <2>3 DEF SigIntInLock, TypeOK, shmVars, semVars, sendVars, recvVars, bounds
<1>23. ASSUME NEW p \in Killable, Kill(p) PROVE TypeOK'
  <2>1. p \in Procs
    BY <1>23, ConstantsAssumption DEF Procs
  <2>2. pc' \in [Procs -> PCs]
    BY <1>23, <2>1, GotoType DEF Kill, PCs, TypeOK
  <2>3. val' \in [Gens -> Nat] /\ adj' \in [Procs -> Int]
    BY <1>23, <2>1, <1>p, UndoType DEF Kill
  <2>4. broken' \subseteq Gens
    BY <1>23, <2>1 DEF Kill, TypeOK
  <2>5. kills' \in 0 .. MaxKills
    BY <1>23, ConstantsAssumption DEF Kill, TypeOK
  <2> QED
    BY <1>23, <2>1, <2>2, <2>3, <2>4, <2>5 DEF Kill, TypeOK, shmVars, semVars, sendVars, recvVars, bounds
<1>24. CASE UNCHANGED vars
  BY <1>24 DEF vars, TypeOK, shmVars, semVars, sendVars, recvVars, bounds
<1>25. ASSUME NEW p \in Procs, Attach(p) PROVE TypeOK'
  <2>1. pc' \in [Procs -> PCs]
    <3>1. \E l \in {"semget", "dead"} : Goto(p, l)
      BY <1>25 DEF Attach
    <3> QED
      BY <1>25, <3>1, GotoType DEF PCs, TypeOK
  <2> QED
    BY <1>25, <2>1 DEF Attach, TypeOK, shmVars, semVars, sendVars, recvVars, bounds
<1> QED
  BY <1>1, <1>2, <1>3, <1>4, <1>5, <1>6, <1>7, <1>8, <1>9, <1>10, <1>11, <1>12, <1>13, <1>14, <1>15, <1>16, <1>17, <1>18, <1>19, <1>20, <1>21, <1>22, <1>23, <1>24, <1>25
  DEF Next, Sender, Receiver, Procs

\* The inductive invariant holds before anybody has started.
LEMMA InitIndInv == Init => IndInv
<1> SUFFICES ASSUME Init PROVE IndInv
  OBVIOUS
<1> USE ConstantsAssumption, EmptyIsNoMessage DEF Init, Procs, Gens, NoId, Kinds
<1>1. TypeOK
  <2>1. <<>> \in Seq(Message)
    OBVIOUS
  <2>2. seg \in [Gens -> Message \cup {Empty}] /\ got \in [Senders -> Seq(Message)]
    BY <2>1
  <2>3. pc \in [Procs -> PCs] /\ phase \in [Senders -> Kinds]
    BY DEF PCs
  <2>4. /\ curShm \in Gens /\ curSem \in Gens
        /\ runs \in 0 .. MaxRuns /\ intrs \in 0 .. MaxIntr /\ kills \in 0 .. MaxKills
    OBVIOUS
  <2>5. counter \in Int
    OBVIOUS
  <2>6. ende \in BOOLEAN
    BY Zenon
  <2>7. semop \in {0, -1}
    BY Zenon
  <2> QED
    BY <2>2, <2>3, <2>4, <2>5, <2>6, <2>7 DEF TypeOK
<1>2. IdInv
  BY DEF IdInv, Running
<1>3. LockInv
  BY DEF LockInv, Opened, Running, Holding
<1>4. MutualExclusion
  BY DEF MutualExclusion, Holding
<1>5. SlotInv
  BY DEF SlotInv, SlotOwner, SlotFull, SlotFree, SlotTaken, SlotLatest, SlotNew
<1>6. ExactlyOnce
  BY DEF ExactlyOnce
<1> QED
  BY <1>1, <1>2, <1>3, <1>4, <1>5, <1>6 DEF IndInv

-----------------------------------------------------------------------------
(* The numbers of segments and semaphores *)

\* Every step keeps to numbers that were handed out.
LEMMA IdStep == IndInv /\ [Next]_vars => IdInv'
<1> SUFFICES ASSUME TypeOK, IdInv, [Next]_vars PROVE IdInv'
  BY DEF IndInv
<1> USE ConstantsAssumption
    DEF IdInv, TypeOK, Procs, Gens, NoId, Goto, Running,
        shmVars, semVars, sendVars, recvVars, bounds
<1>1. ASSUME NEW s \in Senders, SendStart(s) PROVE IdInv'
  BY <1>1 DEF SendStart
<1>2. ASSUME NEW s \in Senders, SendSemget(s) PROVE IdInv'
  BY <1>2 DEF SendSemget
<1>3. ASSUME NEW s \in Senders, Lock(s) PROVE IdInv'
  BY <1>3 DEF Lock
<1>4. ASSUME NEW s \in Senders, LockFails(s) PROVE IdInv'
  BY <1>4 DEF LockFails
<1>5. ASSUME NEW s \in Senders, SendCheck(s) PROVE IdInv'
  BY <1>5 DEF SendCheck
<1>6. ASSUME NEW s \in Senders, SendBusy(s) PROVE IdInv'
  BY <1>6 DEF SendBusy
<1>7. ASSUME NEW s \in Senders, SendWrite(s) PROVE IdInv'
  BY <1>7 DEF SendWrite
<1>8. ASSUME NEW s \in Senders, SendUnlock(s) PROVE IdInv'
  BY <1>8 DEF SendUnlock
<1>9. ASSUME NEW s \in Senders, SendInput(s) PROVE IdInv'
  BY <1>9 DEF SendInput
<1>10. ASSUME NEW s \in Senders, SendExit(s) PROVE IdInv'
  BY <1>10 DEF SendExit
<1>11. ASSUME RecvStart PROVE IdInv'
  BY <1>11 DEF RecvStart
<1>12. ASSUME RecvSemget PROVE IdInv'
  BY <1>12 DEF RecvSemget
<1>13. ASSUME Lock(Rcv) PROVE IdInv'
  BY <1>13 DEF Lock
<1>14. ASSUME RecvCheck PROVE IdInv'
  BY <1>14 DEF RecvCheck
<1>15. ASSUME RecvTake PROVE IdInv'
  BY <1>15 DEF RecvTake
<1>16. ASSUME RecvClear PROVE IdInv'
  BY <1>16 DEF RecvClear
<1>17. ASSUME RecvUnlock PROVE IdInv'
  BY <1>17 DEF RecvUnlock
<1>18. ASSUME RecvWhile PROVE IdInv'
  BY <1>18 DEF RecvWhile
<1>19. ASSUME RecvRemoveShm PROVE IdInv'
  BY <1>19 DEF RecvRemoveShm
<1>20. ASSUME RecvRemoveSem PROVE IdInv'
  <2>1. curSem' = curSem + 1 /\ curSem <= runs /\ sem[Rcv] = curSem
    BY <1>20 DEF RecvRemoveSem
  <2>2. pc' = [pc EXCEPT ![Rcv] = "done"] /\ pc[Rcv] = "rmsem"
    BY <1>20 DEF RecvRemoveSem
  <2>3. UNCHANGED <<shm, sem, curShm, runs, semop, broken>>
    BY <1>20 DEF RecvRemoveSem
  <2>4. ASSUME NEW q \in Procs PROVE sem'[q] <= curSem'
    <3>1. sem[q] <= curSem /\ sem[q] \in Int /\ curSem \in Int
      OBVIOUS
    <3> QED
      BY <2>1, <2>3, <3>1
  <2> QED
    BY <2>1, <2>2, <2>3, <2>4
<1>21. ASSUME SigInt PROVE IdInv'
  BY <1>21 DEF SigInt
<1>22. ASSUME SigIntInLock PROVE IdInv'
  BY <1>22 DEF SigIntInLock
<1>23. ASSUME NEW p \in Killable, Kill(p) PROVE IdInv'
  BY <1>23 DEF Kill
<1>24. CASE UNCHANGED vars
  BY <1>24 DEF vars
<1>25. ASSUME NEW p \in Procs, Attach(p) PROVE IdInv'
  BY <1>25 DEF Attach
<1> QED
  BY <1>1, <1>2, <1>3, <1>4, <1>5, <1>6, <1>7, <1>8, <1>9, <1>10, <1>11, <1>12, <1>13, <1>14, <1>15, <1>16, <1>17, <1>18, <1>19, <1>20, <1>21, <1>22, <1>23, <1>24, <1>25
  DEF Next, Sender, Receiver, Procs
-----------------------------------------------------------------------------
(* Mutual exclusion *)

\* Whoever's lock operation succeeds finds nobody between lock and unlock.
LEMMA LockMeansFree ==
    ASSUME TypeOK, IdInv, LockInv, NEW p \in Procs, Lock(p), curSem \notin broken
    PROVE  /\ sem[p] = curSem
           /\ val'[curSem] = 0
           /\ \A q \in Procs : sem[q] = curSem => ~ Holding(q)
<1>1. sem[p] = curSem
  BY DEF Lock, Live, IdInv, TypeOK, Gens, NoId
<1>2. CASE p = Rcv /\ semop = 0
  <2>1. ~ Opened
    BY <1>2 DEF Lock, Opened
  <2>2. val'[curSem] = val[curSem] + 0
    BY <1>1, <1>2 DEF Lock, LockOp, TypeOK
  <2> QED
    BY <1>1, <2>1, <2>2 DEF LockInv
<1>3. CASE LockOp(p) = -1
  <2>1. val[curSem] = 1
    BY <1>1, <1>3 DEF Lock, WouldBlock, LockInv
  <2>2. val'[curSem] = val[curSem] + (-1)
    BY <1>1, <1>3 DEF Lock, TypeOK
  <2> QED
    BY <1>1, <2>1, <2>2 DEF LockInv
<1> QED
  BY <1>2, <1>3 DEF LockOp, TypeOK

\* Entering the critical section keeps the exclusion.
LEMMA LockKeepsExclusion ==
    ASSUME TypeOK, IdInv, LockInv, MutualExclusion, NEW p \in Procs, Lock(p)
    PROVE  MutualExclusion'
<1> SUFFICES ASSUME NEW a \in Procs, NEW b \in Procs, a # b,
                    Holding(a)', Holding(b)', sem[a] = sem[b], sem[a] \notin broken
             PROVE  FALSE
  BY DEF MutualExclusion, Lock
<1>1. \A q \in Procs \ {p} : Holding(q)' <=> Holding(q)
  BY DEF Holding, Lock, Goto, TypeOK
<1>2. CASE p \notin {a, b}
  BY <1>1, <1>2 DEF MutualExclusion
<1>3. CASE p \in {a, b}
  <2>1. sem[a] = curSem
    BY <1>3 DEF Lock, Live, IdInv, TypeOK, Gens, NoId
  <2>2. ~ Holding(a) /\ ~ Holding(b)
    BY <2>1, LockMeansFree
  <2> QED
    BY <1>1, <1>3, <2>2
<1> QED
  BY <1>2, <1>3

\* Every step keeps the exclusion.
LEMMA MutexStep == IndInv /\ [Next]_vars => MutualExclusion'
<1> SUFFICES ASSUME TypeOK, IdInv, LockInv, MutualExclusion, [Next]_vars
             PROVE  MutualExclusion'
  BY DEF IndInv
<1> USE ConstantsAssumption
    DEF MutualExclusion, Holding, TypeOK, Procs, Gens, NoId, Goto,
        shmVars, semVars, sendVars, recvVars, bounds
<1>1. ASSUME NEW s \in Senders, SendStart(s) PROVE MutualExclusion'
  BY <1>1 DEF SendStart
<1>2. ASSUME NEW s \in Senders, SendSemget(s) PROVE MutualExclusion'
  BY <1>2 DEF SendSemget, IdInv
<1>3. ASSUME NEW s \in Senders, Lock(s) PROVE MutualExclusion'
  BY <1>3, LockKeepsExclusion
<1>4. ASSUME NEW s \in Senders, LockFails(s) PROVE MutualExclusion'
  BY <1>4 DEF LockFails
<1>5. ASSUME NEW s \in Senders, SendCheck(s) PROVE MutualExclusion'
  BY <1>5 DEF SendCheck
<1>6. ASSUME NEW s \in Senders, SendBusy(s) PROVE MutualExclusion'
  BY <1>6 DEF SendBusy
<1>7. ASSUME NEW s \in Senders, SendWrite(s) PROVE MutualExclusion'
  BY <1>7 DEF SendWrite
<1>8. ASSUME NEW s \in Senders, SendUnlock(s) PROVE MutualExclusion'
  BY <1>8 DEF SendUnlock
<1>9. ASSUME NEW s \in Senders, SendInput(s) PROVE MutualExclusion'
  BY <1>9 DEF SendInput
<1>10. ASSUME NEW s \in Senders, SendExit(s) PROVE MutualExclusion'
  BY <1>10 DEF SendExit
<1>11. ASSUME RecvStart PROVE MutualExclusion'
  BY <1>11 DEF RecvStart, IdInv, Running
<1>12. ASSUME RecvSemget PROVE MutualExclusion'
  BY <1>12 DEF RecvSemget, IdInv, Running
<1>13. ASSUME Lock(Rcv) PROVE MutualExclusion'
  BY <1>13, LockKeepsExclusion
<1>14. ASSUME RecvCheck PROVE MutualExclusion'
  BY <1>14 DEF RecvCheck
<1>15. ASSUME RecvTake PROVE MutualExclusion'
  BY <1>15 DEF RecvTake
<1>16. ASSUME RecvClear PROVE MutualExclusion'
  BY <1>16 DEF RecvClear
<1>17. ASSUME RecvUnlock PROVE MutualExclusion'
  BY <1>17 DEF RecvUnlock
<1>18. ASSUME RecvWhile PROVE MutualExclusion'
  BY <1>18 DEF RecvWhile
<1>19. ASSUME RecvRemoveShm PROVE MutualExclusion'
  BY <1>19 DEF RecvRemoveShm
<1>20. ASSUME RecvRemoveSem PROVE MutualExclusion'
  BY <1>20 DEF RecvRemoveSem
<1>21. ASSUME SigInt PROVE MutualExclusion'
  BY <1>21 DEF SigInt
<1>22. ASSUME SigIntInLock PROVE MutualExclusion'
  BY <1>22 DEF SigIntInLock
<1>23. ASSUME NEW p \in Killable, Kill(p) PROVE MutualExclusion'
  BY <1>23 DEF Kill
<1>24. CASE UNCHANGED vars
  BY <1>24 DEF vars
<1>25. ASSUME NEW p \in Procs, Attach(p) PROVE MutualExclusion'
  BY <1>25 DEF Attach
<1> QED
  BY <1>1, <1>2, <1>3, <1>4, <1>5, <1>6, <1>7, <1>8, <1>9, <1>10, <1>11, <1>12, <1>13, <1>14, <1>15, <1>16, <1>17, <1>18, <1>19, <1>20, <1>21, <1>22, <1>23, <1>24, <1>25
  DEF Next, Sender, Receiver, Procs
\* A lock operation that succeeds leaves p as the only holder.
LEMMA LockKeepsLockInv ==
    ASSUME TypeOK, IdInv, LockInv, NEW p \in Procs, Lock(p)
    PROVE  LockInv'
<1> USE DEF TypeOK, Procs, Gens, NoId
<1>1. sem[p] = curSem /\ pc[p] = "lock"
  BY DEF Lock, Live, IdInv
<1>2. UNCHANGED <<curSem, sem, broken, semop>>
  BY DEF Lock, recvVars
<1>3. pc'[p] = "check" /\ \A q \in Procs \ {p} : pc'[q] = pc[q]
  BY DEF Lock, Goto
<1>4. \A g \in Gens \ {curSem} : val'[g] = val[g]
  BY <1>1 DEF Lock
<1>5. \A s \in Senders \ {p} : adj'[s] = adj[s]
  BY DEF Lock
<1>6. p # Rcv => adj'[p] = adj[p] + 1
  BY DEF Lock, LockOp
<1>7. ASSUME curSem \notin broken
      PROVE  /\ Opened'
             /\ val'[curSem] = 0
             /\ \A s \in Senders :
                  sem[s] = curSem => adj'[s] = IF Holding(s)' THEN 1 ELSE 0
  <2>1. val'[curSem] = 0 /\ ~ Holding(p)
    BY <1>1, <1>7, LockMeansFree
  <2>2. Opened'
    <3>1. CASE p = Rcv
      BY <1>1, <1>2, <1>3, <3>1 DEF Opened, Running
    <3>2. CASE p # Rcv
      <4>1. LockOp(p) = -1
        BY <3>2 DEF LockOp
      <4>2. val[curSem] = 1
        BY <1>1, <1>7, <4>1 DEF Lock, WouldBlock, LockInv
      <4>3. Opened
        BY <1>7, <4>2 DEF LockInv
      <4> QED
        BY <1>2, <1>3, <3>2, <4>3 DEF Opened, Running
    <3> QED
      BY <3>1, <3>2
  <2>3. ASSUME NEW s \in Senders, sem[s] = curSem
        PROVE  adj'[s] = IF Holding(s)' THEN 1 ELSE 0
    <3>1. CASE s = p
      BY <1>3, <1>6, <1>7, <2>1, <2>3, <3>1, ConstantsAssumption DEF LockInv, Holding
    <3>2. CASE s # p
      BY <1>3, <1>5, <1>7, <2>3, <3>2, SMTT(30) DEF LockInv, Holding
    <3> QED
      BY <3>1, <3>2
  <2> QED
    BY <2>1, <2>2, <2>3
<1>8. Holding(p)'
  BY <1>3 DEF Holding
<1>9. \A g \in Gens : g > curSem => val'[g] = 0
  BY <1>4 DEF LockInv
<1>10. \A s \in Senders : sem[s] = NoId => adj'[s] = 0
  BY <1>1, <1>5 DEF LockInv
<1> QED
  BY <1>1, <1>2, <1>7, <1>8, <1>9, <1>10 DEF LockInv

\* The unlock operation of a holder leaves the semaphore free.
LEMMA UpKeepsLockInv ==
    ASSUME TypeOK, IdInv, LockInv, MutualExclusion,
           NEW p \in Procs, Holding(p), Up(p),
           NEW l \in {"lock", "input", "exit", "while"}, Goto(p, l),
           p = Rcv => l = "while", p # Rcv => semop' = semop,
           UNCHANGED <<curSem, sem, broken>>
    PROVE  LockInv'
<1> USE DEF TypeOK, Procs, Gens, NoId
<1>1. pc'[p] = l /\ \A q \in Procs \ {p} : pc'[q] = pc[q]
  BY DEF Goto
<1>2. ~ Holding(p)' /\ \A q \in Procs \ {p} : Holding(q)' <=> Holding(q)
  BY <1>1 DEF Holding
<1>3. p = Rcv => sem[p] = curSem
  BY DEF IdInv, Running, Holding
<1>4. sem[p] \in Gens /\ sem[p] <= curSem
  BY <1>3 DEF IdInv, Holding
<1>5. CASE sem[p] = curSem
  <2>1. \A g \in Gens \ {curSem} : val'[g] = val[g]
    BY <1>5 DEF Up, Live
  <2>2. \A s \in Senders \ {p} : adj'[s] = adj[s]
    BY DEF Up
  <2>3. adj'[p] = adj[p] - 1
    BY <1>5 DEF Up, Live
  <2>4. ASSUME curSem \notin broken
        PROVE  /\ Opened'
               /\ val'[curSem] = 1
               /\ \A q \in Procs : sem[q] = curSem => ~ Holding(q)'
               /\ \A s \in Senders :
                    sem[s] = curSem => adj'[s] = IF Holding(s)' THEN 1 ELSE 0
    <3>1. Opened /\ val[curSem] = 0
      BY <1>5, <2>4 DEF LockInv
    <3>2. Opened'
      BY <1>1, <3>1 DEF Opened, Running
    <3>3. val'[curSem] = 1
      <4>1. Live(sem[p])
        BY <1>5 DEF Live
      <4>2. val' = [val EXCEPT ![curSem] = val[curSem] + 1]
        BY <1>5, <4>1 DEF Up
      <4> QED
        BY <3>1, <4>2
    <3>4. \A q \in Procs : sem[q] = curSem => ~ Holding(q)'
      BY <1>2, <1>5, <2>4 DEF MutualExclusion
    <3>5. ASSUME NEW s \in Senders, sem[s] = curSem
          PROVE  adj'[s] = IF Holding(s)' THEN 1 ELSE 0
      BY <1>2, <2>2, <2>3, <2>4, <3>5, SMTT(30) DEF LockInv
    <3> QED
      BY <3>2, <3>3, <3>4, <3>5
  <2>5. \A g \in Gens : g > curSem => val'[g] = 0
    BY <2>1 DEF LockInv
  <2>6. \A s \in Senders : sem[s] = NoId => adj'[s] = 0
    BY <1>5, <2>2 DEF LockInv
  <2> QED
    BY <2>4, <2>5, <2>6 DEF LockInv
<1>6. CASE sem[p] # curSem
  <2>1. UNCHANGED <<val, adj>>
    BY <1>4, <1>6 DEF Up, Live
  <2>2. Opened' <=> Opened
    BY <1>1, <1>3, <1>6 DEF Opened, Running
  <2>3. \A q \in Procs : sem[q] = curSem => (Holding(q)' <=> Holding(q))
    BY <1>2, <1>6
  <2> QED
    BY <2>1, <2>2, <2>3 DEF LockInv
<1> QED
  BY <1>5, <1>6

\* What the kernel undoes when a process ends makes the semaphore free if that
\* process held it and leaves it alone otherwise; a killed receiver does not
\* count, its semaphore is broken.
LEMMA UndoKeepsLockInv ==
    ASSUME TypeOK, IdInv, LockInv, MutualExclusion,
           NEW p \in Procs, Running(p), Undo(p),
           NEW l \in {"done", "dead"}, Goto(p, l),
           p = Rcv /\ sem[p] # NoId => sem[p] \in broken',
           broken \subseteq broken',
           UNCHANGED <<curSem, sem, semop>>
    PROVE  LockInv'
<1> USE DEF TypeOK, Procs, Gens, NoId
<1>1. pc'[p] = l /\ \A q \in Procs \ {p} : pc'[q] = pc[q]
  BY DEF Goto
<1>2. ~ Holding(p)' /\ \A q \in Procs \ {p} : Holding(q)' <=> Holding(q)
  BY <1>1 DEF Holding
<1>3. \A s \in Senders \ {p} : adj'[s] = adj[s]
  BY DEF Undo
<1>4. sem[p] = curSem => adj'[p] = 0
  BY DEF Undo, Live
<1>5. \A g \in Gens \ {sem[p]} : val'[g] = val[g]
  BY DEF Undo
<1>6. sem[p] # curSem => UNCHANGED <<val, adj>>
  BY DEF Undo, Live, IdInv
<1>7. ASSUME NEW g \in Gens, g > curSem PROVE val'[g] = 0
  <2>1. g # sem[p]
    BY <1>7 DEF IdInv
  <2> QED
    BY <1>5, <1>7, <2>1 DEF LockInv
<1>8. \A s \in Senders : sem[s] = NoId => adj'[s] = 0
  BY <1>3, <1>4, <1>6 DEF LockInv
<1>9. ASSUME curSem \notin broken'
      PROVE  /\ Opened' <=> Opened
             /\ val'[curSem] \in {0, 1}
             /\ ~ Opened => /\ val'[curSem] = 0
                            /\ \A q \in Procs : sem[q] = curSem => ~ Holding(q)'
             /\ val'[curSem] = 1 <=> /\ Opened
                                     /\ \A q \in Procs :
                                          sem[q] = curSem => ~ Holding(q)'
             /\ \A s \in Senders :
                  sem[s] = curSem => adj'[s] = IF Holding(s)' THEN 1 ELSE 0
  <2>1. curSem \notin broken
    BY <1>9
  <2>2. p = Rcv => sem[p] # curSem
    BY <1>9
  <2>3. Opened' <=> Opened
    BY <1>1, <2>2 DEF Opened, Running
  <2>4. CASE sem[p] # curSem
    <3>1. UNCHANGED <<val, adj>>
      BY <1>6, <2>4
    <3>2. \A q \in Procs : sem[q] = curSem => (Holding(q)' <=> Holding(q))
      BY <1>2, <2>4
    <3> QED
      BY <2>1, <2>3, <3>1, <3>2 DEF LockInv
  <2>5. CASE sem[p] = curSem
    <3>1. p \in Senders /\ adj[p] = IF Holding(p) THEN 1 ELSE 0
      BY <2>1, <2>2, <2>5 DEF LockInv
    <3>2. val'[curSem] = IF Holding(p) THEN 1 ELSE val[curSem]
      <4>1. Holding(p) => val[curSem] = 0
        BY <2>1, <2>5 DEF LockInv
      <4>2. val[curSem] \in {0, 1}
        BY <2>1 DEF LockInv
      <4> QED
        <5>1. Live(sem[p])
          BY <2>5 DEF Live
        <5>2. val' = [val EXCEPT ![curSem] = IF val[curSem] + adj[p] < 0
                                             THEN 0 ELSE val[curSem] + adj[p]]
          BY <2>5, <5>1 DEF Undo
        <5> QED
          BY <3>1, <4>1, <4>2, <5>2
    <3>3. \A s \in Senders :
            sem[s] = curSem => adj'[s] = IF Holding(s)' THEN 1 ELSE 0
      BY <1>2, <1>3, <1>4, <2>1, <2>5 DEF LockInv
    <3>4. CASE Holding(p)
      <4>1. Opened
        BY <2>1, <2>5, <3>4 DEF LockInv
      <4>2. \A q \in Procs : sem[q] = curSem => ~ Holding(q)'
        BY <1>2, <2>1, <2>5, <3>4 DEF MutualExclusion
      <4> QED
        BY <2>3, <3>2, <3>3, <3>4, <4>1, <4>2
    <3>5. CASE ~ Holding(p)
      <4>1. \A q \in Procs : Holding(q)' <=> Holding(q)
        BY <1>2, <3>5
      <4> QED
        BY <2>1, <2>3, <3>2, <3>3, <3>5, <4>1 DEF LockInv
    <3> QED
      BY <3>4, <3>5
  <2> QED
    BY <2>4, <2>5
<1> QED
  BY <1>7, <1>8, <1>9 DEF LockInv

\* Every step keeps the value of the semaphore in step with its holder.
LEMMA LockStep == IndInv /\ [Next]_vars => LockInv'
<1> SUFFICES ASSUME TypeOK, IdInv, LockInv, MutualExclusion, [Next]_vars
             PROVE  LockInv'
  BY DEF IndInv
<1> USE ConstantsAssumption
    DEF LockInv, IdInv, Opened, Running, MutualExclusion, Holding, TypeOK, Procs,
        Gens, NoId, Goto, shmVars, semVars, sendVars, recvVars, bounds
<1>1. ASSUME NEW s \in Senders, SendStart(s) PROVE LockInv'
  BY <1>1 DEF SendStart
<1>2. ASSUME NEW s \in Senders, SendSemget(s) PROVE LockInv'
  BY <1>2 DEF SendSemget
<1>3. ASSUME NEW s \in Senders, Lock(s) PROVE LockInv'
  BY <1>3, LockKeepsLockInv
<1>4. ASSUME NEW s \in Senders, LockFails(s) PROVE LockInv'
  BY <1>4 DEF LockFails
<1>5. ASSUME NEW s \in Senders, SendCheck(s) PROVE LockInv'
  BY <1>5 DEF SendCheck
<1>6. ASSUME NEW s \in Senders, SendBusy(s) PROVE LockInv'
  BY <1>6, UpKeepsLockInv DEF SendBusy
<1>7. ASSUME NEW s \in Senders, SendWrite(s) PROVE LockInv'
  BY <1>7 DEF SendWrite
<1>8. ASSUME NEW s \in Senders, SendUnlock(s) PROVE LockInv'
  BY <1>8, UpKeepsLockInv DEF SendUnlock
<1>9. ASSUME NEW s \in Senders, SendInput(s) PROVE LockInv'
  BY <1>9 DEF SendInput
<1>10. ASSUME NEW s \in Senders, SendExit(s) PROVE LockInv'
  BY <1>10, UndoKeepsLockInv DEF SendExit
<1>11. ASSUME RecvStart PROVE LockInv'
  BY <1>11 DEF RecvStart
<1>12. ASSUME RecvSemget PROVE LockInv'
  BY <1>12 DEF RecvSemget
<1>13. ASSUME Lock(Rcv) PROVE LockInv'
  BY <1>13, LockKeepsLockInv
<1>14. ASSUME RecvCheck PROVE LockInv'
  BY <1>14 DEF RecvCheck
<1>15. ASSUME RecvTake PROVE LockInv'
  BY <1>15 DEF RecvTake
<1>16. ASSUME RecvClear PROVE LockInv'
  BY <1>16 DEF RecvClear
<1>17. ASSUME RecvUnlock PROVE LockInv'
  BY <1>17, UpKeepsLockInv DEF RecvUnlock
<1>18. ASSUME RecvWhile PROVE LockInv'
  BY <1>18 DEF RecvWhile
<1>19. ASSUME RecvRemoveShm PROVE LockInv'
  BY <1>19 DEF RecvRemoveShm
<1>20. ASSUME RecvRemoveSem PROVE LockInv'
  BY <1>20 DEF RecvRemoveSem
<1>21. ASSUME SigInt PROVE LockInv'
  BY <1>21 DEF SigInt
<1>22. ASSUME SigIntInLock PROVE LockInv'
  BY <1>22 DEF SigIntInLock
<1>23. ASSUME NEW p \in Killable, Kill(p) PROVE LockInv'
  BY <1>23, UndoKeepsLockInv DEF Kill
<1>24. CASE UNCHANGED vars
  BY <1>24 DEF vars
<1>25. ASSUME NEW p \in Procs, Attach(p) PROVE LockInv'
  BY <1>25 DEF Attach
<1> QED
  BY <1>1, <1>2, <1>3, <1>4, <1>5, <1>6, <1>7, <1>8, <1>9, <1>10, <1>11, <1>12, <1>13, <1>14, <1>15, <1>16, <1>17, <1>18, <1>19, <1>20, <1>21, <1>22, <1>23, <1>24, <1>25
  DEF Next, Sender, Receiver, Procs
-----------------------------------------------------------------------------
(* The contents of the segment *)

\* A generation whose exclusion is lost does not get it back.
LEMMA ExclusiveShrinks ==
    ASSUME TypeOK, IdInv, [Next]_vars, NEW g \in Gens, Exclusive(g)'
    PROVE  Exclusive(g)
<1> USE DEF Exclusive, IdInv, TypeOK, Procs, Gens, NoId, Running,
            shmVars, semVars, sendVars, recvVars, bounds
<1>1. ASSUME NEW s \in Senders, SendStart(s) PROVE Exclusive(g)
  BY <1>1 DEF SendStart
<1>2. ASSUME NEW s \in Senders, SendSemget(s) PROVE Exclusive(g)
  BY <1>2 DEF SendSemget
<1>3. ASSUME NEW s \in Senders, Lock(s) PROVE Exclusive(g)
  BY <1>3 DEF Lock
<1>4. ASSUME NEW s \in Senders, LockFails(s) PROVE Exclusive(g)
  BY <1>4 DEF LockFails
<1>5. ASSUME NEW s \in Senders, SendCheck(s) PROVE Exclusive(g)
  BY <1>5 DEF SendCheck
<1>6. ASSUME NEW s \in Senders, SendBusy(s) PROVE Exclusive(g)
  BY <1>6 DEF SendBusy
<1>7. ASSUME NEW s \in Senders, SendWrite(s) PROVE Exclusive(g)
  BY <1>7 DEF SendWrite
<1>8. ASSUME NEW s \in Senders, SendUnlock(s) PROVE Exclusive(g)
  BY <1>8 DEF SendUnlock
<1>9. ASSUME NEW s \in Senders, SendInput(s) PROVE Exclusive(g)
  BY <1>9 DEF SendInput
<1>10. ASSUME NEW s \in Senders, SendExit(s) PROVE Exclusive(g)
  BY <1>10 DEF SendExit
<1>11. ASSUME RecvStart PROVE Exclusive(g)
  BY <1>11 DEF RecvStart
<1>12. ASSUME RecvSemget PROVE Exclusive(g)
  BY <1>12 DEF RecvSemget
<1>13. ASSUME Lock(Rcv) PROVE Exclusive(g)
  BY <1>13 DEF Lock
<1>14. ASSUME RecvCheck PROVE Exclusive(g)
  BY <1>14 DEF RecvCheck
<1>15. ASSUME RecvTake PROVE Exclusive(g)
  BY <1>15 DEF RecvTake
<1>16. ASSUME RecvClear PROVE Exclusive(g)
  BY <1>16 DEF RecvClear
<1>17. ASSUME RecvUnlock PROVE Exclusive(g)
  BY <1>17 DEF RecvUnlock
<1>18. ASSUME RecvWhile PROVE Exclusive(g)
  BY <1>18 DEF RecvWhile
<1>19. ASSUME RecvRemoveShm PROVE Exclusive(g)
  BY <1>19 DEF RecvRemoveShm
<1>20. ASSUME RecvRemoveSem PROVE Exclusive(g)
  BY <1>20 DEF RecvRemoveSem
<1>21. ASSUME SigInt PROVE Exclusive(g)
  BY <1>21 DEF SigInt
<1>22. ASSUME SigIntInLock PROVE Exclusive(g)
  BY <1>22 DEF SigIntInLock
<1>23. ASSUME NEW p \in Killable, Kill(p) PROVE Exclusive(g)
  BY <1>23 DEF Kill
<1>24. CASE UNCHANGED vars
  BY <1>24 DEF vars
<1>25. ASSUME NEW p \in Procs, Attach(p) PROVE Exclusive(g)
  BY <1>25 DEF Attach
<1> QED
  BY <1>1, <1>2, <1>3, <1>4, <1>5, <1>6, <1>7, <1>8, <1>9, <1>10, <1>11, <1>12, <1>13, <1>14, <1>15, <1>16, <1>17, <1>18, <1>19, <1>20, <1>21, <1>22, <1>23, <1>24, <1>25
  DEF Next, Sender, Receiver, Procs

\* Two processes that work on a segment whose exclusion holds are not both
\* between lock and unlock.
LEMMA OnlyHolder ==
    ASSUME MutualExclusion, NEW p \in Procs, NEW q \in Procs,
           Holding(p), Holding(q), shm[p] = shm[q], Exclusive(shm[p]),
           sem[p] # NoId, sem[q] # NoId
    PROVE  p = q
BY DEF MutualExclusion, Exclusive

\* Whoever is between lock and unlock has a segment and a semaphore.
LEMMA HolderHasIds ==
    ASSUME TypeOK, IdInv, NEW p \in Procs, Holding(p)
    PROVE  sem[p] # NoId /\ shm[p] # NoId /\ shm[p] \in Gens
BY SMTT(30) DEF TypeOK, IdInv, Holding, Running, Procs, Gens, NoId

\* Appending makes a sequence longer by one.
LEMMA AppendLen ==
    ASSUME NEW S, NEW q \in Seq(S), NEW e \in S
    PROVE  Len(Append(q, e)) = Len(q) + 1
OBVIOUS

\* A generation is a number other than NoId.
LEMMA GenIsId == \A g \in Gens : g # NoId
BY DEF Gens, NoId

\* Steps that touch neither the messages nor what a process has seen of them.
LEMMA SlotFrame ==
    ASSUME TypeOK, SlotInv, \A g \in Gens : Exclusive(g)' => Exclusive(g),
           TypeOK', UNCHANGED <<seg, n, got>>,
           \A s \in Senders : shm[s] # NoId => shm'[s] = shm[s],
           \A s \in Senders : sem[s] # NoId => sem'[s] # NoId,
           \A s \in Senders : pc'[s] = "write" =>
                                pc[s] = "write" /\ shm'[s] = shm[s],
           pc'[Rcv] \in {"take", "clear"} =>
               pc'[Rcv] = pc[Rcv] /\ shm'[Rcv] = shm[Rcv] /\ shm[Rcv] # NoId,
           \A s \in Senders : pc[s] = "write" => shm[s] # NoId
    PROVE  SlotInv'
<1>0. \A g \in Gens : seg[g] # Empty => seg[g].from \in Senders
  BY DEF Message, TypeOK
<1>1. SlotOwner'
  BY <1>0, GenIsId DEF SlotInv, SlotOwner
<1>2. SlotFull'
  BY DEF SlotInv, SlotFull
<1>3. SlotFree'
  BY DEF SlotInv, SlotFree, TypeOK, Procs
<1>4. SlotTaken'
  <2> SUFFICES ASSUME pc'[Rcv] = "clear", Exclusive(shm[Rcv])'
               PROVE  Len(got[seg[shm[Rcv]].from]) = seg[shm[Rcv]].n
    BY DEF SlotTaken
  <2>1. shm'[Rcv] = shm[Rcv] /\ shm[Rcv] \in Gens /\ pc[Rcv] = "clear"
    BY DEF TypeOK, Procs
  <2> QED
    BY <2>1 DEF SlotInv, SlotTaken
<1>5. SlotLatest'
  <2> SUFFICES ASSUME NEW s \in Senders, shm'[s] # NoId, Exclusive(shm[s])',
                      seg'[shm'[s]] # Empty, seg'[shm'[s]].from = s
               PROVE  seg'[shm'[s]].n = n'[s]
    BY DEF SlotLatest
  <2>1. shm'[s] \in Gens
    BY DEF TypeOK, Procs
  <2>2. shm[s] = shm'[s]
    BY <2>1 DEF SlotInv, SlotOwner
  <2>3. Exclusive(shm[s])
    BY <2>1, <2>2
  <2> QED
    BY <2>2, <2>3 DEF SlotInv, SlotLatest
<1>6. SlotNew'
  BY DEF SlotInv, SlotNew
<1> QED
  BY <1>1, <1>2, <1>3, <1>4, <1>5, <1>6 DEF SlotInv

\* Every step keeps the segments and what the processes have seen of them in step.
LEMMA SlotStep == IndInv /\ [Next]_vars => SlotInv'
<1> SUFFICES ASSUME IndInv, [Next]_vars
             PROVE  SlotInv'
  OBVIOUS
<1>e. \A g \in Gens : Exclusive(g)' => Exclusive(g)
  BY ExclusiveShrinks DEF IndInv
<1>t. TypeOK /\ IdInv /\ MutualExclusion /\ SlotInv /\ TypeOK'
  BY TypeStep DEF IndInv
<1>w. /\ \A s \in Senders : pc[s] = "write" => shm[s] # NoId
      /\ pc[Rcv] \in {"take", "clear"} => shm[Rcv] # NoId
  BY <1>t, HolderHasIds DEF Holding, Procs
<1>1. ASSUME NEW s \in Senders, SendStart(s) PROVE SlotInv'
  BY <1>1, <1>e, <1>t, <1>w, SlotFrame DEF SendStart, Goto, IdInv, TypeOK, Procs, NoId, Running, shmVars, semVars, sendVars, recvVars, bounds
<1>2. ASSUME NEW s \in Senders, SendSemget(s) PROVE SlotInv'
  BY <1>2, <1>e, <1>t, <1>w, SlotFrame DEF SendSemget, Goto, IdInv, TypeOK, Procs, NoId, Running, shmVars, semVars, sendVars, recvVars, bounds
<1>3. ASSUME NEW s \in Senders, Lock(s) PROVE SlotInv'
  BY <1>3, <1>e, <1>t, <1>w, SlotFrame DEF Lock, Goto, IdInv, TypeOK, Procs, NoId, Running, shmVars, semVars, sendVars, recvVars, bounds
<1>4. ASSUME NEW s \in Senders, LockFails(s) PROVE SlotInv'
  BY <1>4, <1>e, <1>t, <1>w, SlotFrame DEF LockFails, Goto, IdInv, TypeOK, Procs, NoId, Running, shmVars, semVars, sendVars, recvVars, bounds
<1>5. ASSUME NEW s \in Senders, SendCheck(s) PROVE SlotInv'
  <2> USE <1>5, <1>e, <1>t DEF SendCheck, SlotInv, TypeOK, Procs, Goto,
                          shmVars, semVars, sendVars, recvVars, bounds
  <2>1. SlotOwner' /\ SlotLatest' /\ SlotNew'
    BY HolderHasIds DEF SlotOwner, SlotLatest, SlotNew, Gens, NoId
  <2>2. UNCHANGED <<seg, got>> /\ pc'[Rcv] = pc[Rcv]
    BY ConstantsAssumption
  <2>3. SlotFull' /\ SlotTaken'
    BY <1>w, <2>2 DEF SlotFull, SlotTaken, NoId
  <2>4. SlotFree'
    BY <1>w, HolderHasIds DEF SlotFree, Holding, NoId
  <2> QED
    BY <2>1, <2>3, <2>4
<1>6. ASSUME NEW s \in Senders, SendBusy(s) PROVE SlotInv'
  BY <1>6, <1>e, <1>t, <1>w, SlotFrame DEF SendBusy, Goto, IdInv, TypeOK, Procs, NoId, Running, shmVars, semVars, sendVars, recvVars, bounds
<1>7. ASSUME NEW s \in Senders, SendWrite(s) PROVE SlotInv'
  <2> DEFINE g == shm[s]
             m == NextMessage(s)
  <2> USE <1>7, <1>e, <1>t DEF SendWrite
  <2>1. /\ s \in Procs /\ g \in Gens /\ g # NoId /\ sem[s] # NoId /\ Holding(s)
        /\ UNCHANGED <<shm, sem, got, broken>>
    BY HolderHasIds DEF Holding, Procs, shmVars, semVars
  <2>2. seg' = [seg EXCEPT ![g] = m] /\ n' = [n EXCEPT ![s] = n[s] + 1]
    OBVIOUS
  <2>3. m.from = s /\ m.n = n[s] + 1 /\ m \in Message
    BY SMTT(30) DEF NextMessage, Message, TypeOK
  <2>4. m # Empty
    BY <2>3, EmptyIsNoMessage
  <2>5. /\ pc'[s] = "unlock"
        /\ \A q \in Procs \ {s} : pc'[q] = pc[q]
        /\ pc'[Rcv] = pc[Rcv]
    BY <2>1, ConstantsAssumption DEF Goto, TypeOK, Procs
  <2>6. SlotOwner'
    <3> SUFFICES ASSUME NEW h \in Gens, seg'[h] # Empty
                 PROVE  shm[seg'[h].from] = h /\ sem[seg'[h].from] # NoId
      BY <2>1 DEF SlotOwner
    <3>1. CASE h = g
      BY <2>1, <2>2, <2>3, <3>1 DEF TypeOK
    <3>2. CASE h # g
      <4>1. seg'[h] = seg[h]
        BY <2>2, <3>2 DEF TypeOK
      <4> QED
        BY <4>1 DEF SlotInv, SlotOwner
    <3> QED
      BY <3>1, <3>2
  <2>7. SlotFull'
    <3> SUFFICES ASSUME pc[Rcv] \in {"take", "clear"}
                 PROVE  seg'[shm[Rcv]] # Empty
      BY <2>1, <2>5 DEF SlotFull
    <3>1. shm[Rcv] \in Gens /\ seg[shm[Rcv]] # Empty
      BY <1>w DEF SlotInv, SlotFull, TypeOK, Procs
    <3> QED
      BY <2>2, <2>4, <3>1 DEF TypeOK
  <2>8. SlotFree'
    <3> SUFFICES ASSUME NEW q \in Senders, pc'[q] = "write", Exclusive(shm[q])'
                 PROVE  seg'[shm[q]] = Empty
      BY <2>1 DEF SlotFree
    <3>1. q \in Procs /\ q # s /\ pc[q] = "write"
      BY <2>5 DEF Procs
    <3>2. Holding(q) /\ shm[q] \in Gens /\ sem[q] # NoId
      BY <3>1, HolderHasIds DEF Holding
    <3>3. Exclusive(shm[q]) /\ shm[q] # g
      BY <2>1, <3>1, <3>2, OnlyHolder
    <3>4. seg'[shm[q]] = seg[shm[q]]
      BY <2>2, <3>2, <3>3 DEF TypeOK
    <3> QED
      BY <3>1, <3>3, <3>4 DEF SlotInv, SlotFree
  <2>9. SlotTaken'
    <3> SUFFICES ASSUME pc'[Rcv] = "clear", Exclusive(shm[Rcv])'
                 PROVE  Len(got[seg'[shm[Rcv]].from]) = seg'[shm[Rcv]].n
      BY <2>1 DEF SlotTaken
    <3>1. Rcv \in Procs /\ Rcv # s /\ Holding(Rcv)
      BY <2>5, ConstantsAssumption DEF Procs, Holding
    <3>2. shm[Rcv] \in Gens /\ sem[Rcv] # NoId
      BY <3>1, HolderHasIds
    <3>3. Exclusive(shm[Rcv]) /\ shm[Rcv] # g
      BY <2>1, <3>1, <3>2, OnlyHolder
    <3> QED
      BY <2>2, <2>5, <3>3, SMTT(30) DEF SlotInv, SlotTaken, TypeOK
  <2>10. SlotLatest'
    <3> SUFFICES ASSUME NEW q \in Senders, shm[q] # NoId, Exclusive(shm[q])',
                        seg'[shm[q]] # Empty, seg'[shm[q]].from = q
                 PROVE  seg'[shm[q]].n = n'[q]
      BY <2>1 DEF SlotLatest
    <3>1. CASE q = s
      BY <2>1, <2>2, <2>3, <3>1 DEF TypeOK
    <3>2. CASE q # s
      <4>1. shm[q] \in Gens
        BY DEF TypeOK, Procs
      <4>2. shm[q] # g
        BY <2>1, <2>2, <2>3, <3>2 DEF TypeOK
      <4>3. seg'[shm[q]] = seg[shm[q]] /\ n'[q] = n[q]
        BY <2>2, <3>2, <4>1, <4>2 DEF TypeOK
      <4> QED
        BY <4>1, <4>3 DEF SlotInv, SlotLatest
    <3> QED
      BY <3>1, <3>2
  <2>11. SlotNew'
    BY <2>1, <2>2 DEF SlotInv, SlotNew, TypeOK
  <2> QED
    BY <2>6, <2>7, <2>8, <2>9, <2>10, <2>11 DEF SlotInv
<1>8. ASSUME NEW s \in Senders, SendUnlock(s) PROVE SlotInv'
  BY <1>8, <1>e, <1>t, <1>w, SlotFrame DEF SendUnlock, Goto, IdInv, TypeOK, Procs, NoId, Running, shmVars, semVars, sendVars, recvVars, bounds
<1>9. ASSUME NEW s \in Senders, SendInput(s) PROVE SlotInv'
  BY <1>9, <1>e, <1>t, <1>w, SlotFrame DEF SendInput, Goto, IdInv, TypeOK, Procs, NoId, Running, shmVars, semVars, sendVars, recvVars, bounds
<1>10. ASSUME NEW s \in Senders, SendExit(s) PROVE SlotInv'
  BY <1>10, <1>e, <1>t, <1>w, SlotFrame DEF SendExit, Goto, IdInv, TypeOK, Procs, NoId, Running, shmVars, semVars, sendVars, recvVars, bounds
<1>11. ASSUME RecvStart PROVE SlotInv'
  <2>1. \A s \in Senders : shm'[s] = shm[s] /\ sem'[s] = sem[s] /\ pc'[s] = pc[s]
    BY <1>11, <1>t, ConstantsAssumption DEF RecvStart, Goto, TypeOK, Procs
  <2>2. pc'[Rcv] = "shmat" /\ UNCHANGED <<seg, n, got>>
    BY <1>11, <1>t DEF RecvStart, Goto, TypeOK, Procs, sendVars
  <2> QED
    BY <1>e, <1>t, <1>w, <2>1, <2>2, SlotFrame
<1>12. ASSUME RecvSemget PROVE SlotInv'
  BY <1>12, <1>e, <1>t, <1>w, SlotFrame DEF RecvSemget, Goto, IdInv, TypeOK, Procs, NoId, Running, shmVars, semVars, sendVars, recvVars, bounds
<1>13. ASSUME Lock(Rcv) PROVE SlotInv'
  BY <1>13, <1>e, <1>t, <1>w, SlotFrame DEF Lock, Goto, IdInv, TypeOK, Procs, NoId, Running, shmVars, semVars, sendVars, recvVars, bounds
<1>14. ASSUME RecvCheck PROVE SlotInv'
  <2> USE <1>14, <1>e, <1>t DEF RecvCheck
  <2>1. Rcv \in Procs /\ \A s \in Senders : pc'[s] = pc[s]
    BY ConstantsAssumption DEF Goto, TypeOK, Procs
  <2>2. /\ UNCHANGED <<seg, shm, sem, n, got>>
        /\ pc'[Rcv] = "take" => seg[shm[Rcv]] # Empty
        /\ pc'[Rcv] \in {"unlock", "take"}
    BY <2>1 DEF Goto, TypeOK, shmVars, semVars, sendVars
  <2>3. SlotOwner' /\ SlotNew'
    BY <2>2 DEF SlotInv, SlotOwner, SlotNew
  <2>4. SlotFull' /\ SlotTaken'
    BY <2>2 DEF SlotFull, SlotTaken
  <2>5. SlotFree'
    BY <1>w, <2>1, <2>2, SMTT(30) DEF SlotInv, SlotFree, TypeOK, Procs
  <2>6. SlotLatest'
    BY <2>1, <2>2 DEF SlotInv, SlotLatest, TypeOK, Procs
  <2> QED
    BY <2>3, <2>4, <2>5, <2>6 DEF SlotInv
<1>15. ASSUME RecvTake PROVE SlotInv'
  <2> DEFINE g == shm[Rcv]
             m == seg[g]
  <2> USE <1>15, <1>e, <1>t DEF RecvTake
  <2>1. Rcv \in Procs /\ Holding(Rcv) /\ g \in Gens /\ pc[Rcv] = "take"
    BY HolderHasIds DEF Holding, Procs
  <2>2. /\ \A s \in Senders : pc'[s] = pc[s]
        /\ pc'[Rcv] = "clear"
        /\ UNCHANGED <<seg, shm, sem, n, broken>>
    BY <2>1, ConstantsAssumption DEF Goto, TypeOK, Procs, shmVars, semVars, sendVars
  <2>3. m \in Message /\ m # Empty
    BY <2>1 DEF SlotInv, SlotFull, TypeOK
  <2>4. got' = [got EXCEPT ![m.from] = Append(got[m.from], m)]
    OBVIOUS
  <2>5. m.from \in Senders /\ m.n \in Nat
    BY <2>3 DEF Message
  <2> HIDE <1>15 DEF RecvTake
  <2>6. SlotOwner' /\ SlotFull'
    BY <2>2, <2>3 DEF SlotInv, SlotOwner, SlotFull
  <2>7. SlotFree' /\ SlotLatest'
    <3>1. SlotFree'
      BY <1>w, <2>2, SMTT(30) DEF SlotInv, SlotFree, TypeOK, Procs
    <3>2. SlotLatest'
      <4> SUFFICES ASSUME NEW s \in Senders, shm[s] # NoId, Exclusive(shm[s])',
                          seg[shm[s]] # Empty, seg[shm[s]].from = s
                   PROVE  seg[shm[s]].n = n[s]
        BY <2>2 DEF SlotLatest
      <4>1. shm[s] \in Gens
        BY DEF TypeOK, Procs
      <4>2. Exclusive(shm[s])
        BY <2>2, <4>1
      <4> QED
        BY <4>2 DEF SlotInv, SlotLatest
    <3> QED
      BY <3>1, <3>2
  <2>8. SlotNew'
    <3>1. shm[m.from] = g /\ g # NoId
      BY <2>1, <2>3 DEF SlotInv, SlotOwner, Gens, NoId
    <3> QED
      BY <2>2, <2>4, <3>1 DEF SlotInv, SlotNew, TypeOK
  <2>9. SlotTaken'
    <3> SUFFICES ASSUME Exclusive(g)
                 PROVE  Len(got'[m.from]) = m.n
      BY <2>1, <2>2 DEF SlotTaken
    <3>1. shm[m.from] = g /\ g # NoId
      BY <2>1, <2>3 DEF SlotInv, SlotOwner, Gens, NoId
    <3>2. m.n = n[m.from]
      BY <2>3, <2>5, <3>1 DEF SlotInv, SlotLatest
    <3>3. n[m.from] = Len(got[m.from]) + 1
      BY <2>1, <2>3, <2>5, <3>1 DEF IndInv, ExactlyOnce, Pending
    <3>4. got'[m.from] = Append(got[m.from], m) /\ got[m.from] \in Seq(Message)
      BY <2>4, <2>5 DEF TypeOK
    <3>5. Len(got'[m.from]) = Len(got[m.from]) + 1
      BY <2>3, <3>4, AppendLen
    <3> QED
      BY <3>2, <3>3, <3>5
  <2> QED
    BY <2>6, <2>7, <2>8, <2>9 DEF SlotInv
<1>16. ASSUME RecvClear PROVE SlotInv'
  <2> DEFINE g == shm[Rcv]
  <2> USE <1>16, <1>e, <1>t DEF RecvClear
  <2>1. Rcv \in Procs /\ Holding(Rcv) /\ g \in Gens
    BY HolderHasIds DEF Holding, Procs
  <2>2. /\ \A s \in Senders : pc'[s] = pc[s]
        /\ pc'[Rcv] = "unlock"
        /\ UNCHANGED <<shm, sem, n, got, broken>>
        /\ seg' = [seg EXCEPT ![g] = Empty]
    BY <2>1, ConstantsAssumption DEF Goto, TypeOK, Procs, semVars, sendVars
  <2>3. \A h \in Gens : seg'[h] = Empty \/ seg'[h] = seg[h]
    BY <2>2 DEF TypeOK
  <2>4. SlotOwner' /\ SlotFull' /\ SlotTaken' /\ SlotNew'
    BY <2>2, <2>3 DEF SlotInv, SlotOwner, SlotFull, SlotTaken, SlotNew
  <2>5. SlotFree'
    BY <1>w, <2>2, <2>3, SMTT(30) DEF SlotInv, SlotFree, TypeOK, Procs
  <2>6. SlotLatest'
    <3> SUFFICES ASSUME NEW s \in Senders, shm[s] # NoId, Exclusive(shm[s])',
                        seg'[shm[s]] # Empty, seg'[shm[s]].from = s
                 PROVE  seg'[shm[s]].n = n[s]
      BY <2>2 DEF SlotLatest
    <3>1. shm[s] \in Gens
      BY DEF TypeOK, Procs
    <3> QED
      BY <2>3, <3>1 DEF SlotInv, SlotLatest
  <2> QED
    BY <2>4, <2>5, <2>6 DEF SlotInv
<1>17. ASSUME RecvUnlock PROVE SlotInv'
  BY <1>17, <1>e, <1>t, <1>w, SlotFrame DEF RecvUnlock, Goto, IdInv, TypeOK, Procs, NoId, Running, shmVars, semVars, sendVars, recvVars, bounds
<1>18. ASSUME RecvWhile PROVE SlotInv'
  BY <1>18, <1>e, <1>t, <1>w, SlotFrame DEF RecvWhile, Goto, IdInv, TypeOK, Procs, NoId, Running, shmVars, semVars, sendVars, recvVars, bounds
<1>19. ASSUME RecvRemoveShm PROVE SlotInv'
  BY <1>19, <1>e, <1>t, <1>w, SlotFrame DEF RecvRemoveShm, Goto, IdInv, TypeOK, Procs, NoId, Running, shmVars, semVars, sendVars, recvVars, bounds
<1>20. ASSUME RecvRemoveSem PROVE SlotInv'
  BY <1>20, <1>e, <1>t, <1>w, SlotFrame DEF RecvRemoveSem, Goto, IdInv, TypeOK, Procs, NoId, Running, shmVars, semVars, sendVars, recvVars, bounds
<1>21. ASSUME SigInt PROVE SlotInv'
  BY <1>21, <1>e, <1>t, <1>w, SlotFrame DEF SigInt, Goto, IdInv, TypeOK, Procs, NoId, Running, shmVars, semVars, sendVars, recvVars, bounds
<1>22. ASSUME SigIntInLock PROVE SlotInv'
  BY <1>22, <1>e, <1>t, <1>w, SlotFrame DEF SigIntInLock, Goto, IdInv, TypeOK, Procs, NoId, Running, shmVars, semVars, sendVars, recvVars, bounds
<1>23. ASSUME NEW p \in Killable, Kill(p) PROVE SlotInv'
  BY <1>23, <1>e, <1>t, <1>w, SlotFrame DEF Kill, Goto, IdInv, TypeOK, Procs, NoId, Running, shmVars, semVars, sendVars, recvVars, bounds
<1>24. CASE UNCHANGED vars
  BY <1>24, <1>e, <1>t, <1>w, SlotFrame DEF vars, Goto, IdInv, TypeOK, Procs, NoId, Running, shmVars, semVars, sendVars, recvVars, bounds
<1>25. ASSUME NEW p \in Procs, Attach(p) PROVE SlotInv'
  BY <1>25, <1>e, <1>t, <1>w, SlotFrame DEF Attach, Goto, IdInv, TypeOK, Procs, NoId, Running, shmVars, semVars, sendVars, recvVars, bounds
<1> QED
  BY <1>1, <1>2, <1>3, <1>4, <1>5, <1>6, <1>7, <1>8, <1>9, <1>10, <1>11, <1>12, <1>13, <1>14, <1>15, <1>16, <1>17, <1>18, <1>19, <1>20, <1>21, <1>22, <1>23, <1>24, <1>25
  DEF Next, Sender, Receiver, Procs

\* Every step keeps what was written and what was taken in step.
LEMMA OnceStep == IndInv /\ [Next]_vars => ExactlyOnce'
<1> SUFFICES ASSUME TypeOK, IdInv, MutualExclusion, SlotInv, ExactlyOnce, [Next]_vars
             PROVE  ExactlyOnce'
  BY DEF IndInv
<1>e. \A g \in Gens : Exclusive(g)' => Exclusive(g)
  BY ExclusiveShrinks
<1> USE ConstantsAssumption, <1>e
    DEF ExactlyOnce, Pending, TypeOK, Procs, Gens, NoId, Goto,
        shmVars, semVars, sendVars, recvVars, bounds
<1>1. ASSUME NEW s \in Senders, SendStart(s) PROVE ExactlyOnce'
  <2>1. \A q \in Senders \ {s} : shm'[q] = shm[q]
    BY <1>1 DEF SendStart
  <2>2. pc'[Rcv] = pc[Rcv] /\ shm'[Rcv] = shm[Rcv]
    BY <1>1 DEF SendStart
  <2>3. \A q \in Senders \ {s} : Pending(q)' <=> Pending(q)
    BY <1>1, <2>1, <2>2 DEF SendStart
  <2>4. shm[s] = NoId /\ shm'[s] \in Gens
    BY <1>1 DEF SendStart, IdInv
  <2>5. n[s] = 0 /\ got[s] = <<>>
    BY <2>4 DEF SlotInv, SlotNew
  <2>6. ~ Pending(s)'
    BY <1>1, <2>4 DEF SendStart, SlotInv, SlotOwner
  <2>7. UNCHANGED <<seg, n, got>>
    BY <1>1 DEF SendStart
  <2> SUFFICES ASSUME NEW q \in Senders, shm'[q] # NoId, Exclusive(shm[q])'
               PROVE  /\ \A i \in 1 .. Len(got[q]) : got[q][i].n = i
                      /\ n[q] = Len(got[q]) + (IF Pending(q)' THEN 1 ELSE 0)
    BY <2>7
  <2>8. CASE q = s
    BY <2>5, <2>6, <2>8
  <2>9. CASE q # s
    <3>1. shm'[q] = shm[q] /\ shm[q] \in Gens
      BY <2>1, <2>9
    <3>2. Exclusive(shm[q])
      BY <3>1
    <3>3. Pending(q)' <=> Pending(q)
      BY <2>3, <2>9
    <3> QED
      BY <3>1, <3>2, <3>3
  <2> QED
    BY <2>8, <2>9
<1>2. ASSUME NEW s \in Senders, SendSemget(s) PROVE ExactlyOnce'
  BY <1>2 DEF SendSemget
<1>3. ASSUME NEW s \in Senders, Lock(s) PROVE ExactlyOnce'
  BY <1>3 DEF Lock
<1>4. ASSUME NEW s \in Senders, LockFails(s) PROVE ExactlyOnce'
  BY <1>4 DEF LockFails
<1>5. ASSUME NEW s \in Senders, SendCheck(s) PROVE ExactlyOnce'
  BY <1>5 DEF SendCheck
<1>6. ASSUME NEW s \in Senders, SendBusy(s) PROVE ExactlyOnce'
  BY <1>6 DEF SendBusy
<1>7. ASSUME NEW s \in Senders, SendWrite(s) PROVE ExactlyOnce'
  <2> DEFINE g == shm[s]
             m == NextMessage(s)
  <2>1. /\ s \in Procs /\ g \in Gens /\ g # NoId /\ sem[s] # NoId /\ Holding(s)
        /\ UNCHANGED <<shm, sem, got, broken>>
    BY <1>7, HolderHasIds DEF SendWrite, Holding
  <2>2. seg' = [seg EXCEPT ![g] = m] /\ n' = [n EXCEPT ![s] = n[s] + 1]
    BY <1>7 DEF SendWrite
  <2>3. m.from = s /\ m # Empty
    BY EmptyIsNoMessage DEF NextMessage, Message
  <2>4. pc'[Rcv] = pc[Rcv]
    BY <1>7 DEF SendWrite
  <2> SUFFICES ASSUME NEW q \in Senders, shm[q] # NoId, Exclusive(shm[q])'
               PROVE  /\ \A i \in 1 .. Len(got[q]) : got[q][i].n = i
                      /\ n'[q] = Len(got[q]) + (IF Pending(q)' THEN 1 ELSE 0)
    BY <2>1
  <2>5. shm[q] \in Gens /\ Exclusive(shm[q])
    <3>1. shm[q] \in Gens
      BY <2>1
    <3>2. shm'[q] = shm[q]
      BY <2>1
    <3> QED
      BY <3>1, <3>2 DEF Exclusive
  <2>6. /\ \A i \in 1 .. Len(got[q]) : got[q][i].n = i
        /\ n[q] = Len(got[q]) + (IF Pending(q) THEN 1 ELSE 0)
    BY <2>5
  <2>7. CASE shm[q] # g
    <3>1. q # s /\ n'[q] = n[q] /\ seg'[shm[q]] = seg[shm[q]]
      BY <2>2, <2>5, <2>7
    <3>2. Pending(q)' <=> Pending(q)
      BY <2>1, <2>4, <3>1
    <3> QED
      BY <2>6, <3>1, <3>2
  <2>8. CASE shm[q] = g
    <3>1. seg[g] = Empty
      BY <1>7, <2>5, <2>8 DEF SendWrite, SlotInv, SlotFree
    <3>2. ~ Pending(q)
      BY <2>8, <3>1
    <3>3. ~ (pc[Rcv] = "clear" /\ shm[Rcv] = g)
      BY <2>1, <3>1 DEF SlotInv, SlotFull
    <3>4. Pending(q)' <=> q = s
      BY <2>1, <2>2, <2>3, <2>4, <2>8, <3>3
    <3>5. n[q] = Len(got[q])
      BY <2>6, <3>2 DEF Pending
    <3>6. CASE q = s
      <4>1. n'[q] = n[q] + 1
        BY <2>2, <3>6
      <4>2. (IF Pending(q)' THEN 1 ELSE 0) = 1
        BY <3>4, <3>6
      <4> HIDE DEF Pending
      <4> QED
        BY <2>6, <3>5, <4>1, <4>2
    <3>7. CASE q # s
      <4>1. n'[q] = n[q]
        BY <2>2, <3>7
      <4>2. (IF Pending(q)' THEN 1 ELSE 0) = 0
        BY <3>4, <3>7
      <4> HIDE DEF Pending
      <4> QED
        BY <2>6, <3>5, <4>1, <4>2
    <3> QED
      BY <3>6, <3>7
  <2> QED
    BY <2>7, <2>8
<1>8. ASSUME NEW s \in Senders, SendUnlock(s) PROVE ExactlyOnce'
  BY <1>8 DEF SendUnlock
<1>9. ASSUME NEW s \in Senders, SendInput(s) PROVE ExactlyOnce'
  BY <1>9 DEF SendInput
<1>10. ASSUME NEW s \in Senders, SendExit(s) PROVE ExactlyOnce'
  BY <1>10 DEF SendExit
<1>11. ASSUME RecvStart PROVE ExactlyOnce'
  <2>1. /\ pc[Rcv] # "clear" /\ pc'[Rcv] # "clear"
        /\ \A s \in Senders : shm'[s] = shm[s]
        /\ UNCHANGED <<seg, n, got>>
    BY <1>11 DEF RecvStart, Running
  <2>2. \A s \in Senders : Pending(s)' <=> Pending(s)
    BY <2>1
  <2> QED
    BY <2>1, <2>2
<1>12. ASSUME RecvSemget PROVE ExactlyOnce'
  BY <1>12 DEF RecvSemget
<1>13. ASSUME Lock(Rcv) PROVE ExactlyOnce'
  BY <1>13 DEF Lock
<1>14. ASSUME RecvCheck PROVE ExactlyOnce'
  BY <1>14 DEF RecvCheck
<1>15. ASSUME RecvTake PROVE ExactlyOnce'
  <2> DEFINE g == shm[Rcv]
             m == seg[g]
  <2>1. Rcv \in Procs /\ Holding(Rcv) /\ g \in Gens /\ g # NoId
    BY <1>15, HolderHasIds DEF RecvTake, Holding
  <2>2. /\ pc[Rcv] = "take" /\ pc'[Rcv] = "clear"
        /\ UNCHANGED <<seg, shm, sem, n, broken>>
        /\ got' = [got EXCEPT ![m.from] = Append(got[m.from], m)]
    BY <1>15 DEF RecvTake
  <2>3. m \in Message /\ m # Empty
    BY <2>1, <2>2 DEF SlotInv, SlotFull
  <2>4. m.from \in Senders /\ m.n \in Nat /\ shm[m.from] = g
    BY <2>1, <2>3 DEF Message, SlotInv, SlotOwner
  <2> SUFFICES ASSUME NEW s \in Senders, shm[s] # NoId, Exclusive(shm[s])'
               PROVE  /\ \A i \in 1 .. Len(got'[s]) : got'[s][i].n = i
                      /\ n[s] = Len(got'[s]) + (IF Pending(s)' THEN 1 ELSE 0)
    BY <2>2
  <2>5. shm[s] \in Gens /\ Exclusive(shm[s])
    <3>1. shm[s] \in Gens
      BY <2>1
    <3>2. shm'[s] = shm[s]
      BY <2>2
    <3> QED
      BY <3>1, <3>2 DEF Exclusive
  <2>6. /\ \A i \in 1 .. Len(got[s]) : got[s][i].n = i
        /\ n[s] = Len(got[s]) + (IF Pending(s) THEN 1 ELSE 0)
    BY <2>5
  <2>7. CASE s # m.from
    <3>1. got'[s] = got[s]
      BY <2>2, <2>7
    <3>2. Pending(s)' <=> Pending(s)
      BY <2>2, <2>4, <2>7
    <3> QED
      BY <2>6, <3>1, <3>2
  <2>8. CASE s = m.from
    <3>1. Pending(s) /\ ~ Pending(s)'
      BY <2>2, <2>3, <2>4, <2>8
    <3>2. m.n = n[s]
      BY <2>3, <2>4, <2>5, <2>8 DEF SlotInv, SlotLatest
    <3>3. got'[s] = Append(got[s], m) /\ got[s] \in Seq(Message)
      BY <2>2, <2>8
    <3>4. /\ Len(got'[s]) = Len(got[s]) + 1
          /\ \A i \in 1 .. Len(got[s]) : got'[s][i] = got[s][i]
          /\ got'[s][Len(got[s]) + 1] = m
      BY <2>3, <3>3
    <3>5. Len(got[s]) \in Nat /\ n[s] = Len(got[s]) + 1
      BY <2>6, <3>1, <3>3
    <3>6. ASSUME NEW i \in 1 .. Len(got'[s]) PROVE got'[s][i].n = i
      <4>1. CASE i \in 1 .. Len(got[s])
        BY <2>6, <3>4, <4>1
      <4>2. CASE i = Len(got[s]) + 1
        BY <3>2, <3>4, <3>5, <4>2
      <4> HIDE DEF ExactlyOnce, Pending, TypeOK
      <4>3. i \in 1 .. Len(got[s]) \/ i = Len(got[s]) + 1
        BY <3>4, <3>5
      <4> QED
        BY <4>1, <4>2, <4>3
    <3>7. (IF Pending(s)' THEN 1 ELSE 0) = 0
      BY <3>1
    <3> HIDE DEF Pending
    <3> QED
      BY <3>4, <3>5, <3>6, <3>7
  <2> QED
    BY <2>7, <2>8
<1>16. ASSUME RecvClear PROVE ExactlyOnce'
  BY <1>16 DEF RecvClear
<1>17. ASSUME RecvUnlock PROVE ExactlyOnce'
  BY <1>17 DEF RecvUnlock
<1>18. ASSUME RecvWhile PROVE ExactlyOnce'
  BY <1>18 DEF RecvWhile
<1>19. ASSUME RecvRemoveShm PROVE ExactlyOnce'
  BY <1>19 DEF RecvRemoveShm
<1>20. ASSUME RecvRemoveSem PROVE ExactlyOnce'
  BY <1>20 DEF RecvRemoveSem
<1>21. ASSUME SigInt PROVE ExactlyOnce'
  BY <1>21 DEF SigInt
<1>22. ASSUME SigIntInLock PROVE ExactlyOnce'
  BY <1>22 DEF SigIntInLock
<1>23. ASSUME NEW p \in Killable, Kill(p) PROVE ExactlyOnce'
  <2>1. p \in Procs /\ UNCHANGED <<seg, shm, sem, n, got>>
    BY <1>23 DEF Kill
  <2>2. pc'[p] = "dead" /\ \A q \in Procs \ {p} : pc'[q] = pc[q]
    BY <1>23, <2>1 DEF Kill
  <2> SUFFICES ASSUME NEW s \in Senders, shm[s] # NoId, Exclusive(shm[s])'
               PROVE  /\ \A i \in 1 .. Len(got[s]) : got[s][i].n = i
                      /\ n[s] = Len(got[s]) + (IF Pending(s)' THEN 1 ELSE 0)
    <3> HIDE DEF Pending
    <3> QED BY <2>1 DEF ExactlyOnce
  <2>0. shm[s] \in Gens /\ Exclusive(shm[s])
    <3>1. shm[s] \in Gens
      OBVIOUS
    <3>2. shm'[s] = shm[s]
      BY <2>1
    <3> QED
      BY <3>1, <3>2 DEF Exclusive
  <2>3. ASSUME pc[Rcv] = "clear", shm[Rcv] = shm[s]
        PROVE  Pending(s)' <=> Pending(s)
    <3>1. Holding(Rcv) /\ sem[Rcv] # NoId
      BY <2>3, HolderHasIds DEF Holding
    <3>2. p # Rcv
      BY <1>23, <2>1, <2>3, <3>1 DEF Kill, Exclusive
    <3> QED
      BY <2>1, <2>2, <3>2
  <2>4. ASSUME ~ (pc[Rcv] = "clear" /\ shm[Rcv] = shm[s])
        PROVE  Pending(s)' <=> Pending(s)
    BY <2>1, <2>2, <2>4
  <2>5. Pending(s)' <=> Pending(s)
    BY <2>3, <2>4
  <2> HIDE DEF Pending
  <2> QED
    BY <2>0, <2>5
<1>24. CASE UNCHANGED vars
  BY <1>24 DEF vars
<1>25. ASSUME NEW p \in Procs, Attach(p) PROVE ExactlyOnce'
  BY <1>25 DEF Attach
<1> QED
  BY <1>1, <1>2, <1>3, <1>4, <1>5, <1>6, <1>7, <1>8, <1>9, <1>10, <1>11, <1>12, <1>13, <1>14, <1>15, <1>16, <1>17, <1>18, <1>19, <1>20, <1>21, <1>22, <1>23, <1>24, <1>25
  DEF Next, Sender, Receiver, Procs

-----------------------------------------------------------------------------
(* The theorems *)

\* The inductive invariant holds in every state the programs reach.
LEMMA Inductive == Spec => []IndInv
<1>1. Init => IndInv
  BY InitIndInv
<1>2. IndInv /\ [Next]_vars => IndInv'
  <2> SUFFICES ASSUME IndInv, [Next]_vars PROVE IndInv'
    OBVIOUS
  <2>1. TypeOK'
    BY TypeStep DEF IndInv
  <2>2. IdInv'
    BY IdStep DEF IndInv
  <2>3. LockInv'
    BY LockStep DEF IndInv
  <2>4. MutualExclusion'
    BY MutexStep DEF IndInv
  <2>5. SlotInv'
    BY SlotStep DEF IndInv
  <2>6. ExactlyOnce'
    BY OnceStep
  <2> QED
    BY <2>1, <2>2, <2>3, <2>4, <2>5, <2>6 DEF IndInv
<1> QED
  BY <1>1, <1>2, PTL DEF Spec

\* Every variable keeps its type; in particular the semaphore never goes below
\* zero and a segment holds one message or none, whatever is killed or
\* interrupted.
THEOREM TypeCorrect == Spec => []TypeOK
<1>1. IndInv => TypeOK
  BY DEF IndInv
<1> QED
  BY <1>1, Inductive, PTL

\* Two processes are never both between the lock and the unlock operation of
\* one semaphore, unless its exclusion was lost to an unnoticed failure.
THEOREM Exclusion == Spec => []MutualExclusion
<1>1. IndInv => MutualExclusion
  BY DEF IndInv
<1> QED
  BY <1>1, Inductive, PTL

\* The receiver takes every message of a sender once and in the order the
\* sender wrote them.
THEOREM Once == Spec => []ExactlyOnce
<1>1. IndInv => ExactlyOnce
  BY DEF IndInv
<1> QED
  BY <1>1, Inductive, PTL

\* The kernel's undo gives the semaphore back when its holder is killed:
\* whenever nobody is between lock and unlock it is free.
THEOREM LockIsNotLost == Spec => []LockNotLost
<1>1. IndInv => LockNotLost
  <2> SUFFICES ASSUME IndInv, Running(Rcv), semop = -1,
                      Live(sem[Rcv]), sem[Rcv] \notin broken,
                      \A p \in Procs : sem[p] = sem[Rcv] => ~ Holding(p)
               PROVE  val[sem[Rcv]] = 1
    BY DEF LockNotLost
  <2>1. sem[Rcv] = curSem
    BY ConstantsAssumption DEF IndInv, IdInv, TypeOK, Live, Procs, Gens, NoId
  <2>2. Opened
    BY <2>1 DEF Opened
  <2> QED
    BY <2>1, <2>2 DEF IndInv, LockInv
<1> QED
  BY <1>1, Inductive, PTL

\* Only two actions change a segment, and each finds it in the state it saw
\* under the lock.
LEMMA KeepStep ==
    ASSUME IndInv, [Next]_vars, NEW g \in Gens, Exclusive(g),
           seg[g] # Empty, seg'[g] # seg[g]
    PROVE  /\ seg'[g] = Empty
           /\ Len(got[seg[g].from]) = seg[g].n
<1>1. (\E s \in Senders : SendWrite(s)) \/ RecvClear \/ UNCHANGED seg
  BY DEF Next, Sender, Receiver, vars, shmVars, SendStart, Attach, SendSemget, Lock,
     LockFails, SendCheck, SendBusy, SendUnlock, SendInput, SendExit, RecvStart,
     RecvSemget, RecvCheck, RecvTake, RecvUnlock, RecvWhile, RecvRemoveShm,
     RecvRemoveSem, SigInt, SigIntInLock, Kill
<1>2. ASSUME NEW s \in Senders, SendWrite(s) PROVE FALSE
  <2>1. seg' = [seg EXCEPT ![shm[s]] = NextMessage(s)] /\ pc[s] = "write"
    BY <1>2 DEF SendWrite
  <2>2. shm[s] = g
    BY <2>1 DEF IndInv, TypeOK
  <2> QED
    BY <2>1, <2>2 DEF IndInv, SlotInv, SlotFree
<1>3. ASSUME RecvClear PROVE seg'[g] = Empty /\ Len(got[seg[g].from]) = seg[g].n
  <2>1. seg' = [seg EXCEPT ![shm[Rcv]] = Empty] /\ pc[Rcv] = "clear"
    BY <1>3 DEF RecvClear
  <2>2. shm[Rcv] = g
    BY <2>1 DEF IndInv, TypeOK
  <2> QED
    BY <2>1, <2>2 DEF IndInv, SlotInv, SlotTaken, TypeOK
<1> QED
  BY <1>1, <1>2, <1>3

\* No message is overwritten or cleared before the receiver has taken it.
THEOREM Kept == Spec => UnreadIsKept
<1>1. IndInv /\ [Next]_vars =>
        [\A g \in Gens :
           Exclusive(g) /\ seg[g] # Empty /\ seg'[g] # seg[g] =>
              /\ seg'[g] = Empty
              /\ Len(got[seg[g].from]) = seg[g].n]_vars
  BY KeepStep
<1> QED
  BY <1>1, Inductive, PTL DEF Spec, UnreadIsKept

-----------------------------------------------------------------------------
(* The messages a sender writes, by kind                                   *)

\* Sender s has written its Abmeldung and never writes again.
Left(s) == phase[s] = "abm" /\ pc[s] \in {"unlock", "exit", "done", "dead"}

\* Message m is a registration exactly if it is its sender's first, and a
\* deregistration only if it is the last.
KindOK(m) ==
    /\ m.kind = "anm" <=> m.n = 1
    /\ m.kind = "abm" => m.n = n[m.from] /\ Left(m.from)

\* The kind a sender is about to write fits the number it has written.
PhaseInv ==
    \A s \in Senders :
        /\ pc[s] \in {"off", "shmat", "semget", "lock", "check", "write", "busy"} =>
               (phase[s] = "anm" <=> n[s] = 0)
        /\ pc[s] \in {"off", "shmat", "semget"} => n[s] = 0
        /\ pc[s] \in {"unlock", "input"} => n[s] > 0

KindInv ==
    /\ PhaseInv
    /\ \A g \in Gens : seg[g] # Empty => KindOK(seg[g])
    /\ \A s \in Senders : \A i \in 1 .. Len(got[s]) :
         got[s][i].from = s /\ KindOK(got[s][i])

\* The phase of every sender keeps fitting its number.
LEMMA PhaseStep ==
    ASSUME TypeOK, PhaseInv, [Next]_vars
    PROVE  PhaseInv' /\ \A s \in Senders : Left(s) => Left(s)'
<1> DEFINE Goal == PhaseInv' /\ \A s \in Senders : Left(s) => Left(s)'
<1> USE ConstantsAssumption
    DEF PhaseInv, Left, TypeOK, Procs, Kinds, Goto, Running,
        shmVars, semVars, sendVars, recvVars, bounds
<1>1. ASSUME NEW s \in Senders, SendStart(s) PROVE Goal
  BY <1>1 DEF SendStart
<1>2. ASSUME NEW s \in Senders, SendSemget(s) PROVE Goal
  BY <1>2 DEF SendSemget
<1>3. ASSUME NEW s \in Senders, Lock(s) PROVE Goal
  BY <1>3 DEF Lock
<1>4. ASSUME NEW s \in Senders, LockFails(s) PROVE Goal
  BY <1>4 DEF LockFails
<1>5. ASSUME NEW s \in Senders, SendCheck(s) PROVE Goal
  BY <1>5 DEF SendCheck
<1>6. ASSUME NEW s \in Senders, SendBusy(s) PROVE Goal
  BY <1>6 DEF SendBusy
<1>7. ASSUME NEW s \in Senders, SendWrite(s) PROVE Goal
  BY <1>7 DEF SendWrite
<1>8. ASSUME NEW s \in Senders, SendUnlock(s) PROVE Goal
  BY <1>8 DEF SendUnlock
<1>9. ASSUME NEW s \in Senders, SendInput(s) PROVE Goal
  BY <1>9 DEF SendInput
<1>10. ASSUME NEW s \in Senders, SendExit(s) PROVE Goal
  BY <1>10 DEF SendExit
<1>11. ASSUME NEW p \in Killable, Kill(p) PROVE Goal
  BY <1>11 DEF Kill
<1>12. ASSUME \A s \in Senders : pc'[s] = pc[s], UNCHANGED sendVars PROVE Goal
  BY <1>12
<1>13. ASSUME Receiver \/ SigInt \/ SigIntInLock \/ UNCHANGED vars
       PROVE  (\A s \in Senders : pc'[s] = pc[s]) /\ UNCHANGED sendVars
  BY <1>13
  DEF Receiver, RecvStart, Attach, RecvSemget, Lock, RecvCheck, RecvTake, RecvClear,
      RecvUnlock, RecvWhile, RecvRemoveShm, RecvRemoveSem, SigInt, SigIntInLock, vars
<1>14. ASSUME NEW s \in Senders, Attach(s) PROVE Goal
  BY <1>14 DEF Attach
<1> QED
  BY <1>1, <1>2, <1>3, <1>4, <1>5, <1>6, <1>7, <1>8, <1>9, <1>10, <1>11, <1>12, <1>13, <1>14
  DEF Next, Sender

\* What a step does to the messages.
LEMMA MessageSteps ==
    ASSUME TypeOK, [Next]_vars
    PROVE  \/ \E s \in Senders : SendWrite(s)
           \/ RecvTake
           \/ /\ UNCHANGED <<n, got>>
              /\ \A g \in Gens : seg'[g] = seg[g] \/ seg'[g] = Empty
<1> USE DEF shmVars, semVars, sendVars, recvVars, bounds
<1>1. ASSUME NEW s \in Senders, Sender(s), ~ SendWrite(s)
      PROVE  UNCHANGED <<n, got, seg>>
  BY <1>1 DEF Sender, SendStart, Attach, SendSemget, Lock, LockFails, SendCheck, SendBusy,
              SendUnlock, SendInput, SendExit
<1>2. ASSUME RecvClear
      PROVE  /\ UNCHANGED <<n, got>>
             /\ \A g \in Gens : seg'[g] = seg[g] \/ seg'[g] = Empty
  BY <1>2 DEF RecvClear, TypeOK
<1>3. ASSUME Receiver, ~ RecvTake, ~ RecvClear PROVE UNCHANGED <<n, got, seg>>
  BY <1>3 DEF Receiver, RecvStart, Attach, RecvSemget, Lock, RecvCheck, RecvUnlock, RecvWhile,
              RecvRemoveShm, RecvRemoveSem
<1>4. ASSUME SigInt \/ SigIntInLock \/ (\E p \in Killable : Kill(p)) \/ UNCHANGED vars
      PROVE  UNCHANGED <<n, got, seg>>
  BY <1>4 DEF SigInt, SigIntInLock, Kill, vars
<1> QED
  BY <1>1, <1>2, <1>3, <1>4 DEF Next

\* The messages in the segments and those taken keep fitting their number.
LEMMA KindStep ==
    ASSUME TypeOK, SlotInv, KindInv, IdInv, [Next]_vars
    PROVE  KindInv'
<1>1. PhaseInv' /\ \A s \in Senders : Left(s) => Left(s)'
  BY PhaseStep DEF KindInv
<1>2. ASSUME NEW m \in Message, KindOK(m), n'[m.from] = n[m.from]
      PROVE  KindOK(m)'
  BY <1>1, <1>2 DEF KindOK, Message
<1>3. /\ \A g \in Gens : seg[g] # Empty => seg[g] \in Message
      /\ \A s \in Senders : \A i \in 1 .. Len(got[s]) : got[s][i] \in Message
  BY DEF TypeOK
<1>4. CASE /\ UNCHANGED <<n, got>>
           /\ \A g \in Gens : seg'[g] = seg[g] \/ seg'[g] = Empty
  <2>1. ASSUME NEW g \in Gens, seg'[g] # Empty PROVE KindOK(seg[g])'
    <3>1. PICK m \in Message : m = seg'[g] /\ m = seg[g] /\ KindOK(m)
      BY <1>3, <1>4, <2>1 DEF KindInv
    <3>2. KindOK(m)'
      BY <1>2, <1>4, <3>1
    <3> QED
      BY <3>1, <3>2 DEF KindOK
  <2>2. ASSUME NEW s \in Senders, NEW i \in 1 .. Len(got'[s])
        PROVE  got'[s][i].from = s /\ KindOK(got[s][i])'
    <3>1. PICK m \in Message : m = got'[s][i] /\ m = got[s][i] /\ KindOK(m) /\ m.from = s
      BY <1>3, <1>4, <2>2 DEF KindInv
    <3>2. KindOK(m)'
      BY <1>2, <1>4, <3>1
    <3> QED
      BY <3>1, <3>2 DEF KindOK
  <2> QED
    BY <1>1, <2>1, <2>2 DEF KindInv
<1>5. ASSUME NEW s \in Senders, SendWrite(s) PROVE KindInv'
  <2>0. NextMessage(s) \in Message
    BY <1>5, SMTT(30) DEF NextMessage, Message, TypeOK
  <2>n. PICK new \in Message : new = NextMessage(s)
    BY <2>0
  <2>1. /\ pc[s] = "write" /\ UNCHANGED <<got, phase>>
        /\ seg' = [seg EXCEPT ![shm[s]] = new] /\ n' = [n EXCEPT ![s] = n[s] + 1]
        /\ pc' = [pc EXCEPT ![s] = "unlock"]
    BY <1>5, <2>n DEF SendWrite, Goto
  <2>2. /\ new \in Message /\ new.kind = phase[s] /\ new.n = n[s] + 1 /\ new.from = s
        /\ n'[s] = n[s] + 1 /\ \A q \in Senders \ {s} : n'[q] = n[q]
        /\ pc'[s] = "unlock" /\ phase'[s] = phase[s] /\ n[s] \in Nat
    BY <2>1, <2>n, SMTT(30) DEF NextMessage, TypeOK, Procs
  <2>3. KindOK(new)'
    BY <2>1, <2>2 DEF KindOK, KindInv, PhaseInv, Left
  <2>4. ASSUME NEW m \in Message, KindOK(m)
        PROVE  KindOK(m)'
    <3>1. CASE m.from # s
      BY <1>2, <2>2, <2>4, <3>1 DEF Message
    <3>2. CASE m.from = s
      BY <2>1, <2>4, <3>2 DEF KindOK, Left
    <3> QED
      BY <3>1, <3>2
  <2>5. ASSUME NEW g \in Gens, seg'[g] # Empty PROVE KindOK(seg[g])'
    <3>1. CASE seg'[g] = new
      BY <2>3, <3>1 DEF KindOK
    <3>2. CASE seg'[g] = seg[g]
      <4>1. PICK m \in Message : m = seg'[g] /\ KindOK(m)
        BY <1>3, <2>5, <3>2 DEF KindInv
      <4>2. KindOK(m)'
        BY <2>4, <4>1
      <4> QED
        BY <4>1, <4>2 DEF KindOK
    <3> QED
      BY <2>1, <3>1, <3>2 DEF TypeOK
  <2>6. ASSUME NEW q \in Senders, NEW i \in 1 .. Len(got'[q])
        PROVE  got'[q][i].from = q /\ KindOK(got[q][i])'
    <3>1. PICK m \in Message : m = got'[q][i] /\ KindOK(m) /\ m.from = q
      BY <1>3, <2>1, <2>6 DEF KindInv
    <3>2. KindOK(m)'
      BY <2>4, <3>1
    <3> QED
      BY <3>1, <3>2 DEF KindOK
  <2> QED
    BY <1>1, <2>5, <2>6 DEF KindInv
<1>6. CASE RecvTake
  <2> DEFINE new == seg[shm[Rcv]]
  <2>1. /\ UNCHANGED <<seg, n>> /\ shm[Rcv] \in Gens /\ new # Empty
        /\ got' = [got EXCEPT ![new.from] = Append(got[new.from], new)]
    BY <1>6, ConstantsAssumption
    DEF RecvTake, SlotInv, SlotFull, TypeOK, IdInv, Running, Procs, shmVars, sendVars
  <2>2. new \in Message /\ KindOK(new) /\ new.from \in Senders
    BY <1>3, <2>1 DEF KindInv, Message
  <2> HIDE DEF new
  <2>3. ASSUME NEW g \in Gens, seg'[g] # Empty PROVE KindOK(seg[g])'
    <3>1. PICK m \in Message : m = seg'[g] /\ m = seg[g] /\ KindOK(m)
      BY <1>3, <2>1, <2>3 DEF KindInv
    <3>2. KindOK(m)'
      BY <1>2, <2>1, <3>1
    <3> QED
      BY <3>1, <3>2 DEF KindOK
  <2>4. ASSUME NEW s \in Senders, NEW i \in 1 .. Len(got'[s])
        PROVE  got'[s][i].from = s /\ KindOK(got[s][i])'
    <3>1. got[s] \in Seq(Message) /\ Len(got[s]) \in Nat
      BY DEF TypeOK
    <3>2. \/ i \in 1 .. Len(got[s]) /\ got'[s][i] = got[s][i]
          \/ s = new.from /\ got'[s][i] = new
      <4>1. CASE s # new.from
        BY <2>1, <2>4, <4>1 DEF TypeOK
      <4>2. CASE s = new.from
        <5>1. got'[s] = Append(got[s], new)
          BY <2>1, <2>2, <4>2 DEF TypeOK
        <5>2. Len(got'[s]) = Len(got[s]) + 1
          BY <2>2, <3>1, <5>1, AppendLen
        <5>3. i \in 1 .. Len(got[s]) \/ i = Len(got[s]) + 1
          BY <2>4, <3>1, <5>2
        <5> QED
          BY <2>2, <3>1, <4>2, <5>1, <5>3
      <4> QED
        BY <4>1, <4>2
    <3>3. PICK m \in Message : m = got'[s][i] /\ KindOK(m) /\ m.from = s
      BY <1>3, <2>2, <3>2 DEF KindInv
    <3>4. KindOK(m)'
      BY <1>2, <2>1, <3>3
    <3> QED
      BY <3>3, <3>4 DEF KindOK
  <2> QED
    BY <1>1, <2>3, <2>4 DEF KindInv
<1> QED
  BY <1>4, <1>5, <1>6, MessageSteps

-----------------------------------------------------------------------------
(* The receiver's counter                                                  *)

\* Nothing has been taken out of a segment that no receiver has served yet, so
\* that a receiver may start its counter at zero.
TakenInv ==
    /\ shm[Rcv] <= curShm
    /\ pc[Rcv] = "off" => shm[Rcv] = NoId
    /\ pc[Rcv] \in {"rmsem", "done"} => shm[Rcv] < curShm
    /\ \A s \in Senders :
         got[s] # <<>> /\ shm[s] \notin broken =>
            /\ shm[s] <= shm[Rcv]
            /\ shm[s] = shm[Rcv] => sem[Rcv] # NoId

\* The senders the counter is about.
RegisteredHere == {s \in Senders : shm[s] = shm[Rcv] /\ Registered(s)}

CountInv == KindInv /\ TakenInv /\ CounterIsRegistered

\* Every step but starting the receiver and taking a message leaves the counter,
\* the messages taken, and the segments of those it has taken them from.
LEMMA CountLeft ==
    ASSUME TypeOK, IdInv, SlotInv, [Next]_vars, ~ RecvStart, ~ RecvTake
    PROVE  /\ UNCHANGED <<counter, got>>
           /\ shm'[Rcv] = shm[Rcv]
           /\ sem[Rcv] # NoId => sem'[Rcv] # NoId
           /\ Running(Rcv)' => Running(Rcv)
           /\ \A s \in Senders : shm'[s] = shm[s] \/ got[s] = <<>>
           /\ broken \subseteq broken'
           /\ \/ curShm' = curShm
              \/ curShm' = shm[Rcv] + 1
           /\ pc'[Rcv] = "off" => pc[Rcv] = "off"
           /\ pc'[Rcv] \in {"rmsem", "done"} =>
                \/ pc[Rcv] \in {"rmsem", "done"} /\ curShm' = curShm
                \/ curShm' = shm[Rcv] + 1
<1> DEFINE Goal ==
           /\ UNCHANGED <<counter, got>>
           /\ shm'[Rcv] = shm[Rcv]
           /\ sem[Rcv] # NoId => sem'[Rcv] # NoId
           /\ Running(Rcv)' => Running(Rcv)
           /\ \A s \in Senders : shm'[s] = shm[s] \/ got[s] = <<>>
           /\ broken \subseteq broken'
           /\ \/ curShm' = curShm
              \/ curShm' = shm[Rcv] + 1
           /\ pc'[Rcv] = "off" => pc[Rcv] = "off"
           /\ pc'[Rcv] \in {"rmsem", "done"} =>
                \/ pc[Rcv] \in {"rmsem", "done"} /\ curShm' = curShm
                \/ curShm' = shm[Rcv] + 1
<1> USE ConstantsAssumption
    DEF Running, Goto, TypeOK, Procs, shmVars, semVars, sendVars, recvVars, bounds
<1>1. ASSUME NEW s \in Senders, SendStart(s) PROVE Goal
  BY <1>1 DEF SendStart, IdInv, SlotInv, SlotNew
<1>2. ASSUME NEW s \in Senders, Sender(s), ~ SendStart(s) PROVE Goal
  BY <1>2 DEF Sender, Attach, SendSemget, Lock, LockFails, SendCheck, SendBusy,
              SendWrite, SendUnlock, SendInput, SendExit
<1>3. ASSUME RecvSemget PROVE Goal
  BY <1>3 DEF RecvSemget, Gens, NoId
<1>4. ASSUME Lock(Rcv) \/ RecvCheck \/ RecvClear \/ RecvUnlock \/ RecvWhile
      PROVE  Goal
  BY <1>4 DEF Lock, RecvCheck, RecvClear, RecvUnlock, RecvWhile
<1>5. ASSUME RecvRemoveShm PROVE Goal
  BY <1>5 DEF RecvRemoveShm
<1>6. ASSUME RecvRemoveSem PROVE Goal
  BY <1>6 DEF RecvRemoveSem
<1>7. ASSUME SigInt \/ SigIntInLock \/ UNCHANGED vars PROVE Goal
  BY <1>7 DEF SigInt, SigIntInLock, vars
<1>8. ASSUME NEW p \in Killable, Kill(p) PROVE Goal
  BY <1>8 DEF Kill
<1>9. ASSUME Attach(Rcv) PROVE Goal
  BY <1>9 DEF Attach
<1> QED
  BY <1>1, <1>2, <1>3, <1>4, <1>5, <1>6, <1>7, <1>8, <1>9 DEF Next, Receiver

\* Every step keeps a fresh segment free of taken messages.
LEMMA TakenStep ==
    ASSUME TypeOK, IdInv, SlotInv, TakenInv, [Next]_vars, TypeOK'
    PROVE  TakenInv'
<1> USE ConstantsAssumption DEF Gens, NoId, Procs
<1>1. CASE ~ RecvStart /\ ~ RecvTake
  <2>1. /\ UNCHANGED got /\ shm'[Rcv] = shm[Rcv]
        /\ sem[Rcv] # NoId => sem'[Rcv] # NoId
        /\ \A s \in Senders : shm'[s] = shm[s] \/ got[s] = <<>>
        /\ broken \subseteq broken'
    BY <1>1, CountLeft
  <2>2. \/ curShm' = curShm
        \/ curShm' = shm[Rcv] + 1
    BY <1>1, CountLeft
  <2>3. /\ pc'[Rcv] = "off" => pc[Rcv] = "off"
        /\ pc'[Rcv] \in {"rmsem", "done"} =>
                \/ pc[Rcv] \in {"rmsem", "done"} /\ curShm' = curShm
                \/ curShm' = shm[Rcv] + 1
    BY <1>1, CountLeft
  <2>4. shm[Rcv] \in Int /\ curShm \in Int
    BY DEF TypeOK
  <2>5. shm'[Rcv] <= curShm'
    BY <2>1, <2>2, <2>4 DEF TakenInv
  <2>6. pc'[Rcv] = "off" => shm'[Rcv] = NoId
    BY <2>1, <2>3 DEF TakenInv
  <2>7. pc'[Rcv] \in {"rmsem", "done"} => shm'[Rcv] < curShm'
    BY <2>1, <2>3, <2>4 DEF TakenInv
  <2>8. ASSUME NEW s \in Senders, got'[s] # <<>>, shm'[s] \notin broken'
        PROVE  /\ shm'[s] <= shm'[Rcv]
               /\ shm'[s] = shm'[Rcv] => sem'[Rcv] # NoId
    BY <2>1, <2>8 DEF TakenInv
  <2> QED
    BY <2>5, <2>6, <2>7, <2>8 DEF TakenInv
<1>2. CASE RecvTake
  <2> DEFINE m == seg[shm[Rcv]]
  <2>1. /\ pc[Rcv] = "take" /\ pc'[Rcv] = "clear"
        /\ UNCHANGED <<shm, sem, curShm, broken, seg>>
        /\ got' = [got EXCEPT ![m.from] = Append(got[m.from], m)]
    BY <1>2 DEF RecvTake, Goto, TypeOK, shmVars, semVars
  <2>2. shm[Rcv] \in Gens /\ sem[Rcv] # NoId
    BY <2>1, HolderHasIds DEF Holding
  <2>3. m \in Message /\ shm[m.from] = shm[Rcv]
    BY <2>1, <2>2 DEF SlotInv, SlotFull, SlotOwner, TypeOK
  <2>4. \A s \in Senders : s # m.from => got'[s] = got[s]
    BY <2>1 DEF TypeOK
  <2> HIDE DEF m
  <2>5. shm[Rcv] \in Int
    BY DEF TypeOK
  <2>6. ASSUME NEW s \in Senders, got'[s] # <<>>, shm[s] \notin broken
        PROVE  shm[s] <= shm[Rcv]
    <3>1. CASE s = m.from
      BY <2>3, <2>5, <3>1
    <3>2. CASE s # m.from
      BY <2>4, <2>6, <3>2 DEF TakenInv
    <3> QED
      BY <3>1, <3>2
  <2> QED
    BY <2>1, <2>2, <2>6 DEF TakenInv
<1>3. CASE RecvStart
  <2>1. /\ ~ Running(Rcv) /\ pc'[Rcv] = "shmat"
        /\ UNCHANGED <<got, broken, curShm>> /\ shm'[Rcv] = curShm
        /\ \A s \in Senders : shm'[s] = shm[s]
    BY <1>3 DEF RecvStart, Goto, TypeOK
  <2>2. ASSUME NEW s \in Senders, got[s] # <<>>, shm[s] \notin broken
        PROVE  shm[s] < curShm
    <3>1. shm[s] # NoId
      BY <2>2 DEF SlotInv, SlotNew
    <3>2. /\ shm[s] <= shm[Rcv] /\ shm[Rcv] <= curShm
          /\ shm[s] = shm[Rcv] => sem[Rcv] # NoId
      BY <2>2 DEF TakenInv
    <3>3. pc[Rcv] \in {"off", "done", "dead"}
      BY <2>1 DEF Running
    <3>4. shm[s] \in Gens /\ shm[Rcv] \in Gens \cup {NoId} /\ curShm \in Gens
      BY <3>1 DEF TypeOK
    <3>5. CASE pc[Rcv] = "off"
      BY <3>2, <3>4, <3>5 DEF TakenInv
    <3>6. CASE pc[Rcv] = "done"
      BY <3>2, <3>4, <3>6 DEF TakenInv
    <3>7. CASE pc[Rcv] = "dead"
      <4>1. shm[s] = shm[Rcv] => shm[Rcv] \in broken
        BY <3>2, <3>7 DEF IdInv
      <4> QED
        BY <2>2, <3>2, <3>4, <4>1
    <3> QED
      BY <3>3, <3>5, <3>6, <3>7
  <2>3. shm' \in [Procs -> Gens \cup {NoId}] /\ curShm \in Gens
    BY DEF TypeOK
  <2> QED
    BY <2>1, <2>2, <2>3, SMTT(30) DEF TakenInv
<1> QED
  BY <1>1, <1>2, <1>3

\* The last message taken from s is the only one that can be a deregistration.
LEMMA OutIsLast ==
    ASSUME KindInv, NEW s \in Senders, got[s] \in Seq(Message),
           \A i \in 1 .. Len(got[s]) : got[s][i].n = i,
           n[s] \in Nat, Len(got[s]) <= n[s],
           NEW i \in 1 .. Len(got[s]), got[s][i].kind = "abm"
    PROVE  i = n[s] /\ i = Len(got[s])
<1>1. got[s][i].n = n[got[s][i].from] /\ got[s][i].from = s
  BY DEF KindInv, KindOK
<1> QED
  BY <1>1

\* Taking a message changes the counter as it changes the registered senders.
LEMMA TakeCounts ==
    ASSUME IndInv, CountInv, RecvTake, TypeOK', Exclusive(shm[Rcv])
    PROVE  counter' = Cardinality(RegisteredHere')
<1> DEFINE g == shm[Rcv]
<1>1. pc[Rcv] = "take" /\ Running(Rcv) /\ g \in Gens /\ g # NoId
  BY HolderHasIds, GenIsId DEF RecvTake, Holding, Running, IndInv, Procs
<1>2. seg[g] \in Message /\ seg[g] # Empty
  BY <1>1 DEF IndInv, SlotInv, SlotFull, TypeOK
<1>3. PICK m \in Message : m = seg[g]
  BY <1>2
<1>4. PICK s \in Senders : s = m.from
  BY DEF Message
<1>5. /\ UNCHANGED <<shm, seg>> /\ got' = [got EXCEPT ![s] = Append(got[s], m)]
      /\ counter' = CASE m.kind = "anm" -> counter + 1
                      [] m.kind = "abm" -> counter - 1
                      [] OTHER          -> counter
  BY <1>3, <1>4 DEF RecvTake, shmVars
<1>6. shm[s] = g
  BY <1>1, <1>2, <1>3, <1>4 DEF IndInv, SlotInv, SlotOwner
<1>7. /\ \A i \in 1 .. Len(got[s]) : got[s][i].n = i
      /\ n[s] = Len(got[s]) + 1 /\ m.n = n[s]
  BY <1>1, <1>2, <1>3, <1>4, <1>6
  DEF IndInv, ExactlyOnce, Pending, SlotInv, SlotLatest
<1>8. got[s] \in Seq(Message) /\ Len(got[s]) \in Nat /\ n[s] \in Nat
  BY DEF IndInv, TypeOK
<1>9. KindOK(m)
  BY <1>1, <1>2, <1>3 DEF CountInv, KindInv
<1>10. /\ got'[s] = Append(got[s], m)
       /\ Len(got'[s]) = Len(got[s]) + 1
       /\ \A i \in 1 .. Len(got[s]) : got'[s][i] = got[s][i]
       /\ got'[s][Len(got[s]) + 1] = m
       /\ \A q \in Senders \ {s} : got'[q] = got[q]
  <2>1. got'[s] = Append(got[s], m) /\ \A q \in Senders \ {s} : got'[q] = got[q]
    BY <1>5 DEF IndInv, TypeOK
  <2> QED
    BY <1>8, <2>1
<1>11. \A i \in 1 .. Len(got[s]) : got[s][i].kind # "abm"
  BY <1>7, <1>8, OutIsLast DEF CountInv
<1>12. Registered(s) <=> m.kind # "anm"
  <2>1. got[s] = <<>> <=> Len(got[s]) = 0
    BY <1>8
  <2> QED
    BY <1>7, <1>8, <1>9, <1>11, <2>1 DEF Registered, KindOK
<1>13. Registered(s)' <=> m.kind # "abm"
  <2>1. got'[s] # <<>>
    BY <1>8, <1>10
  <2> QED
    BY <1>8, <1>10, <1>11, <2>1 DEF Registered
<1>14. \A q \in Senders \ {s} : Registered(q)' <=> Registered(q)
  BY <1>10 DEF Registered
<1>15. IsFiniteSet(RegisteredHere) /\ counter = Cardinality(RegisteredHere)
  <2>1. IsFiniteSet(RegisteredHere)
    BY FS_Subset, ConstantsAssumption DEF RegisteredHere
  <2> QED
    BY <1>1, <2>1 DEF CountInv, CounterIsRegistered, RegisteredHere
<1>16. CASE m.kind = "anm"
  <2>1. s \notin RegisteredHere /\ RegisteredHere' = RegisteredHere \cup {s}
    BY <1>5, <1>6, <1>12, <1>13, <1>14, <1>16 DEF RegisteredHere
  <2>2. Cardinality(RegisteredHere') = Cardinality(RegisteredHere) + 1
    BY <1>15, <2>1, FS_AddElement
  <2> QED
    BY <1>5, <1>15, <1>16, <2>2
<1>17. CASE m.kind = "abm"
  <2>1. s \in RegisteredHere /\ RegisteredHere' = RegisteredHere \ {s}
    BY <1>5, <1>6, <1>12, <1>13, <1>14, <1>17 DEF RegisteredHere
  <2>2. Cardinality(RegisteredHere') = Cardinality(RegisteredHere) - 1
    BY <1>15, <2>1, FS_RemoveElement
  <2> QED
    BY <1>5, <1>15, <1>17, <2>2
<1>18. CASE m.kind = "msg"
  <2>1. RegisteredHere' = RegisteredHere
    BY <1>5, <1>6, <1>12, <1>13, <1>14, <1>18 DEF RegisteredHere
  <2> QED
    BY <1>5, <1>15, <1>18, <2>1
<1> QED
  BY <1>16, <1>17, <1>18 DEF Message, Kinds

\* Every step keeps the counter in step with the registered senders.
LEMMA CounterStep ==
    ASSUME IndInv, CountInv, [Next]_vars, TypeOK'
    PROVE  CounterIsRegistered'
<1> SUFFICES ASSUME Running(Rcv)', Exclusive(shm[Rcv])'
             PROVE  counter' = Cardinality(RegisteredHere')
  BY DEF CounterIsRegistered, RegisteredHere
<1>0. \A h \in Gens : Exclusive(h)' => Exclusive(h)
  BY ExclusiveShrinks DEF IndInv
<1>1. CASE ~ RecvStart /\ ~ RecvTake
  <2>1. /\ UNCHANGED <<counter, got>>
        /\ shm'[Rcv] = shm[Rcv] /\ Running(Rcv)
        /\ \A s \in Senders : shm'[s] = shm[s] \/ got[s] = <<>>
    BY <1>1, CountLeft DEF IndInv
  <2>2. RegisteredHere' = RegisteredHere
    BY <2>1 DEF RegisteredHere, Registered
  <2>3. PICK h \in Gens : h = shm[Rcv]
    BY <2>1, ConstantsAssumption DEF IndInv, IdInv, TypeOK, Procs
  <2>4. Exclusive(h)'
    BY <2>1, <2>3 DEF Exclusive
  <2>5. counter = Cardinality(RegisteredHere)
    BY <1>0, <2>1, <2>3, <2>4 DEF CountInv, CounterIsRegistered, RegisteredHere
  <2> QED
    BY <2>1, <2>2, <2>5
<1>2. CASE RecvTake
  <2>1. PICK h \in Gens : h = shm[Rcv] /\ h = shm'[Rcv]
    BY <1>2, HolderHasIds DEF RecvTake, Holding, IndInv, Procs, shmVars
  <2>2. Exclusive(h)'
    BY <2>1 DEF Exclusive
  <2> QED
    BY <1>0, <1>2, <2>1, <2>2, TakeCounts
<1>3. CASE RecvStart
  <2>1. RegisteredHere' = {}
    <3>1. TakenInv'
      BY TakenStep DEF IndInv, CountInv
    <3>2. /\ sem'[Rcv] = NoId /\ shm'[Rcv] \notin broken'
      BY <1>3 DEF RecvStart, Exclusive, IndInv, TypeOK, Procs
    <3>3. ASSUME NEW s \in Senders, shm'[s] = shm'[Rcv] PROVE got'[s] = <<>>
      BY <3>1, <3>2, <3>3 DEF TakenInv
    <3> QED
      BY <3>3 DEF RegisteredHere, Registered
  <2>2. counter' = 0
    BY <1>3 DEF RecvStart
  <2> QED
    BY <2>1, <2>2, FS_EmptySet
<1> QED
  BY <1>1, <1>2, <1>3

\* The counter fits the registrations in every state the programs reach.
LEMMA Counted == Spec => [](IndInv /\ CountInv)
<1>1. Init => CountInv
  <2> SUFFICES ASSUME Init PROVE CountInv
    OBVIOUS
  <2> USE ConstantsAssumption DEF Init, Procs, Gens, NoId
  <2>1. KindInv
    BY DEF KindInv, PhaseInv
  <2>2. TakenInv
    BY DEF TakenInv
  <2>3. CounterIsRegistered
    BY DEF CounterIsRegistered, Running
  <2> QED
    BY <2>1, <2>2, <2>3 DEF CountInv
<1>2. IndInv /\ IndInv' /\ CountInv /\ [Next]_vars => CountInv'
  <2> SUFFICES ASSUME IndInv, IndInv', CountInv, [Next]_vars PROVE CountInv'
    OBVIOUS
  <2>1. TypeOK'
    BY DEF IndInv
  <2>2. KindInv' /\ TakenInv' /\ CounterIsRegistered'
    BY <2>1, KindStep, TakenStep, CounterStep DEF IndInv, CountInv
  <2> QED
    BY <2>2 DEF CountInv
<1> QED
  BY <1>1, <1>2, Inductive, PTL DEF Spec

\* The receiver's counter is the number of senders that are registered with it,
\* so that it never leaves while one of them still is.
THEOREM CounterCorrect == Spec => []CounterIsRegistered
<1>1. CountInv => CounterIsRegistered
  BY DEF CountInv
<1> QED
  BY <1>1, Counted, PTL

-----------------------------------------------------------------------------
(* Refinement                                                              *)

\* One receiver that is started once and neither interrupted in its semaphore
\* operation nor killed, as in Bs2ueb6.txt; senders may be killed.
OneReceiver == MaxRuns = 1 /\ MaxIntr = 0 /\ Rcv \notin Killable

\* Until that receiver leaves its loop, everybody uses the first segment and
\* the first semaphore, and no exclusion is lost.
FirstPair ==
    /\ pc[Rcv] # "dead"
    /\ pc[Rcv] # "off" => runs = 1
    /\ ~ Closed => curShm = 1 /\ curSem = 1 /\ broken = {}

\* What the channel of MailboxSpec sees.
Slot == IF Closed \/ pc[Rcv] = "clear" THEN Empty ELSE seg[1]
Open == ~ Closed

\* A semaphore that is gone is not the current one, and not the first either.
LEMMA RemovedIsOld ==
    ASSUME TypeOK, IdInv, NEW s \in Senders, LockFails(s)
    PROVE  curSem # 1
<1>1. pc[s] = "lock" /\ ~ (sem[s] >= curSem)
  BY DEF LockFails, Live
<1>2. sem[s] # NoId
  BY <1>1 DEF IdInv
<1>3. sem[s] \in Gens /\ curSem \in Gens
  BY <1>2 DEF TypeOK, Procs
<1> QED
  BY <1>1, <1>3 DEF Gens

\* The one receiver keeps to its first segment and semaphore.
LEMMA FirstPairStep ==
    ASSUME OneReceiver, IndInv, FirstPair, [Next]_vars
    PROVE  FirstPair' /\ (Closed => Closed')
<1> DEFINE Goal == FirstPair' /\ (Closed => Closed')
<1> USE ConstantsAssumption
    DEF OneReceiver, FirstPair, Closed, IndInv, TypeOK, IdInv, Running, Goto, Procs,
        Gens, NoId, shmVars, semVars, sendVars, recvVars, bounds
<1>1. ASSUME NEW s \in Senders, LockFails(s) PROVE Goal
  <2>1. curSem # 1
    BY <1>1, RemovedIsOld
  <2>2. pc'[Rcv] = pc[Rcv] /\ UNCHANGED <<runs, curShm, curSem>>
    BY <1>1 DEF LockFails
  <2> QED
    BY <2>1, <2>2
<1>2. ASSUME NEW s \in Senders, Sender(s), ~ LockFails(s) PROVE Goal
  BY <1>2 DEF Sender, SendStart, Attach, SendSemget, Lock, SendCheck, SendBusy,
              SendWrite, SendUnlock, SendInput, SendExit
<1>3. ASSUME RecvStart PROVE Goal
  BY <1>3 DEF RecvStart
<1>4. ASSUME RecvSemget PROVE Goal
  BY <1>4 DEF RecvSemget
<1>5. ASSUME Lock(Rcv) \/ RecvCheck \/ RecvTake \/ RecvClear \/ RecvUnlock PROVE Goal
  BY <1>5 DEF Lock, RecvCheck, RecvTake, RecvClear, RecvUnlock
<1>6. ASSUME RecvWhile \/ RecvRemoveShm \/ RecvRemoveSem PROVE Goal
  BY <1>6 DEF RecvWhile, RecvRemoveShm, RecvRemoveSem
<1>7. ASSUME SigInt \/ UNCHANGED vars PROVE Goal
  BY <1>7 DEF SigInt, vars
<1>9. ASSUME SigIntInLock PROVE Goal
  <2>1. intrs < MaxIntr /\ intrs \in 0 .. MaxIntr
    BY <1>9 DEF SigIntInLock
  <2> QED
    BY <2>1
<1>8. ASSUME NEW p \in Killable, Kill(p) PROVE Goal
  BY <1>8 DEF Kill
<1>10. ASSUME Attach(Rcv) PROVE Goal
  BY <1>10, RecvAttaches DEF Attach
<1> QED
  BY <1>1, <1>2, <1>3, <1>4, <1>5, <1>6, <1>7, <1>8, <1>9, <1>10 DEF Next, Receiver

\* Writing, taking, clearing and leaving the loop are all the channel can see.
LEMMA ChannelLeft ==
    ASSUME TypeOK, [Next]_vars, \A s \in Senders : ~ SendWrite(s),
           ~ RecvTake, ~ RecvClear, ~ RecvWhile
    PROVE  /\ UNCHANGED <<seg, got>>
           /\ ~ Closed => pc'[Rcv] # "clear" \/ pc[Rcv] = "clear"
           /\ ~ Closed /\ ~ Closed' => pc[Rcv] # "clear" \/ pc'[Rcv] \in {"clear", "dead"}
           /\ pc[Rcv] # "dead" /\ ~ Closed => ~ Closed'
<1> DEFINE Goal ==
           /\ UNCHANGED <<seg, got>>
           /\ ~ Closed => pc'[Rcv] # "clear" \/ pc[Rcv] = "clear"
           /\ ~ Closed /\ ~ Closed' => pc[Rcv] # "clear" \/ pc'[Rcv] \in {"clear", "dead"}
           /\ pc[Rcv] # "dead" /\ ~ Closed => ~ Closed'
<1> USE ConstantsAssumption
    DEF Closed, TypeOK, Goto, Procs, shmVars, semVars, sendVars, recvVars, bounds
<1>1. ASSUME NEW s \in Senders, Sender(s), ~ SendWrite(s) PROVE Goal
  BY <1>1 DEF Sender, SendStart, Attach, SendSemget, Lock, LockFails, SendCheck, SendBusy,
              SendUnlock, SendInput, SendExit
<1>2. ASSUME RecvStart \/ Attach(Rcv) \/ RecvSemget \/ Lock(Rcv) \/ RecvCheck \/ RecvUnlock
             \/ RecvRemoveShm \/ RecvRemoveSem
      PROVE  Goal
  BY <1>2 DEF RecvStart, Attach, Running, RecvSemget, Lock, RecvCheck, RecvUnlock,
              RecvRemoveShm, RecvRemoveSem
<1>3. ASSUME SigInt \/ SigIntInLock \/ UNCHANGED vars PROVE Goal
  BY <1>3 DEF SigInt, SigIntInLock, vars
<1>4. ASSUME NEW p \in Killable, Kill(p) PROVE Goal
  BY <1>4 DEF Kill
<1> QED
  BY <1>1, <1>2, <1>3, <1>4 DEF Next, Receiver

\* Whoever is in the exchange before the receiver leaves is in the first
\* segment, whose exclusion holds.
LEMMA FirstIsExclusive ==
    ASSUME OneReceiver, IndInv, FirstPair, ~ Closed
    PROVE  1 \in Gens /\ Exclusive(1) /\ (Running(Rcv) => shm[Rcv] = 1)
BY ConstantsAssumption
DEF OneReceiver, FirstPair, Exclusive, IndInv, IdInv, TypeOK, Closed, Running,
    Procs, Gens, NoId

\* A sender that writes puts its next message into an empty channel.
LEMMA WriteIsPut ==
    ASSUME OneReceiver, IndInv, CountInv, FirstPair, ~ Closed,
           NEW s \in Senders, SendWrite(s)
    PROVE  [Channel!Next]_<<Slot, got, Open>>
<1>1. /\ pc[s] = "write" /\ UNCHANGED <<got, shm>>
      /\ seg' = [seg EXCEPT ![shm[s]] = NextMessage(s)]
      /\ pc'[Rcv] = pc[Rcv]
  BY ConstantsAssumption DEF SendWrite, Goto, IndInv, TypeOK, Procs
<1>2. 1 \in Gens /\ Exclusive(1) /\ (Running(Rcv) => shm[Rcv] = 1)
  BY FirstIsExclusive
<1>3. Open /\ Open'
  BY <1>1 DEF Open, Closed
<1>4. CASE shm[s] # 1
  <2>1. seg'[1] = seg[1]
    BY <1>1, <1>2, <1>4 DEF IndInv, TypeOK
  <2> QED
    BY <1>1, <1>3, <2>1 DEF Slot, Open
<1>5. CASE shm[s] = 1
  <2>1. seg[1] = Empty
    BY <1>1, <1>2, <1>5 DEF IndInv, SlotInv, SlotFree
  <2>2. pc[Rcv] # "clear"
    BY <1>2, <2>1 DEF IndInv, SlotInv, SlotFull, Running
  <2>3. Slot = Empty /\ Slot' = NextMessage(s)
    BY <1>1, <1>2, <1>3, <1>5, <2>1, <2>2 DEF Slot, Open, IndInv, TypeOK
  <2>4. got[s] \in Seq(Message) /\ Len(got[s]) \in Nat /\ n[s] \in Nat
    BY DEF IndInv, TypeOK
  <2>5. /\ \A i \in 1 .. Len(got[s]) : got[s][i].n = i
        /\ n[s] = Len(got[s])
    <3>1. ~ Pending(s)
      BY <1>5, <2>1 DEF Pending
    <3>2. /\ \A i \in 1 .. Len(got[s]) : got[s][i].n = i
          /\ n[s] = Len(got[s]) + (IF Pending(s) THEN 1 ELSE 0)
      <4>1. shm[s] # NoId /\ Exclusive(shm[s]) /\ ExactlyOnce
        BY <1>2, <1>5 DEF IndInv, NoId
      <4> QED
        BY <4>1 DEF ExactlyOnce
    <3> QED
      BY <2>4, <3>1, <3>2
  <2>6. \A i \in 1 .. Len(got[s]) : got[s][i].kind # "abm"
    <3> SUFFICES ASSUME NEW i \in 1 .. Len(got[s]), got[s][i].kind = "abm"
                 PROVE  FALSE
      OBVIOUS
    <3>1. got[s][i].from = s /\ Left(s)
      BY DEF CountInv, KindInv, KindOK
    <3> QED
      BY <1>1, <3>1 DEF Left
  <2>7. ~ Channel!Out(s)
    BY <2>4, <2>6 DEF Channel!Out
  <2>8. Channel!New(s) <=> phase[s] = "anm"
    <3>1. phase[s] = "anm" <=> n[s] = 0
      BY <1>1 DEF CountInv, KindInv, PhaseInv
    <3>2. got[s] = <<>> <=> Len(got[s]) = 0
      BY <2>4
    <3> QED
      BY <2>5, <3>1, <3>2 DEF Channel!New
  <2>9. phase[s] \in {"anm", "msg", "abm"}
    BY DEF IndInv, TypeOK, Kinds
  <2>10. Slot' = [from |-> s, kind |-> phase[s], n |-> Len(got[s]) + 1]
    BY <2>3, <2>5 DEF NextMessage
  <2>11. Channel!Put(s, phase[s])
    BY <1>1, <1>3, <2>3, <2>7, <2>8, <2>10 DEF Channel!Put, Slot, Open
  <2> QED
    BY <2>9, <2>11 DEF Channel!Next
<1> QED
  BY <1>4, <1>5

\* The receiver leaves its loop when everybody it knows of has deregistered.
LEMMA LeaveIsClose ==
    ASSUME OneReceiver, IndInv, CountInv, FirstPair, ~ Closed, RecvWhile
    PROVE  [Channel!Next]_<<Slot, got, Open>>
<1>1. /\ pc[Rcv] = "while" /\ UNCHANGED <<seg, got, shm>> /\ Running(Rcv)
      /\ pc'[Rcv] = IF ~ ende \/ counter > 0 THEN "lock" ELSE "rmshm"
  BY ConstantsAssumption DEF RecvWhile, Goto, IndInv, TypeOK, Procs, Running, shmVars
<1>2. CASE ~ ende \/ counter > 0
  BY <1>1, <1>2 DEF Slot, Open, Closed
<1>3. CASE ~ (~ ende \/ counter > 0)
  <2>1. 1 \in Gens /\ Exclusive(1) /\ shm[Rcv] = 1
    BY <1>1, FirstIsExclusive
  <2>2. IsFiniteSet(RegisteredHere) /\ counter = Cardinality(RegisteredHere)
    <3>1. IsFiniteSet(RegisteredHere)
      BY FS_Subset, ConstantsAssumption DEF RegisteredHere
    <3> QED
      BY <1>1, <2>1, <3>1 DEF CountInv, CounterIsRegistered, RegisteredHere
  <2>3. RegisteredHere = {}
    <3>1. Cardinality(RegisteredHere) \in Nat
      BY <2>2, FS_CardinalityType
    <3>2. Cardinality(RegisteredHere) = 0
      BY <1>3, <2>2, <3>1 DEF IndInv, TypeOK
    <3> QED
      BY <2>2, <3>2, FS_EmptySet
  <2>4. ASSUME NEW s \in Senders, ~ Channel!New(s)
        PROVE  Channel!Out(s)
    <3>1. got[s] # <<>>
      BY <2>4 DEF Channel!New
    <3>2. got[s] \in Seq(Message) /\ Len(got[s]) \in Nat /\ n[s] \in Nat
      BY DEF IndInv, TypeOK
    <3>3. shm[s] = 1
      <4>1. shm[s] # NoId
        BY <3>1 DEF IndInv, SlotInv, SlotNew
      <4>2. shm[s] <= shm[Rcv]
        BY <3>1 DEF CountInv, TakenInv, FirstPair
      <4> QED
        BY <2>1, <4>1, <4>2 DEF IndInv, TypeOK, Procs, Gens, NoId
    <3>4. PICK i \in 1 .. Len(got[s]) : got[s][i].kind = "abm"
      BY <2>1, <2>3, <3>1, <3>3 DEF RegisteredHere, Registered
    <3>5. /\ \A j \in 1 .. Len(got[s]) : got[s][j].n = j
          /\ Len(got[s]) <= n[s]
      <4>1. shm[s] # NoId /\ Exclusive(shm[s]) /\ ExactlyOnce
        BY <2>1, <3>3 DEF IndInv, NoId
      <4>2. /\ \A j \in 1 .. Len(got[s]) : got[s][j].n = j
            /\ n[s] = Len(got[s]) + (IF Pending(s) THEN 1 ELSE 0)
        BY <4>1 DEF ExactlyOnce
      <4>3. PICK k \in {0, 1} : k = IF Pending(s) THEN 1 ELSE 0
        BY Zenon
      <4>4. n[s] = Len(got[s]) + k
        BY <4>2, <4>3, Zenon
      <4>5. Len(got[s]) <= n[s]
        BY <3>2, <4>4
      <4> QED
        BY <4>2, <4>5, Zenon
    <3>6. i = Len(got[s])
      BY <3>2, <3>4, <3>5, OutIsLast DEF CountInv
    <3> QED
      BY <3>1, <3>4, <3>6 DEF Channel!Out
  <2>5. Open /\ Open' = FALSE /\ Slot' = Empty
    BY <1>1, <1>3 DEF Open, Closed, Slot
  <2>6. Channel!Close
    BY <1>1, <2>4, <2>5 DEF Channel!Close, Slot, Open
  <2> QED
    BY <2>6 DEF Channel!Next
<1> QED
  BY <1>2, <1>3

\* Every step of the exchange is a step of the channel, or leaves it as it is.
LEMMA ChannelStep ==
    ASSUME OneReceiver, IndInv, CountInv, FirstPair, [Next]_vars
    PROVE  [Channel!Next]_<<Slot, got, Open>>
<1>1. FirstPair' /\ (Closed => Closed')
  BY FirstPairStep
<1>2. CASE \E s \in Senders : SendWrite(s)
  <2>1. PICK s \in Senders : SendWrite(s)
    BY <1>2
  <2>2. CASE Closed
    BY <1>1, <2>1, <2>2 DEF Slot, Open, SendWrite
  <2> QED
    BY <2>1, <2>2, WriteIsPut
<1>3. CASE RecvTake
  <2>1. pc[Rcv] = "take" /\ pc'[Rcv] = "clear" /\ UNCHANGED seg
        /\ got' = [got EXCEPT ![seg[shm[Rcv]].from] = Append(@, seg[shm[Rcv]])]
    BY <1>3, ConstantsAssumption DEF RecvTake, Goto, IndInv, TypeOK, Procs, shmVars
  <2>2. ~ Closed /\ ~ Closed' /\ Running(Rcv)
    BY <2>1 DEF Closed, Running
  <2>3. shm[Rcv] = 1
    BY <2>2, FirstIsExclusive
  <2>4. Slot = seg[1] /\ Slot' = Empty /\ Slot # Empty /\ Open /\ Open'
    BY <2>1, <2>2, <2>3 DEF Slot, Open, IndInv, SlotInv, SlotFull
  <2>5. Channel!Deliver
    BY <2>1, <2>3, <2>4 DEF Channel!Deliver, Slot, Open
  <2> QED
    BY <2>5 DEF Channel!Next
<1>4. CASE RecvClear
  <2>1. /\ pc[Rcv] = "clear" /\ pc'[Rcv] = "unlock" /\ UNCHANGED got
        /\ seg' = [seg EXCEPT ![shm[Rcv]] = Empty]
    BY <1>4, ConstantsAssumption DEF RecvClear, Goto, IndInv, TypeOK, Procs
  <2>2. ~ Closed /\ ~ Closed' /\ Running(Rcv)
    BY <2>1 DEF Closed, Running
  <2>3. shm[Rcv] = 1 /\ 1 \in Gens
    BY <2>2, FirstIsExclusive
  <2>4. seg'[1] = Empty
    BY <2>1, <2>3 DEF IndInv, TypeOK
  <2> QED
    BY <2>1, <2>2, <2>4 DEF Slot, Open
<1>5. CASE RecvWhile
  <2>1. ~ Closed
    BY <1>5 DEF RecvWhile, Closed
  <2> QED
    BY <1>5, <2>1, LeaveIsClose
<1>6. CASE /\ \A s \in Senders : ~ SendWrite(s)
           /\ ~ RecvTake /\ ~ RecvClear /\ ~ RecvWhile
  <2>1. /\ UNCHANGED <<seg, got>>
        /\ ~ Closed => pc'[Rcv] # "clear" \/ pc[Rcv] = "clear"
        /\ ~ Closed /\ ~ Closed' => pc[Rcv] # "clear" \/ pc'[Rcv] \in {"clear", "dead"}
        /\ pc[Rcv] # "dead" /\ ~ Closed => ~ Closed'
    BY <1>6, ChannelLeft DEF IndInv
  <2>2. Slot' = Slot /\ (Open' <=> Open)
    BY <1>1, <2>1 DEF Slot, Open, FirstPair
  <2>3. Open' = Open
    BY <2>2 DEF Open
  <2> QED
    BY <2>1, <2>2, <2>3
<1> QED
  BY <1>2, <1>3, <1>4, <1>5, <1>6

\* With one receiver, started once and neither interrupted in its semaphore
\* operation nor killed, the exchange implements MailboxSpec's channel for one
\* message at a time, however many senders there are and whichever are killed.
THEOREM Refinement == ASSUME OneReceiver PROVE Spec => ImplementsChannel
<1>1. Init => FirstPair
  BY ConstantsAssumption DEF Init, FirstPair, Procs
<1>2. IndInv /\ FirstPair /\ [Next]_vars => FirstPair'
  BY FirstPairStep
<1>3. Spec => []FirstPair
  BY <1>1, <1>2, Inductive, PTL DEF Spec
<1>4. Init => Channel!Init
  BY ConstantsAssumption DEF Init, Channel!Init, Closed, Procs, Gens
<1>5. IndInv /\ CountInv /\ FirstPair /\ [Next]_vars =>
        [Channel!Next]_<<Slot, got, Open>>
  BY ChannelStep
<1> QED
  BY <1>3, <1>4, <1>5, Counted, PTL
  DEF Spec, ImplementsChannel, Channel!Spec, Channel!vars, Slot, Open
=============================================================================
