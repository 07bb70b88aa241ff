----------------------------- MODULE ShmMailbox -----------------------------
(***************************************************************************)
(* Uni/bsys2/u6: one empfaenger.c and several sender.c exchange messages   *)
(* through a shared memory segment that holds one message at a time,       *)
(* guarded by a System V semaphore.                                        *)
(*                                                                         *)
(* Segments and semaphores are numbered by generation.  curShm and curSem  *)
(* are what shmget(17, .., IPC_CREAT) and semget(2406, .., IPC_CREAT)      *)
(* return now: IPC_RMID moves to the next generation, which the next       *)
(* shmget / semget creates empty / with value 0.  A process goes on using  *)
(* the generation it got; a semop on a removed semaphore fails, a removed  *)
(* segment stays usable for whoever has it attached.                       *)
(*                                                                         *)
(* No semop result is checked beyond a perror, so a failed lock operation  *)
(* lets the caller into its critical section all the same.                 *)
(***************************************************************************)
EXTENDS Integers, Sequences, FiniteSets

CONSTANTS Senders,      \* the sender processes
          Rcv,          \* the receiver process
          Empty,        \* strlen(shmadr) == 0
          MaxLines,     \* bound: lines typed into one sender
          MaxRuns,      \* bound: how often the receiver is started
          MaxIntr,      \* bound: SIGINTs that hit the receiver inside a semop
          Killable,     \* the processes that may be killed
          MaxKills      \* bound: how many of them are

ASSUME ConstantsAssumption ==
    /\ IsFiniteSet(Senders) /\ Rcv \notin Senders
    /\ MaxLines \in Nat
    /\ MaxRuns \in Nat \ {0}
    /\ MaxIntr \in Nat
    /\ Killable \subseteq Senders \cup {Rcv}
    /\ MaxKills \in Nat

Procs == Senders \cup {Rcv}
Gens  == 1 .. (MaxRuns + 1)
NoId  == 0              \* no segment / semaphore obtained yet
Kinds == {"anm", "msg", "abm"}

\* A message: who wrote it, what it is (Anmeldung, line, Abmeldung) and its
\* number among the messages of that sender.
Message == [from : Senders, kind : Kinds, n : Nat \ {0}]
ASSUME EmptyIsNoMessage == Empty \notin Message

VARIABLES
    seg,        \* seg[g]: contents of segment g
    val,        \* val[g]: value of semaphore g
    curShm,     \* the segment the key 17 names
    curSem,     \* the semaphore the key 2406 names
    pc,         \* where each process stands
    shm,        \* shm[p]: the segment p got, and then attached
    sem,        \* sem[p]: the semaphore p uses
    adj,        \* adj[p]: the SEM_UNDO adjustment the kernel keeps for p
    phase,      \* phase[s]: the kind of message sender s is about to write
    n,          \* n[s]: messages s has written
    counter,    \* receiver: registered senders
    ende,       \* receiver: SIGINT seen
    semop,      \* receiver: the sem_op its next lock operation uses
    got,        \* history: got[s], the messages of s the receiver has taken
    broken,     \* history: generations whose mutual exclusion is lost, by an
                \* unnoticed failure of a lock operation, by a killed receiver,
                \* or because segment and semaphore are no longer in step
    runs, intrs, kills

shmVars   == <<seg, curShm, shm>>
semVars   == <<val, curSem, sem, adj>>
sendVars  == <<phase, n>>
recvVars  == <<counter, ende, semop>>
bounds    == <<runs, intrs, kills>>
vars == <<shmVars, semVars, pc, sendVars, recvVars, got, broken, bounds>>

Init ==
    /\ seg = [g \in Gens |-> Empty]
    /\ val = [g \in Gens |-> 0]
    /\ curShm = 1 /\ curSem = 1
    /\ pc = [p \in Procs |-> "off"]
    /\ shm = [p \in Procs |-> NoId]
    /\ sem = [p \in Procs |-> NoId]
    /\ adj = [p \in Procs |-> 0]
    /\ phase = [s \in Senders |-> "anm"]
    /\ n = [s \in Senders |-> 0]
    /\ counter = 0 /\ ende = FALSE /\ semop = 0
    /\ got = [s \in Senders |-> <<>>]
    /\ broken = {}
    /\ runs = 0 /\ intrs = 0 /\ kills = 0

Running(p) == pc[p] \notin {"off", "done", "dead"}
Goto(p, l) == pc' = [pc EXCEPT ![p] = l]

-----------------------------------------------------------------------------
(* The semaphore, as semop(2) with SEM_UNDO treats it.                     *)

Live(g) == g >= curSem

\* Mutant of LockOp: the receiver does not set sem_op to -1 after its unlock.
LockOpZero(p) == IF p = Rcv THEN 0 ELSE -1

\* The operation the next lock call of p asks for: the receiver's first one
\* waits for zero (sem_op is still 0), all others subtract 1.
LockOp(p) == IF p = Rcv THEN semop ELSE -1

WouldBlock(p) ==
    /\ Live(sem[p])
    /\ \/ LockOp(p) = 0 /\ val[sem[p]] # 0
       \/ LockOp(p) = -1 /\ val[sem[p]] = 0

\* sem_op = +1: fails without effect when the semaphore has been removed.
Up(p) ==
    IF Live(sem[p])
    THEN /\ val' = [val EXCEPT ![sem[p]] = @ + 1]
         /\ adj' = [adj EXCEPT ![p] = @ - 1]
    ELSE UNCHANGED <<val, adj>>

\* Mutant of Undo: the operations are made without SEM_UNDO.
NoUndo(p) == UNCHANGED <<val, adj>>

\* What the kernel does to the semaphore when p ends: it adds p's SEM_UNDO
\* adjustment, and stops at zero.
Undo(p) ==
    IF Live(sem[p])
    THEN /\ val' = [val EXCEPT ![sem[p]] = IF @ + adj[p] < 0 THEN 0
                                                            ELSE @ + adj[p]]
         /\ adj' = [adj EXCEPT ![p] = 0]
    ELSE UNCHANGED <<val, adj>>

\* The lock call returns 0.
Lock(p) ==
    /\ pc[p] = "lock"
    /\ Live(sem[p])
    /\ ~ WouldBlock(p)
    /\ val' = [val EXCEPT ![sem[p]] = @ + LockOp(p)]
    /\ adj' = [adj EXCEPT ![p] = @ - LockOp(p)]
    /\ Goto(p, "check")
    /\ UNCHANGED <<shmVars, curSem, sem, sendVars, recvVars, got, broken, bounds>>

\* The semaphore is gone (EIDRM, EINVAL): perror, and on without the lock.
\* Only a sender gets here: it is the receiver that removes the semaphore.
LockFails(p) ==
    /\ pc[p] = "lock"
    /\ ~ Live(sem[p])
    /\ broken' = broken \cup {sem[p]}
    /\ Goto(p, "check")
    /\ UNCHANGED <<shmVars, semVars, sendVars, recvVars, got, bounds>>

-----------------------------------------------------------------------------
(* The segment                                                             *)

\* Segment g can be attached: it has not been removed or, as Linux has it,
\* another process has it attached still.
Attachable(g) ==
    \/ g >= curShm
    \/ \E p \in Procs :
         shm[p] = g /\ pc[p] \notin {"off", "shmat", "rmsem", "done", "dead"}

\* shmat: without the segment the program exits.
Attach(p) ==
    /\ pc[p] = "shmat"
    /\ Goto(p, IF Attachable(shm[p]) THEN "semget" ELSE "dead")
    /\ UNCHANGED <<shmVars, semVars, sendVars, recvVars, got, broken, bounds>>

-----------------------------------------------------------------------------
(* sender.c                                                                *)

\* shmget.
SendStart(s) ==
    /\ pc[s] = "off"
    /\ shm' = [shm EXCEPT ![s] = curShm]
    /\ Goto(s, "shmat")
    /\ UNCHANGED <<seg, curShm, semVars, sendVars, recvVars, got, broken, bounds>>

SendSemget(s) ==
    /\ pc[s] = "semget"
    /\ sem' = [sem EXCEPT ![s] = curSem]
    /\ Goto(s, "lock")
    /\ UNCHANGED <<shmVars, val, curSem, adj, sendVars, recvVars, got, broken, bounds>>

\* Mutant of SendCheck: the test for an empty mailbox is missing.
NoCheck(s) ==
    /\ pc[s] = "check"
    /\ Goto(s, "write")
    /\ UNCHANGED <<shmVars, semVars, sendVars, recvVars, got, broken, bounds>>

SendCheck(s) ==
    /\ pc[s] = "check"
    /\ Goto(s, IF seg[shm[s]] = Empty THEN "write" ELSE "busy")
    /\ UNCHANGED <<shmVars, semVars, sendVars, recvVars, got, broken, bounds>>

\* Mutant of SendBusy: the sender tries again without unlocking.
BusyKeepsLock(s) ==
    /\ pc[s] = "busy"
    /\ Goto(s, "lock")
    /\ UNCHANGED <<shmVars, semVars, sendVars, recvVars, got, broken, bounds>>

\* The mailbox still holds a message: unlock, sleep, try again.
SendBusy(s) ==
    /\ pc[s] = "busy"
    /\ Up(s)
    /\ Goto(s, "lock")
    /\ UNCHANGED <<shmVars, curSem, sem, sendVars, recvVars, got, broken, bounds>>

NextMessage(s) == [from |-> s, kind |-> phase[s], n |-> n[s] + 1]

SendWrite(s) ==
    /\ pc[s] = "write"
    /\ seg' = [seg EXCEPT ![shm[s]] = NextMessage(s)]
    /\ n' = [n EXCEPT ![s] = @ + 1]
    /\ Goto(s, "unlock")
    /\ UNCHANGED <<curShm, shm, semVars, phase, recvVars, got, broken, bounds>>

SendUnlock(s) ==
    /\ pc[s] = "unlock"
    /\ Up(s)
    /\ Goto(s, IF phase[s] = "abm" THEN "exit" ELSE "input")
    /\ UNCHANGED <<shmVars, curSem, sem, sendVars, recvVars, got, broken, bounds>>

\* fgets: another line, or the end of the input.
SendInput(s) ==
    /\ pc[s] = "input"
    /\ \/ /\ n[s] <= MaxLines
          /\ phase' = [phase EXCEPT ![s] = "msg"]
       \/ phase' = [phase EXCEPT ![s] = "abm"]
    /\ Goto(s, "lock")
    /\ UNCHANGED <<shmVars, semVars, n, recvVars, got, broken, bounds>>

SendExit(s) ==
    /\ pc[s] = "exit"
    /\ Undo(s)
    /\ Goto(s, "done")
    /\ UNCHANGED <<shmVars, curSem, sem, sendVars, recvVars, got, broken, bounds>>

-----------------------------------------------------------------------------
(* empfaenger.c                                                            *)

\* A new process, up to its shmget.
RecvStart ==
    /\ ~ Running(Rcv)
    /\ runs < MaxRuns
    /\ runs' = runs + 1
    /\ shm' = [shm EXCEPT ![Rcv] = curShm]
    /\ sem' = [sem EXCEPT ![Rcv] = NoId]
    /\ adj' = [adj EXCEPT ![Rcv] = 0]
    /\ counter' = 0 /\ ende' = FALSE /\ semop' = 0
    /\ Goto(Rcv, "shmat")
    /\ UNCHANGED <<seg, curShm, val, curSem, sendVars, got, broken, intrs, kills>>

\* A receiver that was killed between its two removals (rmsem) leaves a new
\* segment next to the old semaphore; the pair is never in step again.
RecvSemget ==
    /\ pc[Rcv] = "semget"
    /\ sem' = [sem EXCEPT ![Rcv] = curSem]
    /\ broken' = IF curSem = shm[Rcv] THEN broken ELSE broken \cup {shm[Rcv]}
    /\ Goto(Rcv, "lock")
    /\ UNCHANGED <<shmVars, val, curSem, adj, sendVars, recvVars, got, bounds>>

RecvCheck ==
    /\ pc[Rcv] = "check"
    /\ Goto(Rcv, IF seg[shm[Rcv]] = Empty THEN "unlock" ELSE "take")
    /\ UNCHANGED <<shmVars, semVars, sendVars, recvVars, got, broken, bounds>>

\* Mutant of RecvTake: the sign of the number is not looked at.
TakeCountsUp ==
    /\ pc[Rcv] = "take"
    /\ LET m == seg[shm[Rcv]]
       IN  /\ got' = [got EXCEPT ![m.from] = Append(@, m)]
           /\ counter' = IF m.kind = "msg" THEN counter ELSE counter + 1
    /\ Goto(Rcv, "clear")
    /\ UNCHANGED <<shmVars, semVars, sendVars, ende, semop, broken, bounds>>

\* Copy the message out of the segment and act on it.
RecvTake ==
    /\ pc[Rcv] = "take"
    /\ LET m == seg[shm[Rcv]]
       IN  /\ got' = [got EXCEPT ![m.from] = Append(@, m)]
           /\ counter' = CASE m.kind = "anm" -> counter + 1
                           [] m.kind = "abm" -> counter - 1
                           [] OTHER          -> counter
    /\ Goto(Rcv, "clear")
    /\ UNCHANGED <<shmVars, semVars, sendVars, ende, semop, broken, bounds>>

\* Mutant of RecvClear: the segment is not cleared.
NoClear ==
    /\ pc[Rcv] = "clear"
    /\ Goto(Rcv, "unlock")
    /\ UNCHANGED <<shmVars, semVars, sendVars, recvVars, got, broken, bounds>>

RecvClear ==
    /\ pc[Rcv] = "clear"
    /\ seg' = [seg EXCEPT ![shm[Rcv]] = Empty]
    /\ Goto(Rcv, "unlock")
    /\ UNCHANGED <<curShm, shm, semVars, sendVars, recvVars, got, broken, bounds>>

\* Mutant of RecvUnlock: sem_op is left at +1.
UnlockLeavesUp ==
    /\ pc[Rcv] = "unlock"
    /\ Up(Rcv)
    /\ semop' = 1
    /\ Goto(Rcv, "while")
    /\ UNCHANGED <<shmVars, curSem, sem, sendVars, counter, ende, got, broken, bounds>>

\* Mutant of RecvUnlock: sem_op is set back to what it was before.
UnlockKeepsOp ==
    /\ pc[Rcv] = "unlock"
    /\ Up(Rcv)
    /\ Goto(Rcv, "while")
    /\ UNCHANGED <<shmVars, curSem, sem, sendVars, recvVars, got, broken, bounds>>

\* Both unlocks of the loop (empty mailbox, message taken) set sem_op to +1
\* and then to -1 for the next round.
RecvUnlock ==
    /\ pc[Rcv] = "unlock"
    /\ Up(Rcv)
    /\ semop' = -1
    /\ Goto(Rcv, "while")
    /\ UNCHANGED <<shmVars, curSem, sem, sendVars, counter, ende, got, broken, bounds>>

RecvWhile ==
    /\ pc[Rcv] = "while"
    /\ Goto(Rcv, IF ~ ende \/ counter > 0 THEN "lock" ELSE "rmshm")
    /\ UNCHANGED <<shmVars, semVars, sendVars, recvVars, got, broken, bounds>>

RecvRemoveShm ==
    /\ pc[Rcv] = "rmshm"
    /\ curShm' = shm[Rcv] + 1
    /\ Goto(Rcv, "rmsem")
    /\ UNCHANGED <<seg, shm, semVars, sendVars, recvVars, got, broken, bounds>>

RecvRemoveSem ==
    /\ pc[Rcv] = "rmsem"
    /\ curSem' = sem[Rcv] + 1
    /\ Goto(Rcv, "done")
    /\ UNCHANGED <<shmVars, val, sem, adj, sendVars, recvVars, got, broken, bounds>>

-----------------------------------------------------------------------------
(* Signals                                                                 *)

\* Ctrl-C at the receiver while it is not blocked in semop.
SigInt ==
    /\ Running(Rcv)
    /\ ende' = TRUE
    /\ UNCHANGED <<shmVars, semVars, pc, sendVars, counter, semop, got, broken, bounds>>

\* Ctrl-C while the receiver is blocked in its lock operation: sigset()
\* installs the handler without SA_RESTART (and semop is never restarted), so
\* the call returns -1 with EINTR and the loop goes on without the lock.
SigIntInLock ==
    /\ intrs < MaxIntr
    /\ pc[Rcv] = "lock"
    /\ WouldBlock(Rcv)
    /\ ende' = TRUE
    /\ intrs' = intrs + 1
    /\ broken' = broken \cup {sem[Rcv]}
    /\ Goto(Rcv, "check")
    /\ UNCHANGED <<shmVars, semVars, sendVars, counter, semop, got, runs, kills>>

\* A process is killed (SIGKILL; for a sender also Ctrl-C, which it does not
\* handle).  A receiver that is killed and started again leaves a semaphore
\* behind whose value no longer fits its wait-for-zero.
Kill(p) ==
    /\ kills < MaxKills
    /\ Running(p)
    /\ kills' = kills + 1
    /\ Undo(p)
    /\ broken' = IF p = Rcv /\ sem[p] # NoId THEN broken \cup {sem[p]}
                                                ELSE broken
    /\ Goto(p, "dead")
    /\ UNCHANGED <<shmVars, curSem, sem, sendVars, recvVars, got, runs, intrs>>

-----------------------------------------------------------------------------

Sender(s) ==
    \/ SendStart(s) \/ Attach(s) \/ SendSemget(s)
    \/ Lock(s) \/ LockFails(s)
    \/ SendCheck(s) \/ SendBusy(s) \/ SendWrite(s) \/ SendUnlock(s)
    \/ SendInput(s) \/ SendExit(s)

Receiver ==
    \/ RecvStart \/ Attach(Rcv) \/ RecvSemget
    \/ Lock(Rcv)
    \/ RecvCheck \/ RecvTake \/ RecvClear \/ RecvUnlock \/ RecvWhile
    \/ RecvRemoveShm \/ RecvRemoveSem

Next ==
    \/ \E s \in Senders : Sender(s)
    \/ Receiver
    \/ SigInt \/ SigIntInLock
    \/ \E p \in Killable : Kill(p)

Spec == Init /\ [][Next]_vars

\* A process that can run does run; a process waiting for the semaphore gets
\* it if it is free again and again (the kernel serves semop waiters in the
\* order they came).  Nobody is obliged to start a process, to type, to press
\* Ctrl-C or to kill.
SenderStep(s) ==
    \/ Attach(s) \/ SendSemget(s) \/ LockFails(s) \/ SendCheck(s) \/ SendBusy(s)
    \/ SendWrite(s) \/ SendUnlock(s) \/ SendExit(s)

ReceiverStep ==
    \/ Attach(Rcv) \/ RecvSemget \/ RecvCheck \/ RecvTake \/ RecvClear
    \/ RecvUnlock \/ RecvWhile \/ RecvRemoveShm \/ RecvRemoveSem

Fairness ==
    /\ \A s \in Senders : WF_vars(SenderStep(s)) /\ SF_vars(Lock(s))
    /\ WF_vars(ReceiverStep) /\ SF_vars(Lock(Rcv))

FairSpec == Spec /\ Fairness
-----------------------------------------------------------------------------
(* Properties                                                              *)

PCs == {"off", "shmat", "semget", "lock", "check", "write", "busy", "unlock",
        "input", "exit", "take", "clear", "while", "rmshm", "rmsem", "done", "dead"}

\* The type invariant of the model.
TypeOK ==
    /\ seg \in [Gens -> Message \cup {Empty}]
    /\ val \in [Gens -> Nat]
    /\ curShm \in Gens /\ curSem \in Gens
    /\ pc \in [Procs -> PCs]
    /\ shm \in [Procs -> Gens \cup {NoId}]
    /\ sem \in [Procs -> Gens \cup {NoId}]
    /\ adj \in [Procs -> Int]
    /\ phase \in [Senders -> Kinds]
    /\ n \in [Senders -> Nat]
    /\ counter \in Int /\ ende \in BOOLEAN /\ semop \in {0, -1}
    /\ got \in [Senders -> Seq(Message)]
    /\ broken \subseteq Gens
    /\ runs \in 0 .. MaxRuns /\ intrs \in 0 .. MaxIntr /\ kills \in 0 .. MaxKills

\* p is between its lock and its unlock operation.
Holding(p) == pc[p] \in {"check", "write", "busy", "take", "clear", "unlock"}

\* Two processes that use the same semaphore are never between lock and
\* unlock together, through kills of senders, removal and restart, unless
\* the exclusion of that very semaphore was lost: a lock operation on it
\* failed unnoticed, or its receiver was killed.
MutualExclusion ==
    \A p, q \in Procs :
        p # q /\ Holding(p) /\ Holding(q) /\ sem[p] = sem[q] => sem[p] \in broken

\* Segment g is only used under semaphore g, and that one still excludes.
Exclusive(g) ==
    /\ g \notin broken
    /\ \A p \in Procs : shm[p] = g => sem[p] \in {g, NoId}

\* A message leaves the mailbox only by being cleared after the receiver has
\* taken it: no sender overwrites a message that is still unread, and the
\* receiver never clears one it has not seen.
UnreadIsKept ==
    [][\A g \in Gens :
         Exclusive(g) /\ seg[g] # Empty /\ seg'[g] # seg[g] =>
            /\ seg'[g] = Empty
            /\ Len(got[seg[g].from]) = seg[g].n]_vars

\* The message of s that waits in its segment and is not taken yet.
Pending(s) ==
    /\ seg[shm[s]] # Empty
    /\ seg[shm[s]].from = s
    /\ ~ (pc[Rcv] = "clear" /\ shm[Rcv] = shm[s])

\* The receiver takes the messages of every sender in the order they were
\* written, each exactly once: all of them but the one that still waits.
ExactlyOnce ==
    \A s \in Senders :
        shm[s] # NoId /\ Exclusive(shm[s]) =>
            /\ \A i \in 1 .. Len(got[s]) : got[s][i].n = i
            /\ n[s] = Len(got[s]) + (IF Pending(s) THEN 1 ELSE 0)

\* s has an Anmeldung, but no Abmeldung among the messages taken.
Registered(s) ==
    /\ got[s] # <<>>
    /\ \A i \in 1 .. Len(got[s]) : got[s][i].kind # "abm"

\* The receiver's counter is the number of senders whose registration it has
\* taken and whose deregistration it has not; it therefore never removes the
\* segment while a sender it knows of is still registered.
CounterIsRegistered ==
    Running(Rcv) /\ Exclusive(shm[Rcv]) =>
        counter = Cardinality({s \in Senders :
                                  shm[s] = shm[Rcv] /\ Registered(s)})

\* A sender that is killed anywhere, inside its critical section too, does not
\* keep the semaphore: whenever nobody is between lock and unlock, it is free.
LockNotLost ==
    /\ Running(Rcv) /\ semop = -1
    /\ Live(sem[Rcv]) /\ sem[Rcv] \notin broken
    /\ \A p \in Procs : sem[p] = sem[Rcv] => ~ Holding(p)
    => val[sem[Rcv]] = 1

\* The receiver is in its loop.
Serving == Running(Rcv) /\ pc[Rcv] \notin {"rmshm", "rmsem"}

\* While the receiver is in its loop a message does not wait for ever.
MessageIsTaken ==
    \A g \in Gens :
        seg[g] # Empty /\ shm[Rcv] = g ~> seg[g] = Empty \/ ~ Serving

\* While the receiver is in its loop every send operation of a sender ends.
SendEnds ==
    \A s \in Senders :
        Holding(s) \/ pc[s] = "lock" ~>
            pc[s] \in {"input", "exit", "done", "dead"} \/ ~ Serving

\* After Ctrl-C the receiver ends once no sender runs any more, provided none
\* was killed and the exclusion held.
ReceiverEnds ==
    ende /\ Running(Rcv) ~>
        \/ ~ Running(Rcv)
        \/ \E s \in Senders : Running(s)
        \/ kills > 0 \/ broken # {}

-----------------------------------------------------------------------------
(* Refinement: with one receiver that is neither interrupted in semop nor  *)
(* killed, the exchange implements the channel of MailboxSpec.  A message  *)
(* counts as delivered when it is taken, although the segment still holds  *)
(* it until it is cleared; what is written once the receiver has left its  *)
(* loop goes nowhere.                                                      *)

Closed == pc[Rcv] \in {"rmshm", "rmsem", "done"}

Channel == INSTANCE MailboxSpec WITH
    slot      <- IF Closed \/ pc[Rcv] = "clear" THEN Empty ELSE seg[1],
    delivered <- got,
    open      <- ~ Closed

\* The exchange implements the channel: every step of a process is a step of
\* the channel or leaves it as it is.
ImplementsChannel == Channel!Spec

-----------------------------------------------------------------------------
(* What Bs2ueb6.txt asks for and the programs do not keep.                 *)

\* Bs2ueb6.txt:25: unread data is never overwritten by a sender - whatever
\* the receiver's semaphore calls return.
NeverOverwritten ==
    [][Serving /\ seg[curShm] # Empty /\ seg'[curShm] # seg[curShm] =>
         seg'[curShm] = Empty]_vars
=============================================================================
