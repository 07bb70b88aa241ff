----------------------------- MODULE MCProcesses -----------------------------
(* TLC instance of the small programs of Uni/Bsys, Uni/bsys2 and Uni/CProg.  *)
(* They have nothing to do with each other: a behaviour is one of a program  *)
(* the initial state names, and the others are not started.                  *)
EXTENDS Integers, Sequences, FiniteSets

CONSTANTS Programs, Senders, TwoSenders, NPipes, RecvPipes, MaxLines, MaxStarts, MaxKills, MaxSigs,
          Clients, Servers, NoFile, MaxSets, MaxCount, MaxAsked,
          MaxN, MaxPairs, Elements, MaxLen

\* What the proofs need to know: there is a pipe name, no process is the mark
\* for no file, and rand of listen.c gives no negative number.
ASSUME ProcessBounds ==
    /\ Programs \subseteq {"ueb12", "ueb13", "ueb11", "ueb9", "ueb8", "u2", "u5", "sema", "binRel", "listen"}
    /\ NPipes \in Nat \ {0} /\ RecvPipes \in Nat \ {0}
    /\ {MaxLines, MaxStarts, MaxKills, MaxSigs, MaxSets, MaxCount, MaxAsked, MaxN, MaxLen} \subseteq Nat
    /\ IsFiniteSet(TwoSenders)
    /\ NoFile \notin Clients \cup Servers
    /\ Elements \subseteq Nat

VARIABLES program,
    spc, num, sent, exists, pending, child, recv, starts, poolKills,
    sspc, snum, ssent, sexists, spending, srpc, si, pname, fd, late, recvKills,
    cpc, typed, question, answer, ppc, cur, ende, pollKills, sigs,
    fpc, pflag, pc1, pc2, flag1, content, number, shown, fileKills,
    mpc, p1, p2, qpc, gpc, calls, disp, count, i, anz, usr2, result, asked, primeKills,
    tpc, tsent, pipe, trpc, text, sender, beenden, stored, printed, accepted, stray, streamKills,
    dcpc, wants, link, request, reply, got, vpc, bound, backlog, peer, opened, passKills,
    sample, lpc, semid, key, created, val, holds, ready, semKills,
    rpc, n, Rmat, Smat, Rli, Sli, Rar, Sar, round,
    lipc, keeps, elem, next, used, freed, liste1, liste2, liste, lauf, given

poolVars  == <<spc, num, sent, exists, pending, child, recv, starts, poolKills>>
recvVars  == <<sspc, snum, ssent, sexists, spending, srpc, si, pname, fd, late, recvKills>>
pollVars  == <<cpc, typed, question, answer, ppc, cur, ende, pollKills, sigs>>
syncVars  == <<fpc, pflag, pc1, pc2, flag1, content, number, shown, fileKills>>
primeVars == <<mpc, p1, p2, qpc, gpc, calls, disp, count, i, anz, usr2, result, asked, primeKills>>
streamVars == <<tpc, tsent, pipe, trpc, text, sender, beenden, stored, printed, accepted, stray,
                streamKills>>
passVars  == <<dcpc, wants, link, request, reply, got, vpc, bound, backlog, peer, opened, passKills>>
semVars   == <<sample, lpc, semid, key, created, val, holds, ready, semKills>>
relVars   == <<rpc, n, Rmat, Smat, Rli, Sli, Rar, Sar, round>>
listVars  == <<lipc, keeps, elem, next, used, freed, liste1, liste2, liste, lauf, given>>

bsysVars  == <<poolVars, recvVars, pollVars, syncVars, primeVars>>
bsys2Vars == <<streamVars, passVars, semVars>>
cprogVars == <<relVars, listVars>>

Pool == INSTANCE PipePool WITH kills <- poolKills
Recv == INSTANCE NonblockRecv WITH Senders <- TwoSenders, NPipes <- RecvPipes, spc <- sspc, num <- snum, sent <- ssent,
            exists <- sexists, pending <- spending, rpc <- srpc, i <- si,
            kills <- recvKills
Poll == INSTANCE PipePoll WITH kills <- pollKills
Sync == INSTANCE SignalSync WITH ppc <- fpc, kills <- fileKills
Prime == INSTANCE PrimeSignals WITH MaxN <- MaxCount, MaxSigs <- MaxAsked, n <- count,
            sigs <- asked, kills <- primeKills
Streams == INSTANCE StreamsPipe WITH Senders <- TwoSenders, spc <- tpc, sent <- tsent, rpc <- trpc,
            shown <- printed, kills <- streamKills
Pass == INSTANCE FdPass WITH cpc <- dcpc, answer <- reply, fd <- opened, kills <- passKills
Sem  == INSTANCE SemSamples WITH Procs <- Senders, pc <- lpc, cur <- key, kills <- semKills
Rel  == INSTANCE BinRel WITH pc <- rpc
List == INSTANCE ListSums WITH pc <- lipc

Init ==
    /\ program \in Programs
    /\ Pool!Init /\ Recv!Init /\ Poll!Init /\ Sync!Init /\ Prime!Init
    /\ Streams!Init /\ Pass!Init /\ Sem!Init
    /\ Rel!Init /\ List!Init
    \* What may differ at the beginning does so for the program that runs only.
    /\ program # "ueb8" => count = 0
    /\ program # "u5" => \A c \in Clients : wants[c] = NoFile
    /\ program # "sema" => sample = 1
    /\ program # "binRel" => n = 0
    /\ program # "listen" => keeps

Bsys ==
    \/ /\ program = "ueb12" /\ Pool!Next
       /\ UNCHANGED <<recvVars, pollVars, syncVars, primeVars>>
    \/ /\ program = "ueb13" /\ Recv!Next
       /\ UNCHANGED <<poolVars, pollVars, syncVars, primeVars>>
    \/ /\ program = "ueb11" /\ Poll!Next
       /\ UNCHANGED <<poolVars, recvVars, syncVars, primeVars>>
    \/ /\ program = "ueb9" /\ Sync!Next
       /\ UNCHANGED <<poolVars, recvVars, pollVars, primeVars>>
    \/ /\ program = "ueb8" /\ Prime!Next
       /\ UNCHANGED <<poolVars, recvVars, pollVars, syncVars>>

Bsys2 ==
    \/ program = "u2" /\ Streams!Next /\ UNCHANGED <<passVars, semVars>>
    \/ program = "u5" /\ Pass!Next /\ UNCHANGED <<streamVars, semVars>>
    \/ program = "sema" /\ Sem!Next /\ UNCHANGED <<streamVars, passVars>>

CProg ==
    \/ program = "binRel" /\ Rel!Next /\ UNCHANGED listVars
    \/ program = "listen" /\ List!Next /\ UNCHANGED relVars

Next ==
    /\ UNCHANGED program
    /\ \/ Bsys /\ UNCHANGED <<bsys2Vars, cprogVars>>
       \/ Bsys2 /\ UNCHANGED <<bsysVars, cprogVars>>
       \/ CProg /\ UNCHANGED <<bsysVars, bsys2Vars>>

vars == <<program, bsysVars, bsys2Vars, cprogVars>>

Spec == /\ Init /\ [][Next]_vars
        /\ Pool!Fairness /\ Recv!Fairness /\ Poll!Fairness /\ Sync!Fairness /\ Prime!Fairness
        /\ Streams!Fairness /\ Pass!Fairness /\ Sem!Fairness

\* The type invariants of the ten modules.
TypeOK ==
    CASE program = "ueb12"  -> Pool!TypeOK
      [] program = "ueb13"  -> Recv!TypeOK
      [] program = "ueb11"  -> Poll!TypeOK
      [] program = "ueb9"   -> Sync!TypeOK
      [] program = "ueb8"   -> Prime!TypeOK
      [] program = "u2"     -> Streams!TypeOK
      [] program = "u5"     -> Pass!TypeOK
      [] program = "sema"   -> Sem!TypeOK
      [] program = "binRel" -> Rel!TypeOK
      [] program = "listen" -> List!TypeOK

\* ueb12: a pipe has one child though waitpid clears foreign slots, and the
\* receiver does not end before its children.
OneChildPerPipe == program = "ueb12" => Pool!OneChildPerPipe

\* ueb12: a pipe is removed when everything that was written to it is read.
RemovedIsRead == program = "ueb12" => Pool!AllIsRead

\* ueb12: no sender waits for ever, unless the slot of its pipe is lost.
SenderIsServed == Pool!SenderIsServed

\* ueb13: a pipe is closed when everything in it is read, but for what a sender
\* writes that opens it between the last read and the close.
ClosedIsRead == program = "ueb13" => Recv!AllIsRead

\* ueb13: with all its pipes opened the receiver ends when nobody writes.
ReceiverEnds == Recv!ReceiverEnds

\* ueb11: the terminal belongs to the child that was asked.
TerminalIsOwned == program = "ueb11" => Poll!TerminalIsOwned

\* ueb11: the parent leaves its loop with no line left in a pipe.
AnswersAreRead == program = "ueb11" => Poll!AllIsRead

\* ueb11: when both children are gone the parent ends.
PollEnds == Poll!ParentEnds

\* ueb9: child 1 is not killed by the signal it waits for, and what it has shown
\* at its end is the complete file.
FileIsShown == program = "ueb9" => Sync!AllIsRead

\* ueb9: when child 2 has done its work the parent ends.
SyncEnds == Sync!ParentEnds

\* ueb8: the count that is printed is of all primes however often it was begun
\* anew, and no signal kills a child whose handlers stand.
PrimesAreCounted == program = "ueb8" => Prime!AllIsRead

\* ueb8: however many signals disturb the count, all three processes end.
PrimeEnds == Prime!ParentEnds

\* u2: hangups do not hide a sender that is alive.
NobodyUncounted == program = "u2" => Streams!NobodyUncounted

\* u2: the receiver stops when it has read what accepted senders wrote.
StreamsAreRead == program = "u2" => Streams!AllIsRead

\* u2: when all senders have gone the receiver ends.
StreamsEnd == []<> ~ Streams!Waits

\* u5: a client prints its own file though a server opens what is in its buffer.
OwnFile == program = "u5" => Pass!OwnFile

\* u5: nobody waits for a partner that has gone.
AnswerComes == []<> ~ Pass!Waits

\* sema1, sema2: a lock on a set that was not removed is held once.
Exclusion == program = "sema" => Sem!Exclusion

\* sema1, sema2: nobody waits for a lock that is free or a set that is gone.
LockIsGiven == []<> ~ Sem!Waits

\* binRel.c: S links what R links, all of it as long as n is at most 3.
ClosureIsLinked == program = "binRel" => Rel!ClosureIsLinked

\* binRel.c: matrix, list and array hold the same pairs.
FormsAgree == program = "binRel" => Rel!FormsAgree

\* listen.c: addtwo makes of every list what Summed says.
ListIsSummed == program = "listen" => List!ListIsSummed

\* listen.c: the odd numbers are what is left of the list.
OddsAreLeft == program = "listen" => List!OddsAreLeft

-----------------------------------------------------------------------------
(* What the configuration asks of all programs; it covers one at a time.   *)

\* Nobody and nothing is taken for another: a pipe, the terminal, a descriptor,
\* a lock, a count of writers, a pair or an element belongs to whom it should.
NoMixUp ==
    /\ OneChildPerPipe /\ TerminalIsOwned
    /\ NobodyUncounted /\ OwnFile /\ Exclusion
    /\ ClosureIsLinked /\ OddsAreLeft

\* Everything that comes in is used: no program ends or goes on without what it
\* was sent, and no computation loses what it was given.
AllIsRead ==
    /\ RemovedIsRead /\ ClosedIsRead /\ AnswersAreRead
    /\ FileIsShown /\ PrimesAreCounted /\ StreamsAreRead
    /\ FormsAgree /\ ListIsSummed

\* Nobody waits for ever for a partner that is gone or for something that is
\* free, and the programs that wait for others to end do end.
WaitsEnd ==
    /\ SenderIsServed /\ ReceiverEnds
    /\ PollEnds /\ SyncEnds /\ PrimeEnds
    /\ StreamsEnd /\ AnswerComes /\ LockIsGiven
=============================================================================
