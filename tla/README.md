# Verification of the concurrent programs in Leben

Leben is the private collection of a student of computer science at the HTWK
Leipzig. Its programs are exercises; the ones in which steps of several
processes meet are those of the two courses on operating systems
(`Uni/bsys2`, `Uni/Bsys`), each written to an assignment (`Bs2uebN.txt`,
`Bs1uebN.txt`) that says what it has to do. The largest program is the window
of a practical course that drives a pipeline of image processing
(`Praktikum/vpreproc`), and `Uni/CProg` has two exercises whose loops depend on
the order in which they visit their data. This directory keeps TLA+ modules
of these programs, TLC configurations that check them, and proofs for TLAPS.

## 1. Inventory

All paths are relative to `src/`.

| Component | State | Operations | Hard behaviour | Correct when | Status |
|---|---|---|---|---|---|
| `Uni/bsys2/u6`: `empfaenger.c`, `sender.c` | a shared memory segment (one message), a System V semaphore, the receiver's `counter` and `ende` | lock, test, write, unlock; take, clear, unlock; remove both | senders and receiver interleave; SIGINT interrupts `semop`; processes are killed inside the critical section; removal and restart under running senders | one process at a time in the mailbox, each message taken once and in order, the receiver ends after the last registered sender | modelled, proved |
| `Uni/bsys2/u1`: `empfaenger.c`, `sender.c` | a message queue, the count of senders, one open stream per message | `msgsnd`, `msgrcv` and store, `msgctl(IPC_RMID)`, write-out at `exit` | full queue, removal under waiting senders, limit on open files, restart | streams are kept apart and stored in order, the queue goes only when nobody uses it | modelled, proved |
| `Uni/bsys2/u4`: `server.c`, `client.c` | a DGRAM socket, one file per client, `counter`, `ende` | line, `exit`, rejection after Ctrl-C | datagrams of several clients in any order, failed `sendto`, restart that finds old files | the streams are stored and printed whole, every line is answered, the server ends after its clients | modelled, proved |
| `Uni/bsys2/u3`: `server.c`, `client.c` | a STREAM socket, a child per connection, the files | connect, name, confirmation, line and acknowledgement, SIGINT, `wait` | no message boundaries, two children on one file, signals between test and `accept`, SIGPIPE | no file lost without confirmation, every line stored and acknowledged, parent outlives children | modelled, proved |
| `Uni/bsys2/u2`: `ausgabe.c`, `eingabe.c` | a STREAMS pipe with control and data part, the count of senders, a file per sender | register, line, sign off, turn away after Ctrl-C | hang-ups are taken for the message the buffer holds; a sender is killed while its messages are in the pipe | no sender that may still write is uncounted, everything of an accepted one is read, the reader ends after the last writer | modelled, proved |
| `Uni/bsys2/u5`: `server.c`, `client.c` | a connection that carries one descriptor, the name of the socket | open, pass the descriptor, take the name | failure to open is a message without a descriptor; a client leaves before its request; two servers and one name | the client reads the file it asked for, the server answers before it ends | modelled, proved |
| `Uni/bsys2/Aufgabe7`: `SERVER.C`, `CLIENT.C` | a thread per connection, a semaphore set of two | as u3, with threads; the end of a thread is counted in a semaphore | the descriptor is passed through a shared local variable; an uninitialised value is compared | every connection has a thread of its own, the server ends after its threads | modelled, proved |
| `Uni/bsys2/sema1.c`, `sema2.c` | a semaphore set | create or open, set the value, lock, unlock, remove | creation and first value are two calls; removal while others wait or hold the lock; kills | one at a time, kills give the lock back | modelled, proved |
| `Uni/Bsys/ueb12`: `empfaenger.c`, `sender.c` | named pipes, a child per pipe, tables of pids and of pipes that are worked on | search a free name, `mkfifo`, open, read to the end, fork, reap, remove | `waitpid` with an empty slot reaps any child; pipes come and go | a pipe has one child, everything is read before it goes, a sender finds a reader | modelled, proved |
| `Uni/Bsys/ueb13`: `empfaenger.c`, `send.c` | named pipes, tables of names and descriptors | scan, open, read without blocking, remove and shift | senders that share a pipe, or open one that is about to be closed or removed | everything is read, but for senders that open a pipe between the last read and the close; the receiver ends | modelled, proved |
| `Uni/Bsys/ueb11`: `Uebung11.c` | two pipes for each of two children | ask, answer, Ctrl-D, abort | three processes on one terminal; SIGPIPE; interrupted reads | the terminal belongs to the child that was asked, no line is lost, the parent ends last | modelled, proved |
| `Uni/Bsys/ueb9`: `Ueb9.c`, `Ueb9.1.c`, `Ueb9.2.c` | a file, two flags | ready signal, write, completion signal, show | a signal before the handler, a program that cannot be started | the file is shown when it is complete | modelled, proved |
| `Uni/Bsys/ueb10`: `Ueb10.c` | a flag, counters | count until the alarm | - | - | not modelled: measures time |
| `Uni/Bsys/ueb8`: `Ueb8.c`, `Prim.c`, `Signal.c` | a count of primes, a flag, the dispositions of four signals | count, start again, give up, send a signal, collect a child | a signal before its handler, between test and reset, or to a child that has gone | the count is right however often it was begun, all three processes end | modelled, proved |
| `Uni/Bsys/ueb5` to `ueb7` | two processes or one | count primes, `exec` | none: a parent waits for its child | - | not modelled: nothing to interleave |
| `Uni/CProg/binRel.c` | a relation as matrix, list and array of lists | read pairs, convert, properties, closure | the closure visits every pair once, in a fixed order | the forms agree, the closure links what the relation links | partly modelled, proved |
| `Uni/CProg/1. Semester/listen.c` | linked lists on the heap | join, put sums in, take even numbers out, free | steps over the end of a list, reads and frees of freed nodes | no element is lost but those the loops skip, no node is freed twice | partly modelled, proved |
| `Uni/CProg`, other exercises | local variables | sorting, numerics, text | rounding | - | not modelled: one loop each over the user's numbers |
| `Uni/HET/*.vhd` | registers and gates | multiplier, ALU, traffic light, flip-flops | nine-valued signals, delta cycles | the circuit computes what it is named for | not modelled: the designs do not interact, and their semantics is the simulator's |
| `Uni/CProg/rnetze` | sockets | resolver, echo in Java | little state of their own | - | not modelled: I/O around library calls |
| `Praktikum/vpreproc/vpreproc.py` | the list of images, two lists in the window, a dictionary of anatomical images, settings, temporary files | add, remove, load and save, start a run of up to five steps and masks per image, exit | handlers run inside the processing (`processEvents`); a step raises; files are noted and removed later | a result of every image, lists that agree, no temporary files left, a run ends | partly modelled, proved |
| `Bachelorarbeit` (NMF, ALS) | matrices of doubles | numerical factorisation | rounding | - | not modelled: floating point is out of TLC's reach |

HTML quizzes, documents, the assembler tables under `MPMP` and generated or
third-party files hold no state the modules could speak about. `Uni/CProg/Abgabe/binaereRelationen.c` is `binRel.c` once more. Within the modelled programs
the failures of `socket`, `bind`, `listen`, `fork` and `pthread_create`, which
end the program before it has done anything, are left out, and so are the text
of lines and messages, the dialogues with the user, and the length limits of
buffers.

The components do not call each other: each is a pair (or a handful) of
programs around one kernel object. What they share is the duty of a receiver
that serves several senders, which `StreamStore` states once.

## 2. Modules

| Module | Models | Abstract specification |
|---|---|---|
| `ShmMailbox` | u6 | `MailboxSpec`, by `ImplementsChannel` |
| `ShmMailboxProofs` | theorems about `ShmMailbox` | |
| `MsgQueue` | u1 | |
| `MsgQueueProofs` | theorems about `MsgQueue` | |
| `DgramServer` | u4 | `StreamStore`, by `ImplementsStore` |
| `DgramServerProofs` | theorems about `DgramServer` | |
| `StreamServer` | u3 | `StreamStore`, by `ImplementsStore` |
| `StreamServerProofs` | theorems about `StreamServer` | |
| `ThreadServer` | Aufgabe7 | |
| `ThreadServerProofs` | theorems about `ThreadServer` | |
| `PipePool` | ueb12 | |
| `NonblockRecv` | ueb13 | |
| `PipePoll` | ueb11 | |
| `SignalSync` | ueb9 | |
| `PrimeSignals` | ueb8 | |
| `StreamsPipe` | u2 | |
| `FdPass` | u5 | |
| `SemSamples` | `sema1.c`, `sema2.c` | |
| `BinRel` | `binRel.c` | |
| `ListSums` | `listen.c` | |
| `Selection` | what loops keep of a sequence they walk along, for u1, `binRel.c` and `listen.c` | |
| `MCProcesses` | one of these ten, chosen in the initial state | |
| `BsysProofs` | invariants of the first eight of them, as `MCProcesses` instantiates them | |
| `ProcessesProofs` | invariants of `BinRel` and `ListSums`; theorems about `MCProcesses` | |
| `Preprocessor` | `vpreproc.py` | |
| `PreprocessorProofs` | theorems about `Preprocessor` | |
| `MC...` | otherwise the module of that name for TLC | |

Every system call that blocks, and every point at which another process may
see a change, is an action boundary; what lies between two such points is one
action. The program counters carry the names of the calls. `fgets` is a choice
between the inputs that matter (a line, "exit", the end of the input). A line
is its number among the lines of its sender, and the sender's identity stands
for the pid, socket name or connection in it.

### ShmMailbox (u6)

| Code | Model |
|---|---|
| `shmget(17)`, `semget(2406)` | generations: `curShm`, `curSem` are what the keys name now, `shm[p]`, `sem[p]` what `p` obtained |
| `strlen(shmadr)==0` | `seg[g] = Empty` |
| negative number, positive number with text, positive number with empty text | `kind` "anm", "msg", "abm" |
| `semop` with `SEM_UNDO` | `val`, `adj`; `Lock`, `Up`, `Undo` |
| `sembuf.sem_op` of the receiver, 0 at first, then -1 | `semop` |
| `perror` and on after a failed `semop` | `LockFails`, `SigIntInLock` |
| `while(ende==0 \|\| counter>0)` | `RecvWhile` |

`shmget` and `shmat` are two steps (`SendStart` or `RecvStart`,
then `Attach`). Between them the segment may be removed; the programs are built
for Linux on i386, where a segment that was removed can still be attached as
long as somebody has it attached, and not afterwards (`Attachable`).

The `adj` of the receiver is reset when it is started anew: it is a new
process. The variables `got` and `broken` are history; `broken` holds the
semaphores whose exclusion is lost, by an event the code does not notice.

### MsgQueue (u1)

`queue` and `cur` are the queue the key names; `out` the streams the receiver
has opened and never closes, oldest first, with the text each one buffers;
`Exit` writes them out in the order of the C library's list, latest first.
`LinesOf` is what that leaves of a sender's text.

### DgramServer (u4)

`file[c]` is the file of client `c`; the empty sequence says that it does not
exist, since a file is created by the first line. `Handle` is one round of the
loop with the three ways to treat a datagram (`Reject`, `StoreLine`,
`EndStream`). `signal()` restarts `recvfrom`, so Ctrl-C only sets `ende`.
`client.c` sets the length of the server's address inside its loop only
(37): when the input ends at once, `sendto` of "exit" gets whatever the
variable holds, and the datagram may be sent or not (`SendUnset`).

### StreamServer (u3)

`up[c]` and `down[c]` are the two directions of a connection. `read` takes all
that has arrived, and only the head of it counts, since the programs treat the
buffer as one C string. `child[c]` follows the server's end of the connection
from the listen queue through the child process; `ppc` is the parent. The
child opens the file in three places, and each may fail on its own: names in `Unreadable` cannot be opened with "r" though the file is there, so
the child takes them for new; names in `Unwritable` cannot be opened with "w", whether the
file is new or the client has just answered "j" (130-132); then the child exits and the old
contents stay.
`sigset()` does not restart calls, so SIGINT makes `accept` or `wait` return.

### ThreadServer (Aufgabe7)

A thread has the name of the client whose connection created it, and a
descriptor is the connection it names; that the kernel gives a closed number to
a later connection is not modelled. `args` is the local variable of `main`
whose address every thread gets: `ThreadStart` reads it, `CreateThread` sets it
anew. `sem` are the two semaphores, `left` what an earlier server has left in
the second one, since the set is never removed. `semval` is `semval.val`, which
nobody sets: `Init` chooses between -1 and another value, and only for -1 the
main thread ever locks. It waits for a post while it holds the lock
(`JoinUnlock`), so a thread that has not posted yet stops there and the server
does not end; this is why `EndsAfterThreads` starts from threads that have
ended.

The directory holds binaries for SunOS 5.10, and the module follows that
system: `signal()` installs a handler for one signal, interrupted calls are not
restarted, SIGINT goes to any thread (`pthread_sigmask` gets no set), the
second one ends the process, and so does SIGPIPE in any thread. A thread that
leaves by `pthread_exit` before the data loop ("quit": no name, no confirmation, or a
file that cannot be opened) neither closes the connection nor posts. `Backlog`
is the second argument of `listen`; the queue takes one connection more.

### The ten programs of MCProcesses

Small programs that share nothing. `MCProcesses` instantiates each with
variables of its own; `program` says which of them a behaviour is about, and
`Programs` which ones a configuration covers. So one configuration asks all of
them the same three questions, and each is the conjunction of what it means for
the single programs, under the name it has in `MCProcesses`:

| Program | `NoMixUp`: is anybody or anything taken for another? | `AllIsRead`: is everything used that comes in? | `WaitsEnd`: does anybody wait for ever? |
|---|---|---|---|
| ueb12 | `OneChildPerPipe` | `RemovedIsRead`: a pipe is removed only when it is empty | `SenderIsServed`: not a sender that opens its pipe while the receiver runs, unless its slot is lost |
| ueb13 | - | `ClosedIsRead`: a pipe the receiver has not open is empty and has no writer, late senders apart | `ReceiverEnds`: not the receiver with its pipes open, when nobody writes |
| ueb11 | `TerminalIsOwned` | `AnswersAreRead`: no line is lost before the parent ends | `PollEnds`: not the parent, when its children are gone |
| ueb9 | - | `FileIsShown`, when it is complete | `SyncEnds`: not the parent, when child 2 has done its work |
| ueb8 | - | `PrimesAreCounted`: the count printed is right; handlers that stand are not passed by | `PrimeEnds`: not the parent |
| u2 | `NobodyUncounted` | `StreamsAreRead`: nothing of an accepted sender is left in the pipe or unshown | `StreamsEnd`: not the reader, when all writers have gone |
| u5 | `OwnFile` | - | `AnswerComes`: not a client with a server, nor a server whose client has gone |
| sema1, sema2 | `Exclusion` | - | `LockIsGiven`: not a process before a free lock or a removed set |
| binRel | `ClosureIsLinked` | `FormsAgree`: matrix, list and array hold the same pairs | - |
| listen | `OddsAreLeft` | `ListIsSummed` | - |

Each of these has a bug of its own among the mutants, in the module of its
program.

A FIFO is its name in `exists` and the number of records in it (`pending`);
programs write and read whole records of one size. `open` waits until both
sides have come, in `PipePool` as the joint step `Open` (a pipe there has one
sender and one child), in `NonblockRecv` as `SenderOpen` and `RecvOpen`, which
wakes all senders that wait. A read returns 0 when the pipe is empty and no
process has it open for writing.

- `PipePool`: `child` are the processes the receiver has forked, and a pid is an
  index of it. `recv` holds the receiver's local variables. `Reapable` is
  `waitpid`: with -1 in the slot any child that has ended. `LostSlot` is a slot
  whose child was collected for another one; its pipe is not served again.
- `NonblockRecv`: the arrays are sequences of length `pno`. The `read` that
  returns 0 (62) and `close` (67) are two steps (`RecvRead`, `RecvClose`): in
  between the pipe is still open for reading, and a sender may open it and
  write. `late` are the senders that did; what they write is lost, and
  `ClosedIsRead` exempts them and nobody else. The sender is
  `send.c`; the makefile builds `sender.c`, a copy of the one of ueb12, whose
  pipes have names this receiver does not look for.
- `PipePoll`: at most one question and one line are in the pipes of a child,
  since each side waits for the other. After the parent's end a child takes the
  end of the pipe for a question.
- `SignalSync`: SIGUSR1 without a handler kills; `Signalled` keeps that case.
  `number` stands for the file names `sscanf` takes for a descriptor.
- `PrimeSignals`: `disp` is the disposition of each signal in child 1, changed
  by one call of `sigset` at a time (`Sigsets`); `Count` and `Flag` are the two
  halves of a round, and a signal may come between any two steps. A signal to
  a child that the parent has collected is lost.
- `StreamsPipe`: `Open` is the meeting of two `fopen`s. `text` is what the
  control buffer holds: anything before the first message, then the "0" the
  loop puts there, so that a hang-up signs a sender off. `stray` remembers that a
  sender who was turned away has signed off all the same.
- `FdPass`: `wants[c]` is the file a client names, `NoFile` if there is none;
  for a client that leaves without a request the server opens anything
  (`RecvRequest`). `bound` is the server whose socket has the name.
- `SemSamples`: `sample` says which of the two programs all processes run; `val` is the
  value in both senses (1 is free in `sema1`, 0 in `sema2`); `cur` is the set
  the key leads to. `ready` remembers the sets whose first value was set.
- `BinRel`: a matrix is the set of its ones. `Pass` is one `i` and one `j` of the loop
  that makes the relation transitive. `Linked` is the reference: every set of nodes that is
  closed under the pairs in both directions and has `i` has `j`.
- `ListSums`: nodes are numbers on a heap. `keeps` chooses what a freed node
  holds: the pointer it had, or nothing that can be foreseen; a read of the
  latter, a step from the null pointer and a second `free` lead to
  "undefined", where the model stops. `Summed` says what `addtwo` makes of a
  list, as a function of it.

### Preprocessor (Praktikum/vpreproc)

The program has one thread, but `progress` and `debugOutput` call
`app.processEvents()`, so any handler of the window may run between two
commands of a run; only the start button is off. Each step of the run up to the
next such call is an action (`Processing`), each handler another (`User`): so
conversion, filters, time step and masks are two actions each, and the
registration of one image is up to seven (`Registration`, the stages of `Registering`,
`Resample`), any of which may raise when there is no template.

| Code | Model |
|---|---|
| `myFileList`, `lw_input_files`, `lw_functional_anatomical_image`, `anatomicalImageDict` | `fileList`, `rows`, `anaRows`, `dict` |
| the loop over `self.myFileList` | `loopList`: `None` as long as it is the list itself; loading settings binds the name to another list, and the loop goes on over the old one |
| `applyCommand` | `Command`: the output is worth what the input was, or nothing happens |
| a path: directory, prefixes, name, suffix | a record; `Stem[b]` is what `rstrip(".nii")` leaves |
| `removeList`, `removeListEver` | `removeList`, `removeEver` |
| an exception in a slot | `Raise`: the run is over, the start button stays off; leaving then is `closed = "stuck"` |
| scratch files | `work`; `checkHeaderFor` leaves the file "check" when the field is missing (572-579) |
| a directory dialogue that is cancelled | `Root`: nothing can be written there |

`disk` maps a path to the image its contents go back to and the anatomical image it was registered
with, which is all `ResultsAreMade` and `NothingLeft` ask about. `touched`
collects what the user did during a run that the properties have to exempt.
Whether a check fails (`CheckHeader`), and whether a threshold gives a mask
(`MaskRound`), is left open, as it depends on the images.

## 3. Runs

| Run | Question | Expected |
|---|---|---|
| `ShmSafety` | exclusion, exactly-once delivery, the count of senders, the lock across kills, SIGINT inside `semop`, removal and restart | pass |
| `ShmLive` | the refinement of `MailboxSpec`; messages are taken, sends end, the receiver ends | pass |
| `ShmOverwrite` | is an unread message ever overwritten, whatever `semop` returns? | violation |
| `Queue` | the count on which the removal hangs, whole streams; sends and the receiver end | pass |
| `QueueReversed` | are the streams stored in order? | violation |
| `Dgram` | counter against files, whole streams over a restart; answers, the end | pass |
| `Stream` | what was acknowledged by a child that ends in good order is stored, old files survive, the parent outlives its children; children end, unserved clients learn | pass |
| `StreamLostLine` | is every line acknowledged? | violation |
| `Threads` | the process outlives its threads, ends after them, threads end after their clients | pass |
| `Processes` | ten small programs: nobody is taken for another, everything is read, nobody waits for ever | pass |
| `Preprocess` | the lists agree, every image has its result, no temporary files are left, a run ends | pass |
| `ThreadsShareSocket` | does every thread have a connection of its own? | violation |

Bounds. Two senders or clients are the least that can meet in a critical
section, on a queue or on a file; none of the programs treats a third one
differently from the second. Each sends up to two lines beyond its
registration, so that there is a first, a later and a last message. Two runs
of a receiver give one removal or one crash with a restart. One kill and one
or two signals reach every point of the programs at which they can strike; two
SIGINTs are needed in `Stream` because the first interrupts `accept` and the
second `wait`, and in `Threads` because the first is handled by any thread and
the second ends the process. `MaxLeft` = 0: with posts left behind the server
may end before its threads, which `OutlivesThreads` states as its condition;
no other property depends on it, and the state space is half as large. `Capacity` = 2, `QLen` = 1 and `Backlog` = 0 make the queues fill
up with two senders. `MaxFiles` = 4 lets the receiver run into its limit. `Stream` has
a name that cannot be written and one that cannot be read beside an ordinary one. In
`ShmSafety` the senders are symmetric and no liveness is checked; the runs
with liveness use no symmetry. `Processes` has three senders
and the three pipes of the program for ueb12, since a slot can only be lost
beside a second child and missed by a third sender, and two of each (`RecvPipes` = 2) for ueb13,
where the second sender may already share a pipe. The semaphore samples have three
processes, so that one removes the set, one waits and one creates the next, and
`MaxSets` = 2. `u5` has two servers, which is what it takes to lose the name.
`MaxCount` = 9 has a composite odd number, the only case that needs the root,
and `MaxAsked` = 2 signals are enough to restart a count and give it up.
Relations have up to four elements, the least for which one pass of the
closure is not enough, and up to three pairs, the least that show it; lists
have up to three elements each, and so six joined, two rounds of `addtwo`.
`Preprocess` offers three images, two under one name and one to be converted,
and lists two of them at a time: the first is in hand while the second is
changed. Three edits are enough to list an image twice, to save, change and
load, and to reach into both loops; two runs show what the first leaves
behind. Thresholds run from 70 to 72 instead of 255, one round that goes on
and one that is the last. All runs have `CHECK_DEADLOCK FALSE`: the
programs end, and the bounds end the rest.

Fairness. Each process that can take its next step takes it (WF): these are
operating system processes under a fair scheduler. The locks of u6
and Aufgabe7, `msgsnd` on a full queue and `sendto` on a full socket are SF, because they are enabled
again and again and the kernel serves their waiters in turn. In
`Processes` only the receivers, the parents, child 1 of ueb9 and the meeting
of two `open` calls are fair: nothing else is needed there. In ueb8 all three programs are
fair once the parent has forked its first child, in u5 clients and servers once they
are connected or bound, in the samples every process once it has the set. In
`Preprocess` only the processing is fair. Nobody is obliged
to start a program, to type, to click, to press Ctrl-C or to kill.

## 4. Proofs

What the runs check on a small instance and the theorems state for every value
of the constants:

| Module | Theorems | Assumed of the constants |
|---|---|---|
| `ShmMailboxProofs` | `TypeOK`, `MutualExclusion`, `ExactlyOnce`, `LockNotLost`, `UnreadIsKept`, `CounterIsRegistered`; `ImplementsChannel` | `ConstantsAssumption`, `EmptyIsNoMessage`; the refinement: `OneReceiver` |
| `DgramServerProofs` | `TypeOK`, `CounterIsFiles`, `ImplementsStore` | `DgramConstants` |
| `StreamServerProofs` | `TypeOK`, `OutlivesChildren`, `SentIsStored`, `OldIsKept`, `ImplementsStore` | `StreamConstants` |
| `MsgQueueProofs` | `CounterIsActive`, `StreamIsWhole`, `TypeOK` | `QueueConstants` |
| `ThreadServerProofs` | `TypeOK`, `OutlivesThreads` | `ThreadConstants` |
| `PreprocessorProofs` | `TypeOK`, `RowsAgree`, `NothingLeft`, `ResultsAreMade` | `PreprocessorConstants` |
| `ProcessesProofs` | `TypeOK`, `NoMixUp`, `AllIsRead` of `MCProcesses` | `ProcessBounds` |

These are all invariants and action properties the passing runs check, and all
refinements. The assumptions on the constants say that bounds are natural numbers
and that a set of processes whose members are counted is finite; the ones of the
modules are evaluated by TLC in every run. `PreprocessorConstants` says besides
that the dialogues offer paths without prefixes, that there is at least one threshold
below the last, and that of "<stem>.v", the name a conversion has written, the two
`rstrip` leave the stem (`vpreproc.py:350-352`). `ProcessBounds`
says besides that `NoFile` is no process, that there is a pipe, and that the
elements of a list are natural numbers, as `rand` gives them. Every
proof has the same shape: an inductive invariant
(`IndInv` in most modules; checked by TLC on the instance of the run before it was proved), a
lemma for `Init`, lemmas for the steps, joined by `Inductive`, and a theorem per
property. For a refinement every action of the detailed module is shown to be
an action of the abstract one, or to leave what that sees unchanged.

### u6: `ShmMailboxProofs`

    IndInv == TypeOK /\ IdInv /\ LockInv /\ MutualExclusion /\ SlotInv /\ ExactlyOnce

- `IdInv`: which generations a process can hold at which point, and that the
  receiver's are the current ones until it removes them; so its segment can be
  attached when it comes to `shmat` (`RecvAttaches`), which may fail for a sender only.
- `LockInv`: for a semaphore that is not broken the value, the processes
  between lock and unlock and the adjustments the kernel keeps fit together.
  Exclusion alone is not inductive: it needs that the value is 0 while somebody
  is inside, and that a kill restores exactly the unit that was taken.
- `SlotInv`: who has written what the segment holds, that a sender in "write"
  has seen it empty and still does, and that the receiver in "take" or "clear"
  finds the message it saw.
- `ExactlyOnce` itself, whose count of written and taken messages `SlotInv`
  carries from the segment to the history.

Each conjunct has its own step lemma (`TypeStep`, `IdStep`, `MutexStep`,
`LockStep`, `SlotStep`, `OnceStep`), with one case per action; `Inductive`
joins them. `LockNotLost` follows from `LockInv` alone, `UnreadIsKept` from
`IndInv` and one step (`KeepStep`).

`CounterIsRegistered` needs a second invariant beside this one:

    CountInv == KindInv /\ TakenInv /\ CounterIsRegistered

- `KindInv`: the first message of a sender is the one that registers it, and after the one
  that signs off it sends no more; so a message that is taken changes the set
  of registered senders by the one the counter changes by.
- `TakenInv`: nothing was taken from a segment that no receiver has served; so
  a receiver that is started again may begin with a counter of zero.

`ImplementsChannel` is proved under `OneReceiver`: the receiver is started
once, not interrupted in `semop` and not killed, which is the course the
assignment describes and the one the run `ShmLive` has; senders may be killed
anywhere. Without it the channel is not implemented: an interrupted
receiver overwrites messages (`ShmOverwrite`). `FirstPair` says that until the receiver leaves its loop
all processes use the first segment and the first semaphore.

### u4: `DgramServerProofs`

    IndInv == TypeOK /\ FileInv /\ QueueInv /\ ClientInv /\ ServerInv /\ CounterIsFiles

A client has one datagram or one answer under way (`QueueInv`, `ClientInv`), and
the line in a datagram is the next one of its file (`UnderWay`). Without that a
step of the store is not the next line of a stream, and an
`exit` could be counted for a file that is not there. `FileInv` says that a
stream is printed only after its file has gone; `ServerInv` that a datagram is
handled only by a server that runs. The count goes by the set of clients whose
file exists (`Kept`), of which a datagram adds or removes one.

### u3: `StreamServerProofs`

    IndInv == /\ TypeOK /\ TalkInv /\ FileInv /\ OldInv /\ ConnInv /\ ParentInv
              /\ OutlivesChildren

`TalkInv` is the protocol of a client and its child: for each place of the child
what may be on the way in both directions, and where its client
then stands (`BeforeTalk`, `InAnswer`, `InData`, `AfterTalk`). It carries the
hard point of `SentIsStored`, that a child takes no line for an answer and no answer for a
line although `read` has no borders: what waits before an answer is read begins with the answer.
`SentIsStored` speaks of children that end in good order on a file of their client's own
that can be written: the file holds the lines of the client from the first on, at least the acknowledged
ones, and all if the client ended in good order.
`FileInv` follows the contents of a file only one client names, `OldInv` those
that were there before, for any number of clients on one name; `ConnInv`
and `ParentInv` say what the parent's loop needs.

### u1: `MsgQueueProofs`

    IndInv == TypeInv /\ FlagInv /\ TakenInv /\ QueueInv /\ RunInv /\ CounterIsActive

What was taken of a sender is the beginning of its stream (`TakenInv`), and what
waits in its queue is the rest (`QueueInv`); the flag of a message says where
in the stream it stands (`FlagOK`), which is why the count goes by the flags
seen.

`TypeOK` says of the files that they hold lines of their sender, and what `exit`
writes into them is computed by a loop over the open streams (`LinesOf`, by
`Chosen`). That the values of `Chosen` are what the loop makes of them needs an
induction over the length of the sequence. It is led without an induction
principle: `LeastNat` gets a least number of a set from the well-foundedness of
the subset order on finite sets, `Upwards` turns that into induction over a set
of numbers, and `AlongExists` and `ChosenAlong` apply it to the steps of the
loop. `FilesInv` carries the result, for any number of streams and of files
written before.

### Aufgabe7: `ThreadServerProofs`

    IndInv == TypeOK /\ FdInv /\ ConnInv /\ MainInv /\ Balance

`Balance` is the law `OutlivesThreads` hangs on: the posts in the semaphore, the
threads created and the join under way (one or none) equal, in sum, the posts
left behind, the threads that have posted and the joins to come. It is an
equation between cardinalities and holds until SIGINT or SIGPIPE ends the
process. `ConnInv` says that the connections in the queue are different
ones without a thread, so that a new thread is one more.

### vpreproc: `PreprocessorProofs`

    IndInv == TypeInv /\ RunInv /\ TidyInv /\ ListInv

- `RunInv`: where a run stands; the handlers leave all of it (`UserFrame`), though they
  replace the list it goes through.
- `TidyInv`: every file but an input or a result is noted, and so is every
  scratch file but `tmpTimeStep.v` and "check", which nobody ever notes, and
  those that are about to be noted (`Noting`): the average while its mask is made, and
  the files of a registration that is under way or has raised. `NothingLeft`
  alone is not inductive: it says nothing before the program is left. It speaks of
  leaving between two runs and after an exception (`closed = "stuck"`), and names what stays.
- `ListInv`: `RowsAgree`, and that no list holds an image twice as long as
  nobody has listed one twice, the saved one included: it may be
  loaded later. Then removing a row takes the dictionary's entry of no other row.

`RowsAgree` counts places of a sequence; `CountAppend` and `CountWithout` say
what appending and removing an entry do to that count (the second by a
bijection between the places), and `FirstPlace` that `list.remove` finds one.

`ResultsAreMade` needs a second invariant beside this one:

    SourceInv /\ ResultInv

- `SourceInv`: until the program is left every image is there, and one that was
  written over was so by an image which has its name as its stem (a conversion into the
  directory of the images does this).
- `ResultInv` speaks of runs under way that the property does not exempt (`Clean`). `FirstLoop`:
  the entries made so far are the last ones of `processList` and go back to the images
  in order (`EntryOf`); `myProcessList` is never emptied, so those of earlier runs
  (`Old` of them) come first, and nothing is known of what they have become.
  `SecondLoop`: the entries of this run that the loop has left have their results
  (`MadeOf`). `HandInv`: the file in hand goes back to the image of its entry, with the
  anatomical image that registration found if there is only one image to find it for.
- The exemptions are judged when the run is over. `touched` only grows and nothing
  is taken from the list in a clean run, so images that are apart at the end
  (`Apart`) were so at every step before, and `UserClean` and `RunClean` carry
  `Clean` from a state back to the one before it. Without that no step could be
  kept from writing over the result of another image.

The steps that write files have a lemma each for the first (`ConvertSource`,
`AsideSource`), the groups of steps one for the second (`UserResult`, `StartResult`, `ConvertResult`,
`CheckResult`, `StepResult`, `MaskResult`, `CopyResult`), joined by
`SourceStep` and `ResultStep`.

### The ten programs: `BsysProofs`, `ProcessesProofs`

`ProcessesProofs` proves that the specification of `MCProcesses` implies
`[]TypeOK`, `[]NoMixUp` and `[]AllIsRead` for every value of its constants
(`ProcessBounds`). Each of the fifteen properties the two conjunctions join has a
theorem of its own. The invariant is one implication per program:

    ProgramInv == /\ program \in {"ueb12", ..., "listen"}
                  /\ program = "ueb12" => PoolTypesInv /\ PipeInv
                  /\ program = "ueb13" => RecvInv
                  ...

For each program there is a lemma for the initial state, one per group of steps, one for
its `Next`, one that the invariant gives the properties (`...Holds`), and
one that it stays when the program rests (`...Stays`); `ProgramNext` joins them.

| Program | Invariant | What it adds to the properties |
|---|---|---|
| ueb12 | `PoolTypesInv`, `PipeInv` | `SlotInv`: a living child is the one whose pid is in the slot of its pipe, and the pipe is marked as worked on. One child per pipe alone is not inductive: a slot could be cleared while its child lives, and the next `fork` would give the pipe a second one. A `waitpid` on an empty slot collects any child and clears that empty slot; one on a used slot collects only the child in it: so a slot is never lost before its child has ended. `UnreapedCounted`: `anz_cld` is the number of children not yet collected, hence the receiver does not end before them. `PipeInv`: two senders never wait on one pipe, and whoever may write has its pipe in `exists` |
| ueb13 | `RecvInv` | `TablesInv`: no pipe is in the tables twice, those in them exist, and `fd` follows `pname` as far as the opens have come; removing a place keeps this (`RemoveLemma`). What is in a pipe the receiver has not open, and who writes to it, is late: after a `read` that returns 0 only senders that open the pipe then can change it |
| ueb11 | `PollInv` | `Turn`: a child that was asked, types or has answered is the one the parent waits for, and it does one of these at a time |
| ueb9 | `SyncInv` | `OrderInv`: child 2 is made after the signal of child 1, and its own signal means that the file is complete |
| ueb8 | `PrimeInv` | `CountedInv`: between any two steps `anz` is the number of primes below `i`, whatever signals arrive; `TestIsRight`: the loop over odd divisors up to the root finds the primes, for every number; `SigsetInv`: which handlers stand after how many calls |
| u2 | `StreamInv` | `SenderInv`: what the pipe holds of a sender, in the order of its program; `CounterInv`: between the senders that may still write and those lost without a trace the count is right from both sides, as long as nobody was turned away (`stray`) |
| u5 | `PassInv` | a server that has accepted has a client of its own, and what is on the way is what this client named; so two servers under one name cannot answer each other's clients |
| sema1, sema2 | `SemInv` | `ReadyInv`: between its creation and its first value a set has the value 0, and only its creator can end this; so nobody of `sema1` gets a lock that the first value would then give to a second one. `HoldInv`: `SEM_UNDO` knows the processes inside, and those outside not. `LockInv`: one process inside, and the value that goes with it, for 1 as the free value and for 0 |
| binRel | `RelInv` | the lists hold the ones of the matrix for every `n` (`FieldsAre`, `FormsOf`); `RoundsInv`: after the round of `i` and `j` the pairs of their common neighbours are in, and everything in `S` is linked by `R` |
| listen | `ListInv` | the heap as the C code leaves it: `Rounds` after `t` rounds of `addtwo`, where the node of place `m` is `NodeAt(m)`, a sum at every third place; `FrontAt`, `InsideAt`: which nodes `clreven` has freed and how those behind it are linked; `FreeAt` the same for `freigabe`, along the places of the odd numbers (`OddPlaces`) |

`FormsAgree`, `ListIsSummed` and `OddsAreLeft` speak of values computed by loops
(`Chosen`, `Contents`, `Summed`); what they are is proved by the
same induction as in `MsgQueueProofs`, and by `WalkIs` for a walk along a linked list.

### Only model-checked

Liveness, everywhere: it needs fairness and `ENABLED`, which the provers do
not have. The four properties of the violated runs are false.

## 5. Disagreements with the assignments

Each has a run whose counterexample shows it.

| Run | Code | Assignment |
|---|---|---|
| `ShmOverwrite` | `u6/empfaenger.c:69`: `semop` interrupted by SIGINT is reported and the loop goes on without the lock | no unprocessed data of senders is overwritten (`Bs2ueb6.txt:25`) |
| `QueueReversed` | `u1/empfaenger.c:54`: one stream per message, never closed; `exit` writes the latest first | the data streams are stored (`Bs2ueb1.txt:12-15`) |
| `StreamLostLine` | `u3/server.c:120`: the answer and the first line come in one `read`, the line is dropped | the server acknowledges the bytes it received (`Bs2ueb3.txt:12-14`) |
| `ThreadsShareSocket` | `Aufgabe7/SERVER.C:311`: the address of a variable that is overwritten is passed to the thread | the descriptor is passed as parameter (`Bs2ueb7.txt:9-10`) |

Other behaviour a reader of the models meets, and the properties are worded
around:

- u6: a sender that is killed stays counted, and the receiver then never ends;
  a sender that registers while the receiver removes its objects goes on in
  the removed segment, or gets errors from a removed semaphore for ever.
- u1: a sender whose input ends at once signs off without having signed on;
  the count falls and the queue may go while another one still writes. After
  the limit on open files messages are taken and lost.
- u4: the server ends whenever the count comes back to 0, with or without
  Ctrl-C; a client that never sends "exit" keeps it alive. A client whose line
  is still in the socket when the server closes it waits in `recvfrom` for
  ever, and so does one whose `sendto` finds no server: neither an answer nor
  the rejection the assignment asks for (`Bs2ueb4.txt:15-18`). `LineIsAnswered`
  speaks of a server that runs.
- u3: two children that both find no file create the same one, the second over
  what the first has written and without the confirmation the assignment asks
  for (`server.c:93-95`, `Bs2ueb3.txt:9-11`); `OldIsKept` protects what was there
  before both. A client that dies takes its child with it by SIGPIPE at the next
  acknowledgement (154), and lines that were acknowledged before are lost in the buffer
  of the stream (`Bs2ueb3.txt:12-14`). After "j" the file may not open, which the client is not
  told. A file that cannot be read is taken for a new one. SIGINT between
  the test of `ende` and `accept` takes effect only with the next client.
- ueb12: a slot lost to the wrong `waitpid` (74) leaves the sender of a new pipe waiting as long as
  the receiver runs, though it should get a child (`Bs1ueb12.txt:19-20`); the receiver ends after its first round if there is no
  `pipe1`; a pipe left by a killed sender keeps it for ever.
- ueb13: what a sender writes that opens a pipe between `read` (62) and `close`
  (67) is lost, and the receiver ends while it is active, against
  `Bs1ueb13.txt:25-26`; a sender that opens a pipe while it is being removed waits for ever.
- ueb11: a child that has died is noticed by `read` only; the write before it
  ends the parent by SIGPIPE and the other child runs on without it.
- ueb9: if child 1 cannot be started or is killed early, the parent sleeps in
  its loop for ever; a file name that begins with a digit is not shown.
- Aufgabe7: unless the uninitialised value is -1 the main thread turns in its
  loop for ever (326); a late thread and the main thread wait for each other
  (330), against `Bs2ueb7.txt:13-17`; after an interrupted `semop` the unlock
  frees the lock of another thread, which may then wait for ever.
- ueb8: a SIGUSR2 after the last test has no effect; signals before the
  handlers stand kill child 1 or are lost; the parent sends SIGQUIT to a
  process number it may have collected.
- u2: a sender that dies is signed off by the hang-up only when no other has the
  pipe open; a sender turned away that has already signed off takes the place of
  an accepted one, and the reader may end early (`stray`), against `Bs2ueb2.txt:18-20`.
- u5: if the client leaves without a request the server opens whatever its
  buffer names; a second server takes the name away from the first, whose
  clients in the queue are then cut off when it ends; a server killed by
  SIGPIPE leaves the name.
- sema1: a process that attaches before the creator has set the value waits
  for ever if the creator is killed in between; a process on a removed set
  goes into its critical section after reporting the error.
- binRel: the test for transitivity (157) fails for every relation on a
  non-empty set; one pass of the closure is not enough for four elements
  (`{<<0, 1>>, <<0, 3>>, <<2, 3>>}` and others), though the comment at 224
  promises an equivalence relation; the rows of pointers are allocated with
  the size of an `int` (180, 235), which is right where an `int` is as long as
  a pointer, as in the 32-bit binary `Abgabe/binRel`.
- listen: `addtwo` drops every third element, forms the sum of the last two
  elements from the first only, and reads behind lists of length 1, 4, 7...;
  `clreven` reads what it has freed, and two even numbers in a row put one of
  them back into the list, which is printed as free of even numbers (224), and free it twice.
- vpreproc: leaving the program removes an input that a conversion wrote over
  itself (625-631); from the second average mask on the average is removed
  before it is used (510); registration takes the anatomical image of the
  first entry of the list for all (323, 430); an exception or a cancelled name of the script
  leaves the start button off; `myProcessList` is never emptied, so that later
  runs process the images of the earlier ones again; `rstrip(".nii")` takes
  letters of the name away, too; typing a directory has no effect;
  `tmpTimeStep.v` and the "check" of a header that lacks a field (572-579) are never noted; an image that is listed twice shows an
  anatomical image it has lost.

## 6. Not modelled

- ueb10 and the factorisations of `Bachelorarbeit`: time and floating point.
- `Uni/HET`: signals with nine values and delta cycles; the designs do not
  interact.
- `Uni/CProg/rnetze`, ueb5 to ueb7 and the other exercises of `Uni/CProg`: no
  state that outlives a call of the library, or one loop over numbers.
- Of `vpreproc.py`: changed prefixes and options of the steps, the contents of
  the script, the viewer, help and about windows, the progress bar, and closing
  the window by other means than the exit button. `vpreproc_gui.py` is generated.
- Of `binRel.c` and `listen.c`: printing; `nachfolgeliste`, `verketteteliste`,
  `einfuegen` and `loeschen`, which are not called.

## 7. What could come next

No safety property of a passing run is without a proof. What is left is to
model more: the paths of `Preprocessor` on which the user changes prefixes or
options of the steps, closing the window by other means than the exit button,
and the uncalled list operations of `binRel.c` and `listen.c`, if a program
calls them one day. Liveness waits for a prover of `ENABLED`.
