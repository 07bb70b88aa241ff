----------------------------- MODULE SemSamples -----------------------------
(***************************************************************************)
(* Uni/bsys2/sema1.c and sema2.c: a lock out of a System V semaphore, once *)
(* with an initial value (1 is free) and once without (0 is free).         *)
(* Several processes run the one or the other; each may remove the set     *)
(* while others use it, and the next one creates a new set.                *)
(***************************************************************************)
EXTENDS Integers, FiniteSets

CONSTANTS Procs,
          MaxSets,      \* bound: sets created
          MaxKills      \* bound: processes killed

NoSet == 0
Sets == 1 .. MaxSets

VARIABLES
    sample,     \* 1: all run sema1, 2: all run sema2
    pc,         \* where each process stands
    semid,      \* the set it uses
    cur,        \* the set the key leads to, or NoSet
    created,    \* sets created so far
    val,        \* val[id]: the value of the semaphore
    holds,      \* processes whose lock was granted: what SEM_UNDO takes back
    ready,      \* history: sets whose first value was set
    kills

vars == <<sample, pc, semid, cur, created, val, holds, ready, kills>>

Init ==
    /\ sample \in {1, 2}
    /\ pc = [p \in Procs |-> "get"] /\ semid = [p \in Procs |-> NoSet]
    /\ cur = NoSet /\ created = 0
    /\ val = [id \in Sets |-> 0]
    /\ holds = {} /\ ready = {} /\ kills = 0

Goto(p, l) == pc' = [pc EXCEPT ![p] = l]
Live(p)    == semid[p] = cur
Add(p, n)  == val' = [val EXCEPT ![semid[p]] = @ + n]

\* What a granted lock adds to the semaphore.
Step == IF sample = 1 THEN -1 ELSE 1

Create(p) ==
    /\ pc[p] = "get" /\ cur = NoSet
    /\ created < MaxSets /\ created' = created + 1
    /\ cur' = created + 1 /\ semid' = [semid EXCEPT ![p] = cur']
    /\ Goto(p, IF sample = 1 THEN "set" ELSE "lock")
    /\ ready' = IF sample = 1 THEN ready ELSE ready \cup {cur'}
    /\ UNCHANGED <<sample, val, holds, kills>>

\* sema1 learns first that the set exists and then asks for it.
Exists(p) ==
    /\ pc[p] = "get" /\ cur # NoSet
    /\ IF sample = 1
       THEN Goto(p, "attach") /\ UNCHANGED semid
       ELSE Goto(p, "lock") /\ semid' = [semid EXCEPT ![p] = cur]
    /\ UNCHANGED <<sample, cur, created, val, holds, ready, kills>>

\* Mutant of Attach: every process sets the first value.
AttachSets(p) ==
    /\ pc[p] = "attach"
    /\ IF cur = NoSet
       THEN Goto(p, "failed") /\ UNCHANGED semid
       ELSE Goto(p, "set") /\ semid' = [semid EXCEPT ![p] = cur]
    /\ UNCHANGED <<sample, cur, created, val, holds, ready, kills>>

Attach(p) ==
    /\ pc[p] = "attach"
    /\ IF cur = NoSet
       THEN Goto(p, "failed") /\ UNCHANGED semid
       ELSE Goto(p, "lock") /\ semid' = [semid EXCEPT ![p] = cur]
    /\ UNCHANGED <<sample, cur, created, val, holds, ready, kills>>

SetVal(p) ==
    /\ pc[p] = "set"
    /\ Goto(p, "lock")
    /\ val' = IF Live(p) THEN [val EXCEPT ![semid[p]] = 1] ELSE val
    /\ ready' = ready \cup {semid[p]}
    /\ UNCHANGED <<sample, semid, cur, created, holds, kills>>

Free(p) == IF sample = 1 THEN val[semid[p]] > 0 ELSE val[semid[p]] = 0

\* On a set that was removed semop fails; the process says so and goes on.
Lock(p) ==
    /\ pc[p] = "lock"
    /\ Goto(p, "critical")
    /\ \/ Live(p) /\ Free(p) /\ Add(p, Step) /\ holds' = holds \cup {p}
       \/ ~ Live(p) /\ UNCHANGED <<val, holds>>
    /\ UNCHANGED <<sample, semid, cur, created, ready, kills>>

\* Mutant of Unlock: the semaphore stays as it is.
UnlockNot(p) ==
    /\ pc[p] = "critical"
    /\ Goto(p, "ask")
    /\ holds' = holds \ {p}
    /\ UNCHANGED <<sample, semid, cur, created, val, ready, kills>>

\* sema2 does not wait for a value it can subtract from.
Unlock(p) ==
    /\ pc[p] = "critical"
    /\ Goto(p, "ask")
    /\ IF Live(p) /\ (sample = 1 \/ val[semid[p]] > 0) THEN Add(p, - Step) ELSE UNCHANGED val
    /\ holds' = holds \ {p}
    /\ UNCHANGED <<sample, semid, cur, created, ready, kills>>

\* The answer to the question whether the set is to be removed.
Leave(p) ==
    /\ pc[p] = "ask"
    /\ Goto(p, "done")
    /\ cur' \in {cur, IF Live(p) THEN NoSet ELSE cur}
    /\ UNCHANGED <<sample, semid, created, val, holds, ready, kills>>

Kill(p) ==
    /\ kills < MaxKills /\ kills' = kills + 1
    /\ pc[p] \in {"set", "lock", "critical", "ask"}
    /\ Goto(p, "dead")
    /\ IF p \in holds /\ Live(p) THEN Add(p, - Step) ELSE UNCHANGED val
    /\ holds' = holds \ {p}
    /\ UNCHANGED <<sample, semid, cur, created, ready>>

Run(p) == Attach(p) \/ SetVal(p) \/ Lock(p) \/ Unlock(p) \/ Leave(p)

Next == \E p \in Procs : Create(p) \/ Exists(p) \/ Run(p) \/ Kill(p)

\* Nobody is obliged to start a process.
Fairness == \A p \in Procs : WF_vars(Run(p))

Spec == Init /\ [][Next]_vars /\ Fairness

-----------------------------------------------------------------------------
TypeOK ==
    /\ cur \in Sets \cup {NoSet} /\ ready \subseteq 1 .. created
    /\ \A id \in Sets : val[id] \in {0, 1}

\* On a set that has not been removed the critical section has one process at
\* a time, and the value says so even after kills.
Exclusion ==
    LET inside == {p \in Procs : pc[p] = "critical" /\ Live(p)}
    IN  /\ Cardinality(inside) <= 1
        /\ cur \in ready => val[cur] = IF sample = 1 THEN 1 - Cardinality(inside) ELSE Cardinality(inside)

\* A process waits for a lock that is free, or on a set that is gone.
Waits == \E p \in Procs : pc[p] = "lock" /\ (~ Live(p) \/ \A q \in Procs \ {p} :
             pc[q] \in {"done", "dead", "failed"} /\ cur \in ready)
=============================================================================
