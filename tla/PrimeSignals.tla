---------------------------- MODULE PrimeSignals ----------------------------
(***************************************************************************)
(* Uni/Bsys/ueb8: child 1 (Prim.c) counts the primes up to n, child 2      *)
(* (Signal.c) sends it the signals a user asks for, and the parent (Ueb8.c)*)
(* polls both and ends child 2 when child 1 is over.  SIGUSR2 starts the   *)
(* count again, SIGQUIT gives it up; what arrives before the handlers      *)
(* stand kills child 1 or is lost.                                         *)
(***************************************************************************)
EXTENDS Integers, Sequences, FiniteSets

CONSTANTS MaxN,         \* bound: n
          MaxSigs,      \* bound: signals asked for
          MaxKills      \* bound: children killed from outside

Signals == {"int", "quit", "usr1", "usr2"}

\* The calls of sigset in Prim.c that change one of the four signals.
Sigsets ==
    << <<"int", "ignore">>, <<"quit", "ignore">>, <<"usr1", "ignore">>, <<"usr2", "ignore">>,
       <<"usr1", "handle">>, <<"usr2", "handle">>, <<"int", "handle">>, <<"quit", "handle">> >>

VARIABLES
    mpc,        \* where the parent stands
    p1, p2,     \* the parent has reaped child 1, child 2
    qpc,        \* where child 1 stands
    gpc,        \* where child 2 stands
    calls,      \* calls of sigset child 1 has made
    disp,       \* what child 1 does about a signal
    n, i, anz, usr2,    \* the variables of Prim.c
    result,     \* the count child 1 has printed, or -1
    sigs, kills

parentVars == <<mpc, p1, p2>>
countVars  == <<n, i, anz>>
vars == <<mpc, p1, p2, qpc, gpc, calls, disp, n, i, anz, usr2, result, sigs, kills>>

Gone == {"over", "failed", "dead"}

Init ==
    /\ mpc = "fork1" /\ p1 = FALSE /\ p2 = FALSE
    /\ qpc = "none" /\ gpc = "none"
    /\ calls = 0 /\ disp = [s \in Signals |-> "default"]
    /\ n \in 0 .. MaxN /\ i = 2 /\ anz = 0 /\ usr2 = FALSE
    /\ result = -1
    /\ sigs = 0 /\ kills = 0

-----------------------------------------------------------------------------
(* Ueb8.c                                                                  *)

Fork1 ==
    /\ mpc = "fork1"
    /\ \/ mpc' = "fork2" /\ qpc' = "exec"
       \/ mpc' = "failed" /\ UNCHANGED qpc
    /\ UNCHANGED <<p1, p2, gpc, calls, disp, countVars, usr2, result, sigs, kills>>

\* If this fork fails, child 1 is left to itself.
Fork2 ==
    /\ mpc = "fork2"
    /\ \/ mpc' = "poll" /\ gpc' = "exec"
       \/ mpc' = "failed" /\ UNCHANGED gpc
    /\ UNCHANGED <<p1, p2, qpc, calls, disp, countVars, usr2, result, sigs, kills>>

ReapPrim ==
    /\ mpc = "poll"
    /\ ~ p1 /\ qpc \in Gone
    /\ p1' = TRUE /\ mpc' = "quit"
    /\ UNCHANGED <<p2, qpc, gpc, calls, disp, countVars, usr2, result, sigs, kills>>

\* Mutant of QuitSignal: child 2 is not told.
QuitNobody ==
    /\ mpc = "quit"
    /\ mpc' = "poll"
    /\ UNCHANGED <<p1, p2, qpc, gpc, calls, disp, countVars, usr2, result, sigs, kills>>

\* SIGQUIT for child 2, which may have been reaped long ago.
QuitSignal ==
    /\ mpc = "quit"
    /\ gpc' = IF gpc \in Gone THEN gpc ELSE "dead"
    /\ mpc' = "poll"
    /\ UNCHANGED <<p1, p2, qpc, calls, disp, countVars, usr2, result, sigs, kills>>

ReapSignal ==
    /\ mpc = "poll"
    /\ ~ p2 /\ gpc \in Gone
    /\ p2' = TRUE
    /\ UNCHANGED <<mpc, p1, qpc, gpc, calls, disp, countVars, usr2, result, sigs, kills>>

ParentEnd ==
    /\ mpc = "poll"
    /\ p1 /\ p2
    /\ mpc' = "done"
    /\ UNCHANGED <<p1, p2, qpc, gpc, calls, disp, countVars, usr2, result, sigs, kills>>

-----------------------------------------------------------------------------
(* Prim.c                                                                  *)

ExecPrim ==
    /\ qpc = "exec"
    /\ qpc' \in {"sigset", "failed"}
    /\ UNCHANGED <<parentVars, gpc, calls, disp, countVars, usr2, result, sigs, kills>>

Sigset ==
    /\ qpc = "sigset"
    /\ calls' = calls + 1
    /\ LET c == Sigsets[calls'] IN disp' = [disp EXCEPT ![c[1]] = c[2]]
    /\ qpc' = IF calls' = Len(Sigsets) THEN "for" ELSE "sigset"
    /\ UNCHANGED <<parentVars, gpc, countVars, usr2, result, sigs, kills>>

\* The test of Prim.c: odd divisors up to the root and one more.
IsPrime(p) ==
    LET s == 1 + CHOOSE r \in 0 .. p : r * r <= p /\ p < (r + 1) * (r + 1)
    IN  /\ p >= 2
        /\ p = 2 \/ (p % 2 # 0 /\ \A d \in 3 .. s : d % 2 = 1 => p % d # 0)

Count ==
    /\ qpc = "for"
    /\ i <= n
    /\ anz' = IF IsPrime(i) THEN anz + 1 ELSE anz
    /\ qpc' = "flag"
    /\ UNCHANGED <<parentVars, gpc, calls, disp, n, i, usr2, result, sigs, kills>>

\* Mutant of Flag: the count is not set back.
FlagKeepsCount ==
    /\ qpc = "flag"
    /\ i' = IF usr2 THEN 2 ELSE i + 1
    /\ usr2' = FALSE
    /\ qpc' = "for"
    /\ UNCHANGED <<parentVars, gpc, calls, disp, n, anz, result, sigs, kills>>

\* Once round the loop: if a signal asked for it, from the beginning.
Flag ==
    /\ qpc = "flag"
    /\ i' = IF usr2 THEN 2 ELSE i + 1
    /\ anz' = IF usr2 THEN 0 ELSE anz
    /\ usr2' = FALSE
    /\ qpc' = "for"
    /\ UNCHANGED <<parentVars, gpc, calls, disp, n, result, sigs, kills>>

\* A SIGUSR2 that came after the last test has no effect any more.
PrintCount ==
    /\ qpc = "for"
    /\ i > n
    /\ result' = anz
    /\ qpc' = "over"
    /\ UNCHANGED <<parentVars, gpc, calls, disp, countVars, usr2, sigs, kills>>

-----------------------------------------------------------------------------
(* Signal.c                                                                *)

ExecSignal ==
    /\ gpc = "exec"
    /\ gpc' \in {"ask", "failed"}
    /\ UNCHANGED <<parentVars, qpc, calls, disp, countVars, usr2, result, sigs, kills>>

\* What a signal does to child 1.  In the steps that fork and exec it has the
\* default disposition, and so it is fatal.
Deliver(s) ==
    \/ /\ qpc \notin Gone /\ disp[s] = "default"
       /\ qpc' = "dead" /\ UNCHANGED usr2
    \/ /\ qpc \notin Gone /\ disp[s] = "handle" /\ s = "quit"
       /\ qpc' = "over" /\ UNCHANGED usr2
    \/ /\ qpc \notin Gone /\ disp[s] = "handle" /\ s = "usr2"
       /\ usr2' = TRUE /\ UNCHANGED qpc
    \/ /\ \/ qpc \in Gone \/ disp[s] = "ignore"
          \/ disp[s] = "handle" /\ s \notin {"quit", "usr2"}
       /\ UNCHANGED <<qpc, usr2>>

\* One round of the loop: child 2 is done when SIGQUIT has been sent, to a
\* process that has not been reaped.
Send(s) ==
    /\ gpc = "ask"
    /\ sigs < MaxSigs /\ sigs' = sigs + 1
    /\ Deliver(s)
    /\ gpc' = IF s = "quit" /\ ~ p1 THEN "over" ELSE "ask"
    /\ UNCHANGED <<parentVars, calls, disp, countVars, result, kills>>

Kill1 ==
    /\ kills < MaxKills /\ kills' = kills + 1
    /\ qpc \notin Gone \cup {"none"} /\ qpc' = "dead"
    /\ UNCHANGED <<parentVars, gpc, calls, disp, countVars, usr2, result, sigs>>

Kill2 ==
    /\ kills < MaxKills /\ kills' = kills + 1
    /\ gpc \notin Gone \cup {"none"} /\ gpc' = "dead"
    /\ UNCHANGED <<parentVars, qpc, calls, disp, countVars, usr2, result, sigs>>

ParentStep == Fork2 \/ ReapPrim \/ QuitSignal \/ ReapSignal \/ ParentEnd
PrimStep   == ExecPrim \/ Sigset \/ Count \/ Flag \/ PrintCount
SignalStep == ExecSignal \/ \E s \in Signals : Send(s)

Next == Fork1 \/ ParentStep \/ PrimStep \/ SignalStep \/ Kill1 \/ Kill2

\* Once started the processes run; nobody is obliged to ask for a signal.
Fairness == WF_vars(ParentStep) /\ WF_vars(PrimStep) /\ WF_vars(ExecSignal)
-----------------------------------------------------------------------------
(* Properties                                                              *)

\* The type invariant of the model.
TypeOK ==
    /\ mpc \in {"fork1", "fork2", "poll", "quit", "done", "failed"}
    /\ qpc \in {"none", "exec", "sigset", "for", "flag"} \cup Gone
    /\ gpc \in {"none", "exec", "ask"} \cup Gone
    /\ {p1, p2, usr2} \subseteq BOOLEAN
    /\ calls \in 0 .. Len(Sigsets)
    /\ disp \in [Signals -> {"default", "ignore", "handle"}]
    /\ n \in 0 .. MaxN /\ i \in 2 .. MaxN + 2 /\ anz \in 0 .. MaxN
    /\ result \in -1 .. MaxN

\* However often the count was started again, what child 1 prints is the
\* number of primes up to n; and once its handlers stand no signal kills it.
AllIsRead ==
    /\ result # -1 =>
         result = Cardinality({p \in 2 .. n : \A d \in 2 .. p - 1 : p % d # 0})
    /\ qpc = "dead" => kills > 0 \/ calls < Len(Sigsets)

\* The parent was started and is there.
Waits == mpc \notin {"fork1", "done", "failed"}

\* However many signals (up to the bound) disturb the count, all three end.
ParentEnds == []<> ~ Waits
=============================================================================
