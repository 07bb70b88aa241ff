----------------------------- MODULE SignalSync -----------------------------
(***************************************************************************)
(* Uni/Bsys/ueb9: child 2 writes a file, child 1 shows it; two SIGUSR1     *)
(* keep them in order: child 1 tells the parent that its handlers stand    *)
(* before child 2 is made, and child 2 tells child 1 that the file is      *)
(* complete (Ueb9.c, Ueb9.1.c, Ueb9.2.c).                                  *)
(***************************************************************************)
EXTENDS Integers

CONSTANTS MaxLines,     \* bound: lines in the file, old and new
          MaxKills      \* bound: children killed

VARIABLES
    ppc,        \* where the parent stands
    pflag,      \* flag of the parent
    pc1, pc2,   \* where the children stand
    flag1,      \* flag of child 1
    content,    \* records in the file
    number,     \* the file name begins with a number that is not by chance
                \* the descriptor of the file
    shown,      \* records child 1 has shown
    kills

vars == <<ppc, pflag, pc1, pc2, flag1, content, number, shown, kills>>

Init ==
    /\ ppc = "off" /\ pflag = TRUE
    /\ pc1 = "none" /\ pc2 = "none" /\ flag1 = TRUE
    /\ content = 0 /\ number = FALSE /\ shown = 0
    /\ kills = 0

Gone == {"done", "failed", "dead"}

\* What SIGUSR1 does to child 1: without its handler it is killed.
Signalled ==
    CASE pc1 = "handlers" -> pc1' = "dead" /\ UNCHANGED flag1
      [] pc1 \in Gone     -> UNCHANGED <<pc1, flag1>>
      [] OTHER            -> flag1' = FALSE /\ UNCHANGED pc1

-----------------------------------------------------------------------------
(* Ueb9.c                                                                  *)

\* The file is there, anew or to be continued, and child 1 is forked.
Start ==
    /\ ppc = "off"
    /\ content' \in 0 .. MaxLines
    /\ number' \in BOOLEAN
    /\ ppc' = "flag"
    /\ pc1' = "exec"
    /\ UNCHANGED <<pflag, pc2, flag1, shown, kills>>

\* Fork child 2 when child 1 has sent its signal.
ParentFork ==
    /\ ppc = "flag"
    /\ ~ pflag
    /\ ppc' = "wait"
    /\ pc2' = "exec"
    /\ UNCHANGED <<pflag, pc1, flag1, content, number, shown, kills>>

ParentWait ==
    /\ ppc = "wait"
    /\ pc1 \in Gone /\ pc2 \in Gone
    /\ ppc' = "done"
    /\ UNCHANGED <<pflag, pc1, pc2, flag1, content, number, shown, kills>>

-----------------------------------------------------------------------------
(* Ueb9.1.c                                                                *)

Exec1 ==
    /\ pc1 = "exec"
    /\ pc1' \in {"handlers", "failed"}
    /\ UNCHANGED <<ppc, pflag, pc2, flag1, content, number, shown, kills>>

Handlers1 ==
    /\ pc1 = "handlers"
    /\ pc1' = "ready"
    /\ UNCHANGED <<ppc, pflag, pc2, flag1, content, number, shown, kills>>

\* Tell the parent and open the file.
Ready1 ==
    /\ pc1 = "ready"
    /\ pflag' = FALSE
    /\ pc1' = "wait"
    /\ UNCHANGED <<ppc, pc2, flag1, content, number, shown, kills>>

\* Mutant of Wait1: the flag is not waited for.
WaitNot1 ==
    /\ pc1 = "wait"
    /\ pc1' = "read"
    /\ UNCHANGED <<ppc, pflag, pc2, flag1, content, number, shown, kills>>

\* Leave the loop that waits for the flag.
Wait1 ==
    /\ pc1 = "wait"
    /\ ~ flag1
    /\ pc1' = "read"
    /\ UNCHANGED <<ppc, pflag, pc2, flag1, content, number, shown, kills>>

\* Read to the end of the file.  sscanf takes a number at the front of the
\* file name for the descriptor, and nothing is read from that.
Read1 ==
    /\ pc1 = "read"
    /\ IF shown < content /\ ~ number
       THEN shown' = shown + 1 /\ UNCHANGED pc1
       ELSE pc1' = "done" /\ UNCHANGED shown
    /\ UNCHANGED <<ppc, pflag, pc2, flag1, content, number, kills>>

-----------------------------------------------------------------------------
(* Ueb9.2.c                                                                *)

\* If the program cannot be started, child 2 ends child 1 by SIGUSR2.
Exec2 ==
    /\ pc2 = "exec"
    /\ \/ pc2' = "input" /\ UNCHANGED pc1
       \/ /\ pc2' = "failed"
          /\ pc1' = IF pc1 \in Gone THEN pc1 ELSE "failed"
    /\ UNCHANGED <<ppc, pflag, flag1, content, number, shown, kills>>

Line2 ==
    /\ pc2 = "input"
    /\ content < MaxLines
    /\ content' = content + 1
    /\ UNCHANGED <<ppc, pflag, pc1, pc2, flag1, number, shown, kills>>

End2 ==
    /\ pc2 = "input"
    /\ pc2' = "signal"
    /\ UNCHANGED <<ppc, pflag, pc1, flag1, content, number, shown, kills>>

\* Mutant of Signal2: the signal is forgotten.
NoSignal2 ==
    /\ pc2 = "signal"
    /\ pc2' = "done"
    /\ UNCHANGED <<ppc, pflag, pc1, flag1, content, number, shown, kills>>

Signal2 ==
    /\ pc2 = "signal"
    /\ Signalled
    /\ pc2' = "done"
    /\ UNCHANGED <<ppc, pflag, content, number, shown, kills>>

Kill1 ==
    /\ kills < MaxKills
    /\ pc1 \notin Gone \cup {"none"}
    /\ pc1' = "dead"
    /\ kills' = kills + 1
    /\ UNCHANGED <<ppc, pflag, pc2, flag1, content, number, shown>>

Kill2 ==
    /\ kills < MaxKills
    /\ pc2 \notin Gone \cup {"none"}
    /\ pc2' = "dead"
    /\ kills' = kills + 1
    /\ UNCHANGED <<ppc, pflag, pc1, flag1, content, number, shown>>

ParentStep == ParentFork \/ ParentWait
Step1      == Exec1 \/ Handlers1 \/ Ready1 \/ Wait1 \/ Read1
Step2      == Exec2 \/ Signal2

Next ==
    \/ Start \/ ParentStep \/ Step1 \/ Step2
    \/ Line2 \/ End2 \/ Kill1 \/ Kill2

\* The processes run; nobody is obliged to type.
Fairness == WF_vars(ParentStep) /\ WF_vars(Step1)
-----------------------------------------------------------------------------
(* Properties                                                              *)

\* The type invariant of the model.
TypeOK ==
    /\ ppc \in {"off", "flag", "wait", "done"}
    /\ pc1 \in {"none", "exec", "handlers", "ready", "wait", "read"} \cup Gone
    /\ pc2 \in {"none", "exec", "input", "signal"} \cup Gone
    /\ {pflag, flag1, number} \subseteq BOOLEAN
    /\ content \in 0 .. MaxLines /\ shown \in 0 .. MaxLines
    /\ kills \in 0 .. MaxKills

\* The signal for child 1 finds its handler, and what child 1 has shown when
\* it is done is the complete file.
AllIsRead ==
    /\ pc1 = "dead" => kills > 0
    /\ pc1 = "done" => number \/ (shown = content /\ pc2 \in Gone)

\* The parent is there though child 2 has done its work.
Waits == pc2 = "done" /\ ppc # "done"

\* When child 2 has done its work and told child 1, the parent ends.
ParentEnds == []<> ~ Waits
=============================================================================
