------------------------------ MODULE PipePoll ------------------------------
(***************************************************************************)
(* Uni/Bsys/ueb11/Uebung11.c: a parent asks two children in turn for a     *)
(* line; each child has one unnamed pipe for the question and one for the  *)
(* answer.  The three share a terminal.                                    *)
(***************************************************************************)
EXTENDS Integers

CONSTANTS MaxLines,     \* bound: lines typed into one child
          MaxKills,     \* bound: processes killed
          MaxSigs       \* bound: SIGUSR1 sent to the parent

Child == {1, 2}

VARIABLES
    cpc,        \* where each child stands
    typed,      \* lines typed into a child
    question,   \* question[k]: the parent's text is in the pipe to child k
    answer,     \* answer[k]: a line is in the pipe from child k
    ppc,        \* where the parent stands
    cur,        \* the child it is concerned with
    ende,       \* ende1 and ende2 of the parent
    kills, sigs

childVars == <<cpc, typed>>
vars == <<childVars, question, answer, ppc, cur, ende, kills, sigs>>

Init ==
    /\ cpc = [k \in Child |-> "none"]
    /\ typed = [k \in Child |-> 0]
    /\ question = [k \in Child |-> FALSE]
    /\ answer = [k \in Child |-> FALSE]
    /\ ppc = "off" /\ cur = 1
    /\ ende = [k \in Child |-> FALSE]
    /\ kills = 0 /\ sigs = 0

Goto(k, l) == cpc' = [cpc EXCEPT ![k] = l]

\* Processes that are gone have closed their ends of the pipes.
ParentGone == ppc \in {"done", "failed", "dead"}
ChildGone(k) == cpc[k] \in {"ended", "dead"}

-----------------------------------------------------------------------------
(* The children                                                            *)

\* Mutant of ChildRead: the child does not wait to be asked.
ReadAtOnce(k) ==
    /\ cpc[k] = "read"
    /\ question' = [question EXCEPT ![k] = FALSE]
    /\ Goto(k, "input")
    /\ UNCHANGED <<typed, answer, ppc, cur, ende, kills, sigs>>

\* read returns the question, or 0 when the parent has gone; the child does
\* not tell them apart.
ChildRead(k) ==
    /\ cpc[k] = "read"
    /\ question[k] \/ ParentGone
    /\ question' = [question EXCEPT ![k] = FALSE]
    /\ Goto(k, "input")
    /\ UNCHANGED <<typed, answer, ppc, cur, ende, kills, sigs>>

\* A line is written to the parent; if that has gone this is SIGPIPE.
ChildLine(k) ==
    /\ cpc[k] = "input"
    /\ typed[k] < MaxLines
    /\ typed' = [typed EXCEPT ![k] = @ + 1]
    /\ IF ParentGone
       THEN Goto(k, "dead") /\ UNCHANGED answer
       ELSE Goto(k, "read") /\ answer' = [answer EXCEPT ![k] = TRUE]
    /\ UNCHANGED <<question, ppc, cur, ende, kills, sigs>>

\* Ctrl-D closes both pipes.
ChildEnd(k) ==
    /\ cpc[k] = "input"
    /\ Goto(k, "ended")
    /\ UNCHANGED <<typed, question, answer, ppc, cur, ende, kills, sigs>>

KillChild(k) ==
    /\ kills < MaxKills
    /\ cpc[k] \in {"read", "input"}
    /\ kills' = kills + 1
    /\ Goto(k, "dead")
    /\ UNCHANGED <<typed, question, answer, ppc, cur, ende, sigs>>

-----------------------------------------------------------------------------
(* The parent                                                              *)

Start ==
    /\ ppc = "off"
    /\ ppc' = "ask"
    /\ cpc' = [k \in Child |-> "read"]
    /\ UNCHANGED <<typed, question, answer, cur, ende, kills, sigs>>

\* Go on after child cur, where e is the new ende; the loop ends after child 2
\* if both are at an end.
Proceed(e) ==
    /\ ende' = e
    /\ cur' = 3 - cur
    /\ ppc' = IF cur = 2 /\ e = [k \in Child |-> TRUE] THEN "wait" ELSE "ask"

\* Mutant of ParentSkip: the loop does not go on to the other child.
SkipStays ==
    /\ ppc = "ask" /\ ende[cur]
    /\ UNCHANGED vars

ParentSkip ==
    /\ ppc = "ask" /\ ende[cur]
    /\ Proceed(ende)
    /\ UNCHANGED <<childVars, question, answer, kills, sigs>>

\* A write to a child that has gone is SIGPIPE; the test of the result is not
\* reached.
ParentAsk ==
    /\ ppc = "ask" /\ ~ ende[cur]
    /\ IF ChildGone(cur)
       THEN ppc' = "dead" /\ UNCHANGED question
       ELSE ppc' = "get" /\ question' = [question EXCEPT ![cur] = TRUE]
    /\ UNCHANGED <<childVars, answer, cur, ende, kills, sigs>>

\* Mutant of ParentGet: the end of the child is seen before its last line.
GetEndFirst ==
    /\ ppc = "get"
    /\ \/ /\ answer[cur] /\ ~ ChildGone(cur)
          /\ answer' = [answer EXCEPT ![cur] = FALSE] /\ Proceed(ende)
       \/ /\ ChildGone(cur)
          /\ Proceed([ende EXCEPT ![cur] = TRUE]) /\ UNCHANGED answer
    /\ UNCHANGED <<childVars, question, kills, sigs>>

\* Read a line, or the end of the pipe.
ParentGet ==
    /\ ppc = "get"
    /\ \/ /\ answer[cur]
          /\ answer' = [answer EXCEPT ![cur] = FALSE] /\ Proceed(ende)
       \/ /\ ~ answer[cur] /\ ChildGone(cur)
          /\ Proceed([ende EXCEPT ![cur] = TRUE]) /\ UNCHANGED answer
    /\ UNCHANGED <<childVars, question, kills, sigs>>

\* SIGUSR1 interrupts the read; the parent ends child 1, then child 2, by
\* SIGUSR2, and waits for each.
SigUsr1 ==
    /\ sigs < MaxSigs
    /\ sigs' = sigs + 1
    /\ ppc = "get" /\ ~ answer[cur] /\ ~ ChildGone(cur)
    /\ ppc' = "abort1"
    /\ UNCHANGED <<childVars, question, answer, cur, ende, kills>>

Abort(k) ==
    /\ ppc = (IF k = 1 THEN "abort1" ELSE "abort2")
    /\ ppc' = IF k = 1 THEN "abort2" ELSE "failed"
    /\ Goto(k, IF ChildGone(k) THEN cpc[k] ELSE "dead")
    /\ UNCHANGED <<typed, question, answer, cur, ende, kills, sigs>>

ParentWait ==
    /\ ppc = "wait"
    /\ \A k \in Child : ChildGone(k)
    /\ ppc' = "done"
    /\ UNCHANGED <<childVars, question, answer, cur, ende, kills, sigs>>

KillParent ==
    /\ kills < MaxKills
    /\ ppc # "off" /\ ~ ParentGone
    /\ kills' = kills + 1
    /\ ppc' = "dead"
    /\ UNCHANGED <<childVars, question, answer, cur, ende, sigs>>

ParentStep ==
    \/ ParentSkip \/ ParentAsk \/ ParentGet \/ ParentWait
    \/ \E k \in Child : Abort(k)

Next ==
    \/ \E k \in Child : ChildRead(k) \/ ChildLine(k) \/ ChildEnd(k) \/ KillChild(k)
    \/ Start \/ ParentStep \/ SigUsr1 \/ KillParent

\* The parent runs once it is started.
Fairness == WF_vars(ParentStep)
-----------------------------------------------------------------------------
(* Properties                                                              *)

\* The type invariant of the model.
TypeOK ==
    /\ cpc \in [Child -> {"none", "read", "input", "ended", "dead"}]
    /\ typed \in [Child -> 0 .. MaxLines]
    /\ question \in [Child -> BOOLEAN] /\ answer \in [Child -> BOOLEAN]
    /\ ppc \in {"off", "ask", "get", "abort1", "abort2", "wait", "done",
                "failed", "dead"}
    /\ cur \in Child
    /\ ende \in [Child -> BOOLEAN]
    /\ kills \in 0 .. MaxKills /\ sigs \in 0 .. MaxSigs

\* While the parent is there at most one child uses the terminal, the one the
\* parent waits for.
TerminalIsOwned ==
    \A k \in Child :
        cpc[k] = "input" /\ ~ ParentGone =>
            cur = k /\ ppc \in {"get", "abort1", "abort2"}

\* When the parent has left its loop no line is left in a pipe.
AllIsRead == ppc \in {"wait", "done"} => \A k \in Child : ~ answer[k]

\* The parent is there, its children are gone.
Waits == ~ ParentGone /\ \A k \in Child : ChildGone(k)

\* When both children are gone the parent ends.
ParentEnds == []<> ~ Waits
=============================================================================
