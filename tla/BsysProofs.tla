----------------------------- MODULE BsysProofs -----------------------------
(***************************************************************************)
(* Proofs about the small programs of Uni/Bsys and Uni/bsys2 (PipePool,    *)
(* NonblockRecv, PipePoll, SignalSync, PrimeSignals, StreamsPipe, FdPass   *)
(* and SemSamples), as MCProcesses instantiates them: an inductive         *)
(* invariant of each, for any number of processes, pipes, lines, signals   *)
(* and kills.                                                              *)
(***************************************************************************)
EXTENDS MCProcesses, SequenceTheorems, FiniteSetTheorems, TLAPS

\* A set of numbers that is not empty has a least one.
LEMMA LeastNat ==
  ASSUME NEW S, S \subseteq Nat, S # {}
  PROVE \E m \in S : \A k \in S : m <= k
<1> DEFINE T == {0 .. m - 1 : m \in S}
<1>1. T \subseteq FiniteSubsetsOf(Nat) /\ T # {}
  <2>1. \A m \in S : IsFiniteSet(0 .. m - 1)  /\ 0 .. m - 1 \in SUBSET Nat
    BY FS_Interval
  <2> QED BY <2>1 DEF FiniteSubsetsOf
<1> HIDE DEF T
<1>2. PICK x \in T : \A y \in T : ~ (<<y, x>> \in StrictSubsetOrdering(Nat))
  BY <1>1, FS_StrictSubsetOrderingWellFounded, WFMin
<1>3. PICK m \in S : x = 0 .. m - 1
  BY <1>2 DEF T
<1>4. ASSUME NEW k \in S PROVE m <= k
  <2>1. SUFFICES ASSUME k < m PROVE FALSE
    BY <1>3
  <2>2. k \in Nat /\ m \in Nat /\ m - 1 \in 0 .. m - 1 /\ ~ (m - 1 \in 0 .. k - 1)
    BY <2>1
  <2>3. 0 .. k - 1 \subseteq x /\ 0 .. k - 1 # x /\ 0 .. k - 1 \in SUBSET Nat /\ x \in SUBSET Nat
    BY <2>1, <2>2, <1>3
  <2>4. <<0 .. k - 1, x>> \in StrictSubsetOrdering(Nat)
    BY <2>3 DEF StrictSubsetOrdering
  <2>5. 0 .. k - 1 \in T
    BY <1>4 DEF T
  <2> QED BY <2>4, <2>5, <1>2
<1> QED BY <1>3, <1>4

-----------------------------------------------------------------------------
(* ueb12: named pipes, one child per pipe                                  *)

\* What the theorems need to know of the constants.
PoolBounds == NPipes \in Nat \ {0} /\ {MaxLines, MaxStarts, MaxKills} \subseteq Nat

ChildPlaces == {"open", "read", "remove", "zombie", "reaped"}
Children == [pipe : Pool!Pipes, at : ChildPlaces]

\* A child that lives is the one in the slot of its pipe, and the pipe is
\* marked as being worked on.
SlotInv ==
    \A k \in DOMAIN child :
        Pool!Living(k) => recv.working[child[k].pipe] /\ recv.pids[child[k].pipe] = k

Unreaped == {k \in DOMAIN child : child[k].at # "reaped"}

\* anz_cld counts the children that waitpid has not collected.
UnreapedCounted ==
    IF recv.pc = "off" THEN Unreaped = {} ELSE recv.anz_cld = Cardinality(Unreaped)

PoolTypesInv == Pool!TypeOK /\ SlotInv /\ UnreapedCounted

-----------------------------------------------------------------------------
(* The children                                                            *)

\* Become changes the place of one child and nothing else.
LEMMA ChildBecomes ==
    ASSUME child \in Seq(Children), NEW k \in DOMAIN child, NEW l \in ChildPlaces,
           Pool!Become(k, l)
    PROVE  /\ child' \in Seq(Children)
           /\ DOMAIN child' = DOMAIN child
           /\ child'[k].at = l
           /\ \A m \in DOMAIN child : child'[m].pipe = child[m].pipe
           /\ \A m \in DOMAIN child \ {k} : child'[m] = child[m]
<1>1. child[k] \in Children /\ k \in 1 .. Len(child)
  OBVIOUS
<1>2. [child[k] EXCEPT !.at = l] \in Children
  BY <1>1 DEF Children
<1>3. child' = [child EXCEPT ![k] = [child[k] EXCEPT !.at = l]]
  BY DEF Pool!Become
<1>4. /\ child' \in Seq(Children)
      /\ Len(child') = Len(child)
      /\ \A m \in 1 .. Len(child) :
           child'[m] = IF m = k THEN [child[k] EXCEPT !.at = l] ELSE child[m]
  BY <1>1, <1>2, <1>3, ExceptSeq
<1>5. DOMAIN child' = 1 .. Len(child) /\ DOMAIN child = 1 .. Len(child)
  BY <1>4
<1>6. [child[k] EXCEPT !.at = l].at = l
      /\ [child[k] EXCEPT !.at = l].pipe = child[k].pipe
  BY <1>1 DEF Children
<1> QED
  BY <1>1, <1>4, <1>5, <1>6

\* The children that have not been collected are finitely many.
LEMMA UnreapedFinite ==
    ASSUME child \in Seq(Children)
    PROVE  IsFiniteSet(Unreaped)
<1>1. DOMAIN child = 1 .. Len(child) /\ Len(child) \in Nat
  OBVIOUS
<1>2. IsFiniteSet(1 .. Len(child))
  BY <1>1, FS_Interval
<1>3. Unreaped \in SUBSET (1 .. Len(child))
  BY <1>1 DEF Unreaped
<1> QED
  BY <1>2, <1>3, FS_Subset

\* The round over the pipes stays among them.
LEMMA PoolRound ==
    ASSUME PoolBounds, NEW p \in Pool!Pipes
    PROVE  (p % NPipes) + 1 \in Pool!Pipes
BY DEF PoolBounds, Pool!Pipes

-----------------------------------------------------------------------------
(* The steps, grouped by what they change                                  *)

\* A step that changes neither a child nor the receiver.
LEMMA PoolSender ==
    ASSUME PoolTypesInv, UNCHANGED <<child, recv>>
    PROVE  SlotInv' /\ UnreapedCounted'
BY DEF PoolTypesInv, SlotInv, UnreapedCounted, Pool!Living, Unreaped

\* A child goes on to another place and is not collected.
LEMMA PoolChild ==
    ASSUME PoolTypesInv, NEW k \in DOMAIN child, NEW l \in ChildPlaces \ {"reaped"},
           Pool!Become(k, l), child[k].at \in {"open", "read", "remove"}, UNCHANGED recv
    PROVE  child' \in Seq(Children) /\ DOMAIN child' = DOMAIN child
           /\ SlotInv' /\ UnreapedCounted'
<1>1. child \in Seq(Children)
  BY DEF PoolTypesInv, Pool!TypeOK, Children, ChildPlaces
<1>2. /\ child' \in Seq(Children)
      /\ DOMAIN child' = DOMAIN child
      /\ child'[k].at = l
      /\ \A m \in DOMAIN child : child'[m].pipe = child[m].pipe
      /\ \A m \in DOMAIN child \ {k} : child'[m] = child[m]
  BY <1>1, ChildBecomes
<1>3. SlotInv'
  BY <1>2 DEF PoolTypesInv, SlotInv, Pool!Living
<1>4. Unreaped' = Unreaped
  BY <1>2 DEF Unreaped
<1>5. UnreapedCounted'
  BY <1>4 DEF PoolTypesInv, UnreapedCounted
<1> QED
  BY <1>2, <1>3, <1>5

-----------------------------------------------------------------------------
(* The receiver                                                            *)

\* The receiver's variables, in the type the invariant gives them.
PoolRecvType(n0) ==
    [pc : {"off", "scan", "reap"}, i : Pool!Pipes, j : Pool!Pipes, anz_cld : Nat,
     working : [Pool!Pipes -> BOOLEAN], pids : [Pool!Pipes -> (1 .. n0) \cup {Pool!NoPid}]]

\* The receiver starts: no child of an earlier one is left.
LEMMA PoolStart ==
    ASSUME PoolBounds, PoolTypesInv, Pool!RecvStart
    PROVE  recv' \in PoolRecvType(Len(child)) /\ SlotInv' /\ UnreapedCounted'
<1>1. recv' = Pool!Fresh("scan") /\ child' = child /\ Unreaped = {}
  BY DEF Pool!RecvStart, PoolTypesInv, UnreapedCounted
<1>2. recv' \in PoolRecvType(Len(child))
  BY <1>1 DEF Pool!Fresh, PoolRecvType, PoolBounds, Pool!Pipes
<1>3. SlotInv'
  BY <1>1 DEF SlotInv, Pool!Living, Unreaped
<1>4. UnreapedCounted'
  BY <1>1, FS_EmptySet DEF UnreapedCounted, Unreaped, Pool!Fresh
<1> QED
  BY <1>2, <1>3, <1>4

\* A fork enters the new child in a slot that no living child has.
LEMMA PoolScan ==
    ASSUME PoolBounds, PoolTypesInv, Pool!RecvScan
    PROVE  /\ child' \in Seq(Children) /\ recv' \in PoolRecvType(Len(child'))
           /\ SlotInv' /\ UnreapedCounted'
<1> DEFINE new == Len(child) + 1
<1>1. /\ child \in Seq(Children) /\ recv \in PoolRecvType(Len(child))
      /\ recv.i \in Pool!Pipes /\ recv.pc = "scan"
      /\ recv.anz_cld = Cardinality(Unreaped)
  BY DEF PoolTypesInv, Pool!TypeOK, Children, ChildPlaces, PoolRecvType, Pool!RecvScan, UnreapedCounted
<1>2. (recv.i % NPipes) + 1 \in Pool!Pipes /\ 1 \in Pool!Pipes
  BY <1>1, PoolRound DEF PoolBounds, Pool!Pipes
<1>3. Pool!GoRound \in PoolRecvType(Len(child)) /\ Pool!GoRound.pc = "reap"
      /\ Pool!GoRound.working = recv.working /\ Pool!GoRound.pids = recv.pids
      /\ Pool!GoRound.anz_cld = recv.anz_cld
  BY <1>1, <1>2 DEF Pool!GoRound, PoolRecvType
<1>4. CASE ~ (recv.i \in exists /\ ~ recv.working[recv.i])
  <2>1. recv' = Pool!GoRound /\ child' = child
    BY <1>4 DEF Pool!RecvScan
  <2>2. /\ recv'.working = recv.working /\ recv'.pids = recv.pids
        /\ recv'.anz_cld = recv.anz_cld /\ recv'.pc = "reap"
    BY <1>3, <2>1
  <2>3. SlotInv'
    BY <2>1, <2>2 DEF PoolTypesInv, SlotInv, Pool!Living
  <2>4. UnreapedCounted'
    BY <1>1, <2>1, <2>2 DEF UnreapedCounted, Unreaped
  <2> QED
    BY <1>1, <1>3, <2>1, <2>3, <2>4
<1>5. CASE recv.i \in exists /\ ~ recv.working[recv.i]
  <2>1. recv' = Pool!Forked(Pool!GoRound)
        /\ child' = Append(child, [pipe |-> recv.i, at |-> "open"])
    BY <1>5 DEF Pool!RecvScan
  <2>2. /\ child' \in Seq(Children) /\ Len(child') = new
        /\ DOMAIN child' = DOMAIN child \cup {new} /\ new \notin DOMAIN child
        /\ child'[new] = [pipe |-> recv.i, at |-> "open"]
        /\ \A k \in DOMAIN child : child'[k] = child[k]
    BY <1>1, <2>1 DEF Children, ChildPlaces
  <2>3. /\ recv'.pc = "reap" /\ recv'.anz_cld = recv.anz_cld + 1
        /\ recv'.pids = [recv.pids EXCEPT ![recv.i] = new]
        /\ recv'.working = [recv.working EXCEPT ![recv.i] = TRUE]
        /\ recv'.i = Pool!GoRound.i /\ recv'.j = Pool!GoRound.j
    BY <1>1, <1>3, <2>1 DEF Pool!Forked, PoolRecvType
  <2>4. recv' \in PoolRecvType(Len(child'))
    <3>1. recv'.pids \in [Pool!Pipes -> (1 .. new) \cup {Pool!NoPid}]
      BY <1>1, <2>3 DEF PoolRecvType, Pool!NoPid
    <3>2. recv'.working \in [Pool!Pipes -> BOOLEAN] /\ recv'.anz_cld \in Nat
      BY <1>1, <2>3 DEF PoolRecvType
    <3>3. recv' = [pc |-> recv'.pc, i |-> recv'.i, j |-> recv'.j,
                   anz_cld |-> recv'.anz_cld, working |-> recv'.working,
                   pids |-> recv'.pids]
      BY <1>3, <2>1 DEF Pool!Forked, PoolRecvType
    <3> QED
      BY <1>3, <2>2, <2>3, <3>1, <3>2, <3>3 DEF PoolRecvType
  <2>5. ASSUME NEW k \in DOMAIN child, Pool!Living(k)
        PROVE  child[k].pipe # recv.i /\ child[k].pipe \in Pool!Pipes
    <3>1. recv.working[child[k].pipe]
      BY <2>5 DEF PoolTypesInv, SlotInv
    <3>2. child[k] \in Children
      BY <1>1
    <3> QED
      BY <1>5, <3>1, <3>2 DEF Children
  <2>6. SlotInv'
    BY <1>1, <2>2, <2>3, <2>5 DEF PoolTypesInv, SlotInv, Pool!Living, PoolRecvType
  <2>7. Unreaped' = Unreaped \cup {new} /\ new \notin Unreaped
    BY <2>2 DEF Unreaped
  <2>8. Cardinality(Unreaped') = Cardinality(Unreaped) + 1
    BY <1>1, <2>7, UnreapedFinite, FS_AddElement
  <2>9. UnreapedCounted'
    BY <1>1, <2>3, <2>8 DEF UnreapedCounted
  <2> QED
    BY <2>2, <2>4, <2>6, <2>9
<1> QED
  BY <1>4, <1>5

\* To go to the next slot changes nothing the children are entered in, and
\* the loop ends only when the count is 0.
LEMMA NextSlotIs ==
    ASSUME PoolBounds, NEW n0 \in Nat, NEW r \in PoolRecvType(n0), r.pc = "reap"
    PROVE  /\ Pool!NextSlot(r) \in PoolRecvType(n0)
           /\ Pool!NextSlot(r).working = r.working
           /\ Pool!NextSlot(r).pids = r.pids
           /\ Pool!NextSlot(r).anz_cld = r.anz_cld
           /\ Pool!NextSlot(r).pc = "off" => r.anz_cld = 0
<1>1. CASE r.j < NPipes
  <2>1. Pool!NextSlot(r) = [r EXCEPT !.j = r.j + 1]
    BY <1>1 DEF Pool!NextSlot
  <2>2. r.j + 1 \in Pool!Pipes
    BY <1>1 DEF PoolRecvType, Pool!Pipes, PoolBounds
  <2> QED
    BY <2>1, <2>2 DEF PoolRecvType
<1>2. CASE ~ (r.j < NPipes)
  <2>1. Pool!NextSlot(r) =
          [r EXCEPT !.pc = IF r.anz_cld > 0 THEN "scan" ELSE "off"]
    BY <1>2 DEF Pool!NextSlot
  <2>2. CASE r.anz_cld > 0
    BY <2>1, <2>2 DEF PoolRecvType
  <2>3. CASE ~ (r.anz_cld > 0)
    BY <2>1, <2>3 DEF PoolRecvType
  <2> QED
    BY <2>2, <2>3
<1> QED
  BY <1>1, <1>2

\* waitpid collects one child or none.  The slot it clears is empty or that
\* of the child, so that no living child loses its slot.
LEMMA PoolReap ==
    ASSUME PoolBounds, PoolTypesInv, Pool!RecvReap
    PROVE  /\ child' \in Seq(Children) /\ DOMAIN child' = DOMAIN child
           /\ recv' \in PoolRecvType(Len(child)) /\ SlotInv' /\ UnreapedCounted'
<1> DEFINE j == recv.j
<1>1. /\ child \in Seq(Children) /\ Len(child) \in Nat
      /\ recv \in PoolRecvType(Len(child))
      /\ j \in Pool!Pipes /\ recv.pc = "reap"
      /\ recv.anz_cld = Cardinality(Unreaped)
      /\ recv.anz_cld \in Nat
  BY DEF PoolTypesInv, Pool!TypeOK, Children, ChildPlaces, PoolRecvType, Pool!RecvReap, UnreapedCounted
<1>2. IsFiniteSet(Unreaped)
  BY <1>1, UnreapedFinite
<1>3. CASE recv' = Pool!NextSlot(recv) /\ child' = child
  <2>1. /\ recv' \in PoolRecvType(Len(child))
        /\ recv'.working = recv.working /\ recv'.pids = recv.pids
        /\ recv'.anz_cld = recv.anz_cld
        /\ recv'.pc = "off" => recv.anz_cld = 0
    BY <1>1, <1>3, NextSlotIs
  <2>2. SlotInv'
    BY <1>3, <2>1 DEF PoolTypesInv, SlotInv, Pool!Living
  <2>3. Unreaped' = Unreaped
    BY <1>3 DEF Unreaped
  <2>4. UnreapedCounted'
    BY <1>1, <1>2, <2>1, <2>3, FS_EmptySet DEF UnreapedCounted
  <2> QED
    BY <1>1, <1>3, <2>1, <2>2, <2>4
<1>4. CASE \E k \in Pool!Reapable(recv.pids[j]) :
             Pool!Become(k, "reaped") /\ recv' = Pool!NextSlot(Pool!Cleared(recv))
  <2>1. PICK k \in Pool!Reapable(recv.pids[j]) :
             Pool!Become(k, "reaped") /\ recv' = Pool!NextSlot(Pool!Cleared(recv))
    BY <1>4
  <2>2. k \in DOMAIN child /\ child[k].at = "zombie"
        /\ (recv.pids[j] = Pool!NoPid \/ recv.pids[j] = k)
    BY <2>1 DEF Pool!Reapable
  <2>3. /\ child' \in Seq(Children)
        /\ DOMAIN child' = DOMAIN child
        /\ child'[k].at = "reaped"
        /\ \A m \in DOMAIN child : child'[m].pipe = child[m].pipe
        /\ \A m \in DOMAIN child \ {k} : child'[m] = child[m]
    BY <1>1, <2>1, <2>2, ChildBecomes DEF ChildPlaces
  <2>4. Unreaped' = Unreaped \ {k} /\ k \in Unreaped
    BY <2>2, <2>3 DEF Unreaped
  <2>5. Cardinality(Unreaped') = Cardinality(Unreaped) - 1
        /\ IsFiniteSet(Unreaped') /\ Cardinality(Unreaped') \in Nat
    BY <1>2, <2>4, FS_RemoveElement, FS_CardinalityType
  <2>6. /\ Pool!Cleared(recv) \in PoolRecvType(Len(child)) /\ Pool!Cleared(recv).pc = "reap"
        /\ Pool!Cleared(recv).anz_cld = recv.anz_cld - 1
        /\ Pool!Cleared(recv).pids = [recv.pids EXCEPT ![j] = Pool!NoPid]
        /\ Pool!Cleared(recv).working = [recv.working EXCEPT ![j] = FALSE]
    <3>1. recv.anz_cld - 1 \in Nat
      BY <1>1, <2>5
    <3> QED
      BY <1>1, <3>1 DEF Pool!Cleared, PoolRecvType
  <2>7. /\ recv' \in PoolRecvType(Len(child))
        /\ recv'.working = [recv.working EXCEPT ![j] = FALSE]
        /\ recv'.pids = [recv.pids EXCEPT ![j] = Pool!NoPid]
        /\ recv'.anz_cld = recv.anz_cld - 1
        /\ recv'.pc = "off" => recv'.anz_cld = 0
    BY <1>1, <2>1, <2>6, NextSlotIs
  <2>8. ASSUME NEW m \in DOMAIN child, Pool!Living(m)'
        PROVE  /\ recv'.working[child'[m].pipe]
               /\ recv'.pids[child'[m].pipe] = m
    <3>1. m # k /\ child'[m] = child[m] /\ Pool!Living(m)
      BY <2>3, <2>8 DEF Pool!Living
    <3>2. /\ child[m].pipe \in Pool!Pipes /\ m # Pool!NoPid
          /\ recv.working[child[m].pipe] /\ recv.pids[child[m].pipe] = m
      <4>1. child[m] \in Children /\ m \in 1 .. Len(child)
        BY <1>1, <2>3, <2>8
      <4>2. recv.working[child[m].pipe] /\ recv.pids[child[m].pipe] = m
        BY <2>3, <2>8, <3>1 DEF PoolTypesInv, SlotInv
      <4> QED
        BY <1>1, <4>1, <4>2 DEF Children, Pool!NoPid
    <3>3. child[m].pipe # j
      BY <2>2, <3>1, <3>2
    <3> QED
      BY <1>1, <2>7, <3>1, <3>2, <3>3 DEF PoolRecvType
  <2>9. SlotInv'
    BY <2>3, <2>8 DEF SlotInv
  <2>10. UnreapedCounted'
    BY <1>1, <2>5, <2>7, FS_EmptySet DEF UnreapedCounted
  <2> QED
    BY <2>3, <2>7, <2>9, <2>10
<1> QED
  BY <1>3, <1>4 DEF Pool!RecvReap
-----------------------------------------------------------------------------
(* Types                                                                   *)

\* The part of the type invariant that is about the senders and the pipes.
PoolRestType ==
    /\ spc \in [Senders -> {"test", "mkfifo", "open", "input", "gone"}]
    /\ num \in [Senders -> Pool!Pipes]
    /\ sent \in 0 .. MaxLines
    /\ exists \subseteq Pool!Pipes
    /\ pending \in [Pool!Pipes -> Nat]
    /\ starts \in 0 .. MaxStarts /\ poolKills \in 0 .. MaxKills

\* The type invariant in its three parts.
LEMMA PoolTypeParts ==
    Pool!TypeOK <=> PoolRestType /\ child \in Seq(Children) /\ recv \in PoolRecvType(Len(child))
<1>1. child \in Seq(Children) => DOMAIN child = 1 .. Len(child)
  OBVIOUS
<1> QED
  BY <1>1 DEF Pool!TypeOK, PoolRestType, PoolRecvType, Children, ChildPlaces

\* The same of the next state.
LEMMA PoolTypePartsPrime ==
    ASSUME PoolRestType', child' \in Seq(Children), recv' \in PoolRecvType(Len(child'))
    PROVE  Pool!TypeOK'
<1>1. DOMAIN child' = 1 .. Len(child')
  OBVIOUS
<1> QED
  BY <1>1 DEF Pool!TypeOK, PoolRestType, PoolRecvType, Children, ChildPlaces

\* What the senders and the children do leaves numbers, pipes and places in
\* their types.
LEMMA PoolRest ==
    ASSUME PoolBounds, PoolTypesInv, Pool!Next
    PROVE  PoolRestType'
<1>1. PoolRestType
  BY PoolTypeParts DEF PoolTypesInv
<1>2. child \in Seq(Children) /\ \A k \in DOMAIN child : child[k].pipe \in Pool!Pipes
  <2>1. child \in Seq(Children)
    BY PoolTypeParts DEF PoolTypesInv
  <2>2. \A k \in DOMAIN child : child[k] \in Children
    BY <2>1
  <2> QED
    BY <2>1, <2>2 DEF Children
<1>3. ASSUME NEW s \in Senders, Pool!SenderTest(s)
      PROVE  PoolRestType'
  <2>1. num[s] < NPipes => num[s] + 1 \in Pool!Pipes
    BY <1>1 DEF PoolRestType, Pool!Pipes, PoolBounds
  <2> QED
    BY <1>1, <1>3, <2>1 DEF Pool!SenderTest, Pool!Goto, PoolRestType
<1>4. ASSUME NEW s \in Senders, Pool!SenderMkfifo(s)
      PROVE  PoolRestType'
  BY <1>1, <1>4 DEF Pool!SenderMkfifo, Pool!Goto, PoolRestType
<1>5. ASSUME NEW s \in Senders, Pool!SenderLine(s)
      PROVE  PoolRestType'
  <2>1. sent' \in 0 .. MaxLines
    BY <1>1, <1>5 DEF Pool!SenderLine, PoolRestType, PoolBounds
  <2>2. pending' \in [Pool!Pipes -> Nat]
    BY <1>1, <1>5 DEF Pool!SenderLine, PoolRestType
  <2> QED
    BY <1>1, <1>5, <2>1, <2>2 DEF Pool!SenderLine, PoolRestType
<1>6. ASSUME NEW s \in Senders, Pool!SenderEnd(s)
      PROVE  PoolRestType'
  BY <1>1, <1>6 DEF Pool!SenderEnd, Pool!Goto, PoolRestType
<1>7. ASSUME NEW s \in Senders, Pool!KillSender(s)
      PROVE  PoolRestType'
  <2>1. poolKills' \in 0 .. MaxKills
    BY <1>1, <1>7 DEF Pool!KillSender, PoolRestType, PoolBounds
  <2> QED
    BY <1>1, <1>7, <2>1 DEF Pool!KillSender, Pool!Goto, PoolRestType
<1>8. ASSUME NEW k \in DOMAIN child, Pool!ChildStep(k)
      PROVE  PoolRestType'
  <2>1. CASE Pool!ChildRead(k)
    <3>1. pending' \in [Pool!Pipes -> Nat]
      BY <1>1, <1>2, <2>1 DEF Pool!ChildRead, PoolRestType
    <3> QED
      BY <1>1, <2>1, <3>1 DEF Pool!ChildRead, PoolRestType, Pool!senderVars
  <2>2. CASE Pool!ChildEof(k)
    BY <1>1, <2>2 DEF Pool!ChildEof, PoolRestType, Pool!senderVars
  <2>3. CASE Pool!ChildRemove(k)
    BY <1>1, <2>3 DEF Pool!ChildRemove, PoolRestType, Pool!senderVars
  <2> QED
    BY <1>8, <2>1, <2>2, <2>3 DEF Pool!ChildStep
<1>9. ASSUME NEW k \in DOMAIN child, NEW s \in Senders, Pool!Open(s, k)
      PROVE  PoolRestType'
  BY <1>1, <1>9 DEF Pool!Open, Pool!Goto, PoolRestType
<1>10. CASE Pool!RecvStart
  <2>1. starts' \in 0 .. MaxStarts
    BY <1>1, <1>10 DEF Pool!RecvStart, PoolRestType, PoolBounds
  <2> QED
    BY <1>1, <1>10, <2>1 DEF Pool!RecvStart, PoolRestType, Pool!senderVars
<1>11. CASE Pool!RecvStep
  BY <1>1, <1>11 DEF Pool!RecvStep, Pool!RecvScan, Pool!RecvReap, PoolRestType, Pool!senderVars
<1> QED
  BY <1>3, <1>4, <1>5, <1>6, <1>7, <1>8, <1>9, <1>10, <1>11 DEF Pool!Next

-----------------------------------------------------------------------------
(* The induction                                                           *)

\* At first there is no child.
LEMMA PoolInit ==
    ASSUME PoolBounds, Pool!Init
    PROVE  PoolTypesInv
<1>1. child = <<>> /\ recv = Pool!Fresh("off")
  BY DEF Pool!Init
<1>2. child \in Seq(Children) /\ DOMAIN child = {}
  BY <1>1
<1>3. recv \in PoolRecvType(Len(child))
  BY <1>1 DEF Pool!Fresh, PoolRecvType, PoolBounds, Pool!Pipes
<1>4. PoolRestType
  BY DEF Pool!Init, PoolRestType, PoolBounds, Pool!Pipes
<1>5. Pool!TypeOK
  BY <1>2, <1>3, <1>4, PoolTypeParts
<1>6. SlotInv /\ UnreapedCounted
  BY <1>1, <1>2 DEF SlotInv, UnreapedCounted, Unreaped, Pool!Fresh
<1> QED
  BY <1>5, <1>6 DEF PoolTypesInv

\* Every step keeps the inductive invariant.
LEMMA PoolInductive ==
    ASSUME PoolBounds, PoolTypesInv, (Pool!Next \/ UNCHANGED Pool!vars)
    PROVE  PoolTypesInv'
<1>1. child \in Seq(Children) /\ recv \in PoolRecvType(Len(child))
  BY PoolTypeParts DEF PoolTypesInv
<1>2. ASSUME UNCHANGED <<child, recv>>
      PROVE  /\ child' \in Seq(Children) /\ recv' \in PoolRecvType(Len(child'))
             /\ SlotInv' /\ UnreapedCounted'
  BY <1>1, <1>2, PoolSender
<1>3. ASSUME NEW k \in DOMAIN child, NEW l \in ChildPlaces \ {"reaped"}, Pool!Become(k, l),
             child[k].at \in {"open", "read", "remove"}, UNCHANGED recv
      PROVE  /\ child' \in Seq(Children) /\ recv' \in PoolRecvType(Len(child'))
             /\ SlotInv' /\ UnreapedCounted'
  <2>1. child' \in Seq(Children) /\ DOMAIN child' = DOMAIN child
        /\ SlotInv' /\ UnreapedCounted'
    BY <1>3, PoolChild
  <2>2. Len(child') = Len(child)
    BY <1>1, <2>1
  <2> QED
    BY <1>1, <1>3, <2>1, <2>2
<1>4. CASE Pool!Next
  <2>1. ASSUME NEW s \in Senders,
               Pool!SenderTest(s) \/ Pool!SenderMkfifo(s) \/ Pool!SenderLine(s) \/ Pool!SenderEnd(s)
                 \/ Pool!KillSender(s)
        PROVE  UNCHANGED <<child, recv>>
    BY <2>1 DEF Pool!SenderTest, Pool!SenderMkfifo, Pool!SenderLine, Pool!SenderEnd, Pool!KillSender
  <2>2. ASSUME NEW k \in DOMAIN child, Pool!ChildRead(k)
        PROVE  UNCHANGED <<child, recv>>
    BY <2>2 DEF Pool!ChildRead
  <2>3. ASSUME NEW k \in DOMAIN child, Pool!ChildEof(k)
        PROVE  Pool!Become(k, "remove") /\ child[k].at = "read" /\ UNCHANGED recv
    BY <2>3 DEF Pool!ChildEof
  <2>4. ASSUME NEW k \in DOMAIN child, Pool!ChildRemove(k)
        PROVE  Pool!Become(k, "zombie") /\ child[k].at = "remove" /\ UNCHANGED recv
    BY <2>4 DEF Pool!ChildRemove
  <2>5. ASSUME NEW k \in DOMAIN child, NEW s \in Senders, Pool!Open(s, k)
        PROVE  Pool!Become(k, "read") /\ child[k].at = "open" /\ UNCHANGED recv
    BY <2>5 DEF Pool!Open
  <2>6. {"read", "remove", "zombie"} \subseteq ChildPlaces \ {"reaped"}
    BY DEF ChildPlaces
  <2>7. ASSUME NEW k \in DOMAIN child,
               Pool!ChildStep(k) \/ \E s \in Senders : Pool!Open(s, k)
        PROVE  /\ child' \in Seq(Children) /\ recv' \in PoolRecvType(Len(child'))
               /\ SlotInv' /\ UnreapedCounted'
    <3>1. CASE Pool!ChildRead(k)
      BY <1>2, <2>2, <3>1
    <3>2. CASE Pool!ChildEof(k)
      BY <1>3, <2>3, <2>6, <3>2
    <3>3. CASE Pool!ChildRemove(k)
      BY <1>3, <2>4, <2>6, <3>3
    <3>4. CASE \E s \in Senders : Pool!Open(s, k)
      BY <1>3, <2>5, <2>6, <3>4
    <3> QED
      BY <2>7, <3>1, <3>2, <3>3, <3>4 DEF Pool!ChildStep
  <2>8. CASE Pool!RecvStart
    <3>1. recv' \in PoolRecvType(Len(child)) /\ SlotInv' /\ UnreapedCounted'
      BY <2>8, PoolStart
    <3>2. child' = child
      BY <2>8 DEF Pool!RecvStart
    <3>3. child' \in Seq(Children) /\ recv' \in PoolRecvType(Len(child'))
          /\ SlotInv' /\ UnreapedCounted'
      BY <1>1, <3>1, <3>2
    <3> QED
      BY <1>4, <3>3, PoolRest, PoolTypePartsPrime DEF PoolTypesInv
  <2>9. CASE Pool!RecvScan
    BY <1>4, <2>9, PoolScan, PoolRest, PoolTypePartsPrime DEF PoolTypesInv
  <2>10. CASE Pool!RecvReap
    <3>1. child' \in Seq(Children) /\ DOMAIN child' = DOMAIN child
          /\ recv' \in PoolRecvType(Len(child)) /\ SlotInv' /\ UnreapedCounted'
      BY <2>10, PoolReap
    <3>2. Len(child') = Len(child)
      BY <1>1, <3>1
    <3>3. recv' \in PoolRecvType(Len(child'))
      BY <3>1, <3>2
    <3> QED
      BY <1>4, <3>1, <3>3, PoolRest, PoolTypePartsPrime DEF PoolTypesInv
  <2>11. CASE \E s \in Senders :
                 Pool!SenderTest(s) \/ Pool!SenderMkfifo(s) \/ Pool!SenderLine(s) \/ Pool!SenderEnd(s)
                   \/ Pool!KillSender(s)
    BY <1>2, <1>4, <2>1, <2>11, PoolRest, PoolTypePartsPrime DEF PoolTypesInv
  <2>12. CASE \E k \in DOMAIN child : Pool!ChildStep(k) \/ \E s \in Senders : Pool!Open(s, k)
    BY <1>4, <2>7, <2>12, PoolRest, PoolTypePartsPrime DEF PoolTypesInv
  <2> QED
    BY <1>4, <2>8, <2>9, <2>10, <2>11, <2>12 DEF Pool!Next, Pool!RecvStep
<1>5. CASE UNCHANGED Pool!vars
  <2>1. UNCHANGED <<child, recv>> /\ PoolRestType'
    BY <1>5, PoolTypeParts DEF Pool!vars, Pool!senderVars, PoolRestType, PoolTypesInv
  <2> QED
    BY <1>2, <2>1, PoolTypePartsPrime DEF PoolTypesInv
<1> QED
  BY <1>4, <1>5

\* A sender that waits or types has a pipe of its own that exists; a child
\* that reads is not the one such a sender waits for, and one that is to
\* remove its pipe has read everything and has no writer any more.
PipeInv ==
    /\ \A s \in Senders : spc[s] \in {"open", "input"} => num[s] \in exists
    /\ \A s, q \in Senders : s # q /\ spc[s] = "open" /\ spc[q] \in {"open", "input"} => num[s] # num[q]
    /\ \A k \in DOMAIN child : child[k].at \in {"read", "remove"} =>
         /\ child[k].pipe \in exists
         /\ \A s \in Senders : spc[s] = "open" => num[s] # child[k].pipe
    /\ \A k \in DOMAIN child : child[k].at = "remove" =>
         /\ pending[child[k].pipe] = 0
         /\ \A s \in Senders : spc[s] = "input" => num[s] # child[k].pipe
    /\ Pool!AllIsRead

\* Every step keeps PipeInv: whoever may be in a pipe is counted there.
LEMMA PipeStep ==
    ASSUME PoolBounds, PoolTypesInv, PipeInv, Pool!Next
    PROVE  PipeInv'
<1>1. /\ spc \in [Senders -> {"test", "mkfifo", "open", "input", "gone"}]
      /\ num \in [Senders -> Pool!Pipes] /\ exists \subseteq Pool!Pipes /\ pending \in [Pool!Pipes -> Nat]
      /\ child \in Seq(Children) /\ \A k \in DOMAIN child : child[k] \in Children /\ child[k].pipe \in Pool!Pipes
  <2>1. PoolRestType /\ child \in Seq(Children)
    BY PoolTypeParts DEF PoolTypesInv
  <2>2. \A k \in DOMAIN child : child[k] \in Children
    BY <2>1
  <2> QED
    BY <2>1, <2>2 DEF PoolRestType, Children
<1>2. ASSUME NEW s \in Senders, Pool!SenderTest(s) \/ Pool!SenderEnd(s) \/ Pool!KillSender(s)
      PROVE  PipeInv'
  <2>1. /\ UNCHANGED <<exists, pending, child>>
        /\ \A q \in Senders : spc'[q] \in {"open", "input"} => spc'[q] = spc[q] /\ num'[q] = num[q]
    BY <1>1, <1>2 DEF Pool!SenderTest, Pool!SenderEnd, Pool!KillSender, Pool!Goto
  <2> QED
    BY <2>1 DEF PipeInv, Pool!AllIsRead
<1>3. ASSUME NEW s \in Senders, Pool!SenderMkfifo(s)
      PROVE  PipeInv'
  <2>1. /\ UNCHANGED <<num, pending, child>> /\ exists' = exists \cup {num[s]} /\ num[s] \in Pool!Pipes
        /\ spc' = [spc EXCEPT ![s] = IF num[s] \in exists THEN "gone" ELSE "open"]
    BY <1>1, <1>3 DEF Pool!SenderMkfifo, Pool!Goto
  <2>2. \A q \in Senders : spc'[q] \in {"open", "input"} =>
          \/ q # s /\ spc'[q] = spc[q]
          \/ q = s /\ spc'[q] = "open" /\ num[s] \notin exists
    BY <1>1, <2>1
  <2> QED
    BY <2>1, <2>2 DEF PipeInv, Pool!AllIsRead
<1>4. ASSUME NEW s \in Senders, Pool!SenderLine(s)
      PROVE  PipeInv'
  <2>1. /\ UNCHANGED <<spc, num, exists, child>> /\ spc[s] = "input" /\ num[s] \in exists
        /\ \A p \in Pool!Pipes : p # num[s] => pending'[p] = pending[p]
    BY <1>1, <1>4 DEF Pool!SenderLine, PipeInv
  <2> QED
    BY <1>1, <2>1 DEF PipeInv, Pool!AllIsRead
<1>5. ASSUME NEW k \in DOMAIN child, Pool!ChildRead(k)
      PROVE  PipeInv'
  <2>1. /\ UNCHANGED <<spc, num, exists, child>> /\ pending[child[k].pipe] > 0
        /\ \A p \in Pool!Pipes : p # child[k].pipe => pending'[p] = pending[p]
        /\ ~ (pending[child[k].pipe] = 0)
    BY <1>1, <1>5 DEF Pool!ChildRead, Pool!senderVars
  <2> QED
    BY <1>1, <2>1 DEF PipeInv, Pool!AllIsRead
<1>6. ASSUME NEW k \in DOMAIN child, NEW l \in ChildPlaces, Pool!Become(k, l)
      PROVE  /\ DOMAIN child' = DOMAIN child
             /\ \A m \in DOMAIN child : child'[m].pipe = child[m].pipe
             /\ \A m \in DOMAIN child : child'[m].at = IF m = k THEN l ELSE child[m].at
  BY <1>1, <1>6, ChildBecomes
<1>7. ASSUME NEW k \in DOMAIN child, Pool!ChildEof(k)
      PROVE  PipeInv'
  <2>1. /\ UNCHANGED <<spc, num, exists, pending>> /\ child[k].at = "read" /\ Pool!Become(k, "remove") /\ "remove" \in ChildPlaces
        /\ pending[child[k].pipe] = 0 /\ \A s \in Senders : spc[s] = "input" => num[s] # child[k].pipe
    BY <1>7 DEF Pool!ChildEof, Pool!senderVars, Pool!AtEof, Pool!NoWriter, ChildPlaces
  <2>2. /\ DOMAIN child' = DOMAIN child
        /\ \A m \in DOMAIN child : child'[m].pipe = child[m].pipe
        /\ \A m \in DOMAIN child : child'[m].at = IF m = k THEN "remove" ELSE child[m].at
    BY <1>6, <2>1
  <2> QED
    BY <2>1, <2>2 DEF PipeInv, Pool!AllIsRead
<1>8. ASSUME NEW k \in DOMAIN child, Pool!ChildRemove(k)
      PROVE  PipeInv'
  <2>1. /\ UNCHANGED <<spc, num, pending>> /\ child[k].at = "remove" /\ Pool!Become(k, "zombie") /\ "zombie" \in ChildPlaces
        /\ exists' = exists \ {child[k].pipe}
    BY <1>8 DEF Pool!ChildRemove, Pool!senderVars, ChildPlaces
  <2>2. /\ DOMAIN child' = DOMAIN child
        /\ \A m \in DOMAIN child : child'[m].pipe = child[m].pipe
        /\ \A m \in DOMAIN child : child'[m].at = IF m = k THEN "zombie" ELSE child[m].at
    BY <1>6, <2>1
  <2>3. \A m \in DOMAIN child : m # k /\ child[m].at \in {"read", "remove"} => child[m].pipe # child[k].pipe
    BY <2>1 DEF PoolTypesInv, SlotInv, Pool!Living
  <2>4. \A s \in Senders : spc[s] \in {"open", "input"} => num[s] # child[k].pipe
    BY <2>1 DEF PipeInv
  <2>5. pending[child[k].pipe] = 0
    BY <2>1 DEF PipeInv
  <2> QED
    BY <2>1, <2>2, <2>3, <2>4, <2>5 DEF PipeInv, Pool!AllIsRead
<1>9. ASSUME NEW k \in DOMAIN child, NEW s \in Senders, Pool!Open(s, k)
      PROVE  PipeInv'
  <2>1. /\ UNCHANGED <<num, exists, pending>> /\ child[k].at = "open" /\ Pool!Become(k, "read") /\ "read" \in ChildPlaces
        /\ spc[s] = "open" /\ child[k].pipe = num[s] /\ spc' = [spc EXCEPT ![s] = "input"]
    BY <1>9 DEF Pool!Open, Pool!Goto, ChildPlaces
  <2>2. /\ DOMAIN child' = DOMAIN child
        /\ \A m \in DOMAIN child : child'[m].pipe = child[m].pipe
        /\ \A m \in DOMAIN child : child'[m].at = IF m = k THEN "read" ELSE child[m].at
    BY <1>6, <2>1
  <2>3. \A q \in Senders : spc'[q] = IF q = s THEN "input" ELSE spc[q]
    BY <1>1, <2>1
  <2> QED
    BY <2>1, <2>2, <2>3 DEF PipeInv, Pool!AllIsRead
<1>10. ASSUME Pool!RecvStart \/ Pool!RecvStep
       PROVE  PipeInv'
  <2>1. UNCHANGED <<spc, num, exists, pending>>
    BY <1>10 DEF Pool!RecvStart, Pool!RecvStep, Pool!RecvScan, Pool!RecvReap, Pool!senderVars
  <2>2. \A k \in DOMAIN child' : child'[k].at \in {"read", "remove"} =>
          k \in DOMAIN child /\ child'[k] = child[k]
    <3>1. CASE UNCHANGED child
      BY <3>1
    <3>2. CASE \E c \in Children : c.at = "open" /\ child' = Append(child, c)
      <4>1. PICK c \in Children : c.at = "open" /\ child' = Append(child, c)
        BY <3>2
      <4>2. /\ Len(child) \in Nat /\ DOMAIN child = 1 .. Len(child) /\ DOMAIN child' = 1 .. Len(child) + 1
            /\ child'[Len(child) + 1] = c /\ \A k \in 1 .. Len(child) : child'[k] = child[k]
        BY <1>1, <4>1, AppendProperties, LenProperties
      <4> QED
        BY <4>1, <4>2
    <3>3. CASE \E k \in DOMAIN child : Pool!Become(k, "reaped")
      <4>1. "reaped" \in ChildPlaces
        BY DEF ChildPlaces
      <4>2. PICK k \in DOMAIN child : Pool!Become(k, "reaped")
        BY <3>3
      <4> QED
        BY <1>1, <4>1, <4>2, ChildBecomes
    <3> QED
      <4>1. Pool!RecvStart => UNCHANGED child
        BY DEF Pool!RecvStart
      <4>2. Pool!RecvReap => UNCHANGED child \/ \E k \in DOMAIN child : Pool!Become(k, "reaped")
        BY DEF Pool!RecvReap, Pool!Reapable
      <4>3. Pool!RecvScan => UNCHANGED child \/ \E c \in Children : c.at = "open" /\ child' = Append(child, c)
        <5>1. recv.i \in Pool!Pipes
          BY PoolTypeParts DEF PoolTypesInv, PoolRecvType
        <5>2. [pipe |-> recv.i, at |-> "open"] \in Children /\ [pipe |-> recv.i, at |-> "open"].at = "open"
          BY <5>1 DEF Children, ChildPlaces
        <5> QED
          BY <5>2 DEF Pool!RecvScan
      <4> QED
        BY <1>10, <3>1, <3>2, <3>3, <4>1, <4>2, <4>3 DEF Pool!RecvStep
  <2> QED
    BY <2>1, <2>2 DEF PipeInv, Pool!AllIsRead
<1> QED
  BY <1>2, <1>3, <1>4, <1>5, <1>7, <1>8, <1>9, <1>10 DEF Pool!Next, Pool!ChildStep

\* What the theorems say of ueb12 follows.
LEMMA PoolHolds ==
  ASSUME PoolTypesInv
  PROVE  Pool!TypeOK /\ Pool!OneChildPerPipe
<1>1. ASSUME NEW k \in DOMAIN child, NEW l \in DOMAIN child, k # l, Pool!Living(k), Pool!Living(l)
      PROVE  child[k].pipe # child[l].pipe
  BY <1>1 DEF PoolTypesInv, SlotInv
<1>2. ASSUME recv.pc = "off", NEW k \in DOMAIN child
      PROVE  ~ Pool!Living(k)
  BY <1>2 DEF PoolTypesInv, UnreapedCounted, Unreaped, Pool!Living
<1> QED
  BY <1>1, <1>2 DEF PoolTypesInv, Pool!OneChildPerPipe

-----------------------------------------------------------------------------
(* ueb13: non-blocking named pipes                                         *)

RecvBounds == RecvPipes \in Nat \ {0} /\ {MaxLines, MaxKills} \subseteq Nat

\* RemoveAt leaves out the member at place k and moves the later ones up.
LEMMA RemoveLemma ==
  ASSUME NEW S, NEW s \in Seq(S), NEW k \in 1 .. Len(s)
  PROVE  /\ Recv!RemoveAt(s, k) \in Seq(S) /\ Len(Recv!RemoveAt(s, k)) = Len(s) - 1
         /\ \A j \in 1 .. Len(s) - 1 : Recv!RemoveAt(s, k)[j] = IF j < k THEN s[j] ELSE s[j + 1]
<1>1. SubSeq(s, 1, k - 1) \in Seq(S) /\ Len(SubSeq(s, 1, k - 1)) = k - 1
      /\ \A j \in 1 .. k - 1 : SubSeq(s, 1, k - 1)[j] = s[j]
  BY SubSeqProperties
<1>2. SubSeq(s, k + 1, Len(s)) \in Seq(S) /\ Len(SubSeq(s, k + 1, Len(s))) = Len(s) - k
      /\ \A j \in 1 .. Len(s) - k : SubSeq(s, k + 1, Len(s))[j] = s[k + j]
  BY SubSeqProperties
<1> DEFINE a == SubSeq(s, 1, k - 1)
           b == SubSeq(s, k + 1, Len(s))
<1>a. a \in Seq(S) /\ Len(a) = k - 1 /\ \A j \in 1 .. k - 1 : a[j] = s[j]
  BY <1>1
<1>b. b \in Seq(S) /\ Len(b) = Len(s) - k /\ \A j \in 1 .. Len(s) - k : b[j] = s[k + j]
  BY <1>2
<1> HIDE DEF a, b
<1>3. a \o b \in Seq(S) /\ Len(a \o b) = Len(s) - 1
      /\ \A j \in 1 .. Len(s) - 1 : (a \o b)[j] = IF j <= k - 1 THEN a[j] ELSE b[j - (k - 1)]
  <2>1. Len(a) + Len(b) = Len(s) - 1
    BY <1>a, <1>b
  <2>2. /\ a \o b \in Seq(S) /\ Len(a \o b) = Len(a) + Len(b)
        /\ \A j \in 1 .. Len(a) + Len(b) : (a \o b)[j] = IF j <= Len(a) THEN a[j] ELSE b[j - Len(a)]
    BY <1>a, <1>b, ConcatProperties
  <2>3. Len(a) = k - 1
    BY <1>a
  <2> QED
    BY <2>1, <2>2, <2>3
<1>4. \A j \in 1 .. Len(s) - 1 : (a \o b)[j] = IF j < k THEN s[j] ELSE s[j + 1]
  <2> SUFFICES ASSUME NEW j \in 1 .. Len(s) - 1 PROVE (a \o b)[j] = IF j < k THEN s[j] ELSE s[j + 1]
    OBVIOUS
  <2>1. CASE j < k
    BY <1>a, <1>3, <2>1
  <2>2. CASE ~ (j < k)
    <3>1. (a \o b)[j] = b[j - (k - 1)] /\ j - (k - 1) \in 1 .. Len(s) - k
      <4>1. j \in Int /\ k \in Int /\ ~ (j <= k - 1) /\ Len(s) \in Nat
        BY <2>2
      <4>2. (a \o b)[j] = IF j <= k - 1 THEN a[j] ELSE b[j - (k - 1)]
        BY <1>3
      <4>3. j - (k - 1) \in 1 .. Len(s) - k
        BY <4>1
      <4> QED
        BY <4>1, <4>2, <4>3
    <3>2. b[j - (k - 1)] = s[k + (j - (k - 1))] /\ k + (j - (k - 1)) = j + 1
      BY <1>b, <3>1
    <3> QED
      BY <2>2, <3>1, <3>2
  <2> QED BY <2>1, <2>2
<1> QED
  BY <1>3, <1>4 DEF Recv!RemoveAt, a, b

\* The tables: no pipe is in them twice, those in them exist, and fd follows
\* pname as far as the pipes are opened.
TablesInv ==
    /\ \A j, k \in 1 .. Len(pname) : pname[j] = pname[k] => j = k
    /\ srpc # "dead" => \A k \in 1 .. Len(pname) : pname[k] \in sexists
    /\ Len(pname) <= RecvPipes
    /\ srpc = "scan" => Len(pname) < si /\ \A k \in 1 .. Len(pname) : pname[k] < si
    /\ srpc = "off" => si = 1 /\ pname = <<>>
    /\ srpc \in {"off", "scan", "done", "dead"} => fd = <<>>
    /\ srpc = "open" => si \in 1 .. Len(pname) /\ Len(fd) = si - 1
                        /\ \A k \in 1 .. si - 1 : fd[k] = pname[k]
    /\ srpc \in {"read", "close", "remove"} => fd = pname /\ si \in 1 .. Len(fd)

\* The receiver will still read what is written to pipe p.
Reading(p) == Recv!HasOpen(p) /\ ~ (srpc = "close" /\ fd[si] = p)

\* What is left in pipe p, and who writes to it, is late.
OnlyLate(p) ==
    /\ Recv!ToSet(spending[p]) \subseteq late
    /\ \A s \in TwoSenders : sspc[s] = "input" /\ snum[s] = p => s \in late

\* From the end of a pipe on, and not only from its close on, nothing is left
\* in it that is not late.
LeftInv == srpc # "dead" => \A p \in Recv!Pipes : ~ Reading(p) => OnlyLate(p)

RecvInv == Recv!TypeOK /\ TablesInv /\ LeftInv

\* What is in a queue after a line is written, and after one is read.
LEMMA QueueLemma ==
  ASSUME NEW S, NEW q \in Seq(S), NEW x \in S
  PROVE  /\ Append(q, x) \in Seq(S) /\ Recv!ToSet(Append(q, x)) = Recv!ToSet(q) \cup {x}
         /\ q # <<>> => Tail(q) \in Seq(S) /\ Recv!ToSet(Tail(q)) \subseteq Recv!ToSet(q)
<1>1. /\ Append(q, x) \in Seq(S) /\ Len(Append(q, x)) = Len(q) + 1
      /\ Append(q, x)[Len(q) + 1] = x /\ \A k \in 1 .. Len(q) : Append(q, x)[k] = q[k]
  BY AppendProperties
<1>2. DOMAIN Append(q, x) = 1 .. Len(q) + 1 /\ DOMAIN q = 1 .. Len(q) /\ Len(q) \in Nat
  BY <1>1
<1>3. Recv!ToSet(Append(q, x)) = Recv!ToSet(q) \cup {x}
  BY <1>1, <1>2 DEF Recv!ToSet
<1>4. ASSUME q # <<>> PROVE Tail(q) \in Seq(S) /\ Recv!ToSet(Tail(q)) \subseteq Recv!ToSet(q)
  <2>1. Tail(q) \in Seq(S) /\ Len(Tail(q)) = Len(q) - 1 /\ \A k \in 1 .. Len(q) - 1 : Tail(q)[k] = q[k + 1]
    BY <1>4, HeadTailProperties
  <2>2. DOMAIN Tail(q) = 1 .. Len(q) - 1 /\ \A k \in 1 .. Len(q) - 1 : k + 1 \in DOMAIN q
    BY <1>2, <2>1
  <2> QED
    BY <2>1, <2>2 DEF Recv!ToSet
<1> QED
  BY <1>1, <1>3, <1>4

\* The invariant of ueb13 holds at the beginning.
LEMMA RecvInit == ASSUME RecvBounds, Recv!Init PROVE RecvInv
<1>1. Recv!TypeOK
  BY DEF RecvBounds, Recv!Init, Recv!TypeOK, Recv!Pipes
<1>2. TablesInv
  BY DEF RecvBounds, Recv!Init, TablesInv
<1> QED
  BY <1>1, <1>2 DEF Recv!Init, RecvInv, LeftInv, OnlyLate, Recv!ToSet

\* A step of a sender.
LEMMA RecvSender ==
  ASSUME RecvBounds, RecvInv, NEW s \in TwoSenders,
         Recv!SenderStart(s) \/ Recv!SenderStep(s) \/ Recv!SenderLine(s) \/ Recv!SenderEnd(s) \/ Recv!KillSender(s)
  PROVE  RecvInv'
<1> USE DEF RecvInv, Recv!SenderStep
<1>1. UNCHANGED <<srpc, si, pname, fd>> /\ sexists \subseteq sexists'
  BY DEF Recv!SenderStart, Recv!SenderTest, Recv!SenderMkfifo, Recv!SenderOpen, Recv!SenderLine, Recv!SenderEnd, Recv!KillSender
<1>2. TablesInv'
  BY <1>1 DEF TablesInv
<1>3. \A p : Reading(p)' <=> Reading(p)
  BY <1>1 DEF Recv!HasOpen, Reading
<1>l. late \subseteq late' /\ late' \subseteq TwoSenders
  BY DEF Recv!TypeOK, Recv!SenderStart, Recv!SenderTest, Recv!SenderMkfifo, Recv!SenderOpen, Recv!SenderLine, Recv!SenderEnd, Recv!KillSender
<1>4. Recv!TypeOK'
  <2>1. recvKills' \in 0 .. MaxKills /\ ssent' \in [TwoSenders -> 0 .. MaxLines]
    <3>1. CASE Recv!KillSender(s)
      BY <3>1 DEF RecvBounds, Recv!TypeOK, Recv!KillSender
    <3>2. CASE Recv!SenderLine(s)
      <4>1. ssent[s] + 1 \in 0 .. MaxLines /\ ssent' = [ssent EXCEPT ![s] = ssent[s] + 1] /\ recvKills' = recvKills
        BY <3>2 DEF RecvBounds, Recv!TypeOK, Recv!SenderLine
      <4> QED
        BY <4>1 DEF Recv!TypeOK
    <3>3. CASE ~ (Recv!KillSender(s) \/ Recv!SenderLine(s))
      BY <3>3 DEF Recv!TypeOK, Recv!SenderStart, Recv!SenderTest, Recv!SenderMkfifo, Recv!SenderOpen, Recv!SenderEnd
    <3> QED
      BY <3>1, <3>2, <3>3
  <2>2. snum' \in [TwoSenders -> Recv!Pipes]
    <3>1. snum \in [TwoSenders -> Recv!Pipes] /\ snum[s] \in Recv!Pipes
      BY DEF Recv!TypeOK
    <3>2. snum' = snum \/ (\E p \in Recv!Pipes : snum' = [snum EXCEPT ![s] = p])
      <4>1. CASE Recv!SenderTest(s)
        <5>1. snum[s] < RecvPipes => snum[s] + 1 \in Recv!Pipes
          BY <3>1 DEF Recv!Pipes, RecvBounds
        <5> QED
          BY <4>1, <5>1 DEF Recv!SenderTest
      <4>2. CASE Recv!SenderStart(s)
        BY <4>2 DEF Recv!SenderStart
      <4>3. CASE ~ (Recv!SenderTest(s) \/ Recv!SenderStart(s))
        BY <4>3 DEF Recv!SenderMkfifo, Recv!SenderOpen, Recv!SenderLine, Recv!SenderEnd, Recv!KillSender
      <4> QED
        BY <4>1, <4>2, <4>3
    <3> QED
      BY <3>1, <3>2
  <2>3. sspc' \in [TwoSenders -> {"off", "test", "mkfifo", "open", "wait", "input",
                                "nofile", "done", "refused", "dead"}]
    BY DEF Recv!TypeOK, Recv!Goto, Recv!SenderStart, Recv!SenderTest, Recv!SenderMkfifo, Recv!SenderOpen, Recv!SenderLine, Recv!SenderEnd, Recv!KillSender
  <2>4. sexists' \subseteq Recv!Pipes
    BY DEF Recv!TypeOK, Recv!SenderStart, Recv!SenderTest, Recv!SenderMkfifo, Recv!SenderOpen, Recv!SenderLine, Recv!SenderEnd, Recv!KillSender
  <2>5. spending' \in [Recv!Pipes -> Seq(TwoSenders)]
    <3>1. snum[s] \in Recv!Pipes /\ spending \in [Recv!Pipes -> Seq(TwoSenders)]
      BY DEF Recv!TypeOK
    <3>2. spending' = spending \/ spending' = [spending EXCEPT ![snum[s]] = Append(spending[snum[s]], s)]
      BY DEF Recv!SenderStart, Recv!SenderTest, Recv!SenderMkfifo, Recv!SenderOpen, Recv!SenderLine, Recv!SenderEnd, Recv!KillSender
    <3>3. Append(spending[snum[s]], s) \in Seq(TwoSenders)
      BY <3>1, QueueLemma
    <3> QED
      BY <3>1, <3>2, <3>3
  <2> QED
    BY <1>1, <1>l, <2>1, <2>2, <2>3, <2>4, <2>5 DEF Recv!TypeOK
<1>5. \A r \in TwoSenders \ {s} : sspc'[r] = sspc[r] /\ snum'[r] = snum[r]
  BY DEF Recv!TypeOK, Recv!Goto, Recv!SenderStart, Recv!SenderTest, Recv!SenderMkfifo, Recv!SenderOpen, Recv!SenderLine, Recv!SenderEnd, Recv!KillSender
<1>6. ASSUME srpc # "dead", sspc'[s] = "input", ~ Reading(snum'[s]) PROVE s \in late'
  <2>1. CASE sspc[s] = "input"
    <3>1. snum' = snum /\ snum[s] \in Recv!Pipes
      BY <2>1 DEF Recv!TypeOK, Recv!SenderStart, Recv!SenderTest, Recv!SenderMkfifo, Recv!SenderOpen, Recv!SenderLine, Recv!SenderEnd, Recv!KillSender
    <3>2. OnlyLate(snum[s])
      BY <1>6, <3>1 DEF LeftInv
    <3> QED
      BY <1>l, <2>1, <3>2 DEF OnlyLate
  <2>2. CASE sspc[s] # "input"
    <3>1. CASE Recv!SenderOpen(s)
      <4>1. /\ sspc'[s] = IF Recv!HasOpen(snum[s]) THEN "input" ELSE IF snum[s] \in sexists THEN "wait" ELSE "nofile"
            /\ snum' = snum
            /\ late' = IF srpc = "close" /\ fd[si] = snum[s] THEN late \cup {s} ELSE late
        BY <3>1 DEF Recv!SenderOpen, Recv!Goto, Recv!TypeOK
      <4>2. Recv!HasOpen(snum[s])
        BY <1>6, <4>1
      <4> QED BY <1>6, <4>1, <4>2 DEF Reading
    <3>2. CASE ~ Recv!SenderOpen(s)
      <4>1. sspc'[s] # "input"
        BY <2>2, <3>2 DEF Recv!SenderStart, Recv!SenderTest, Recv!SenderMkfifo, Recv!SenderLine, Recv!SenderEnd, Recv!KillSender, Recv!Goto, Recv!TypeOK
      <4> QED BY <1>6, <4>1
    <3> QED BY <3>1, <3>2
  <2> QED BY <2>1, <2>2
<1>7. ASSUME srpc # "dead", NEW p \in Recv!Pipes, ~ Reading(p)
      PROVE  Recv!ToSet(spending'[p]) \subseteq late'
  <2>0. OnlyLate(p)
    BY <1>7 DEF LeftInv
  <2>1. CASE Recv!SenderLine(s)
    <3>1. spending' = IF Recv!HasOpen(snum[s]) THEN [spending EXCEPT ![snum[s]] = Append(spending[snum[s]], s)] ELSE spending
      BY <2>1 DEF Recv!SenderLine
    <3>2. spending \in [Recv!Pipes -> Seq(TwoSenders)] /\ snum[s] \in Recv!Pipes /\ sspc[s] = "input"
      BY <2>1 DEF Recv!TypeOK, Recv!SenderLine
    <3>3. CASE spending'[p] = spending[p]
      BY <1>l, <2>0, <3>3 DEF OnlyLate
    <3>4. CASE p = snum[s] /\ spending'[p] = Append(spending[p], s)
      <4>1. s \in late
        BY <2>0, <3>2, <3>4 DEF OnlyLate
      <4>2. Recv!ToSet(Append(spending[p], s)) = Recv!ToSet(spending[p]) \cup {s}
        BY <3>2, QueueLemma
      <4> QED
        BY <1>l, <2>0, <3>4, <4>1, <4>2 DEF OnlyLate
    <3> QED
      BY <3>1, <3>2, <3>3, <3>4
  <2>2. CASE ~ Recv!SenderLine(s)
    <3>1. spending' = spending
      BY <2>2 DEF Recv!SenderStart, Recv!SenderTest, Recv!SenderMkfifo, Recv!SenderOpen, Recv!SenderEnd, Recv!KillSender
    <3> QED
      BY <1>l, <2>0, <3>1 DEF OnlyLate
  <2> QED BY <2>1, <2>2
<1>8. LeftInv'
  <2>1. SUFFICES ASSUME srpc # "dead", NEW p \in Recv!Pipes, ~ Reading(p) PROVE OnlyLate(p)'
    BY <1>1, <1>3 DEF LeftInv, Recv!Pipes
  <2>2. OnlyLate(p)
    BY <2>1 DEF LeftInv
  <2>3. ASSUME NEW r \in TwoSenders, sspc'[r] = "input", snum'[r] = p PROVE r \in late'
    <3>1. CASE r = s
      BY <1>6, <2>1, <2>3, <3>1
    <3>2. CASE r # s
      BY <1>5, <1>l, <2>2, <2>3, <3>2 DEF OnlyLate
    <3> QED BY <3>1, <3>2
  <2> QED
    BY <1>7, <2>1, <2>3 DEF OnlyLate
<1> QED
  BY <1>2, <1>4, <1>8

\* A step of the receiver.
LEMMA RecvOwn ==
  ASSUME RecvBounds, RecvInv, Recv!RecvStep \/ Recv!RecvStart \/ Recv!KillRecv
  PROVE  RecvInv'
<1> USE DEF RecvInv
<1>1. CASE Recv!RecvStart
  <2>1. Recv!TypeOK' /\ TablesInv'
    BY <1>1 DEF Recv!RecvStart, Recv!senderVars, Recv!TypeOK, TablesInv, RecvBounds
  <2>2. \A p : ~ Reading(p) /\ ~ Reading(p)' /\ (OnlyLate(p) => OnlyLate(p)')
    BY <1>1 DEF Recv!RecvStart, Recv!senderVars, TablesInv, Reading, Recv!HasOpen, OnlyLate
  <2> QED
    BY <1>1, <2>1, <2>2 DEF Recv!RecvStart, LeftInv
<1>2. CASE Recv!KillRecv
  <2>1. Recv!TypeOK'
    BY <1>2 DEF Recv!KillRecv, Recv!senderVars, Recv!TypeOK, RecvBounds
  <2> QED
    BY <1>2, <2>1 DEF Recv!KillRecv, Recv!senderVars, TablesInv, LeftInv
<1>3. CASE Recv!RecvScan
  <2>1. /\ srpc = "scan" /\ fd = <<>> /\ fd' = <<>> /\ si \in Recv!Pipes /\ pname \in Seq(Recv!Pipes)
        /\ UNCHANGED <<Recv!senderVars, sexists, spending, late, recvKills>>
    BY <1>3 DEF Recv!RecvScan, TablesInv, Recv!TypeOK
  <2>0. Len(pname) \in Nat /\ si \in Nat /\ \A k \in 1 .. Len(pname) : pname[k] \in Recv!Pipes /\ pname[k] \in Nat
    <3>1. Recv!Pipes \subseteq Nat
      BY DEF Recv!Pipes
    <3>2. Len(pname) \in Nat /\ \A k \in 1 .. Len(pname) : pname[k] \in Recv!Pipes
      BY <2>1, ElementOfSeq
    <3> QED
      BY <2>1, <3>1, <3>2
  <2>2. /\ pname' \in Seq(Recv!Pipes) /\ Len(pname') <= si
        /\ \A j, k \in 1 .. Len(pname') : pname'[j] = pname'[k] => j = k
        /\ \A k \in 1 .. Len(pname') : pname'[k] \in sexists /\ pname'[k] <= si
    <3>1. CASE si \in sexists
      <4>1. pname' = Append(pname, si)
        BY <1>3, <3>1 DEF Recv!RecvScan
      <4>2. /\ Append(pname, si) \in Seq(Recv!Pipes) /\ Len(Append(pname, si)) = Len(pname) + 1
            /\ Append(pname, si)[Len(pname) + 1] = si
            /\ \A k \in 1 .. Len(pname) : Append(pname, si)[k] = pname[k]
        BY <2>1, AppendProperties
      <4>3. /\ Len(pname) < si /\ \A k \in 1 .. Len(pname) : pname[k] < si /\ pname[k] \in sexists
            /\ \A j, k \in 1 .. Len(pname) : pname[j] = pname[k] => j = k
        BY <2>1 DEF RecvInv, TablesInv
      <4> QED
        BY <2>0, <3>1, <4>1, <4>2, <4>3
    <3>2. CASE si \notin sexists
      <4>1. pname' = pname
        BY <1>3, <3>2 DEF Recv!RecvScan
      <4> QED
        BY <2>0, <2>1, <4>1 DEF TablesInv
    <3> QED BY <3>1, <3>2
  <2>3. \/ si < RecvPipes /\ si' = si + 1 /\ srpc' = "scan"
        \/ si = RecvPipes /\ si' = 1 /\ srpc' = IF pname' = <<>> THEN "done" ELSE "open"
    BY <1>3, <2>1 DEF Recv!RecvScan, Recv!Pipes, RecvBounds
  <2>4. Len(pname') \in Nat /\ (pname' # <<>> => Len(pname') > 0) /\ si \in 1 .. RecvPipes
    BY <2>1, <2>2, EmptySeq DEF Recv!Pipes
  <2>5. TablesInv'
    <3>1. \A k \in 1 .. Len(pname') : pname'[k] \in Nat
      <4>1. Recv!Pipes \subseteq Nat
        BY DEF Recv!Pipes
      <4>2. \A k \in 1 .. Len(pname') : pname'[k] \in Recv!Pipes
        BY <2>2, ElementOfSeq
      <4> QED
        BY <4>1, <4>2
    <3>2. CASE si < RecvPipes
      BY <2>1, <2>2, <2>3, <2>4, <3>1, <3>2 DEF TablesInv, RecvBounds
    <3>3. CASE si = RecvPipes
      BY <2>1, <2>2, <2>3, <2>4, <3>1, <3>3 DEF TablesInv, RecvBounds
    <3> QED BY <2>3, <3>2, <3>3
  <2>6. si' \in Recv!Pipes /\ srpc' \in {"scan", "done", "open"}
    BY <2>1, <2>3 DEF Recv!Pipes, RecvBounds
  <2>7. Recv!TypeOK'
    BY <2>1, <2>2, <2>6 DEF Recv!TypeOK, Recv!senderVars
  <2>8. LeftInv'
    BY <2>1, <2>6 DEF LeftInv, Reading, Recv!HasOpen, OnlyLate, Recv!senderVars
  <2> QED
    BY <2>5, <2>7, <2>8
<1>4. CASE Recv!RecvOpen
  <2> DEFINE q == pname[si]
  <2>1. /\ srpc = "open" /\ pname \in Seq(Recv!Pipes) /\ fd \in Seq(Recv!Pipes) /\ si \in 1 .. Len(pname) /\ Len(fd) = si - 1
        /\ \A k \in 1 .. si - 1 : fd[k] = pname[k]
        /\ UNCHANGED <<snum, ssent, sexists, spending, pname, late, recvKills>>
        /\ q \in Recv!Pipes /\ fd' = Append(fd, q)
    BY <1>4 DEF Recv!RecvOpen, TablesInv, Recv!TypeOK
  <2>2. fd' \in Seq(Recv!Pipes) /\ Len(fd') = si /\ \A k \in 1 .. si : fd'[k] = pname[k]
    BY <2>1, AppendProperties
  <2>3. \/ si < Len(pname) /\ si' = si + 1 /\ srpc' = "open"
        \/ si = Len(pname) /\ si' = 1 /\ srpc' = "read"
    BY <1>4, <2>1 DEF Recv!RecvOpen
  <2>4. si' \in 1 .. Len(pname) /\ Len(pname) \in Nat /\ Len(pname) <= RecvPipes
    BY <2>1, <2>3 DEF TablesInv
  <2>5. srpc' = "read" => fd' = pname
    <3>1. SUFFICES ASSUME si = Len(pname) PROVE fd' = pname
      BY <2>3
    <3> QED
      BY <2>1, <2>2, <3>1, SeqEqual
  <2>6. TablesInv'
    <3>1. /\ \A j, k \in 1 .. Len(pname) : pname[j] = pname[k] => j = k
          /\ \A k \in 1 .. Len(pname) : pname[k] \in sexists
      BY <2>1 DEF TablesInv
    <3>2. CASE srpc' = "open"
      BY <2>1, <2>2, <2>3, <2>4, <3>1, <3>2 DEF TablesInv
    <3>3. CASE srpc' = "read"
      BY <2>1, <2>4, <2>5, <3>1, <3>3 DEF TablesInv
    <3> QED
      BY <2>3, <3>2, <3>3
  <2>7. sspc' = [r \in TwoSenders |-> IF sspc[r] = "wait" /\ snum[r] = q THEN "input" ELSE sspc[r]]
    BY <1>4 DEF Recv!RecvOpen
  <2>8. Recv!TypeOK'
    <3>1. si' \in Recv!Pipes
      BY <2>4 DEF Recv!Pipes, RecvBounds
    <3>2. sspc' \in [TwoSenders -> {"off", "test", "mkfifo", "open", "wait", "input",
                                "nofile", "done", "refused", "dead"}]
      BY <2>7 DEF Recv!TypeOK
    <3> QED
      BY <2>1, <2>2, <2>3, <3>1, <3>2 DEF Recv!TypeOK
  <2>9. \A p : Recv!HasOpen(p)' <=> Recv!HasOpen(p) \/ p = q
    <3>1. DOMAIN fd' = 1 .. si /\ DOMAIN fd = 1 .. si - 1
      BY <2>1, <2>2
    <3>2. srpc # "remove" /\ srpc' # "remove"
      BY <2>1, <2>3
    <3>3. \A p : Recv!HasOpen(p)' <=> \E k \in 1 .. si : fd'[k] = p
      BY <3>1, <3>2 DEF Recv!HasOpen
    <3>4. \A p : Recv!HasOpen(p) <=> \E k \in 1 .. si - 1 : fd[k] = p
      BY <3>1, <3>2 DEF Recv!HasOpen
    <3>5. si \in 1 .. si /\ \A k \in 1 .. si : k = si \/ k \in 1 .. si - 1
      BY <2>1
    <3> HIDE DEF q
    <3>6. fd'[si] = q /\ \A k \in 1 .. si - 1 : fd'[k] = fd[k] /\ k \in 1 .. si
      BY <2>1, <2>2 DEF q
    <3> QED
      BY <3>3, <3>4, <3>5, <3>6
  <2>10. LeftInv'
    <3> HIDE DEF q
    <3>1. \A p : Reading(p)' <=> Reading(p) \/ p = q
      BY <2>1, <2>3, <2>9 DEF Reading
    <3> QED
      BY <2>1, <2>3, <2>7, <3>1 DEF LeftInv, OnlyLate
  <2> QED
    BY <2>6, <2>8, <2>10
<1>5. CASE Recv!RecvRead
  <2>1. /\ srpc = "read" /\ fd = pname /\ si \in 1 .. Len(fd) /\ fd \in Seq(Recv!Pipes) /\ fd[si] \in Recv!Pipes
        /\ Len(fd) <= RecvPipes /\ Len(fd) \in Nat
        /\ UNCHANGED <<Recv!senderVars, sexists, pname, fd, late, recvKills>>
    BY <1>5 DEF Recv!RecvRead, TablesInv, Recv!TypeOK
  <2>2. CASE spending[fd[si]] = <<>> /\ Recv!NoWriter(fd[si])
    <3>1. srpc' = "close" /\ UNCHANGED <<si, spending>>
      BY <1>5, <2>2 DEF Recv!RecvRead
    <3>2. Recv!TypeOK' /\ TablesInv'
      BY <2>1, <3>1 DEF Recv!TypeOK, TablesInv, Recv!senderVars
    <3>3. \A p : Reading(p) => Reading(p)' \/ p = fd[si]
      BY <2>1, <3>1 DEF Recv!HasOpen, Reading
    <3>4. \A p : p = fd[si] => OnlyLate(p)'
      BY <2>1, <2>2, <3>1 DEF OnlyLate, Recv!ToSet, Recv!NoWriter, Recv!senderVars
    <3>5. \A p : OnlyLate(p) => OnlyLate(p)'
      BY <2>1, <3>1 DEF OnlyLate, Recv!senderVars
    <3>6. LeftInv'
      BY <2>1, <3>3, <3>4, <3>5 DEF LeftInv, Recv!Pipes
    <3> QED BY <3>2, <3>6
  <2>3. CASE ~ (spending[fd[si]] = <<>> /\ Recv!NoWriter(fd[si]))
    <3>1. /\ srpc' = srpc /\ si' = (si % Len(fd)) + 1
          /\ spending' = [spending EXCEPT ![fd[si]] = IF spending[fd[si]] = <<>> THEN spending[fd[si]] ELSE Tail(spending[fd[si]])]
      BY <1>5, <2>3 DEF Recv!RecvRead
    <3>2. si' \in 1 .. Len(fd) /\ si' \in Recv!Pipes
      BY <2>1, <3>1 DEF Recv!Pipes, RecvBounds
    <3>3. spending' \in [Recv!Pipes -> Seq(TwoSenders)]
          /\ \A p \in Recv!Pipes : Recv!ToSet(spending'[p]) \subseteq Recv!ToSet(spending[p])
      <4>1. spending \in [Recv!Pipes -> Seq(TwoSenders)]
        BY DEF Recv!TypeOK
      <4> DEFINE v == IF spending[fd[si]] = <<>> THEN spending[fd[si]] ELSE Tail(spending[fd[si]])
      <4>2. v \in Seq(TwoSenders) /\ Recv!ToSet(v) \subseteq Recv!ToSet(spending[fd[si]])
        <5>1. CASE spending[fd[si]] = <<>>
          BY <2>1, <4>1, <5>1
        <5>2. CASE spending[fd[si]] # <<>>
          <6>1. spending[fd[si]] \in Seq(TwoSenders)
            BY <2>1, <4>1
          <6>2. Head(spending[fd[si]]) \in TwoSenders
            BY <5>2, <6>1, HeadTailProperties
          <6> QED
            BY <5>2, <6>1, <6>2, QueueLemma
        <5> QED BY <5>1, <5>2
      <4>3. spending' = [spending EXCEPT ![fd[si]] = v]
        BY <3>1
      <4> HIDE DEF v
      <4> QED
        BY <2>1, <4>1, <4>2, <4>3
    <3>4. Recv!TypeOK' /\ TablesInv'
      BY <2>1, <3>1, <3>2, <3>3 DEF Recv!TypeOK, TablesInv, Recv!senderVars
    <3>5. \A p : Reading(p)' <=> Reading(p)
      BY <2>1, <3>1 DEF Recv!HasOpen, Reading
    <3>6. \A p \in Recv!Pipes : OnlyLate(p) => OnlyLate(p)'
      BY <2>1, <3>3 DEF OnlyLate, Recv!senderVars
    <3>7. LeftInv'
      BY <2>1, <3>1, <3>5, <3>6 DEF LeftInv, Recv!Pipes
    <3> QED BY <3>4, <3>7
  <2> QED
    BY <2>2, <2>3
<1>7. CASE Recv!RecvClose
  <2>1. /\ srpc = "close" /\ srpc' = "remove"
        /\ UNCHANGED <<Recv!senderVars, sexists, spending, si, pname, fd, late, recvKills>>
    BY <1>7 DEF Recv!RecvClose
  <2>2. Recv!TypeOK' /\ TablesInv'
    BY <2>1 DEF Recv!TypeOK, TablesInv, Recv!senderVars
  <2>3. \A p : Reading(p) => Reading(p)'
    BY <2>1 DEF Recv!HasOpen, Reading
  <2>4. \A p : OnlyLate(p) => OnlyLate(p)'
    BY <2>1 DEF OnlyLate, Recv!senderVars
  <2>5. LeftInv'
    BY <2>1, <2>3, <2>4 DEF LeftInv, Recv!Pipes
  <2> QED
    BY <2>2, <2>5
<1>6. CASE Recv!RecvRemove
  <2>1. /\ srpc = "remove" /\ fd = pname /\ si \in 1 .. Len(fd) /\ fd \in Seq(Recv!Pipes)
        /\ Len(fd) <= RecvPipes /\ Len(fd) \in Nat
        /\ UNCHANGED <<Recv!senderVars, spending, late, recvKills>>
        /\ sexists' = sexists \ {fd[si]} /\ pname' = Recv!RemoveAt(fd, si) /\ fd' = Recv!RemoveAt(fd, si)
        /\ si' = 1 /\ srpc' = IF Len(fd) = 1 THEN "done" ELSE "read"
    BY <1>6 DEF Recv!RecvRemove, TablesInv, Recv!TypeOK
  <2>2. /\ fd' \in Seq(Recv!Pipes) /\ Len(fd') = Len(fd) - 1
        /\ \A j \in 1 .. Len(fd) - 1 : fd'[j] = IF j < si THEN fd[j] ELSE fd[j + 1]
    BY <2>1, RemoveLemma
  <2>3. /\ \A j, k \in 1 .. Len(fd) : fd[j] = fd[k] => j = k
        /\ \A k \in 1 .. Len(fd) : fd[k] \in sexists
    BY <2>1 DEF TablesInv
  <2>4. /\ \A j, k \in 1 .. Len(fd') : fd'[j] = fd'[k] => j = k
        /\ \A k \in 1 .. Len(fd') : fd'[k] \in sexists \ {fd[si]}
    <3>1. \A j \in 1 .. Len(fd') : \E k \in 1 .. Len(fd) : k # si /\ fd'[j] = fd[k] /\ k = IF j < si THEN j ELSE j + 1
      BY <2>1, <2>2
    <3>2. \A j, k \in 1 .. Len(fd') : fd'[j] = fd'[k] => j = k
      <4> SUFFICES ASSUME NEW j \in 1 .. Len(fd'), NEW k \in 1 .. Len(fd'), fd'[j] = fd'[k]
                   PROVE  j = k
        OBVIOUS
      <4>1. PICK x \in 1 .. Len(fd) : fd'[j] = fd[x] /\ x = IF j < si THEN j ELSE j + 1
        BY <3>1
      <4>2. PICK y \in 1 .. Len(fd) : fd'[k] = fd[y] /\ y = IF k < si THEN k ELSE k + 1
        BY <3>1
      <4>3. x = y
        BY <2>3, <4>1, <4>2
      <4> QED
        BY <2>1, <2>2, <4>1, <4>2, <4>3
    <3>3. \A k \in 1 .. Len(fd') : fd'[k] \in sexists \ {fd[si]}
      BY <2>1, <2>3, <3>1
    <3> QED
      BY <3>2, <3>3
  <2>5. Len(fd) = 1 => fd' = <<>>
    BY <2>2, EmptySeq
  <2>6. TablesInv'
    <3>1. CASE Len(fd) = 1
      BY <2>1, <2>2, <2>4, <2>5, <3>1 DEF TablesInv, RecvBounds
    <3>2. CASE Len(fd) # 1
      <4>1. srpc' = "read" /\ si' \in 1 .. Len(fd') /\ fd' = pname' /\ Len(pname') <= RecvPipes
        <5>1. srpc' = "read" /\ si' = 1 /\ fd' = pname' /\ Len(fd') = Len(fd) - 1
          BY <2>1, <2>2, <3>2
        <5>2. 1 \in 1 .. Len(fd') /\ Len(fd') <= RecvPipes
          BY <2>1, <3>2, <5>1 DEF RecvBounds
        <5> QED
          BY <5>1, <5>2
      <4> QED
        BY <2>1, <2>4, <4>1 DEF TablesInv
    <3> QED BY <3>1, <3>2
  <2>7. Recv!TypeOK'
    <3>1. 1 \in Recv!Pipes /\ sexists' \subseteq Recv!Pipes /\ srpc' \in {"read", "done"}
      <4>1. 1 \in Recv!Pipes
        BY DEF Recv!Pipes, RecvBounds
      <4>2. sexists' \subseteq sexists /\ sexists \subseteq Recv!Pipes
        BY <2>1 DEF Recv!TypeOK
      <4> QED
        BY <2>1, <4>1, <4>2
    <3> QED
      BY <2>1, <2>2, <3>1 DEF Recv!TypeOK, Recv!senderVars
  <2>8. \A p : Recv!HasOpen(p) => Recv!HasOpen(p)'
    <3>1. SUFFICES ASSUME NEW p, NEW k \in 1 .. Len(fd), fd[k] = p, k # si PROVE Recv!HasOpen(p)'
      BY <2>1 DEF Recv!HasOpen
    <3>2. srpc' # "remove" /\ DOMAIN fd' = 1 .. Len(fd) - 1
      BY <2>1, <2>2
    <3>3. CASE k < si
      <4>1. k \in 1 .. Len(fd) - 1 /\ fd'[k] = p
        BY <2>1, <2>2, <3>1, <3>3
      <4> QED
        BY <3>2, <4>1 DEF Recv!HasOpen
    <3>4. CASE k > si
      <4>1. k - 1 \in 1 .. Len(fd) - 1 /\ fd'[k - 1] = p
        BY <2>1, <2>2, <3>1, <3>4
      <4> QED
        BY <3>2, <4>1 DEF Recv!HasOpen
    <3> QED BY <2>1, <3>1, <3>3, <3>4
  <2>9. LeftInv'
    <3>1. \A p : OnlyLate(p) => OnlyLate(p)'
      BY <2>1 DEF OnlyLate, Recv!senderVars
    <3>2. \A p : Reading(p) => Reading(p)'
      BY <2>1, <2>8 DEF Reading
    <3> QED
      BY <2>1, <3>1, <3>2 DEF LeftInv, Recv!Pipes
  <2> QED
    BY <2>6, <2>7, <2>9
<1> QED
  BY <1>1, <1>2, <1>3, <1>4, <1>5, <1>6, <1>7 DEF Recv!RecvStep

\* Every step of ueb13 keeps it.
LEMMA RecvNext ==
  ASSUME RecvBounds, RecvInv, (Recv!Next \/ UNCHANGED Recv!vars)
  PROVE  RecvInv'
<1>1. CASE Recv!Next
  BY <1>1, RecvSender, RecvOwn DEF Recv!Next
<1>2. CASE UNCHANGED Recv!vars
  BY <1>2 DEF Recv!vars, Recv!senderVars, RecvInv, Recv!TypeOK, TablesInv, LeftInv, Reading, OnlyLate, Recv!HasOpen
<1> QED
  BY <1>1, <1>2

\* What is said of ueb13 follows.
LEMMA RecvHolds ==
  ASSUME RecvInv
  PROVE  Recv!TypeOK /\ Recv!AllIsRead
BY DEF RecvInv, LeftInv, Reading, OnlyLate, Recv!AllIsRead

-----------------------------------------------------------------------------
(* ueb11: a parent that polls two children                                 *)

PollBounds == {MaxLines, MaxKills, MaxSigs} \subseteq Nat

\* The parent waits for child k, or has gone.
Served(k) == Poll!ParentGone \/ (cur = k /\ ppc \in {"get", "abort1", "abort2"})

Asked(k) == question[k] /\ ~ Poll!ChildGone(k)

\* A child that was asked, types or has answered is the one the parent waits
\* for, and it does one of these at a time.
Turn(k) ==
    /\ Asked(k) \/ cpc[k] = "input" \/ answer[k] => Served(k)
    /\ answer[k] => Poll!ParentGone \/ (~ Asked(k) /\ cpc[k] # "input")
    /\ Asked(k) => Poll!ParentGone \/ cpc[k] # "input"
    /\ ppc = "done" => Poll!ChildGone(k) /\ ~ answer[k]
    /\ ppc = "off" => ~ question[k]

PollInv == Poll!TypeOK /\ \A k \in Poll!Child : Turn(k)

\* The invariant of ueb11 holds at the beginning.
LEMMA PollInit == ASSUME PollBounds, Poll!Init PROVE PollInv
BY DEF PollBounds, Poll!Init, PollInv, Poll!TypeOK, Turn, Served, Asked, Poll!ParentGone, Poll!Child

\* A step of a child.
LEMMA PollChild ==
  ASSUME PollBounds, PollInv, NEW k \in Poll!Child,
         Poll!ChildRead(k) \/ Poll!ChildLine(k) \/ Poll!ChildEnd(k) \/ Poll!KillChild(k)
  PROVE PollInv'
<1> USE DEF PollInv
<1>1. Poll!TypeOK'
  <2>1. typed' \in [Poll!Child -> 0 .. MaxLines] /\ pollKills' \in 0 .. MaxKills
    BY DEF Poll!TypeOK, PollBounds, Poll!ChildRead, Poll!ChildLine, Poll!ChildEnd, Poll!KillChild
  <2>2. cpc' \in [Poll!Child -> {"none", "read", "input", "ended", "dead"}]
    BY DEF Poll!TypeOK, Poll!ChildRead, Poll!ChildLine, Poll!ChildEnd, Poll!KillChild, Poll!Goto
  <2>3. question' \in [Poll!Child -> BOOLEAN] /\ answer' \in [Poll!Child -> BOOLEAN]
    BY DEF Poll!TypeOK, Poll!ChildRead, Poll!ChildLine, Poll!ChildEnd, Poll!KillChild
  <2> QED
    BY <2>1, <2>2, <2>3 DEF Poll!TypeOK, Poll!ChildRead, Poll!ChildLine, Poll!ChildEnd, Poll!KillChild
<1>2. UNCHANGED <<ppc, cur>>
  BY DEF Poll!ChildRead, Poll!ChildLine, Poll!ChildEnd, Poll!KillChild
<1>3. \A j \in Poll!Child \ {k} : cpc'[j] = cpc[j] /\ question'[j] = question[j] /\ answer'[j] = answer[j]
  BY DEF Poll!TypeOK, Poll!ChildRead, Poll!ChildLine, Poll!ChildEnd, Poll!KillChild, Poll!Goto
<1>4. \A j \in Poll!Child \ {k} : Turn(j)'
  BY <1>2, <1>3 DEF Turn, Served, Poll!ParentGone, Poll!ChildGone, Asked
<1>5. Turn(k)'
  <2>1. CASE Poll!ChildRead(k)
    BY <1>2, <2>1 DEF Poll!TypeOK, Turn, Served, Poll!ParentGone, Poll!ChildGone, Asked, Poll!ChildRead, Poll!Goto
  <2>2. CASE Poll!ChildLine(k)
    <3>1. cpc[k] = "input" /\ question' = question
      BY <2>2 DEF Poll!ChildLine
    <3>2. CASE Poll!ParentGone
      BY <1>2, <2>2, <3>1, <3>2 DEF Poll!TypeOK, Turn, Served, Poll!ParentGone, Poll!ChildGone, Asked, Poll!ChildLine, Poll!Goto
    <3>3. CASE ~ Poll!ParentGone
      <4>1. cpc'[k] = "read" /\ ppc # "done"
        BY <2>2, <3>3 DEF Poll!TypeOK, Poll!ChildLine, Poll!Goto, Poll!ParentGone
      <4>2. Served(k)
        BY <3>1 DEF Turn
      <4> QED
        BY <1>2, <3>1, <3>3, <4>1, <4>2 DEF Turn, Served, Asked, Poll!ChildGone, Poll!ParentGone
    <3> QED
      BY <3>2, <3>3
  <2>3. CASE Poll!ChildEnd(k) \/ Poll!KillChild(k)
    BY <1>2, <2>3 DEF Poll!TypeOK, Turn, Served, Poll!ParentGone, Poll!ChildGone, Asked, Poll!ChildEnd, Poll!KillChild, Poll!Goto
  <2> QED
    BY <2>1, <2>2, <2>3
<1> QED
  BY <1>1, <1>4, <1>5

\* The parent goes on to a child that is there when nobody else is asked.
LEMMA PollProceed ==
  ASSUME PollInv, NEW f \in [Poll!Child -> BOOLEAN], Poll!Proceed(f), UNCHANGED <<Poll!childVars, question, pollKills, sigs>>,
         answer' \in [Poll!Child -> BOOLEAN],
         \A j \in Poll!Child : ~ answer'[j] /\ ~ Asked(j) /\ cpc[j] # "input"
  PROVE PollInv'
<1>1. ende' = f /\ cur' \in Poll!Child /\ ppc' \in {"wait", "ask"}
  BY DEF Poll!Proceed, Poll!Child, PollInv, Poll!TypeOK
<1>2. Poll!TypeOK'
  BY <1>1 DEF PollInv, Poll!TypeOK, Poll!childVars
<1>3. \A j \in Poll!Child : Turn(j)'
  BY <1>1 DEF Turn, Asked, Poll!ChildGone, Poll!childVars
<1> QED
  BY <1>2, <1>3 DEF PollInv

\* A step of the parent.
LEMMA PollParent ==
  ASSUME PollBounds, PollInv, Poll!ParentStep \/ Poll!Start \/ Poll!SigUsr1 \/ Poll!KillParent
  PROVE PollInv'
<1>1. CASE Poll!Start
  BY <1>1 DEF Poll!Start, PollInv, Poll!TypeOK, Turn, Served, Poll!ParentGone, Poll!ChildGone, Asked
<1>2. CASE Poll!ParentSkip
  <2>1. \A j \in Poll!Child : ~ answer[j] /\ ~ Asked(j) /\ cpc[j] # "input"
    BY <1>2 DEF PollInv, Turn, Served, Poll!ParentGone, Poll!ParentSkip
  <2> QED
    BY <1>2, <2>1, PollProceed DEF Poll!ParentSkip, PollInv, Poll!TypeOK
<1>3. CASE Poll!ParentAsk
  <2>1. ppc = "ask" /\ ppc' \in {"dead", "get"} /\ cur \in Poll!Child
        /\ UNCHANGED <<Poll!childVars, answer, cur, ende, pollKills, sigs>>
    BY <1>3 DEF Poll!ParentAsk, PollInv, Poll!TypeOK
  <2>2. question' \in [Poll!Child -> BOOLEAN] /\ \A j \in Poll!Child \ {cur} : question'[j] = question[j]
    BY <1>3, <2>1 DEF Poll!ParentAsk, PollInv, Poll!TypeOK
  <2>3. \A j \in Poll!Child : ~ answer[j] /\ ~ Asked(j) /\ cpc[j] # "input"
    BY <2>1 DEF PollInv, Turn, Served, Poll!ParentGone
  <2>4. Poll!TypeOK'
    BY <2>1, <2>2 DEF PollInv, Poll!TypeOK, Poll!childVars
  <2>5. \A j \in Poll!Child : Turn(j)'
    BY <2>1, <2>2, <2>3 DEF Turn, Served, Asked, Poll!ChildGone, Poll!ParentGone, Poll!childVars
  <2> QED
    BY <2>4, <2>5 DEF PollInv
<1>4. CASE Poll!ParentGet
  <2>1. ppc = "get" /\ cur \in Poll!Child
    BY <1>4 DEF Poll!ParentGet, PollInv, Poll!TypeOK
  <2>2. \A j \in Poll!Child \ {cur} : ~ answer[j] /\ ~ Asked(j) /\ cpc[j] # "input"
    BY <2>1 DEF PollInv, Turn, Served, Poll!ParentGone
  <2>3. CASE answer[cur]
    <3>1. answer' = [answer EXCEPT ![cur] = FALSE] /\ Poll!Proceed(ende)
          /\ UNCHANGED <<Poll!childVars, question, pollKills, sigs>>
      BY <1>4, <2>3 DEF Poll!ParentGet
    <3>2. ~ Asked(cur) /\ cpc[cur] # "input"
      BY <2>1, <2>3 DEF PollInv, Turn, Poll!ParentGone
    <3>3. answer' \in [Poll!Child -> BOOLEAN] /\ \A j \in Poll!Child : ~ answer'[j]
      BY <2>1, <2>2, <3>1 DEF PollInv, Poll!TypeOK
    <3> QED
      BY <2>2, <3>1, <3>2, <3>3, PollProceed DEF PollInv, Poll!TypeOK
  <2>4. CASE ~ answer[cur]
    <3>1. Poll!ChildGone(cur) /\ UNCHANGED answer /\ Poll!Proceed([ende EXCEPT ![cur] = TRUE])
          /\ UNCHANGED <<Poll!childVars, question, pollKills, sigs>>
      BY <1>4, <2>4 DEF Poll!ParentGet
    <3>2. [ende EXCEPT ![cur] = TRUE] \in [Poll!Child -> BOOLEAN]
      BY DEF PollInv, Poll!TypeOK
    <3> QED
      BY <2>2, <2>4, <3>1, <3>2, PollProceed DEF PollInv, Poll!TypeOK, Asked, Poll!ChildGone
  <2> QED
    BY <2>3, <2>4
<1>5. CASE Poll!ParentWait
  BY <1>5 DEF Poll!ParentWait, PollInv, Poll!TypeOK, Turn, Served, Poll!ParentGone, Poll!ChildGone, Asked, Poll!childVars
<1>6. ASSUME NEW k \in Poll!Child, Poll!Abort(k) PROVE PollInv'
  BY <1>6 DEF Poll!Abort, Poll!Goto, PollInv, Poll!TypeOK, Turn, Served, Poll!ParentGone, Poll!ChildGone, Asked
<1>7. CASE Poll!SigUsr1
  BY <1>7 DEF Poll!SigUsr1, PollInv, Poll!TypeOK, Turn, Served, Poll!ParentGone, Poll!ChildGone, Asked, Poll!childVars, PollBounds
<1>8. CASE Poll!KillParent
  BY <1>8 DEF Poll!KillParent, PollInv, Poll!TypeOK, Turn, Served, Poll!ParentGone, Poll!ChildGone, Asked, Poll!childVars, PollBounds
<1> QED
  BY <1>1, <1>2, <1>3, <1>4, <1>5, <1>6, <1>7, <1>8 DEF Poll!ParentStep

\* Every step of ueb11 keeps the invariant.
LEMMA PollNext ==
  ASSUME PollBounds, PollInv, (Poll!Next \/ UNCHANGED Poll!vars)
  PROVE  PollInv'
<1>1. CASE Poll!Next
  BY <1>1, PollChild, PollParent DEF Poll!Next
<1>2. CASE UNCHANGED Poll!vars
  BY <1>2 DEF Poll!vars, Poll!childVars, PollInv, Poll!TypeOK, Turn, Served, Asked, Poll!ParentGone, Poll!ChildGone
<1> QED
  BY <1>1, <1>2

\* What is said of ueb11 follows.
LEMMA PollHolds ==
  ASSUME PollInv
  PROVE  Poll!TypeOK /\ Poll!TerminalIsOwned /\ Poll!AllIsRead
<1>1. Poll!TerminalIsOwned
  BY DEF PollInv, Turn, Served, Poll!TerminalIsOwned
<1>2. Poll!AllIsRead
  BY DEF PollInv, Turn, Served, Poll!ParentGone, Poll!AllIsRead
<1> QED
  BY <1>1, <1>2 DEF PollInv

-----------------------------------------------------------------------------
(* ueb9: two children kept in order by signals                             *)

SyncBounds == {MaxLines, MaxKills} \subseteq Nat

\* Child 2 is made when child 1 has told that its handlers stand, and its own
\* signal means that the file is complete.
OrderInv ==
    /\ pc1 \in {"none", "exec", "handlers", "ready"} => pflag
    /\ pflag => pc2 = "none"
    /\ pc1 \in {"read", "done"} => ~ flag1
    /\ ~ flag1 => pc2 = "done"
    /\ fpc = "off" => shown = 0 /\ pc1 = "none"
    /\ fpc \in {"off", "flag"} => pc2 = "none"
    /\ shown <= content

SyncInv == Sync!TypeOK /\ OrderInv /\ Sync!AllIsRead

\* The invariant of ueb9 holds at the beginning.
LEMMA SyncInit == ASSUME SyncBounds, Sync!Init PROVE SyncInv
<1>1. Sync!TypeOK
  <2>1. {pflag, flag1, number} \subseteq BOOLEAN
    BY DEF Sync!Init
  <2> QED
    BY <2>1 DEF SyncBounds, Sync!Init, Sync!TypeOK, Sync!Gone
<1> QED
  BY <1>1 DEF SyncBounds, Sync!Init, SyncInv, OrderInv, Sync!AllIsRead, Sync!Gone

\* Every step of ueb9 keeps it.
LEMMA SyncNext ==
  ASSUME SyncBounds, SyncInv, (Sync!Next \/ UNCHANGED Sync!vars)
  PROVE  SyncInv'
<1> USE DEF SyncInv, Sync!TypeOK, OrderInv, Sync!AllIsRead, Sync!Gone, SyncBounds
<1>1. CASE Sync!Start
  BY <1>1 DEF Sync!Start
<1>2. CASE Sync!ParentFork
  BY <1>2 DEF Sync!ParentFork
<1>3. CASE Sync!ParentWait
  BY <1>3 DEF Sync!ParentWait
<1>4. CASE Sync!Exec1
  BY <1>4 DEF Sync!Exec1
<1>5. CASE Sync!Handlers1
  BY <1>5 DEF Sync!Handlers1
<1>6. CASE Sync!Ready1
  BY <1>6 DEF Sync!Ready1
<1>7. CASE Sync!Wait1
  BY <1>7 DEF Sync!Wait1
<1>8. CASE Sync!Read1
  <2>1. CASE shown < content /\ ~ number
    BY <1>8, <2>1 DEF Sync!Read1
  <2>2. CASE ~ (shown < content /\ ~ number)
    <3>1. number \/ shown = content
      BY <2>2
    <3> QED
      BY <1>8, <2>2, <3>1 DEF Sync!Read1
  <2> QED
    BY <2>1, <2>2
<1>9. CASE Sync!Exec2
  BY <1>9 DEF Sync!Exec2
<1>10. CASE Sync!Line2
  BY <1>10 DEF Sync!Line2
<1>11. CASE Sync!End2
  BY <1>11 DEF Sync!End2
<1>12. CASE Sync!Signal2
  BY <1>12 DEF Sync!Signal2, Sync!Signalled
<1>13. CASE Sync!Kill1
  BY <1>13 DEF Sync!Kill1
<1>14. CASE Sync!Kill2
  BY <1>14 DEF Sync!Kill2
<1>15. CASE UNCHANGED Sync!vars
  BY <1>15 DEF Sync!vars
<1> QED
  BY <1>1, <1>2, <1>3, <1>4, <1>5, <1>6, <1>7, <1>8, <1>9, <1>10, <1>11, <1>12, <1>13, <1>14, <1>15
     DEF Sync!Next, Sync!ParentStep, Sync!Step1, Sync!Step2

-----------------------------------------------------------------------------
(* ueb8: primes and signals                                                *)

\* The program counts as this module does.
LEMMA PrimeCardinality == \A S : Prime!Cardinality(S) = Cardinality(S)
  BY DEF Prime!Cardinality, Cardinality

PrimeBounds == {MaxCount, MaxAsked, MaxKills} \subseteq Nat

\* Every number has an integer root.
LEMMA RootExists ==
  ASSUME NEW p \in Nat
  PROVE  \E r \in 0 .. p : r * r <= p /\ p < (r + 1) * (r + 1)
<1> DEFINE S == {m \in Nat : p < m * m}
<1>1. S \subseteq Nat /\ p + 1 \in S
  <2>1. p < (p + 1) * (p + 1)
    OBVIOUS
  <2> QED BY <2>1
<1>2. PICK m \in S : \A k \in S : m <= k
  <2> HIDE DEF S
  <2> QED BY <1>1, LeastNat
<1>3. m \in Nat /\ p < m * m /\ m # 0
  <2>1. 0 * 0 = 0
    OBVIOUS
  <2> QED BY <2>1
<1>4. m - 1 \in Nat /\ (m - 1) + 1 = m /\ m - 1 \notin S
  BY <1>2, <1>3
<1>5. (m - 1) * (m - 1) <= p
  <2>1. (m - 1) * (m - 1) \in Nat
    BY <1>4
  <2> QED BY <1>4, <2>1
<1>6. m - 1 <= p
  <2> DEFINE r == m - 1
  <2>1. r \in Nat /\ r * r <= p
    BY <1>4, <1>5
  <2> HIDE DEF r
  <2>2. r <= r * r
    BY <2>1
  <2>3. r * r \in Nat
    BY <2>1
  <2>4. r <= p
    BY <2>1, <2>2, <2>3
  <2> QED BY <2>4 DEF r
<1>7. m - 1 \in 0 .. p /\ p < ((m - 1) + 1) * ((m - 1) + 1)
  BY <1>3, <1>4, <1>6
<1> QED BY <1>5, <1>7

IsPrime(p) == \A d \in 2 .. p - 1 : p % d # 0

\* The test of Prim.c finds the primes: a number with a divisor has an odd
\* one below the limit, or is even.
LEMMA TestIsRight ==
  ASSUME NEW p \in Nat
  PROVE  Prime!IsPrime(p) <=> p >= 2 /\ IsPrime(p)
<1> DEFINE r == CHOOSE x \in 0 .. p : x * x <= p /\ p < (x + 1) * (x + 1)
<1>1. r \in 0 .. p /\ r * r <= p /\ p < (r + 1) * (r + 1)
  BY RootExists
<1>2. Prime!IsPrime(p) <=> /\ p >= 2
                           /\ p = 2 \/ (p % 2 # 0 /\ \A d \in 3 .. 1 + r : d % 2 = 1 => p % d # 0)
  BY DEF Prime!IsPrime
<1> HIDE DEF r
<1>3. ASSUME p >= 2, IsPrime(p) PROVE p = 2 \/ (p % 2 # 0 /\ \A d \in 3 .. 1 + r : d % 2 = 1 => p % d # 0)
  <2>1. SUFFICES ASSUME p >= 3 PROVE p % 2 # 0 /\ \A d \in 3 .. 1 + r : p % d # 0
    BY <1>3
  <2>2. p % 2 # 0
    BY <1>3, <2>1 DEF IsPrime
  <2>3. ASSUME NEW d \in 3 .. 1 + r PROVE p % d # 0
    <3>1. r >= 2 /\ r \in Nat
      BY <1>1, <2>3
    <3>2. r * r >= r + 2
      BY <3>1
    <3>3. d <= p - 1
      BY <1>1, <3>1, <3>2
    <3> QED BY <1>3, <3>3 DEF IsPrime
  <2> QED BY <2>2, <2>3
<1>4. ASSUME p >= 3, p % 2 # 0, \A d \in 3 .. 1 + r : d % 2 = 1 => p % d # 0 PROVE IsPrime(p)
  <2>1. SUFFICES ASSUME NEW d \in 2 .. p - 1, p % d = 0 PROVE FALSE
    BY DEF IsPrime
  <2>2. PICK q \in Nat : p = d * q
    <3>1. p = d * (p \div d) + (p % d) /\ p \div d \in Nat
      BY <2>1
    <3> QED BY <2>1, <3>1
  <2>3. \A e, f \in Nat : p = e * f /\ e <= f /\ e >= 2 => FALSE
    <3> SUFFICES ASSUME NEW e \in Nat, NEW f \in Nat, p = e * f, e <= f, e >= 2 PROVE FALSE
      OBVIOUS
    <3>1. e * e <= p
      OBVIOUS
    <3>2. e <= r
      BY <1>1, <3>1
    <3>3. p % e = 0
      OBVIOUS
    <3>4. CASE e % 2 = 1
      BY <1>1, <1>4, <3>2, <3>3, <3>4
    <3>5. CASE e % 2 = 0
      <4>1. PICK h \in Nat : e = 2 * h
        BY <3>5
      <4>2. p = 2 * (h * f) /\ h * f \in Nat
        BY <4>1
      <4> QED BY <1>4, <4>2
    <3> QED BY <3>4, <3>5
  <2>4. q >= 2
    <3>1. q # 0 /\ q # 1
      BY <2>1, <2>2
    <3> QED BY <3>1
  <2>5. d <= q \/ q <= d
    OBVIOUS
  <2>6. p = q * d
    BY <2>2
  <2> QED
    BY <2>2, <2>3, <2>4, <2>5, <2>6
<1>5. p = 2 => IsPrime(p)
  BY DEF IsPrime
<1> QED
  BY <1>2, <1>3, <1>4, <1>5

PrimesTo(m) == {p \in 2 .. m : IsPrime(p)}

\* There are finitely many primes up to a number, fewer than the number.
LEMMA PrimesFinite ==
  ASSUME NEW m \in Int
  PROVE  /\ IsFiniteSet(PrimesTo(m)) /\ Cardinality(PrimesTo(m)) \in Nat
         /\ m >= 1 => Cardinality(PrimesTo(m)) <= m - 1
         /\ m < 2 => Cardinality(PrimesTo(m)) = 0
<1>1. IsFiniteSet(2 .. m) /\ Cardinality(2 .. m) = IF 2 > m THEN 0 ELSE m - 2 + 1
  BY FS_Interval
<1>2. PrimesTo(m) \in SUBSET (2 .. m)
  BY DEF PrimesTo
<1>3. IsFiniteSet(PrimesTo(m)) /\ Cardinality(PrimesTo(m)) <= Cardinality(2 .. m)
  BY <1>1, <1>2, FS_Subset
<1>4. Cardinality(PrimesTo(m)) \in Nat
  BY <1>3, FS_CardinalityType
<1> QED
  BY <1>1, <1>3, <1>4

\* Counting goes on by one number.
LEMMA OneMore ==
  ASSUME NEW m \in Nat, m >= 2
  PROVE  Cardinality(PrimesTo(m)) = Cardinality(PrimesTo(m - 1)) + IF Prime!IsPrime(m) THEN 1 ELSE 0
<1>1. IsFiniteSet(PrimesTo(m - 1))
  BY PrimesFinite
<1>2. m \notin PrimesTo(m - 1)
  BY DEF PrimesTo
<1>3. PrimesTo(m) = IF IsPrime(m) THEN PrimesTo(m - 1) \cup {m} ELSE PrimesTo(m - 1)
  <2>1. 2 .. m = (2 .. m - 1) \cup {m}
    OBVIOUS
  <2> QED
    BY <2>1 DEF PrimesTo
<1>4. Prime!IsPrime(m) <=> IsPrime(m)
  BY TestIsRight
<1>5. Cardinality(PrimesTo(m - 1)) \in Nat
  BY PrimesFinite
<1>6. Cardinality(PrimesTo(m - 1) \cup {m}) = Cardinality(PrimesTo(m - 1)) + 1
  BY <1>1, <1>2, FS_AddElement
<1> QED
  BY <1>3, <1>4, <1>5, <1>6

\* What the loop has counted, and what a signal does before the handlers stand.
CountedInv ==
    /\ i <= count + 1 \/ i = 2
    /\ mpc = "fork1" => qpc = "none"
    /\ mpc \in {"fork1", "fork2"} => gpc = "none"
    /\ qpc \in {"none", "exec"} => calls = 0
    /\ qpc \in {"none", "exec", "sigset"} => i = 2 /\ anz = 0
    /\ qpc = "sigset" => calls < 8
    /\ qpc = "for" => anz = Cardinality(PrimesTo(i - 1))
    /\ qpc = "flag" => anz = Cardinality(PrimesTo(i)) /\ i <= count
    /\ result # -1 => result = Cardinality(PrimesTo(count)) /\ qpc \in Prime!Gone

SigsetInv ==
    /\ primeKills \in Nat
    /\ qpc \in {"for", "flag"} => calls = 8
    /\ calls >= 1 => disp["int"] # "default"
    /\ calls >= 2 => disp["quit"] # "default"
    /\ calls >= 3 => disp["usr1"] # "default"
    /\ calls >= 4 => disp["usr2"] # "default"
    /\ qpc = "dead" => primeKills > 0 \/ calls < 8

PrimeInv == Prime!TypeOK /\ CountedInv /\ SigsetInv

\* The calls of sigset in their order (Prim.c).
LEMMA SigsetCalls ==
  /\ Len(Prime!Sigsets) = 8
  /\ Prime!Sigsets[1] = <<"int", "ignore">> /\ Prime!Sigsets[2] = <<"quit", "ignore">>
  /\ Prime!Sigsets[3] = <<"usr1", "ignore">> /\ Prime!Sigsets[4] = <<"usr2", "ignore">>
  /\ Prime!Sigsets[5] = <<"usr1", "handle">> /\ Prime!Sigsets[6] = <<"usr2", "handle">>
  /\ Prime!Sigsets[7] = <<"int", "handle">> /\ Prime!Sigsets[8] = <<"quit", "handle">>
BY DEF Prime!Sigsets

\* The invariant of ueb8 holds at the beginning.
LEMMA PrimeInit == ASSUME PrimeBounds, Prime!Init PROVE PrimeInv
<1>1. {p1, p2, usr2} \subseteq BOOLEAN
  BY DEF Prime!Init
<1>2. Prime!TypeOK
  BY <1>1, SigsetCalls DEF PrimeBounds, Prime!Init, Prime!TypeOK
<1>3. CountedInv
  BY DEF PrimeBounds, Prime!Init, CountedInv
<1>4. SigsetInv
  BY DEF Prime!Init, SigsetInv
<1> QED
  BY <1>2, <1>3, <1>4 DEF PrimeInv

\* The steps that neither count nor deliver a signal.
LEMMA PrimeParent ==
  ASSUME PrimeBounds, PrimeInv, Prime!Fork1 \/ Prime!ParentStep \/ Prime!ExecSignal \/ Prime!Kill1 \/ Prime!Kill2 \/ Prime!ExecPrim
  PROVE  PrimeInv'
<1>1. UNCHANGED <<calls, disp, count, i, anz, usr2, result, asked>>
  BY DEF Prime!Fork1, Prime!ParentStep, Prime!Fork2, Prime!ReapPrim, Prime!QuitSignal, Prime!ReapSignal, Prime!ParentEnd, Prime!ExecSignal,
         Prime!Kill1, Prime!Kill2, Prime!ExecPrim, Prime!countVars, Prime!parentVars
<1>2. /\ mpc' \in {"fork1", "fork2", "poll", "quit", "done", "failed"}
      /\ gpc' \in {"none", "exec", "ask"} \cup Prime!Gone
      /\ p1' \in BOOLEAN /\ p2' \in BOOLEAN
  BY DEF Prime!Fork1, Prime!ParentStep, Prime!Fork2, Prime!ReapPrim, Prime!QuitSignal, Prime!ReapSignal, Prime!ParentEnd, Prime!ExecSignal,
         Prime!Kill1, Prime!Kill2, Prime!ExecPrim, Prime!countVars, Prime!parentVars, PrimeInv, Prime!TypeOK, Prime!Gone
<1>3. /\ \/ qpc' = qpc
         \/ qpc = "none" /\ qpc' = "exec"
         \/ qpc = "exec" /\ qpc' \in {"sigset", "failed"}
         \/ qpc' = "dead" /\ primeKills' = primeKills + 1 /\ qpc # "none"
      /\ primeKills' \in Nat /\ primeKills' >= primeKills
      /\ mpc' = "fork1" => mpc = "fork1" /\ (qpc = "none" => qpc' = "none")
      /\ mpc' \in {"fork1", "fork2"} => mpc \in {"fork1", "fork2"} /\ (gpc = "none" => gpc' = "none")
  <2>0. primeKills \in Nat
    BY DEF PrimeInv, SigsetInv
  <2>1. CASE Prime!Fork1
    BY <2>0, <2>1 DEF Prime!Fork1, PrimeInv, CountedInv
  <2>2. CASE Prime!ParentStep \/ Prime!ExecSignal \/ Prime!Kill2 \/ Prime!ExecPrim
    BY <2>0, <2>2 DEF Prime!ParentStep, Prime!Fork2, Prime!ReapPrim, Prime!QuitSignal, Prime!ReapSignal, Prime!ParentEnd, Prime!ExecSignal,
         Prime!Kill2, Prime!ExecPrim, Prime!parentVars
  <2>3. CASE Prime!Kill1
    BY <2>0, <2>3 DEF Prime!Kill1, Prime!Gone, Prime!parentVars
  <2> QED
    BY <2>1, <2>2, <2>3
<1>4. Prime!TypeOK'
  BY <1>1, <1>2, <1>3 DEF PrimeInv, Prime!TypeOK, Prime!Gone
<1>5. CountedInv'
  BY <1>1, <1>3 DEF PrimeInv, CountedInv, Prime!Gone
<1>6. SigsetInv'
  <2>1. primeKills \in Nat /\ primeKills' \in Nat /\ calls \in Int
    BY SigsetCalls, <1>3 DEF PrimeInv, Prime!TypeOK, SigsetInv
  <2>2. qpc' = "dead" => primeKills' > 0 \/ calls < 8
    BY <1>3, <2>1 DEF PrimeInv, SigsetInv
  <2>3. qpc' \in {"for", "flag"} => qpc \in {"for", "flag"}
    BY <1>3
  <2> QED
    BY <1>1, <2>1, <2>2, <2>3 DEF PrimeInv, SigsetInv
<1> QED
  BY <1>4, <1>5, <1>6 DEF PrimeInv

\* A call of sigset, in order, sets the disposition of one signal.
LEMMA PrimeSigset == ASSUME PrimeBounds, PrimeInv, Prime!Sigset PROVE PrimeInv'
<1> DEFINE c == Prime!Sigsets[calls + 1]
<1>1. qpc = "sigset" /\ calls' = calls + 1 /\ disp' = [disp EXCEPT ![c[1]] = c[2]]
  BY DEF Prime!Sigset
<1>2. calls \in 0 .. 7 /\ count \in Nat /\ disp \in [Prime!Signals -> {"default", "ignore", "handle"}]
  BY <1>1, SigsetCalls DEF PrimeInv, Prime!TypeOK, CountedInv, PrimeBounds
<1>3. c[1] \in Prime!Signals /\ c[2] \in {"ignore", "handle"}
  <2>1. c = Prime!Sigsets[calls + 1]
    OBVIOUS
  <2> HIDE DEF c
  <2>2. c \in {<<"int", "ignore">>, <<"quit", "ignore">>, <<"usr1", "ignore">>, <<"usr2", "ignore">>,
               <<"usr1", "handle">>, <<"usr2", "handle">>, <<"int", "handle">>, <<"quit", "handle">>}
    BY <1>2, <2>1, SigsetCalls
  <2> QED
    BY <2>2 DEF Prime!Signals
<1>4. /\ calls + 1 = 1 => c[1] = "int"
      /\ calls + 1 = 2 => c[1] = "quit"
      /\ calls + 1 = 3 => c[1] = "usr1"
      /\ calls + 1 = 4 => c[1] = "usr2"
  BY <1>2, SigsetCalls
<1> HIDE DEF c
<1>5. qpc' = IF calls + 1 = 8 THEN "for" ELSE "sigset"
  BY <1>1, SigsetCalls DEF Prime!Sigset
<1>6. UNCHANGED <<mpc, p1, p2, gpc, count, i, anz, usr2, result, asked, primeKills>>
  BY DEF Prime!Sigset, Prime!parentVars, Prime!countVars
<1>7. disp' \in [Prime!Signals -> {"default", "ignore", "handle"}]
  BY <1>1, <1>2, <1>3
<1>8. \A s \in Prime!Signals : disp[s] # "default" \/ s = c[1] => disp'[s] # "default"
  BY <1>1, <1>2, <1>3
<1>9. Prime!TypeOK'
  <2>1. calls' \in 0 .. Len(Prime!Sigsets)
    BY <1>1, <1>2, SigsetCalls
  <2>2. qpc' \in {"none", "exec", "sigset", "for", "flag"} \cup Prime!Gone
    BY <1>5
  <2> QED
    BY <1>6, <1>7, <2>1, <2>2 DEF PrimeInv, Prime!TypeOK
<1>10. CountedInv'
  <2>1. i = 2 /\ anz = 0
    BY <1>1 DEF PrimeInv, CountedInv
  <2>2. Cardinality(PrimesTo(i - 1)) = 0
    BY <2>1, PrimesFinite
  <2>3. calls' \in 1 .. 8 /\ (calls' < 8 <=> qpc' = "sigset") /\ qpc' \in {"sigset", "for"}
    BY <1>1, <1>2, <1>5
  <2>4. result = -1
    BY <1>1 DEF PrimeInv, CountedInv, Prime!Gone
  <2>5. mpc' # "fork1" /\ (mpc' \in {"fork1", "fork2"} => gpc' = "none")
    BY <1>1, <1>6 DEF PrimeInv, CountedInv
  <2> QED
    BY <1>6, <2>1, <2>2, <2>3, <2>4, <2>5 DEF CountedInv
<1>11. SigsetInv'
  <2>1. \A k \in 1 .. 4 : calls' >= k => calls >= k \/ calls + 1 = k
    BY <1>1, <1>2
  <2>2. qpc' \in {"sigset", "for"} /\ (qpc' = "for" => calls' = 8)
    BY <1>1, <1>5
  <2>3. {"int", "quit", "usr1", "usr2"} = Prime!Signals
    BY DEF Prime!Signals
  <2>8. /\ calls >= 1 => disp["int"] # "default"
        /\ calls >= 2 => disp["quit"] # "default"
        /\ calls >= 3 => disp["usr1"] # "default"
        /\ calls >= 4 => disp["usr2"] # "default"
    BY DEF PrimeInv, SigsetInv
  <2>4. calls' >= 1 => disp'["int"] # "default"
    <3>1. (calls >= 1 \/ calls + 1 = 1) => disp["int"] # "default" \/ "int" = c[1]
      BY <2>8, <1>4
    <3> QED
      BY <2>1, <2>3, <1>8, <3>1
  <2>5. calls' >= 2 => disp'["quit"] # "default"
    <3>1. (calls >= 2 \/ calls + 1 = 2) => disp["quit"] # "default" \/ "quit" = c[1]
      BY <2>8, <1>4
    <3> QED
      BY <2>1, <2>3, <1>8, <3>1
  <2>6. calls' >= 3 => disp'["usr1"] # "default"
    <3>1. (calls >= 3 \/ calls + 1 = 3) => disp["usr1"] # "default" \/ "usr1" = c[1]
      BY <2>8, <1>4
    <3> QED
      BY <2>1, <2>3, <1>8, <3>1
  <2>7. calls' >= 4 => disp'["usr2"] # "default"
    <3>1. (calls >= 4 \/ calls + 1 = 4) => disp["usr2"] # "default" \/ "usr2" = c[1]
      BY <2>8, <1>4
    <3> QED
      BY <2>1, <2>3, <1>8, <3>1
  <2> QED
    BY <1>6, <2>2, <2>4, <2>5, <2>6, <2>7 DEF PrimeInv, SigsetInv
<1> QED
  BY <1>9, <1>10, <1>11 DEF PrimeInv

\* The loop of Prim.c: a number is counted, a signal begins it again, and the
\* count is printed.
LEMMA PrimeLoop == ASSUME PrimeBounds, PrimeInv, Prime!Count \/ Prime!Flag \/ Prime!PrintCount PROVE PrimeInv'
<1>0. /\ count \in 0 .. MaxCount /\ count \in Nat /\ i \in Nat /\ i >= 2 /\ i \in 2 .. MaxCount + 2 /\ anz \in Nat /\ MaxCount \in Nat
      /\ anz \in 0 .. MaxCount /\ result \in -1 .. MaxCount
      /\ usr2 \in BOOLEAN
  BY DEF PrimeInv, Prime!TypeOK, PrimeBounds
<1>1. UNCHANGED <<mpc, p1, p2, gpc, calls, disp, count, asked, primeKills>>
  BY DEF Prime!Count, Prime!Flag, Prime!PrintCount, Prime!parentVars, Prime!countVars
<1>2. qpc \in {"for", "flag"} /\ qpc' \in {"for", "flag", "over"} /\ mpc # "fork1"
  BY DEF Prime!Count, Prime!Flag, Prime!PrintCount, PrimeInv, CountedInv
<1>3. result = -1 /\ calls = 8
  BY <1>2 DEF PrimeInv, CountedInv, SigsetInv, Prime!Gone
<1>4. SigsetInv'
  BY <1>1, <1>2, <1>3 DEF PrimeInv, SigsetInv
<1>7. mpc \in {"fork1", "fork2"} => gpc = "none"
  BY DEF PrimeInv, CountedInv
<1>5. CountedInv' /\ i' \in 2 .. MaxCount + 2 /\ anz' \in 0 .. MaxCount /\ usr2' \in BOOLEAN /\ result' \in -1 .. MaxCount
  <2>1. CASE Prime!Count
    <3>1. qpc = "for" /\ i <= count /\ qpc' = "flag" /\ UNCHANGED <<i, usr2, result>>
      BY <2>1 DEF Prime!Count
    <3>2. anz' = anz + IF Prime!IsPrime(i) THEN 1 ELSE 0
      BY <1>0, <2>1 DEF Prime!Count
    <3>3. anz = Cardinality(PrimesTo(i - 1))
      BY <3>1 DEF PrimeInv, CountedInv
    <3>4. anz' = Cardinality(PrimesTo(i))
      BY <1>0, <3>2, <3>3, OneMore
    <3>5. Cardinality(PrimesTo(i)) \in Nat /\ Cardinality(PrimesTo(i)) <= i - 1
      BY <1>0, PrimesFinite
    <3>6. anz' \in 0 .. MaxCount
      BY <1>0, <3>1, <3>4, <3>5
    <3> QED
      BY <1>0, <1>1, <1>2, <1>3, <1>7, <3>1, <3>4, <3>6 DEF CountedInv
  <2>2. CASE Prime!Flag
    <3>1. qpc = "flag" /\ qpc' = "for" /\ usr2' = FALSE /\ UNCHANGED result
      BY <2>2 DEF Prime!Flag
    <3>2. anz = Cardinality(PrimesTo(i)) /\ i <= count
      BY <3>1 DEF PrimeInv, CountedInv
    <3>3. CASE usr2
      <4>1. i' = 2 /\ anz' = 0
        BY <2>2, <3>3 DEF Prime!Flag
      <4>2. Cardinality(PrimesTo(2 - 1)) = 0
        BY PrimesFinite
      <4>3. 2 \in 2 .. MaxCount + 2 /\ 0 \in 0 .. MaxCount
        BY <1>0
      <4>4. anz' = Cardinality(PrimesTo(i' - 1))
        BY <4>1, <4>2

      <4> QED
        BY <1>0, <1>1, <1>2, <1>3, <1>7, <3>1, <4>1, <4>3, <4>4 DEF CountedInv
    <3>4. CASE ~ usr2
      <4>1. i' = i + 1 /\ anz' = anz
        BY <2>2, <3>4 DEF Prime!Flag
      <4>2. i' - 1 = i /\ i' <= count + 1 /\ i' \in 2 .. MaxCount + 2
        BY <1>0, <4>1, <3>2
      <4> QED
        BY <1>0, <1>1, <1>2, <1>3, <1>7, <3>1, <3>2, <4>1, <4>2 DEF CountedInv
    <3> QED
      BY <3>3, <3>4
  <2>3. CASE Prime!PrintCount
    <3>1. qpc = "for" /\ i > count /\ result' = anz /\ qpc' = "over" /\ UNCHANGED <<i, anz, usr2>>
      BY <2>3 DEF Prime!PrintCount, Prime!countVars
    <3>2. anz = Cardinality(PrimesTo(i - 1))
      BY <3>1 DEF PrimeInv, CountedInv
    <3>3. i = count + 1 \/ (i = 2 /\ count < 2)
      BY <1>0, <3>1 DEF PrimeInv, CountedInv
    <3>4. Cardinality(PrimesTo(i - 1)) = Cardinality(PrimesTo(count))
      <4>1. CASE i = count + 1
        BY <1>0, <4>1
      <4>2. CASE i = 2 /\ count < 2
        BY <1>0, <4>2, PrimesFinite
      <4> QED
        BY <3>3, <4>1, <4>2
    <3>5. anz = Cardinality(PrimesTo(count))
      BY <3>2, <3>4
    <3>6. i <= count + 1 \/ i = 2
      BY <1>0, <3>3
    <3> QED
      BY <1>0, <1>1, <1>2, <1>3, <1>7, <3>1, <3>5, <3>6 DEF CountedInv, Prime!Gone
  <2> QED
    BY <2>1, <2>2, <2>3
<1>6. Prime!TypeOK'
  BY <1>1, <1>2, <1>5 DEF PrimeInv, Prime!TypeOK, Prime!Gone
<1> QED
  BY <1>4, <1>5, <1>6 DEF PrimeInv

\* What a signal does: it is fatal before a handler stands, ends the count, or
\* sets the flag.
LEMMA PrimeSend == ASSUME PrimeBounds, PrimeInv, NEW s \in Prime!Signals, Prime!Send(s) PROVE PrimeInv'
<1>1. UNCHANGED <<mpc, p1, p2, calls, disp, count, i, anz, result, primeKills>>
  BY DEF Prime!Send, Prime!parentVars, Prime!countVars
<1>2. gpc' \in {"ask", "over"}
  BY DEF Prime!Send
<1>0. usr2 \in BOOLEAN
  BY DEF PrimeInv, Prime!TypeOK
<1>3. Prime!Deliver(s)
  BY DEF Prime!Send
<1>4. /\ usr2' \in BOOLEAN
      /\ \/ qpc' = qpc
         \/ qpc \notin Prime!Gone /\ qpc' = "dead" /\ disp[s] = "default"
         \/ qpc \notin Prime!Gone /\ qpc' = "over" /\ disp[s] = "handle" /\ s = "quit"
  BY <1>0, <1>3 DEF Prime!Deliver
<1>5. disp[s] = "default" => calls < 8
  BY SigsetCalls DEF PrimeInv, SigsetInv, Prime!TypeOK, Prime!Signals
<1>6. Prime!TypeOK'
  BY <1>1, <1>2, <1>4 DEF PrimeInv, Prime!TypeOK, Prime!Gone
<1>7. CountedInv'
  <2>1. CASE qpc' = qpc
    BY <1>1, <1>2, <2>1 DEF PrimeInv, CountedInv, Prime!Send
  <2>2. CASE qpc \notin Prime!Gone /\ qpc' \in {"dead", "over"}
    <3>1. mpc \notin {"fork1", "fork2"}
      BY DEF PrimeInv, CountedInv, Prime!Send
    <3> QED
      BY <1>1, <2>2, <3>1 DEF PrimeInv, CountedInv, Prime!Gone
  <2> QED
    BY <1>4, <2>1, <2>2
<1>8. SigsetInv'
  BY <1>1, <1>4, <1>5 DEF PrimeInv, SigsetInv
<1> QED
  BY <1>6, <1>7, <1>8 DEF PrimeInv

\* No step breaks the invariant.
LEMMA PrimeNext == ASSUME PrimeBounds, PrimeInv, Prime!Next PROVE PrimeInv'
<1>1. CASE Prime!Fork1 \/ Prime!ParentStep \/ Prime!ExecSignal \/ Prime!Kill1 \/ Prime!Kill2 \/ Prime!ExecPrim
  BY <1>1, PrimeParent
<1>2. CASE Prime!Sigset
  BY <1>2, PrimeSigset
<1>3. CASE Prime!Count \/ Prime!Flag \/ Prime!PrintCount
  BY <1>3, PrimeLoop
<1>4. CASE \E s \in Prime!Signals : Prime!Send(s)
  BY <1>4, PrimeSend
<1> QED
  BY <1>1, <1>2, <1>3, <1>4 DEF Prime!Next, Prime!PrimStep, Prime!SignalStep

\* What it says of the count and of the handlers.
LEMMA PrimeHolds == ASSUME PrimeInv PROVE Prime!TypeOK /\ Prime!AllIsRead
<1>1. result # -1 => result = Cardinality({p \in 2 .. count : \A d \in 2 .. p - 1 : p % d # 0})
  BY DEF PrimeInv, CountedInv, PrimesTo, IsPrime
<1>2. qpc = "dead" => primeKills > 0 \/ calls < Len(Prime!Sigsets)
  BY SigsetCalls DEF PrimeInv, SigsetInv
<1> QED
  BY <1>1, <1>2, PrimeCardinality DEF PrimeInv, Prime!AllIsRead

-----------------------------------------------------------------------------
(* u2: a STREAMS pipe and its receiver                                     *)

\* The program counts as this module does.
LEMMA StreamsCardinality == \A S : Streams!Cardinality(S) = Cardinality(S)
  BY DEF Streams!Cardinality, Cardinality

StreamBounds == IsFiniteSet(TwoSenders) /\ MaxLines \in Nat

StreamMessages == [from : TwoSenders, kind : {"register", "line", "0"}]

From(q, s)    == \E j \in DOMAIN q : q[j].from = s
Has(q, s, k)  == \E j \in DOMAIN q : q[j].from = s /\ q[j].kind = k
LinesIn(q, s) == {j \in DOMAIN q : q[j].from = s /\ q[j].kind = "line"}
Once(q, s)    == \A j, k \in DOMAIN q : /\ q[j].from = s /\ q[j].kind = "register"
                                        /\ q[k].from = s /\ q[k].kind = "register"
                                        => j = k
Last(q, s)    == \A j, k \in DOMAIN q : q[j].from = s /\ q[j].kind = "0" /\ k > j => q[k].from # s

\* What a message adds to the pipe.
LEMMA Appended ==
  ASSUME NEW q \in Seq(StreamMessages), NEW m \in StreamMessages, NEW s \in TwoSenders
  PROVE  LET r == Append(q, m) IN
         /\ r \in Seq(StreamMessages)
         /\ From(r, s) <=> From(q, s) \/ m.from = s
         /\ \A k : Has(r, s, k) <=> Has(q, s, k) \/ (m.from = s /\ m.kind = k)
         /\ Once(q, s) /\ ~ (m.from = s /\ m.kind = "register" /\ Has(q, s, "register")) => Once(r, s)
         /\ Last(q, s) /\ ~ (m.from = s /\ Has(q, s, "0")) => Last(r, s)
         /\ Cardinality(LinesIn(q, s)) \in Nat
         /\ Cardinality(LinesIn(r, s)) =
               Cardinality(LinesIn(q, s)) + IF m.from = s /\ m.kind = "line" THEN 1 ELSE 0
<1> DEFINE r == Append(q, m)
<1>1. /\ r \in Seq(StreamMessages) /\ Len(q) \in Nat /\ Len(r) = Len(q) + 1
      /\ \A j \in 1 .. Len(q) : r[j] = q[j]
      /\ r[Len(q) + 1] = m
  BY AppendProperties, LenProperties
<1>2. DOMAIN q = 1 .. Len(q) /\ DOMAIN r = 1 .. Len(q) + 1
  BY <1>1
<1> HIDE DEF r
<1>3. /\ From(r, s) <=> From(q, s) \/ m.from = s
      /\ \A k : Has(r, s, k) <=> Has(q, s, k) \/ (m.from = s /\ m.kind = k)
  BY <1>1, <1>2 DEF From, Has
<1>4. Once(q, s) /\ ~ (m.from = s /\ m.kind = "register" /\ Has(q, s, "register")) => Once(r, s)
  BY <1>1, <1>2 DEF Once, Has
<1>5. Last(q, s) /\ ~ (m.from = s /\ Has(q, s, "0")) => Last(r, s)
  BY <1>1, <1>2 DEF Last, Has
<1>6. IsFiniteSet(LinesIn(q, s)) /\ Len(q) + 1 \notin LinesIn(q, s)
  <2>1. IsFiniteSet(1 .. Len(q)) /\ LinesIn(q, s) \subseteq 1 .. Len(q)
    BY <1>1, <1>2, FS_Interval DEF LinesIn
  <2> QED
    BY <1>1, <2>1, FS_Subset
<1>7. LinesIn(r, s) = IF m.from = s /\ m.kind = "line" THEN LinesIn(q, s) \cup {Len(q) + 1} ELSE LinesIn(q, s)
  <2>1. 1 .. Len(q) + 1 = (1 .. Len(q)) \cup {Len(q) + 1}
    BY <1>1
  <2>2. CASE m.from = s /\ m.kind = "line"
    BY <1>1, <1>2, <2>1, <2>2 DEF LinesIn
  <2>3. CASE ~ (m.from = s /\ m.kind = "line")
    BY <1>1, <1>2, <2>1, <2>3 DEF LinesIn
  <2> QED
    BY <2>2, <2>3
<1>8. Cardinality(LinesIn(q, s)) \in Nat
  BY <1>6, FS_CardinalityType
<1>9. Cardinality(LinesIn(q, s) \cup {Len(q) + 1}) = Cardinality(LinesIn(q, s)) + 1
  BY <1>6, FS_AddElement
<1>10. Cardinality(LinesIn(r, s)) =
         Cardinality(LinesIn(q, s)) + IF m.from = s /\ m.kind = "line" THEN 1 ELSE 0
  BY <1>7, <1>8, <1>9
<1> QED
  BY <1>1, <1>3, <1>4, <1>5, <1>8, <1>10 DEF r

\* What is left when a message is taken.
LEMMA Taken ==
  ASSUME NEW q \in Seq(StreamMessages), q # <<>>, NEW s \in TwoSenders
  PROVE  LET r == Tail(q)
             h == Head(q) IN
         /\ r \in Seq(StreamMessages) /\ h \in StreamMessages
         /\ From(q, s) <=> From(r, s) \/ h.from = s
         /\ \A k : Has(q, s, k) <=> Has(r, s, k) \/ (h.from = s /\ h.kind = k)
         /\ Once(q, s) => Once(r, s) /\ (h.from = s /\ h.kind = "register" => ~ Has(r, s, "register"))
         /\ Last(q, s) => Last(r, s) /\ (h.from = s /\ h.kind = "0" => ~ From(r, s))
         /\ Cardinality(LinesIn(r, s)) \in Nat /\ Cardinality(LinesIn(q, s)) \in Nat
         /\ Cardinality(LinesIn(r, s)) <=
               Cardinality(LinesIn(q, s)) - IF h.from = s /\ h.kind = "line" THEN 1 ELSE 0
<1> DEFINE r == Tail(q)
           h == Head(q)
<1>0. Len(q) \in Nat /\ Len(q) # 0
  BY EmptySeq
<1>1. /\ r \in Seq(StreamMessages) /\ h \in StreamMessages /\ Len(r) = Len(q) - 1
      /\ \A j \in 1 .. Len(r) : r[j] = q[j + 1]
      /\ h = q[1]
  BY HeadTailProperties
<1>2. DOMAIN q = 1 .. Len(q) /\ DOMAIN r = 1 .. Len(q) - 1
  BY <1>0, <1>1
<1> HIDE DEF r, h
<1>3. /\ \A j \in DOMAIN r : j + 1 \in DOMAIN q /\ r[j] = q[j + 1]
      /\ 1 \in DOMAIN q
      /\ \A j \in DOMAIN q : j = 1 \/ (j - 1 \in DOMAIN r /\ r[j - 1] = q[j])
  BY <1>0, <1>1, <1>2
<1>4. /\ From(q, s) <=> From(r, s) \/ h.from = s
      /\ \A k : Has(q, s, k) <=> Has(r, s, k) \/ (h.from = s /\ h.kind = k)
  <2>1. From(q, s) <=> From(r, s) \/ h.from = s
    BY <1>1, <1>3 DEF From
  <2>2. ASSUME NEW k PROVE Has(q, s, k) <=> Has(r, s, k) \/ (h.from = s /\ h.kind = k)
    <3>1. ASSUME NEW j \in DOMAIN q, q[j].from = s, q[j].kind = k PROVE Has(r, s, k) \/ (h.from = s /\ h.kind = k)
      <4>1. j = 1 \/ (j - 1 \in DOMAIN r /\ r[j - 1] = q[j])
        BY <1>3
      <4> QED
        BY <1>1, <3>1, <4>1 DEF Has
    <3>2. ASSUME NEW j \in DOMAIN r, r[j].from = s, r[j].kind = k PROVE Has(q, s, k)
      BY <1>3, <3>2 DEF Has
    <3>3. h.from = s /\ h.kind = k => Has(q, s, k)
      BY <1>1, <1>3 DEF Has
    <3> QED
      BY <3>1, <3>2, <3>3 DEF Has
  <2> QED
    BY <2>1, <2>2
<1>5. DOMAIN r \subseteq Int /\ DOMAIN q \subseteq Int /\ \A j \in DOMAIN r : j + 1 # 1 /\ j + 1 > 1
  BY <1>0, <1>2
<1>6. Once(q, s) => Once(r, s) /\ (h.from = s /\ h.kind = "register" => ~ Has(r, s, "register"))
  <2>1. SUFFICES ASSUME Once(q, s)
                 PROVE  Once(r, s) /\ (h.from = s /\ h.kind = "register" => ~ Has(r, s, "register"))
    OBVIOUS
  <2>2. \A j, k \in DOMAIN r : /\ r[j].from = s /\ r[j].kind = "register"
                               /\ r[k].from = s /\ r[k].kind = "register"
                               => j + 1 = k + 1
    BY <1>3, <2>1 DEF Once
  <2>3. \A k \in DOMAIN r : /\ h.from = s /\ h.kind = "register"
                            /\ r[k].from = s /\ r[k].kind = "register"
                            => 1 = k + 1
    BY <1>1, <1>3, <2>1 DEF Once
  <2>4. Once(r, s)
    BY <1>5, <2>2 DEF Once
  <2> QED
    BY <1>5, <2>3, <2>4 DEF Has
<1>7. Last(q, s) => Last(r, s) /\ (h.from = s /\ h.kind = "0" => ~ From(r, s))
  <2>1. SUFFICES ASSUME Last(q, s)
                 PROVE  Last(r, s) /\ (h.from = s /\ h.kind = "0" => ~ From(r, s))
    OBVIOUS
  <2>2. \A j, k \in DOMAIN r : r[j].from = s /\ r[j].kind = "0" /\ k + 1 > j + 1 => r[k].from # s
    BY <1>3, <2>1 DEF Last
  <2>3. \A k \in DOMAIN r : h.from = s /\ h.kind = "0" /\ k + 1 > 1 => r[k].from # s
    BY <1>1, <1>3, <2>1 DEF Last
  <2>4. \A j, k \in DOMAIN r : k > j => k + 1 > j + 1
    BY <1>5
  <2>5. Last(r, s)
    BY <2>2, <2>4 DEF Last
  <2> QED
    BY <1>5, <2>3, <2>5 DEF From
<1>8. IsFiniteSet(LinesIn(q, s)) /\ IsFiniteSet(LinesIn(q, s) \ {1})
  <2>1. IsFiniteSet(1 .. Len(q)) /\ LinesIn(q, s) \subseteq 1 .. Len(q)
    BY <1>0, <1>2, FS_Interval DEF LinesIn
  <2>2. IsFiniteSet(LinesIn(q, s))
    BY <2>1, FS_Subset
  <2> QED
    BY <2>2, FS_Subset
<1>9. IsFiniteSet(LinesIn(r, s)) /\ Cardinality(LinesIn(r, s)) <= Cardinality(LinesIn(q, s) \ {1})
  <2> DEFINE S == LinesIn(r, s)
             T == LinesIn(q, s) \ {1}
             f == [j \in S |-> j + 1]
  <2>1. \A j \in S : j \in Int /\ j + 1 \in T
    BY <1>3, <1>5 DEF LinesIn
  <2>2. f \in Injection(S, T)
    <3> HIDE DEF S, T
    <3> QED
      BY <2>1 DEF Injection, IsInjective
  <2> QED
    BY <1>8, <2>2, FS_Injection
<1>10. /\ Cardinality(LinesIn(r, s)) \in Nat /\ Cardinality(LinesIn(q, s)) \in Nat
       /\ Cardinality(LinesIn(q, s) \ {1}) \in Nat
  BY <1>8, <1>9, FS_CardinalityType
<1>11. Cardinality(LinesIn(q, s) \ {1}) = Cardinality(LinesIn(q, s)) - IF h.from = s /\ h.kind = "line" THEN 1 ELSE 0
  <2>1. 1 \in LinesIn(q, s) <=> h.from = s /\ h.kind = "line"
    BY <1>1, <1>3 DEF LinesIn
  <2> QED
    BY <1>8, <1>10, <2>1, FS_RemoveElement
<1> QED
  BY <1>1, <1>4, <1>6, <1>7, <1>9, <1>10, <1>11 DEF r, h

-----------------------------------------------------------------------------
StreamShapes ==
    /\ tpc \in [TwoSenders -> {"off", "register", "input", "signoff", "done", "dead"}]
    /\ tsent \in [TwoSenders -> 0 .. MaxLines] /\ stored \in [TwoSenders -> Nat]
    /\ pipe \in Seq(StreamMessages)
    /\ trpc \in {"open", "failed", "read", "loop", "unlink", "done"}
    /\ text \in {"0", "any"}
    /\ sender \in Int
    /\ accepted \subseteq TwoSenders
    /\ stray \in BOOLEAN

\* What the pipe holds of a sender, in the order of its program.
SenderInv(s) ==
    /\ tpc[s] \in {"off", "register"} => s \notin accepted /\ ~ From(pipe, s)
    /\ Has(pipe, s, "register") => s \notin accepted
    /\ Once(pipe, s)
    /\ Has(pipe, s, "0") => tpc[s] = "done"
    /\ Last(pipe, s)
    /\ Streams!Reading /\ tpc[s] = "done" /\ (stored[s] > 0 \/ From(pipe, s)) => Has(pipe, s, "0")
    /\ stored[s] + Cardinality(LinesIn(pipe, s)) <= tsent[s]
    /\ Streams!Reading /\ text = "any" /\ tpc[s] \in {"input", "signoff", "done"} => From(pipe, s)
    /\ trpc \in {"open", "failed"} => tpc[s] = "off"

\* Who may still send, or has something in the pipe; who died before the
\* receiver knew of it.
LiveAccepted == {s \in accepted : s \in Streams!Writers \/ From(pipe, s)}
LostHangups == {s \in TwoSenders : tpc[s] = "dead" /\ s \notin accepted /\ ~ From(pipe, s)}

CounterInv ==
    /\ Streams!Reading => \E s \in TwoSenders : tpc[s] # "off"
    /\ text = "any" => sender = 0 /\ accepted = {}
    /\ trpc = "open" => text = "any" /\ pipe = <<>>
    /\ trpc = "read" => sender > 0 \/ text = "any"
    /\ sender >= -1 /\ sender <= Cardinality(accepted \cup LostHangups)
    /\ Streams!Reading /\ ~ stray => sender >= Cardinality(LiveAccepted) \/ LiveAccepted = {}
    /\ trpc \in {"unlink", "done"} /\ ~ stray =>
          LiveAccepted = {} /\ \A s \in accepted : tpc[s] = "done" => stored[s] = 0

StreamInv == StreamShapes /\ (\A s \in TwoSenders : SenderInv(s)) /\ CounterInv

\* The invariant of u2 holds at the beginning.
LEMMA StreamInit == ASSUME StreamBounds, Streams!Init PROVE StreamInv
<1>1. StreamShapes
  <2>1. pipe \in Seq(StreamMessages) /\ 0 \in 0 .. MaxLines
    BY EmptySeq DEF Streams!Init, StreamBounds
  <2>2. /\ tpc \in [TwoSenders -> {"off", "register", "input", "signoff", "done", "dead"}]
        /\ tsent \in [TwoSenders -> 0 .. MaxLines] /\ stored \in [TwoSenders -> Nat]
    BY <2>1 DEF Streams!Init
  <2>4. stray \in BOOLEAN
    BY DEF Streams!Init
  <2>3. /\ accepted \subseteq TwoSenders /\ text \in {"0", "any"} /\ sender \in Int
        /\ trpc \in {"open", "failed", "read", "loop", "unlink", "done"}
    BY DEF Streams!Init
  <2> QED
    BY <2>1, <2>2, <2>3, <2>4 DEF StreamShapes
<1>2. \A s \in TwoSenders : ~ From(<<>>, s) /\ (\A k : ~ Has(<<>>, s, k)) /\ Once(<<>>, s) /\ Last(<<>>, s)
        /\ LinesIn(<<>>, s) = {}
  BY DEF From, Has, Once, Last, LinesIn
<1>3. ASSUME NEW s \in TwoSenders PROVE SenderInv(s)
  BY <1>2, FS_EmptySet DEF Streams!Init, SenderInv, Streams!Reading
<1>4. CounterInv
  <2>1. accepted = {} /\ LostHangups = {} /\ Cardinality({}) = 0
    BY FS_EmptySet DEF Streams!Init, LostHangups
  <2> QED
    BY <2>1 DEF Streams!Init, CounterInv, Streams!Reading
<1> QED
  BY <1>1, <1>3, <1>4 DEF StreamInv

\* The sets that are counted are finite.
LEMMA Counted ==
  ASSUME StreamBounds, NEW S, S \subseteq TwoSenders
  PROVE  /\ IsFiniteSet(S) /\ Cardinality(S) \in Nat
         /\ \A T \in SUBSET S : Cardinality(T) <= Cardinality(S)
         /\ S # {} => Cardinality(S) >= 1
         /\ Cardinality(S) <= 0 => S = {}
         /\ \A x \in S : Cardinality(S \ {x}) = Cardinality(S) - 1
         /\ \A x \in TwoSenders : Cardinality(S \cup {x}) <= Cardinality(S) + 1
         /\ \A x \in TwoSenders \ S : Cardinality(S \cup {x}) = Cardinality(S) + 1
<1>1. IsFiniteSet(S) /\ Cardinality(S) \in Nat
  BY FS_Subset, FS_CardinalityType DEF StreamBounds
<1>2. \A T \in SUBSET S : Cardinality(T) <= Cardinality(S)
  BY <1>1, FS_Subset
<1>3. S # {} => Cardinality(S) # 0
  BY <1>1, FS_EmptySet
<1>4. \A x \in S : Cardinality(S \ {x}) = Cardinality(S) - 1
  BY <1>1, FS_RemoveElement
<1>5. \A x \in TwoSenders : Cardinality(S \cup {x}) = IF x \in S THEN Cardinality(S) ELSE Cardinality(S) + 1
  BY <1>1, FS_AddElement
<1> QED
  BY <1>1, <1>2, <1>3, <1>4, <1>5

\* A step of a sender alone: it goes on, or it dies or ends.
LEMMA StreamGoesOn ==
  ASSUME StreamBounds, StreamInv, NEW s \in TwoSenders,
         Streams!EndOfInput(s) \/ Streams!KillSender(s) \/ ((Streams!Register(s) \/ Streams!SendLine(s) \/ Streams!SignOff(s)) /\ ~ Streams!Reading)
  PROVE  StreamInv'
<1>0. StreamShapes /\ CounterInv /\ \A x \in TwoSenders : SenderInv(x)
  BY DEF StreamInv
<1>1. UNCHANGED <<tsent, pipe, trpc, text, sender, stored, accepted, stray>>
  BY DEF Streams!EndOfInput, Streams!KillSender, Streams!Register, Streams!SendLine, Streams!SignOff, Streams!Put, Streams!recvVars
<1>2. tpc[s] \in {"register", "input", "signoff"}
  BY DEF Streams!EndOfInput, Streams!KillSender, Streams!Register, Streams!SendLine, Streams!SignOff, Streams!Writers
<1>3. PICK l : /\ tpc' = [tpc EXCEPT ![s] = l]
               /\ l \in {"input", "signoff", "done", "dead"}
               /\ l = "done" => ~ Streams!Reading
               /\ Streams!Reading => l = "dead" \/ (tpc[s] = "input" /\ l = "signoff")
  <2>1. CASE Streams!EndOfInput(s)
    BY <2>1 DEF Streams!EndOfInput, Streams!Goto
  <2>2. CASE Streams!KillSender(s)
    BY <2>2 DEF Streams!KillSender, Streams!Goto
  <2>3. CASE (Streams!Register(s) \/ Streams!SendLine(s) \/ Streams!SignOff(s)) /\ ~ Streams!Reading
    BY <2>3 DEF Streams!Register, Streams!SendLine, Streams!SignOff, Streams!Put, Streams!Goto
  <2> QED
    BY <2>1, <2>2, <2>3
<1>4. /\ tpc' \in [TwoSenders -> {"off", "register", "input", "signoff", "done", "dead"}]
      /\ tpc'[s] = l /\ \A x \in TwoSenders \ {s} : tpc'[x] = tpc[x]
  BY <1>0, <1>3 DEF StreamShapes
<1>5. StreamShapes'
  BY <1>0, <1>1, <1>4 DEF StreamShapes
<1>6. ~ Streams!Reading => \A x \in TwoSenders : SenderInv(x) => (trpc \in {"open", "failed"} => tpc[x] = "off")
  BY DEF SenderInv
<1>7. ASSUME NEW x \in TwoSenders PROVE SenderInv(x)'
  <2>1. CASE x # s
    BY <1>0, <1>1, <1>4, <2>1 DEF SenderInv, Streams!Reading
  <2>2. CASE x = s
    BY <1>0, <1>1, <1>2, <1>3, <1>4, <2>2 DEF SenderInv, Streams!Reading
  <2> QED
    BY <2>1, <2>2
<1>8. CounterInv'
  <2>1. Streams!Writers' \subseteq Streams!Writers /\ LiveAccepted' \subseteq LiveAccepted
    BY <1>1, <1>2, <1>4 DEF Streams!Writers, LiveAccepted
  <2>2. accepted \cup LostHangups \subseteq accepted' \cup LostHangups'
    BY <1>1, <1>2, <1>4 DEF LostHangups
  <2>3. LiveAccepted \subseteq TwoSenders /\ (accepted \cup LostHangups)' \subseteq TwoSenders
    BY <1>0, <1>1 DEF LiveAccepted, LostHangups, StreamShapes
  <2>4. Cardinality(accepted \cup LostHangups) <= Cardinality(accepted' \cup LostHangups') /\ Cardinality(accepted \cup LostHangups) \in Nat
        /\ Cardinality(accepted' \cup LostHangups') \in Nat
    BY <2>2, <2>3, Counted
  <2>5. Cardinality(LiveAccepted') <= Cardinality(LiveAccepted) /\ Cardinality(LiveAccepted) \in Nat /\ Cardinality(LiveAccepted') \in Nat
    BY <2>1, <2>3, Counted
  <2>6. Streams!Reading' => \E x \in TwoSenders : tpc'[x] # "off"
    BY <1>3, <1>4
  <2>7. trpc \in {"unlink", "done"} /\ ~ stray => \A x \in accepted : tpc'[x] = "done" => stored[x] = 0
    <3>1. SUFFICES ASSUME trpc \in {"unlink", "done"}, ~ stray, NEW x \in accepted, tpc'[x] = "done"
                   PROVE  stored[x] = 0
      OBVIOUS
    <3>2. x \notin Streams!Writers /\ x \in TwoSenders
      BY <1>0, <3>1 DEF CounterInv, LiveAccepted, StreamShapes
    <3>3. x # s
      BY <1>2, <3>2 DEF Streams!Writers
    <3> QED
      BY <1>0, <1>4, <3>1, <3>2, <3>3 DEF CounterInv
  <2>8. sender \in Int
    BY <1>0 DEF StreamShapes
  <2> QED
    BY <1>0, <1>1, <2>1, <2>4, <2>5, <2>6, <2>7, <2>8 DEF CounterInv, Streams!Reading
<1> QED
  BY <1>5, <1>7, <1>8 DEF StreamInv

\* A message goes into the pipe.
LEMMA StreamPut ==
  ASSUME StreamBounds, StreamInv, NEW s \in TwoSenders, Streams!Register(s) \/ Streams!SendLine(s) \/ Streams!SignOff(s), Streams!Reading
  PROVE  StreamInv'
<1>0. StreamShapes /\ CounterInv /\ \A x \in TwoSenders : SenderInv(x)
  BY DEF StreamInv
<1>1. UNCHANGED <<trpc, text, sender, stored, accepted, stray>>
  BY DEF Streams!Register, Streams!SendLine, Streams!SignOff, Streams!recvVars
<1>2. PICK k \in {"register", "line", "0"}, l \in {"input", "done"} :
         /\ pipe' = Append(pipe, Streams!Msg(s, k)) /\ tpc' = [tpc EXCEPT ![s] = l]
         /\ \/ k = "register" /\ tpc[s] = "register" /\ l = "input"
            \/ k = "line" /\ tpc[s] = "input" /\ l = "input"
            \/ k = "0" /\ tpc[s] = "signoff" /\ l = "done"
         /\ k = "line" => tsent[s] < MaxLines
         /\ tsent' = IF k = "line" THEN [tsent EXCEPT ![s] = @ + 1] ELSE tsent
  <2>1. CASE Streams!Register(s)
    BY <2>1 DEF Streams!Register, Streams!Put, Streams!Goto
  <2>2. CASE Streams!SendLine(s)
    BY <2>2 DEF Streams!SendLine, Streams!Put, Streams!Goto
  <2>3. CASE Streams!SignOff(s)
    BY <2>3 DEF Streams!SignOff, Streams!Put, Streams!Goto
  <2> QED
    BY <2>1, <2>2, <2>3
<1> DEFINE m == Streams!Msg(s, k)
<1>3. m \in StreamMessages /\ m.from = s /\ m.kind = k
  BY DEF Streams!Msg, StreamMessages
<1> HIDE DEF m
<1>4. pipe' = Append(pipe, m) /\ pipe \in Seq(StreamMessages)
  BY <1>0, <1>2 DEF m, StreamShapes
<1>5. pipe' \in Seq(StreamMessages)
  BY <1>3, <1>4, Appended
<1>6. ASSUME NEW x \in TwoSenders
      PROVE  /\ From(pipe', x) <=> From(pipe, x) \/ x = s
             /\ \A c : Has(pipe', x, c) <=> Has(pipe, x, c) \/ (x = s /\ c = k)
             /\ Once(pipe, x) /\ ~ (x = s /\ k = "register" /\ Has(pipe, x, "register")) => Once(pipe', x)
             /\ Last(pipe, x) /\ ~ (x = s /\ Has(pipe, x, "0")) => Last(pipe', x)
             /\ Cardinality(LinesIn(pipe, x)) \in Nat
             /\ Cardinality(LinesIn(pipe', x)) =
                   Cardinality(LinesIn(pipe, x)) + IF x = s /\ k = "line" THEN 1 ELSE 0
  BY <1>3, <1>4, Appended
<1>7. /\ tpc' \in [TwoSenders -> {"off", "register", "input", "signoff", "done", "dead"}]
      /\ tpc'[s] = l /\ \A x \in TwoSenders \ {s} : tpc'[x] = tpc[x]
  BY <1>0, <1>2 DEF StreamShapes
<1>8. /\ tsent' \in [TwoSenders -> 0 .. MaxLines]
      /\ \A x \in TwoSenders : tsent'[x] = tsent[x] + IF x = s /\ k = "line" THEN 1 ELSE 0
      /\ \A x \in TwoSenders : tsent[x] \in Nat /\ stored[x] \in Nat
  <2>0. MaxLines \in Nat /\ tsent \in [TwoSenders -> 0 .. MaxLines] /\ stored \in [TwoSenders -> Nat]
    BY <1>0 DEF StreamBounds, StreamShapes
  <2>1. CASE k = "line"
    <3>1. tsent[s] + 1 \in 0 .. MaxLines /\ tsent' = [tsent EXCEPT ![s] = tsent[s] + 1]
      BY <1>2, <2>0, <2>1
    <3> QED
      BY <2>0, <2>1, <3>1
  <2>2. CASE k # "line"
    BY <1>2, <2>0, <2>2
  <2> QED
    BY <2>1, <2>2
<1>9. StreamShapes'
  BY <1>0, <1>1, <1>5, <1>7, <1>8 DEF StreamShapes
<1>10. ASSUME NEW x \in TwoSenders PROVE SenderInv(x)'
  <2>0. SenderInv(x) /\ ~ Has(pipe, s, "0") /\ (k = "register" => ~ Has(pipe, s, "register"))
    <3>1. ~ From(pipe, s) => ~ Has(pipe, s, "register")
      BY DEF From, Has
    <3> QED
      BY <1>0, <1>2, <3>1 DEF SenderInv
  <2>1. CASE x # s
    BY <1>1, <1>6, <1>7, <1>8, <2>0, <2>1 DEF SenderInv, Streams!Reading
  <2>2. CASE x = s
    <3>1. stored'[x] + Cardinality(LinesIn(pipe', x)) <= tsent'[x]
      BY <1>1, <1>6, <1>8, <2>0, <2>2 DEF SenderInv
    <3>2. Has(pipe', x, "0") <=> k = "0"
      BY <1>6, <2>0, <2>2
    <3>3. Has(pipe', x, "register") => x \notin accepted
      BY <1>2, <1>6, <2>0, <2>2 DEF SenderInv
    <3>4. Once(pipe', x)
      BY <1>6, <2>0, <2>2 DEF SenderInv
    <3> QED
      BY <1>1, <1>2, <1>6, <1>7, <2>0, <2>2, <3>1, <3>2, <3>3, <3>4 DEF SenderInv, Streams!Reading
  <2> QED
    BY <2>1, <2>2
<1>11. CounterInv'
  <2>1. s \in Streams!Writers /\ ~ (tpc[s] = "dead") /\ l # "dead" /\ l # "off"
    BY <1>2 DEF Streams!Writers
  <2>2. LiveAccepted' = LiveAccepted
    <3>1. \A x \in accepted : x \in TwoSenders
      BY <1>0 DEF StreamShapes
    <3>2. \A x \in TwoSenders \ {s} : x \in Streams!Writers' <=> x \in Streams!Writers
      BY <1>7 DEF Streams!Writers
    <3> QED
      BY <1>1, <1>6, <2>1, <3>1, <3>2 DEF LiveAccepted
  <2>3. LostHangups' = LostHangups
    BY <1>1, <1>6, <1>7, <2>1 DEF LostHangups
  <2>4. \E x \in TwoSenders : tpc'[x] # "off"
    BY <1>7, <2>1
  <2> QED
    BY <1>0, <1>1, <2>2, <2>3, <2>4 DEF CounterInv, Streams!Reading
<1> QED
  BY <1>9, <1>10, <1>11 DEF StreamInv

\* Somebody opens the pipe: with the first the receiver comes, too.
LEMMA StreamOpen ==
  ASSUME StreamBounds, StreamInv, NEW s \in TwoSenders, Streams!Open(s)
  PROVE  StreamInv'
<1>0. StreamShapes /\ CounterInv /\ \A x \in TwoSenders : SenderInv(x)
  BY DEF StreamInv
<1>1. UNCHANGED <<tsent, pipe, text, sender, stored, accepted, stray>>
  BY DEF Streams!Open
<1>2. /\ tpc[s] = "off" /\ tpc' = [tpc EXCEPT ![s] = "register"]
      /\ trpc \in {"open", "read", "loop"}
      /\ trpc' = IF trpc = "open" THEN "read" ELSE trpc
  BY DEF Streams!Open, Streams!Goto, Streams!Reading
<1>3. /\ tpc' \in [TwoSenders -> {"off", "register", "input", "signoff", "done", "dead"}]
      /\ tpc'[s] = "register" /\ \A x \in TwoSenders \ {s} : tpc'[x] = tpc[x]
  BY <1>0, <1>2 DEF StreamShapes
<1>4. StreamShapes'
  BY <1>0, <1>1, <1>2, <1>3 DEF StreamShapes
<1>5. s \notin accepted /\ ~ From(pipe, s)
  BY <1>0, <1>2 DEF SenderInv
<1>6. ASSUME NEW x \in TwoSenders PROVE SenderInv(x)'
  <2>1. CASE x # s
    BY <1>0, <1>1, <1>2, <1>3, <2>1 DEF SenderInv, Streams!Reading
  <2>2. CASE x = s
    BY <1>0, <1>1, <1>2, <1>3, <1>5, <2>2 DEF SenderInv, Streams!Reading
  <2> QED
    BY <2>1, <2>2
<1>7. CounterInv'
  <2>1. LiveAccepted' = LiveAccepted
    <3>1. \A x \in accepted : x \in TwoSenders /\ x # s
      BY <1>0, <1>5 DEF StreamShapes
    <3>2. \A x \in TwoSenders \ {s} : x \in Streams!Writers' <=> x \in Streams!Writers
      BY <1>3 DEF Streams!Writers
    <3> QED
      BY <1>1, <3>1, <3>2 DEF LiveAccepted
  <2>2. LostHangups' = LostHangups
    BY <1>1, <1>2, <1>3 DEF LostHangups
  <2>3. trpc = "open" => accepted = {} /\ LiveAccepted = {}
    BY <1>0 DEF CounterInv, LiveAccepted
  <2>4. \E x \in TwoSenders : tpc'[x] # "off"
    BY <1>3
  <2> QED
    BY <1>0, <1>1, <1>2, <2>1, <2>2, <2>3, <2>4 DEF CounterInv, Streams!Reading
<1> QED
  BY <1>4, <1>6, <1>7 DEF StreamInv

\* The receiver looks at its counter, ends, or sees Ctrl-C.
LEMMA StreamLoop ==
  ASSUME StreamBounds, StreamInv, Streams!LoopTest \/ Streams!Unlink \/ Streams!Interrupt
  PROVE  StreamInv'
<1>0. StreamShapes /\ CounterInv /\ \A x \in TwoSenders : SenderInv(x)
  BY DEF StreamInv
<1>1. UNCHANGED <<tpc, tsent, pipe, text, sender, stored, accepted, stray>>
  BY DEF Streams!LoopTest, Streams!Unlink, Streams!Interrupt, Streams!sendVars
<1>2. \/ trpc = "loop" /\ sender > 0 /\ trpc' = "read"
      \/ trpc = "loop" /\ ~ (sender > 0) /\ trpc' = "unlink"
      \/ trpc = "unlink" /\ trpc' = "done"
      \/ trpc = "open" /\ trpc' = "failed"
      \/ trpc = "read" /\ trpc' = "loop"
      \/ trpc' = trpc
  BY DEF Streams!LoopTest, Streams!Unlink, Streams!Interrupt
<1>3. StreamShapes'
  BY <1>0, <1>1, <1>2 DEF StreamShapes
<1>4. ASSUME NEW x \in TwoSenders PROVE SenderInv(x)'
  BY <1>0, <1>1, <1>2 DEF SenderInv, Streams!Reading
<1>5. LiveAccepted' = LiveAccepted /\ LostHangups' = LostHangups
  BY <1>1 DEF LiveAccepted, LostHangups, Streams!Writers
<1>6. ASSUME trpc = "loop", ~ (sender > 0), ~ stray
      PROVE  LiveAccepted = {} /\ \A s \in accepted : tpc[s] = "done" => stored[s] = 0
  <2>1. LiveAccepted = {}
    <3>1. sender \in Int /\ LiveAccepted \subseteq TwoSenders
      BY <1>0 DEF StreamShapes, LiveAccepted
    <3>2. Cardinality(LiveAccepted) \in Nat /\ (Cardinality(LiveAccepted) <= 0 => LiveAccepted = {})
      BY <3>1, Counted
    <3>3. sender >= Cardinality(LiveAccepted) \/ LiveAccepted = {}
      BY <1>0, <1>6 DEF CounterInv, Streams!Reading
    <3> QED
      BY <1>6, <3>1, <3>2, <3>3
  <2>2. ASSUME NEW s \in accepted, tpc[s] = "done" PROVE stored[s] = 0
    <3>1. s \in TwoSenders /\ ~ From(pipe, s)
      BY <1>0, <2>1 DEF StreamShapes, LiveAccepted
    <3>2. ~ Has(pipe, s, "0")
      BY <3>1 DEF From, Has
    <3>3. stored[s] \in Nat /\ ~ (stored[s] > 0)
      BY <1>0, <1>6, <2>2, <3>1, <3>2 DEF SenderInv, Streams!Reading, StreamShapes
    <3> QED
      BY <3>3
  <2> QED
    BY <2>1, <2>2
<1>7. CounterInv'
  <2>1. CASE trpc = "loop" /\ ~ (sender > 0) /\ trpc' = "unlink"
    BY <1>0, <1>1, <1>5, <1>6, <2>1 DEF CounterInv, Streams!Reading
  <2>2. CASE ~ (trpc = "loop" /\ ~ (sender > 0) /\ trpc' = "unlink")
    BY <1>0, <1>1, <1>2, <1>5, <2>2 DEF CounterInv, Streams!Reading
  <2> QED
    BY <2>1, <2>2
<1> QED
  BY <1>3, <1>4, <1>7 DEF StreamInv

\* Before a call of getmsg the counter is positive, or it is the first.
LEMMA BeforeRead ==
  ASSUME StreamBounds, StreamInv, trpc = "read"
  PROVE  /\ sender \in Nat /\ (text = "any" => sender = 0)
         /\ IsFiniteSet(LiveAccepted) /\ LiveAccepted \subseteq TwoSenders /\ accepted \cup LostHangups \subseteq TwoSenders
         /\ ~ stray => sender >= Cardinality(LiveAccepted)
<1>1. LiveAccepted \subseteq TwoSenders /\ accepted \cup LostHangups \subseteq TwoSenders /\ sender \in Int
  BY DEF StreamInv, StreamShapes, LiveAccepted, LostHangups
<1>2. sender > 0 \/ sender = 0
  BY DEF StreamInv, CounterInv
<1>3. IsFiniteSet(LiveAccepted) /\ (LiveAccepted = {} => Cardinality(LiveAccepted) = 0)
  BY <1>1, Counted, FS_EmptySet
<1> QED
  BY <1>1, <1>2, <1>3 DEF StreamInv, CounterInv, Streams!Reading

\* A hangup: nobody has the pipe open and nothing is in it.
LEMMA StreamHangup ==
  ASSUME StreamBounds, StreamInv, Streams!GetMsg, pipe = <<>>
  PROVE  StreamInv'
<1>0. StreamShapes /\ CounterInv /\ \A x \in TwoSenders : SenderInv(x)
  BY DEF StreamInv
<1>1. /\ trpc = "read" /\ trpc' = "loop" /\ text' = "0" /\ Streams!Writers = {}
      /\ UNCHANGED <<tpc, tsent, pipe, stored, accepted, stray>>
  BY DEF Streams!GetMsg
<1>2. \/ sender' = sender - 1
      \/ sender' = sender
      \/ sender' = sender + 1 /\ text = "any"
  BY <1>0 DEF Streams!GetMsg, Streams!Hangup, StreamShapes
<1>3. sender \in Nat /\ accepted \cup LostHangups \subseteq TwoSenders
  BY <1>1, BeforeRead
<1>4. \A x \in TwoSenders : ~ From(pipe, x)
  BY DEF From
<1>5. LiveAccepted = {} /\ LiveAccepted' = {}
  BY <1>0, <1>1, <1>4 DEF LiveAccepted, Streams!Writers, StreamShapes
<1>6. LostHangups' = LostHangups
  BY <1>1 DEF LostHangups
<1>7. text = "any" => accepted \cup LostHangups # {}
  <2>1. PICK s \in TwoSenders : tpc[s] # "off"
    BY <1>0, <1>1 DEF CounterInv, Streams!Reading
  <2>2. tpc[s] \in {"done", "dead"}
    BY <1>0, <1>1, <2>1 DEF Streams!Writers, StreamShapes
  <2>3. text = "any" => tpc[s] # "done"
    BY <1>0, <1>1, <1>4 DEF SenderInv, Streams!Reading
  <2> QED
    BY <1>4, <2>2, <2>3 DEF LostHangups
<1>8. Cardinality(accepted \cup LostHangups) \in Nat /\ (text = "any" => Cardinality(accepted \cup LostHangups) >= 1)
  BY <1>3, <1>7, Counted
<1>9. StreamShapes'
  <2>1. sender' \in Int
    BY <1>2, <1>3
  <2> QED
    BY <1>0, <1>1, <2>1 DEF StreamShapes
<1>10. ASSUME NEW x \in TwoSenders PROVE SenderInv(x)'
  BY <1>0, <1>1 DEF SenderInv, Streams!Reading
<1>11. CounterInv'
  <2>1. sender' >= -1 /\ sender' <= Cardinality(accepted \cup LostHangups)
    <3>1. text = "any" => sender = 0
      BY <1>1, BeforeRead
    <3> QED
      BY <1>0, <1>2, <1>3, <1>8, <3>1 DEF CounterInv
  <2> QED
    BY <1>0, <1>1, <1>5, <1>6, <2>1 DEF CounterInv, Streams!Reading
<1> QED
  BY <1>9, <1>10, <1>11 DEF StreamInv

\* A message: it registers a sender, or kills it after Ctrl-C, signs it off,
\* or has a line of it.
LEMMA StreamMessage ==
  ASSUME StreamBounds, StreamInv, Streams!GetMsg, pipe # <<>>
  PROVE  StreamInv'
<1>0. StreamShapes /\ CounterInv /\ \A x \in TwoSenders : SenderInv(x)
  BY DEF StreamInv
<1> DEFINE s == Head(pipe).from
           k == Head(pipe).kind
<1>1. /\ trpc = "read" /\ trpc' = "loop" /\ text' = "0" /\ pipe' = Tail(pipe)
      /\ UNCHANGED tsent /\ Streams!Handle(s, k)
  BY DEF Streams!GetMsg
<1>2. pipe \in Seq(StreamMessages)
  BY <1>0 DEF StreamShapes
<1>3. pipe' \in Seq(StreamMessages) /\ s \in TwoSenders /\ k \in {"register", "line", "0"}
  <2>1. Head(pipe) \in StreamMessages /\ pipe' \in Seq(StreamMessages)
    BY <1>1, <1>2, HeadTailProperties
  <2> QED
    BY <2>1 DEF StreamMessages
<1>4. ASSUME NEW x \in TwoSenders
      PROVE  /\ From(pipe, x) <=> From(pipe', x) \/ x = s
             /\ \A c : Has(pipe, x, c) <=> Has(pipe', x, c) \/ (x = s /\ c = k)
             /\ Once(pipe', x) /\ (x = s /\ k = "register" => ~ Has(pipe', x, "register"))
             /\ Last(pipe', x) /\ (x = s /\ k = "0" => ~ From(pipe', x))
             /\ Cardinality(LinesIn(pipe', x)) \in Nat /\ Cardinality(LinesIn(pipe, x)) \in Nat
             /\ Cardinality(LinesIn(pipe', x)) <=
                   Cardinality(LinesIn(pipe, x)) - IF x = s /\ k = "line" THEN 1 ELSE 0
  <2>1. Once(pipe, x) /\ Last(pipe, x)
    BY <1>0 DEF SenderInv
  <2> QED
    BY <1>1, <1>2, <2>1, Taken
<1> HIDE DEF s, k
<1>5. From(pipe, s) /\ Has(pipe, s, k) /\ tpc[s] \in {"input", "signoff", "done", "dead"}
  BY <1>0, <1>3, <1>4 DEF SenderInv, StreamShapes
<1>6. \A x \in TwoSenders : stored[x] \in Nat /\ tsent[x] \in Nat
  BY <1>0 DEF StreamShapes, StreamBounds
<1>7. /\ sender \in Nat /\ LiveAccepted \subseteq TwoSenders /\ accepted \cup LostHangups \subseteq TwoSenders
      /\ ~ stray => sender >= Cardinality(LiveAccepted)
      /\ sender <= Cardinality(accepted \cup LostHangups)
  BY <1>0, <1>1, BeforeRead DEF CounterInv
<1>8. CASE k = "register" /\ ~ beenden
  <2>1. sender' = sender + 1 /\ accepted' = accepted \cup {s} /\ UNCHANGED <<tpc, stored, stray>>
    BY <1>1, <1>8 DEF Streams!Handle
  <2>2. s \notin accepted
    BY <1>0, <1>3, <1>5, <1>8 DEF SenderInv
  <2>3. StreamShapes'
    BY <1>0, <1>1, <1>3, <1>7, <2>1 DEF StreamShapes
  <2>4. ASSUME NEW x \in TwoSenders PROVE SenderInv(x)'
    <3>1. stored'[x] + Cardinality(LinesIn(pipe', x)) <= tsent'[x]
      BY <1>0, <1>1, <1>4, <1>6, <1>8, <2>1 DEF SenderInv
    <3>2. CASE x = s
      BY <1>0, <1>1, <1>4, <1>5, <1>8, <2>1, <3>1, <3>2 DEF SenderInv, Streams!Reading
    <3>3. CASE x # s
      BY <1>0, <1>1, <1>4, <2>1, <3>1, <3>3 DEF SenderInv, Streams!Reading
    <3> QED
      BY <3>2, <3>3
  <2>5. CounterInv'
    <3>1. LiveAccepted' \subseteq LiveAccepted \cup {s}
      BY <1>0, <1>4, <2>1 DEF LiveAccepted, Streams!Writers, StreamShapes
    <3>2. accepted' \cup LostHangups' = (accepted \cup LostHangups) \cup {s} /\ s \notin accepted \cup LostHangups
      BY <1>3, <1>4, <1>5, <2>1, <2>2 DEF LostHangups
    <3>3. Cardinality(accepted' \cup LostHangups') = Cardinality(accepted \cup LostHangups) + 1
          /\ Cardinality(accepted \cup LostHangups) \in Nat
      BY <1>3, <1>7, <3>2, Counted
    <3>4. /\ Cardinality(LiveAccepted') <= Cardinality(LiveAccepted \cup {s}) /\ Cardinality(LiveAccepted \cup {s}) <= Cardinality(LiveAccepted) + 1
          /\ Cardinality(LiveAccepted') \in Nat /\ Cardinality(LiveAccepted) \in Nat /\ Cardinality(LiveAccepted \cup {s}) \in Nat
      <4>1. LiveAccepted \cup {s} \subseteq TwoSenders /\ LiveAccepted' \subseteq TwoSenders
        BY <1>3, <1>7, <3>1
      <4> QED
        BY <1>3, <1>7, <3>1, <4>1, Counted
    <3>5. sender' >= -1 /\ sender' <= Cardinality(accepted' \cup LostHangups')
      BY <1>7, <2>1, <3>3
    <3>6. ~ stray' => sender' >= Cardinality(LiveAccepted')
      BY <1>7, <2>1, <3>4
    <3> QED
      BY <1>1, <1>3, <1>5, <2>1, <3>5, <3>6 DEF CounterInv, Streams!Reading
  <2> QED
    BY <2>3, <2>4, <2>5 DEF StreamInv
<1>9. CASE k = "register" /\ beenden
  <2>1. /\ UNCHANGED <<sender, accepted, stored, stray>>
        /\ tpc' = IF s \in Streams!Writers THEN [tpc EXCEPT ![s] = "dead"] ELSE tpc
    BY <1>1, <1>9 DEF Streams!Handle
  <2>2. /\ tpc' \in [TwoSenders -> {"off", "register", "input", "signoff", "done", "dead"}]
        /\ \A x \in TwoSenders \ {s} : tpc'[x] = tpc[x]
        /\ tpc'[s] = tpc[s] \/ (tpc'[s] = "dead" /\ tpc[s] \in {"register", "input", "signoff"})
    <3>1. CASE s \in Streams!Writers
      BY <1>0, <2>1, <3>1 DEF StreamShapes, Streams!Writers
    <3>2. CASE s \notin Streams!Writers
      BY <1>0, <2>1, <3>2 DEF StreamShapes
    <3> QED
      BY <3>1, <3>2
  <2>3. StreamShapes'
    BY <1>0, <1>1, <1>3, <2>1, <2>2 DEF StreamShapes
  <2>4. ASSUME NEW x \in TwoSenders PROVE SenderInv(x)'
    <3>1. stored'[x] + Cardinality(LinesIn(pipe', x)) <= tsent'[x]
      BY <1>0, <1>1, <1>4, <1>6, <1>9, <2>1 DEF SenderInv
    <3>2. CASE x = s
      BY <1>0, <1>1, <1>4, <1>5, <1>9, <2>1, <2>2, <3>1, <3>2 DEF SenderInv, Streams!Reading
    <3>3. CASE x # s
      BY <1>0, <1>1, <1>4, <2>1, <2>2, <3>1, <3>3 DEF SenderInv, Streams!Reading
    <3> QED
      BY <3>2, <3>3
  <2>5. CounterInv'
    <3>1. LiveAccepted' \subseteq LiveAccepted
      BY <1>0, <1>4, <2>1, <2>2 DEF LiveAccepted, Streams!Writers, StreamShapes
    <3>2. accepted \cup LostHangups \subseteq accepted' \cup LostHangups'
      BY <1>4, <1>5, <2>1, <2>2 DEF LostHangups
    <3>3. /\ Cardinality(LiveAccepted') <= Cardinality(LiveAccepted)
          /\ Cardinality(LiveAccepted') \in Nat /\ Cardinality(LiveAccepted) \in Nat
      BY <1>7, <3>1, Counted
    <3>4. /\ Cardinality(accepted \cup LostHangups) <= Cardinality(accepted' \cup LostHangups')
          /\ Cardinality(accepted \cup LostHangups) \in Nat /\ Cardinality(accepted' \cup LostHangups') \in Nat
      <4>1. accepted' \cup LostHangups' \subseteq TwoSenders
        BY <1>7, <2>1 DEF LostHangups
      <4> QED
        BY <3>2, <4>1, Counted
    <3>5. tpc'[s] # "off"
      BY <1>5, <2>2
    <3> QED
      BY <1>1, <1>3, <1>7, <2>1, <3>3, <3>4, <3>5 DEF CounterInv, Streams!Reading
  <2> QED
    BY <2>3, <2>4, <2>5 DEF StreamInv
<1>10. CASE k = "0"
  <2>1. /\ sender' = sender - 1 /\ stray' = (stray \/ s \notin accepted)
        /\ UNCHANGED <<tpc, accepted>> /\ Streams!Show(s)
    BY <1>1, <1>10 DEF Streams!Handle
  <2>2. stored' \in [TwoSenders -> Nat] /\ stored'[s] = 0 /\ \A x \in TwoSenders \ {s} : stored'[x] = stored[x]
    <3>1. CASE stored[s] > 0
      BY <1>0, <1>3, <2>1, <3>1 DEF Streams!Show, StreamShapes
    <3>2. CASE ~ (stored[s] > 0)
      BY <1>0, <1>3, <1>6, <2>1, <3>2 DEF Streams!Show, StreamShapes
    <3> QED
      BY <3>1, <3>2
  <2>3. StreamShapes'
    <3>1. sender' \in Int
      BY <1>7, <2>1
    <3>2. stray' \in BOOLEAN
      BY <2>1
    <3> QED
      BY <1>0, <1>1, <1>3, <2>1, <2>2, <3>1, <3>2 DEF StreamShapes
  <2>4. ASSUME NEW x \in TwoSenders PROVE SenderInv(x)'
    <3>1. stored'[x] + Cardinality(LinesIn(pipe', x)) <= tsent'[x]
      <4>1. stored'[x] <= stored[x] /\ stored'[x] \in Nat
        BY <1>6, <2>2
      <4> QED
        BY <1>0, <1>1, <1>4, <1>6, <1>10, <2>1, <4>1 DEF SenderInv
    <3>2. CASE x = s
      BY <1>0, <1>1, <1>4, <1>5, <1>10, <2>1, <2>2, <3>1, <3>2 DEF SenderInv, Streams!Reading
    <3>3. CASE x # s
      BY <1>0, <1>1, <1>4, <2>1, <2>2, <3>1, <3>3 DEF SenderInv, Streams!Reading
    <3> QED
      BY <3>2, <3>3
  <2>5. CounterInv'
    <3>1. tpc[s] = "done" /\ ~ From(pipe', s)
      BY <1>0, <1>3, <1>4, <1>5, <1>10 DEF SenderInv
    <3>2. LiveAccepted' \subseteq LiveAccepted \ {s}
      BY <1>0, <1>4, <2>1, <3>1 DEF LiveAccepted, Streams!Writers, StreamShapes
    <3>3. LostHangups' = LostHangups
      BY <1>4, <2>1, <3>1 DEF LostHangups
    <3>4. ~ stray' => s \in LiveAccepted /\ ~ stray
      BY <1>5, <2>1 DEF LiveAccepted
    <3>5. /\ Cardinality(LiveAccepted') <= Cardinality(LiveAccepted \ {s})
          /\ s \in LiveAccepted => Cardinality(LiveAccepted \ {s}) = Cardinality(LiveAccepted) - 1
          /\ Cardinality(LiveAccepted') \in Nat /\ Cardinality(LiveAccepted) \in Nat /\ Cardinality(LiveAccepted \ {s}) \in Nat
      <4>1. LiveAccepted \ {s} \subseteq TwoSenders /\ LiveAccepted' \subseteq TwoSenders
        BY <1>7, <3>2
      <4> QED
        BY <1>7, <3>2, <4>1, Counted
    <3>6. Cardinality(accepted \cup LostHangups) \in Nat
      BY <1>7, Counted
    <3>7. ~ stray' => sender' >= Cardinality(LiveAccepted')
      BY <1>7, <2>1, <3>4, <3>5
    <3>8. sender' >= -1 /\ sender' <= Cardinality(accepted' \cup LostHangups')
      BY <1>7, <2>1, <3>3, <3>6
    <3> QED
      BY <1>1, <1>3, <2>1, <3>1, <3>7, <3>8 DEF CounterInv, Streams!Reading
  <2> QED
    BY <2>3, <2>4, <2>5 DEF StreamInv
<1>11. CASE k = "line"
  <2>1. UNCHANGED <<tpc, sender, accepted, stray>> /\ stored' = [stored EXCEPT ![s] = @ + 1]
    BY <1>1, <1>11 DEF Streams!Handle
  <2>2. /\ stored' \in [TwoSenders -> Nat] /\ stored'[s] = stored[s] + 1
        /\ \A x \in TwoSenders \ {s} : stored'[x] = stored[x]
    BY <1>0, <1>3, <2>1 DEF StreamShapes
  <2>3. StreamShapes'
    BY <1>0, <1>1, <1>3, <2>1, <2>2 DEF StreamShapes
  <2>4. ASSUME NEW x \in TwoSenders PROVE SenderInv(x)'
    <3>1. stored'[x] + Cardinality(LinesIn(pipe', x)) <= tsent'[x]
      <4>1. stored[x] + Cardinality(LinesIn(pipe, x)) <= tsent[x] /\ tsent'[x] = tsent[x]
        BY <1>0, <1>1 DEF SenderInv
      <4>2. CASE x = s
        BY <1>4, <1>6, <1>11, <2>2, <4>1, <4>2
      <4>3. CASE x # s
        BY <1>4, <1>6, <2>2, <4>1, <4>3
      <4> QED
        BY <4>2, <4>3
    <3>2. CASE x = s
      BY <1>0, <1>1, <1>4, <1>5, <1>11, <2>1, <3>1, <3>2 DEF SenderInv, Streams!Reading
    <3>3. CASE x # s
      BY <1>0, <1>1, <1>4, <2>1, <2>2, <3>1, <3>3 DEF SenderInv, Streams!Reading
    <3> QED
      BY <3>2, <3>3
  <2>5. CounterInv'
    <3>1. LiveAccepted' \subseteq LiveAccepted
      BY <1>0, <1>4, <2>1 DEF LiveAccepted, Streams!Writers, StreamShapes
    <3>2. accepted \cup LostHangups \subseteq accepted' \cup LostHangups'
      BY <1>4, <1>5, <2>1 DEF LostHangups
    <3>3. /\ Cardinality(LiveAccepted') <= Cardinality(LiveAccepted)
          /\ Cardinality(LiveAccepted') \in Nat /\ Cardinality(LiveAccepted) \in Nat
      BY <1>7, <3>1, Counted
    <3>4. /\ Cardinality(accepted \cup LostHangups) <= Cardinality(accepted' \cup LostHangups')
          /\ Cardinality(accepted \cup LostHangups) \in Nat /\ Cardinality(accepted' \cup LostHangups') \in Nat
      <4>1. accepted' \cup LostHangups' \subseteq TwoSenders
        BY <1>7, <2>1 DEF LostHangups
      <4> QED
        BY <3>2, <4>1, Counted
    <3>5. tpc[s] # "off"
      BY <1>5
    <3> QED
      BY <1>1, <1>3, <1>7, <2>1, <3>3, <3>4, <3>5 DEF CounterInv, Streams!Reading
  <2> QED
    BY <2>3, <2>4, <2>5 DEF StreamInv
<1> QED
  BY <1>3, <1>8, <1>9, <1>10, <1>11

\* Every step of u2 keeps it.
LEMMA StreamNext == ASSUME StreamBounds, StreamInv, Streams!Next PROVE StreamInv'
<1>1. CASE \E s \in TwoSenders : Streams!EndOfInput(s) \/ Streams!KillSender(s)
  BY <1>1, StreamGoesOn
<1>2. CASE \E s \in TwoSenders : Streams!Register(s) \/ Streams!SendLine(s) \/ Streams!SignOff(s)
  BY <1>2, StreamGoesOn, StreamPut
<1>3. CASE \E s \in TwoSenders : Streams!Open(s)
  BY <1>3, StreamOpen
<1>4. CASE Streams!LoopTest \/ Streams!Unlink \/ Streams!Interrupt
  BY <1>4, StreamLoop
<1>5. CASE Streams!GetMsg
  BY <1>5, StreamHangup, StreamMessage
<1> QED
  BY <1>1, <1>2, <1>3, <1>4, <1>5 DEF Streams!Next, Streams!Receive

\* What is said of u2 follows.
LEMMA StreamHolds == ASSUME StreamBounds, StreamInv PROVE Streams!TypeOK /\ Streams!NobodyUncounted /\ Streams!AllIsRead
<1>0. \A s \in TwoSenders : Streams!Unread(s) <=> From(pipe, s)
  BY DEF Streams!Unread, From
<1>1. Streams!TypeOK
  <2>1. ASSUME NEW s \in TwoSenders PROVE tsent[s] \in 0 .. MaxLines /\ stored[s] <= tsent[s]
    <3>1. Cardinality(LinesIn(pipe, s)) \in Nat
      <4>1. Streams!Msg(s, "line") \in StreamMessages /\ pipe \in Seq(StreamMessages)
        BY DEF Streams!Msg, StreamMessages, StreamInv, StreamShapes
      <4> QED
        BY <4>1, Appended
    <3>2. tsent[s] \in 0 .. MaxLines /\ stored[s] \in Nat /\ MaxLines \in Nat
      BY DEF StreamInv, StreamShapes, StreamBounds
    <3> QED
      BY <3>1, <3>2 DEF StreamInv, SenderInv
  <2>2. sender \in -1 .. Cardinality(TwoSenders)
    <3>1. accepted \cup LostHangups \subseteq TwoSenders /\ sender \in Int /\ TwoSenders \subseteq TwoSenders
      BY DEF StreamInv, StreamShapes, LostHangups
    <3>2. Cardinality(accepted \cup LostHangups) <= Cardinality(TwoSenders) /\ Cardinality(accepted \cup LostHangups) \in Nat
          /\ Cardinality(TwoSenders) \in Nat
      BY <3>1, Counted
    <3> QED
      BY <3>1, <3>2 DEF StreamInv, CounterInv
  <2>3. trpc \in {"open", "failed", "read", "loop", "unlink", "done"}
    BY DEF StreamInv, StreamShapes
  <2> QED
    BY <2>1, <2>2, <2>3, StreamsCardinality DEF Streams!TypeOK
<1>2. Streams!NobodyUncounted
  <2>1. {s \in accepted : s \in Streams!Writers \/ Streams!Unread(s)} = LiveAccepted
    BY <1>0 DEF LiveAccepted, StreamInv, StreamShapes
  <2> QED
    BY <2>1, BeforeRead, StreamsCardinality DEF Streams!NobodyUncounted
<1>3. Streams!AllIsRead
  <2>1. accepted \subseteq TwoSenders
    BY DEF StreamInv, StreamShapes
  <2> QED
    BY <1>0, <2>1 DEF Streams!AllIsRead, StreamInv, CounterInv, LiveAccepted
<1> QED
  BY <1>1, <1>2, <1>3

-----------------------------------------------------------------------------
(* u5: file descriptor passing                                             *)

PassBounds == NoFile \notin Servers /\ NoFile \notin Clients

\* A server that has accepted has a client of its own; what it is about to
\* send, and what is on the way, is what the client has named.
Accepted == {"recv", "send", "close", "unlink", "done", "dead"}

PassShapes ==
    /\ dcpc \in [Clients -> {"off", "name", "wait", "done", "failed", "dead"}]
    /\ wants \in [Clients -> Clients \cup {NoFile}]
    /\ link \in [Clients -> Servers \cup {NoFile}]
    /\ request \in [Clients -> BOOLEAN]
    /\ DOMAIN reply = Clients /\ DOMAIN got = Clients /\ DOMAIN opened = Servers
    /\ vpc \in [Servers -> Accepted \cup {"off", "bind", "accept", "failed"}]
    /\ bound \in Servers \cup {NoFile}
    /\ backlog \in [Servers -> Seq(Clients)]
    /\ peer \in [Servers -> Clients \cup {NoFile}]

ClientInv(c) ==
    /\ dcpc[c] = "off" => link[c] = NoFile
    /\ reply[c] # <<>> => request[c] /\ reply[c] = <<wants[c]>>
    /\ dcpc[c] = "done" => got[c] = wants[c]

ServerInv(v) ==
    /\ \A k \in DOMAIN backlog[v] : link[backlog[v][k]] = v
    /\ vpc[v] \in Accepted => peer[v] \in Clients /\ link[peer[v]] = v
    /\ vpc[v] = "send" => Pass!Gone(peer[v]) \/ (request[peer[v]] /\ opened[v] = wants[peer[v]])
    /\ vpc[v] \in {"close", "unlink", "done"} => reply[peer[v]] = <<wants[peer[v]]>>

PassInv ==
    /\ PassShapes
    /\ \A c \in Clients : ClientInv(c)
    /\ \A v \in Servers : ServerInv(v)

\* The invariant of u5 holds at the beginning.
LEMMA PassInit == ASSUME Pass!Init PROVE PassInv
<1>1. PassShapes
  <2>1. wants \in [Clients -> Clients \cup {NoFile}]
    BY DEF Pass!Init
  <2> QED
    BY <2>1 DEF Pass!Init, PassShapes
<1>2. ASSUME NEW c \in Clients PROVE ClientInv(c)
  BY DEF Pass!Init, ClientInv
<1>3. ASSUME NEW v \in Servers PROVE ServerInv(v)
  BY DEF Pass!Init, ServerInv, Accepted
<1> QED
  BY <1>1, <1>2, <1>3 DEF PassInv

\* The steps of a client.
LEMMA PassClient ==
  ASSUME PassBounds, PassInv, NEW d \in Clients,
         Pass!Connect(d) \/ Pass!Ask(d) \/ Pass!ReadAnswer(d) \/ Pass!KillClient(d)
  PROVE  PassInv'
<1>0. PassShapes /\ ClientInv(d) /\ dcpc[d] \in {"off", "name", "wait", "done", "failed", "dead"}
  BY DEF PassInv, PassShapes
<1>1. UNCHANGED <<wants, reply, vpc, bound, peer, opened>>
  BY DEF Pass!Connect, Pass!Ask, Pass!ReadAnswer, Pass!KillClient, Pass!clientVars, Pass!serverVars
<1>2. /\ dcpc' \in [Clients -> {"off", "name", "wait", "done", "failed", "dead"}]
      /\ \A c \in Clients \ {d} : dcpc'[c] = dcpc[c]
      /\ dcpc'[d] # "off"
      /\ dcpc[d] # "off" /\ Pass!Gone(d) => dcpc'[d] = dcpc[d]
  BY <1>0 DEF Pass!Connect, Pass!Ask, Pass!ReadAnswer, Pass!KillClient, Pass!Go, PassShapes, Pass!Gone
<1>3. /\ request' \in [Clients -> BOOLEAN]
      /\ \A c \in Clients : request[c] => request'[c]
  <2>1. CASE Pass!Ask(d)
    BY <1>0, <2>1 DEF Pass!Ask, PassShapes
  <2>2. CASE Pass!Connect(d) \/ Pass!ReadAnswer(d) \/ Pass!KillClient(d)
    BY <1>0, <2>2 DEF Pass!Connect, Pass!ReadAnswer, Pass!KillClient, PassShapes
  <2> QED
    BY <2>1, <2>2
<1>4. /\ link' \in [Clients -> Servers \cup {NoFile}]
      /\ \A c \in Clients : link[c] # NoFile => link'[c] = link[c]
      /\ backlog' \in [Servers -> Seq(Clients)]
      /\ \A v \in Servers : \A k \in DOMAIN backlog'[v] :
            link'[backlog'[v][k]] = v \/ (k \in DOMAIN backlog[v] /\ backlog'[v][k] = backlog[v][k])
  <2>1. CASE UNCHANGED <<link, backlog>>
    BY <1>0, <2>1 DEF PassShapes
  <2>2. CASE ~ UNCHANGED <<link, backlog>>
    <3>1. /\ Pass!Connect(d) /\ Pass!Listens(bound)
          /\ link' = [link EXCEPT ![d] = bound]
          /\ backlog' = [backlog EXCEPT ![bound] = Append(@, d)]
      BY <2>2 DEF Pass!Connect, Pass!Ask, Pass!ReadAnswer, Pass!KillClient, Pass!clientVars, Pass!serverVars
    <3>2. bound \in Servers /\ link[d] = NoFile
      BY <1>0, <3>1 DEF Pass!Listens, PassShapes, ClientInv, Pass!Connect
    <3>3. link' \in [Clients -> Servers \cup {NoFile}] /\ link'[d] = bound
          /\ \A c \in Clients \ {d} : link'[c] = link[c]
      BY <1>0, <3>1, <3>2 DEF PassShapes
    <3>4. backlog[bound] \in Seq(Clients)
      BY <1>0, <3>2 DEF PassShapes
    <3> DEFINE q == Append(backlog[bound], d)
    <3>5. /\ q \in Seq(Clients) /\ q[Len(q)] = d
          /\ \A k \in DOMAIN q : k = Len(q) \/ (k \in DOMAIN backlog[bound] /\ q[k] = backlog[bound][k])
      BY <3>4, AppendProperties
    <3>6. backlog' = [backlog EXCEPT ![bound] = q]
      BY <3>1
    <3> HIDE DEF q
    <3>7. backlog' \in [Servers -> Seq(Clients)] /\ backlog'[bound] = q
          /\ \A v \in Servers \ {bound} : backlog'[v] = backlog[v]
      BY <1>0, <3>2, <3>5, <3>6 DEF PassShapes
    <3>8. \A k \in DOMAIN backlog'[bound] :
            link'[backlog'[bound][k]] = bound
            \/ (k \in DOMAIN backlog[bound] /\ backlog'[bound][k] = backlog[bound][k])
      BY <3>3, <3>5, <3>7
    <3>9. \A c \in Clients : link[c] # NoFile => link'[c] = link[c]
      BY <3>2, <3>3
    <3>10. \A v \in Servers \ {bound} : \A k \in DOMAIN backlog'[v] :
            k \in DOMAIN backlog[v] /\ backlog'[v][k] = backlog[v][k]
      BY <3>7
    <3> QED
      BY <3>3, <3>7, <3>8, <3>9, <3>10
  <2> QED
    BY <2>1, <2>2
<1>5. /\ DOMAIN got' = Clients
      /\ \A c \in Clients \ {d} : got'[c] = got[c]
      /\ dcpc'[d] = "done" => got'[d] = wants[d]
  <2>1. CASE Pass!ReadAnswer(d) /\ reply[d] # <<>>
    <3>1. got' = [got EXCEPT ![d] = Head(reply[d])]
      BY <2>1 DEF Pass!ReadAnswer
    <3>2. Head(reply[d]) = wants[d]
      BY <1>0, <2>1 DEF ClientInv
    <3> QED
      BY <1>0, <3>1, <3>2 DEF PassShapes
  <2>2. CASE ~ (Pass!ReadAnswer(d) /\ reply[d] # <<>>)
    <3>1. UNCHANGED got
      BY <2>2 DEF Pass!Connect, Pass!Ask, Pass!ReadAnswer, Pass!KillClient, Pass!clientVars
    <3>2. dcpc'[d] # "done"
      <4>1. \E l \in {"name", "wait", "failed", "dead"} : dcpc' = [dcpc EXCEPT ![d] = l]
        BY <2>2 DEF Pass!Connect, Pass!Ask, Pass!ReadAnswer, Pass!KillClient, Pass!Go
      <4> QED
        BY <1>0, <4>1 DEF PassShapes
    <3> QED
      BY <1>0, <3>1, <3>2 DEF PassShapes
  <2> QED
    BY <2>1, <2>2
<1>6. PassShapes'
  BY <1>0, <1>1, <1>2, <1>3, <1>4, <1>5 DEF PassShapes
<1>7. ASSUME NEW c \in Clients PROVE ClientInv(c)'
  <2>1. ClientInv(c) /\ (reply[c] # <<>> => request'[c])
    BY <1>3 DEF PassInv, ClientInv
  <2>2. CASE c = d
    BY <1>1, <1>2, <1>5, <2>1, <2>2 DEF ClientInv
  <2>3. CASE c # d
    <3>1. dcpc'[c] = "off" => link'[c] = NoFile
      <4>1. CASE UNCHANGED link
        BY <1>2, <2>1, <2>3, <4>1 DEF ClientInv
      <4>2. CASE ~ UNCHANGED link
        <5>1. link' = [link EXCEPT ![d] = bound]
          BY <4>2 DEF Pass!Connect, Pass!Ask, Pass!ReadAnswer, Pass!KillClient, Pass!clientVars
        <5> QED
          BY <1>0, <1>2, <2>1, <2>3, <5>1 DEF ClientInv, PassShapes
      <4> QED
        BY <4>1, <4>2
    <3> QED
      BY <1>1, <1>2, <1>5, <2>1, <2>3, <3>1 DEF ClientInv
  <2> QED
    BY <2>2, <2>3
<1>8. ASSUME NEW v \in Servers PROVE ServerInv(v)'
  <2>1. ServerInv(v)
    BY DEF PassInv
  <2>2. \A k \in DOMAIN backlog'[v] : link'[backlog'[v][k]] = v
    <3>1. ASSUME NEW k \in DOMAIN backlog[v] PROVE link'[backlog[v][k]] = v
      <4>1. link[backlog[v][k]] = v /\ v # NoFile
        BY <2>1 DEF ServerInv, PassBounds
      <4>2. backlog[v][k] \in Clients
        BY <1>0, ElementOfSeq DEF PassShapes
      <4> QED
        BY <1>4, <4>1, <4>2
    <3> QED
      BY <1>4, <3>1
  <2>3. ASSUME vpc[v] \in Accepted
        PROVE  /\ peer[v] \in Clients /\ link[peer[v]] = v /\ link'[peer[v]] = v
               /\ Pass!Gone(peer[v]) => Pass!Gone(peer[v])'
               /\ request[peer[v]] => request'[peer[v]]
    <3>1. peer[v] \in Clients /\ link[peer[v]] = v /\ v # NoFile
      BY <2>1, <2>3 DEF ServerInv, PassBounds
    <3>2. dcpc[peer[v]] # "off"
      BY <3>1 DEF PassInv, ClientInv
    <3> QED
      BY <1>1, <1>2, <1>3, <1>4, <3>1, <3>2 DEF Pass!Gone
  <2>4. ServerInv(v)!2' /\ ServerInv(v)!3' /\ ServerInv(v)!4'
    BY <1>1, <2>1, <2>3 DEF ServerInv, Accepted
  <2> QED
    BY <2>2, <2>4 DEF ServerInv
<1> QED
  BY <1>6, <1>7, <1>8 DEF PassInv

\* The steps of a server.
LEMMA PassServer ==
  ASSUME PassBounds, PassInv, NEW w \in Servers, Pass!Start(w) \/ Pass!Bind(w) \/ Pass!Serve(w)
  PROVE  PassInv'
<1>0. PassShapes /\ ServerInv(w)
  BY DEF PassInv
<1>1. UNCHANGED <<dcpc, wants, link, got, request>>
  BY DEF Pass!Start, Pass!Bind, Pass!Serve, Pass!Accept, Pass!RecvRequest, Pass!SendFd, Pass!Close, Pass!Unlink, Pass!clientVars
<1>2. /\ vpc' \in [Servers -> Accepted \cup {"off", "bind", "accept", "failed"}]
      /\ \A v \in Servers \ {w} : vpc'[v] = vpc[v]
      /\ bound' \in Servers \cup {NoFile}
  <2>1. \E l \in Accepted \cup {"bind", "accept", "failed"} : vpc' = [vpc EXCEPT ![w] = l]
    BY DEF Pass!Start, Pass!Bind, Pass!Serve, Pass!Accept, Pass!RecvRequest, Pass!SendFd, Pass!Close, Pass!Unlink, Pass!Go, Accepted
  <2>2. bound' \in Servers \cup {NoFile}
    BY <1>0 DEF Pass!Start, Pass!Bind, Pass!Serve, Pass!Accept, Pass!RecvRequest, Pass!SendFd, Pass!Close, Pass!Unlink, PassShapes
  <2> QED
    BY <1>0, <2>1, <2>2 DEF PassShapes
<1>3. CASE Pass!Start(w) \/ Pass!Bind(w)
  <2>1. UNCHANGED <<reply, backlog, peer, opened>> /\ vpc'[w] \notin Accepted
    <3>1. \E l \in {"bind", "accept", "failed"} : vpc' = [vpc EXCEPT ![w] = l]
      BY <1>3 DEF Pass!Start, Pass!Bind, Pass!Go
    <3> QED
      BY <1>0, <1>3, <3>1 DEF Pass!Start, Pass!Bind, PassShapes, Accepted
  <2>2. PassShapes'
    BY <1>0, <1>1, <1>2, <2>1 DEF PassShapes
  <2>3. ASSUME NEW c \in Clients PROVE ClientInv(c)'
    BY <1>1, <2>1 DEF PassInv, ClientInv
  <2>4. ASSUME NEW v \in Servers PROVE ServerInv(v)'
    BY <1>1, <1>2, <2>1 DEF PassInv, ServerInv, Pass!Gone, Accepted
  <2> QED
    BY <2>2, <2>3, <2>4 DEF PassInv
<1>4. CASE Pass!Accept(w)
  <2>1. /\ UNCHANGED <<reply, opened>> /\ backlog[w] # <<>>
        /\ backlog' = [backlog EXCEPT ![w] = Tail(@)]
        /\ peer' = [peer EXCEPT ![w] = Head(backlog[w])]
        /\ vpc' = [vpc EXCEPT ![w] = "recv"]
    BY <1>4 DEF Pass!Accept, Pass!Go
  <2> DEFINE q == Tail(backlog[w])
             h == Head(backlog[w])
  <2>2. backlog[w] \in Seq(Clients)
    BY <1>0 DEF PassShapes
  <2>3. /\ q \in Seq(Clients) /\ h \in Clients /\ h = backlog[w][1] /\ 1 \in DOMAIN backlog[w]
        /\ \A k \in DOMAIN q : k + 1 \in DOMAIN backlog[w] /\ q[k] = backlog[w][k + 1]
    <3>1. Len(backlog[w]) \in Nat /\ Len(backlog[w]) > 0
      BY <2>1, <2>2, EmptySeq
    <3> QED
      BY <2>1, <2>2, <3>1, HeadTailProperties, ElementOfSeq
  <2>4. backlog' = [backlog EXCEPT ![w] = q] /\ peer' = [peer EXCEPT ![w] = h]
    BY <2>1
  <2> HIDE DEF q, h
  <2>5. /\ backlog' \in [Servers -> Seq(Clients)] /\ backlog'[w] = q
        /\ \A v \in Servers \ {w} : backlog'[v] = backlog[v]
    BY <1>0, <2>3, <2>4 DEF PassShapes
  <2>6. /\ peer' \in [Servers -> Clients \cup {NoFile}] /\ peer'[w] = h
        /\ \A v \in Servers \ {w} : peer'[v] = peer[v]
    BY <1>0, <2>3, <2>4 DEF PassShapes
  <2>7. vpc'[w] = "recv"
    BY <1>0, <2>1 DEF PassShapes
  <2>8. PassShapes'
    BY <1>0, <1>1, <1>2, <2>1, <2>5, <2>6 DEF PassShapes
  <2>9. ASSUME NEW c \in Clients PROVE ClientInv(c)'
    BY <1>1, <2>1 DEF PassInv, ClientInv
  <2>10. link[h] = w
    BY <1>0, <2>3 DEF ServerInv
  <2>11. \A k \in DOMAIN q : link[q[k]] = w
    BY <1>0, <2>3 DEF ServerInv
  <2>12. ServerInv(w)'
    BY <1>1, <2>3, <2>5, <2>6, <2>7, <2>10, <2>11 DEF ServerInv
  <2>13. ASSUME NEW v \in Servers \ {w} PROVE ServerInv(v)'
    BY <1>1, <1>2, <2>1, <2>5, <2>6 DEF PassInv, ServerInv, Pass!Gone
  <2> QED
    BY <2>8, <2>9, <2>12, <2>13 DEF PassInv
<1>5. CASE Pass!RecvRequest(w)
  <2>1. /\ UNCHANGED <<reply, backlog, peer>>
        /\ vpc[w] = "recv" /\ vpc' = [vpc EXCEPT ![w] = "send"]
    BY <1>5 DEF Pass!RecvRequest, Pass!Go
  <2>2. DOMAIN opened' = Servers /\ \A v \in Servers \ {w} : opened'[v] = opened[v]
    BY <1>0, <1>5 DEF Pass!RecvRequest, PassShapes
  <2>3. Pass!Gone(peer[w]) \/ (request[peer[w]] /\ opened'[w] = wants[peer[w]])
    BY <1>0, <1>5 DEF Pass!RecvRequest, PassShapes
  <2>4. PassShapes'
    BY <1>0, <1>1, <1>2, <2>1, <2>2 DEF PassShapes
  <2>5. ASSUME NEW c \in Clients PROVE ClientInv(c)'
    BY <1>1, <2>1 DEF PassInv, ClientInv
  <2>6. ServerInv(w)'
    <3>1. vpc'[w] = "send"
      BY <1>0, <2>1 DEF PassShapes
    <3> QED
      BY <1>0, <1>1, <2>1, <2>3, <3>1 DEF ServerInv, Pass!Gone, Accepted
  <2>7. ASSUME NEW v \in Servers \ {w} PROVE ServerInv(v)'
    BY <1>1, <1>2, <2>1, <2>2 DEF PassInv, ServerInv, Pass!Gone
  <2> QED
    BY <2>4, <2>5, <2>6, <2>7 DEF PassInv
<1>6. CASE Pass!SendFd(w)
  <2>0. vpc[w] = "send" /\ peer[w] \in Clients /\ link[peer[w]] = w
    BY <1>0, <1>6 DEF Pass!SendFd, ServerInv, Accepted
  <2>1. UNCHANGED <<backlog, peer, opened>>
    BY <1>6 DEF Pass!SendFd
  <2>2. /\ DOMAIN reply' = Clients
        /\ \A c \in Clients \ {peer[w]} : reply'[c] = reply[c]
        /\ reply'[peer[w]] = reply[peer[w]] \/
              (reply'[peer[w]] = <<wants[peer[w]]>> /\ request[peer[w]])
        /\ vpc'[w] = "dead" \/ (vpc'[w] = "close" /\ reply'[peer[w]] = <<wants[peer[w]]>>)
    <3>1. CASE Pass!Gone(peer[w])
      BY <1>0, <1>6, <3>1 DEF Pass!SendFd, Pass!Go, PassShapes
    <3>2. CASE ~ Pass!Gone(peer[w])
      <4>1. reply' = [reply EXCEPT ![peer[w]] = <<opened[w]>>] /\ vpc' = [vpc EXCEPT ![w] = "close"]
        BY <1>6, <3>2 DEF Pass!SendFd, Pass!Go
      <4>2. request[peer[w]] /\ opened[w] = wants[peer[w]]
        BY <1>0, <2>0, <3>2 DEF ServerInv
      <4> QED
        BY <1>0, <2>0, <4>1, <4>2 DEF PassShapes
    <3> QED
      BY <3>1, <3>2
  <2>3. PassShapes'
    BY <1>0, <1>1, <1>2, <2>1, <2>2 DEF PassShapes
  <2>4. ASSUME NEW c \in Clients PROVE ClientInv(c)'
    BY <1>1, <2>2 DEF PassInv, ClientInv
  <2>5. ServerInv(w)'
    BY <1>0, <1>1, <2>0, <2>1, <2>2 DEF ServerInv, Accepted
  <2>6. ASSUME NEW v \in Servers \ {w} PROVE ServerInv(v)'
    <3>1. vpc[v] \in Accepted => peer[v] \in Clients /\ peer[v] # peer[w]
      BY <2>0 DEF PassInv, ServerInv
    <3> QED
      BY <1>1, <1>2, <2>1, <2>2, <3>1 DEF PassInv, ServerInv, Pass!Gone, Accepted
  <2> QED
    BY <2>3, <2>4, <2>5, <2>6 DEF PassInv
<1>7. CASE Pass!Close(w) \/ Pass!Unlink(w)
  <2>1. UNCHANGED <<reply, backlog, peer, opened>>
    BY <1>7 DEF Pass!Close, Pass!Unlink
  <2>2. vpc[w] \in {"close", "unlink"} /\ vpc'[w] \in {"unlink", "done"}
    BY <1>0, <1>7 DEF Pass!Close, Pass!Unlink, Pass!Go, PassShapes
  <2>3. PassShapes'
    BY <1>0, <1>1, <1>2, <2>1 DEF PassShapes
  <2>4. ASSUME NEW c \in Clients PROVE ClientInv(c)'
    BY <1>1, <2>1 DEF PassInv, ClientInv
  <2>5. ServerInv(w)'
    BY <1>0, <1>1, <2>1, <2>2 DEF ServerInv, Accepted
  <2>6. ASSUME NEW v \in Servers \ {w} PROVE ServerInv(v)'
    BY <1>1, <1>2, <2>1 DEF PassInv, ServerInv, Pass!Gone, Accepted
  <2> QED
    BY <2>3, <2>4, <2>5, <2>6 DEF PassInv
<1> QED
  BY <1>3, <1>4, <1>5, <1>6, <1>7 DEF Pass!Serve

\* Every step of u5 keeps it.
LEMMA PassNext == ASSUME PassBounds, PassInv, Pass!Next PROVE PassInv'
BY PassClient, PassServer DEF Pass!Next

\* What is said of u5 follows.
LEMMA PassHolds == ASSUME PassInv PROVE Pass!TypeOK /\ Pass!OwnFile /\ Pass!AllIsRead
BY DEF PassInv, PassShapes, ClientInv, ServerInv, Accepted, Pass!TypeOK, Pass!OwnFile, Pass!AllIsRead

-----------------------------------------------------------------------------
(* sema1.c and sema2.c                                                     *)

\* What the theorems need to know of the constants.
SemBounds == MaxSets \in Nat

SemPlaces == {"get", "set", "attach", "lock", "critical", "ask", "done", "failed", "dead"}

\* The types; a process has obtained a set before it works on it, and none
\* knows a set that was not created.
SemTypes ==
    /\ sample \in {1, 2}
    /\ lpc \in [Senders -> SemPlaces]
    /\ semid \in [Senders -> 0 .. created]
    /\ created \in 0 .. MaxSets /\ key \in 0 .. created
    /\ val \in [Sem!Sets -> {0, 1}]
    /\ holds \subseteq Senders /\ ready \subseteq 1 .. created
    /\ \A p \in Senders : lpc[p] \in {"set", "lock", "critical", "ask"} => semid[p] # Sem!NoSet

\* The one process that is to set the first value is the one that created the
\* set; until then the value is the one of a new set.
ReadyInv ==
    /\ \A id \in Sem!Sets : (id > created \/ (id = key /\ id \notin ready)) => val[id] = 0
    /\ sample = 2 => ready = 1 .. created
    /\ \A p \in Senders : lpc[p] = "set" =>
         /\ semid[p] \notin ready
         /\ \A q \in Senders : lpc[q] = "set" /\ semid[q] = semid[p] => q = p

\* SEM_UNDO knows the processes whose lock was granted and no others.
HoldInv ==
    /\ \A p \in holds : lpc[p] = "critical"
    /\ \A p \in Senders : lpc[p] = "critical" /\ Sem!Live(p) => p \in holds

\* What the value is when the set is not locked.
FreeValue == IF sample = 1 THEN 1 ELSE 0

InsideLock == {p \in Senders : lpc[p] = "critical" /\ Sem!Live(p)}

\* The set the key leads to has one holder at most, and then the other value.
LockInv ==
    /\ \A p, q \in InsideLock : p = q
    /\ key # Sem!NoSet /\ key \notin ready => InsideLock = {}
    /\ key # Sem!NoSet /\ key \in ready => (val[key] = FreeValue <=> InsideLock = {})

SemInv == SemTypes /\ ReadyInv /\ HoldInv /\ LockInv

-----------------------------------------------------------------------------
(* One step of a process                                                   *)

SemStep(p) == Sem!Create(p) \/ Sem!Exists(p) \/ Sem!Run(p) \/ Sem!Kill(p)

\* A process that has obtained a set that still exists.
LEMMA KnownSet ==
    ASSUME SemBounds, SemTypes, NEW p \in Senders,
           lpc[p] \in {"set", "lock", "critical", "ask"}
    PROVE  semid[p] \in 1 .. created /\ semid[p] \in Sem!Sets
BY DEF SemBounds, SemTypes, Sem!NoSet, Sem!Sets

\* What a process that is inside has added to the semaphore can be taken back.
LEMMA Granted ==
    ASSUME SemBounds, SemInv, NEW p \in Senders, lpc[p] = "critical", Sem!Live(p)
    PROVE  /\ key \in Sem!Sets /\ key \in ready /\ InsideLock = {p}
           /\ val[key] = 1 - FreeValue /\ val[key] - Sem!Step = FreeValue
<1>1. semid[p] = key /\ key \in 1 .. created /\ key \in Sem!Sets
  BY KnownSet DEF SemInv, Sem!Live
<1>2. p \in InsideLock
  BY DEF InsideLock
<1>3. InsideLock = {p}
  BY <1>2 DEF SemInv, LockInv, InsideLock
<1>4. key \in ready /\ val[key] # FreeValue
  BY <1>1, <1>2 DEF SemInv, LockInv, Sem!NoSet
<1>5. val[key] \in {0, 1} /\ sample \in {1, 2}
  BY <1>1 DEF SemInv, SemTypes
<1> QED
  BY <1>1, <1>3, <1>4, <1>5 DEF FreeValue, Sem!Step

\* The types.
LEMMA SemTypeStep ==
    ASSUME SemBounds, SemInv, NEW p \in Senders, SemStep(p)
    PROVE  SemTypes'
<1>1. CASE Sem!Create(p)
  BY <1>1 DEF Sem!Create, Sem!Goto, SemInv, SemTypes, SemBounds, SemPlaces
<1>2. CASE Sem!Exists(p)
  BY <1>2 DEF Sem!Exists, Sem!Goto, SemInv, SemTypes, SemPlaces
<1>3. CASE Sem!Attach(p)
  BY <1>3 DEF Sem!Attach, Sem!Goto, SemInv, SemTypes, SemPlaces
<1>4. CASE Sem!SetVal(p)
  <2>1. semid[p] \in 1 .. created /\ semid[p] \in Sem!Sets
    BY <1>4, KnownSet DEF Sem!SetVal, SemInv
  <2>2. val' \in [Sem!Sets -> {0, 1}]
    BY <1>4, <2>1 DEF Sem!SetVal, SemInv, SemTypes
  <2> QED
    BY <1>4, <2>1, <2>2 DEF Sem!SetVal, Sem!Goto, SemInv, SemTypes, SemPlaces, Sem!NoSet
<1>5. CASE Sem!Lock(p)
  BY <1>5 DEF Sem!Lock, Sem!Goto, Sem!Add, Sem!Free, Sem!Step, SemInv, SemTypes, SemPlaces
<1>6. CASE Sem!Unlock(p)
  <2>1. val' \in [Sem!Sets -> {0, 1}]
    <3>1. CASE Sem!Live(p)
      <4>1. semid[p] = key /\ val[key] - Sem!Step \in {0, 1}
        BY <1>6, <3>1, Granted DEF Sem!Unlock, Sem!Live, FreeValue
      <4>2. val[key] + (- Sem!Step) = val[key] - Sem!Step
        BY <1>6, <3>1, Granted DEF Sem!Unlock, FreeValue, Sem!Step
      <4> QED
        BY <1>6, <4>1, <4>2 DEF Sem!Unlock, Sem!Add, SemInv, SemTypes
    <3> QED
      BY <1>6, <3>1 DEF Sem!Unlock, SemInv, SemTypes
  <2> QED
    BY <1>6, <2>1 DEF Sem!Unlock, Sem!Goto, SemInv, SemTypes, SemPlaces, Sem!NoSet
<1>7. CASE Sem!Leave(p)
  BY <1>7 DEF Sem!Leave, Sem!Goto, SemInv, SemTypes, SemPlaces, Sem!NoSet
<1>8. CASE Sem!Kill(p)
  <2>1. val' \in [Sem!Sets -> {0, 1}]
    <3>1. CASE p \in holds /\ Sem!Live(p)
      <4>1. lpc[p] = "critical"
        BY <3>1 DEF SemInv, HoldInv
      <4>2. semid[p] = key /\ val[key] - Sem!Step \in {0, 1}
        BY <3>1, <4>1, Granted DEF Sem!Live, FreeValue
      <4>3. val[key] + (- Sem!Step) = val[key] - Sem!Step
        BY <3>1, <4>1, Granted DEF FreeValue, Sem!Step
      <4> QED
        BY <1>8, <3>1, <4>2, <4>3 DEF Sem!Kill, Sem!Add, SemInv, SemTypes
    <3> QED
      BY <1>8, <3>1 DEF Sem!Kill, SemInv, SemTypes
  <2> QED
    BY <1>8, <2>1 DEF Sem!Kill, Sem!Goto, SemInv, SemTypes, SemPlaces, Sem!NoSet
<1> QED
  BY <1>1, <1>2, <1>3, <1>4, <1>5, <1>6, <1>7, <1>8 DEF SemStep, Sem!Run

\* First values.
LEMMA SemReadyStep ==
    ASSUME SemBounds, SemInv, NEW p \in Senders, SemStep(p)
    PROVE  ReadyInv'
<1>1. CASE Sem!Create(p)
  <2>1. /\ created' = created + 1 /\ key' = created + 1 /\ created \in Nat
        /\ semid' = [semid EXCEPT ![p] = created + 1]
        /\ semid \in [Senders -> 0 .. created] /\ ready \subseteq 1 .. created
        /\ lpc \in [Senders -> SemPlaces] /\ sample \in {1, 2}
        /\ val' = val
    BY <1>1 DEF Sem!Create, SemInv, SemTypes, SemBounds
  <2>2. \A id \in Sem!Sets : id > created => val[id] = 0
    BY DEF SemInv, ReadyInv
  <2>3. \A id \in Sem!Sets : (id > created' \/ (id = key' /\ id \notin ready')) => val'[id] = 0
    BY <2>1, <2>2 DEF Sem!Sets
  <2>4. sample' = 2 => ready' = 1 .. created'
    <3>1. SUFFICES ASSUME sample = 2
                   PROVE  ready \cup {created + 1} = 1 .. created + 1
      BY <1>1, <2>1 DEF Sem!Create
    <3>2. ready = 1 .. created
      BY <3>1 DEF SemInv, ReadyInv
    <3> QED
      BY <2>1, <3>2
  <2>5. ASSUME NEW r \in Senders, lpc'[r] = "set"
        PROVE  /\ semid'[r] \notin ready'
               /\ \A q \in Senders : lpc'[q] = "set" /\ semid'[q] = semid'[r] => q = r
    <3>1. sample = 1 /\ ready' = ready
      <4>1. sample = 2 => ~ (\E q \in Senders : lpc[q] = "set")
        BY <2>1, KnownSet DEF SemInv, ReadyInv
      <4>2. sample = 2 => lpc' = [lpc EXCEPT ![p] = "lock"]
        BY <1>1 DEF Sem!Create, Sem!Goto
      <4>3. sample = 1
        BY <2>1, <2>5, <4>1, <4>2
      <4> QED
        BY <1>1, <4>3 DEF Sem!Create
    <3>2. \A q \in Senders \ {p} : lpc'[q] = lpc[q] /\ semid'[q] = semid[q] /\ semid[q] \in 0 .. created
      BY <1>1, <2>1 DEF Sem!Create, Sem!Goto
    <3>3. semid'[p] = created + 1 /\ created + 1 \notin ready
      BY <2>1
    <3>4. \A q, s \in Senders \ {p} : lpc[q] = "set" /\ lpc[s] = "set" /\ semid[q] = semid[s] => q = s
      BY DEF SemInv, ReadyInv
    <3>5. \A q \in Senders \ {p} : lpc[q] = "set" => semid[q] \notin ready
      BY DEF SemInv, ReadyInv
    <3>6. \A q \in Senders \ {p} : semid[q] # created + 1
      BY <2>1, <3>2
    <3> QED
      BY <2>5, <3>1, <3>2, <3>3, <3>4, <3>5, <3>6
  <2> QED
    BY <2>3, <2>4, <2>5 DEF ReadyInv
<1>2. CASE Sem!Exists(p)
  BY <1>2 DEF Sem!Exists, Sem!Goto, SemInv, SemTypes, ReadyInv
<1>3. CASE Sem!Attach(p)
  BY <1>3 DEF Sem!Attach, Sem!Goto, SemInv, SemTypes, ReadyInv
<1>4. CASE Sem!SetVal(p)
  BY <1>4 DEF Sem!SetVal, Sem!Goto, SemInv, SemTypes, ReadyInv, Sem!NoSet
<1>5. CASE Sem!Lock(p)
  BY <1>5 DEF Sem!Lock, Sem!Goto, Sem!Add, Sem!Free, SemInv, SemTypes, ReadyInv, Sem!NoSet
<1>6. CASE Sem!Unlock(p)
  BY <1>6 DEF Sem!Unlock, Sem!Goto, Sem!Add, SemInv, SemTypes, ReadyInv, LockInv, InsideLock
<1>7. CASE Sem!Leave(p)
  BY <1>7 DEF Sem!Leave, Sem!Goto, SemInv, ReadyInv, Sem!NoSet, Sem!Sets
<1>8. CASE Sem!Kill(p)
  BY <1>8 DEF Sem!Kill, Sem!Goto, Sem!Add, SemInv, SemTypes, ReadyInv, HoldInv, LockInv, InsideLock
<1> QED
  BY <1>1, <1>2, <1>3, <1>4, <1>5, <1>6, <1>7, <1>8 DEF SemStep, Sem!Run

\* Holders.
LEMMA SemHoldStep ==
    ASSUME SemBounds, SemInv, NEW p \in Senders, SemStep(p)
    PROVE  HoldInv'
<1>1. CASE Sem!Create(p)
  BY <1>1 DEF Sem!Create, Sem!Goto, SemInv, SemTypes, HoldInv, Sem!Live
<1>2. CASE Sem!Exists(p)
  BY <1>2 DEF Sem!Exists, Sem!Goto, SemInv, SemTypes, HoldInv, Sem!Live
<1>3. CASE Sem!Attach(p)
  BY <1>3 DEF Sem!Attach, Sem!Goto, SemInv, SemTypes, HoldInv, Sem!Live
<1>4. CASE Sem!SetVal(p)
  BY <1>4 DEF Sem!SetVal, Sem!Goto, SemInv, HoldInv, Sem!Live
<1>5. CASE Sem!Lock(p)
  BY <1>5 DEF Sem!Lock, Sem!Goto, SemInv, SemTypes, HoldInv, Sem!Live
<1>6. CASE Sem!Unlock(p)
  BY <1>6 DEF Sem!Unlock, Sem!Goto, SemInv, SemTypes, HoldInv, Sem!Live
<1>7. CASE Sem!Leave(p)
  BY <1>7 DEF Sem!Leave, Sem!Goto, SemInv, SemTypes, HoldInv, Sem!Live
<1>8. CASE Sem!Kill(p)
  BY <1>8 DEF Sem!Kill, Sem!Goto, SemInv, SemTypes, HoldInv, Sem!Live
<1> QED
  BY <1>1, <1>2, <1>3, <1>4, <1>5, <1>6, <1>7, <1>8 DEF SemStep, Sem!Run

\* Who is inside does not change by a step of a process that is outside before
\* and after it.
LEMMA SameInside ==
    ASSUME SemInv, NEW p \in Senders, NEW l \in SemPlaces \ {"critical"},
           lpc[p] # "critical" \/ ~ Sem!Live(p), Sem!Goto(p, l), UNCHANGED key,
           \A q \in Senders : semid'[q] = semid[q] \/ (q = p /\ lpc[p] # "critical")
    PROVE  InsideLock' = InsideLock
BY DEF SemInv, SemTypes, InsideLock, Sem!Live, Sem!Goto, SemPlaces

\* A process that leaves the critical section gives back what it took.
LEMMA GivesBack ==
    ASSUME SemBounds, SemInv, NEW p \in Senders, NEW l \in SemPlaces \ {"critical"},
           lpc[p] = "critical", Sem!Live(p), Sem!Goto(p, l), Sem!Add(p, - Sem!Step),
           UNCHANGED <<sample, semid, key, ready>>
    PROVE  LockInv'
<1>1. /\ key \in Sem!Sets /\ key \in ready /\ InsideLock = {p}
      /\ val[key] = 1 - FreeValue /\ val[key] - Sem!Step = FreeValue
  BY Granted
<1>2. InsideLock' = {}
  BY <1>1 DEF SemInv, SemTypes, InsideLock, Sem!Live, Sem!Goto
<1>3. val'[key] = FreeValue
  <2>1. val[key] + (- Sem!Step) = val[key] - Sem!Step
    BY <1>1 DEF FreeValue, Sem!Step
  <2> QED
    BY <1>1, <2>1 DEF Sem!Add, Sem!Live, SemInv, SemTypes
<1> QED
  BY <1>1, <1>2, <1>3 DEF LockInv, FreeValue

\* Locks.
LEMMA SemLockStep ==
    ASSUME SemBounds, SemInv, NEW p \in Senders, SemStep(p)
    PROVE  LockInv'
<1>1. CASE Sem!Create(p)
  BY <1>1 DEF Sem!Create, Sem!Goto, SemInv, SemTypes, ReadyInv, LockInv, InsideLock, FreeValue, SemBounds, Sem!Live, Sem!Sets
<1>2. CASE Sem!Exists(p)
  BY <1>2, SameInside DEF Sem!Exists, SemInv, SemTypes, LockInv, FreeValue, SemPlaces
<1>3. CASE Sem!Attach(p)
  BY <1>3, SameInside DEF Sem!Attach, SemInv, SemTypes, LockInv, FreeValue, SemPlaces
<1>4. CASE Sem!SetVal(p)
  <2>1. InsideLock' = InsideLock
    BY <1>4, SameInside DEF Sem!SetVal, SemPlaces
  <2>2. CASE Sem!Live(p)
    <3>1. sample = 1 /\ key \in Sem!Sets /\ key \notin ready
      BY <1>4, <2>2, KnownSet DEF Sem!SetVal, Sem!Live, SemInv, SemTypes, ReadyInv
    <3>2. InsideLock = {} /\ val'[key] = 1
      BY <1>4, <2>2, <3>1 DEF Sem!SetVal, Sem!Live, SemInv, SemTypes, LockInv, Sem!NoSet, Sem!Sets
    <3> QED
      BY <1>4, <2>1, <2>2, <3>1, <3>2 DEF Sem!SetVal, Sem!Live, LockInv, FreeValue
  <2>3. CASE ~ Sem!Live(p)
    BY <1>4, <2>1, <2>3 DEF Sem!SetVal, Sem!Live, SemInv, LockInv, FreeValue
  <2> QED
    BY <2>2, <2>3
<1>5. CASE Sem!Lock(p)
  <2>1. CASE Sem!Live(p) /\ Sem!Free(p) /\ Sem!Add(p, Sem!Step)
    <3>1. semid[p] = key /\ key \in Sem!Sets /\ val[key] \in {0, 1} /\ sample \in {1, 2}
      BY <1>5, <2>1, KnownSet DEF Sem!Lock, Sem!Live, SemInv, SemTypes
    <3>2. val[key] = FreeValue /\ val'[key] = 1 - FreeValue
      BY <2>1, <3>1 DEF Sem!Free, Sem!Add, Sem!Step, FreeValue, SemInv, SemTypes
    <3>3. key \in ready
      BY <3>1, <3>2, KnownSet, <1>5 DEF Sem!Lock, FreeValue, SemInv, SemTypes, ReadyInv
    <3>4. InsideLock = {}
      BY <3>1, <3>2, <3>3 DEF SemInv, LockInv, Sem!NoSet, Sem!Sets
    <3>5. InsideLock' = {p}
      BY <1>5, <2>1, <3>4 DEF Sem!Lock, Sem!Goto, InsideLock, Sem!Live, SemInv, SemTypes
    <3> QED
      BY <1>5, <3>2, <3>3, <3>5 DEF Sem!Lock, LockInv, FreeValue
  <2>2. CASE ~ Sem!Live(p) /\ UNCHANGED <<val, holds>>
    <3>1. InsideLock' = InsideLock
      BY <1>5, <2>2 DEF Sem!Lock, Sem!Goto, InsideLock, Sem!Live, SemInv, SemTypes
    <3> QED
      BY <1>5, <2>2, <3>1 DEF Sem!Lock, SemInv, LockInv, FreeValue
  <2> QED
    BY <1>5, <2>1, <2>2 DEF Sem!Lock
<1>6. CASE Sem!Unlock(p)
  <2>1. CASE Sem!Live(p)
    <3>1. Sem!Add(p, - Sem!Step)
      BY <1>6, <2>1, Granted DEF Sem!Unlock, Sem!Live, Sem!Step, FreeValue
    <3> QED
      BY <1>6, <2>1, <3>1, GivesBack DEF Sem!Unlock, SemPlaces
  <2>2. CASE ~ Sem!Live(p)
    BY <1>6, <2>2, SameInside DEF Sem!Unlock, SemInv, LockInv, FreeValue, SemPlaces
  <2> QED
    BY <2>1, <2>2
<1>7. CASE Sem!Leave(p)
  <2>1. CASE key' = key
    BY <1>7, <2>1, SameInside DEF Sem!Leave, SemInv, LockInv, FreeValue, SemPlaces
  <2>2. CASE key' = Sem!NoSet
    <3>1. InsideLock' = {}
      BY <1>7, <2>2 DEF Sem!Leave, Sem!Goto, InsideLock, Sem!Live, SemInv, SemTypes
    <3> QED
      BY <2>2, <3>1 DEF LockInv
  <2> QED
    BY <1>7, <2>1, <2>2 DEF Sem!Leave
<1>8. CASE Sem!Kill(p)
  <2>1. CASE p \in holds /\ Sem!Live(p)
    <3>1. lpc[p] = "critical"
      BY <2>1 DEF SemInv, HoldInv
    <3> QED
      BY <1>8, <2>1, <3>1, GivesBack DEF Sem!Kill, SemPlaces
  <2>2. CASE ~ (p \in holds /\ Sem!Live(p))
    <3>1. lpc[p] # "critical" \/ ~ Sem!Live(p)
      BY <2>2 DEF SemInv, HoldInv
    <3> QED
      BY <1>8, <2>2, <3>1, SameInside DEF Sem!Kill, SemInv, LockInv, FreeValue, SemPlaces
  <2> QED
    BY <2>1, <2>2
<1> QED
  BY <1>1, <1>2, <1>3, <1>4, <1>5, <1>6, <1>7, <1>8 DEF SemStep, Sem!Run

-----------------------------------------------------------------------------
(* The invariant                                                           *)

\* The invariant holds before anybody has started.
LEMMA SemInit ==
    ASSUME SemBounds, Sem!Init
    PROVE  SemInv
<1>1. SemTypes
  BY DEF Sem!Init, SemTypes, SemBounds, SemPlaces, Sem!NoSet
<1>2. ReadyInv /\ HoldInv /\ LockInv
  BY DEF Sem!Init, ReadyInv, HoldInv, LockInv, InsideLock, Sem!NoSet, Sem!Sets
<1> QED
  BY <1>1, <1>2 DEF SemInv

\* Every step keeps the inductive invariant.
LEMMA SemNext ==
    ASSUME SemBounds, SemInv, (Sem!Next \/ UNCHANGED Sem!vars)
    PROVE  SemInv'
<1>1. CASE Sem!Next
  <2>1. PICK p \in Senders : SemStep(p)
    BY <1>1 DEF Sem!Next, SemStep
  <2> QED
    BY <2>1, SemTypeStep, SemReadyStep, SemHoldStep, SemLockStep DEF SemInv
<1>2. CASE UNCHANGED Sem!vars
  BY <1>2 DEF Sem!vars, SemInv, SemTypes, ReadyInv, HoldInv, LockInv, InsideLock, FreeValue, Sem!Live
<1> QED
  BY <1>1, <1>2

\* The library of the instance counts as this module does.
LEMMA SemCardinality == \A S : Sem!Cardinality(S) = Cardinality(S)
  BY DEF Sem!Cardinality, Cardinality

\* What the theorems say of sema1.c and sema2.c follows.
LEMMA SemHolds ==
  ASSUME SemBounds, SemInv
  PROVE  Sem!TypeOK /\ Sem!Exclusion
<1>1. Sem!TypeOK
  BY DEF SemInv, SemTypes, Sem!TypeOK, SemBounds, Sem!NoSet, Sem!Sets
<1>2. CASE InsideLock = {}
  <2>1. Cardinality(InsideLock) = 0
    BY <1>2, FS_EmptySet
  <2>2. key # Sem!NoSet /\ key \in ready => val[key] = FreeValue
    BY <1>2 DEF SemInv, LockInv
  <2>3. key \in ready => key # Sem!NoSet
    BY DEF SemInv, SemTypes, Sem!NoSet
  <2> QED
    BY <1>1, <2>1, <2>2, <2>3, SemCardinality DEF Sem!Exclusion, InsideLock, FreeValue
<1>3. CASE InsideLock # {}
  <2>1. PICK p \in Senders : lpc[p] = "critical" /\ Sem!Live(p)
    BY <1>3 DEF InsideLock
  <2>2. InsideLock = {p} /\ val[key] = 1 - FreeValue
    BY <2>1, Granted
  <2>3. Cardinality(InsideLock) = 1
    BY <2>2, FS_Singleton
  <2> QED
    BY <1>1, <2>2, <2>3, SemCardinality DEF Sem!Exclusion, InsideLock, FreeValue
<1> QED
  BY <1>2, <1>3
=============================================================================
