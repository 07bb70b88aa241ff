-------------------------- MODULE PreprocessorProofs --------------------------
(***************************************************************************)
(* Proofs about Preprocessor, for any images, settings and bounds: the     *)
(* lists of the window stay in step, the processing is where it should be  *)
(* in them, leaving the program takes its temporary files away, and a run  *)
(* leaves a result of every image.                                         *)
(***************************************************************************)
EXTENDS Preprocessor, SequenceTheorems, FiniteSetTheorems, FunctionTheorems,
        WellFoundedInduction, TLAPS

OutDirs == Dirs \cup {Root}
RowSet == [of : Inputs, image : Images \cup {None}]

\* The lists are lists of images, the files are paths.
TypeInv ==
    /\ fileList \in Seq(Inputs) /\ rows \in Seq(Inputs) /\ anaRows \in Seq(RowSet)
    /\ DOMAIN dict \subseteq Inputs
    /\ template \in -1 .. NTemplates - 1
    /\ outputDir \in OutDirs /\ dirText \in OutDirs
    /\ saved # None => /\ saved.files \in Seq(Inputs) /\ saved.dir \in OutDirs
                       /\ saved.template \in -1 .. NTemplates - 1
    /\ loopList # None => loopList \in Seq(Inputs)
    /\ processList \in Seq(Paths)
    /\ removeList \subseteq Paths /\ DOMAIN disk \subseteq Paths /\ masks \subseteq Paths

\* Where the registration and the second loop may stand.
RegPcs == {"align", "aligned", "register", "result", "view", "resample"}
LoopPcs == {"step", "filter", "mask", "timestep", "create", "round", "copy", "average", "finish"}
           \cup RegPcs

\* Where the processing stands.
RunInv ==
    /\ pc \in {"idle", "convert", "converting", "check", "repetition", "slices", "stopped"}
             \cup LoopPcs
    /\ Busy => ~ startEnabled /\ file \in Paths
    /\ pc \in {"convert", "converting"} => file \in Inputs
    /\ Converting => i \in Nat \ {0}
    /\ pc \in LoopPcs => i \in DOMAIN processList /\ orig = processList[i]
    /\ target # None \/ pc \in {"filter"} \cup RegPcs => target \in Paths
    /\ pc \in {"timestep", "create", "round"} => mask.to \in Paths
    /\ pc = "timestep" => mask.from = "tmpTimeStep.v"
    /\ pc = "round" => threshold \in FirstThreshold .. LastThreshold - 1

\* A scratch file is noted, but for the two nobody notes, the average while its
\* mask is made, and those of a registration that is under way or has raised;
\* the start button stays off after that.
Noting == IF pc \in {"create", "round"} /\ mask.from = "tmpAverage.v" THEN {"tmpAverage.v"}
          ELSE IF pc \in RegPcs \/ (pc = "idle" /\ ~ startEnabled) THEN RegFiles ELSE {}
Result(p) == p.steps # <<>> /\ Head(p.steps) = "preproc"
TidyInv ==
    /\ work \subseteq removeEver \cup {"tmpTimeStep.v", "check"} \cup Noting
    /\ pc = "round" => Scratch \subseteq removeEver
    /\ \A p \in DOMAIN disk \ Inputs : p \in removeList \/ Result(p)
    /\ closed \in {"idle", "stuck"} => pc = "idle" /\ (startEnabled <=> closed = "idle")
    /\ NothingLeft

\* As long as nobody has listed an image twice, no list holds one twice.
Once(s) == \A j, k \in DOMAIN s : s[j] = s[k] => j = k
ListInv ==
    /\ RowsAgree
    /\ ~ twice => /\ Once(fileList) /\ Once(rows)
                  /\ saved # None => Once(saved.files)

IndInv == TypeInv /\ RunInv /\ TidyInv /\ ListInv

-----------------------------------------------------------------------------
(* Sequences                                                               *)

\* A family indexed from 1 is a sequence.
LEMMA FamilyLemma ==
    ASSUME NEW S, NEW l \in Nat, NEW f \in [1 .. l -> S]
    PROVE  f \in Seq(S) /\ Len(f) = l
<1>1. f \in Seq(S)
  BY SeqDef
<1>2. 1 .. Len(f) = 1 .. l /\ Len(f) \in Nat
  BY <1>1, LenProperties
<1> QED
  BY <1>1, <1>2

\* A list without one of its entries.
LEMMA WithoutLemma ==
    ASSUME NEW S, NEW s \in Seq(S), NEW r \in 1 .. Len(s)
    PROVE  /\ Without(s, r) \in Seq(S)
           /\ Len(Without(s, r)) = Len(s) - 1
           /\ \A j \in 1 .. Len(s) - 1 :
                Without(s, r)[j] = IF j < r THEN s[j] ELSE s[j + 1]
<1>1. Len(s) \in Nat /\ Len(s) - 1 \in Nat /\ r \in Nat
  BY LenProperties
<1>2. \A j \in 1 .. Len(s) - 1 : (IF j < r THEN s[j] ELSE s[j + 1]) \in S
  BY <1>1, ElementOfSeq
<1>3. Without(s, r) \in [1 .. Len(s) - 1 -> S]
  BY <1>2 DEF Without
<1> QED
  BY <1>1, <1>3, FamilyLemma DEF Without

\* A set of numbers that is not empty has a least element.
LEMMA Least ==
    ASSUME NEW T, T \subseteq Nat, T # {}
    PROVE  \E x \in T : \A y \in T : x <= y
<1> DEFINE Less == {ss \in Nat \X Nat : ss[1] < ss[2]}
<1>1. IsWellFoundedOn(Less, Nat)
  BY NatLessThanWellFounded DEF OpToRel
<1>2. PICK x \in T : \A y \in T : ~ (<<y, x>> \in Less)
  BY <1>1, WFMin, Zenon
<1>3. ASSUME NEW y \in T PROVE x <= y
  <2>1. x \in Nat /\ y \in Nat /\ ~ (<<y, x>> \in Less)
    BY <1>2
  <2>2. <<y, x>> \in Less <=> y < x
    BY <2>1
  <2> QED
    BY <2>1, <2>2
<1> QED
  BY <1>3

\* The first place where a list has an element.
First(s, f) == CHOOSE j \in DOMAIN s : s[j] = f /\ \A k \in 1 .. j - 1 : s[k] # f

\* It is one of the places, and holds that element.
LEMMA FirstPlace ==
    ASSUME NEW S, NEW s \in Seq(S), NEW f, NEW j0 \in DOMAIN s, s[j0] = f
    PROVE  First(s, f) \in 1 .. Len(s) /\ s[First(s, f)] = f
<1>1. DOMAIN s = 1 .. Len(s) /\ Len(s) \in Nat
  BY LenProperties
<1> DEFINE T == {j \in DOMAIN s : s[j] = f}
<1>2. T \subseteq Nat /\ T # {}
  BY <1>1
<1>3. PICK x \in T : \A y \in T : x <= y
  BY <1>2, Least
<1>4. x \in DOMAIN s /\ s[x] = f /\ \A k \in 1 .. x - 1 : s[k] # f
  BY <1>1, <1>3
<1>5. First(s, f) \in DOMAIN s /\ s[First(s, f)] = f
  BY <1>4 DEF First
<1> QED
  BY <1>1, <1>5

-----------------------------------------------------------------------------
(* How often an image is in a list                                         *)

Places(s, f) == {j \in DOMAIN s : s[j] = f}

\* Counting is counting places, of which there are finitely many.
LEMMA CountType ==
    ASSUME NEW S, NEW s \in Seq(S), NEW f
    PROVE  /\ IsFiniteSet(Places(s, f)) /\ Count(s, f) = Cardinality(Places(s, f))
           /\ Count(s, f) \in Nat
           /\ Count(s, f) = 0 <=> Places(s, f) = {}
<1>1. Places(s, f) \in SUBSET (1 .. Len(s)) /\ Len(s) \in Nat
  BY LenProperties DEF Places
<1>2. IsFiniteSet(Places(s, f))
  <2>1. IsFiniteSet(1 .. Len(s))
    BY <1>1, FS_Interval
  <2> QED
    BY <1>1, <2>1, FS_Subset
<1>3. Count(s, f) = Cardinality(Places(s, f))
  BY DEF Count, Places
<1> QED
  BY <1>2, <1>3, FS_CardinalityType, FS_EmptySet

\* Appending an image counts one more of it.
LEMMA CountAppend ==
    ASSUME NEW S, NEW s \in Seq(S), NEW e \in S, NEW f
    PROVE  Count(Append(s, e), f) = Count(s, f) + (IF e = f THEN 1 ELSE 0)
<1> DEFINE t == Append(s, e)
<1>1. /\ t \in Seq(S) /\ Len(t) = Len(s) + 1 /\ Len(s) \in Nat
      /\ \A j \in 1 .. Len(s) : t[j] = s[j]
      /\ t[Len(s) + 1] = e
  BY AppendProperties, LenProperties
<1>2. DOMAIN t = 1 .. Len(s) + 1 /\ DOMAIN s = 1 .. Len(s)
  BY <1>1, LenProperties
<1>3. /\ IsFiniteSet(Places(s, f)) /\ Count(s, f) = Cardinality(Places(s, f))
      /\ Count(s, f) \in Nat /\ Count(t, f) = Cardinality(Places(t, f))
  BY <1>1, CountType
<1> HIDE DEF t
<1>4. CASE e = f
  <2>1. Places(t, f) = Places(s, f) \cup {Len(s) + 1} /\ Len(s) + 1 \notin Places(s, f)
    BY <1>1, <1>2, <1>4 DEF Places
  <2>2. Cardinality(Places(t, f)) = Cardinality(Places(s, f)) + 1
    BY <1>3, <2>1, FS_AddElement
  <2> QED
    BY <1>3, <1>4, <2>2 DEF t
<1>5. CASE e # f
  <2>1. Places(t, f) = Places(s, f)
    BY <1>1, <1>2, <1>5 DEF Places
  <2> QED
    BY <1>3, <1>5, <2>1 DEF t
<1> QED
  BY <1>4, <1>5

\* Taking an entry out counts one less of its image.
LEMMA CountWithout ==
    ASSUME NEW S, NEW s \in Seq(S), NEW r \in 1 .. Len(s), NEW f
    PROVE  Count(Without(s, r), f) = Count(s, f) - (IF s[r] = f THEN 1 ELSE 0)
<1> DEFINE t == Without(s, r)
           B == Places(s, f) \ {r}
           shift == [j \in Places(t, f) |-> IF j < r THEN j ELSE j + 1]
<1>1. /\ t \in Seq(S) /\ Len(t) = Len(s) - 1
      /\ \A j \in 1 .. Len(s) - 1 : t[j] = IF j < r THEN s[j] ELSE s[j + 1]
  BY WithoutLemma, Zenon
<1>0. Len(s) \in Nat /\ r \in Nat
  BY LenProperties
<1>2. DOMAIN t = 1 .. Len(s) - 1 /\ DOMAIN s = 1 .. Len(s)
  BY <1>0, <1>1, LenProperties
<1>3. /\ IsFiniteSet(Places(s, f)) /\ Count(s, f) = Cardinality(Places(s, f))
      /\ Count(s, f) \in Nat
      /\ IsFiniteSet(Places(t, f)) /\ Count(t, f) = Cardinality(Places(t, f))
  BY <1>1, CountType
<1> HIDE DEF t
<1>4. shift \in [Places(t, f) -> B]
  BY <1>0, <1>1, <1>2 DEF Places
<1>5. \A a, b \in Places(t, f) : shift[a] = shift[b] => a = b
  BY <1>0, <1>1, <1>2 DEF Places
<1>6. ASSUME NEW k \in B PROVE \E j \in Places(t, f) : shift[j] = k
  <2>1. k \in 1 .. Len(s) /\ s[k] = f /\ k # r
    BY <1>2 DEF Places
  <2>2. CASE k < r
    <3>1. k \in 1 .. Len(s) - 1 /\ t[k] = f
      BY <1>0, <1>1, <2>1, <2>2
    <3>2. k \in Places(t, f)
      BY <1>2, <3>1 DEF Places
    <3> QED
      BY <2>2, <3>2
  <2>3. CASE ~ (k < r)
    <3>1. k - 1 \in 1 .. Len(s) - 1 /\ ~ (k - 1 < r) /\ (k - 1) + 1 = k
      BY <1>0, <1>1, <2>1, <2>3
    <3>2. k - 1 \in Places(t, f)
      BY <1>0, <1>1, <1>2, <2>1, <3>1 DEF Places
    <3> QED
      BY <3>1, <3>2
  <2> QED
    BY <2>2, <2>3
<1>7. ExistsBijection(Places(t, f), B)
  BY <1>4, <1>5, <1>6, Fun_IsBij DEF ExistsBijection
<1>8. Cardinality(B) = Cardinality(Places(t, f))
  BY <1>3, <1>7, FS_Bijection
<1>9. Cardinality(B) = IF r \in Places(s, f) THEN Cardinality(Places(s, f)) - 1
                                              ELSE Cardinality(Places(s, f))
  BY <1>3, FS_RemoveElement
<1>10. r \in Places(s, f) <=> s[r] = f
  BY <1>2 DEF Places
<1> QED
  BY <1>3, <1>8, <1>9, <1>10 DEF t

-----------------------------------------------------------------------------
(* Paths                                                                   *)

Steps == {"preproc", "mask"} \cup ToSet(Pipeline)
Bases == {f.base : f \in Inputs} \cup {Stem[f.base] : f \in Inputs} \cup {"average"}

\* The prefixes are the steps and the two of a mask and of a result.
LEMMA StepNames ==
    {"preproc", "mask", "slicetime", "movcorr", "reg", "sfilter", "tfilter"} \subseteq Steps
<1>1. Pipeline = <<"slicetime", "movcorr", "reg", "sfilter", "tfilter">>
  BY DEF Pipeline
<1>2. /\ DOMAIN Pipeline = 1 .. 5
      /\ Pipeline[1] = "slicetime" /\ Pipeline[2] = "movcorr" /\ Pipeline[3] = "reg"
      /\ Pipeline[4] = "sfilter" /\ Pipeline[5] = "tfilter"
  BY <1>1
<1> QED
  BY <1>2 DEF Steps, ToSet

\* An image the dialogues offer is a path without steps.
LEMMA InputPath ==
    ASSUME NEW f \in Inputs
    PROVE  f \in Paths /\ f.base \in Bases /\ Stem[f.base] \in Bases
<1>1. f \in [dir : {f.dir}, steps : {<<>>}, base : {f.base}, vista : BOOLEAN]
  BY PreprocessorConstants
<1>2. <<>> \in Seq(Steps)
  BY EmptySeq
<1> QED
  BY <1>1, <1>2 DEF Paths, Steps, Bases

\* A file of the output directory is a path.
LEMMA PathLemma ==
    ASSUME NEW d \in OutDirs, NEW s \in Seq(Steps), NEW b \in Bases
    PROVE  Path(d, s, b) \in Paths
BY DEF Path, Paths, OutDirs, Steps, Bases

\* What a path is made of, and one more step before its name.
LEMMA PathParts ==
    ASSUME NEW x \in Paths, NEW e \in Steps, NEW d \in OutDirs
    PROVE  /\ x.base \in Bases /\ x.steps \in Seq(Steps)
           /\ <<e>> \o x.steps \in Seq(Steps)
           /\ Path(d, <<e>> \o x.steps, x.base) \in Paths
<1>1. x.base \in Bases /\ x.steps \in Seq(Steps)
  BY DEF Paths, Steps, Bases
<1>2. <<e>> \in Seq(Steps)
  OBVIOUS
<1>3. <<e>> \o x.steps \in Seq(Steps)
  BY <1>1, <1>2, ConcatProperties
<1> QED
  BY <1>1, <1>3, PathLemma

\* A result is told by its prefix.
LEMMA ResultLemma ==
    ASSUME NEW x \in Paths, NEW d \in OutDirs
    PROVE  Result(Path(d, <<"preproc">> \o x.steps, x.base))
<1> DEFINE s == <<"preproc">> \o x.steps
<1>1. x.steps \in Seq(Steps) /\ <<"preproc">> \in Seq(Steps)
  BY StepNames DEF Paths, Steps
<1>2. /\ s \in Seq(Steps) /\ Len(s) = 1 + Len(x.steps) /\ Len(x.steps) \in Nat
      /\ s[1] = "preproc"
  <2>1. Len(<<"preproc">>) = 1 /\ <<"preproc">>[1] = "preproc" /\ Len(x.steps) \in Nat
    BY <1>1, LenProperties
  <2> QED
    BY <1>1, <2>1, ConcatProperties
<1>3. s # <<>> /\ Head(s) = "preproc"
  BY <1>2
<1> QED
  BY <1>3 DEF Result, Path

\* A command leaves no new file but the one it writes.
LEMMA CommandLemma ==
    ASSUME NEW from, NEW to, NEW image
    PROVE  DOMAIN Command(from, to, image) \subseteq DOMAIN disk \cup {to}
BY DEF Command, With

-----------------------------------------------------------------------------
(* What a step leaves alone                                                *)

\* The user disturbs nothing of the run but what it reads.
LEMMA UserFrame ==
    User => UNCHANGED <<loop, temps, maskVar, masks, startEnabled>> /\ closed = "no"
BY DEF User, AddFile, RemoveFromList, RemoveAnatomical, AddAnatomical, OpenOutputDir,
   TypeDirectory, ChooseTemplate, Click, SaveSettings, LoadSettings, Exit, Edit, Handler,
   InHand, loop, temps, maskVar, files

\* Only leaving the program touches the disk.
LEMMA EditFrame ==
    User => Exit \/ UNCHANGED <<disk, work, closed>>
BY DEF User, AddFile, RemoveFromList, RemoveAnatomical, AddAnatomical, OpenOutputDir,
   TypeDirectory, ChooseTemplate, Click, SaveSettings, LoadSettings, InHand, files

\* The run changes nothing of the window but the start button.
LEMMA RunFrame ==
    Start \/ Processing => UNCHANGED <<lists, form, saved, closed, twice>>
BY DEF Start, Processing, Convert, Converted, CheckAll, CheckHeader, Correction, FilterPath,
   Filtering, Registration, Registering, Stage, Resample, MaskPath, TimeStep, MaskAverage,
   CreateMask, MaskRound, Copy, Finish, StepVars, MaskVars, FirstVars, RunVars

\* The processing is under way when it does something.
LEMMA BusyStep == Processing => Busy
BY DEF Processing, Convert, Converted, CheckAll, CheckHeader, Correction, FilterPath,
   Filtering, Registration, Registering, Stage, Resample, MaskPath, TimeStep, MaskAverage,
   CreateMask, MaskRound, Copy, Finish, Busy

\* The window closes for good between two runs.
LEMMA ClosedIsOver ==
    IndInv /\ (Start \/ Processing) => closed \notin {"idle", "stuck"}
<1>1. Processing => Busy
  BY BusyStep
<1>2. Start => closed = "no"
  BY DEF Start, Handler
<1> QED
  BY <1>1, <1>2 DEF IndInv, TidyInv, Busy

-----------------------------------------------------------------------------
(* The run: types, and where it stands                                     *)

\* What the run has in hand.
RunTypes ==
    /\ loopList # None => loopList \in Seq(Inputs)
    /\ processList \in Seq(Paths)
    /\ removeList \subseteq Paths /\ DOMAIN disk \subseteq Paths /\ masks \subseteq Paths

\* Switching the run on.
LEMMA StartRun ==
    ASSUME IndInv, Start PROVE RunTypes' /\ RunInv'
<1>1. fileList[1] \in Inputs /\ fileList[1] \in Paths
  BY EmptySeq, ElementOfSeq, LenProperties, InputPath DEF IndInv, TypeInv, Start
<1>2. RunTypes'
  BY DEF IndInv, TypeInv, RunTypes, Start, LoopOver, temps, files
<1>3. pc' \in {"idle", "convert"} /\ target' = target /\ ~ startEnabled'
      /\ (pc' = "convert" => file' = fileList[1] /\ i' = 1)
  BY DEF Start, Raise, StartButton
<1>4. RunInv'
  BY <1>1, <1>3 DEF IndInv, RunInv, LoopPcs, RegPcs, Busy, Converting
<1> QED
  BY <1>2, <1>4

\* convertFiles, the test.
LEMMA TestRun ==
    ASSUME IndInv, Convert PROVE RunTypes' /\ RunInv'
<1>1. file \in Inputs /\ file \in Paths /\ i \in Nat \ {0} /\ ~ startEnabled
  BY InputPath DEF IndInv, RunInv, Convert, Busy, Converting
<1>2. UNCHANGED <<file, i, startEnabled, target, loopList, processList, removeList, disk, masks>>
      /\ pc' \in {"check", "converting"}
  BY DEF Convert, FirstVars, InPlace
<1>3. RunTypes'
  BY <1>2 DEF IndInv, TypeInv, RunTypes
<1>4. RunInv'
  BY <1>1, <1>2 DEF IndInv, RunInv, LoopPcs, RegPcs, Busy, Converting
<1> QED
  BY <1>3, <1>4

\* convertFiles, the conversion.
LEMMA ConvertRun ==
    ASSUME IndInv, Converted PROVE RunTypes' /\ RunInv'
<1> DEFINE out == Path(outputDir, <<>>, Stem[file.base])
<1>1. file \in Inputs /\ file \in Paths /\ i \in Nat \ {0} /\ ~ startEnabled
  BY InputPath DEF IndInv, RunInv, Converted, Busy, Converting
<1>2. out \in Paths
  BY <1>1, InputPath, PathLemma, EmptySeq DEF IndInv, TypeInv
<1>3. DOMAIN Command(file, out, None) \subseteq DOMAIN disk \cup {out}
  BY CommandLemma
<1>4. UNCHANGED <<i, startEnabled, target, loopList, processList, masks>> /\ pc' = "check"
      /\ file' = out /\ disk' = Command(file, out, None) /\ removeList' = removeList \cup {out}
  BY DEF Converted, FirstVars, Noted
<1> HIDE DEF out
<1>5. RunTypes'
  BY <1>2, <1>3, <1>4 DEF IndInv, TypeInv, RunTypes
<1>6. RunInv'
  BY <1>1, <1>2, <1>4 DEF IndInv, RunInv, LoopPcs, RegPcs, Busy, Converting
<1> QED
  BY <1>5, <1>6

\* Where the checks of an image lead to.
LEMMA CheckCases ==
    ASSUME CheckAll \/ CheckHeader
    PROVE  /\ UNCHANGED <<FirstVars, removeList, disk>>
           /\ pc \in {"check", "repetition", "slices"}
           /\ \/ Passed
              \/ pc' \in {"repetition", "slices", "stopped"} /\ UNCHANGED <<InPlace, processList>>
BY DEF CheckAll, CheckHeader, CheckSlices

\* checkAll, and the next image of the first loop or the first of the second.
LEMMA CheckRun ==
    ASSUME IndInv, CheckAll \/ CheckHeader PROVE RunTypes' /\ RunInv'
<1>1. UNCHANGED <<loopList, removeList, disk, masks, startEnabled, target>>
      /\ pc \in {"check", "repetition", "slices"}
  BY CheckCases DEF FirstVars
<1>2. file \in Paths /\ i \in Nat \ {0} /\ ~ startEnabled
  BY <1>1 DEF IndInv, RunInv, Busy, Converting
<1>3. LoopSeq \in Seq(Inputs)
  BY DEF IndInv, TypeInv, LoopSeq
<1>4. CASE Passed
  <2>1. processList' \in Seq(Paths) /\ processList' # <<>>
    BY <1>2, <1>4, AppendProperties DEF IndInv, TypeInv, Passed
  <2>2. 1 \in DOMAIN processList' /\ processList'[1] \in Paths
    BY <2>1, EmptySeq, LenProperties, ElementOfSeq
  <2>3. RunTypes'
    BY <1>1, <2>1 DEF IndInv, TypeInv, RunTypes
  <2>4. CASE i < Len(LoopSeq)
    <3>1. i + 1 \in 1 .. Len(LoopSeq) /\ i + 1 \in Nat \ {0}
      BY <1>2, <1>3, <2>4, LenProperties
    <3>2. LoopSeq[i + 1] \in Inputs /\ LoopSeq[i + 1] \in Paths
      BY <1>3, <3>1, ElementOfSeq, InputPath
    <3>3. pc' = "convert" /\ file' = LoopSeq[i + 1] /\ i' = i + 1
      BY <1>4, <2>4 DEF Passed
    <3>4. RunInv'
      BY <1>1, <1>2, <3>1, <3>2, <3>3 DEF IndInv, RunInv, LoopPcs, RegPcs, Busy, Converting
    <3> QED
      BY <2>3, <3>4
  <2>5. CASE ~ (i < Len(LoopSeq))
    <3>1. /\ i' = 1 /\ file' = processList'[1] /\ orig' = processList'[1]
          /\ pc' \in {"step", "mask", "copy"}
      BY <1>4, <2>5 DEF Passed, Onward
    <3>2. RunInv'
      BY <1>1, <1>2, <2>2, <3>1 DEF IndInv, RunInv, LoopPcs, RegPcs, Busy, Converting
    <3> QED
      BY <2>3, <3>2
  <2> QED
    BY <2>4, <2>5
<1>5. CASE pc' \in {"repetition", "slices", "stopped"} /\ UNCHANGED <<InPlace, processList>>
  <2>1. RunTypes'
    BY <1>1, <1>5 DEF IndInv, TypeInv, RunTypes
  <2>2. RunInv'
    BY <1>1, <1>2, <1>5 DEF IndInv, RunInv, LoopPcs, RegPcs, Busy, Converting, InPlace
  <2> QED
    BY <2>1, <2>2
<1> QED
  BY <1>4, <1>5, CheckCases

\* A step of the pipeline has written its file.
LEMMA WrittenRun ==
    ASSUME IndInv, NEW out \in Paths, NEW image, Written(out, image), UNCHANGED StepVars,
           pc \in LoopPcs
    PROVE  RunTypes' /\ RunInv'
<1>1. ~ startEnabled /\ i \in DOMAIN processList /\ orig = processList[i]
  BY DEF IndInv, RunInv, Busy, LoopPcs, RegPcs
<1>2. UNCHANGED <<i, startEnabled, loopList, processList, masks>>
      /\ file' = out /\ orig' = orig /\ pc' \in {"step", "mask", "copy"} /\ target' = None
      /\ disk' = Command(file, out, image) /\ removeList' = removeList \cup {out}
  BY DEF StepVars, Written, Onward, Noted
<1>3. DOMAIN Command(file, out, image) \subseteq DOMAIN disk \cup {out}
  BY CommandLemma
<1>4. RunTypes'
  BY <1>2, <1>3 DEF IndInv, TypeInv, RunTypes
<1>5. RunInv'
  BY <1>1, <1>2 DEF RunInv, LoopPcs, RegPcs, Busy, Converting
<1> QED
  BY <1>4, <1>5

\* The steps of the pipeline that write.
LEMMA StepRun ==
    ASSUME IndInv, Correction \/ Filtering \/ (Resample /\ template # -1)
    PROVE  RunTypes' /\ RunInv'
<1>1. CASE Correction
  <2>1. file \in Paths /\ Pipeline[step] \in Steps /\ pc \in LoopPcs
    BY <1>1, StepNames DEF IndInv, RunInv, Correction, Busy, LoopPcs
  <2>2. OutFile(Pipeline[step]) \in Paths
    BY <2>1, PathParts DEF IndInv, TypeInv, OutFile
  <2> QED
    BY <1>1, <2>1, <2>2, WrittenRun DEF Correction
<1>2. CASE Filtering
  <2>1. target \in Paths /\ pc \in LoopPcs
    BY <1>2 DEF IndInv, RunInv, Filtering, LoopPcs
  <2> QED
    BY <1>2, <2>1, WrittenRun DEF Filtering
<1>3. CASE Resample /\ template # -1
  <2>1. target \in Paths /\ pc \in LoopPcs
    BY <1>3 DEF IndInv, RunInv, Resample, LoopPcs, RegPcs
  <2> QED
    BY <1>3, <2>1, WrittenRun DEF Resample
<1> QED
  BY <1>1, <1>2, <1>3

\* Where the rest of a step may lead to: on, or out of the run.
RestOfStep ==
    /\ pc \in {"step"} \cup RegPcs
    /\ UNCHANGED <<StepVars, removeList, removeEver, disk>>
    /\ \/ pc' = "idle" /\ target' = target
       \/ pc' \in {"filter"} \cup RegPcs /\ UNCHANGED <<file, orig, step>>

\* The commands of doRegistration but the last.
LEMMA StageCases ==
    ASSUME Registering
    PROVE  /\ RestOfStep /\ UNCHANGED <<target, ana>> /\ pc \in RegPcs
           /\ pc' \in RegPcs \cup {"idle"} /\ work' \subseteq work \cup RegFiles
BY DEF Registering, Stage, Raise, RestOfStep, RegPcs, RegFiles, Align

\* doRegistration and the filters up to where they write.
LEMMA RestRun ==
    ASSUME IndInv, FilterPath \/ Registration \/ Registering \/ (Resample /\ template = -1)
    PROVE  RestOfStep /\ RunTypes' /\ RunInv'
<1>1. Pipeline[step] \in {"sfilter", "tfilter", "reg"} => Pipeline[step] \in Steps
  BY StepNames
<1>2. file \in Paths /\ outputDir \in OutDirs /\ ~ startEnabled
  BY DEF IndInv, TypeInv, RunInv, Busy, FilterPath, Registration, Registering, Stage, Resample
<1>3. /\ RestOfStep
      /\ target' # target =>
            target' = OutFile(Pipeline[step]) /\ Pipeline[step] \in {"sfilter", "tfilter", "reg"}
      /\ pc \in RegPcs => target' = target
      /\ pc \notin RegPcs /\ pc' # "idle" =>
            target' = OutFile(Pipeline[step]) /\ Pipeline[step] \in {"sfilter", "tfilter", "reg"}
  <2>1. CASE FilterPath
    BY <2>1 DEF FilterPath, RestOfStep, RegPcs
  <2>2. CASE Registration
    BY <2>2 DEF Registration, Raise, RestOfStep, RegPcs
  <2>3. CASE Registering
    BY <2>3, StageCases DEF RestOfStep
  <2>4. CASE Resample /\ template = -1
    BY <2>4 DEF Resample, Raise, RestOfStep, RegPcs
  <2> QED
    BY <2>1, <2>2, <2>3, <2>4
<1>4. target' # None \/ pc' \in {"filter"} \cup RegPcs => target' \in Paths
  <2>1. Pipeline[step] \in {"sfilter", "tfilter", "reg"} => OutFile(Pipeline[step]) \in Paths
    BY <1>1, <1>2, PathParts DEF OutFile
  <2>2. pc \in RegPcs \/ target # None => target \in Paths
    BY DEF IndInv, RunInv
  <2>3. CASE target' = target
    <3>1. CASE pc \in RegPcs
      BY <2>2, <2>3, <3>1
    <3>2. CASE pc' = "idle"
      BY <2>2, <2>3, <3>2 DEF RegPcs
    <3>3. CASE pc \notin RegPcs /\ pc' # "idle"
      BY <1>3, <2>1, <3>3
    <3> QED
      BY <3>1, <3>2, <3>3
  <2>4. CASE target' # target
    BY <1>3, <2>1, <2>4
  <2> QED
    BY <2>3, <2>4
<1>5. UNCHANGED <<i, startEnabled, loopList, processList, removeList, disk, masks>>
      /\ pc \in LoopPcs
      /\ (pc' = "idle" \/ (pc' \in {"filter"} \cup RegPcs /\ file' = file /\ orig' = orig))
  BY <1>3 DEF RestOfStep, StepVars, LoopPcs
<1>6. RunTypes'
  BY <1>5 DEF IndInv, TypeInv, RunTypes
<1>7. RunInv'
  BY <1>2, <1>4, <1>5 DEF IndInv, RunInv, LoopPcs, RegPcs, Busy, Converting
<1> QED
  BY <1>3, <1>6, <1>7

\* The two kinds of mask, up to createMask.
LEMMA MaskFileRun ==
    ASSUME IndInv, MaskPath \/ TimeStep \/ MaskAverage PROVE RunTypes' /\ RunInv'
<1>1. /\ file \in Paths /\ ~ startEnabled
      /\ i \in DOMAIN processList /\ orig = processList[i]
      /\ (pc = "timestep" => mask.to \in Paths)
  BY DEF IndInv, RunInv, LoopPcs, MaskPath, TimeStep, MaskAverage, Busy
<1>2. orig \in Paths
  BY <1>1, LenProperties, ElementOfSeq DEF IndInv, TypeInv
<1>3. Path(outputDir, <<"mask">> \o orig.steps, orig.base) \in Paths
  BY <1>2, StepNames, PathParts DEF IndInv, TypeInv
<1>4. Path(outputDir, <<"mask">>, "average") \in Paths
  <2>1. <<"mask">> \in Seq(Steps) /\ "average" \in Bases
    BY StepNames DEF Bases
  <2> QED
    BY <2>1, PathLemma DEF IndInv, TypeInv
<1>5. mask'.to \in Paths /\ (pc' = "timestep" => mask'.from = "tmpTimeStep.v")
  BY <1>1, <1>3, <1>4 DEF MaskPath, TimeStep, MaskAverage, maskVar
<1>6. UNCHANGED <<file, orig, i, startEnabled, target, loopList, processList, removeList, disk, masks>>
      /\ pc' \in {"timestep", "create"}
  BY DEF MaskPath, TimeStep, MaskAverage, MaskVars, InPlace
<1>7. RunTypes'
  BY <1>6 DEF IndInv, TypeInv, RunTypes
<1>8. RunInv'
  BY <1>1, <1>5, <1>6 DEF IndInv, RunInv, LoopPcs, RegPcs, Busy, Converting
<1> QED
  BY <1>7, <1>8

\* createMask and the rounds of its loop.
LEMMA MaskRun ==
    ASSUME IndInv, CreateMask \/ MaskRound PROVE RunTypes' /\ RunInv'
<1>1. /\ file \in Paths /\ ~ startEnabled /\ mask.to \in Paths
      /\ i \in DOMAIN processList /\ orig = processList[i]
  BY DEF IndInv, RunInv, LoopPcs, CreateMask, MaskRound, Busy
<1>2. UNCHANGED <<file, orig, i, startEnabled, target, loopList, processList, removeList, disk, mask>>
      /\ masks' \subseteq masks \cup {mask.to}
  BY DEF CreateMask, MaskRound, MaskVars, InPlace
<1>3. RunTypes'
  BY <1>1, <1>2 DEF IndInv, TypeInv, RunTypes
<1>4. pc' \in {"finish", "copy", "round"}
      /\ (pc' = "round" => threshold' \in FirstThreshold .. LastThreshold - 1)
  <2>1. CASE CreateMask
    BY <2>1, PreprocessorConstants DEF CreateMask
  <2>2. CASE MaskRound
    <3>1. pc' \in {"finish", "copy"} \/ (pc' = pc /\ threshold' = threshold + 1
                                         /\ threshold' # LastThreshold)
      BY <2>2 DEF MaskRound, MaskDone, NextThreshold
    <3>2. pc = "round" /\ threshold \in FirstThreshold .. LastThreshold - 1
      BY <2>2 DEF IndInv, RunInv, MaskRound
    <3> QED
      BY <3>1, <3>2, PreprocessorConstants
  <2> QED
    BY <2>1, <2>2
<1>5. RunInv'
  BY <1>1, <1>2, <1>4 DEF IndInv, RunInv, LoopPcs, RegPcs, Busy, Converting
<1> QED
  BY <1>3, <1>5

\* The result, and the next image.
LEMMA CopyRun ==
    ASSUME IndInv, Copy PROVE RunTypes' /\ RunInv'
<1> DEFINE out == Path(outputDir, <<"preproc">> \o orig.steps, orig.base)
<1>1. /\ file \in Paths /\ ~ startEnabled
      /\ i \in DOMAIN processList /\ orig = processList[i]
      /\ UNCHANGED <<target, startEnabled>>
  BY DEF IndInv, RunInv, LoopPcs, Copy, Busy
<1>2. orig \in Paths /\ i \in Nat
  BY <1>1, LenProperties, ElementOfSeq DEF IndInv, TypeInv
<1>3. out \in Paths
  BY <1>2, StepNames, PathParts DEF IndInv, TypeInv
<1>4. DOMAIN Command(file, out, ImageOf(file)) \subseteq DOMAIN disk \cup {out}
  BY CommandLemma
<1>5. DOMAIN disk' \subseteq Paths
  BY <1>3, <1>4 DEF IndInv, TypeInv, Copy
<1>6. RunTypes'
  BY <1>5 DEF IndInv, TypeInv, RunTypes, Copy, temps
<1>7. CASE i < Len(processList)
  <2>1. i + 1 \in DOMAIN processList /\ processList[i + 1] \in Paths
    BY <1>1, <1>7, LenProperties, ElementOfSeq DEF IndInv, TypeInv
  <2>2. /\ i' = i + 1 /\ file' = processList[i + 1] /\ orig' = processList[i + 1]
        /\ pc' \in {"step", "mask", "copy"} /\ processList' = processList
    BY <1>7 DEF Copy, Onward, temps
  <2>3. RunInv'
    BY <1>1, <2>1, <2>2 DEF IndInv, RunInv, LoopPcs, RegPcs, Busy, Converting
  <2> QED
    BY <1>6, <2>3
<1>8. CASE ~ (i < Len(processList))
  <2>1. pc' \in {"average", "finish"} /\ UNCHANGED <<file, orig, i, processList>>
    BY <1>8 DEF Copy, temps
  <2>2. RunInv'
    BY <1>1, <2>1 DEF IndInv, RunInv, LoopPcs, RegPcs, Busy, Converting
  <2> QED
    BY <1>6, <2>2
<1> QED
  BY <1>7, <1>8

\* Every step of the run.
LEMMA RunStep ==
    ASSUME IndInv, Start \/ Processing PROVE RunTypes' /\ RunInv'
<1>1. CASE Finish
  <2>1. pc' = "idle" /\ UNCHANGED <<target, loopList, temps, files>>
    BY <1>1 DEF Finish
  <2> QED
    BY <2>1 DEF IndInv, TypeInv, RunTypes, RunInv, LoopPcs, RegPcs, Busy, Converting, temps, files
<1> QED
  BY <1>1, StartRun, TestRun, ConvertRun, CheckRun, StepRun, RestRun, MaskFileRun, MaskRun,
     CopyRun DEF Processing

-----------------------------------------------------------------------------
(* What is noted for removal                                               *)

\* Only the program that is left between two runs has anything to tidy.
LEMMA OpenIsTidy ==
    ASSUME closed' \notin {"idle", "stuck"}
    PROVE  /\ NothingLeft'
           /\ (closed \in {"idle", "stuck"} => pc = "idle" /\ (startEnabled <=> closed = "idle"))'
BY DEF NothingLeft

\* A step that writes a file notes it.
LEMMA WrittenIsNoted ==
    ASSUME IndInv, NEW out, NEW from, NEW image,
           disk' = Command(from, out, image), Noted(out)
    PROVE  \A p \in DOMAIN disk' \ Inputs : p \in removeList' \/ Result(p)
<1>1. DOMAIN disk' \subseteq DOMAIN disk \cup {out}
  BY CommandLemma
<1> QED
  BY <1>1 DEF IndInv, TidyInv, Noted

\* The scratch files of a step.
WorkInv == work \subseteq removeEver \cup {"tmpTimeStep.v", "check"} \cup Noting
DiskInv == \A p \in DOMAIN disk \ Inputs : p \in removeList \/ Result(p)

\* The files on the disk.
LEMMA DiskStep ==
    ASSUME IndInv, Start \/ Processing PROVE DiskInv'
<1>1. CASE UNCHANGED <<disk, removeList>>
  BY <1>1 DEF IndInv, TidyInv, DiskInv
<1>2. CASE Converted
  BY <1>2, WrittenIsNoted DEF Converted, DiskInv
<1>3. CASE Correction \/ Filtering \/ (Resample /\ template # -1)
  <2>1. \E out, image : Written(out, image)
    BY <1>3 DEF Correction, Filtering, Resample
  <2> QED
    BY <2>1, WrittenIsNoted DEF Written, DiskInv
<1>4. CASE FilterPath \/ Registration \/ Registering \/ (Resample /\ template = -1)
  BY <1>1, <1>4, RestRun DEF RestOfStep
<1>5. CASE Copy
  <2> DEFINE out == Path(outputDir, <<"preproc">> \o orig.steps, orig.base)
  <2>1. orig \in Paths
    BY <1>5, LenProperties, ElementOfSeq DEF IndInv, TypeInv, RunInv, LoopPcs, Copy
  <2>2. Result(out)
    BY <2>1, ResultLemma DEF IndInv, TypeInv
  <2>3. DOMAIN disk' \subseteq DOMAIN disk \cup {out} /\ removeList' = removeList
    BY <1>5, CommandLemma DEF Copy, temps
  <2> QED
    BY <2>2, <2>3 DEF IndInv, TidyInv, DiskInv
<1>6. CASE CheckAll \/ CheckHeader
  BY <1>1, <1>6, CheckCases
<1>7. CASE \/ Start \/ Convert \/ MaskPath \/ TimeStep \/ MaskAverage \/ CreateMask
           \/ MaskRound \/ Finish
  BY <1>1, <1>7 DEF Start, Convert, MaskPath, TimeStep, MaskAverage, CreateMask, MaskRound, Finish,
     MaskVars, temps, files
<1> QED
  BY <1>2, <1>3, <1>4, <1>5, <1>6, <1>7 DEF Processing

\* The scratch files: what createMask writes is noted, the average when its
\* mask is done, and those of the registration with its result.
LEMMA WorkStep ==
    ASSUME IndInv, Start \/ Processing
    PROVE  WorkInv' /\ (pc = "round" => Scratch \subseteq removeEver)'
<1>1. WorkInv /\ (pc = "round" => Scratch \subseteq removeEver)
  BY DEF IndInv, TidyInv, WorkInv
<1>2. CASE Start
  <2>1. pc' \in {"idle", "convert"} /\ pc = "idle" /\ startEnabled /\ UNCHANGED <<work, removeEver>>
    BY <1>2 DEF Start, Raise, temps, files
  <2> QED
    BY <1>1, <2>1 DEF WorkInv, Noting, RegPcs
<1>3. CASE Convert \/ Converted
  <2>1. pc \in {"convert", "converting"} /\ pc' \in {"check", "converting"}
        /\ UNCHANGED <<work, removeEver>>
    BY <1>3 DEF Convert, Converted, FirstVars
  <2> QED
    BY <1>1, <2>1 DEF WorkInv, Noting, RegPcs
<1>4. CASE CheckAll \/ CheckHeader
  <2>1. pc \in {"check", "repetition", "slices"} /\ UNCHANGED removeEver
    BY <1>4, CheckCases DEF FirstVars
  <2>2. work' \subseteq work \cup {"check"}
    BY <1>4 DEF CheckAll, CheckHeader
  <2>3. pc' \in {"convert", "repetition", "slices", "stopped", "step", "mask", "copy"}
    BY <1>4, CheckCases DEF Passed, Onward
  <2> QED
    BY <1>1, <2>1, <2>2, <2>3 DEF WorkInv, Noting, RegPcs
<1>5. CASE Correction \/ Filtering \/ (Resample /\ template # -1)
  <2>1. pc \in {"step", "filter", "resample"} /\ pc' \in {"step", "mask", "copy"} /\ work' = work
    BY <1>5 DEF Correction, Filtering, Resample, Written, Onward
  <2>2. removeEver' = removeEver \/ (pc = "resample" /\ removeEver' = removeEver \cup RegFiles)
    BY <1>5 DEF Correction, Filtering, Resample
  <2>3. pc # "resample" => removeEver' = removeEver
    BY <1>5 DEF Correction, Filtering, Resample
  <2>4. pc = "resample" => removeEver' = removeEver \cup RegFiles
    BY <1>5 DEF Correction, Filtering, Resample
  <2>5. Noting \subseteq IF pc = "resample" THEN RegFiles ELSE {}
    BY <2>1 DEF Noting, RegPcs
  <2> QED
    BY <1>1, <2>1, <2>3, <2>4, <2>5 DEF WorkInv
<1>6. CASE FilterPath \/ Registration \/ Registering \/ (Resample /\ template = -1)
  <2>1. RestOfStep
    BY <1>6, RestRun
  <2>2. ~ startEnabled /\ UNCHANGED startEnabled /\ UNCHANGED removeEver
    BY <2>1 DEF RestOfStep, StepVars, IndInv, RunInv, Busy, RegPcs
  <2>3. work' \subseteq work \cup RegFiles
        /\ (pc \notin RegPcs => work' = work) /\ (pc' = "filter" => pc = "step")
    BY <1>6, StageCases DEF FilterPath, Registration, Resample, Raise, RegPcs
  <2>4. pc' \in {"filter", "idle"} \cup RegPcs /\ pc' # "round" /\ pc \in {"step"} \cup RegPcs
    BY <2>1 DEF RestOfStep, RegPcs
  <2>5. Noting = IF pc \in RegPcs THEN RegFiles ELSE {}
    BY <2>4 DEF Noting, RegPcs
  <2>6. Noting' = IF pc' \in RegPcs \cup {"idle"} THEN RegFiles ELSE {}
    BY <2>2, <2>4 DEF Noting, RegPcs
  <2>7. "step" \notin RegPcs
    BY DEF RegPcs
  <2>8. CASE pc' = "filter"
    BY <1>1, <2>2, <2>3, <2>5, <2>7, <2>8 DEF WorkInv
  <2>9. CASE pc' # "filter"
    BY <1>1, <2>2, <2>3, <2>4, <2>5, <2>6, <2>9 DEF WorkInv
  <2> QED
    BY <2>4, <2>8, <2>9
<1>7. CASE MaskPath \/ TimeStep
  <2>1. pc \in {"mask", "timestep"} /\ pc' \in {"timestep", "create"} /\ UNCHANGED removeEver
        /\ work' \subseteq work \cup {"tmpTimeStep.v"}
    BY <1>7 DEF MaskPath, TimeStep
  <2> QED
    BY <1>1, <2>1 DEF WorkInv, Noting, RegPcs
<1>8. CASE MaskAverage
  BY <1>1, <1>8 DEF WorkInv, Noting, RegPcs, MaskAverage
<1>9. CASE CreateMask
  BY <1>1, <1>9 DEF WorkInv, Noting, RegPcs, CreateMask
<1>10. CASE MaskRound
  BY <1>1, <1>10 DEF WorkInv, Noting, RegPcs, MaskRound, MaskDone, Scratch
<1>11. CASE Copy
  <2>1. pc = "copy" /\ pc' \in {"step", "mask", "copy", "average", "finish"}
        /\ UNCHANGED <<work, removeEver>>
    BY <1>11 DEF Copy, Onward, temps
  <2> QED
    BY <1>1, <2>1 DEF WorkInv, Noting, RegPcs
<1>12. CASE Finish
  <2>1. pc \in {"finish", "stopped"} /\ pc' = "idle" /\ startEnabled' /\ UNCHANGED <<work, removeEver>>
    BY <1>12 DEF Finish, StartButton, temps, files
  <2> QED
    BY <1>1, <2>1 DEF WorkInv, Noting, RegPcs
<1> QED
  BY <1>2, <1>3, <1>4, <1>5, <1>6, <1>7, <1>8, <1>9, <1>10, <1>11, <1>12 DEF Processing

\* The run, and what the user does, leaving the program included.
LEMMA TidyStep ==
    ASSUME IndInv, Next PROVE TidyInv'
<1>1. CASE Start \/ Processing
  <2>1. closed' \notin {"idle", "stuck"}
    BY <1>1, ClosedIsOver, RunFrame
  <2> QED
    BY <1>1, <2>1, OpenIsTidy, DiskStep, WorkStep DEF TidyInv, WorkInv, DiskInv
<1>2. CASE User /\ UNCHANGED <<disk, work, closed>>
  <2>1. UNCHANGED <<pc, removeList, removeEver, mask, startEnabled>> /\ closed' \notin {"idle", "stuck"}
    BY <1>2, UserFrame DEF loop, temps, maskVar
  <2> QED
    BY <1>2, <2>1, OpenIsTidy DEF IndInv, TidyInv, Noting
<1>3. CASE Exit
  <2>1. UNCHANGED <<opts, pc, removeList, removeEver, mask, startEnabled>>
    BY <1>3 DEF Exit, form, loop, temps, maskVar
  <2>2. /\ work' = work \ removeEver
        /\ disk' = IF "logfile" \in opts THEN disk ELSE Forget(disk, removeList)
        /\ closed' = IF startEnabled THEN "idle" ELSE IF Busy THEN "busy" ELSE "stuck"
    BY <1>3 DEF Exit
  <2>3. WorkInv' /\ (pc = "round" => Scratch \subseteq removeEver)'
    BY <2>1, <2>2 DEF IndInv, TidyInv, WorkInv, Noting
  <2>4. DOMAIN disk' \subseteq DOMAIN disk
    BY <2>2 DEF Forget
  <2>5. DiskInv'
    BY <2>1, <2>4 DEF IndInv, TidyInv, DiskInv
  <2>6. closed' \in {"idle", "stuck"} => pc = "idle" /\ (startEnabled <=> closed' = "idle")
    BY <2>2 DEF IndInv, RunInv, Busy
  <2>7. ASSUME closed' \in {"idle", "stuck"}, "logfile" \notin opts'
        PROVE  /\ work' \subseteq {"tmpTimeStep.v", "check"}
                                 \cup (IF closed' = "stuck" THEN RegFiles ELSE {})
               /\ \A p \in DOMAIN disk' \ Inputs : Result(p)
    <3>1. work' \subseteq {"tmpTimeStep.v", "check"} \cup Noting
      BY <2>2 DEF IndInv, TidyInv
    <3>2. Noting \subseteq IF closed' = "stuck" THEN RegFiles ELSE {}
      BY <2>6, <2>7 DEF Noting, RegPcs
    <3>3. DOMAIN disk' = DOMAIN disk \ removeList
      BY <2>1, <2>2, <2>7 DEF Forget
    <3> QED
      BY <3>1, <3>2, <3>3 DEF IndInv, TidyInv
  <2>8. NothingLeft'
    BY <2>7 DEF NothingLeft, Result
  <2> QED
    BY <2>1, <2>3, <2>5, <2>6, <2>8 DEF TidyInv, WorkInv, DiskInv
<1> QED
  BY <1>1, <1>2, <1>3, EditFrame DEF Next

-----------------------------------------------------------------------------
(* The lists of the window                                                 *)

\* What the user edits.
WindowTypes ==
    /\ fileList \in Seq(Inputs) /\ rows \in Seq(Inputs) /\ anaRows \in Seq(RowSet)
    /\ DOMAIN dict \subseteq Inputs
    /\ template \in -1 .. NTemplates - 1
    /\ outputDir \in OutDirs /\ dirText \in OutDirs
    /\ saved # None => /\ saved.files \in Seq(Inputs) /\ saved.dir \in OutDirs
                       /\ saved.template \in -1 .. NTemplates - 1

\* One template less than there are, or none.
LEMMA TemplateType == \A n \in Nat : SetTemplate(n) \in -1 .. NTemplates - 1
BY PreprocessorConstants DEF SetTemplate

\* In a list that holds no image twice an image has one place.
LEMMA RowsLemma ==
    ASSUME RowsAgree, rows \in Seq(Inputs), anaRows \in Seq(RowSet)
    PROVE  /\ DOMAIN anaRows = DOMAIN rows /\ DOMAIN rows = 1 .. Len(rows)
           /\ Len(rows) \in Nat
           /\ \A j \in DOMAIN rows : rows[j] \in Inputs /\ anaRows[j] \in RowSet
           /\ \A j \in DOMAIN rows : anaRows[j].of = rows[j]
BY LenProperties, ElementOfSeq DEF RowsAgree

\* A selected row is that of an image which the list holds, too.
LEMMA ChosenRow ==
    ASSUME IndInv, NEW r \in DOMAIN rows
    PROVE  /\ First(fileList, rows[r]) \in 1 .. Len(fileList)
           /\ fileList[First(fileList, rows[r])] = rows[r]
<1> DEFINE f == rows[r]
<1>1. /\ rows \in Seq(Inputs) /\ fileList \in Seq(Inputs)
      /\ f \in Inputs /\ Count(rows, f) = Count(fileList, f)
  BY RowsLemma DEF IndInv, TypeInv, ListInv, RowsAgree
<1>2. r \in Places(rows, f)
  BY DEF Places
<1>3. Count(rows, f) # 0
  BY <1>1, <1>2, CountType
<1>4. Places(fileList, f) # {}
  BY <1>1, <1>3, CountType
<1>5. PICK j0 \in DOMAIN fileList : fileList[j0] = f
  BY <1>4 DEF Places
<1> QED
  BY <1>1, <1>5, FirstPlace

\* A list without one of its entries still holds no image twice.
LEMMA OnceWithout ==
    ASSUME NEW S, NEW s \in Seq(S), NEW r \in 1 .. Len(s), Once(s)
    PROVE  /\ Once(Without(s, r))
           /\ \A j \in DOMAIN Without(s, r) : Without(s, r)[j] # s[r]
<1> DEFINE t == Without(s, r)
<1>1. /\ t \in Seq(S) /\ Len(t) = Len(s) - 1
      /\ \A j \in 1 .. Len(s) - 1 : t[j] = IF j < r THEN s[j] ELSE s[j + 1]
  BY WithoutLemma, Zenon
<1>2. Len(s) \in Nat /\ r \in Nat /\ DOMAIN s = 1 .. Len(s)
  BY LenProperties
<1>3. DOMAIN t = 1 .. Len(s) - 1
  BY <1>1, LenProperties
<1> HIDE DEF t
<1>4. ASSUME NEW j \in 1 .. Len(s) - 1, NEW k \in 1 .. Len(s) - 1, t[j] = t[k]
      PROVE  j = k
  <2> DEFINE a == IF j < r THEN j ELSE j + 1
             b == IF k < r THEN k ELSE k + 1
  <2>1. a \in DOMAIN s /\ b \in DOMAIN s /\ s[a] = s[b]
    BY <1>1, <1>2, <1>4
  <2>2. a = b
    BY <2>1 DEF Once
  <2> QED
    BY <1>2, <2>2
<1>5. ASSUME NEW j \in 1 .. Len(s) - 1 PROVE t[j] # s[r]
  <2> DEFINE a == IF j < r THEN j ELSE j + 1
  <2>1. a \in DOMAIN s /\ a # r /\ t[j] = s[a] /\ r \in DOMAIN s
    BY <1>1, <1>2
  <2> QED
    BY <2>1 DEF Once
<1>6. Once(t) /\ \A j \in DOMAIN t : t[j] # s[r]
  BY <1>3, <1>4, <1>5 DEF Once
<1> QED
  BY <1>6 DEF t

\* An image that a list does not hold may be appended.
LEMMA OnceAppend ==
    ASSUME NEW S, NEW s \in Seq(S), NEW e \in S, Once(s), \A j \in DOMAIN s : s[j] # e
    PROVE  Once(Append(s, e))
<1> DEFINE t == Append(s, e)
<1>1. /\ t \in Seq(S) /\ Len(t) = Len(s) + 1
      /\ \A j \in 1 .. Len(s) : t[j] = s[j]
      /\ t[Len(s) + 1] = e
  BY AppendProperties, Zenon
<1>2. DOMAIN t = 1 .. Len(s) + 1 /\ DOMAIN s = 1 .. Len(s) /\ Len(s) \in Nat
  BY <1>1, LenProperties
<1> HIDE DEF t
<1>3. Once(t)
  BY <1>1, <1>2 DEF Once
<1> QED
  BY <1>3 DEF t

\* After a step of the user the lists are lists of images again.
LEMMA AddFileWindow ==
    ASSUME IndInv, NEW f \in Inputs, AddFile(f) PROVE WindowTypes' /\ ListInv'
<1>1. /\ fileList \in Seq(Inputs) /\ rows \in Seq(Inputs) /\ anaRows \in Seq(RowSet)
      /\ RowsAgree
  BY DEF IndInv, TypeInv, ListInv
<1>2. /\ fileList' = Append(fileList, f) /\ rows' = Append(rows, f)
      /\ anaRows' = Append(anaRows, Row(f, None))
      /\ UNCHANGED <<dict, form, saved>>
      /\ twice' = (twice \/ f \in ToSet(fileList))
  BY DEF AddFile
<1>3. Row(f, None) \in RowSet /\ Row(f, None).of = f /\ Row(f, None).image = None
  BY DEF Row, RowSet
<1>4. /\ fileList' \in Seq(Inputs) /\ rows' \in Seq(Inputs) /\ anaRows' \in Seq(RowSet)
  BY <1>1, <1>2, <1>3, AppendProperties
<1>5. WindowTypes'
  BY <1>2, <1>4 DEF IndInv, TypeInv, WindowTypes, form
<1>6. \A g \in Inputs : Count(rows', g) = Count(fileList', g)
  BY <1>1, <1>2, CountAppend DEF RowsAgree
<1>7. /\ Len(anaRows') = Len(rows') /\ DOMAIN rows' = 1 .. Len(rows) + 1
      /\ DOMAIN rows = 1 .. Len(rows) /\ Len(rows) \in Nat
      /\ \A j \in DOMAIN rows : anaRows'[j] = anaRows[j] /\ rows'[j] = rows[j]
      /\ anaRows'[Len(rows) + 1] = Row(f, None) /\ rows'[Len(rows) + 1] = f
  <2>1. Len(anaRows) = Len(rows) /\ Len(rows) \in Nat /\ DOMAIN rows = 1 .. Len(rows)
    BY <1>1, RowsLemma DEF RowsAgree
  <2>2. /\ Len(rows') = Len(rows) + 1 /\ Len(anaRows') = Len(rows) + 1
        /\ \A j \in DOMAIN rows : anaRows'[j] = anaRows[j] /\ rows'[j] = rows[j]
        /\ anaRows'[Len(rows) + 1] = Row(f, None) /\ rows'[Len(rows) + 1] = f
    BY <1>1, <1>2, <1>3, <2>1, AppendProperties
  <2>3. DOMAIN rows' = 1 .. Len(rows')
    BY <1>4, LenProperties
  <2> QED
    BY <2>1, <2>2, <2>3
<1>8. \A j \in DOMAIN rows' : anaRows'[j].of = rows'[j]
  BY <1>1, <1>3, <1>7 DEF RowsAgree
<1>9. ~ twice' => ~ twice /\ \A j \in DOMAIN fileList : fileList[j] # f
  BY <1>2, Zenon DEF ToSet
<1>10. ASSUME ~ twice', NEW j \in DOMAIN rows', anaRows'[j].image # None
       PROVE  rows'[j] \in DOMAIN dict' /\ dict'[rows'[j]] = anaRows'[j].image
  <2>1. j \in DOMAIN rows
    BY <1>3, <1>7, <1>10
  <2> QED
    BY <1>1, <1>2, <1>7, <1>9, <1>10, <2>1 DEF RowsAgree
<1>11. RowsAgree'
  BY <1>6, <1>7, <1>8, <1>10 DEF RowsAgree
<1>12. ASSUME ~ twice'
       PROVE  Once(fileList') /\ Once(rows') /\ (saved # None => Once(saved.files))'
  <2>1. /\ Once(fileList) /\ Once(rows) /\ (saved # None => Once(saved.files))
        /\ \A j \in DOMAIN fileList : fileList[j] # f
    BY <1>9, <1>12 DEF IndInv, ListInv
  <2>2. \A j \in DOMAIN rows : rows[j] # f
    <3>1. Places(fileList, f) = {}
      BY <2>1 DEF Places
    <3>2. Count(rows, f) = 0
      BY <1>1, <3>1, CountType DEF RowsAgree
    <3> QED
      BY <1>1, <3>2, CountType DEF Places
  <2> QED
    BY <1>1, <1>2, <2>1, <2>2, OnceAppend
<1> QED
  BY <1>5, <1>11, <1>12 DEF ListInv

\* An entry goes from all three lists and from the dictionary: the rows keep
\* their images, and no other row shows the one that goes.
LEMMA RemoveWindow ==
    ASSUME IndInv, NEW r \in DOMAIN rows, RemoveFromList(r) PROVE WindowTypes' /\ ListInv'
<1> DEFINE f == rows[r]
           first == First(fileList, f)
<1>1. /\ fileList \in Seq(Inputs) /\ rows \in Seq(Inputs) /\ anaRows \in Seq(RowSet)
      /\ RowsAgree /\ f \in Inputs /\ r \in 1 .. Len(rows) /\ r \in 1 .. Len(anaRows)
      /\ Len(rows) \in Nat /\ Len(anaRows) = Len(rows) /\ DOMAIN rows = 1 .. Len(rows)
      /\ \A j \in DOMAIN rows : rows[j] \in Inputs /\ anaRows[j].of = rows[j]
  BY RowsLemma DEF IndInv, TypeInv, ListInv, RowsAgree
<1>2. first \in 1 .. Len(fileList) /\ fileList[first] = f
  BY ChosenRow
<1>3. /\ fileList' = Without(fileList, first) /\ rows' = Without(rows, r)
      /\ anaRows' = Without(anaRows, r) /\ dict' = Forget(dict, {f})
      /\ UNCHANGED <<form, saved, twice>>
  BY DEF RemoveFromList, First
<1> HIDE DEF first
<1>4. /\ fileList' \in Seq(Inputs) /\ rows' \in Seq(Inputs) /\ anaRows' \in Seq(RowSet)
  BY <1>1, <1>2, <1>3, WithoutLemma
<1>5. DOMAIN dict' = DOMAIN dict \ {f} /\ \A g \in DOMAIN dict' : dict'[g] = dict[g]
  BY <1>3 DEF Forget
<1>6. WindowTypes'
  BY <1>3, <1>4, <1>5 DEF IndInv, TypeInv, WindowTypes, form
<1>7. ASSUME NEW g \in Inputs PROVE Count(rows', g) = Count(fileList', g)
  <2>1. Count(rows', g) = Count(rows, g) - (IF f = g THEN 1 ELSE 0)
    BY <1>1, <1>3, CountWithout
  <2>2. Count(fileList', g) = Count(fileList, g) - (IF f = g THEN 1 ELSE 0)
    BY <1>1, <1>2, <1>3, CountWithout
  <2> QED
    BY <1>1, <2>1, <2>2 DEF RowsAgree
<1>8. /\ Len(anaRows') = Len(rows') /\ DOMAIN rows' = 1 .. Len(rows) - 1
      /\ \A j \in DOMAIN rows' :
            /\ rows'[j] = IF j < r THEN rows[j] ELSE rows[j + 1]
            /\ anaRows'[j] = IF j < r THEN anaRows[j] ELSE anaRows[j + 1]
  <2>1. /\ Len(rows') = Len(rows) - 1 /\ Len(anaRows') = Len(rows) - 1
        /\ \A j \in 1 .. Len(rows) - 1 :
              /\ rows'[j] = IF j < r THEN rows[j] ELSE rows[j + 1]
              /\ anaRows'[j] = IF j < r THEN anaRows[j] ELSE anaRows[j + 1]
    BY <1>1, <1>3, WithoutLemma
  <2> QED
    BY <1>4, <2>1, LenProperties
<1>9. ASSUME NEW j \in DOMAIN rows'
      PROVE  \E k \in DOMAIN rows : rows'[j] = rows[k] /\ anaRows'[j] = anaRows[k]
  BY <1>1, <1>8
<1>10. \A j \in DOMAIN rows' : anaRows'[j].of = rows'[j]
  BY <1>1, <1>9
<1>11. ~ twice' => Once(rows) /\ Once(fileList)
                   /\ (saved # None => Once(saved.files)) /\ ~ twice
  BY <1>3 DEF IndInv, ListInv
<1>12. ~ twice' => /\ Once(fileList') /\ Once(rows')
                   /\ \A j \in DOMAIN rows' : rows'[j] # f
  BY <1>1, <1>2, <1>3, <1>11, OnceWithout
<1>13. ASSUME ~ twice', NEW j \in DOMAIN rows', anaRows'[j].image # None
       PROVE  rows'[j] \in DOMAIN dict' /\ dict'[rows'[j]] = anaRows'[j].image
  <2>1. PICK k \in DOMAIN rows : rows'[j] = rows[k] /\ anaRows'[j] = anaRows[k]
    BY <1>9
  <2>2. rows[k] \in DOMAIN dict /\ dict[rows[k]] = anaRows[k].image
    BY <1>1, <1>11, <1>13, <2>1 DEF RowsAgree
  <2> QED
    BY <1>5, <1>12, <1>13, <2>1, <2>2
<1>14. RowsAgree'
  BY <1>7, <1>8, <1>10, <1>13 DEF RowsAgree
<1> QED
  BY <1>3, <1>6, <1>11, <1>12, <1>14 DEF ListInv

\* The dictionary and the row agree on the new anatomical image.
LEMMA AddAnatomicalWindow ==
    ASSUME IndInv, NEW r \in DOMAIN anaRows, NEW x \in Images, AddAnatomical(r, x)
    PROVE  WindowTypes' /\ ListInv'
<1> DEFINE f == anaRows[r].of
<1>1. /\ rows \in Seq(Inputs) /\ anaRows \in Seq(RowSet) /\ RowsAgree
      /\ DOMAIN anaRows = DOMAIN rows /\ f = rows[r] /\ f \in Inputs /\ Len(anaRows) = Len(rows)
      /\ anaRows[r] \in RowSet /\ DOMAIN anaRows = 1 .. Len(anaRows)
      /\ \A j \in DOMAIN rows : anaRows[j].of = rows[j]
  BY RowsLemma, LenProperties DEF IndInv, TypeInv, ListInv, RowsAgree
<1>2. /\ dict' = With(dict, f, x) /\ anaRows' = [anaRows EXCEPT ![r].image = x]
      /\ template' = SetTemplate(0)
      /\ UNCHANGED <<fileList, rows, outputDir, dirText, saved, twice>>
  BY DEF AddAnatomical
<1>3. /\ DOMAIN dict' = DOMAIN dict \cup {f} /\ dict'[f] = x
      /\ \A g \in DOMAIN dict : g # f => dict'[g] = dict[g]
  BY <1>2 DEF With
<1>4. [anaRows[r] EXCEPT !.image = x] \in RowSet
  BY <1>1 DEF RowSet
<1>5. anaRows' \in Seq(RowSet) /\ Len(anaRows') = Len(anaRows)
  BY <1>1, <1>2, <1>4, ExceptSeq
<1>6. WindowTypes'
  BY <1>1, <1>2, <1>3, <1>5, TemplateType DEF IndInv, TypeInv, WindowTypes
<1>7. \A j \in DOMAIN rows : /\ anaRows'[j].of = anaRows[j].of
                             /\ anaRows'[j].image = IF j = r THEN x ELSE anaRows[j].image
  BY <1>1, <1>2 DEF RowSet
<1>8. ASSUME ~ twice', NEW j \in DOMAIN rows, anaRows'[j].image # None
      PROVE  rows[j] \in DOMAIN dict' /\ dict'[rows[j]] = anaRows'[j].image
  <2>1. Once(rows) /\ ~ twice
    BY <1>2, <1>8 DEF IndInv, ListInv
  <2>2. CASE j = r
    BY <1>1, <1>3, <1>7, <2>2
  <2>3. CASE j # r
    <3>1. rows[j] # f
      BY <1>1, <2>1, <2>3 DEF Once
    <3>2. rows[j] \in DOMAIN dict /\ dict[rows[j]] = anaRows[j].image
      BY <1>1, <1>7, <1>8, <2>1, <2>3 DEF RowsAgree
    <3> QED
      BY <1>3, <1>7, <2>3, <3>1, <3>2
  <2> QED
    BY <2>2, <2>3
<1>9. RowsAgree'
  BY <1>1, <1>2, <1>5, <1>7, <1>8 DEF RowsAgree
<1> QED
  BY <1>2, <1>6, <1>9 DEF IndInv, ListInv

\* The same when the anatomical image is taken away.
LEMMA RemoveAnatomicalWindow ==
    ASSUME IndInv, NEW r \in DOMAIN anaRows, RemoveAnatomical(r)
    PROVE  WindowTypes' /\ ListInv'
<1> DEFINE f == anaRows[r].of
<1>1. /\ rows \in Seq(Inputs) /\ anaRows \in Seq(RowSet) /\ RowsAgree
      /\ DOMAIN anaRows = DOMAIN rows /\ f = rows[r] /\ f \in Inputs /\ Len(anaRows) = Len(rows)
      /\ anaRows[r] \in RowSet /\ DOMAIN anaRows = 1 .. Len(anaRows)
      /\ \A j \in DOMAIN rows : anaRows[j].of = rows[j]
  BY RowsLemma, LenProperties DEF IndInv, TypeInv, ListInv, RowsAgree
<1>2. /\ dict' = Forget(dict, {f}) /\ anaRows' = [anaRows EXCEPT ![r].image = None]
      /\ template' \in {SetTemplate(3), template}
      /\ UNCHANGED <<fileList, rows, outputDir, dirText, saved, twice>>
  BY DEF RemoveAnatomical
<1>3. DOMAIN dict' = DOMAIN dict \ {f} /\ \A g \in DOMAIN dict' : dict'[g] = dict[g]
  BY <1>2 DEF Forget
<1>4. [anaRows[r] EXCEPT !.image = None] \in RowSet
  BY <1>1 DEF RowSet
<1>5. anaRows' \in Seq(RowSet) /\ Len(anaRows') = Len(anaRows)
  BY <1>1, <1>2, <1>4, ExceptSeq
<1>6. WindowTypes'
  BY <1>1, <1>2, <1>3, <1>5, TemplateType DEF IndInv, TypeInv, WindowTypes
<1>7. \A j \in DOMAIN rows : /\ anaRows'[j].of = anaRows[j].of
                             /\ anaRows'[j].image = IF j = r THEN None ELSE anaRows[j].image
  BY <1>1, <1>2 DEF RowSet
<1>8. ASSUME ~ twice', NEW j \in DOMAIN rows, anaRows'[j].image # None
      PROVE  rows[j] \in DOMAIN dict' /\ dict'[rows[j]] = anaRows'[j].image
  <2>1. Once(rows) /\ ~ twice /\ j # r
    BY <1>2, <1>7, <1>8 DEF IndInv, ListInv
  <2>2. rows[j] # f
    BY <1>1, <2>1 DEF Once
  <2>3. rows[j] \in DOMAIN dict /\ dict[rows[j]] = anaRows[j].image
    BY <1>1, <1>7, <1>8, <2>1 DEF RowsAgree
  <2> QED
    BY <1>3, <1>7, <2>1, <2>2, <2>3
<1>9. RowsAgree'
  BY <1>1, <1>2, <1>5, <1>7, <1>8 DEF RowsAgree
<1> QED
  BY <1>2, <1>6, <1>9 DEF IndInv, ListInv

\* Loaded settings bring the same list to all, with no anatomical image shown.
LEMMA LoadWindow ==
    ASSUME IndInv, LoadSettings PROVE WindowTypes' /\ ListInv'
<1> DEFINE fs == saved.files
<1>1. fs \in Seq(Inputs) /\ saved.dir \in OutDirs /\ saved.template \in -1 .. NTemplates - 1
  BY DEF IndInv, TypeInv, LoadSettings
<1>2. /\ fileList' = fs /\ rows' = fs /\ anaRows' = Loaded(fs)
      /\ outputDir' = saved.dir /\ dirText' = saved.dir /\ template' = saved.template
      /\ UNCHANGED <<dict, saved, twice>> /\ saved # None
  BY DEF LoadSettings
<1>3. DOMAIN fs = 1 .. Len(fs) /\ Len(fs) \in Nat /\ \A j \in DOMAIN fs : fs[j] \in Inputs
  BY <1>1, LenProperties, ElementOfSeq
<1>4. /\ Loaded(fs) \in [1 .. Len(fs) -> RowSet]
      /\ \A j \in DOMAIN fs : Loaded(fs)[j].of = fs[j] /\ Loaded(fs)[j].image = None
  BY <1>3 DEF Loaded, Row, RowSet
<1>5. Loaded(fs) \in Seq(RowSet) /\ Len(Loaded(fs)) = Len(fs)
  BY <1>3, <1>4, FamilyLemma
<1>6. WindowTypes'
  BY <1>1, <1>2, <1>5 DEF IndInv, TypeInv, WindowTypes
<1>7. RowsAgree'
  BY <1>2, <1>4, <1>5 DEF RowsAgree
<1> QED
  BY <1>2, <1>6, <1>7 DEF IndInv, ListInv

\* A step that leaves the lists and what is saved of them.
LEMMA OtherWindow ==
    ASSUME IndInv, UNCHANGED <<lists, twice>>, UNCHANGED <<outputDir, dirText, template, saved>>
    PROVE  WindowTypes' /\ ListInv'
BY DEF IndInv, TypeInv, ListInv, WindowTypes, RowsAgree, lists

\* What is saved is a list like the one in the window.
LEMMA SaveWindow ==
    ASSUME IndInv, SaveSettings PROVE WindowTypes' /\ ListInv'
<1>1. /\ saved'.files = fileList /\ saved'.dir = dirText /\ saved'.template = template
      /\ UNCHANGED <<fileList, rows, anaRows, dict, template, outputDir, dirText, twice>>
  BY DEF SaveSettings, lists, form
<1>2. WindowTypes'
  BY <1>1 DEF IndInv, TypeInv, WindowTypes
<1>3. RowsAgree'
  BY <1>1 DEF IndInv, ListInv, RowsAgree
<1>4. ~ twice' => /\ Once(fileList') /\ Once(rows')
                  /\ Once(saved'.files)
  BY <1>1 DEF IndInv, ListInv
<1> QED
  BY <1>2, <1>3, <1>4 DEF ListInv

\* Settings other than the lists.
LEMMA FormWindow ==
    ASSUME IndInv, \/ \E d \in Dirs \cup {Root} : OpenOutputDir(d)
                   \/ \E d \in Dirs : TypeDirectory(d)
                   \/ \E n \in 0 .. NTemplates - 1 : ChooseTemplate(n)
                   \/ \E o \in Clickable : Click(o)
                   \/ Exit
    PROVE  WindowTypes' /\ ListInv'
<1>1. UNCHANGED <<lists, twice, saved>>
  BY DEF OpenOutputDir, TypeDirectory, ChooseTemplate, Click, Exit
<1>2. WindowTypes'
  BY <1>1, PreprocessorConstants DEF IndInv, TypeInv, WindowTypes, OutDirs, lists, form,
     OpenOutputDir, TypeDirectory, ChooseTemplate, Click, Exit
<1>3. ListInv'
  BY <1>1 DEF IndInv, ListInv, RowsAgree, lists
<1> QED
  BY <1>2, <1>3

\* Every step of the user.
LEMMA WindowStep ==
    ASSUME IndInv, User PROVE WindowTypes' /\ ListInv'
BY AddFileWindow, RemoveWindow, AddAnatomicalWindow, RemoveAnatomicalWindow, LoadWindow,
   SaveWindow, FormWindow DEF User

\* The user's steps and the run.
LEMMA UserRun ==
    ASSUME IndInv, User PROVE RunTypes' /\ RunInv'
<1>1. UNCHANGED <<loop, temps, maskVar, masks, startEnabled>>
  BY UserFrame
<1>2. DOMAIN disk' \subseteq DOMAIN disk
  BY EditFrame DEF Exit, Forget
<1>3. loopList' \in {loopList, fileList}
  BY DEF User, AddFile, RemoveFromList, RemoveAnatomical, AddAnatomical, OpenOutputDir,
     TypeDirectory, ChooseTemplate, Click, SaveSettings, LoadSettings, Exit, InHand
<1>4. RunTypes'
  BY <1>1, <1>2, <1>3 DEF IndInv, TypeInv, RunTypes, temps
<1>5. RunInv'
  BY <1>1 DEF IndInv, RunInv, Busy, Converting, loop, temps, maskVar
<1> QED
  BY <1>4, <1>5

-----------------------------------------------------------------------------
(* The invariant                                                           *)

\* The program starts with empty lists and the images of the file system.
LEMMA InitInv == Init => IndInv
<1> SUFFICES ASSUME Init PROVE IndInv
  OBVIOUS
<1> USE DEF Init
<1>1. <<>> \in Seq(Inputs) /\ <<>> \in Seq(RowSet) /\ <<>> \in Seq(Paths)
      /\ DOMAIN <<>> = {} /\ Len(<<>>) = 0
  BY EmptySeq
<1>2. DOMAIN disk = Inputs /\ Inputs \subseteq Paths
  BY InputPath
<1>3. TypeInv
  <2>1. template \in -1 .. NTemplates - 1
    BY TemplateType
  <2> QED
    BY <1>1, <1>2, <2>1, PreprocessorConstants DEF TypeInv, OutDirs
<1>4. RunInv
  BY DEF RunInv, LoopPcs, RegPcs, Busy, Converting
<1>5. TidyInv
  BY <1>2 DEF TidyInv, NothingLeft, Noting, RegPcs
<1>6. ListInv
  BY <1>1 DEF ListInv, RowsAgree, Once
<1> QED
  BY <1>3, <1>4, <1>5, <1>6 DEF IndInv

\* Every step keeps the invariant.
LEMMA Inductive == IndInv /\ [Next]_vars => IndInv'
<1> SUFFICES ASSUME IndInv, [Next]_vars PROVE IndInv'
  OBVIOUS
<1>1. CASE Start \/ Processing
  <2>1. WindowTypes' /\ ListInv'
    BY <1>1, RunFrame, OtherWindow DEF form
  <2>2. RunTypes' /\ RunInv' /\ TidyInv'
    BY <1>1, RunStep, TidyStep DEF Next
  <2> QED
    BY <2>1, <2>2 DEF IndInv, TypeInv, WindowTypes, RunTypes
<1>2. CASE User
  <2>1. WindowTypes' /\ ListInv' /\ RunTypes' /\ RunInv' /\ TidyInv'
    BY <1>2, WindowStep, UserRun, TidyStep DEF Next
  <2> QED
    BY <2>1 DEF IndInv, TypeInv, WindowTypes, RunTypes
<1>3. CASE UNCHANGED vars
  <2>1. TypeInv' /\ RunInv'
    BY <1>3 DEF IndInv, TypeInv, RunInv, Busy, Converting, vars, lists, form, loop, temps, maskVar, files
  <2>2. TidyInv'
    BY <1>3 DEF IndInv, TidyInv, Noting, NothingLeft, Busy, vars, form, loop, temps, maskVar,
       files
  <2>3. ListInv'
    BY <1>3 DEF IndInv, ListInv, RowsAgree, vars, lists
  <2> QED
    BY <2>1, <2>2, <2>3 DEF IndInv
<1> QED
  BY <1>1, <1>2, <1>3 DEF Next

-----------------------------------------------------------------------------
(* The second invariant: what the files, the entries of the process list   *)
(* and the results of a run go back to.  Only the entries of the run in    *)
(* hand matter; those of earlier runs come first in the list.              *)

\* No two images of the list are written under one name.
Names(f) == {f.base, Stem[f.base]}
Apart == \A f, g \in ToSet(fileList) : f # g => Names(f) \cap Names(g) = {}

\* Until the program is left every image is there, and one that is written over
\* is by what has its name as its stem.
SourceInv ==
    closed = "no" =>
        /\ Inputs \subseteq DOMAIN disk
        /\ \A p \in DOMAIN disk : disk[p].of \in Inputs /\ (p.steps = <<>> => disk[p].image = None)
        /\ \A f \in Inputs : disk[f].of = f \/ (f.vista /\ f.base = Stem[disk[f].of.base])

\* A step that has chosen its path writes neither over an image nor over the
\* result of one.
AsideInv == pc \in {"filter"} \cup RegPcs => target.steps \notin {<<>>, <<"preproc">>}

\* A run of which ResultsAreMade speaks.
Clean ==
    /\ closed = "no" /\ Busy
    /\ touched \cap {"remove", "load", "root", "late"} = {}
    /\ Apart

\* e is what the first loop has made of image f.
EntryOf(e, f) ==
    /\ e \in DOMAIN disk /\ e.steps = <<>> /\ e.base \in Names(f)
    /\ disk[e].of = disk[f].of

\* Where the second loop is, and where it has been left.
Average == pc \in {"create", "round"} /\ mask.from = "tmpAverage.v"
Within == pc \in {"step", "filter", "mask", "timestep", "create", "round", "copy"} \cup RegPcs
          /\ ~ Average
After == pc \in {"average", "finish"} \/ Average

\* The first loop: the entries it has made, behind those of earlier runs.
FirstLoop ==
    Converting =>
        /\ i \in 1 .. Len(fileList) /\ i - 1 <= Len(processList)
        /\ \A k \in 1 .. i - 1 : EntryOf(processList[Len(processList) - (i - 1) + k], fileList[k])
        /\ pc \in {"convert", "converting"} => file = fileList[i]
        /\ pc \in {"check", "repetition", "slices"} => EntryOf(file, fileList[i])

\* What an only image is to be registered with, if it is.
Old == Len(processList) - Len(fileList)
Wanted == IF fileList[1] \in DOMAIN dict THEN dict[fileList[1]] ELSE None
OnlyReg == "reg" \in opts /\ touched = {} /\ Len(fileList) = 1

\* The result of an entry.
MadeOf(e) ==
    \E d \in Dirs \cup {Root} : LET p == Path(d, <<"preproc">>, e.base) IN
        /\ p \in made \cap DOMAIN disk
        /\ disk[p].of = disk[e].of
        /\ OnlyReg => disk[p].image = Wanted

\* The second loop: what it has in hand, and the results it has left.
SecondLoop ==
    Within \/ After =>
        /\ fileList # <<>> /\ Len(fileList) <= Len(processList)
        /\ \A k \in 1 .. Len(fileList) :
             /\ EntryOf(processList[Old + k], fileList[k])
             /\ After \/ Old + k < i => MadeOf(processList[Old + k])

\* The step that is under way writes where it can be written; until the
\* registration is over an image has none.
Unregistered == (pc = "step" /\ step <= 3) \/ pc \in RegPcs
HandInv ==
    Within =>
        /\ pc = "step" => step \in 1 .. 5
        /\ pc = "filter" => step \in 4 .. 5
        /\ pc \in RegPcs => step = 3 /\ (OnlyReg => ana = Wanted)
        /\ pc \in {"filter"} \cup RegPcs => target.dir # Root
        /\ i > Old =>
            /\ file \in DOMAIN disk /\ disk[file].of = disk[orig].of
            /\ OnlyReg => Unregistered \/ disk[file].image = Wanted

ResultInv == Clean => outputDir # Root /\ loopList = None /\ FirstLoop /\ SecondLoop /\ HandInv

-----------------------------------------------------------------------------
(* Commands and steps                                                      *)

\* An image has no steps before its name.
LEMMA InputShape == \A f \in Inputs : f.steps = <<>>
BY PreprocessorConstants

\* A command changes one file at most.
LEMMA CommandKeeps ==
    ASSUME NEW from, NEW to, NEW image, NEW p \in DOMAIN disk, p # to
    PROVE  p \in DOMAIN Command(from, to, image) /\ Command(from, to, image)[p] = disk[p]
BY DEF Command, With

\* What was there and can be read is written, unless the directory is missing.
LEMMA CommandWrites ==
    ASSUME NEW from \in DOMAIN disk, NEW to, to.dir # Root, NEW image
    PROVE  /\ to \in DOMAIN Command(from, to, image)
           /\ Command(from, to, image)[to].of = disk[from].of
           /\ Command(from, to, image)[to].image = image
BY DEF Command, With

\* A file is what it was, or what the command has made of another one.
LEMMA CommandOrigin ==
    ASSUME NEW from, NEW to, NEW image, NEW p \in DOMAIN Command(from, to, image)
    PROVE  \/ p \in DOMAIN disk /\ Command(from, to, image)[p] = disk[p]
           \/ /\ p = to /\ from \in DOMAIN disk
              /\ Command(from, to, image)[p].of = disk[from].of
              /\ Command(from, to, image)[p].image = image
BY DEF Command, With

\* A path with one more step is neither an image nor the result of one.
LEMMA StepPath ==
    ASSUME NEW x \in Paths, NEW e \in Steps, NEW d
    PROVE  /\ Path(d, <<e>> \o x.steps, x.base).steps # <<>>
           /\ e # "preproc" => Path(d, <<e>> \o x.steps, x.base).steps # <<"preproc">>
           /\ Path(d, <<e>> \o x.steps, x.base).dir = d
<1> DEFINE s == <<e>> \o x.steps
<1>1. <<e>> \in Seq(Steps) /\ Len(<<e>>) = 1 /\ <<e>>[1] = e
  OBVIOUS
<1>2. x.steps \in Seq(Steps) /\ Len(x.steps) \in Nat
  BY LenProperties DEF Paths, Steps
<1>3. Len(s) = 1 + Len(x.steps) /\ s[1] = e
  BY <1>1, <1>2, ConcatProperties
<1>4. Len(<<>>) = 0 /\ <<"preproc">>[1] = "preproc" /\ Len(s) # 0
  BY <1>2, <1>3
<1> HIDE DEF s
<1>5. s # <<>> /\ (e # "preproc" => s # <<"preproc">>)
  BY <1>3, <1>4
<1> QED
  BY <1>5 DEF Path, s

\* The steps of the pipeline by number.
LEMMA Numbers ==
    /\ Len(Pipeline) = 5 /\ Pipeline[3] = "reg"
    /\ \A k \in 1 .. 5 : Pipeline[k] = "reg" => k = 3
<1>1. Pipeline = <<"slicetime", "movcorr", "reg", "sfilter", "tfilter">>
  BY DEF Pipeline
<1>2. /\ Len(Pipeline) = 5
      /\ Pipeline[1] = "slicetime" /\ Pipeline[2] = "movcorr" /\ Pipeline[3] = "reg"
      /\ Pipeline[4] = "sfilter" /\ Pipeline[5] = "tfilter"
  BY <1>1
<1>3. \A k \in 1 .. 5 : k = 1 \/ k = 2 \/ k = 3 \/ k = 4 \/ k = 5
  OBVIOUS
<1> QED
  BY <1>2, <1>3

\* The filters come after the registration.
LEMMA Filters == \A k \in 1 .. 5 : Pipeline[k] \in {"sfilter", "tfilter"} => k \in 4 .. 5
<1>1. Pipeline = <<"slicetime", "movcorr", "reg", "sfilter", "tfilter">>
  BY DEF Pipeline
<1>2. Pipeline[1] = "slicetime" /\ Pipeline[2] = "movcorr" /\ Pipeline[3] = "reg"
  BY <1>1
<1>3. \A k \in 1 .. 5 : k = 1 \/ k = 2 \/ k = 3 \/ k \in 4 .. 5
  OBVIOUS
<1> QED
  BY <1>2, <1>3

\* The next step is the first of those that are ticked: the registration is
\* not passed by.
LEMMA OnwardLemma ==
    ASSUME NEW f, NEW o, NEW k \in 0 .. 5, Onward(f, o, k)
    PROVE  /\ file' = f /\ orig' = o /\ pc' \in {"step", "mask", "copy"}
           /\ pc' = "step" => step' \in 1 .. 5
           /\ "reg" \in opts /\ k < 3 => pc' = "step" /\ step' <= 3
<1> DEFINE later == {s \in k + 1 .. Len(Pipeline) : Pipeline[s] \in opts}
<1>1. later \subseteq 1 .. 5 /\ later \subseteq Nat
  BY Numbers
<1>2. "reg" \in opts /\ k < 3 => 3 \in later
  BY Numbers
<1>3. /\ file' = f /\ orig' = o
      /\ IF later # {}
         THEN pc' = "step" /\ step' = CHOOSE s \in later : \A t \in later : s <= t
         ELSE pc' \in {"mask", "copy"}
  BY DEF Onward
<1> HIDE DEF later
<1>4. CASE later = {}
  BY <1>2, <1>3, <1>4
<1>5. CASE later # {}
  <2>1. \E s \in later : \A t \in later : s <= t
    BY <1>1, <1>5, Least
  <2>2. step' \in later /\ \A t \in later : step' <= t
    BY <1>3, <1>5, <2>1
  <2> QED
    BY <1>1, <1>2, <1>3, <1>5, <2>2
<1> QED
  BY <1>4, <1>5

-----------------------------------------------------------------------------
(* What the files go back to                                               *)

\* convertFiles writes under the stem of the image.
LEMMA ConvertSource ==
    ASSUME IndInv, SourceInv, Converted, closed = "no"
    PROVE  SourceInv'
<1> DEFINE out == Path(outputDir, <<>>, Stem[file.base])
<1>1. file \in Inputs /\ closed' = "no"
  BY DEF IndInv, RunInv, Converted, FirstVars, RunVars
<1>2. disk' = Command(file, out, None)
  BY DEF Converted
<1>3. SourceInv'
  <2>1. out.vista = TRUE /\ out.base = Stem[file.base]
    BY DEF Path
  <2>2. /\ Inputs \subseteq DOMAIN disk
        /\ \A p \in DOMAIN disk : disk[p].of \in Inputs /\ (p.steps = <<>> => disk[p].image = None)
        /\ \A f \in Inputs : disk[f].of = f \/ (f.vista /\ f.base = Stem[disk[f].of.base])
    BY DEF SourceInv
  <2> HIDE DEF out
  <2>3. Inputs \subseteq DOMAIN disk'
    <3> SUFFICES ASSUME NEW f \in Inputs, f \notin DOMAIN disk' PROVE FALSE
      OBVIOUS
    <3>1. f \in DOMAIN disk
      BY <2>2
    <3>2. CASE f # out
      BY <1>2, <3>1, <3>2, CommandKeeps
    <3>3. CASE f = out
      BY <1>2, <3>1, <3>3 DEF Command, With
    <3> QED
      BY <3>2, <3>3
  <2>4. ASSUME NEW p \in DOMAIN disk'
        PROVE  \/ p \in DOMAIN disk /\ disk'[p] = disk[p]
               \/ p = out /\ file \in DOMAIN disk /\ disk'[p].of = disk[file].of /\ disk'[p].image = None
    BY <1>2, CommandOrigin
  <2>5. ASSUME NEW p \in DOMAIN disk'
        PROVE  disk'[p].of \in Inputs /\ (p.steps = <<>> => disk'[p].image = None)
    BY <2>2, <2>4
  <2>6. ASSUME NEW f \in Inputs
        PROVE  disk'[f].of = f \/ (f.vista /\ f.base = Stem[disk'[f].of.base])
    <3>1. CASE disk'[f] = disk[f]
      BY <2>2, <3>1
    <3>2. CASE f = out /\ disk'[f].of = disk[file].of
      <4>1. disk[file].of = file => f.base = Stem[disk'[f].of.base]
        BY <2>1, <3>2
      <4>2. ASSUME disk[file].of # file PROVE f.base = Stem[disk'[f].of.base]
        <5>1. file.vista /\ file.base = Stem[disk[file].of.base] /\ disk[file].of \in Inputs
          BY <1>1, <2>2, <4>2
        <5>2. Stem[file.base] = file.base
          BY <1>1, <5>1, PreprocessorConstants
        <5> QED
          BY <2>1, <3>2, <5>1, <5>2
      <4> QED
        BY <2>1, <3>2, <4>1, <4>2
    <3> QED
      BY <2>3, <2>4, <3>1, <3>2
  <2> QED
    BY <1>1, <2>3, <2>5, <2>6 DEF SourceInv
<1> QED
  BY <1>3

\* A file with steps before its name takes the place of no image.
LEMMA AsideSource ==
    ASSUME SourceInv, closed' = closed, NEW from, NEW to, NEW image, to.steps # <<>>,
           disk' = Command(from, to, image)
    PROVE  SourceInv'
<1> SUFFICES ASSUME closed = "no" PROVE SourceInv'
  BY DEF SourceInv
<1>1. /\ Inputs \subseteq DOMAIN disk
      /\ \A p \in DOMAIN disk : disk[p].of \in Inputs /\ (p.steps = <<>> => disk[p].image = None)
      /\ \A f \in Inputs : disk[f].of = f \/ (f.vista /\ f.base = Stem[disk[f].of.base])
  BY DEF SourceInv
<1>2. \A f \in Inputs : f \in DOMAIN disk' /\ disk'[f] = disk[f]
  BY <1>1, InputShape, CommandKeeps
<1>3. ASSUME NEW p \in DOMAIN disk'
      PROVE  disk'[p].of \in Inputs /\ (p.steps = <<>> => disk'[p].image = None)
  <2>1. \/ p \in DOMAIN disk /\ disk'[p] = disk[p]
        \/ p = to /\ from \in DOMAIN disk /\ disk'[p].of = disk[from].of
    BY <1>3, CommandOrigin
  <2> QED
    BY <1>1, <2>1
<1> QED
  BY <1>1, <1>2, <1>3 DEF SourceInv

\* Where the steps of the pipeline and the result are written.
LEMMA AsidePaths ==
    ASSUME IndInv
    PROVE  /\ (pc = "step" /\ Pipeline[step] \in Steps \ {"preproc"} =>
                   /\ OutFile(Pipeline[step]).steps \notin {<<>>, <<"preproc">>}
                   /\ OutFile(Pipeline[step]).dir = outputDir)
           /\ (Copy => LET out == Path(outputDir, <<"preproc">> \o orig.steps, orig.base)
                       IN  out.steps # <<>> /\ out.dir = outputDir)
<1>1. pc = "step" => file \in Paths
  BY DEF IndInv, RunInv, Busy
<1>2. Copy => orig \in Paths
  BY LenProperties, ElementOfSeq DEF IndInv, TypeInv, RunInv, LoopPcs, Copy
<1>3. "preproc" \in Steps
  BY StepNames
<1>4. pc = "step" /\ Pipeline[step] \in Steps \ {"preproc"} =>
                   /\ OutFile(Pipeline[step]).steps \notin {<<>>, <<"preproc">>}
                   /\ OutFile(Pipeline[step]).dir = outputDir
  BY <1>1, StepPath DEF OutFile
<1>5. Copy => LET out == Path(outputDir, <<"preproc">> \o orig.steps, orig.base)
              IN  out.steps # <<>> /\ out.dir = outputDir
  BY <1>2, <1>3, StepPath
<1> QED
  BY <1>4, <1>5

\* Every step.
LEMMA SourceStep ==
    ASSUME IndInv, SourceInv, AsideInv, [Next]_vars
    PROVE  SourceInv'
<1>1. CASE UNCHANGED <<disk, closed>>
  BY <1>1 DEF SourceInv
<1>2. CASE User
  <2>1. Exit => closed' # "no"
    BY DEF Exit
  <2> QED
    BY <1>1, <1>2, <2>1, EditFrame DEF SourceInv
<1>3. CASE Start \/ Processing
  <2>1. closed' = closed
    BY <1>3, RunFrame
  <2>2. CASE Converted
    BY <2>1, <2>2, ConvertSource DEF SourceInv
  <2>3. CASE Correction
    <3>1. disk' = Command(file, OutFile(Pipeline[step]), ImageOf(file))
          /\ pc = "step" /\ Pipeline[step] \in Steps \ {"preproc"}
      BY <2>3, StepNames DEF Correction, Written
    <3> QED
      BY <2>1, <3>1, AsidePaths, AsideSource
  <2>4. CASE Filtering \/ (Resample /\ template # -1)
    <3>1. /\ disk' = Command(file, target, ImageOf(file)) \/ disk' = Command(file, target, ana)
          /\ target.steps # <<>>
      BY <2>4 DEF Filtering, Resample, Written, AsideInv, RegPcs
    <3> QED
      BY <2>1, <3>1, AsideSource
  <2>5. CASE FilterPath \/ Registration \/ Registering \/ (Resample /\ template = -1)
    BY <1>1, <2>1, <2>5, RestRun DEF RestOfStep
  <2>6. CASE Copy
    <3>1. disk' = Command(file, Path(outputDir, <<"preproc">> \o orig.steps, orig.base), ImageOf(file))
      BY <2>6 DEF Copy
    <3> QED
      BY <2>1, <2>6, <3>1, AsidePaths, AsideSource
  <2>7. CASE CheckAll \/ CheckHeader
    BY <1>1, <2>1, <2>7, CheckCases
  <2>8. CASE \/ Start \/ Convert \/ MaskPath \/ TimeStep \/ MaskAverage \/ CreateMask
             \/ MaskRound \/ Finish
    BY <1>1, <2>1, <2>8 DEF Start, Convert, MaskPath, TimeStep, MaskAverage, CreateMask, MaskRound,
       Finish, MaskVars, files
  <2> QED
    BY <1>3, <2>2, <2>3, <2>4, <2>5, <2>6, <2>7, <2>8 DEF Processing
<1>4. CASE UNCHANGED vars
  BY <1>1, <1>4 DEF vars, files
<1> QED
  BY <1>2, <1>3, <1>4 DEF Next

\* The path a step has chosen stays.
LEMMA AsideInvStep ==
    ASSUME IndInv, AsideInv, [Next]_vars
    PROVE  AsideInv'
<1>1. CASE UNCHANGED <<pc, target>>
  BY <1>1 DEF AsideInv
<1>2. CASE FilterPath \/ Registration
  <2>1. pc = "step" /\ (Pipeline[step] \in {"sfilter", "tfilter", "reg"})
        /\ (pc' = "idle" \/ target' = OutFile(Pipeline[step]))
    BY <1>2 DEF FilterPath, Registration, Raise
  <2>2. Pipeline[step] \in Steps \ {"preproc"}
    BY <2>1, StepNames
  <2>3. pc' = "idle" \/ target'.steps \notin {<<>>, <<"preproc">>}
    BY <2>1, <2>2, AsidePaths
  <2> QED
    BY <2>3 DEF AsideInv, RegPcs
<1>3. CASE Registering \/ (Resample /\ template = -1)
  <2>1. pc \in RegPcs /\ target' = target
    BY <1>3, StageCases DEF Resample, RegPcs
  <2> QED
    BY <2>1 DEF AsideInv
<1>4. CASE pc' \notin {"filter"} \cup RegPcs
  BY <1>4 DEF AsideInv
<1>5. CASE User \/ UNCHANGED vars
  BY <1>1, <1>5, UserFrame DEF vars, loop
<1>6. CASE Start \/ Convert \/ Converted \/ CheckAll \/ CheckHeader
  <2>1. pc' \in {"idle", "convert", "converting", "check", "repetition", "slices", "stopped",
                "step", "mask", "copy"}
    BY <1>6, CheckCases DEF Start, Raise, Convert, Converted, Passed, Onward
  <2> QED
    BY <1>4, <2>1 DEF RegPcs
<1>7. CASE Correction \/ Filtering \/ (Resample /\ template # -1)
  <2>1. pc' \in {"step", "mask", "copy"}
    BY <1>7 DEF Correction, Filtering, Resample, Written, Onward
  <2> QED
    BY <1>4, <2>1 DEF RegPcs
<1>8. CASE MaskPath \/ TimeStep \/ MaskAverage \/ CreateMask \/ MaskRound
  <2>1. pc' \in {"timestep", "create", "round", "finish", "copy"}
    BY <1>8 DEF MaskPath, TimeStep, MaskAverage, CreateMask, MaskRound, MaskDone
  <2> QED
    BY <1>4, <2>1 DEF RegPcs
<1>9. CASE Copy \/ Finish
  <2>1. pc' \in {"step", "mask", "copy", "average", "finish", "idle"}
    BY <1>9 DEF Copy, Finish, Onward
  <2> QED
    BY <1>4, <2>1 DEF RegPcs
<1> QED
  BY <1>2, <1>3, <1>5, <1>6, <1>7, <1>8, <1>9 DEF Next, Processing

-----------------------------------------------------------------------------
(* What the user does to a run                                             *)

\* A run that stays of interest is one already, and what the user has changed
\* of it is no more than to add an image to the first loop.
LEMMA UserClean ==
    ASSUME IndInv, ResultInv, User, Clean'
    PROVE  /\ Clean
           /\ UNCHANGED <<pc, file, orig, i, step, target, ana, processList, mask, disk, made, loopList>>
           /\ outputDir' # Root
           /\ \/ fileList' = fileList
              \/ Converting /\ \E f \in Inputs : fileList' = Append(fileList, f)
           /\ touched' = {} => touched = {} /\ UNCHANGED <<dict, opts>>
<1>1. closed' = "no" /\ closed = "no" /\ ~ Exit
  BY UserFrame DEF Clean, Exit
<1>2. UNCHANGED <<pc, file, orig, i, step, target, ana, processList, mask, made>>
  BY <1>1, UserFrame DEF User, AddFile, RemoveFromList, RemoveAnatomical, AddAnatomical, OpenOutputDir,
     TypeDirectory, ChooseTemplate, Click, SaveSettings, LoadSettings, InHand, loop, temps, maskVar
<1>3. disk' = disk
  BY <1>1, EditFrame
<1>4. Busy /\ touched' \cap {"remove", "load", "root", "late"} = {} /\ Apart'
  BY <1>2 DEF Clean, Busy
<1>5. CASE \E f \in Inputs : AddFile(f)
  <2>1. PICK f \in Inputs : AddFile(f)
    BY <1>5
  <2>2. /\ fileList' = Append(fileList, f) /\ UNCHANGED <<dict, opts, outputDir, loopList>>
        /\ touched' = touched \/ touched' = touched \cup {"late"}
        /\ Converting \/ touched' = touched \cup {"late"}
    BY <1>4, <2>1 DEF AddFile, Touch, form, InHand
  <2>3. touched' = touched /\ Converting
    BY <1>4, <2>2
  <2>4. ToSet(fileList) \subseteq ToSet(fileList')
    <3>1. fileList \in Seq(Inputs) /\ f \in Inputs
      BY DEF IndInv, TypeInv
    <3>2. /\ DOMAIN fileList \subseteq DOMAIN fileList'
          /\ \A j \in DOMAIN fileList : fileList'[j] = fileList[j]
      BY <2>2, <3>1, AppendProperties, LenProperties
    <3> QED
      BY <3>2 DEF ToSet
  <2>5. Apart
    BY <1>4, <2>4 DEF Apart
  <2>6. Clean
    BY <1>1, <1>4, <2>3, <2>5 DEF Clean
  <2> QED
    BY <1>2, <1>3, <2>2, <2>3, <2>6 DEF ResultInv
<1>6. CASE fileList' = fileList /\ loopList' = loopList /\ touched \subseteq touched'
           /\ (outputDir' = outputDir \/ outputDir' # Root \/ "root" \in touched')
           /\ (touched' = {} => UNCHANGED <<dict, opts>>)
  <2>1. Apart
    BY <1>4, <1>6 DEF Apart
  <2>2. Clean
    BY <1>1, <1>4, <1>6, <2>1 DEF Clean
  <2> QED
    BY <1>2, <1>3, <1>4, <1>6, <2>2 DEF ResultInv
<1>7. ASSUME NEW e, Touch(e) PROVE touched' = touched \cup {e}
  BY <1>4, <1>7 DEF Touch
<1>8. ASSUME NEW r, RemoveFromList(r) PROVE FALSE
  BY <1>4, <1>7, <1>8 DEF RemoveFromList
<1>9. ASSUME LoadSettings PROVE FALSE
  BY <1>4, <1>7, <1>9 DEF LoadSettings
<1>10. ASSUME NEW r, NEW x, AddAnatomical(r, x) \/ RemoveAnatomical(r)
       PROVE  fileList' = fileList /\ loopList' = loopList /\ touched' = touched \cup {"image"}
              /\ outputDir' = outputDir
  BY <1>7, <1>10 DEF AddAnatomical, RemoveAnatomical, InHand
<1>11. ASSUME NEW d, OpenOutputDir(d)
       PROVE  /\ UNCHANGED <<fileList, dict, opts, loopList>> /\ touched \subseteq touched'
              /\ outputDir' # Root \/ "root" \in touched'
  BY <1>7, <1>11 DEF OpenOutputDir, lists, InHand
<1>12. ASSUME NEW d, TypeDirectory(d) \/ ChooseTemplate(d)
       PROVE  UNCHANGED <<fileList, dict, opts, loopList, outputDir, touched>>
  BY <1>12 DEF TypeDirectory, ChooseTemplate, lists, InHand
<1>13. ASSUME NEW o, Click(o)
       PROVE  UNCHANGED <<fileList, loopList, outputDir>> /\ touched' = touched \cup {"box"}
  BY <1>7, <1>13 DEF Click, lists, InHand
<1>14. ASSUME SaveSettings
       PROVE  UNCHANGED <<fileList, dict, opts, loopList, outputDir, touched>>
  BY <1>14 DEF SaveSettings, lists, form, InHand
<1> QED
  BY <1>1, <1>5, <1>6, <1>8, <1>9, <1>10, <1>11, <1>12, <1>13, <1>14 DEF User

\* The user's steps.
LEMMA UserResult ==
    ASSUME IndInv, ResultInv, User
    PROVE  ResultInv'
<1> SUFFICES ASSUME Clean' PROVE (outputDir # Root /\ loopList = None /\ FirstLoop /\ SecondLoop /\ HandInv)'
  BY DEF ResultInv
<1>1. /\ Clean
      /\ UNCHANGED <<pc, file, orig, i, step, target, ana, processList, mask, disk, made, loopList>>
      /\ outputDir' # Root
      /\ \/ fileList' = fileList
         \/ Converting /\ \E f \in Inputs : fileList' = Append(fileList, f)
      /\ touched' = {} => touched = {} /\ UNCHANGED <<dict, opts>>
  BY UserClean
<1>2. loopList' = None /\ FirstLoop /\ SecondLoop /\ HandInv
  BY <1>1 DEF ResultInv
<1>3. Converting' = Converting /\ Within' = Within /\ After' = After
  BY <1>1 DEF Converting, Within, After, Average
<1>4. CASE fileList' = fileList
  <2>1. Old' = Old /\ (OnlyReg' => OnlyReg /\ Wanted' = Wanted)
    BY <1>1, <1>4 DEF Old, OnlyReg, Wanted
  <2>2. FirstLoop'
    <3> SUFFICES ASSUME Converting PROVE FirstLoop'
      BY <1>3 DEF FirstLoop
    <3>1. /\ i \in 1 .. Len(fileList) /\ i - 1 <= Len(processList)
          /\ \A k \in 1 .. i - 1 : EntryOf(processList[Len(processList) - (i - 1) + k], fileList[k])
          /\ pc \in {"convert", "converting"} => file = fileList[i]
          /\ pc \in {"check", "repetition", "slices"} => EntryOf(file, fileList[i])
      BY <1>2 DEF FirstLoop
    <3>2. \A k \in 1 .. i - 1 : EntryOf(processList[Len(processList) - (i - 1) + k], fileList[k])'
      BY <1>1, <1>4, <3>1 DEF EntryOf
    <3> QED
      BY <1>1, <1>4, <3>1, <3>2 DEF FirstLoop, EntryOf
  <2>3. SecondLoop'
    <3> SUFFICES ASSUME Within \/ After PROVE SecondLoop'
      BY <1>3 DEF SecondLoop
    <3>1. /\ fileList # <<>> /\ Len(fileList) <= Len(processList)
          /\ \A k \in 1 .. Len(fileList) :
               /\ EntryOf(processList[Old + k], fileList[k])
               /\ After \/ Old + k < i => MadeOf(processList[Old + k])
      BY <1>2 DEF SecondLoop
    <3>2. ASSUME NEW k \in 1 .. Len(fileList)
          PROVE  /\ EntryOf(processList[Old + k], fileList[k])'
                 /\ (After \/ Old + k < i => MadeOf(processList[Old + k]))'
      <4> DEFINE e == processList[Old + k]
      <4>1. e' = e /\ EntryOf(e, fileList[k]) /\ (After \/ Old + k < i => MadeOf(e))
        BY <1>1, <2>1, <3>1
      <4>2. EntryOf(e, fileList[k])'
        BY <1>1, <1>4, <4>1 DEF EntryOf
      <4>3. MadeOf(e) => MadeOf(e)'
        <5> HIDE DEF e
        <5> QED
          BY <1>1, <2>1, <4>1 DEF MadeOf
      <4> QED
        BY <1>1, <1>3, <2>1, <4>1, <4>2, <4>3
    <3> QED
      BY <1>1, <1>4, <3>1, <3>2 DEF SecondLoop
  <2>4. HandInv'
    BY <1>1, <1>2, <1>3, <2>1 DEF HandInv, Unregistered
  <2> QED
    BY <1>1, <1>2, <2>2, <2>3, <2>4
<1>5. CASE Converting /\ \E f \in Inputs : fileList' = Append(fileList, f)
  <2>1. ~ Within' /\ ~ After'
    BY <1>1, <1>5 DEF Converting, Within, After, Average, RegPcs
  <2>2. SecondLoop' /\ HandInv'
    BY <2>1 DEF SecondLoop, HandInv
  <2>3. /\ Len(fileList) \in Nat /\ Len(fileList') = Len(fileList) + 1
        /\ \A k \in 1 .. Len(fileList) : fileList'[k] = fileList[k]
    <3>1. fileList \in Seq(Inputs)
      BY DEF IndInv, TypeInv
    <3> QED
      BY <1>5, <3>1, AppendProperties, LenProperties
  <2>4. /\ i \in 1 .. Len(fileList) /\ i - 1 <= Len(processList)
        /\ \A k \in 1 .. i - 1 : EntryOf(processList[Len(processList) - (i - 1) + k], fileList[k])
        /\ pc \in {"convert", "converting"} => file = fileList[i]
        /\ pc \in {"check", "repetition", "slices"} => EntryOf(file, fileList[i])
    BY <1>2, <1>5 DEF FirstLoop
  <2>5. i \in 1 .. Len(fileList') /\ fileList'[i] = fileList[i]
        /\ \A k \in 1 .. i - 1 : k \in 1 .. Len(fileList) /\ fileList'[k] = fileList[k]
    BY <2>3, <2>4
  <2>6. \A k \in 1 .. i - 1 : EntryOf(processList[Len(processList) - (i - 1) + k], fileList[k])'
    BY <1>1, <2>4, <2>5 DEF EntryOf
  <2>7. /\ pc \in {"convert", "converting"} => file = fileList'[i]
        /\ pc \in {"check", "repetition", "slices"} => EntryOf(file, fileList[i])'
    BY <1>1, <2>4, <2>5 DEF EntryOf
  <2>8. FirstLoop'
    BY <1>1, <2>4, <2>5, <2>6, <2>7 DEF FirstLoop, EntryOf
  <2> QED
    BY <1>1, <1>2, <2>2, <2>8
<1> QED
  BY <1>1, <1>4, <1>5

-----------------------------------------------------------------------------
(* What a run leaves of every image                                        *)

\* The run disturbs nothing of the window.
LEMMA RunClean ==
    ASSUME Processing, Clean'
    PROVE  /\ Clean
           /\ UNCHANGED <<fileList, dict, opts, outputDir, touched, loopList>>
           /\ Wanted' = Wanted /\ OnlyReg' = OnlyReg /\ pc' # "idle"
<1>1. UNCHANGED <<fileList, dict, opts, outputDir, closed>>
  BY RunFrame DEF lists, form
<1>2. UNCHANGED <<touched, loopList>> /\ Busy
  BY BusyStep DEF Processing, Convert, Converted, CheckAll, CheckHeader, Correction, FilterPath,
     Filtering, Registration, Registering, Stage, Resample, MaskPath, TimeStep, MaskAverage,
     CreateMask, MaskRound, Copy, Finish, StepVars, MaskVars, FirstVars, RunVars
<1>3. Apart' = Apart /\ Wanted' = Wanted /\ OnlyReg' = OnlyReg
  BY <1>1, <1>2 DEF Apart, Wanted, OnlyReg
<1> QED
  BY <1>1, <1>2, <1>3 DEF Clean, Busy

\* A place in the list of images.
LEMMA ListPlace ==
    ASSUME IndInv, NEW k \in 1 .. Len(fileList)
    PROVE  /\ Len(fileList) \in Nat /\ Len(processList) \in Nat
           /\ fileList[k] \in Inputs /\ fileList[k] \in ToSet(fileList)
<1>1. fileList \in Seq(Inputs) /\ processList \in Seq(Paths)
  BY DEF IndInv, TypeInv
<1>2. k \in DOMAIN fileList
  BY <1>1, LenProperties
<1> QED
  BY <1>1, <1>2, LenProperties, ElementOfSeq DEF ToSet

\* Two images of the list that share a name are one.
LEMMA OneName ==
    ASSUME Apart, NEW f \in ToSet(fileList), NEW g \in ToSet(fileList),
           NEW b, b \in Names(f), b \in Names(g)
    PROVE  f = g
BY DEF Apart

\* Switching the run on.
LEMMA StartResult ==
    ASSUME IndInv, Start, Clean'
    PROVE  ResultInv'
<1>1. pc' = "convert" /\ file' = fileList[1] /\ i' = 1 /\ loopList' = None
  BY DEF Start, Raise, Clean, Busy, LoopOver
<1>2. UNCHANGED <<fileList, outputDir, processList>>
  BY DEF Start, lists, form, temps
<1>3. outputDir' # Root
  BY <1>2 DEF Start, Clean
<1>4. fileList \in Seq(Inputs) /\ processList \in Seq(Paths) /\ fileList # <<>>
  BY DEF IndInv, TypeInv, Start
<1>5. 1 \in 1 .. Len(fileList) /\ 1 - 1 <= Len(processList)
  BY <1>4, EmptySeq, LenProperties
<1>6. FirstLoop'
  BY <1>1, <1>2, <1>5 DEF FirstLoop, Converting
<1>7. ~ Within' /\ ~ After'
  BY <1>1 DEF Within, After, Average, RegPcs
<1> QED
  BY <1>1, <1>3, <1>6, <1>7 DEF ResultInv, SecondLoop, HandInv

\* The first loop is not the second.
LEMMA NotSecond == Converting \/ pc \in {"idle", "stopped"} => ~ Within /\ ~ After
BY DEF Converting, Within, After, Average, RegPcs

\* convertFiles, the test.
LEMMA TestResult ==
    ASSUME IndInv, SourceInv, ResultInv, Convert, Clean'
    PROVE  ResultInv'
<1>1. /\ Clean /\ UNCHANGED <<fileList, outputDir, loopList>>
      /\ UNCHANGED <<i, file, disk, processList>> /\ pc' \in {"check", "converting"} /\ pc = "convert"
  BY RunClean DEF Processing, Convert, InPlace
<1>2. /\ outputDir # Root /\ loopList = None
      /\ i \in 1 .. Len(fileList) /\ i - 1 <= Len(processList)
      /\ \A k \in 1 .. i - 1 : EntryOf(processList[Len(processList) - (i - 1) + k], fileList[k])
      /\ file = fileList[i]
  BY <1>1 DEF ResultInv, FirstLoop, Converting
<1>3. file \in Inputs
  BY <1>2, ListPlace
<1>4. EntryOf(file, fileList[i])'
  BY <1>1, <1>2, <1>3, InputShape DEF SourceInv, Clean, EntryOf, Names
<1>5. \A k \in 1 .. i - 1 : EntryOf(processList[Len(processList) - (i - 1) + k], fileList[k])'
  BY <1>1, <1>2 DEF EntryOf
<1>6. FirstLoop'
  BY <1>1, <1>2, <1>4, <1>5 DEF FirstLoop
<1>7. ~ Within' /\ ~ After'
  BY <1>1 DEF Within, After, Average, RegPcs
<1> QED
  BY <1>1, <1>2, <1>6, <1>7 DEF ResultInv, SecondLoop, HandInv

\* convertFiles takes nothing from the images before.
LEMMA ConvertResult ==
    ASSUME IndInv, SourceInv, ResultInv, Converted, Clean'
    PROVE  ResultInv'
<1>1. /\ Clean /\ UNCHANGED <<fileList, outputDir, loopList>>
      /\ UNCHANGED <<i, processList>> /\ pc' = "check" /\ pc = "converting"
  BY RunClean DEF Processing, Converted
<1>2. /\ outputDir # Root /\ loopList = None
      /\ i \in 1 .. Len(fileList) /\ i - 1 <= Len(processList)
      /\ \A k \in 1 .. i - 1 : EntryOf(processList[Len(processList) - (i - 1) + k], fileList[k])
      /\ file = fileList[i]
  BY <1>1 DEF ResultInv, FirstLoop, Converting
<1>3. file \in Inputs /\ file \in ToSet(fileList) /\ Len(fileList) \in Nat
  BY <1>2, ListPlace
<1>4. /\ Inputs \subseteq DOMAIN disk /\ Apart
  BY <1>1 DEF SourceInv, Clean
<1>5. ASSUME NEW x \in Inputs, x \in ToSet(fileList)
      PROVE  x \in DOMAIN disk /\ x.steps = <<>> /\ x.base \in Names(x)
  BY <1>4, <1>5, InputShape DEF Names
<1>6. ResultInv'
  <2> DEFINE out == Path(outputDir, <<>>, Stem[file.base])
  <2>1. /\ file' = out /\ disk' = Command(file, out, None)
        /\ out.dir # Root /\ out.steps = <<>> /\ out.base \in Names(file)
    BY <1>2 DEF Converted, Path, Names
  <2> HIDE DEF out
  <2>2. out \in DOMAIN disk' /\ disk'[out].of = disk[file].of
    BY <1>3, <1>4, <2>1, CommandWrites
  <2>3. \A p \in DOMAIN disk : p # out => p \in DOMAIN disk' /\ disk'[p] = disk[p]
    BY <2>1, CommandKeeps
  <2>4. ASSUME NEW x \in Inputs, x \in ToSet(fileList)
        PROVE  disk'[x].of = disk[x].of
    <3>1. CASE x # out
      BY <1>5, <2>3, <2>4, <3>1
    <3>2. CASE x = out
      <4>1. x = file
        BY <1>3, <1>4, <1>5, <2>1, <2>4, <3>2, OneName
      <4> QED
        BY <2>2, <3>2, <4>1
    <3> QED
      BY <3>1, <3>2
  <2>5. ASSUME NEW e, NEW x \in Inputs, x \in ToSet(fileList), EntryOf(e, x)
        PROVE  /\ e \in DOMAIN disk' /\ e.steps = <<>> /\ e.base \in Names(x)
               /\ disk'[e].of = disk'[x].of
    <3>1. CASE e # out
      BY <2>3, <2>4, <2>5, <3>1 DEF EntryOf
    <3>2. CASE e = out
      <4>1. x = file
        BY <1>3, <1>4, <2>1, <2>5, <3>2, OneName DEF EntryOf
      <4> QED
        BY <2>2, <2>4, <2>5, <3>2, <4>1 DEF EntryOf
    <3> QED
      BY <3>1, <3>2
  <2>6. ASSUME NEW k \in 1 .. i - 1
        PROVE  EntryOf(processList[Len(processList) - (i - 1) + k], fileList[k])'
    <3>1. k \in 1 .. Len(fileList)
      BY <1>2, <1>3
    <3>2. fileList[k] \in Inputs /\ fileList[k] \in ToSet(fileList)
      BY <3>1, ListPlace
    <3> DEFINE e == processList[Len(processList) - (i - 1) + k]
    <3>3. EntryOf(e, fileList[k])
      BY <1>2
    <3>4. e' = e
      BY <1>1
    <3> HIDE DEF e
    <3>5. EntryOf(e, fileList[k])'
      BY <1>1, <2>5, <3>2, <3>3, <3>4 DEF EntryOf
    <3> QED
      BY <3>5 DEF e
  <2>7. EntryOf(file, fileList[i])'
    BY <1>1, <1>2, <1>3, <2>1, <2>2, <2>4 DEF EntryOf
  <2> QED
    BY <1>1, <1>2, <2>6, <2>7 DEF ResultInv, FirstLoop, SecondLoop, HandInv, Within, After, Average,
       RegPcs
<1> QED
  BY <1>6

\* checkAll puts the entry behind the others.
LEMMA CheckResult ==
    ASSUME IndInv, SourceInv, ResultInv, CheckAll \/ CheckHeader, Clean'
    PROVE  ResultInv'
<1>1. /\ Clean /\ UNCHANGED <<fileList, outputDir, loopList, opts, dict>>
      /\ UNCHANGED disk /\ pc \in {"check", "repetition", "slices"}
      /\ OnlyReg' = OnlyReg /\ Wanted' = Wanted
  BY RunClean, CheckCases DEF Processing
<1>2. /\ outputDir # Root /\ loopList = None
      /\ i \in 1 .. Len(fileList) /\ i - 1 <= Len(processList)
      /\ \A k \in 1 .. i - 1 : EntryOf(processList[Len(processList) - (i - 1) + k], fileList[k])
      /\ EntryOf(file, fileList[i])
  BY <1>1 DEF ResultInv, FirstLoop, Converting
<1>3. /\ Len(fileList) \in Nat /\ Len(processList) \in Nat /\ fileList # <<>>
      /\ processList \in Seq(Paths) /\ file \in Paths
  BY <1>1, <1>2, ListPlace, EmptySeq DEF IndInv, TypeInv, RunInv, Busy
<1>4. LoopSeq = fileList
  BY <1>2 DEF LoopSeq
<1>5. CASE pc' \in {"repetition", "slices", "stopped"} /\ UNCHANGED <<InPlace, processList>>
  <2>1. \A k \in 1 .. i - 1 : EntryOf(processList[Len(processList) - (i - 1) + k], fileList[k])'
    BY <1>1, <1>2, <1>5 DEF EntryOf, InPlace
  <2>2. EntryOf(file, fileList[i])'
    BY <1>1, <1>2, <1>5 DEF EntryOf, InPlace
  <2>3. FirstLoop'
    BY <1>1, <1>2, <1>5, <2>1, <2>2 DEF FirstLoop, InPlace
  <2>4. ~ Within' /\ ~ After'
    BY <1>5 DEF Within, After, Average, RegPcs
  <2> QED
    BY <1>1, <1>2, <2>3, <2>4 DEF ResultInv, SecondLoop, HandInv
<1>6. CASE Passed
  <2> DEFINE n == Len(processList)
  <2>1. /\ Len(processList') = n + 1 /\ processList'[n + 1] = file
        /\ \A j \in 1 .. n : processList'[j] = processList[j]
    BY <1>3, <1>6, AppendProperties DEF Passed
  <2>2. ASSUME NEW k \in 1 .. i
        PROVE  EntryOf(processList'[(n + 1) - i + k], fileList[k])
    <3>1. CASE k = i
      <4>1. (n + 1) - i + k = n + 1
        BY <1>2, <1>3, <3>1
      <4> QED
        BY <1>2, <2>1, <3>1, <4>1
    <3>2. CASE k # i
      <4>1. k \in 1 .. i - 1 /\ (n + 1) - i + k = n - (i - 1) + k /\ n - (i - 1) + k \in 1 .. n
        BY <1>2, <1>3, <3>2
      <4> QED
        BY <1>2, <2>1, <4>1
    <3> QED
      BY <3>1, <3>2
  <2> HIDE DEF n
  <2>3. CASE i < Len(fileList)
    <3>1. pc' = "convert" /\ file' = fileList[i + 1] /\ i' = i + 1
      BY <1>4, <1>6, <2>3 DEF Passed
    <3>2. i' \in 1 .. Len(fileList') /\ i' - 1 <= Len(processList') /\ i' - 1 = i
      BY <1>1, <1>2, <1>3, <2>1, <2>3, <3>1 DEF n
    <3>3. \A k \in 1 .. i' - 1 : EntryOf(processList[Len(processList) - (i - 1) + k], fileList[k])'
      BY <1>1, <2>1, <2>2, <3>2 DEF EntryOf
    <3> QED
      BY <1>1, <1>2, <3>1, <3>2, <3>3 DEF ResultInv, FirstLoop, SecondLoop, HandInv, Converting, Within,
         After, Average, RegPcs
  <2>4. CASE ~ (i < Len(fileList))
    <3>1. i' = 1 /\ Onward(processList'[1], processList'[1], 0)
      BY <1>4, <1>6, <2>4 DEF Passed
    <3>2. /\ file' = processList'[1] /\ orig' = processList'[1] /\ pc' \in {"step", "mask", "copy"}
          /\ pc' = "step" => step' \in 1 .. 5
          /\ "reg" \in opts => pc' = "step" /\ step' <= 3
      BY <3>1, OnwardLemma
    <3>3. i = Len(fileList) /\ Old' = (n + 1) - i /\ Old' \in Nat
      BY <1>1, <1>2, <1>3, <2>1, <2>4 DEF Old, n
    <3>4. ~ Converting' /\ ~ After'
      BY <3>2 DEF Converting, After, Average
    <3>5. ASSUME NEW k \in 1 .. Len(fileList)
          PROVE  EntryOf(processList'[Old' + k], fileList[k]) /\ ~ (Old' + k < i')
      <4>1. k \in 1 .. i /\ (n + 1) - i + k = Old' + k /\ ~ (Old' + k < 1)
        BY <1>3, <3>3 DEF n
      <4> QED
        BY <2>2, <3>1, <4>1
    <3>6. fileList' # <<>> /\ Len(fileList') <= Len(processList')
      BY <1>1, <1>2, <1>3, <2>1, <3>3 DEF n
    <3>7. SecondLoop'
      BY <1>1, <3>4, <3>5, <3>6 DEF SecondLoop, EntryOf
    <3>8. HandInv'
      <4>1. ASSUME i' > Old' PROVE file' \in DOMAIN disk
        <5>1. Old' + 1 = 1 /\ 1 \in 1 .. Len(fileList)
          BY <1>2, <1>3, <3>1, <3>3, <4>1
        <5>2. EntryOf(processList'[1], fileList[1])
          BY <3>5, <5>1
        <5> QED
          BY <3>2, <5>2 DEF EntryOf
      <4>2. OnlyReg' => pc' = "step" /\ step' <= 3
        BY <1>1, <3>2 DEF OnlyReg
      <4> QED
        BY <1>1, <3>2, <4>1, <4>2 DEF HandInv, Unregistered, RegPcs
    <3> QED
      BY <1>1, <1>2, <3>4, <3>7, <3>8 DEF ResultInv, FirstLoop
  <2> QED
    BY <2>3, <2>4
<1> QED
  BY <1>5, <1>6, CheckCases

\* A file with steps before its name, and other than a result, takes nothing
\* from the entries and the results.
LEMMA AsideKeeps ==
    ASSUME NEW from, NEW to, NEW image, to.steps # <<>>, disk' = Command(from, to, image),
           UNCHANGED <<fileList, processList, made>>, OnlyReg' = OnlyReg, Wanted' = Wanted,
           Inputs \subseteq DOMAIN disk
    PROVE  /\ \A e, f : EntryOf(e, f) /\ f \in Inputs =>
                 /\ e \in DOMAIN disk' /\ e.steps = <<>> /\ e.base \in Names(f)
                 /\ disk'[e] = disk[e] /\ disk'[e].of = disk'[f].of
           /\ to.steps # <<"preproc">> => \A e : MadeOf(e) /\ e \in DOMAIN disk /\ e.steps = <<>> =>
                 \E d \in Dirs \cup {Root} : LET p == Path(d, <<"preproc">>, e.base) IN
                    /\ p \in made \cap DOMAIN disk'
                    /\ disk'[p].of = disk'[e].of
                    /\ OnlyReg => disk'[p].image = Wanted
<1>1. \A p \in DOMAIN disk : p # to => p \in DOMAIN disk' /\ disk'[p] = disk[p]
  BY CommandKeeps
<1>2. \A f \in Inputs : f \in DOMAIN disk /\ f # to
  BY InputShape
<1>3. ASSUME NEW e, NEW f \in Inputs, EntryOf(e, f)
      PROVE  /\ e \in DOMAIN disk' /\ e.steps = <<>> /\ e.base \in Names(f)
             /\ disk'[e] = disk[e] /\ disk'[e].of = disk'[f].of
  <2>1. e \in DOMAIN disk /\ e # to
    BY <1>3 DEF EntryOf
  <2> QED
    BY <1>1, <1>2, <1>3, <2>1 DEF EntryOf
<1>4. ASSUME to.steps # <<"preproc">>, NEW e, MadeOf(e), e \in DOMAIN disk, e.steps = <<>>
      PROVE  \E d \in Dirs \cup {Root} : LET p == Path(d, <<"preproc">>, e.base) IN
                /\ p \in made \cap DOMAIN disk'
                /\ disk'[p].of = disk'[e].of
                /\ OnlyReg => disk'[p].image = Wanted
  <2>1. PICK d \in Dirs \cup {Root} :
           /\ Path(d, <<"preproc">>, e.base) \in made \cap DOMAIN disk
           /\ disk[Path(d, <<"preproc">>, e.base)].of = disk[e].of
           /\ OnlyReg => disk[Path(d, <<"preproc">>, e.base)].image = Wanted
    BY <1>4 DEF MadeOf
  <2> DEFINE p == Path(d, <<"preproc">>, e.base)
  <2>2. p.steps = <<"preproc">>
    BY DEF Path
  <2> HIDE DEF p
  <2>3. p \in made \cap DOMAIN disk /\ p # to /\ e # to
    BY <1>4, <2>1, <2>2 DEF p
  <2>4. p \in DOMAIN disk' /\ disk'[p] = disk[p] /\ disk'[e] = disk[e]
    BY <1>1, <1>4, <2>3
  <2> QED
    BY <2>1, <2>3, <2>4 DEF p
<1> QED
  BY <1>3, <1>4

\* What the second loop leaves alone.
LEMMA EntryPlace ==
    ASSUME IndInv, Len(fileList) <= Len(processList), fileList # <<>>
    PROVE  /\ Len(fileList) \in Nat \ {0} /\ Len(processList) \in Nat /\ Old \in Nat
           /\ \A k \in 1 .. Len(fileList) : Old + k \in 1 .. Len(processList) /\ fileList[k] \in Inputs
                                            /\ fileList[k] \in ToSet(fileList)
           /\ \A n \in 1 .. Len(processList) : n > Old => n - Old \in 1 .. Len(fileList) /\ Old + (n - Old) = n
<1>1. fileList \in Seq(Inputs) /\ processList \in Seq(Paths)
  BY DEF IndInv, TypeInv
<1>2. Len(fileList) \in Nat \ {0} /\ Len(processList) \in Nat
  BY <1>1, EmptySeq, LenProperties
<1>3. \A k \in 1 .. Len(fileList) : fileList[k] \in Inputs /\ fileList[k] \in ToSet(fileList)
  BY ListPlace
<1>4. Old \in Nat /\ Old = Len(processList) - Len(fileList)
  BY <1>2 DEF Old
<1> HIDE DEF Old
<1> QED
  BY <1>2, <1>3, <1>4

\* The steps of the pipeline that write.
LEMMA StepResult ==
    ASSUME IndInv, SourceInv, AsideInv, ResultInv, Clean',
           Correction \/ Filtering \/ (Resample /\ template # -1)
    PROVE  ResultInv'
<1>1. /\ Clean /\ UNCHANGED <<fileList, outputDir, loopList, opts, dict>>
      /\ pc \in {"step", "filter", "resample"} /\ OnlyReg' = OnlyReg /\ Wanted' = Wanted
      /\ UNCHANGED <<processList, i, made>>
  BY RunClean DEF Processing, Correction, Filtering, Resample, StepVars
<1>2. Within /\ ~ After
  BY <1>1 DEF Within, After, Average, RegPcs
<1>3. /\ outputDir # Root /\ loopList = None /\ fileList # <<>> /\ Len(fileList) <= Len(processList)
      /\ \A k \in 1 .. Len(fileList) :
           /\ EntryOf(processList[Old + k], fileList[k])
           /\ Old + k < i => MadeOf(processList[Old + k])
      /\ pc = "step" => step \in 1 .. 5
      /\ pc = "filter" => step \in 4 .. 5 /\ target.dir # Root
      /\ pc = "resample" => step = 3 /\ target.dir # Root /\ (OnlyReg => ana = Wanted)
      /\ step \in 1 .. 5
      /\ i > Old => /\ file \in DOMAIN disk /\ disk[file].of = disk[orig].of
                    /\ OnlyReg => step <= 3 \/ disk[file].image = Wanted
  <2>1. SecondLoop /\ HandInv /\ outputDir # Root /\ loopList = None
    BY <1>1 DEF ResultInv
  <2>2. /\ pc = "step" => step \in 1 .. 5
        /\ pc = "filter" => step \in 4 .. 5 /\ target.dir # Root
        /\ pc = "resample" => step = 3 /\ target.dir # Root /\ (OnlyReg => ana = Wanted)
        /\ i > Old => /\ file \in DOMAIN disk /\ disk[file].of = disk[orig].of
                      /\ OnlyReg => Unregistered \/ disk[file].image = Wanted
    BY <1>2, <2>1 DEF HandInv, RegPcs
  <2>3. step \in 1 .. 5 /\ (Unregistered => step <= 3)
    BY <1>1, <2>2 DEF Unregistered, RegPcs
  <2>4. /\ fileList # <<>> /\ Len(fileList) <= Len(processList)
        /\ \A k \in 1 .. Len(fileList) :
             /\ EntryOf(processList[Old + k], fileList[k])
             /\ Old + k < i => MadeOf(processList[Old + k])
    BY <1>2, <2>1 DEF SecondLoop
  <2> QED
    BY <2>1, <2>2, <2>3, <2>4
<1>4. PICK out, image :
        /\ disk' = Command(file, out, image) /\ out.steps \notin {<<>>, <<"preproc">>} /\ out.dir # Root
        /\ Onward(out, orig, step)
        /\ IF step = 3 THEN OnlyReg => image = Wanted ELSE image = disk[file].image
  <2>1. CASE Correction
    <3>1. step # 3 /\ pc = "step" /\ Pipeline[step] \in Steps \ {"preproc"}
      BY <2>1, Numbers, StepNames DEF Correction
    <3>2. /\ disk' = Command(file, OutFile(Pipeline[step]), disk[file].image)
          /\ Onward(OutFile(Pipeline[step]), orig, step)
      BY <2>1 DEF Correction, Written, ImageOf
    <3>3. OutFile(Pipeline[step]).steps \notin {<<>>, <<"preproc">>} /\ OutFile(Pipeline[step]).dir # Root
      BY <1>3, <3>1, AsidePaths
    <3> QED
      BY <3>1, <3>2, <3>3
  <2>2. CASE Filtering
    <3>1. /\ disk' = Command(file, target, disk[file].image) /\ Onward(target, orig, step)
          /\ pc = "filter"
      BY <2>2 DEF Filtering, Written, ImageOf
    <3>2. step # 3 /\ target.dir # Root /\ target.steps \notin {<<>>, <<"preproc">>}
      BY <1>3, <3>1 DEF AsideInv
    <3> QED
      BY <3>1, <3>2
  <2>3. CASE Resample /\ template # -1
    <3>1. disk' = Command(file, target, ana) /\ Onward(target, orig, step) /\ pc = "resample"
      BY <2>3 DEF Resample, Written
    <3>2. /\ step = 3 /\ target.dir # Root /\ target.steps \notin {<<>>, <<"preproc">>}
          /\ OnlyReg => ana = Wanted
      BY <1>3, <3>1 DEF AsideInv, RegPcs
    <3> QED
      BY <3>1, <3>2
  <2> QED
    BY <2>1, <2>2, <2>3
<1>5. /\ file' = out /\ orig' = orig /\ pc' \in {"step", "mask", "copy"}
      /\ pc' = "step" => step' \in 1 .. 5
      /\ "reg" \in opts /\ step < 3 => pc' = "step" /\ step' <= 3
  BY <1>3, <1>4, OnwardLemma
<1>6. Within' /\ ~ After' /\ ~ Converting' /\ Old' = Old
  BY <1>1, <1>5 DEF Within, After, Average, Converting, Old, RegPcs
<1>7. Inputs \subseteq DOMAIN disk
  BY <1>1 DEF SourceInv, Clean
<1>8. /\ \A e, f : EntryOf(e, f) /\ f \in Inputs =>
                 /\ e \in DOMAIN disk' /\ e.steps = <<>> /\ e.base \in Names(f)
                 /\ disk'[e] = disk[e] /\ disk'[e].of = disk'[f].of
      /\ \A e : MadeOf(e) /\ e \in DOMAIN disk /\ e.steps = <<>> =>
                 \E d \in Dirs \cup {Root} : LET p == Path(d, <<"preproc">>, e.base) IN
                    /\ p \in made \cap DOMAIN disk'
                    /\ disk'[p].of = disk'[e].of
                    /\ OnlyReg => disk'[p].image = Wanted
  BY <1>1, <1>4, <1>7, AsideKeeps
<1>9. SecondLoop'
  <2>1. ASSUME NEW k \in 1 .. Len(fileList)
        PROVE  /\ EntryOf(processList[Old + k], fileList[k])'
               /\ (After \/ Old + k < i => MadeOf(processList[Old + k]))'
    <3> DEFINE e == processList[Old + k]
    <3>1. e' = e /\ EntryOf(e, fileList[k]) /\ fileList[k] \in Inputs /\ (Old + k < i => MadeOf(e))
      BY <1>1, <1>3, <1>6, EntryPlace
    <3> HIDE DEF e
    <3>2. EntryOf(e, fileList[k])'
      BY <1>1, <1>8, <3>1 DEF EntryOf
    <3>3. MadeOf(e) => MadeOf(e)'
      <4> SUFFICES ASSUME MadeOf(e) PROVE MadeOf(e)'
        OBVIOUS
      <4>1. e \in DOMAIN disk /\ e.steps = <<>>
        BY <3>1 DEF EntryOf
      <4>2. \E d \in Dirs \cup {Root} : LET p == Path(d, <<"preproc">>, e.base) IN
                    /\ p \in made \cap DOMAIN disk'
                    /\ disk'[p].of = disk'[e].of
                    /\ OnlyReg => disk'[p].image = Wanted
        BY <1>8, <4>1
      <4> QED
        BY <1>1, <3>1, <4>2 DEF MadeOf
    <3> QED
      BY <1>1, <1>6, <3>1, <3>2, <3>3 DEF e
  <2> QED
    BY <1>1, <1>3, <2>1 DEF SecondLoop
<1>10. HandInv'
  <2> SUFFICES ASSUME i > Old
               PROVE  /\ out \in DOMAIN disk' /\ disk'[out].of = disk'[orig].of
                      /\ OnlyReg => (pc' = "step" /\ step' <= 3) \/ disk'[out].image = Wanted
    BY <1>1, <1>5, <1>6 DEF HandInv, Unregistered, RegPcs
  <2>1. out \in DOMAIN disk' /\ disk'[out].of = disk[file].of /\ disk'[out].image = image
    BY <1>3, <1>4, CommandWrites
  <2>2. disk'[orig] = disk[orig]
    <3>1. i \in 1 .. Len(processList) /\ orig = processList[i]
      BY <1>1, LenProperties DEF IndInv, TypeInv, RunInv, LoopPcs, RegPcs
    <3>2. PICK k \in 1 .. Len(fileList) : Old + k = i /\ fileList[k] \in Inputs
      BY <1>3, <3>1, EntryPlace
    <3> QED
      BY <1>3, <1>8, <3>1, <3>2
  <2>3. ASSUME OnlyReg PROVE (pc' = "step" /\ step' <= 3) \/ disk'[out].image = Wanted
    <3>1. CASE step < 3
      BY <1>5, <2>3, <3>1 DEF OnlyReg
    <3>2. CASE step = 3
      BY <1>4, <2>1, <2>3, <3>2
    <3>3. CASE step > 3
      BY <1>3, <1>4, <2>1, <2>3, <3>3
    <3> QED
      BY <1>3, <3>1, <3>2, <3>3
  <2> QED
    BY <1>3, <2>1, <2>2, <2>3
<1> QED
  BY <1>1, <1>3, <1>6, <1>9, <1>10 DEF ResultInv, FirstLoop

\* A step that changes nothing of the run but where it stands.
LEMMA StandResult ==
    ASSUME ResultInv, Clean, UNCHANGED <<fileList, outputDir, loopList, opts, dict>>,
           UNCHANGED <<processList, i, made, disk>>,
           OnlyReg' = OnlyReg, Wanted' = Wanted, ~ Converting', Within' => Within,
           After' => After, Within \/ After, HandInv'
    PROVE  ResultInv'
<1>1. /\ outputDir # Root /\ loopList = None /\ fileList # <<>> /\ Len(fileList) <= Len(processList)
      /\ \A k \in 1 .. Len(fileList) :
           /\ EntryOf(processList[Old + k], fileList[k])
           /\ After \/ Old + k < i => MadeOf(processList[Old + k])
  BY DEF ResultInv, SecondLoop
<1>2. Old' = Old
  BY DEF Old
<1>3. ASSUME NEW k \in 1 .. Len(fileList)
      PROVE  /\ EntryOf(processList[Old + k], fileList[k])'
             /\ (After \/ Old + k < i => MadeOf(processList[Old + k]))'
  <2> DEFINE e == processList[Old + k]
  <2>1. e' = e /\ EntryOf(e, fileList[k]) /\ (After \/ Old + k < i => MadeOf(e))
    BY <1>1, <1>2
  <2> HIDE DEF e
  <2>2. EntryOf(e, fileList[k])'
    BY <2>1 DEF EntryOf
  <2>3. MadeOf(e) => MadeOf(e)'
    BY <2>1 DEF MadeOf
  <2> QED
    BY <1>2, <2>1, <2>2, <2>3 DEF e
<1>4. SecondLoop'
  BY <1>1, <1>3 DEF SecondLoop
<1> QED
  BY <1>1, <1>4 DEF ResultInv, FirstLoop

\* What a step does before it writes.
LEMMA RestResult ==
    ASSUME IndInv, ResultInv, Clean',
           FilterPath \/ Registration \/ Registering \/ (Resample /\ template = -1)
    PROVE  ResultInv'
<1>1. RestOfStep /\ Clean /\ UNCHANGED <<fileList, outputDir, loopList, opts, dict>>
      /\ OnlyReg' = OnlyReg /\ Wanted' = Wanted /\ pc' # "idle"
  BY RestRun, RunClean DEF Processing
<1>2. /\ pc \in {"step"} \cup RegPcs /\ pc' \in {"filter"} \cup RegPcs
      /\ UNCHANGED <<processList, i, made, disk, file, orig, step>>
  BY <1>1 DEF RestOfStep, StepVars
<1>3. Within /\ Within' /\ ~ After' /\ ~ Converting' /\ Old' = Old
  <2>1. /\ pc \in {"step", "align", "aligned", "register", "result", "view", "resample"}
        /\ pc' \in {"filter", "align", "aligned", "register", "result", "view", "resample"}
    BY <1>2 DEF RegPcs
  <2>2. ~ Average /\ ~ Average'
    BY <2>1 DEF Average
  <2>3. Within /\ Within'
    BY <1>2, <2>2 DEF Within
  <2>4. ~ After' /\ ~ Converting'
    BY <2>1, <2>2 DEF After, Converting
  <2>5. Old' = Old
    BY <1>1, <1>2 DEF Old
  <2> QED
    BY <2>3, <2>4, <2>5
<1>4. /\ HandInv /\ outputDir # Root
  BY <1>1 DEF ResultInv
<1>5. /\ pc' = "filter" => step \in 4 .. 5
      /\ pc' \in RegPcs => step = 3 /\ (OnlyReg => ana' = Wanted)
      /\ target'.dir # Root
      /\ OnlyReg => (Unregistered => Unregistered' \/ step > 3)
  <2>1. pc = "step" => step \in 1 .. 5
    BY <1>3, <1>4 DEF HandInv
  <2>2. CASE FilterPath
    <3>1. pc = "step" /\ pc' = "filter" /\ Pipeline[step] \in {"sfilter", "tfilter"}
          /\ target' = OutFile(Pipeline[step])
      BY <2>2 DEF FilterPath
    <3>2. step \in 4 .. 5
      BY <2>1, <3>1, Filters
    <3>3. target'.dir # Root
      BY <1>4, <3>1 DEF OutFile, Path
    <3> QED
      BY <3>1, <3>2, <3>3 DEF RegPcs
  <2>3. CASE Registration
    <3>1. pc = "step" /\ Pipeline[step] = "reg" /\ target' = OutFile("reg") /\ ana' = Wanted
          /\ pc' \in RegPcs
      BY <1>1, <2>3 DEF Registration, Raise, CurrentImage, Wanted, RegPcs
    <3>2. step = 3
      BY <2>1, <3>1, Numbers
    <3>3. target'.dir # Root
      BY <1>4, <3>1 DEF OutFile, Path
    <3> QED
      BY <3>1, <3>2, <3>3 DEF RegPcs, Unregistered
  <2>4. CASE Registering
    <3>1. pc \in RegPcs /\ pc' \in RegPcs /\ UNCHANGED <<target, ana>>
      BY <1>1, <2>4, StageCases
    <3>2. step = 3 /\ (OnlyReg => ana = Wanted) /\ target.dir # Root
      BY <1>3, <1>4, <3>1 DEF HandInv
    <3> QED
      BY <3>1, <3>2 DEF RegPcs, Unregistered
  <2>5. CASE Resample /\ template = -1
    BY <1>1, <2>5 DEF Resample, Raise
  <2> QED
    BY <2>2, <2>3, <2>4, <2>5
<1>6. ASSUME i > Old
      PROVE  /\ file \in DOMAIN disk /\ disk[file].of = disk[orig].of
             /\ OnlyReg => Unregistered' \/ disk[file].image = Wanted
  <2>1. /\ file \in DOMAIN disk /\ disk[file].of = disk[orig].of
        /\ OnlyReg => Unregistered \/ disk[file].image = Wanted
    BY <1>3, <1>4, <1>6 DEF HandInv
  <2>2. Unregistered => step <= 3
    BY <1>2, <1>3, <1>4 DEF HandInv, Unregistered
  <2>3. pc' = "filter" => ~ (step <= 3)
    BY <1>5
  <2>4. pc' \in RegPcs => Unregistered'
    BY DEF Unregistered
  <2> QED
    BY <1>2, <2>1, <2>2, <2>3, <2>4
<1>7. pc' # "step"
  BY <1>2 DEF RegPcs
<1>8. HandInv'
  BY <1>1, <1>2, <1>3, <1>5, <1>6, <1>7 DEF HandInv
<1> QED
  BY <1>1, <1>2, <1>3, <1>8, StandResult

\* A mask changes nothing of the run but where it stands.
LEMMA MaskResult ==
    ASSUME IndInv, ResultInv, Clean',
           MaskPath \/ TimeStep \/ MaskAverage \/ CreateMask \/ MaskRound
    PROVE  ResultInv'
<1>1. /\ Clean /\ UNCHANGED <<fileList, outputDir, loopList, opts, dict>>
      /\ OnlyReg' = OnlyReg /\ Wanted' = Wanted
  BY RunClean DEF Processing
<1>2. UNCHANGED <<processList, i, made, disk, file, orig>>
  BY DEF MaskPath, TimeStep, MaskAverage, CreateMask, MaskRound, MaskVars, InPlace
<1>3. /\ ~ Converting' /\ (Within' => Within) /\ (After' => After) /\ (Within \/ After)
      /\ pc \notin {"step", "filter"} \cup RegPcs /\ pc' \notin {"step", "filter"} \cup RegPcs
  <2>1. CASE MaskPath \/ TimeStep \/ MaskAverage
    <3>1. pc = "timestep" => mask.from = "tmpTimeStep.v"
      BY DEF IndInv, RunInv
    <3> QED
      BY <2>1, <3>1 DEF MaskPath, TimeStep, MaskAverage, Converting, Within, After, Average, RegPcs,
         maskVar
  <2>2. CASE CreateMask \/ MaskRound
    BY <2>2 DEF CreateMask, MaskRound, MaskDone, Converting, Within, After, Average, RegPcs
  <2> QED
    BY <2>1, <2>2
<1>4. Within /\ i > Old => /\ file \in DOMAIN disk /\ disk[file].of = disk[orig].of
                           /\ OnlyReg => disk[file].image = Wanted
  BY <1>1, <1>3 DEF ResultInv, HandInv, Unregistered
<1>5. Old' = Old
  BY <1>1, <1>2 DEF Old
<1>6. HandInv'
  BY <1>1, <1>2, <1>3, <1>4, <1>5 DEF HandInv
<1> QED
  BY <1>1, <1>2, <1>3, <1>6, StandResult

\* The result is written under the name of the image; only the same image,
\* listed twice, is written over by it.
LEMMA CopyResult ==
    ASSUME IndInv, SourceInv, ResultInv, Copy, Clean'
    PROVE  ResultInv'
<1> DEFINE out == Path(outputDir, <<"preproc">> \o orig.steps, orig.base)
<1>1. /\ Clean /\ UNCHANGED <<fileList, outputDir, loopList, opts, dict, processList>>
      /\ OnlyReg' = OnlyReg /\ Wanted' = Wanted /\ pc = "copy"
      /\ disk' = Command(file, out, disk[file].image) /\ made' = made \cup {out}
  BY RunClean DEF Processing, Copy, temps, ImageOf
<1>2. Within /\ ~ After
  BY <1>1 DEF Within, After, Average, RegPcs
<1>3. /\ outputDir # Root /\ loopList = None /\ fileList # <<>> /\ Len(fileList) <= Len(processList)
      /\ \A k \in 1 .. Len(fileList) :
           /\ EntryOf(processList[Old + k], fileList[k])
           /\ Old + k < i => MadeOf(processList[Old + k])
      /\ i > Old => /\ file \in DOMAIN disk /\ disk[file].of = disk[orig].of
                    /\ OnlyReg => disk[file].image = Wanted
  BY <1>1, <1>2 DEF ResultInv, SecondLoop, HandInv, Unregistered, RegPcs
<1>4. /\ Len(fileList) \in Nat \ {0} /\ Len(processList) \in Nat /\ Old \in Nat
      /\ \A k \in 1 .. Len(fileList) : Old + k \in 1 .. Len(processList) /\ fileList[k] \in Inputs
                                       /\ fileList[k] \in ToSet(fileList)
      /\ \A n \in 1 .. Len(processList) : n > Old => n - Old \in 1 .. Len(fileList) /\ Old + (n - Old) = n
  BY <1>3, EntryPlace
<1>5. i \in 1 .. Len(processList) /\ orig = processList[i] /\ outputDir \in Dirs \cup {Root}
  BY <1>1, LenProperties DEF IndInv, TypeInv, RunInv, LoopPcs, OutDirs
<1>6. out.steps # <<>> /\ out.dir = outputDir
  BY AsidePaths
<1>7. Apart /\ Inputs \subseteq DOMAIN disk
  BY <1>1 DEF SourceInv, Clean
<1>8. Old' = Old
  BY <1>1 DEF Old
\* The entry in hand, if it is one of this run.
<1>9. ASSUME i > Old
      PROVE  /\ \E k \in 1 .. Len(fileList) : i = Old + k /\ EntryOf(orig, fileList[k])
             /\ out = Path(outputDir, <<"preproc">>, orig.base)
             /\ out \in DOMAIN disk' /\ disk'[out].of = disk[orig].of
             /\ OnlyReg => disk'[out].image = Wanted
  <2>1. \E k \in 1 .. Len(fileList) : i = Old + k /\ EntryOf(orig, fileList[k])
    BY <1>3, <1>4, <1>5, <1>9
  <2>2. orig.steps = <<>>
    BY <2>1 DEF EntryOf
  <2>3. <<"preproc">> \o <<>> = <<"preproc">>
    OBVIOUS
  <2>4. out = Path(outputDir, <<"preproc">>, orig.base)
    BY <2>2, <2>3
  <2> HIDE DEF out
  <2>5. /\ out \in DOMAIN disk' /\ disk'[out].of = disk[file].of
        /\ disk'[out].image = disk[file].image
    BY <1>1, <1>3, <1>6, <1>9, CommandWrites
  <2> QED
    BY <1>3, <1>9, <2>1, <2>4, <2>5
<1> HIDE DEF out
<1>10. /\ \A p \in DOMAIN disk : p # out => p \in DOMAIN disk' /\ disk'[p] = disk[p]
       /\ \A f \in Inputs : f # out
  BY <1>1, <1>6, CommandKeeps, InputShape
<1>11. ASSUME NEW e, NEW f \in Inputs, EntryOf(e, f)
       PROVE  /\ e \in DOMAIN disk' /\ e.steps = <<>> /\ e.base \in Names(f)
              /\ disk'[e] = disk[e] /\ disk'[e].of = disk'[f].of
  <2>1. e \in DOMAIN disk /\ e # out
    BY <1>6, <1>11 DEF EntryOf
  <2>2. f \in DOMAIN disk /\ f # out
    BY <1>7, <1>10
  <2> QED
    BY <1>10, <1>11, <2>1, <2>2 DEF EntryOf
<1>12. ASSUME NEW k \in 1 .. Len(fileList), Old + k <= i, NEW e, e = processList[Old + k]
       PROVE  \E d \in Dirs \cup {Root} : LET p == Path(d, <<"preproc">>, e.base) IN
                 /\ p \in made' \cap DOMAIN disk'
                 /\ disk'[p].of = disk'[e].of
                 /\ OnlyReg => disk'[p].image = Wanted
  <2>1. EntryOf(e, fileList[k]) /\ fileList[k] \in Inputs /\ fileList[k] \in ToSet(fileList)
    BY <1>3, <1>4, <1>12
  <2>2. disk'[e] = disk[e] /\ e.base \in Names(fileList[k])
    BY <1>11, <2>1
  <2>3. i > Old
    <3>1. k \in Nat /\ k > 0 /\ i \in Nat
      BY <1>4, <1>5
    <3> QED
      BY <1>4, <1>12, <3>1
  <2>4. PICK l \in 1 .. Len(fileList) : i = Old + l /\ EntryOf(orig, fileList[l])
    BY <1>9, <2>3
  <2>5. CASE e.base = orig.base /\ disk[e].of = disk[orig].of /\ (OnlyReg => e = orig)
    <3>1. /\ out = Path(outputDir, <<"preproc">>, e.base)
          /\ out \in made' \cap DOMAIN disk' /\ disk'[out].of = disk'[e].of
          /\ OnlyReg => disk'[out].image = Wanted
      BY <1>1, <1>9, <2>2, <2>3, <2>5
    <3> QED
      BY <1>5, <3>1
  <2>6. CASE Old + k = i
    BY <1>5, <1>12, <2>5, <2>6
  <2>7. CASE Old + k # i
    <3>1. Old + k < i
      BY <1>4, <1>5, <1>12, <2>7
    <3>2. PICK d \in Dirs \cup {Root} :
             /\ Path(d, <<"preproc">>, e.base) \in made \cap DOMAIN disk
             /\ disk[Path(d, <<"preproc">>, e.base)].of = disk[e].of
             /\ OnlyReg => disk[Path(d, <<"preproc">>, e.base)].image = Wanted
      BY <1>3, <1>12, <3>1 DEF MadeOf
    <3> DEFINE p == Path(d, <<"preproc">>, e.base)
    <3>3. CASE p # out
      <4> HIDE DEF p
      <4>1. p \in made \cap DOMAIN disk
        BY <3>2 DEF p
      <4>2. p \in made' \cap DOMAIN disk' /\ disk'[p] = disk[p]
        BY <1>1, <1>10, <3>3, <4>1
      <4> QED
        BY <2>2, <3>2, <4>2 DEF p
    <3>4. CASE p = out
      <4>1. e.base = orig.base
        BY <1>9, <2>3, <3>4 DEF Path
      <4>2. fileList[l] \in ToSet(fileList) /\ orig.base \in Names(fileList[l])
            /\ disk[orig].of = disk[fileList[l]].of
        BY <1>4, <2>4 DEF EntryOf
      <4>3. fileList[k] = fileList[l]
        BY <1>7, <2>1, <2>2, <4>1, <4>2, OneName
      <4>4. disk[e].of = disk[orig].of
        BY <2>1, <4>2, <4>3 DEF EntryOf
      <4>5. ~ OnlyReg
        <5>1. k # l
          BY <1>4, <2>4, <3>1
        <5>2. Len(fileList) = 1 => k = 1 /\ l = 1
          OBVIOUS
        <5> QED
          BY <5>1, <5>2 DEF OnlyReg
      <4> QED
        BY <2>5, <4>1, <4>4, <4>5
    <3> QED
      BY <3>3, <3>4
  <2> QED
    BY <2>6, <2>7
<1>13. ASSUME NEW k \in 1 .. Len(fileList)
       PROVE  /\ EntryOf(processList[Old + k], fileList[k])'
              /\ Old + k <= i => MadeOf(processList[Old + k])'
  <2> DEFINE e == processList[Old + k]
  <2>1. e' = e /\ EntryOf(e, fileList[k]) /\ fileList[k] \in Inputs
    BY <1>1, <1>3, <1>4, <1>8
  <2>2. Old + k <= i =>
           \E d \in Dirs \cup {Root} : LET p == Path(d, <<"preproc">>, e.base) IN
                 /\ p \in made' \cap DOMAIN disk'
                 /\ disk'[p].of = disk'[e].of
                 /\ OnlyReg => disk'[p].image = Wanted
    BY <1>12
  <2> HIDE DEF e
  <2>3. EntryOf(e, fileList[k])'
    BY <1>1, <1>11, <2>1 DEF EntryOf
  <2>4. Old + k <= i => MadeOf(e)'
    BY <1>1, <2>1, <2>2 DEF MadeOf
  <2> QED
    BY <2>3, <2>4 DEF e
<1>14. CASE i < Len(processList)
  <2>1. i' = i + 1 /\ Onward(processList[i + 1], processList[i + 1], 0)
    BY <1>14 DEF Copy
  <2>2. /\ file' = processList[i + 1] /\ orig' = processList[i + 1] /\ pc' \in {"step", "mask", "copy"}
        /\ pc' = "step" => step' \in 1 .. 5
        /\ "reg" \in opts => pc' = "step" /\ step' <= 3
    BY <2>1, OnwardLemma
  <2>3. ~ Converting' /\ ~ After'
    BY <2>2 DEF Converting, After, Average
  <2>4. ASSUME NEW k \in 1 .. Len(fileList), Old + k < i' PROVE MadeOf(processList[Old + k])'
    BY <1>4, <1>5, <1>13, <2>1, <2>4
  <2>5. SecondLoop'
    BY <1>1, <1>3, <1>8, <1>13, <2>3, <2>4 DEF SecondLoop
  <2>6. HandInv'
    <3>1. ASSUME i' > Old PROVE file' \in DOMAIN disk'
      <4>1. i + 1 \in 1 .. Len(processList) /\ i + 1 > Old
        BY <1>4, <1>5, <1>14, <2>1, <3>1
      <4>2. PICK k \in 1 .. Len(fileList) : Old + k = i + 1 /\ fileList[k] \in Inputs
        BY <1>4, <4>1
      <4>3. EntryOf(file', fileList[k])
        BY <1>3, <2>2, <4>2
      <4> QED
        BY <1>11, <4>2, <4>3
    <3>2. OnlyReg' => pc' = "step" /\ step' <= 3
      BY <1>1, <2>2 DEF OnlyReg
    <3> QED
      BY <1>1, <1>8, <1>11, <2>2, <3>1, <3>2 DEF HandInv, Unregistered, RegPcs
  <2> QED
    BY <1>1, <1>3, <2>3, <2>5, <2>6 DEF ResultInv, FirstLoop
<1>15. CASE ~ (i < Len(processList))
  <2>1. pc' \in {"average", "finish"}
    BY <1>15 DEF Copy
  <2>2. ~ Converting' /\ ~ Within'
    BY <2>1 DEF Converting, Within, RegPcs
  <2>3. \A k \in 1 .. Len(fileList) : Old + k <= i
    BY <1>4, <1>5, <1>15
  <2>4. SecondLoop'
    BY <1>1, <1>3, <1>8, <1>13, <2>3 DEF SecondLoop
  <2> QED
    BY <1>1, <1>3, <2>2, <2>4 DEF ResultInv, FirstLoop, HandInv
<1> QED
  BY <1>14, <1>15

\* Every step.
LEMMA ResultStep ==
    ASSUME IndInv, SourceInv, AsideInv, ResultInv, [Next]_vars
    PROVE  ResultInv'
<1> SUFFICES ASSUME Clean' PROVE ResultInv'
  BY DEF ResultInv
<1>1. CASE User
  BY <1>1, UserResult
<1>2. CASE Start
  BY <1>2, StartResult
<1>3. CASE Finish
  BY <1>3 DEF Finish, Clean, Busy
<1>4. CASE Processing
  BY <1>3, <1>4, TestResult, ConvertResult, CheckResult, StepResult, RestResult, MaskResult,
     CopyResult DEF Processing
<1>5. CASE UNCHANGED vars
  <2>1. /\ UNCHANGED <<fileList, dict, opts, outputDir, loopList, touched, closed, pc, file, orig, i,
                       step, target, ana, processList, mask, disk, made>>
    BY <1>5 DEF vars, lists, form, loop, temps, maskVar, files
  <2>2. Clean' = Clean /\ Converting' = Converting /\ Within' = Within /\ After' = After
    BY <2>1 DEF Clean, Busy, Apart, Converting, Within, After, Average
  <2>3. FirstLoop' = FirstLoop
    BY <2>1, <2>2 DEF FirstLoop, EntryOf
  <2>4. Old' = Old /\ OnlyReg' = OnlyReg /\ Wanted' = Wanted
    BY <2>1 DEF Old, OnlyReg, Wanted
  <2>5. SecondLoop' = SecondLoop
    BY <2>1, <2>2, <2>4 DEF SecondLoop, EntryOf, MadeOf
  <2>6. HandInv' = HandInv
    BY <2>1, <2>2, <2>4 DEF HandInv, Unregistered
  <2> QED
    BY <2>1, <2>2, <2>3, <2>5, <2>6 DEF ResultInv
<1> QED
  BY <1>1, <1>2, <1>4, <1>5 DEF Next

-----------------------------------------------------------------------------
(* The theorems                                                            *)

\* The types, and where the processing stands: while a run is under way the
\* start button is off, the index stays in the list, and the search for a
\* threshold in its range, whatever the handlers do meanwhile.
THEOREM TypeCorrect == Spec => []TypeOK
<1>1. IndInv => TypeOK
  <2> SUFFICES ASSUME IndInv PROVE TypeOK
    OBVIOUS
  <2>1. ToSet(fileList) \subseteq Inputs /\ ToSet(processList) \subseteq Paths
    BY LenProperties, ElementOfSeq DEF IndInv, TypeInv, ToSet
  <2> QED
    BY <2>1 DEF IndInv, TypeInv, RunInv, TypeOK
<1> QED
  BY <1>1, InitInv, Inductive, PTL DEF Spec

\* The lists of the window and the list that is processed hold the same images,
\* each with the anatomical image the registration finds as long as nobody
\* lists an image twice.
THEOREM ListsAgree == Spec => []RowsAgree
<1>1. IndInv => RowsAgree
  BY DEF IndInv, ListInv
<1> QED
  BY <1>1, InitInv, Inductive, PTL DEF Spec

\* Leaving the program while nothing is processed, a run that has raised
\* included, takes away every file that was written but the results, the time
\* step of a mask, the header of an image whose check has failed and, after an
\* exception, the scratch files of the registration.
THEOREM NothingStays == Spec => []NothingLeft
<1>1. IndInv => NothingLeft
  BY DEF IndInv, TidyInv
<1> QED
  BY <1>1, InitInv, Inductive, PTL DEF Spec

\* A run that gets through its checks leaves a result of every image in the
\* list, under its name and going back to it and to no other, whatever is
\* clicked on meanwhile but what the property exempts; an only image is
\* registered with its own anatomical image.
THEOREM ResultsMade == Spec => []ResultsAreMade
<1>1. Init => SourceInv
  <2> SUFFICES ASSUME Init PROVE SourceInv
    OBVIOUS
  <2>1. DOMAIN disk = Inputs /\ \A f \in Inputs : disk[f].of = f /\ disk[f].image = None
    BY DEF Init
  <2> QED
    BY <2>1 DEF SourceInv
<1>2. Init => AsideInv /\ ResultInv
  BY DEF Init, AsideInv, RegPcs, ResultInv, Clean, Busy
<1>3. IndInv /\ SourceInv /\ AsideInv /\ ResultInv /\ [Next]_vars => SourceInv' /\ AsideInv' /\ ResultInv'
  BY SourceStep, AsideInvStep, ResultStep
<1>4. ASSUME IndInv, SourceInv, ResultInv PROVE ResultsAreMade
  <2> SUFFICES ASSUME pc = "finish", closed = "no", Distinct,
                      touched \cap {"remove", "load", "root", "late"} = {},
                      NEW f \in ToSet(fileList)
               PROVE  \E p \in made \cap DOMAIN disk :
                         /\ disk[p].of = f
                         /\ "reg" \in opts /\ touched = {} /\ Len(fileList) = 1 =>
                               disk[p].image = IF f \in DOMAIN dict THEN dict[f] ELSE None
    BY DEF ResultsAreMade
  <2>1. Clean /\ After
    BY DEF Clean, Busy, Apart, Names, Distinct, After
  <2>2. /\ fileList # <<>> /\ Len(fileList) <= Len(processList)
        /\ \A k \in 1 .. Len(fileList) :
             EntryOf(processList[Old + k], fileList[k]) /\ MadeOf(processList[Old + k])
    BY <1>4, <2>1 DEF ResultInv, SecondLoop
  <2>3. PICK k \in 1 .. Len(fileList) : fileList[k] = f
    BY <1>4, LenProperties DEF ToSet, IndInv, TypeInv
  <2>4. Old + k \in 1 .. Len(processList) /\ f \in Inputs
    BY <1>4, <2>2, <2>3, EntryPlace
  <2> DEFINE e == processList[Old + k]
  <2>5. EntryOf(e, f) /\ MadeOf(e) /\ e \in ToSet(processList)
    BY <1>4, <2>2, <2>3, <2>4, LenProperties DEF IndInv, TypeInv, ToSet
  <2> HIDE DEF e
  <2>6. disk[e].of = f
    <3> DEFINE g == disk[e].of
    <3>1. g = disk[f].of /\ e \in DOMAIN disk \cap ToSet(processList)
      BY <2>5 DEF EntryOf
    <3>2. disk[f].of = f \/ f.base = Stem[disk[f].of.base]
      BY <1>4, <2>4 DEF SourceInv
    <3>3. f # g => {f.base, Stem[f.base]} \cap {g.base, Stem[g.base]} = {}
      BY <3>1 DEF Distinct
    <3> QED
      BY <3>1, <3>2, <3>3
  <2>7. PICK d \in Dirs \cup {Root} :
           /\ Path(d, <<"preproc">>, e.base) \in made \cap DOMAIN disk
           /\ disk[Path(d, <<"preproc">>, e.base)].of = disk[e].of
           /\ OnlyReg => disk[Path(d, <<"preproc">>, e.base)].image = Wanted
    BY <2>5 DEF MadeOf
  <2>8. Len(fileList) = 1 => fileList[1] = f
    BY <2>3
  <2> QED
    BY <2>6, <2>7, <2>8 DEF OnlyReg, Wanted
<1> QED
  BY <1>1, <1>2, <1>3, <1>4, InitInv, Inductive, PTL DEF Spec
=============================================================================
