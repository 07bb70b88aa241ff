---------------------------- MODULE Preprocessor ----------------------------
(***************************************************************************)
(* Praktikum/vpreproc/vpreproc.py: a window with a list of images and a    *)
(* button that sends each of them through a pipeline of external programs. *)
(* There is one thread, but the processing calls app.processEvents() in    *)
(* progress() and debugOutput(), and every handler of the window may run   *)
(* there; only the start button is switched off meanwhile.                 *)
(*                                                                         *)
(* A path is a directory, the prefixes the steps have put before the name, *)
(* the name, and whether it ends in .v.  A file is worth the image it goes *)
(* back to and the anatomical image it was registered with.  What a        *)
(* handler raises is printed and ends the handler, no more.                *)
(***************************************************************************)
EXTENDS Integers, Sequences, FiniteSets

CONSTANTS Inputs,         \* the images the dialogues offer, as paths
          Stem,           \* Stem[b]: what rstrip(".nii"), rstrip(".v") leave of name b
          Dirs, Home,     \* output directories; the one the program starts in
          Root,           \* where files go when output_dir is "": not writable
          Images,         \* anatomical images
          Settings,       \* what may be ticked when the behaviour starts
          Clickable,      \* the boxes the user then changes
          NTemplates,     \* templates installed
          None,           \* no path, no image, no settings
          FirstThreshold, LastThreshold,  \* 70 and 255 in the program
          MaxFiles,       \* bound: entries in the list
          MaxEdits,       \* bound: what the user does apart from start and exit
          MaxStarts       \* bound: clicks on start

\* The steps in their order; a step is also the prefix it puts before a name.
Pipeline == <<"slicetime", "movcorr", "reg", "sfilter", "tfilter">>

\* The dialogues return what is in the file system: a name in a directory.  Of
\* "<stem>.v", the name of what was converted, rstrip leaves the stem.
ASSUME PreprocessorConstants ==
    /\ \A f \in Inputs :
         f \in [dir : {f.dir}, steps : {<<>>}, base : {f.base}, vista : BOOLEAN]
    /\ \A f, g \in Inputs : f.vista /\ f.base = Stem[g.base] => Stem[f.base] = f.base
    /\ Home \in Dirs /\ None \notin Images
    /\ NTemplates \in Nat
    /\ FirstThreshold \in Int /\ LastThreshold \in Int
    /\ FirstThreshold < LastThreshold

VARIABLES
    fileList,           \* myFileList
    rows, anaRows,      \* the entries of the two lists in the window
    dict,               \* anatomicalImageDict
    opts,               \* the boxes that are ticked
    outputDir, dirText, \* output_dir and the text shown for it
    template,           \* index in the list of templates, -1: no choice
    saved,              \* the file of settings
    pc,                 \* where start_processing stands
    file, orig,         \* the path in hand, and the one the loop took up
    i,                  \* which entry of the list a loop is at
    step,               \* the step of the pipeline that is next or under way
    target, ana,        \* the path a step will write, and its anatomical image
    loopList,           \* the old list the first loop goes on with, or None
    processList, removeList, removeEver,
    mask, threshold,    \* what createMask reads and writes, and its loop
    disk,               \* path -> the image its contents go back to
    work, masks,        \* scratch files in the working directory; masks made
    startEnabled,       \* the start button is switched on
    closed,             \* "no", or what went on when the user left
    touched, made,      \* history of a run: edits that matter, results written
    twice,              \* history: an image was listed that was already there
    edits, starts

lists   == <<fileList, rows, anaRows, dict>>
form    == <<opts, outputDir, dirText, template>>
loop    == <<pc, file, orig, i, step, target, ana>>
temps   == <<processList, removeList, removeEver>>
maskVar == <<mask, threshold>>
files   == <<disk, work, masks>>
vars == <<lists, form, saved, loop, loopList, temps, maskVar, files, startEnabled,
          closed, touched, made, twice, edits, starts>>

NoMask == [from |-> None, to |-> None]
SetTemplate(n) == IF n < NTemplates THEN n ELSE -1

Init ==
    /\ fileList = <<>> /\ rows = <<>> /\ anaRows = <<>> /\ dict = <<>>
    /\ opts \in Settings
    /\ outputDir = Home /\ dirText = Home
    /\ template = SetTemplate(2)
    /\ saved = None
    /\ pc = "idle" /\ file = None /\ orig = None /\ i = 0 /\ step = 0
    /\ target = None /\ ana = None
    /\ loopList = None
    /\ processList = <<>> /\ removeList = {} /\ removeEver = {}
    /\ mask = NoMask /\ threshold = 0
    /\ disk = [f \in Inputs |-> [of |-> f, image |-> None]]
    /\ work = {} /\ masks = {}
    /\ startEnabled = TRUE /\ closed = "no"
    /\ touched = {} /\ made = {} /\ twice = FALSE
    /\ edits = 0 /\ starts = 0

-----------------------------------------------------------------------------
(* The handlers.  They run between two events of an idle program, and      *)
(* where the processing lets events in; Exit hides the window first.       *)

Handler == closed = "no" /\ pc \notin {"copy", "round"}
Edit    == Handler /\ edits < MaxEdits /\ edits' = edits + 1
Busy    == pc # "idle"
Converting == pc \in {"convert", "converting", "check", "repetition", "slices"}
Touch(e) == touched' = IF Busy THEN touched \cup {e} ELSE touched
Without(s, r) == [j \in 1 .. Len(s) - 1 |-> IF j < r THEN s[j] ELSE s[j + 1]]
Forget(d, S)  == [x \in DOMAIN d \ S |-> d[x]]
With(d, x, v) == [y \in DOMAIN d \cup {x} |-> IF y = x THEN v ELSE d[y]]
ToSet(s) == {s[j] : j \in DOMAIN s}
Row(f, x) == [of |-> f, image |-> x]
InHand == <<loop, loopList, temps, maskVar, files, startEnabled, closed, made, starts>>

\* A dialogue that returns several names is as many additions; a directory
\* is an image that does not end in .v.
AddFile(f) ==
    /\ Edit
    /\ Len(fileList) < MaxFiles
    /\ fileList' = Append(fileList, f)
    /\ rows' = Append(rows, f)
    /\ anaRows' = Append(anaRows, Row(f, None))
    /\ IF Converting THEN UNCHANGED touched ELSE Touch("late")
    /\ twice' = (twice \/ f \in ToSet(fileList))
    /\ UNCHANGED <<dict, form, saved, InHand>>

\* list.remove takes the first equal entry, takeItem the selected row.
RemoveFromList(r) ==
    /\ Edit
    /\ LET f == rows[r]
           first == CHOOSE j \in DOMAIN fileList :
                        fileList[j] = f /\ \A k \in 1 .. j - 1 : fileList[k] # f
       IN  /\ fileList' = Without(fileList, first)
           /\ dict' = Forget(dict, {f})
    /\ rows' = Without(rows, r)
    /\ anaRows' = Without(anaRows, r)
    /\ Touch("remove")
    /\ UNCHANGED <<form, saved, twice, InHand>>

AddAnatomical(r, x) ==
    /\ Edit
    /\ dict' = With(dict, anaRows[r].of, x)
    /\ anaRows' = [anaRows EXCEPT ![r].image = x]
    /\ template' = SetTemplate(0)
    /\ Touch("image")
    /\ UNCHANGED <<fileList, rows, opts, outputDir, dirText, saved, twice, InHand>>

\* Without an entry del raises, which ends the handler before the template.
RemoveAnatomical(r) ==
    /\ Edit
    /\ LET f == anaRows[r].of
       IN  /\ dict' = Forget(dict, {f})
           /\ template' = IF DOMAIN dict = {f} THEN SetTemplate(3) ELSE template
    /\ anaRows' = [anaRows EXCEPT ![r].image = None]
    /\ Touch("image")
    /\ UNCHANGED <<fileList, rows, opts, outputDir, dirText, saved, twice, InHand>>

\* A dialogue that is cancelled returns "".
OpenOutputDir(d) ==
    /\ Edit
    /\ outputDir' = d /\ dirText' = d
    /\ IF d = Root THEN Touch("root") ELSE UNCHANGED touched
    /\ UNCHANGED <<lists, opts, template, saved, twice, InHand>>

\* Typing a directory: the signal is connected under a name no widget has.
TypeDirectory(d) ==
    /\ Edit
    /\ dirText' = d
    /\ UNCHANGED <<lists, opts, outputDir, template, saved, touched, twice, InHand>>

ChooseTemplate(n) ==
    /\ Edit
    /\ template' = n
    /\ UNCHANGED <<lists, opts, outputDir, dirText, saved, touched, twice, InHand>>

\* change_atlas_reg unticks the registration when there is no template.
AtlasReg(S) == IF NTemplates = 0 THEN S \ {"reg"} ELSE S

\* What ticking o leads to: the two kinds of mask exclude each other.
Ticked(o) == AtlasReg((opts \cup {o}) \ (IF o = "maskAverage" THEN {"maskEach"} ELSE
                                         IF o = "maskEach" THEN {"maskAverage"} ELSE {}))

Click(o) ==
    /\ Edit
    /\ opts' = IF o \in opts THEN opts \ {o} ELSE Ticked(o)
    /\ Touch("box")
    /\ UNCHANGED <<lists, outputDir, dirText, template, saved, twice, InHand>>

SaveSettings ==
    /\ Edit
    /\ saved' = [opts |-> opts \ {"script"}, dir |-> dirText,
                 files |-> fileList, template |-> template]
    /\ UNCHANGED <<lists, form, touched, twice, InHand>>

\* Mutant of Loaded: the list with the anatomical images is not emptied.
LoadedBelow(fs) == anaRows \o [j \in DOMAIN fs |-> Row(fs[j], None)]

\* The list of images with their anatomical images after loading.
Loaded(fs) == [j \in DOMAIN fs |-> Row(fs[j], None)]

\* A new list takes the place of the old one, over which a loop goes on; the
\* anatomical images stay in the dictionary and go from the window.
LoadSettings ==
    /\ Edit
    /\ saved # None
    /\ opts' = AtlasReg(saved.opts) \cup (opts \cap {"script"})
    /\ outputDir' = saved.dir /\ dirText' = saved.dir
    /\ fileList' = saved.files
    /\ rows' = saved.files
    /\ anaRows' = Loaded(saved.files)
    /\ template' = saved.template
    /\ loopList' = IF loopList = None THEN fileList ELSE loopList
    /\ Touch("load")
    /\ UNCHANGED <<dict, saved, loop, temps, maskVar, files, startEnabled, closed, made, twice, starts>>

-----------------------------------------------------------------------------
(* Commands and paths                                                      *)

Path(d, s, b)   == [dir |-> d, steps |-> s, base |-> b, vista |-> TRUE]
OutFile(prefix) == Path(outputDir, <<prefix>> \o file.steps, file.base)

\* An external program that reads from and writes to; nobody looks at whether
\* it could.
Command(from, to, image) ==
    IF from \in DOMAIN disk /\ to.dir # Root
    THEN With(disk, to, [of |-> disk[from].of, image |-> image])
    ELSE disk

\* Mutant of Noted: the file is forgotten.
Unnoted(out) == UNCHANGED removeList

\* The file is to be removed when the program ends.
Noted(out) == removeList' = removeList \cup {out}

\* What is read of the boxes at the end of one step: the step after it.
Onward(f, o, k) ==
    LET later == {s \in k + 1 .. Len(Pipeline) : Pipeline[s] \in opts}
    IN  /\ file' = f /\ orig' = o
        /\ IF later # {}
           THEN pc' = "step" /\ step' = CHOOSE s \in later : \A t \in later : s <= t
           ELSE /\ pc' = IF "maskEach" \in opts THEN "mask" ELSE "copy"
                /\ step' = 0

\* Mutant of StartButton: setEnabled is not called.
StartButtonKept(on) == UNCHANGED startEnabled

StartButton(on) == startEnabled' = on

\* An exception ends start_processing where it is.
Raise == /\ pc' = "idle" /\ UNCHANGED <<file, orig, i, step>>

-----------------------------------------------------------------------------
(* start_processing                                                        *)

\* Mutant of LoopOver: a copy of the list.
LoopOverCopy == fileList

\* What the first loop runs over: the list itself.
LoopOver == None
LoopSeq == IF loopList = None THEN fileList ELSE loopList

\* Cancelling the name of the script calls a function that does not exist.
Start ==
    /\ Handler /\ pc = "idle" /\ startEnabled
    /\ fileList # <<>>
    /\ starts < MaxStarts /\ starts' = starts + 1
    /\ StartButton(FALSE)
    /\ loopList' = LoopOver
    /\ made' = {} /\ touched' = IF outputDir = Root THEN {"root"} ELSE {}
    /\ \/ pc' = "convert" /\ file' = fileList[1] /\ i' = 1 /\ UNCHANGED <<orig, step>>
       \/ "script" \in opts /\ Raise
    /\ UNCHANGED <<target, ana, lists, form, saved, temps, maskVar, files, closed, twice, edits>>

RunVars   == <<lists, form, saved, closed, touched, twice, edits, starts>>
InPlace   == <<file, orig, i, step>>
FirstVars == <<RunVars, target, ana, loopList, removeEver, maskVar, masks, startEnabled, made>>

\* convertFiles, the test: what does not end in .v, or is to get a repetition
\* time, is converted.
Convert ==
    /\ pc = "convert"
    /\ pc' = IF file.vista /\ "repetition" \notin opts THEN "check" ELSE "converting"
    /\ UNCHANGED <<FirstVars, InPlace, processList, removeList, disk, work>>

\* It is written into the output directory under its stem.
Converted ==
    /\ pc = "converting" /\ pc' = "check"
    /\ LET out == Path(outputDir, <<>>, Stem[file.base])
       IN  /\ file' = out
           /\ disk' = Command(file, out, None)
           /\ Noted(out)
    /\ UNCHANGED <<FirstVars, orig, i, step, processList, work>>

\* The image is checked: the next round of the first loop, or the first of the
\* second.
Passed ==
    /\ processList' = Append(processList, file)
    /\ IF i < Len(LoopSeq)
       THEN pc' = "convert" /\ file' = LoopSeq[i + 1] /\ i' = i + 1 /\ UNCHANGED <<orig, step>>
       ELSE i' = 1 /\ Onward(processList'[1], processList'[1], 0)

\* checkAll after the repetition time.
CheckSlices ==
    IF "slicetime" \in opts THEN pc' = "slices" /\ UNCHANGED <<InPlace, processList>> ELSE Passed

\* checkAll: which header fields are needed.
CheckAll ==
    /\ pc = "check"
    /\ IF {"tfilter", "movcorr"} \cap opts # {} /\ "repetition" \notin opts
       THEN pc' = "repetition" /\ UNCHANGED <<InPlace, processList>>
       ELSE CheckSlices
    /\ UNCHANGED <<FirstVars, removeList, disk, work>>

\* checkHeaderFor writes the header into a file, which it removes when the
\* field is there, and nobody else removes.  When it is missing the rest of the
\* list is not looked at; what was checked stays in myProcessList.
CheckHeader ==
    /\ pc \in {"repetition", "slices"}
    /\ \/ /\ file \in DOMAIN disk
          /\ work' = work \ {"check"}
          /\ IF pc = "repetition" THEN CheckSlices ELSE Passed
       \/ /\ work' = work \cup {"check"}
          /\ pc' = "stopped" /\ UNCHANGED <<InPlace, processList>>
    /\ UNCHANGED <<FirstVars, removeList, disk>>

ImageOf(f) == disk[f].image

StepVars == <<RunVars, i, loopList, processList, maskVar, masks, startEnabled, made>>

\* A step reads the path in hand and writes one with its prefix.
Written(out, image) ==
    /\ disk' = Command(file, out, image)
    /\ Noted(out)
    /\ Onward(out, orig, step)
    /\ target' = None /\ ana' = None

Correction ==
    /\ pc = "step" /\ Pipeline[step] \in {"slicetime", "movcorr"}
    /\ Written(OutFile(Pipeline[step]), ImageOf(file))
    /\ UNCHANGED <<StepVars, removeEver, work>>

\* The filters choose their path before the last events come in.
FilterPath ==
    /\ pc = "step" /\ Pipeline[step] \in {"sfilter", "tfilter"}
    /\ pc' = "filter"
    /\ target' = OutFile(Pipeline[step])
    /\ UNCHANGED <<StepVars, file, orig, step, ana, removeList, removeEver, disk, work>>

Filtering ==
    /\ pc = "filter"
    /\ Written(target, ImageOf(file))
    /\ UNCHANGED <<StepVars, removeEver, work>>

\* currentImageIndex is still 0 here: it is counted up after the loop.
CurrentImage == fileList[1]
Align == {"ana_to_func.nii", "ana_to_func.v"}
RegFiles == Align \cup {"trans.nii", "regResult.v"}

\* doRegistration up to the first command; it raises when the list has been
\* emptied.
Registration ==
    /\ pc = "step" /\ Pipeline[step] = "reg"
    /\ IF fileList = <<>>
       THEN Raise /\ UNCHANGED <<target, ana>>
       ELSE /\ target' = OutFile("reg")
            /\ ana' = IF CurrentImage \in DOMAIN dict THEN dict[CurrentImage] ELSE None
            /\ pc' = IF ana' = None THEN "register" ELSE "align"
            /\ UNCHANGED <<file, orig, step>>
    /\ UNCHANGED <<StepVars, removeList, removeEver, disk, work>>

\* A command of doRegistration that leaves scratch files, for which it may need
\* a template: without one it raises, and nobody has noted the files.
Stage(at, needs, scratch, next) ==
    /\ pc = at
    /\ IF needs /\ template = -1
       THEN Raise /\ UNCHANGED work
       ELSE pc' \in next /\ work' = work \cup scratch /\ UNCHANGED <<file, orig, step>>
    /\ UNCHANGED <<StepVars, target, ana, removeList, removeEver, disk>>

\* An anatomical image is aligned with the functional one; one of them is
\* registered; the result may be shown, which is another box.
Registering ==
    \/ Stage("align", FALSE, {"ana_to_func.nii"}, {"aligned"})
    \/ Stage("aligned", FALSE, {"ana_to_func.v"}, {"register"})
    \/ Stage("register", TRUE, {"trans.nii"},
             IF ana = None THEN {"resample"} ELSE {"result", "resample"})
    \/ Stage("result", TRUE, {"regResult.v"}, {"view"})
    \/ Stage("view", TRUE, {}, {"resample"})

\* The last command of doRegistration.
Resample ==
    /\ pc = "resample"
    /\ IF template = -1
       THEN Raise /\ UNCHANGED <<target, ana, disk, removeList, removeEver>>
       ELSE Written(target, ana) /\ removeEver' = removeEver \cup RegFiles
    /\ UNCHANGED <<StepVars, work>>

MaskVars == <<RunVars, InPlace, target, ana, loopList, processList, removeList, disk,
              startEnabled, made>>

\* doCreateMaskFromFile up to createMask; the path is chosen first.
MaskPath ==
    /\ pc = "mask" /\ pc' = "timestep"
    /\ mask' = [from |-> "tmpTimeStep.v", to |-> Path(outputDir, <<"mask">> \o orig.steps, orig.base)]
    /\ UNCHANGED <<MaskVars, removeEver, threshold, work, masks>>

TimeStep ==
    /\ pc = "timestep" /\ pc' = "create"
    /\ work' = IF file \in DOMAIN disk THEN work \cup {"tmpTimeStep.v"} ELSE work
    /\ UNCHANGED <<MaskVars, removeEver, maskVar, masks>>

\* doCreateMaskAverage up to createMask.  removeTmpFiles takes away what is
\* noted, from the second time on the new average, too.
MaskAverage ==
    /\ pc = "average" /\ pc' = "create"
    /\ mask' = [from |-> "tmpAverage.v", to |-> Path(outputDir, <<"mask">>, "average")]
    /\ removeEver' = removeEver \cup {"N.v"}
    /\ work' = (work \cup {"tmpAverage.v"}) \ removeEver
    /\ UNCHANGED <<MaskVars, threshold, masks>>

Scratch == {"tmpMask.v", "tmpMaskFloat.v", "volumeinfo.tmp", "tmpMaskSmoothed.v"}

CreateMask ==
    /\ pc = "create" /\ pc' = "round"
    /\ threshold' = FirstThreshold
    /\ removeEver' = removeEver \cup Scratch
    /\ UNCHANGED <<MaskVars, mask, work, masks>>

\* createMask returns; nobody looks at what.
MaskDone ==
    IF mask.from = "tmpAverage.v"
    THEN pc' = "finish" /\ removeEver' = removeEver \cup {"tmpAverage.v"}
    ELSE pc' = "copy" /\ UNCHANGED removeEver

\* Mutant of NextThreshold: the threshold stays.
SameThreshold(t) == t

NextThreshold(t) == t + 1

\* A round of the loop over thresholds: few enough voxels end it with the
\* mask, the last threshold without.
MaskRound ==
    /\ pc = "round"
    /\ \/ /\ mask.from \in work
          /\ work' = work \cup (Scratch \ {"tmpMaskSmoothed.v"})
          /\ masks' = masks \cup {mask.to}
          /\ MaskDone /\ UNCHANGED threshold
       \/ /\ work' = work \cup (IF mask.from \in work THEN Scratch ELSE {"volumeinfo.tmp"})
          /\ threshold' = NextThreshold(threshold)
          /\ IF threshold' = LastThreshold THEN MaskDone ELSE UNCHANGED <<pc, removeEver>>
          /\ UNCHANGED masks
    /\ UNCHANGED <<MaskVars, mask>>

\* The result goes into the output directory under the name that was taken up.
Copy ==
    /\ pc = "copy"
    /\ LET out == Path(outputDir, <<"preproc">> \o orig.steps, orig.base)
       IN  /\ disk' = Command(file, out, ImageOf(file))
           /\ made' = made \cup {out}
    /\ IF i < Len(processList)
       THEN i' = i + 1 /\ Onward(processList[i + 1], processList[i + 1], 0)
       ELSE /\ pc' = IF "maskAverage" \in opts THEN "average" ELSE "finish"
            /\ UNCHANGED <<file, orig, i, step>>
    /\ UNCHANGED <<RunVars, target, ana, loopList, temps, maskVar, work, masks, startEnabled>>

Finish ==
    /\ pc \in {"finish", "stopped"} /\ pc' = "idle"
    /\ StartButton(TRUE)
    /\ UNCHANGED <<RunVars, InPlace, target, ana, loopList, temps, maskVar, files, made>>

\* exit_program; the window is closed first.  A run it comes into goes on.
Exit ==
    /\ Handler
    /\ closed' = IF startEnabled THEN "idle" ELSE IF Busy THEN "busy" ELSE "stuck"
    /\ work' = work \ removeEver
    /\ disk' = IF "logfile" \in opts THEN disk ELSE Forget(disk, removeList)
    /\ UNCHANGED <<lists, form, saved, loop, loopList, temps, maskVar, masks, startEnabled,
                   touched, made, twice, edits, starts>>

User ==
    \/ \E f \in Inputs : AddFile(f)
    \/ \E r \in DOMAIN rows : RemoveFromList(r)
    \/ \E r \in DOMAIN anaRows : RemoveAnatomical(r) \/ \E x \in Images : AddAnatomical(r, x)
    \/ \E d \in Dirs \cup {Root} : OpenOutputDir(d)
    \/ \E d \in Dirs : TypeDirectory(d)
    \/ \E n \in 0 .. NTemplates - 1 : ChooseTemplate(n)
    \/ \E o \in Clickable : Click(o)
    \/ SaveSettings \/ LoadSettings \/ Exit

Processing ==
    \/ Convert \/ Converted \/ CheckAll \/ CheckHeader
    \/ Correction \/ FilterPath \/ Filtering \/ Registration \/ Registering \/ Resample
    \/ MaskPath \/ TimeStep \/ MaskAverage \/ CreateMask \/ MaskRound \/ Copy \/ Finish

Next == User \/ Start \/ Processing

Spec == Init /\ [][Next]_vars /\ WF_vars(Processing)

-----------------------------------------------------------------------------
(* Properties                                                              *)

Paths == [dir : Dirs \cup {Root} \cup {f.dir : f \in Inputs}, steps : Seq({"preproc", "mask"} \cup ToSet(Pipeline)),
          base : {f.base : f \in Inputs} \cup {Stem[f.base] : f \in Inputs} \cup {"average"}, vista : BOOLEAN]

\* Types, and where the processing stands: the start button is off while a
\* run is under way, the index stays in the list, the threshold in its range.
TypeOK ==
    /\ ToSet(fileList) \subseteq Inputs
    /\ DOMAIN dict \subseteq Inputs
    /\ template \in -1 .. NTemplates - 1
    /\ ToSet(processList) \cup removeList \cup DOMAIN disk \cup masks \cup ({target} \ {None})
         \subseteq Paths
    /\ Busy => ~ startEnabled
    /\ pc \in {"step", "mask", "copy"} => i \in DOMAIN processList /\ orig = processList[i]
    /\ pc = "round" => threshold \in FirstThreshold .. LastThreshold - 1

Count(s, f) == Cardinality({j \in DOMAIN s : s[j] = f})

\* The two lists of the window and the list that is processed hold the same
\* images after any sequence of clicks, and an anatomical image that is shown
\* is the one registration finds, as long as nobody lists an image twice
\* (add_..., remove_... and load_settings).
RowsAgree ==
    /\ \A f \in Inputs : Count(rows, f) = Count(fileList, f)
    /\ Len(anaRows) = Len(rows)
    /\ \A j \in DOMAIN rows : anaRows[j].of = rows[j]
    /\ twice \/ \A j \in DOMAIN rows :
          anaRows[j].image # None => rows[j] \in DOMAIN dict /\ dict[rows[j]] = anaRows[j].image

\* No two images are written under one name.
Distinct ==
    \A f, g \in ToSet(fileList) \cup {disk[p].of : p \in DOMAIN disk \cap ToSet(processList)} :
        f # g => {f.base, Stem[f.base]} \cap {g.base, Stem[g.base]} = {}

\* A run that gets through its checks leaves a result of every image in the
\* list, those added while it was still converting included, whatever else the
\* user clicks on; an only image is registered with its own anatomical image.
\* Taking images away, loading settings or a cancelled choice of the directory
\* spoil this (start_processing and the handlers processEvents lets in).
ResultsAreMade ==
    (/\ pc = "finish" /\ closed = "no"
     /\ touched \cap {"remove", "load", "root", "late"} = {}
     /\ Distinct)
    => \A f \in ToSet(fileList) : \E p \in made \cap DOMAIN disk :
          /\ disk[p].of = f
          /\ "reg" \in opts /\ touched = {} /\ Len(fileList) = 1 =>
                disk[p].image = IF f \in DOMAIN dict THEN dict[f] ELSE None

\* Leaving the program while nothing is processed takes the temporary files
\* away, unless they are to be kept.  What stays is what nobody notes: the time
\* step of a mask, the header of an image whose check has failed, and what a
\* registration that has raised had written (exit_program).
NothingLeft ==
    closed \in {"idle", "stuck"} /\ "logfile" \notin opts =>
        /\ work \subseteq {"tmpTimeStep.v", "check"} \cup (IF closed = "stuck" THEN RegFiles ELSE {})
        /\ \A p \in DOMAIN disk \ Inputs : p.steps # <<>> /\ Head(p.steps) = "preproc"

\* A run ends, whatever the user does meanwhile.
RunEnds == []<> ~ Busy
=============================================================================
