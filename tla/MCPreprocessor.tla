---------------------------- MODULE MCPreprocessor ----------------------------
(* TLC instance of Preprocessor: a.v is there twice, in the directory the    *)
(* program starts in and in another, and of bin.nii rstrip leaves b.         *)
EXTENDS Preprocessor

In(d, b, v) == [dir |-> d, steps |-> <<>>, base |-> b, vista |-> v]

MCInputs == {In("home", "a", TRUE), In("data", "a", TRUE), In("data", "bin", FALSE)}
MCStem == [b \in {"a", "bin"} |-> IF b = "bin" THEN "b" ELSE b]
MCSettings == {{"repetition", "maskAverage"}, {"slicetime", "reg", "tfilter"},
               {"movcorr", "maskEach", "script"}}
MCClickable == {"reg"}
=============================================================================
