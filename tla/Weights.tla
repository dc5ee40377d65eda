------------------------------- MODULE Weights -------------------------------
(***************************************************************************)
(* Which files of a model directory are weights (pkg/weights/weights.go):  *)
(* what --separate-weights puts into an image of its own.                  *)
(*                                                                         *)
(* A path is the sequence of the names it is made of.  What a name or a    *)
(* size says of a file is given by constants.  The lists of the code are   *)
(* sets here: the order by levels matters only in that a directory comes   *)
(* before what is under it.                                                *)
(***************************************************************************)
EXTENDS Sequences, SequencesExt

CONSTANTS CodeFiles,    \* paths that end in .py or .ipynb
          LargeFiles,   \* paths of files of at least sizeThreshold
          NonModel,     \* paths with an ignored prefix or suffix
          Longer        \* <<m, n>>: the name n is m with something after it

\* Under(d, p): the path p is d or lies under it.
Under(d, p) == IsPrefix(d, p)

Dir(p) == Front(p)

IsCodeFile(p) == p \in CodeFiles
IsNonModelFiles(p) == p \in NonModel
IsGitFile(p) == \E i \in 1 .. Len(p) - 1 : p[i] = ".git"

\* strings.HasPrefix(p, d): also true when d ends within a name of p.
HasPrefix(p, d) ==
    \/ Under(d, p)
    \/ /\ Len(p) >= Len(d)
       /\ Under(Dir(d), p)
       /\ <<Last(d), p[Len(d)]>> \in Longer

ModelFiles(paths) ==
    {p \in paths : ~IsGitFile(p) /\ ~IsCodeFile(p)
                       /\ p \in LargeFiles /\ ~IsNonModelFiles(p)}

\* The parents of files below the root, without those under another one.
DirsOf(files) ==
    LET parents == {Dir(f) : f \in {g \in files : Len(g) > 1}}
    IN {d \in parents : \A e \in parents : Under(e, d) => e = d}

FilterDirsContainingCode(dirs, code) ==
    {d \in dirs : \A c \in code : ~HasPrefix(c, d)}

FindWeights(paths) ==
    LET files == ModelFiles(paths)
        code == {p \in paths : ~IsGitFile(p) /\ IsCodeFile(p)}
    IN [dirs |-> FilterDirsContainingCode(DirsOf(files), code),
        files |-> {f \in files : Len(f) = 1}]

\* The files that are copied when the directories and files of w are.
Selected(w, paths) ==
    {p \in paths : p \in w.files \/ \E d \in w.dirs : Under(d, p)}
=============================================================================
