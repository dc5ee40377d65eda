--------------------------- MODULE FastGenerator ---------------------------
(***************************************************************************)
(* The generator behind "cog build --x-fast" (pkg/dockerfile/              *)
(* fast_generator.go): it prepares the layers of an image in directories   *)
(* under .cog/tmp that outlive the build, so that what did not change is   *)
(* not made again.                                                         *)
(*                                                                         *)
(*   cache.weights   weights.json: the weight files and their digests      *)
(*   cache.apt       the tarballs of system packages, named by packages    *)
(*   cache.reqs      the copy of the Python requirements                   *)
(*   cache.src       the tree of hard links that a local image copies      *)
(*                                                                         *)
(* The content of a file stands for its digest, its size and its time of   *)
(* modification: an edit that keeps both size and time is left out.  A     *)
(* file is a weight when its content is in Big.                            *)
(***************************************************************************)
EXTENDS Naturals, FiniteSets

CONSTANTS Files,          \* files of the project
          DirFiles,       \* those that are in a directory of their own
          Small, Big,     \* contents of files
          PackageSets,    \* what system_packages may be
          Requirements,   \* contents of a requirements file
          Projects,       \* what the project may be at first
          None,
          Torn,           \* a file that was being written when cog died
          Linked,         \* a hard link to the present file of the project
          MaxEdits, MaxFaults, MaxPushes

Contents == Small \cup Big

\* What a tarball of system packages is made from, and whether it was finished.
Tarballs == [packages : PackageSets \ {{}}, whole : BOOLEAN]
Trees == [Files -> Contents \cup {None}]

\* What an image is made of.
Images == [apt : SUBSET Tarballs, reqs : Requirements \cup {None, Torn},
           weights : Trees, src : Trees]

ASSUME FilesAssumption ==
    /\ DirFiles \subseteq Files
    /\ Small \cap Big = {}
    /\ {None, Torn, Linked} \cap (Contents \cup Requirements) = {}
    /\ Linked # None
    /\ None \notin PackageSets \cup Tarballs \cup Trees \cup Images
    /\ Projects \subseteq [files : Trees, ignored : SUBSET Files,
                           packages : PackageSets, reqs : Requirements \cup {None}]

VARIABLES project,   \* what the user edits
          cache,     \* .cog/tmp
          pc,        \* where the cog process is
          cfg,       \* cog.yaml as the process read it, and --x-localimage
          found,     \* the weights of this build
          aptFile,   \* the packages of the tarball of this build, None
          image,     \* the image that this build made
          edits, faults, pushes

genVars == <<project, cache, pc, cfg, found, aptFile, image, edits, faults,
             pushes>>

NoWeights == [f \in Files |-> None]

NoCfg == [packages |-> {}, reqs |-> FALSE, local |-> FALSE]

Present(files) == {f \in Files : files[f] # None}

\* Bound: the files in directories of their own are small ones.
ContentsOf(f) == IF f \in DirFiles THEN Small ELSE Contents

GenInit ==
    /\ project \in Projects
    /\ cache = [weights |-> None, apt |-> {}, reqs |-> None,
                src |-> NoWeights]
    /\ pc = "idle" /\ cfg = NoCfg
    /\ found = NoWeights /\ aptFile = None /\ image = None
    /\ edits = 0 /\ faults = 0 /\ pushes = 0

-----------------------------------------------------------------------------
(* The user.  A file that is replaced or removed leaves the hard link with  *)
(* the old content; one that is written in place does not.                  *)

Detached(f) ==
    [cache EXCEPT !.src[f] = IF @ = Linked THEN project.files[f] ELSE @]

Edit ==
    /\ edits < MaxEdits
    /\ edits' = edits + 1
    /\ UNCHANGED <<pc, cfg, found, aptFile, image, faults, pushes>>

\* During a push only weights are read: an edit of another file may as well
\* come after it.
EditOf(f) ==
    Edit /\ (pc \in {"idle", "weights", "src", "docker"} \/ found[f] # None)

WriteInPlace(f, c) ==
    /\ EditOf(f)
    /\ project.files[f] \notin {None, c}
    /\ project' = [project EXCEPT !.files[f] = c]
    /\ UNCHANGED cache

Replace(f, c) ==
    /\ EditOf(f)
    /\ project.files[f] # c
    /\ project' = [project EXCEPT !.files[f] = c]
    /\ cache' = Detached(f)

\* From the build on nothing of this is read: such an edit may as well come
\* after the push.
EditConfig(packages, reqs, ignored) ==
    /\ Edit
    /\ pc \in {"idle", "weights", "python", "src", "docker"}
    /\ LET new == [project EXCEPT !.packages = packages, !.reqs = reqs,
                                  !.ignored = ignored]
       IN /\ new # project
          /\ Cardinality({x \in DOMAIN new : new[x] # project[x]}) = 1
          /\ project' = new
    /\ UNCHANGED cache

UserEdits ==
    \/ \E f \in Files : \E c \in ContentsOf(f) : WriteInPlace(f, c)
    \/ \E f \in Files : \E c \in ContentsOf(f) \cup {None} : Replace(f, c)
    \/ \E p \in PackageSets, r \in Requirements \cup {None},
          i \in {{}, DirFiles} : EditConfig(p, r, i)

-----------------------------------------------------------------------------
(* The build.  A step that fails ends the build with nothing undone.        *)

\* Something that can go wrong does.
Fault == faults < MaxFaults /\ faults' = faults + 1

NoFault == UNCHANGED faults

Goto(from, to) == pc = from /\ pc' = to

genRest == <<project, edits, pushes>>

StartBuild(local) ==
    /\ Goto("idle", "pull")
    /\ pushes < MaxPushes /\ pushes' = pushes + 1
    /\ cfg' = [packages |-> project.packages, reqs |-> project.reqs # None,
               local |-> local]
    /\ found' = NoWeights /\ aptFile' = None /\ image' = None
    /\ UNCHANGED <<project, cache, edits, faults>>

PullMonobase ==
    /\ \/ Goto("pull", "weights") /\ NoFault
       \/ Goto("pull", "failed") /\ Fault
    /\ UNCHANGED <<genRest, cache, cfg, found, aptFile, image>>

\* The entries of weights.json that still describe their file.
CheckWeights(old) ==
    [f \in Files |-> IF project.files[f] = old[f] THEN old[f] ELSE None]

\* Those entries and the other weight files; .dockerignore only matters for
\* the others.
FindFullWeights(kept) ==
    [f \in Files |->
        IF kept[f] # None THEN kept[f]
        ELSE IF f \notin project.ignored /\ project.files[f] \in Big
             THEN project.files[f] ELSE None]

\* What weights.json lists: nothing when it is not there.
ReadWeights == IF cache.weights = None THEN NoWeights ELSE cache.weights

\* Mutant: weights.json is only written when there is none.
WriteWeightsOnce == [cache EXCEPT !.weights = IF @ = None THEN found' ELSE @]

WriteWeights == [cache EXCEPT !.weights = found']

FindFastWeights ==
    /\ \/ /\ Goto("weights", "failed")
          /\ cache.weights = Torn
          /\ UNCHANGED <<cache, found>>
       \/ /\ Goto("weights", "apt")
          /\ cache.weights # Torn
          /\ found' = FindFullWeights(CheckWeights(ReadWeights))
          /\ cache' = WriteWeights
    /\ NoFault
    /\ UNCHANGED <<genRest, cfg, aptFile, image>>

\* Mutant: the tarballs of other packages stay.
KeepAptTarballs == cache.apt

RemoveAptTarballs == {}

\* Mutant: any tarball will do.
HaveAnyTarball == cache.apt # {}

HaveTarball == \E t \in cache.apt : t.packages = cfg.packages

\* What the container that installs the packages leaves in the directory.
CreateAptTarFile(whole) ==
    RemoveAptTarballs \cup {[packages |-> cfg.packages, whole |-> whole]}

\* The tarball for the packages of cog.yaml is made once.  The container
\* that makes it may fail with a part of it written.
CreateAptTarball ==
    /\ \/ /\ Goto("apt", "python")
          /\ cfg.packages = {} /\ aptFile' = None
          /\ NoFault /\ UNCHANGED cache
       \/ /\ Goto("apt", "python")
          /\ cfg.packages # {} /\ aptFile' = cfg.packages
          /\ cache' = IF HaveTarball THEN cache
                      ELSE [cache EXCEPT !.apt = CreateAptTarFile(TRUE)]
          /\ NoFault
       \/ /\ Goto("apt", "failed")
          /\ cfg.packages # {} /\ ~HaveTarball
          /\ \E left \in {RemoveAptTarballs, CreateAptTarFile(FALSE)} :
                cache' = [cache EXCEPT !.apt = left]
          /\ Fault /\ UNCHANGED aptFile
    /\ UNCHANGED <<genRest, cfg, found, image>>

GenerateRequirements == [cache EXCEPT !.reqs = project.reqs]

\* The requirements file is copied when it changed; the copy stays when
\* cog.yaml names no requirements any more.
InstallPython ==
    /\ \/ /\ Goto("python", "src")
          /\ ~cfg.reqs \/ project.reqs # None
          /\ cache' = IF cfg.reqs
                      THEN GenerateRequirements ELSE cache
       \/ /\ Goto("python", "failed")
          /\ cfg.reqs /\ project.reqs = None
          /\ UNCHANGED cache
    /\ NoFault
    /\ UNCHANGED <<genRest, cfg, found, aptFile, image>>

Sources == {f \in Present(project.files) :
                f \notin project.ignored /\ found[f] = None}

\* A file that is not in the tree is linked; one that is stays as it is.
EnsureFSObjectExists(f) ==
    IF f \in Sources /\ cache.src[f] = None THEN Linked ELSE cache.src[f]

Unused(tree) == Present(tree) \ Sources

\* New files are linked, files that are gone are removed.  Removing a
\* directory makes the walk over it fail, and leaves what it had not reached.
RsyncSrc ==
    LET linked == [f \in Files |-> EnsureFSObjectExists(f)]
        unused == Unused(linked)
        without(gone) == [cache EXCEPT
            !.src = [f \in Files |-> IF f \in gone THEN None ELSE linked[f]]]
    IN \/ /\ unused \cap DirFiles = {}
          /\ pc' = "docker"
          /\ cache' = without(unused)
       \/ /\ pc' = "failed"
          /\ \E gone \in SUBSET unused :
                /\ gone \cap DirFiles # {}
                /\ cache' = without(gone)

InstallSrc ==
    /\ pc = "src"
    /\ IF cfg.local THEN RsyncSrc ELSE pc' = "docker" /\ UNCHANGED cache
    /\ NoFault
    /\ UNCHANGED <<genRest, cfg, found, aptFile, image>>

\* What the image gets for /src: the linked tree, or the build context
\* without the weights.
SrcLayer ==
    IF cfg.local
    THEN [f \in Files |-> IF cache.src[f] = Linked THEN project.files[f]
                          ELSE cache.src[f]]
    ELSE [f \in Files |-> IF f \in Sources THEN project.files[f] ELSE None]

\* The layers of the image.  The digests of the weights are in its labels, or
\* in the links that stand for them in /src.
Layers ==
    [apt |-> {t \in cache.apt : aptFile # None /\ t.packages = aptFile},
     reqs |-> IF cfg.reqs THEN cache.reqs ELSE None,
     weights |-> found,
     src |-> SrcLayer]

DockerBuild ==
    /\ \/ /\ Goto("docker", "built")
          /\ image' = Layers
          /\ NoFault
       \/ Goto("docker", "failed") /\ Fault /\ UNCHANGED image
    /\ UNCHANGED <<genRest, cache, cfg, found, aptFile>>

\* The process is killed in the build: the file that was being written is
\* in part on the disk.
KillBuild ==
    /\ pc \in {"pull", "weights", "apt", "python", "src", "docker"}
    /\ pc' = "idle"
    /\ Fault
    /\ cfg' = NoCfg /\ found' = NoWeights /\ aptFile' = None
    /\ cache' \in
         {cache}
         \cup (IF pc = "weights" THEN {[cache EXCEPT !.weights = Torn]}
               ELSE {})
         \cup (IF pc = "apt" /\ cfg.packages # {} /\ ~HaveTarball
               THEN {[cache EXCEPT !.apt = left] : left \in
                        {{}, {[packages |-> cfg.packages, whole |-> FALSE]}}}
               ELSE {})
         \cup (IF pc = "python" /\ cfg.reqs
                  /\ project.reqs \notin {None, cache.reqs}
               THEN {[cache EXCEPT !.reqs = Torn]} ELSE {})
    /\ UNCHANGED <<genRest, image>>

Build ==
    \/ PullMonobase \/ FindFastWeights \/ CreateAptTarball
    \/ InstallPython \/ InstallSrc \/ DockerBuild

-----------------------------------------------------------------------------
(* Properties                                                              *)

\* No file that the build treats as a weight is in the source layer of the
\* image, also when an earlier build linked it as a source.
NoWeightsInSrc ==
    image # None => \A f \in Files : image.weights[f] = None
                                         \/ image.src[f] = None

\* The system packages in an image are those of the cog.yaml it was built
\* from, although tarballs of earlier builds are used again.
AptLayerMatches ==
    image # None =>
        \/ cfg.packages = {} /\ image.apt = {}
        \/ {t.packages : t \in image.apt} = {cfg.packages}

\* What earlier builds left in .cog does not show in the image.
ImageOfThisBuild == NoWeightsInSrc /\ AptLayerMatches
=============================================================================
