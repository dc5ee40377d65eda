--------------------------- MODULE FastPushProofs ---------------------------
(***************************************************************************)
(* Proofs about "cog push --x-fast", for every set of files and packages,  *)
(* every project and every number of edits, faults, pushes and polls.      *)
(*                                                                         *)
(* The invariant has two halves: what the build leaves in .cog/tmp for its *)
(* later steps and for the push, and what the main goroutine of the push   *)
(* may rely on while the uploads run beside it.                            *)
(***************************************************************************)
EXTENDS FastPush, TLAPS

Building == {"weights", "apt", "python", "src", "docker"}
PC == {"idle", "pull", "failed", "posted"} \cup Building \cup Pushing

ProjectType == [files : Trees, ignored : SUBSET Files,
                packages : PackageSets, reqs : Requirements \cup {None}]
CacheType == [weights : Trees \cup {None, Torn}, apt : SUBSET Tarballs,
              reqs : Requirements \cup {None, Torn},
              src : [Files -> Contents \cup {None, Linked}]]
CfgType == [packages : PackageSets \cup {{}}, reqs : BOOLEAN, local : BOOLEAN]
Digests == ({"weights"} \X (Contents \cup {None})) \cup ({"apt"} \X Tarballs)
           \cup ({"python"} \X (Requirements \cup {None, Torn})) \cup ({"src"} \X Trees)
UploadState == {"none", "start", "s3", "poll", "done", "failed"}
UploadType == [pc : UploadState, digest : Digests \cup {None},
               sent : Digests \cup {None}, polls : 0 .. MaxPolls]

GenTypeOK ==
    /\ project \in ProjectType
    /\ cache \in CacheType
    /\ pc \in PC
    /\ cfg \in CfgType
    /\ found \in Trees
    /\ aptFile \in PackageSets \cup {None}
    /\ image \in Images \cup {None}

PushTypeOK ==
    /\ ups \in [Keys -> UploadType]
    /\ \A k \in Keys : ups[k].pc # "none" => ups[k].digest \in Digests
    /\ chal \in [Keys -> {"none", "asked", "answered", "failed"}]
    /\ server \in SUBSET Digests

-----------------------------------------------------------------------------
(* What the build leaves                                                   *)

\* The image is made last, and the push begins with it.
ImageIsLast == /\ pc \in Building \cup {"idle", "pull"} => image = None
               /\ pc \in Pushing \cup {"posted"} => image # None

\* weights.json lists the weights of this build.
WeightsWritten ==
    pc \in {"apt", "python", "src", "docker", "built"} => cache.weights = found

\* There is never more than one tarball, and from the step that makes it on it
\* is the one of this cog.yaml.
OneTarball == \A t, u \in cache.apt : t = u
TarballReady ==
    pc \in {"python", "src", "docker"} =>
        \/ cfg.packages = {} /\ aptFile = None
        \/ cfg.packages # {} /\ aptFile = cfg.packages /\ HaveTarball

\* The tree of a local image has no file that is a weight now.
SourcesLinked ==
    pc = "docker" /\ cfg.local =>
        \A f \in Files : cache.src[f] # None => found[f] = None

\* The push finds in .cog/tmp what the image was made from.
CacheOfImage ==
    pc \in {"built", "apttar", "pythontar"} =>
        /\ image.apt \subseteq cache.apt
        /\ image.reqs # None => cache.reqs # None

GenInv == /\ GenTypeOK
          /\ ImageIsLast /\ WeightsWritten /\ OneTarball /\ TarballReady
          /\ SourcesLinked /\ ImageOfThisBuild /\ CacheOfImage

-----------------------------------------------------------------------------
(* What the push relies on                                                 *)

\* Where the main goroutine is once it has done a step of the push.
AfterAnswers == {"post", "posted"}
AfterAsking == {"answers"} \cup AfterAnswers
AfterWait == {"challenge"} \cup AfterAsking
AfterSrc == {"wait"} \cup AfterWait
AfterPython == {"srctar"} \cup AfterSrc
AfterApt == {"pythontar"} \cup AfterPython
AfterWeights == {"apttar"} \cup AfterApt

Promises(k, d) == ups[k].pc # "none" /\ ups[k].digest = d

NothingStarted ==
    pc \in Building \cup {"idle", "pull", "built"} => ups = NoUploads

WeightsPromised ==
    pc \in AfterWeights =>
        \A k \in Files : IF found[k] = None THEN ups[k].pc = "none"
                         ELSE Promises(k, <<"weights", found[k]>>)
TarsPromised ==
    image # None =>
        /\ pc \in AfterApt => \A t \in image.apt : Promises("apt", <<"apt", t>>)
        /\ pc \in AfterPython /\ image.reqs # None =>
              Promises("python", <<"python", image.reqs>>)
        /\ pc \in AfterSrc => Promises("src", <<"src", image.src>>)

\* No upload runs any more once they have been waited for.
UploadsSettled ==
    pc \in AfterWait => \A k \in Keys : ups[k].pc \in {"none", "done"}

\* An upload ends well when the server has the file, or was not asked again.
DoneIsStored ==
    \A k \in Keys : ups[k].pc = "done" =>
        ups[k].digest \in server \/ ups[k].polls = MaxPolls

AllChallenged ==
    /\ pc \in AfterAsking => \A k \in Keys : (chal[k] = "none") <=> (ups[k].pc = "none")
    /\ pc \in AfterAnswers => \A k \in Keys : chal[k] \in {"none", "answered"}

PostedWhole ==
    posted # None => /\ pc = "posted"
                     /\ posted.files = Promised
                     /\ posted.answers = Chosen

PushInv == /\ PushTypeOK
           /\ NothingStarted /\ WeightsPromised /\ TarsPromised /\ UploadsSettled
           /\ DoneIsStored /\ AllChallenged /\ PostedWhole

IInv == GenInv /\ PushInv

-----------------------------------------------------------------------------
(* Types                                                                   *)

LEMMA GenTypeUser == GenTypeOK /\ UserEdits => GenTypeOK'
<1> SUFFICES ASSUME GenTypeOK, UserEdits PROVE GenTypeOK'
  OBVIOUS
<1> USE FilesAssumption DEF GenTypeOK
<1>1. ASSUME NEW f \in Files, NEW c \in ContentsOf(f), WriteInPlace(f, c) PROVE GenTypeOK'
  <2>1. project' \in ProjectType
    BY <1>1 DEF WriteInPlace, ContentsOf, Contents, Trees, ProjectType
  <2> QED
    BY <1>1, <2>1 DEF WriteInPlace, EditOf, Edit
<1>2. ASSUME NEW f \in Files, NEW c \in ContentsOf(f) \cup {None}, Replace(f, c)
      PROVE GenTypeOK'
  <2>1. c \in Contents \cup {None} /\ project.files[f] \in Contents \cup {None}
    BY <1>2 DEF ContentsOf, Contents, Trees, ProjectType
  <2>2. project' \in ProjectType
    BY <1>2, <2>1 DEF Replace, Trees, ProjectType
  <2>3. cache' \in CacheType
    BY <1>2, <2>1 DEF Replace, Detached, CacheType
  <2> QED
    BY <1>2, <2>2, <2>3 DEF Replace, EditOf, Edit
<1>3. ASSUME NEW p \in PackageSets, NEW r \in Requirements \cup {None},
             NEW i \in {{}, DirFiles}, EditConfig(p, r, i)
      PROVE GenTypeOK'
  <2>1. project' \in ProjectType
    BY <1>3 DEF EditConfig, ProjectType
  <2> QED
    BY <1>3, <2>1 DEF EditConfig, Edit
<1> QED
  BY <1>1, <1>2, <1>3 DEF UserEdits

LEMMA SrcLayerTyped == ASSUME GenTypeOK PROVE SrcLayer \in Trees
  BY DEF GenTypeOK, SrcLayer, Trees, ProjectType, CacheType

LEMMA NothingTyped == NoWeights \in Trees /\ NoCfg \in CfgType
  BY DEF NoWeights, Trees, NoCfg, CfgType

\* What the steps of the build write into .cog/tmp.
LEMMA CacheTypeBuild == GenTypeOK /\ (Build \/ KillBuild) => cache' \in CacheType
<1> SUFFICES ASSUME GenTypeOK, Build \/ KillBuild PROVE cache' \in CacheType
  OBVIOUS
<1> USE FilesAssumption DEF GenTypeOK
<1>1. CASE PullMonobase \/ DockerBuild
  BY <1>1 DEF PullMonobase, DockerBuild
<1>2. CASE FindFastWeights
  <2>1. cache.weights # Torn => FindFullWeights(CheckWeights(ReadWeights)) \in Trees
    BY DEF FindFullWeights, CheckWeights, ReadWeights, NoWeights, Trees, Contents, CacheType
  <2> QED
    BY <1>2, <2>1 DEF FindFastWeights, WriteWeights, CacheType
<1>3. ASSUME NEW left \in SUBSET Tarballs PROVE [cache EXCEPT !.apt = left] \in CacheType
  BY DEF CacheType
<1>4. \A w \in BOOLEAN :
         cfg.packages # {} =>
             /\ CreateAptTarFile(w) \in SUBSET Tarballs
             /\ {[packages |-> cfg.packages, whole |-> w]} \in SUBSET Tarballs
  BY DEF CreateAptTarFile, RemoveAptTarballs, Tarballs, CfgType
<1>5. CASE CreateAptTarball
  <2>1. {} \in SUBSET Tarballs
    OBVIOUS
  <2>2. \A w \in BOOLEAN : cfg.packages # {} =>
           [cache EXCEPT !.apt = CreateAptTarFile(w)] \in CacheType
    BY <1>3, <1>4
  <2>3. [cache EXCEPT !.apt = {}] \in CacheType
    BY <1>3, <2>1
  <2> QED
    BY <1>5, <2>2, <2>3 DEF CreateAptTarball, RemoveAptTarballs
<1>6. CASE InstallPython
  BY <1>6 DEF InstallPython, GenerateRequirements, ProjectType, CacheType
<1>7. CASE InstallSrc
  <2> DEFINE linked == [f \in Files |-> EnsureFSObjectExists(f)]
  <2>1. ASSUME NEW gone
        PROVE  [cache EXCEPT !.src = [f \in Files |-> IF f \in gone THEN None
                                                     ELSE linked[f]]] \in CacheType
    BY DEF EnsureFSObjectExists, CacheType
  <2>2. \/ cache' = cache
        \/ \E gone \in SUBSET Unused(linked) :
              cache' = [cache EXCEPT !.src = [f \in Files |-> IF f \in gone THEN None
                                                             ELSE linked[f]]]
    BY <1>7 DEF InstallSrc, RsyncSrc
  <2> HIDE DEF linked
  <2> QED
    BY <2>1, <2>2
<1>8. CASE KillBuild
  <2>1. [cache EXCEPT !.weights = Torn] \in CacheType /\ [cache EXCEPT !.reqs = Torn] \in CacheType
    BY DEF CacheType
  <2>2. [cache EXCEPT !.apt = {}] \in CacheType
    BY <1>3
  <2>3. cfg.packages # {} =>
           [cache EXCEPT !.apt = {[packages |-> cfg.packages, whole |-> FALSE]}] \in CacheType
    BY <1>3, <1>4
  <2> QED
    BY <1>8, <2>1, <2>2, <2>3 DEF KillBuild
<1> QED
  BY <1>1, <1>2, <1>5, <1>6, <1>7, <1>8 DEF Build

LEMMA GenTypeBuild == GenTypeOK /\ (Build \/ KillBuild) => GenTypeOK'
<1> SUFFICES ASSUME GenTypeOK, Build \/ KillBuild PROVE GenTypeOK'
  OBVIOUS
<1> USE FilesAssumption, CacheTypeBuild DEF GenTypeOK, PC, Building, Pushing, Goto, genRest
<1>1. CASE PullMonobase
  BY <1>1 DEF PullMonobase
<1>2. CASE FindFastWeights
  <2>1. cache.weights # Torn => FindFullWeights(CheckWeights(ReadWeights)) \in Trees
    BY DEF FindFullWeights, CheckWeights, ReadWeights, NoWeights, Trees, Contents, CacheType
  <2> QED
    BY <1>2, <2>1 DEF FindFastWeights
<1>3. CASE CreateAptTarball
  BY <1>3 DEF CreateAptTarball, CfgType
<1>4. CASE InstallPython
  BY <1>4 DEF InstallPython
<1>5. CASE InstallSrc
  BY <1>5 DEF InstallSrc, RsyncSrc
<1>6. CASE DockerBuild
  <2>1. Layers \in Images
    BY SrcLayerTyped DEF Layers, Images, CacheType
  <2> QED
    BY <1>6, <2>1 DEF DockerBuild
<1>7. CASE KillBuild
  BY <1>7, NothingTyped DEF KillBuild
<1> QED
  BY <1>1, <1>2, <1>3, <1>4, <1>5, <1>6, <1>7 DEF Build

\* The goroutines of a push leave alone what the build made.
LEMMA PushKeeps ==
    ASSUME Main \/ \E k \in Keys : DoSingleFileChallenge(k) \/ Upload(k)
    PROVE  /\ UNCHANGED UserOnly
           /\ pc' = pc \/ (pc \in Pushing /\ pc' \in (Pushing \ {"built"}) \cup {"failed", "posted"})
           /\ pc' \in {"apttar", "pythontar"} => pc \in {"built", "apttar", "pythontar"}
<1>1. CASE Main
  BY <1>1 DEF Main, ReadFastWeights, UploadAptTarFile, CreatePythonPackagesTarFile,
     CreateTarFile, CreateSrcTarFile, Wait, InitiateChallenges, WaitForAnswers,
     PostNewVersion, Goto, Pushing
<1>2. ASSUME NEW k \in Keys, DoSingleFileChallenge(k) \/ Upload(k)
      PROVE  UNCHANGED UserOnly /\ pc' = pc
  BY <1>2 DEF DoSingleFileChallenge, Upload, StartUpload, UploadStep, UploadObject,
     CheckVerificationStatus
<1> QED
  BY <1>1, <1>2

LEMMA GenTypeStep == GenTypeOK /\ [Next]_vars => GenTypeOK'
<1> SUFFICES ASSUME GenTypeOK, [Next]_vars PROVE GenTypeOK'
  OBVIOUS
<1>1. CASE UNCHANGED vars
  BY <1>1 DEF vars, genVars, GenTypeOK
<1>2. ASSUME NEW local \in BOOLEAN, StartBuild(local) PROVE GenTypeOK'
  <2>1. cfg' \in CfgType
    BY <1>2 DEF StartBuild, GenTypeOK, ProjectType, CfgType
  <2> QED
    BY <1>2, <2>1, NothingTyped DEF StartBuild, Goto, GenTypeOK, PC
<1>3. CASE Main \/ \E k \in Keys : DoSingleFileChallenge(k) \/ Upload(k)
  BY <1>3, PushKeeps DEF GenTypeOK, UserOnly, PC
<1>4. CASE Gone
  BY <1>4, NothingTyped DEF Gone, GenTypeOK, PC
<1>5. ASSUME NEW g, NeverAnswered(g) PROVE GenTypeOK'
  BY <1>5 DEF NeverAnswered, UserOnly, GenTypeOK
<1> QED
  BY <1>1, <1>2, <1>3, <1>4, <1>5, GenTypeUser, GenTypeBuild
  DEF Next, Cog, Exit, Kill

LEMMA IdleTyped == Idle \in UploadType /\ NoUploads \in [Keys -> UploadType]
  BY PushAssumption DEF Idle, UploadType, UploadState, NoUploads

LEMMA StartedTyped ==
    ASSUME NEW d \in Digests
    PROVE  /\ Started(d) \in UploadType
           /\ Started(d).pc = "start" /\ Started(d).digest = d
  BY IdleTyped DEF Started, UploadType, UploadState

\* What may be uploaded.
LEMMA DigestsTyped ==
    ASSUME GenTypeOK
    PROVE  /\ \A k \in Files : <<"weights", project.files[k]>> \in Digests
           /\ \A k \in Files : ReadWeights[k] # None /\ cache.weights # Torn
                  => <<"weights", ReadWeights[k]>> \in Digests
           /\ \A t \in cache.apt : <<"apt", t>> \in Digests
           /\ image # None => /\ <<"python", image.reqs>> \in Digests
                              /\ <<"src", image.src>> \in Digests
<1>1. \A k \in Files : ReadWeights[k] # None /\ cache.weights # Torn
          => ReadWeights[k] \in Contents \cup {None}
  BY DEF GenTypeOK, CacheType, ReadWeights, NoWeights, Trees
<1>2. \A k \in Files : project.files[k] \in Contents \cup {None}
  BY DEF GenTypeOK, ProjectType, Trees
<1>3. image # None => /\ image.reqs \in Requirements \cup {None, Torn}
                      /\ image.src \in Trees
  BY DEF GenTypeOK, Images
<1>4. \A t \in cache.apt : t \in Tarballs
  BY DEF GenTypeOK, CacheType
<1> QED
  BY <1>1, <1>2, <1>3, <1>4 DEF Digests

\* What a step of an upload does: it moves one upload on, keeps its digest, and ends
\* it well only if the server has the file or was asked MaxPolls times.
LEMMA UploadMoves ==
    ASSUME GenTypeOK, PushTypeOK, NEW k \in Keys, Upload(k)
    PROVE  /\ UNCHANGED <<UserOnly, pc, tarballs, chal, posted>>
           /\ server \subseteq server' /\ server' \in SUBSET Digests
           /\ ups[k].pc \in {"start", "s3", "poll"}
           /\ \E u \in UploadType :
                 /\ ups' = [ups EXCEPT ![k] = u]
                 /\ u.pc # "none" /\ u.digest = ups[k].digest
                 /\ u.pc = "done" => u.digest \in server' \/ u.polls = MaxPolls
<1> USE DEF PushTypeOK
<1>1. ups \in [Keys -> UploadType] /\ ups[k] \in UploadType
  OBVIOUS
<1>2. CASE StartUpload(k)
  <2>1. PICK to \in {"done", "s3", "failed"} :
           /\ UploadStep(k, "start", to) /\ (to = "done" => ups[k].digest \in server)
           /\ UNCHANGED server
    BY <1>2 DEF StartUpload, UploadStep
  <2> DEFINE u == [ups[k] EXCEPT !.pc = to]
  <2>2. u \in UploadType /\ u.pc = to /\ u.digest = ups[k].digest
    BY <1>1 DEF UploadType, UploadState
  <2>3. ups' = [ups EXCEPT ![k] = u]
    BY <1>1, <2>1 DEF UploadStep
  <2> HIDE DEF u
  <2> QED
    BY <2>1, <2>2, <2>3 DEF UploadStep
<1>3. CASE UploadObject(k)
  <2>1. CASE ups' = [ups EXCEPT ![k].pc = "failed"]
    <3> DEFINE u == [ups[k] EXCEPT !.pc = "failed"]
    <3>1. u \in UploadType /\ u.pc = "failed" /\ u.digest = ups[k].digest
      BY <1>1 DEF UploadType, UploadState
    <3>2. ups' = [ups EXCEPT ![k] = u]
      BY <1>1, <2>1
    <3> HIDE DEF u
    <3> QED
      BY <1>3, <3>1, <3>2 DEF UploadObject
  <2>2. CASE ups' = [ups EXCEPT ![k].pc = "poll", ![k].sent = Read(k)]
    <3> DEFINE u == [ups[k] EXCEPT !.pc = "poll", !.sent = Read(k)]
    <3>1. Read(k) \in Digests \cup {None}
      BY <1>1, DigestsTyped DEF Read, UploadType
    <3>2. u \in UploadType /\ u.pc = "poll" /\ u.digest = ups[k].digest
      BY <1>1, <3>1 DEF UploadType, UploadState
    <3>3. ups' = [ups EXCEPT ![k] = u]
      BY <1>1, <2>2
    <3> HIDE DEF u
    <3> QED
      BY <1>3, <3>2, <3>3 DEF UploadObject
  <2> QED
    BY <1>3, <2>1, <2>2 DEF UploadObject
<1>4. CASE CheckVerificationStatus(k)
  <2> USE PushAssumption
  <2>1. /\ UNCHANGED <<UserOnly, pc, tarballs, chal, posted>>
        /\ server \subseteq server' /\ ups[k].pc = "poll"
    BY <1>4 DEF CheckVerificationStatus
  <2>2. CASE PollsLeft(ups[k]) /\ ups' = [ups EXCEPT ![k].polls = @ + 1] /\ UNCHANGED server
    <3> DEFINE u == [ups[k] EXCEPT !.polls = @ + 1]
    <3>1. u \in UploadType /\ u.pc = "poll" /\ u.digest = ups[k].digest
      BY <1>1, <2>1, <2>2 DEF UploadType, UploadState, PollsLeft
    <3>2. ups' = [ups EXCEPT ![k] = u]
      BY <1>1, <2>2
    <3> HIDE DEF u
    <3> QED
      BY <2>1, <2>2, <3>1, <3>2
  <2>3. CASE /\ ups' = [ups EXCEPT ![k] = Ended(ups[k].digest,
                             IF GoodVerdict(ups[k]) THEN "done" ELSE "failed")]
             /\ server' = server \cup (IF ups[k].sent = ups[k].digest
                                       THEN {ups[k].digest} ELSE {})
    <3> DEFINE how == IF GoodVerdict(ups[k]) THEN "done" ELSE "failed"
               u == Ended(ups[k].digest, how)
    <3>1. u \in UploadType /\ u.pc = how /\ u.digest = ups[k].digest
      BY <1>1, IdleTyped DEF Ended, UploadType, UploadState
    <3>2. ups[k].digest \in Digests
      BY <2>1
    <3>3. how = "done" => ups[k].digest \in server'
      BY <2>3 DEF GoodVerdict
    <3>4. ups' = [ups EXCEPT ![k] = u] /\ how \in {"done", "failed"}
      BY <2>3
    <3> HIDE DEF u, how
    <3> QED
      BY <2>1, <2>3, <3>1, <3>2, <3>3, <3>4
  <2>4. CASE ups' = [ups EXCEPT ![k].pc = "failed"] /\ UNCHANGED server
    <3> DEFINE u == [ups[k] EXCEPT !.pc = "failed"]
    <3>1. u \in UploadType /\ u.pc = "failed" /\ u.digest = ups[k].digest
      BY <1>1 DEF UploadType, UploadState
    <3>2. ups' = [ups EXCEPT ![k] = u]
      BY <1>1, <2>4
    <3> HIDE DEF u
    <3> QED
      BY <2>1, <2>4, <3>1, <3>2
  <2>5. CASE ~PollsLeft(ups[k]) /\ ups' = [ups EXCEPT ![k].pc = "done"] /\ UNCHANGED server
    <3> DEFINE u == [ups[k] EXCEPT !.pc = "done"]
    <3>0. ups[k].polls = MaxPolls
      BY <1>1, <2>5 DEF UploadType, PollsLeft
    <3>1. /\ u \in UploadType /\ u.pc = "done" /\ u.digest = ups[k].digest
          /\ u.polls = MaxPolls
      BY <1>1, <3>0 DEF UploadType, UploadState
    <3>2. ups' = [ups EXCEPT ![k] = u]
      BY <1>1, <2>5
    <3> HIDE DEF u
    <3> QED
      BY <2>1, <2>5, <3>1, <3>2
  <2> QED
    BY <1>4, <2>2, <2>3, <2>4, <2>5 DEF CheckVerificationStatus
<1> QED
  BY <1>2, <1>3, <1>4 DEF Upload

LEMMA PushTypeStep == GenTypeOK /\ ImageIsLast /\ PushTypeOK /\ [Next]_vars => PushTypeOK'
<1> SUFFICES ASSUME GenTypeOK, ImageIsLast, PushTypeOK, [Next]_vars PROVE PushTypeOK'
  OBVIOUS
<1> USE DEF PushTypeOK
<1>1. CASE UNCHANGED <<ups, chal, server>>
  BY <1>1
<1>2. ASSUME NEW k \in Keys, Upload(k) PROVE PushTypeOK'
  BY <1>2, UploadMoves
<1>3. ASSUME NEW k \in Keys, DoSingleFileChallenge(k) PROVE PushTypeOK'
  BY <1>3 DEF DoSingleFileChallenge
<1>4. ASSUME NEW k \in Keys, NEW d \in Digests, ups' = [ups EXCEPT ![k] = Started(d)],
             UNCHANGED <<chal, server>>
      PROVE PushTypeOK'
  BY <1>4, StartedTyped
<1>5. CASE ReadFastWeights
  <2>1. \A k \in Files : ReadWeights[k] # None /\ cache.weights # Torn =>
           /\ Started(<<"weights", ReadWeights[k]>>) \in UploadType
           /\ Started(<<"weights", ReadWeights[k]>>).digest \in Digests
    BY DigestsTyped, StartedTyped
  <2> QED
    BY <1>5, <2>1 DEF ReadFastWeights
<1>6. CASE UploadAptTarFile
  BY <1>1, <1>4, <1>6, DigestsTyped DEF UploadAptTarFile, Keys
<1>7. ASSUME NEW name \in {"python", "src"}, NEW content, NEW from, NEW to,
             <<name, content>> \in Digests, CreateTarFile(name, content, from, to),
             UNCHANGED <<chal, server>>
      PROVE PushTypeOK'
  <2>1. name \in Keys
    BY <1>7 DEF Keys
  <2> QED
    BY <1>1, <1>4, <1>7, <2>1 DEF CreateTarFile
<1>8. CASE CreatePythonPackagesTarFile \/ CreateSrcTarFile
  <2>1. <<"python", image.reqs>> \in Digests /\ <<"src", image.src>> \in Digests
    BY <1>8, DigestsTyped DEF ImageIsLast, Pushing, CreatePythonPackagesTarFile,
       CreateSrcTarFile, CreateTarFile, Goto
  <2> QED
    BY <1>1, <1>7, <1>8, <2>1 DEF CreatePythonPackagesTarFile, CreateSrcTarFile
<1>9. CASE InitiateChallenges
  BY <1>9 DEF InitiateChallenges
<1>10. CASE Gone
  <2>1. Unasked \in SUBSET Digests
    <3>1. \A k \in Keys : ups[k].sent # None => ups[k].sent \in Digests
      BY DEF UploadType
    <3> QED
      BY <3>1 DEF Unasked
  <2>2. server' \in SUBSET Digests
    BY <1>10, <2>1 DEF Gone
  <2>3. ups' = NoUploads /\ chal' = NoChallenges /\ \A k \in Keys : NoUploads[k].pc = "none"
    BY <1>10 DEF Gone, NoUploads, Idle
  <2> QED
    BY <2>2, <2>3, IdleTyped DEF NoChallenges
<1> QED
  BY <1>1, <1>2, <1>3, <1>5, <1>6, <1>8, <1>9, <1>10
  DEF vars, pushVars, Next, Cog, Main, Wait, WaitForAnswers, PostNewVersion,
      Exit, Kill, NeverAnswered

-----------------------------------------------------------------------------
(* The build                                                               *)

LEMMA GenInvInit == Init => GenInv
<1> SUFFICES ASSUME Init PROVE GenInv
  OBVIOUS
<1> USE FilesAssumption DEF Init, GenInit
<1>1. GenTypeOK
  BY NothingTyped DEF GenTypeOK, ProjectType, CacheType, PC, NoWeights
<1> QED
  BY <1>1 DEF GenInv, ImageIsLast, WeightsWritten, OneTarball, TarballReady, SourcesLinked,
     ImageOfThisBuild, NoWeightsInSrc, AptLayerMatches, CacheOfImage, Building, Pushing

\* An edit only turns links of the tree into files.
LEMMA EditKeeps ==
    ASSUME GenTypeOK, UserEdits
    PROVE  /\ UNCHANGED <<pc, cfg, found, aptFile, image>>
           /\ cache'.weights = cache.weights /\ cache'.apt = cache.apt
           /\ cache'.reqs = cache.reqs
           /\ \A f \in Files : cache'.src[f] # None => cache.src[f] # None
<1> USE FilesAssumption
<1>1. ASSUME NEW f \in Files, NEW c, Replace(f, c)
      PROVE  /\ cache'.weights = cache.weights /\ cache'.apt = cache.apt
             /\ cache'.reqs = cache.reqs
             /\ \A g \in Files : cache'.src[g] # None => cache.src[g] # None
  BY <1>1 DEF Replace, Detached, GenTypeOK, CacheType
<1> QED
  BY <1>1 DEF UserEdits, WriteInPlace, Replace, EditConfig, EditOf, Edit

GenRest == /\ ImageIsLast /\ WeightsWritten /\ OneTarball /\ TarballReady
           /\ SourcesLinked /\ ImageOfThisBuild /\ CacheOfImage

LEMMA GenRestUser == GenInv /\ UserEdits => GenRest'
  BY EditKeeps
  DEF GenInv, GenRest, ImageIsLast, WeightsWritten, OneTarball, TarballReady, SourcesLinked,
      ImageOfThisBuild, NoWeightsInSrc, AptLayerMatches, CacheOfImage, HaveTarball

LEMMA GenRestPush ==
    ASSUME GenInv, Main \/ \E k \in Keys : DoSingleFileChallenge(k) \/ Upload(k)
    PROVE  GenRest'
  BY PushKeeps
  DEF GenInv, GenRest, ImageIsLast, WeightsWritten, OneTarball, TarballReady, SourcesLinked,
      ImageOfThisBuild, NoWeightsInSrc, AptLayerMatches, CacheOfImage, HaveTarball,
      UserOnly, Building, Pushing

LEMMA GenRestStart ==
    ASSUME GenInv, Gone \/ \E local \in BOOLEAN : StartBuild(local)
    PROVE  GenRest'
  BY DEF Gone, StartBuild, Goto, GenInv, GenRest, ImageIsLast, WeightsWritten, OneTarball,
     TarballReady, SourcesLinked, ImageOfThisBuild, NoWeightsInSrc, AptLayerMatches,
     CacheOfImage, Building, Pushing

\* A tree that a local build copies has lost the files that are weights now.
LEMMA TreeWithoutWeights ==
    ASSUME GenTypeOK, InstallSrc, pc' = "docker", cfg.local
    PROVE  \A f \in Files : cache'.src[f] # None => found[f] = None
<1> DEFINE linked == [f \in Files |-> EnsureFSObjectExists(f)]
<1>1. cache' = [cache EXCEPT !.src = [f \in Files |-> IF f \in Unused(linked) THEN None
                                                      ELSE linked[f]]]
  BY DEF InstallSrc, RsyncSrc
<1> HIDE DEF linked
<1>2. \A f \in Files : cache'.src[f] = IF f \in Unused(linked) THEN None ELSE linked[f]
  BY <1>1 DEF GenTypeOK, CacheType
<1>3. ASSUME NEW f \in Files, cache'.src[f] # None PROVE found[f] = None
  <2>1. f \notin Unused(linked) /\ linked[f] # None
    BY <1>2, <1>3
  <2> QED
    BY <1>3, <2>1 DEF Unused, Present, Sources
<1> QED
  BY <1>3

\* The directory of tarballs is left as it was, or cleared, or with one tarball.
LEMMA TarballsLeft ==
    ASSUME GenTypeOK, CreateAptTarball \/ KillBuild
    PROVE  \/ cache'.apt = cache.apt \/ cache'.apt = {}
           \/ \E w \in BOOLEAN : cache'.apt = {[packages |-> cfg.packages, whole |-> w]}
<1>1. \A left : [cache EXCEPT !.apt = left].apt = left
  BY DEF GenTypeOK, CacheType
<1>2. CASE CreateAptTarball
  BY <1>1, <1>2 DEF CreateAptTarball, CreateAptTarFile, RemoveAptTarballs
<1>3. CASE KillBuild
  <2>1. /\ [cache EXCEPT !.weights = Torn].apt = cache.apt
        /\ [cache EXCEPT !.reqs = Torn].apt = cache.apt
    BY DEF GenTypeOK, CacheType
  <2> QED
    BY <1>1, <1>3, <2>1 DEF KillBuild
<1> QED
  BY <1>2, <1>3

LEMMA LayersMatch ==
    ASSUME GenInv, pc = "docker"
    PROVE  /\ Layers \in Images
           /\ \A f \in Files : Layers.weights[f] = None \/ Layers.src[f] = None
           /\ \/ cfg.packages = {} /\ Layers.apt = {}
              \/ {t.packages : t \in Layers.apt} = {cfg.packages}
           /\ Layers.apt \subseteq cache.apt
           /\ Layers.reqs # None => cache.reqs # None
<1>1. Layers \in Images
  BY SrcLayerTyped DEF Layers, Images, GenInv, GenTypeOK, CacheType
<1>2. \A f \in Files : Layers.weights[f] = None \/ Layers.src[f] = None
  BY FilesAssumption DEF Layers, SrcLayer, Sources, GenInv, SourcesLinked
<1>3. \/ cfg.packages = {} /\ Layers.apt = {}
      \/ {t.packages : t \in Layers.apt} = {cfg.packages}
  <2>1. CASE cfg.packages = {} /\ aptFile = None
    BY <2>1 DEF Layers
  <2>2. CASE cfg.packages # {} /\ aptFile = cfg.packages /\ HaveTarball
    <3>1. aptFile # None
      BY <2>2, FilesAssumption DEF GenInv, GenTypeOK, CfgType
    <3>2. Layers.apt = {t \in cache.apt : t.packages = cfg.packages}
      BY <2>2, <3>1 DEF Layers
    <3> QED
      BY <2>2, <3>2 DEF HaveTarball
  <2> QED
    BY <2>1, <2>2 DEF GenInv, TarballReady
<1> QED
  BY <1>1, <1>2, <1>3 DEF Layers

LEMMA GenRestBuild == GenInv /\ (Build \/ KillBuild) => GenRest'
<1> SUFFICES ASSUME GenInv, Build \/ KillBuild PROVE GenRest'
  OBVIOUS
<1> USE FilesAssumption
    DEF GenInv, GenRest, ImageIsLast, WeightsWritten, OneTarball, TarballReady,
        SourcesLinked, CacheOfImage, Building, Pushing, Goto
<1>1. ASSUME UNCHANGED <<image, cfg>> \/ image' = None PROVE ImageOfThisBuild'
  BY <1>1 DEF ImageOfThisBuild, NoWeightsInSrc, AptLayerMatches
<1>2. CASE PullMonobase
  BY <1>1, <1>2 DEF PullMonobase
<1>3. CASE FindFastWeights
  <2>1. UNCHANGED <<image, cfg, aptFile>> /\ cache'.apt = cache.apt
        /\ pc' \in {"failed", "apt"} /\ (pc' = "apt" => cache'.weights = found')
    BY <1>3 DEF FindFastWeights, WriteWeights, GenTypeOK, CacheType, genRest
  <2> QED
    BY <1>1, <1>3, <2>1 DEF FindFastWeights
<1>4. CASE CreateAptTarball
  <2>1. /\ UNCHANGED <<image, cfg, found>> /\ cache'.weights = cache.weights
        /\ pc = "apt" /\ pc' \in {"failed", "python"}
    BY <1>4 DEF CreateAptTarball, GenTypeOK, CacheType, genRest
  <2>2. OneTarball'
    BY <1>4, TarballsLeft
  <2>3. CASE cfg.packages = {} \/ HaveTarball \/ pc' = "failed"
    <3>1. TarballReady'
      BY <1>4, <2>1, <2>3 DEF CreateAptTarball, HaveTarball
    <3> QED
      BY <1>1, <2>1, <2>2, <3>1
  <2>4. CASE cfg.packages # {} /\ ~HaveTarball /\ pc' = "python"
    <3>1. aptFile' = cfg.packages /\ cache' = [cache EXCEPT !.apt = CreateAptTarFile(TRUE)]
      BY <1>4, <2>4 DEF CreateAptTarball
    <3>2. cache'.apt = {[packages |-> cfg.packages, whole |-> TRUE]}
      BY <3>1 DEF CreateAptTarFile, RemoveAptTarballs, GenTypeOK, CacheType
    <3>3. HaveTarball'
      BY <2>1, <3>2 DEF HaveTarball
    <3> QED
      BY <1>1, <2>1, <2>2, <2>4, <3>1, <3>3
  <2> QED
    BY <2>1, <2>3, <2>4
<1>5. CASE InstallPython
  <2>1. /\ UNCHANGED <<image, cfg, found, aptFile>> /\ cache'.weights = cache.weights
        /\ cache'.apt = cache.apt
        /\ pc = "python" /\ pc' \in {"failed", "src"}
    BY <1>5 DEF InstallPython, GenerateRequirements, GenTypeOK, CacheType, genRest
  <2> QED
    BY <1>1, <2>1 DEF HaveTarball
<1>6. CASE InstallSrc
  <2>1. /\ UNCHANGED <<image, cfg, found, aptFile>> /\ cache'.weights = cache.weights
        /\ cache'.apt = cache.apt
        /\ pc = "src" /\ pc' \in {"failed", "docker"}
    BY <1>6 DEF InstallSrc, RsyncSrc, GenTypeOK, CacheType, genRest
  <2>2. SourcesLinked'
    BY <1>6, <2>1, TreeWithoutWeights
  <2> QED
    BY <1>1, <2>1, <2>2 DEF HaveTarball
<1>7. CASE DockerBuild
  <2>1. CASE image' = Layers /\ pc' = "built"
    <3>1. UNCHANGED <<cache, cfg, found>> /\ pc = "docker"
      BY <1>7, <2>1 DEF DockerBuild
    <3>2. ImageOfThisBuild'
      BY <2>1, <3>1, LayersMatch DEF ImageOfThisBuild, NoWeightsInSrc, AptLayerMatches
    <3> QED
      BY <2>1, <3>1, <3>2, LayersMatch
  <2>2. CASE pc' = "failed" /\ UNCHANGED image
    BY <1>1, <1>7, <2>2 DEF DockerBuild
  <2> QED
    BY <1>7, <2>1, <2>2 DEF DockerBuild
<1>8. CASE KillBuild
  <2>1. /\ image' = None /\ pc' = "idle"
    BY <1>8 DEF KillBuild
  <2>2. OneTarball'
    BY <1>8, TarballsLeft
  <2> QED
    BY <1>1, <2>1, <2>2
<1> QED
  BY <1>2, <1>3, <1>4, <1>5, <1>6, <1>7, <1>8 DEF Build

LEMMA GenInvStep == GenInv /\ [Next]_vars => GenInv'
<1>1. GenInv /\ (UNCHANGED vars \/ \E g : NeverAnswered(g)) => GenRest'
  BY DEF vars, genVars, NeverAnswered, UserOnly, GenInv, GenRest, ImageIsLast, WeightsWritten, OneTarball,
     TarballReady, SourcesLinked, ImageOfThisBuild, NoWeightsInSrc, AptLayerMatches,
     CacheOfImage, HaveTarball
<1>2. GenInv /\ [Next]_vars => GenRest'
  BY <1>1, GenRestUser, GenRestPush, GenRestStart, GenRestBuild
     DEF Next, Cog, Exit, Kill
<1> QED
  BY <1>2, GenTypeStep DEF GenInv, GenRest

-----------------------------------------------------------------------------
(* The push                                                                *)

PushRest == /\ NothingStarted /\ WeightsPromised /\ TarsPromised /\ UploadsSettled
            /\ DoneIsStored /\ AllChallenged /\ PostedWhole

\* The steps of the push see the same weights and the same image, and upload what
\* was promised.
LEMMA PushRestUpload ==
    ASSUME GenInv, PushInv, NEW k \in Keys, Upload(k)
    PROVE  PushRest'
<1>1. /\ UNCHANGED <<found, image, pc, chal, posted>> /\ server \subseteq server'
      /\ ups[k].pc \in {"start", "s3", "poll"}
  BY UploadMoves DEF GenInv, PushInv, UserOnly
<1>2. PICK u \in UploadType :
         /\ ups' = [ups EXCEPT ![k] = u]
         /\ u.pc # "none" /\ u.digest = ups[k].digest
         /\ u.pc = "done" => u.digest \in server' \/ u.polls = MaxPolls
  BY UploadMoves DEF GenInv, PushInv
<1>3. /\ \A j \in Keys : (ups'[j].pc = "none") <=> (ups[j].pc = "none")
      /\ \A j \in Keys : ups'[j].digest = ups[j].digest
      /\ \A j \in Keys : j # k => ups'[j] = ups[j]
      /\ ups'[k] = u
  BY <1>1, <1>2 DEF PushInv, PushTypeOK
<1>4. pc \notin AfterWait /\ posted = None
  BY <1>1 DEF PushInv, UploadsSettled, PostedWhole, AfterWait, AfterAsking, AfterAnswers
<1>5. pc \notin Building \cup {"idle", "pull", "built"}
  BY <1>1 DEF PushInv, NothingStarted, NoUploads, Idle
<1>6. Files \subseteq Keys /\ {"apt", "python", "src"} \subseteq Keys
  BY DEF Keys
<1>7. DoneIsStored'
  BY <1>1, <1>2, <1>3 DEF PushInv, DoneIsStored
<1>8. WeightsPromised' /\ TarsPromised'
  BY <1>1, <1>3, <1>6 DEF PushInv, WeightsPromised, TarsPromised, Promises
<1>9. pc' \notin AfterAsking /\ pc' \notin AfterAnswers
  BY <1>1, <1>4 DEF AfterWait, AfterAsking
<1> QED
  BY <1>1, <1>4, <1>5, <1>7, <1>8, <1>9
  DEF PushRest, NothingStarted, UploadsSettled, AllChallenged, PostedWhole

LEMMA PushRestChallenge ==
    ASSUME PushInv, NEW k \in Keys, DoSingleFileChallenge(k)
    PROVE  PushRest'
<1>1. /\ UNCHANGED <<found, image, pc, ups, server, posted>>
      /\ chal[k] = "asked" /\ \A j \in Keys : j # k => chal'[j] = chal[j]
      /\ chal'[k] \in {"answered", "failed"}
  BY DEF DoSingleFileChallenge, UserOnly, PushInv, PushTypeOK
<1>2. pc \notin AfterAnswers
  BY <1>1 DEF PushInv, AllChallenged
<1> QED
  BY <1>1, <1>2 DEF PushInv, PushRest, NothingStarted, WeightsPromised, TarsPromised, Promises,
     UploadsSettled, DoneIsStored, AllChallenged, PostedWhole, Promised, Chosen

\* The steps before and after a push.
LEMMA PushRestBuild ==
    ASSUME GenInv, PushInv,
           \/ (Build \/ KillBuild) /\ UNCHANGED <<ups, chal, server, posted>>
           \/ UserEdits /\ UNCHANGED pushVars
           \/ \E local \in BOOLEAN : StartBuild(local) /\ UNCHANGED pushVars
           \/ Gone
           \/ \E g : NeverAnswered(g)
           \/ UNCHANGED vars
    PROVE  PushRest'
<1> USE DEF PushInv, PushRest, NothingStarted, WeightsPromised, TarsPromised, Promises,
            UploadsSettled, DoneIsStored, AllChallenged, PostedWhole, Promised, Chosen,
            pushVars
<1>1. CASE \/ UserEdits /\ UNCHANGED pushVars
           \/ (\E g : NeverAnswered(g)) \/ UNCHANGED vars
  <2>1. UNCHANGED <<pc, found, image, ups, chal, server, posted>>
    BY <1>1, EditKeeps DEF vars, genVars, GenInv, NeverAnswered, UserOnly
  <2> QED
    BY <2>1
<1>2. CASE \/ (Build \/ KillBuild) /\ UNCHANGED <<ups, chal, server, posted>>
           \/ \E local \in BOOLEAN : StartBuild(local) /\ UNCHANGED pushVars
  <2>1. /\ pc \in Building \cup {"idle", "pull"}
        /\ pc' \in Building \cup {"idle", "pull", "built", "failed"}
        /\ UNCHANGED <<ups, chal, server, posted>>
    BY <1>2 DEF Build, PullMonobase, FindFastWeights, CreateAptTarball, InstallPython,
       InstallSrc, RsyncSrc, DockerBuild, KillBuild, StartBuild, Goto, Building
  <2>2. pc' \notin AfterWeights /\ posted = None
    BY <2>1 DEF AfterWeights, AfterApt, AfterPython, AfterSrc, AfterWait, AfterAsking,
       AfterAnswers, Building
  <2> QED
    BY <2>1, <2>2 DEF AfterWeights, AfterApt, AfterPython, AfterSrc, AfterWait, AfterAsking
<1>3. CASE Gone
  <2>1. /\ pc' = "idle" /\ ups' = NoUploads /\ posted' = None
        /\ \A k \in Keys : NoUploads[k].pc = "none"
    BY <1>3 DEF Gone, NoUploads, Idle
  <2> QED
    BY <2>1 DEF AfterWeights, AfterApt, AfterPython, AfterSrc, AfterWait, AfterAsking,
       AfterAnswers
<1> QED
  BY <1>1, <1>2, <1>3

\* One more upload is started, of a tarball.
LEMMA StartsOne ==
    ASSUME PushInv, NEW name \in {"apt", "python", "src"}, NEW d \in Digests,
           ups' = [ups EXCEPT ![name] = Started(d)], UNCHANGED <<server, found, image>>
    PROVE  /\ Promises(name, d)' /\ DoneIsStored'
           /\ \A j \in Keys : j # name => ups'[j] = ups[j]
           /\ \A j \in Files : ups'[j] = ups[j]
<1>1. name \in Keys /\ name \notin Files /\ Files \subseteq Keys
  BY PushAssumption DEF Keys
<1>2. ups'[name] = Started(d) /\ \A j \in Keys : j # name => ups'[j] = ups[j]
  BY <1>1 DEF PushInv, PushTypeOK
<1>3. \A j \in Files : ups'[j] = ups[j]
  BY <1>1, <1>2
<1>4. Promises(name, d)' /\ Started(d).pc = "start"
  BY <1>2, StartedTyped DEF Promises
<1>5. DoneIsStored'
  BY <1>2, <1>4 DEF PushInv, DoneIsStored
<1> QED
  BY <1>2, <1>3, <1>4, <1>5

LEMMA PushRestWeights ==
    ASSUME GenInv, PushInv, ReadFastWeights
    PROVE  PushRest'
<1>1. /\ pc = "built" /\ pc' \in {"apttar", "failed"} /\ ups = NoUploads /\ posted' = None
      /\ UNCHANGED <<found, image, chal, server>>
  BY DEF ReadFastWeights, Goto, UserOnly, PushInv, NothingStarted, PostedWhole
<1>2. \A k \in Files : found[k] # None => <<"weights", found[k]>> \in Digests
  BY DEF GenInv, GenTypeOK, Trees, Digests
<1>3. ASSUME pc' = "apttar"
      PROVE  \A k \in Keys :
                ups'[k] = IF k \in Files /\ found[k] # None
                          THEN Started(<<"weights", found[k]>>) ELSE Idle
  <2>1. cache.weights = found /\ found # None
    BY <1>1, FilesAssumption DEF GenInv, WeightsWritten, GenTypeOK
  <2>2. ReadWeights = found
    BY <2>1 DEF ReadWeights
  <2>3. \A k \in Keys : ups[k] = Idle
    BY <1>1 DEF NoUploads
  <2>4. ups' = [k \in Keys |-> IF k \in Files /\ ReadWeights[k] # None
                               THEN Started(<<"weights", ReadWeights[k]>>) ELSE ups[k]]
    BY <1>1, <1>3 DEF ReadFastWeights, Goto
  <2> QED
    BY <2>2, <2>3, <2>4
<1> DEFINE w(k) == Started(<<"weights", found[k]>>)
<1>w. \A k \in Files : found[k] # None =>
          w(k).pc = "start" /\ w(k).digest = <<"weights", found[k]>>
  BY <1>2, StartedTyped
<1>i. Idle.pc = "none" /\ "none" # "start"
  BY DEF Idle
<1> HIDE DEF w
<1>e. ASSUME pc' = "apttar"
      PROVE  \A k \in Keys : ups'[k] = IF k \in Files /\ found[k] # None THEN w(k) ELSE Idle
  BY <1>3, <1>e DEF w
<1>4. \A k \in Keys : ups'[k].pc \in {"none", "start"}
  <2>1. CASE pc' = "apttar"
    BY <1>e, <1>w, <1>i, <2>1
  <2>2. CASE pc' = "failed"
    BY <1>1, <2>2 DEF ReadFastWeights, Goto, NoUploads, Idle
  <2> QED
    BY <1>1, <2>1, <2>2
<1>5. WeightsPromised'
  <2>1. CASE pc' = "apttar"
    <3>1. \A k \in Files : k \in Keys
      BY DEF Keys
    <3>2. \A k \in Files : IF found[k] = None THEN ups'[k].pc = "none"
                           ELSE /\ ups'[k].pc = "start"
                                /\ ups'[k].digest = <<"weights", found[k]>>
      BY <1>e, <1>w, <1>i, <2>1, <3>1
    <3> QED
      BY <1>1, <3>2 DEF WeightsPromised, Promises
  <2>2. CASE pc' = "failed"
    BY <2>2 DEF WeightsPromised, AfterWeights, AfterApt, AfterPython, AfterSrc, AfterWait,
       AfterAsking, AfterAnswers
  <2> QED
    BY <1>1, <2>1, <2>2
<1>6. pc' \notin AfterApt
  BY <1>1 DEF AfterApt, AfterPython, AfterSrc, AfterWait, AfterAsking, AfterAnswers
<1> QED
  BY <1>1, <1>4, <1>5, <1>6
  DEF PushRest, NothingStarted, TarsPromised, UploadsSettled, DoneIsStored, AllChallenged,
      PostedWhole, AfterApt, AfterPython, AfterSrc, AfterWait, AfterAsking, Building

\* What a step that starts the upload of a tarball, or finds that it need not, keeps.
LEMMA TarStep ==
    ASSUME GenInv, PushInv, NEW name \in {"apt", "python", "src"}, NEW d \in Digests,
           pc \in {"apttar", "pythontar", "srctar"},
           pc' \in {"pythontar", "srctar", "wait", "failed"},
           \/ ups' = ups
           \/ ups' = [ups EXCEPT ![name] = Started(d)],
           UNCHANGED <<found, image, chal, server, posted>>
    PROVE  /\ NothingStarted' /\ WeightsPromised' /\ UploadsSettled' /\ DoneIsStored'
           /\ AllChallenged' /\ PostedWhole'
<1> USE DEF PushInv
<1>1. posted = None /\ pc' \notin AfterWait /\ pc \in AfterWeights
  BY DEF PostedWhole, AfterWeights, AfterApt, AfterPython, AfterSrc, AfterWait, AfterAsking,
     AfterAnswers
<1>2. pc' \notin Building \cup {"idle", "pull", "built"}
  BY DEF Building
<1>3. DoneIsStored'
  BY StartsOne DEF DoneIsStored
<1>4. \A j \in Files : ups'[j] = ups[j]
  BY StartsOne
<1>5. WeightsPromised'
  BY <1>1, <1>4 DEF WeightsPromised, Promises
<1> QED
  BY <1>1, <1>2, <1>3, <1>5
  DEF NothingStarted, UploadsSettled, AllChallenged, PostedWhole, AfterWait, AfterAsking

LEMMA PushRestApt ==
    ASSUME GenInv, PushInv, UploadAptTarFile
    PROVE  PushRest'
<1>1. /\ pc = "apttar" /\ pc' = "pythontar"
      /\ UNCHANGED <<found, image, chal, server, posted>>
  BY DEF UploadAptTarFile, Goto, UserOnly
<1>2. PICK t \in cache.apt \cup {None} :
         /\ CurrentAptTarball(t)
         /\ ups' = IF t = None THEN ups ELSE [ups EXCEPT !["apt"] = Started(<<"apt", t>>)]
  BY DEF UploadAptTarFile
<1>3. None \notin cache.apt /\ image \in Images /\ image.apt \subseteq cache.apt
      /\ (t \in cache.apt => <<"apt", t>> \in Digests) /\ Digests # {}
  BY <1>1, FilesAssumption, DigestsTyped
  DEF GenInv, GenTypeOK, CacheType, ImageIsLast, CacheOfImage, Pushing, Digests
<1>4. /\ NothingStarted' /\ WeightsPromised' /\ UploadsSettled' /\ DoneIsStored'
      /\ AllChallenged' /\ PostedWhole'
  BY <1>1, <1>2, <1>3, TarStep
<1>5. ASSUME NEW s \in image.apt PROVE Promises("apt", <<"apt", s>>)'
  <2>1. s \in cache.apt /\ t = s /\ t # None
    BY <1>2, <1>3 DEF CurrentAptTarball, GenInv, OneTarball
  <2> QED
    BY <1>1, <1>2, <1>3, <2>1, StartsOne
<1>6. TarsPromised'
  BY <1>1, <1>5 DEF TarsPromised, AfterPython, AfterSrc, AfterWait, AfterAsking, AfterAnswers
<1> QED
  BY <1>4, <1>6 DEF PushRest

LEMMA PushRestPython ==
    ASSUME GenInv, PushInv, CreatePythonPackagesTarFile
    PROVE  PushRest'
<1> DEFINE d == <<"python", image.reqs>>
<1>1. /\ pc = "pythontar" /\ pc' \in {"srctar", "failed"}
      /\ UNCHANGED <<found, image, chal, server, posted>>
      /\ \/ ups' = ups /\ (pc' = "srctar" => ~CurrentRequirements)
         \/ ups' = [ups EXCEPT !["python"] = Started(d)]
  BY DEF CreatePythonPackagesTarFile, CreateTarFile, Goto, UserOnly
<1>2. image # None /\ d \in Digests /\ (image.reqs # None => CurrentRequirements)
  BY <1>1, DigestsTyped
  DEF GenInv, ImageIsLast, CacheOfImage, CurrentRequirements, Pushing
<1>d. d' = d
  BY <1>1
<1> HIDE DEF d
<1>3. /\ NothingStarted' /\ WeightsPromised' /\ UploadsSettled' /\ DoneIsStored'
      /\ AllChallenged' /\ PostedWhole'
  BY <1>1, <1>2, TarStep
<1>4. "apt" \in Keys /\ ups'["apt"] = ups["apt"]
  BY <1>1, <1>2, StartsOne DEF Keys
<1>5. \A t \in image.apt : Promises("apt", <<"apt", t>>)'
  BY <1>1, <1>2, <1>4 DEF PushInv, TarsPromised, Promises, AfterApt
<1>6. ASSUME pc' = "srctar", image.reqs # None PROVE Promises("python", d)'
  BY <1>1, <1>2, <1>d, <1>6, StartsOne
<1>7. pc' \notin AfterSrc
  BY <1>1 DEF AfterSrc, AfterWait, AfterAsking, AfterAnswers
<1>8. TarsPromised'
  BY <1>1, <1>5, <1>6, <1>7 DEF TarsPromised, d, AfterPython, AfterSrc, AfterWait,
     AfterAsking, AfterAnswers
<1> QED
  BY <1>3, <1>8 DEF PushRest

LEMMA PushRestSrc ==
    ASSUME GenInv, PushInv, CreateSrcTarFile
    PROVE  PushRest'
<1> DEFINE d == <<"src", image.src>>
<1>1. /\ pc = "srctar" /\ pc' \in {"wait", "failed"}
      /\ UNCHANGED <<found, image, chal, server, posted>>
      /\ \/ ups' = ups /\ pc' = "failed"
         \/ ups' = [ups EXCEPT !["src"] = Started(d)]
  BY DEF CreateSrcTarFile, CreateTarFile, Goto, UserOnly
<1>2. image # None /\ d \in Digests
  BY <1>1, DigestsTyped DEF GenInv, ImageIsLast, Pushing
<1>d. d' = d
  BY <1>1
<1> HIDE DEF d
<1>3. /\ NothingStarted' /\ WeightsPromised' /\ UploadsSettled' /\ DoneIsStored'
      /\ AllChallenged' /\ PostedWhole'
  BY <1>1, <1>2, TarStep
<1>4. /\ "apt" \in Keys /\ ups'["apt"] = ups["apt"]
      /\ "python" \in Keys /\ ups'["python"] = ups["python"]
  BY <1>1, <1>2, StartsOne DEF Keys
<1>5. /\ \A t \in image.apt : Promises("apt", <<"apt", t>>)'
      /\ image.reqs # None => Promises("python", <<"python", image.reqs>>)'
  BY <1>1, <1>2, <1>4 DEF PushInv, TarsPromised, Promises, AfterApt, AfterPython
<1>6. ASSUME pc' = "wait" PROVE Promises("src", d)'
  BY <1>1, <1>2, <1>d, <1>6, StartsOne
<1>7. TarsPromised'
  <2>1. CASE pc' = "wait"
    BY <1>1, <1>5, <1>6, <2>1 DEF TarsPromised, d
  <2>2. CASE pc' = "failed"
    BY <2>2 DEF TarsPromised, AfterApt, AfterPython, AfterSrc, AfterWait, AfterAsking,
       AfterAnswers
  <2> QED
    BY <1>1, <2>1, <2>2
<1> QED
  BY <1>3, <1>7 DEF PushRest

\* From the wait on nothing is started or uploaded any more.
LEMMA PushRestSettled ==
    ASSUME GenInv, PushInv, Wait \/ InitiateChallenges \/ WaitForAnswers \/ PostNewVersion
    PROVE  PushRest'
<1> USE DEF PushInv, Goto
<1>1. /\ UNCHANGED <<found, image, ups, server>>
      /\ \/ pc = "wait" /\ pc' = "challenge"
         \/ pc = "challenge" /\ pc' = "answers"
         \/ pc = "answers" /\ pc' = "post"
         \/ pc = "post" /\ pc' = "posted"
         \/ pc' = "failed"
      /\ pc \in AfterSrc /\ posted = None
  BY DEF Wait, InitiateChallenges, WaitForAnswers, PostNewVersion, UserOnly, pushVars,
     PostedWhole, AfterSrc, AfterWait, AfterAsking, AfterAnswers
<1>2. /\ pc \in AfterPython /\ pc \in AfterApt /\ pc \in AfterWeights
      /\ pc' \notin Building \cup {"idle", "pull", "built"}
  BY <1>1 DEF AfterWeights, AfterApt, AfterPython, Building
<1>3. NothingStarted' /\ DoneIsStored'
  BY <1>1, <1>2 DEF NothingStarted, DoneIsStored
<1>4. WeightsPromised' /\ TarsPromised'
  BY <1>1, <1>2 DEF WeightsPromised, TarsPromised, Promises
<1>5. CASE pc' = "failed"
  <2>1. UNCHANGED posted
    BY <1>5 DEF Wait, InitiateChallenges, WaitForAnswers, PostNewVersion, pushVars
  <2> QED
    BY <1>1, <1>3, <1>4, <1>5, <2>1
    DEF PushRest, UploadsSettled, AllChallenged, PostedWhole, AfterWait, AfterAsking,
        AfterAnswers
<1>6. CASE Wait /\ pc' = "challenge"
  <2>1. \A k \in Keys : ups[k].pc \in {"none", "done"}
    BY <1>6 DEF Wait, Waited, Live
  <2> QED
    BY <1>1, <1>3, <1>4, <1>6, <2>1
    DEF Wait, pushVars, PushRest, UploadsSettled, AllChallenged, PostedWhole, AfterAsking,
        AfterAnswers
<1>7. CASE InitiateChallenges
  <2>1. /\ pc = "challenge" /\ pc' = "answers" /\ UNCHANGED posted
        /\ \A k \in Keys : (chal'[k] = "none") <=> (ups[k].pc = "none")
    BY <1>7 DEF InitiateChallenges, Chosen
  <2>2. UploadsSettled'
    BY <1>1, <2>1 DEF UploadsSettled, AfterWait
  <2> QED
    BY <1>1, <1>3, <1>4, <2>1, <2>2 DEF PushRest, AllChallenged, PostedWhole, AfterAnswers
<1>8. CASE WaitForAnswers /\ pc' = "post"
  <2>1. /\ pc = "answers" /\ UNCHANGED <<chal, posted>>
        /\ \A k \in Keys : chal[k] # "failed" /\ chal[k] # "asked"
    BY <1>8 DEF WaitForAnswers, AnswersWaited, pushVars
  <2>2. UploadsSettled'
    BY <1>1, <2>1 DEF UploadsSettled, AfterWait, AfterAsking
  <2>3. AllChallenged'
    BY <1>1, <2>1 DEF AllChallenged, AfterAsking, PushTypeOK
  <2> QED
    BY <1>1, <1>3, <1>4, <2>1, <2>2, <2>3 DEF PushRest, PostedWhole
<1>9. CASE PostNewVersion /\ pc' = "posted"
  <2>1. /\ pc = "post" /\ UNCHANGED chal
        /\ posted' = [files |-> Promised, answers |-> {k \in Keys : chal[k] = "answered"}]
    BY <1>9 DEF PostNewVersion
  <2>2. \A k \in Keys : (chal[k] = "answered") <=> (ups[k].pc # "none")
    BY <2>1 DEF AllChallenged, AfterAsking, AfterAnswers
  <2>3. Promised' = Promised /\ Chosen' = Chosen
    BY <1>1 DEF Promised, Chosen
  <2>4. {k \in Keys : chal[k] = "answered"} = Chosen
    BY <2>2 DEF Chosen
  <2>5. UploadsSettled' /\ AllChallenged'
    BY <1>1, <2>1 DEF UploadsSettled, AllChallenged, AfterWait, AfterAsking, AfterAnswers
  <2>6. PostedWhole'
    BY <1>9, <2>1, <2>3, <2>4 DEF PostedWhole
  <2> QED
    BY <1>3, <1>4, <2>5, <2>6 DEF PushRest
<1> QED
  BY <1>1, <1>5, <1>6, <1>7, <1>8, <1>9 DEF Wait, InitiateChallenges, WaitForAnswers,
     PostNewVersion

LEMMA PushInvInit == Init => PushInv
<1> SUFFICES ASSUME Init PROVE PushInv
  OBVIOUS
<1>1. /\ pc = "idle" /\ image = None /\ ups = NoUploads /\ chal = NoChallenges
      /\ server = {} /\ posted = None
  BY DEF Init, GenInit, PushInit
<1>2. \A k \in Keys : ups[k].pc = "none"
  BY <1>1 DEF NoUploads, Idle
<1>3. PushTypeOK
  BY <1>1, <1>2, IdleTyped DEF PushTypeOK, NoChallenges
<1> QED
  BY <1>1, <1>2, <1>3
  DEF PushInv, NothingStarted, WeightsPromised, TarsPromised, UploadsSettled, DoneIsStored,
      AllChallenged, PostedWhole, AfterWeights, AfterApt, AfterPython, AfterSrc, AfterWait,
      AfterAsking, AfterAnswers

LEMMA PushInvStep == IInv /\ [Next]_vars => PushInv'
<1>1. IInv /\ [Next]_vars => PushRest'
  BY PushRestUpload, PushRestChallenge, PushRestBuild, PushRestWeights, PushRestApt,
     PushRestPython, PushRestSrc, PushRestSettled
     DEF IInv, Next, Cog, Main, Exit, Kill, pushVars
<1> QED
  BY <1>1, PushTypeStep DEF IInv, PushInv, GenInv, PushRest

-----------------------------------------------------------------------------
(* Theorems                                                                *)

\* In every behaviour of fast builds and pushes, .cog/tmp holds what the later steps
\* of a build and the push after it take from it, and the uploads and challenges are
\* where the main goroutine believes them to be.
THEOREM FastPushInv == Spec => []IInv
<1>1. Init => IInv
  BY GenInvInit, PushInvInit DEF IInv, Init
<1>2. IInv /\ [Next]_vars => IInv'
  BY GenInvStep, PushInvStep DEF IInv
<1> QED
  BY <1>1, <1>2, PTL DEF Spec

\* An image has no layer of an earlier build: whatever a build that was killed or
\* failed left in .cog/tmp, no file is in an image both as a weight and as a source,
\* and its system packages are those of cog.yaml.
THEOREM FastPushImageOfThisBuild == Spec => []ImageOfThisBuild
<1>1. IInv => ImageOfThisBuild
  BY DEF IInv, GenInv
<1> QED
  BY <1>1, FastPushInv, PTL

\* A version is posted only with files that the server has or that cog stopped asking
\* about, with one answered challenge for each, in whatever order the goroutines of
\* uploadFiles and answerChallenges end.
THEOREM FastPushPostedIsStored == Spec => []PostedIsStored
<1>1. IInv => PostedIsStored
  <2> SUFFICES ASSUME IInv, posted # None PROVE PostedIsStored
    BY DEF PostedIsStored
  <2>1. /\ pc = "posted" /\ posted.files = Promised /\ posted.answers = Chosen
    BY DEF IInv, PushInv, PostedWhole
  <2>2. \A k \in Keys : ups[k].pc \in {"none", "done"}
    BY <2>1 DEF IInv, PushInv, UploadsSettled, AfterWait, AfterAsking, AfterAnswers
  <2>3. posted.answers = {f[1] : f \in posted.files}
    <3>1. \A f \in Promised : f[1] \in Chosen
      BY DEF Promised
    <3>2. \A k \in Chosen : <<k, ups[k].digest>> \in Promised /\ <<k, ups[k].digest>>[1] = k
      BY DEF Promised
    <3>3. {f[1] : f \in Promised} = Chosen
      <4>1. ASSUME NEW k \in Chosen PROVE \E f \in Promised : k = f[1]
        BY <3>2
      <4> QED
        BY <3>1, <4>1
    <3> QED
      BY <2>1, <3>3
  <2>4. ASSUME NEW k \in Keys, NEW d, <<k, d>> \in posted.files
        PROVE  d \in server \/ (ups[k].pc = "done" /\ ups[k].polls = MaxPolls)
    <3>1. k \in Chosen /\ d = ups[k].digest
      BY <2>1, <2>4 DEF Promised
    <3>2. ups[k].pc = "done"
      BY <2>2, <3>1 DEF Chosen
    <3> QED
      BY <3>1, <3>2 DEF IInv, PushInv, DoneIsStored
  <2> QED
    BY <2>3, <2>4 DEF PostedIsStored
<1> QED
  BY <1>1, FastPushInv, PTL

\* A version names the weights its image was built with, by the digests they had then,
\* even when the user changes the files while they are uploaded.
THEOREM FastPushPostedWeightsOfBuild == Spec => []PostedWeightsOfBuild
<1>1. IInv => PostedWeightsOfBuild
  <2> SUFFICES ASSUME IInv, posted # None PROVE PostedWeightsOfBuild
    BY DEF PostedWeightsOfBuild
  <2>1. pc = "posted" /\ posted.files = Promised
    BY DEF IInv, PushInv, PostedWhole
  <2>2. \A k \in Files : IF found[k] = None THEN ups[k].pc = "none"
                         ELSE ups[k].pc # "none" /\ ups[k].digest = <<"weights", found[k]>>
    BY <2>1 DEF IInv, PushInv, WeightsPromised, Promises, AfterWeights, AfterApt,
       AfterPython, AfterSrc, AfterWait, AfterAsking, AfterAnswers
  <2>3. \A k \in Files : k \in Keys
    BY DEF Keys
  <2>4. ASSUME NEW f \in Promised, f[1] \in Files
        PROVE  f \in {<<k, <<"weights", found[k]>>>> : k \in Present(found)}
    <3>1. PICK k \in Chosen : f = <<k, ups[k].digest>>
      BY <2>4 DEF Promised
    <3>2. k \in Files /\ ups[k].pc # "none"
      BY <2>4, <3>1 DEF Chosen
    <3> QED
      BY <2>2, <3>1, <3>2 DEF Present
  <2>5. ASSUME NEW k \in Present(found)
        PROVE  <<k, <<"weights", found[k]>>>> \in Promised
    BY <2>2, <2>3, <2>5 DEF Present, Promised, Chosen
  <2> QED
    BY <2>1, <2>4, <2>5 DEF PostedWeightsOfBuild, Present
<1> QED
  BY <1>1, FastPushInv, PTL

\* The tarballs a version names are made from the image of this push: one of an
\* earlier push that lies in .cog/tarballs is never uploaded in its stead.
THEOREM FastPushPostedTarsOfImage == Spec => []PostedTarsOfImage
<1>1. IInv => PostedTarsOfImage
  <2> SUFFICES ASSUME IInv, posted # None PROVE PostedTarsOfImage
    BY DEF PostedTarsOfImage
  <2>1. pc = "posted" /\ posted.files = Promised
    BY DEF IInv, PushInv, PostedWhole
  <2>2. image # None
    BY <2>1 DEF IInv, GenInv, ImageIsLast
  <2>3. /\ \A t \in image.apt : Promises("apt", <<"apt", t>>)
        /\ image.reqs # None => Promises("python", <<"python", image.reqs>>)
        /\ Promises("src", <<"src", image.src>>)
    BY <2>1, <2>2 DEF IInv, PushInv, TarsPromised, AfterApt, AfterPython, AfterSrc,
       AfterWait, AfterAsking, AfterAnswers
  <2>4. ASSUME NEW k \in Keys, NEW d, Promises(k, d) PROVE <<k, d>> \in posted.files
    BY <2>1, <2>4 DEF Promises, Promised, Chosen
  <2>5. {"apt", "python", "src"} \subseteq Keys
    BY DEF Keys
  <2> QED
    BY <2>3, <2>4, <2>5 DEF PostedTarsOfImage
<1> QED
  BY <1>1, FastPushInv, PTL
=============================================================================
