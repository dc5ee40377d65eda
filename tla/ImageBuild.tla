----------------------------- MODULE ImageBuild -----------------------------
(***************************************************************************)
(* cog build: image.Build and image.BuildBase (pkg/image/build.go), the    *)
(* command around them (pkg/cli/build.go), the generator's part of         *)
(* --separate-weights (pkg/dockerfile/standard_generator.go), the weights  *)
(* manifest (pkg/weights/manifest.go) and the validation of pipelines      *)
(* (pkg/procedure/validate.go).                                            *)
(*                                                                         *)
(* One build runs at a time in a model directory; each action is one       *)
(* effect on the directory or on Docker, so that a build may fail after    *)
(* any of them and may be killed between any two.  What a build leaves in  *)
(* the directory (.dockerignore, its backup, the bundled schema, the       *)
(* manifest, downloaded requirements) is where the next one starts.        *)
(* Between builds the user edits the model, .dockerignore or the images.   *)
(*                                                                         *)
(* A Dockerfile, and what the base image contributes, is abstracted to     *)
(* whether it can be generated: Dockerfile models its contents.            *)
(***************************************************************************)
EXTENDS Integers, FiniteSets, Weights, CogCommand

CONSTANTS Names,        \* names a model image is given
          BaseName,     \* config.BaseDockerImageName(dir)
          Trees,        \* model directories: functions from paths to versions
          UserIgnores,  \* sets of patterns the user writes
          Header,       \* DockerignoreHeader, as a set of patterns
          Requests,     \* the ways cog build is called
          Etags,        \* versions of the pipelines requirements
          MaxBuilds, MaxEdits   \* bounds

CogDir == <<".cog">>
Code == <<"predict.py">>

\* What may be written into .dockerignore: the paths and directories of a
\* model, and what the user and the header of cog say.
Patterns == (UNION UserIgnores) \cup Header
            \cup (UNION {DOMAIN t \cup {Dir(p) : p \in DOMAIN t} : t \in Trees})

ASSUME BuildAssumption ==
    /\ BaseName \notin Names
    /\ Names # {} /\ Trees # {}
    /\ {} \in UserIgnores
    /\ \A S \in SUBSET Patterns : S # None
    /\ \A t \in Trees : Code \in DOMAIN t /\ DOMAIN t \subseteq Seq(STRING) \ {<<>>}
    /\ None \notin [version : Etags, whole : BOOLEAN]
    /\ Requests \subseteq [name : Names \cup {BaseName},
                           mode : {"dockerfile", "plain", "separate", "base"},
                           pipeline : BOOLEAN,
                           schema : {"run", "valid", "invalid"},
                           cogBase : {"auto", "on", "off"}]
    /\ MaxBuilds \in Nat /\ MaxEdits \in Nat

VARIABLES
    req,          \* how the build was called
    local,        \* what the build has computed
    result,       \* of the last build: "none", "ok" or "error"
    \* the model directory
    tree,         \* the files of the model
    ignoreFile,   \* .dockerignore
    backup,       \* .dockerignore.cog.bak
    schemaFile,   \* .cog/openapi_schema.json
    manifestFile, \* .cog/cache/weights_manifest.json
    tmpDirs,      \* number of directories under .cog/tmp
    reqFiles,     \* Etags -> .cog/pipelines_runtime_requirements_<etag>.txt
    \* outside
    images,       \* image name -> image
    weightsImages,\* image name -> the image <name>-weights
    etag,         \* the current requirements of the pipelines runtime
    \* history and bounds
    userIgnore,   \* the patterns the user last wrote
    startIgnore,  \* what .dockerignore (or else its backup) held at the start
    built,        \* the manifests weights images were built from
    leaked,       \* temporary directories a kill or a failed cleanup left
    cut,          \* whether .dockerignore is "whole", "cut" where a write of it broke
                  \* off, or a cut one was "saved" as the backup by a later build
    builds, edits

dirVars == <<ignoreFile, backup, schemaFile, manifestFile, tmpDirs, reqFiles>>
dockerVars == <<images, weightsImages>>
envVars == <<tree, etag, userIgnore>>
history == <<startIgnore, built, leaked, cut>>
bounds == <<builds, edits, faults>>
buildVars == <<pc, req, local, result, dirVars, dockerVars, envVars, history, bounds>>

-----------------------------------------------------------------------------
(* Ignore files and images *)

Lines(f) == IF f = None THEN {} ELSE f

Ignored(p, f) == \E l \in Lines(f) : IsPrefix(l, p)

\* The files of the build context.
Context == {p \in DOMAIN tree : ~Ignored(p, ignoreFile)}

NoLocal == [tmp |-> FALSE, weights |-> [dirs |-> {}, files |-> {}],
            manifest |-> None, base |-> None, schema |-> None, head |-> None]

Manifest == [p \in Selected(local.weights, DOMAIN tree) |-> tree[p]]

Image(layer) == [layer |-> layer, labels |-> None, bundled |-> None]

BuildInit ==
    /\ pc = "idle" /\ result = "none" /\ local = NoLocal
    /\ req = None
    /\ tree \in Trees
    /\ ignoreFile \in UserIgnores \cup {None}
    /\ backup = None /\ schemaFile = None /\ manifestFile = None
    /\ tmpDirs = 0
    /\ reqFiles = [e \in Etags |-> None]
    /\ images = [n \in Names \cup {BaseName} |-> None]
    /\ weightsImages = [n \in Names |-> None]
    /\ etag \in Etags
    /\ userIgnore = Lines(ignoreFile)
    /\ startIgnore = ignoreFile
    /\ built = {} /\ leaked = 0 /\ cut = "whole"
    /\ builds = 0 /\ edits = 0 /\ faults = 0

Goto(l) == pc' = l /\ UNCHANGED <<req, result>>

\* Mutant: a return forgets the generator.
ReturnWithoutCleanup(res) ==
    /\ result' = res
    /\ pc' = "end"
    /\ UNCHANGED <<req, local>>

\* A return of Build: the deferred Cleanup runs if a generator exists.
Return(res) ==
    /\ result' = res
    /\ pc' = IF local.tmp THEN "cleanup" ELSE "end"
    /\ UNCHANGED <<req, local>>

Fail == Return("error") /\ UNCHANGED <<dirVars, dockerVars>>

-----------------------------------------------------------------------------
(* The command: everything before image.Build may fail without a trace *)

Start ==
    /\ pc = "idle"
    /\ builds < MaxBuilds
    /\ builds' = builds + 1
    /\ req' \in Requests
    /\ \/ /\ pc' = IF req'.mode = "base" THEN "generator"
                   ELSE IF req'.pipeline THEN "head" ELSE "clean"
          /\ result' = "none"
       \/ pc' = "end" /\ result' = "error"
    /\ local' = NoLocal
    /\ startIgnore' = IF ignoreFile # None THEN ignoreFile ELSE backup
    /\ UNCHANGED <<dirVars, dockerVars, envVars, built, leaked, cut, edits, faults>>

\* EndBuild posts the result; its failure is only a warning.
End ==
    /\ pc = "end"
    /\ pc' = "idle" /\ req' = None /\ local' = NoLocal
    /\ UNCHANGED <<result, dirVars, dockerVars, envVars, history, bounds>>

EnvButCut == UNCHANGED <<envVars, startIgnore, built, leaked, bounds>>
Env == EnvButCut /\ UNCHANGED cut

-----------------------------------------------------------------------------
(* procedure.Validate: the requirements of the pipelines runtime *)

\* The file named for the version the server reports, if it can tell.
HeadRequirements ==
    /\ pc = "head"
    /\ \/ Fail
       \/ \E e \in {None, etag} :
             /\ local' = [local EXCEPT !.head = e]
             /\ Goto(IF e # None /\ reqFiles[e] # None THEN "requirements"
                     ELSE "get")
             /\ UNCHANGED <<dirVars, dockerVars>>
    /\ Env

\* The answer may be of a later version; its own header names the file.
NameFromAnswer == etag

GetRequirements ==
    /\ pc = "get"
    /\ \/ Fail
       \/ /\ local' = [local EXCEPT !.head = NameFromAnswer]
          /\ reqFiles' = [reqFiles EXCEPT ![NameFromAnswer] =
                             [version |-> etag, whole |-> FALSE]]
          /\ Goto("copy")
          /\ UNCHANGED <<ignoreFile, backup, schemaFile, manifestFile, tmpDirs,
                         dockerVars>>
    /\ Env

SaveRequirements ==
    /\ pc = "copy"
    /\ \/ Fail
       \/ /\ reqFiles' = [reqFiles EXCEPT ![local.head].whole = TRUE]
          /\ Goto("requirements")
          /\ UNCHANGED <<local, ignoreFile, backup, schemaFile, manifestFile,
                         tmpDirs, dockerVars>>
    /\ Env

\* The requirements of the model against the file, then the other fields.
CheckRequirements ==
    /\ pc = "requirements"
    /\ \/ Fail
       \/ Goto("clean") /\ UNCHANGED <<local, dirVars, dockerVars>>
    /\ Env

-----------------------------------------------------------------------------
(* Before the Dockerfile *)

RemoveBundledSchema ==
    /\ pc = "clean"
    /\ schemaFile' = None
    /\ Goto("ignoreCheck")
    /\ UNCHANGED <<local, ignoreFile, backup, manifestFile, tmpDirs, reqFiles,
                   dockerVars>>
    /\ Env

CheckCompatibleDockerIgnore ==
    /\ pc = "ignoreCheck"
    /\ \/ Fail
       \/ /\ ~Ignored(CogDir, ignoreFile)
          /\ Goto(IF req.mode = "dockerfile" THEN "dockerfile" ELSE "generator")
          /\ UNCHANGED <<local, dirVars, dockerVars>>
    /\ Env

BuildFromDockerfile ==
    /\ pc = "dockerfile"
    /\ \/ Fail
       \/ /\ images' = [images EXCEPT ![req.name] =
                           Image([p \in Context |-> tree[p]])]
          /\ Goto("schema")
          /\ UNCHANGED <<local, dirVars, weightsImages>>
    /\ Env

\* NewGenerator makes the temporary directory.
MakeGenerator ==
    /\ pc = "generator"
    /\ \/ Fail
       \/ /\ tmpDirs' = tmpDirs + 1
          /\ local' = [local EXCEPT !.tmp = TRUE]
          /\ Goto(IF req.mode = "base" THEN "baseImage" ELSE "base")
          /\ UNCHANGED <<ignoreFile, backup, schemaFile, manifestFile,
                         reqFiles, dockerVars>>
    /\ Env

\* Without a suitable Cog base image "auto" falls back to a Python or CUDA
\* image; BaseImage then answers with that one's name.
NameBaseImage ==
    /\ pc = "base"
    /\ \/ req.cogBase # "off" /\ Fail
       \/ \E b \in CASE req.cogBase = "off" -> {None}
                     [] req.cogBase = "on" -> {"cog"}
                     [] OTHER -> {"cog", "fallback"} :
             /\ local' = [local EXCEPT !.base = b]
             /\ Goto(IF req.mode = "separate" THEN "separate" ELSE "plain")
             /\ UNCHANGED <<dirVars, dockerVars>>
    /\ Env

\* One image for everything.
PlainBuild ==
    /\ pc = "plain"
    /\ \/ Fail
       \/ /\ images' = [images EXCEPT ![req.name] =
                           Image([p \in Context |-> tree[p]])]
          /\ Goto("schema")
          /\ UNCHANGED <<local, dirVars, weightsImages>>
    /\ Env

\* BuildBase: the environment alone, for commands that mount the directory.
BuildBase ==
    /\ pc = "baseImage"
    /\ \/ Fail
       \/ /\ images' = [images EXCEPT ![req.name] = Image([p \in {} |-> 0])]
          /\ Return("ok")
          /\ UNCHANGED <<dirVars, weightsImages>>
    /\ Env

-----------------------------------------------------------------------------
(* --separate-weights *)

GenerateSeparate ==
    /\ pc = "separate"
    /\ \/ Fail
       \/ /\ local' = [local EXCEPT !.weights = FindWeights(DOMAIN tree)]
          /\ Goto("backup")
          /\ UNCHANGED <<dirVars, dockerVars>>
    /\ Env

\* Mutant: a missing .dockerignore is not noticed.
BackupMissing == ignoreFile' = None /\ backup' = ignoreFile /\ UNCHANGED cut

\* backupDockerignore: rename .dockerignore over the backup, if there is one, also
\* one that an earlier build did not finish.
Backup ==
    /\ ignoreFile' = None
    /\ backup' = IF ignoreFile = None THEN backup ELSE ignoreFile
    /\ cut' = IF cut = "cut" /\ ignoreFile # None THEN "saved" ELSE cut

BackupDockerignore ==
    /\ pc = "backup"
    /\ \/ Fail /\ UNCHANGED cut
       \/ /\ Backup
          /\ Goto("manifest")
          /\ UNCHANGED <<local, schemaFile, manifestFile, tmpDirs, reqFiles,
                         dockerVars>>
    /\ EnvButCut

\* The checksums of the weights, against those of the cached manifest; the
\* manifest does not say which image was built from them.
SameManifest(cached, m) ==
    /\ cached # None
    /\ DOMAIN m = DOMAIN cached
    /\ \A p \in DOMAIN m : m[p] = cached[p]

\* Mutant: the manifest is saved, the image is not built.
SaveOnly(m) == IF SameManifest(manifestFile, m) THEN "runnerIgnore" ELSE "saveManifest"

IfChanged(m) == IF SameManifest(manifestFile, m) THEN "runnerIgnore" ELSE "weightsBackup"

CompareManifest ==
    /\ pc = "manifest"
    /\ \/ Fail
       \/ /\ local' = [local EXCEPT !.manifest = Manifest]
          /\ Goto(IfChanged(Manifest))
          /\ UNCHANGED <<dirVars, dockerVars>>
    /\ Env

\* makeDockerignoreForWeightsImage backs up once more, then writes.
BackupAgain ==
    /\ pc = "weightsBackup"
    /\ \/ Fail /\ UNCHANGED cut
       \/ /\ Backup
          /\ Goto("weightsIgnore")
          /\ UNCHANGED <<local, schemaFile, manifestFile, tmpDirs, reqFiles,
                         dockerVars>>
    /\ EnvButCut

\* Mutant: the backup is not read.
OnlyGenerated(patterns) == patterns

\* writeDockerignore: the backup, then the generated patterns.
IgnoreContents(patterns) == Lines(backup) \cup patterns

\* What a file may hold whose writing breaks off: the lines are written in order.
Parts(patterns) ==
    {S \in SUBSET IgnoreContents(patterns) : S \subseteq Lines(backup) \/ Lines(backup) \subseteq S}

\* os.WriteFile empties the file, then fills it; it may fail before, and on the way.
WriteDockerignore(from, filling, next, patterns) ==
    /\ \/ /\ pc \in {from, filling}
          /\ Fail /\ UNCHANGED cut
       \/ /\ pc = from
          /\ ignoreFile' \in Parts(patterns)
          /\ cut' = IF cut = "saved" THEN cut ELSE "cut"
          /\ Goto(filling)
          /\ UNCHANGED <<local, backup, schemaFile, manifestFile, tmpDirs,
                         reqFiles, dockerVars>>
       \/ /\ pc = filling
          /\ ignoreFile' = IgnoreContents(patterns)
          /\ cut' = IF cut = "saved" THEN cut ELSE "whole"
          /\ Goto(next)
          /\ UNCHANGED <<local, backup, schemaFile, manifestFile, tmpDirs,
                         reqFiles, dockerVars>>
    /\ EnvButCut

WeightsIgnore ==
    WriteDockerignore("weightsIgnore", "weightsFill", "weightsImage", Header)

\* A COPY needs its directory or file.
Copyable(w, paths) ==
    /\ \A d \in w.dirs : \E p \in paths : Under(d, p)
    /\ w.files \subseteq paths

BuildWeightsImage ==
    /\ pc = "weightsImage"
    /\ \/ Fail /\ UNCHANGED built
       \/ /\ Copyable(local.weights, Context)
          /\ weightsImages' = [weightsImages EXCEPT ![req.name] =
                [p \in Selected(local.weights, Context) |-> tree[p]]]
          /\ built' = built \cup {local.manifest}
          /\ Goto("saveManifest")
          /\ UNCHANGED <<local, dirVars, images>>
    /\ UNCHANGED <<envVars, startIgnore, leaked, cut, bounds>>

\* os.Create empties the file; an empty one does not decode.
CreateManifest ==
    /\ pc = "saveManifest"
    /\ \/ Fail
       \/ /\ manifestFile' = None
          /\ Goto("encodeManifest")
          /\ UNCHANGED <<local, ignoreFile, backup, schemaFile, tmpDirs,
                         reqFiles, dockerVars>>
    /\ Env

EncodeManifest ==
    /\ pc = "encodeManifest"
    /\ \/ Fail
       \/ /\ manifestFile' = local.manifest
          /\ Goto("runnerIgnore")
          /\ UNCHANGED <<local, ignoreFile, backup, schemaFile, tmpDirs,
                         reqFiles, dockerVars>>
    /\ Env

\* makeDockerignoreForWeights keeps the weights out of COPY . /src.
MakeDockerignoreForWeights(w) == Header \cup w.dirs \cup w.files

RunnerIgnore ==
    WriteDockerignore("runnerIgnore", "runnerFill", "runnerImage",
                      MakeDockerignoreForWeights(local.weights))

\* COPY --from=<name>-weights for each directory and file, then COPY . /src.
BuildRunnerImage ==
    /\ pc = "runnerImage"
    /\ \/ Fail
       \/ /\ weightsImages[req.name] # None
          /\ LET w == weightsImages[req.name]
                 copied == Selected(local.weights, DOMAIN w)
             IN /\ Copyable(local.weights, DOMAIN w)
                /\ images' = [images EXCEPT ![req.name] =
                      Image([p \in Context \cup copied |->
                                IF p \in Context THEN tree[p] ELSE w[p]])]
          /\ Goto("unlinkIgnore")
          /\ UNCHANGED <<local, dirVars, weightsImages>>
    /\ Env

\* restoreDockerignore, reached only when both images were built.
RemoveIgnore ==
    /\ pc = "unlinkIgnore"
    /\ \/ Fail
       \/ /\ ignoreFile' = None
          /\ Goto("restoreIgnore")
          /\ UNCHANGED <<local, backup, schemaFile, manifestFile, tmpDirs,
                         reqFiles, dockerVars>>
    /\ Env

Restore == ignoreFile' = backup /\ backup' = None

RestoreIgnore ==
    /\ pc = "restoreIgnore"
    /\ \/ Fail
       \/ /\ Restore
          /\ Goto("schema")
          /\ UNCHANGED <<local, schemaFile, manifestFile, tmpDirs, reqFiles,
                         dockerVars>>
    /\ Env

-----------------------------------------------------------------------------
(* Schema and labels *)

\* From --openapi-schema, or what the code in the image says of itself.
ReadSchema ==
    /\ pc = "schema"
    /\ \/ Fail
       \/ \E ok \in IF req.schema = "run" THEN BOOLEAN
                    ELSE {req.schema = "valid"} :
             /\ local' = [local EXCEPT !.schema =
                   [of |-> IF req.schema = "run" /\ Code \in DOMAIN images[req.name].layer
                           THEN images[req.name].layer[Code] ELSE None,
                    valid |-> ok]]
             /\ Goto("writeSchema")
             /\ UNCHANGED <<dirVars, dockerVars>>
    /\ Env

WriteSchema ==
    /\ pc = "writeSchema"
    /\ \/ Fail
       \/ /\ schemaFile' = local.schema
          /\ Goto("validateSchema")
          /\ UNCHANGED <<local, ignoreFile, backup, manifestFile, tmpDirs,
                         reqFiles, dockerVars>>
    /\ Env

\* Mutant: the schema is not validated.
AcceptSchema ==
    /\ pc = "validateSchema"
    /\ Goto("pipFreeze") /\ UNCHANGED <<local, dirVars, dockerVars>>
    /\ Env

ValidateSchema ==
    /\ pc = "validateSchema"
    /\ IF local.schema.valid
       THEN Goto("pipFreeze") /\ UNCHANGED <<local, dirVars, dockerVars>>
       ELSE Fail
    /\ Env

\* Three labels are read from the image or its base; each read may fail.
GeneratePipFreeze ==
    /\ pc = "pipFreeze"
    /\ \/ Fail
       \/ Goto("dependencies") /\ UNCHANGED <<local, dirVars, dockerVars>>
    /\ Env

GenerateModelDependencies ==
    /\ pc = "dependencies"
    /\ \/ Fail
       \/ /\ Goto(IF local.base = None THEN "labelImage" ELSE "baseLabels")
          /\ UNCHANGED <<local, dirVars, dockerVars>>
    /\ Env

\* Whatever image BaseImage named is fetched, also the fallback.
BaseLabels ==
    /\ pc = "baseLabels"
    /\ \/ Fail
       \/ Goto("labelImage") /\ UNCHANGED <<local, dirVars, dockerVars>>
    /\ Env

\* BuildAddLabelsAndSchemaToImage: FROM the image, COPY the schema into it.
LabelImage ==
    /\ pc = "labelImage"
    /\ \/ Fail
       \/ /\ schemaFile # None /\ ~Ignored(CogDir, ignoreFile)
          /\ images' = [images EXCEPT
                ![req.name].labels = [schema |-> local.schema,
                                      base |-> local.base],
                ![req.name].bundled = schemaFile]
          /\ Return("ok")
          /\ UNCHANGED <<dirVars, weightsImages>>
    /\ Env

\* Cleanup's own failure is only a warning.
Cleanup ==
    /\ pc = "cleanup"
    /\ \/ tmpDirs' = tmpDirs - 1 /\ UNCHANGED leaked
       \/ leaked' = leaked + 1 /\ UNCHANGED tmpDirs
    /\ pc' = "end"
    /\ UNCHANGED <<req, local, result, ignoreFile, backup, schemaFile,
                   manifestFile, reqFiles, dockerVars, envVars, startIgnore,
                   built, cut, bounds>>

-----------------------------------------------------------------------------
(* Outside: kills, the user between builds, the requirements' server *)

Kill ==
    /\ pc # "idle" /\ Fault
    /\ pc' = "idle" /\ result' = "none" /\ req' = None /\ local' = NoLocal
    /\ leaked' = IF local.tmp /\ pc # "end" THEN leaked + 1 ELSE leaked
    /\ UNCHANGED <<dirVars, dockerVars, envVars, startIgnore, built, cut, builds,
                   edits>>

RemoveWeightsImage(n) ==
    /\ pc = "idle" /\ Fault
    /\ weightsImages[n] # None
    /\ weightsImages' = [weightsImages EXCEPT ![n] = None]
    /\ UNCHANGED <<pc, req, local, result, dirVars, images, envVars, history,
                   builds, edits>>

Edit == pc = "idle" /\ edits < MaxEdits /\ edits' = edits + 1

EditModel ==
    /\ Edit
    /\ tree' \in Trees \ {tree}
    /\ UNCHANGED <<pc, req, local, result, dirVars, dockerVars, etag,
                   userIgnore, history, builds, faults>>

EditIgnore ==
    /\ Edit
    /\ ignoreFile' \in UserIgnores \cup {None}
    /\ userIgnore' = Lines(ignoreFile')
    /\ cut' = "whole"
    /\ UNCHANGED <<pc, req, local, result, backup, schemaFile, manifestFile,
                   tmpDirs, reqFiles, dockerVars, tree, etag, startIgnore, built,
                   leaked, builds, faults>>

PublishRequirements ==
    /\ edits < MaxEdits /\ edits' = edits + 1
    /\ etag' \in Etags \ {etag}
    /\ UNCHANGED <<pc, req, local, result, dirVars, dockerVars, tree,
                   userIgnore, history, builds, faults>>

Build ==
    \/ Start
    \/ HeadRequirements \/ GetRequirements \/ SaveRequirements
    \/ CheckRequirements
    \/ RemoveBundledSchema \/ CheckCompatibleDockerIgnore
    \/ BuildFromDockerfile \/ MakeGenerator \/ NameBaseImage
    \/ PlainBuild \/ BuildBase
    \/ GenerateSeparate \/ BackupDockerignore \/ CompareManifest
    \/ BackupAgain \/ WeightsIgnore \/ BuildWeightsImage
    \/ CreateManifest \/ EncodeManifest \/ RunnerIgnore \/ BuildRunnerImage
    \/ RemoveIgnore \/ RestoreIgnore
    \/ ReadSchema \/ WriteSchema \/ ValidateSchema
    \/ GeneratePipFreeze \/ GenerateModelDependencies \/ BaseLabels
    \/ LabelImage \/ Cleanup \/ End

Outside ==
    \/ Kill \/ EditModel \/ EditIgnore \/ PublishRequirements
    \/ \E n \in Names : RemoveWeightsImage(n)

BuildNext == Build \/ Outside

BuildSpec == BuildInit /\ [][BuildNext]_buildVars

-----------------------------------------------------------------------------
(* Properties *)

\* However a build ends, killed or with a half-written .dockerignore, the patterns the
\* user wrote are still in .dockerignore or in its backup, until a later build moves
\* the half-written file over the backup (backupDockerignore, writeDockerignore).
UserPatternsSurvive ==
    cut # "saved" => userIgnore \subseteq Lines(ignoreFile) \cup Lines(backup)

\* A build with separate weights that succeeds puts .dockerignore back as it
\* was when the build began, or as an earlier broken build had saved it, and
\* leaves no backup behind.
SuccessRestoresIgnore ==
    pc \in {"cleanup", "end"} /\ result = "ok" =>
        (req.mode = "separate" => ignoreFile = startIgnore /\ backup = None)

\* Only a kill or a failed cleanup leaves a directory in .cog/tmp.
TmpDirsAreRemoved == pc = "idle" => tmpDirs = leaked

\* A build cleans up: every return after the generator exists removes its
\* directory, and one that succeeds restores .dockerignore.
BuildCleansUp == SuccessRestoresIgnore /\ TmpDirsAreRemoved

\* The cached manifest says "unchanged" only of weights an image was built
\* from, at whatever point a build failed or was killed.
ManifestWasBuilt == manifestFile # None => manifestFile \in built

\* A downloaded requirements file has the contents of the version in its
\* name, also when the version changes between the two requests.
RequirementsMatchName ==
    \A e \in Etags : reqFiles[e] # None => reqFiles[e].version = e

\* A weights image never holds code: a directory with code in it is none of
\* weights, however the tree is changed between two builds.  Code under a
\* .git directory is not seen as such, and is copied with what is around it.
NoCodeInWeights ==
    \A n \in Names : weightsImages[n] # None =>
        \A p \in DOMAIN weightsImages[n] : IsCodeFile(p) => IsGitFile(p)

\* While the model's images are built the directory holds no schema of an
\* earlier build, which COPY . /src would put into the image.
NoStaleSchema ==
    pc \in {"dockerfile", "plain", "weightsImage", "runnerImage"} =>
        (req.mode # "base" => schemaFile = None)

\* What a build leaves for a later one to use again is what the later one
\* takes it for, wherever the first one stopped.
LeftoversAreTrue ==
    /\ ManifestWasBuilt /\ RequirementsMatchName
    /\ NoCodeInWeights /\ NoStaleSchema

\* The code layer of a build with separate weights has no file that the user's
\* patterns exclude, although the build replaces .dockerignore, unless a half-written
\* one was saved as the user's; and no weights: they come from the weights image alone.
CodeLayerHonoursIgnore ==
    [][\A n \in Names :
          (pc = "runnerImage" /\ images'[n] # images[n]) =>
              \A p \in DOMAIN images'[n].layer :
                  \/ Ignored(p, userIgnore) /\ cut # "saved"
                  \/ p \in Selected(local.weights, DOMAIN tree)
                  => p \in DOMAIN weightsImages[n]]_buildVars

\* An image with labels is complete: its schema is valid, is the one bundled
\* in the image, and describes the code in it.
LabelsDescribeImage ==
    \A n \in Names : (images[n] # None /\ images[n].labels # None) =>
        LET s == images[n].labels.schema
        IN /\ s.valid
           /\ images[n].bundled = s
           /\ s.of # None => s.of = images[n].layer[Code]
=============================================================================
