------------------------------ MODULE Pipeline ------------------------------
(***************************************************************************)
(* Pushing and pulling a model by its source: "cog push" without --x-fast  *)
(* (pkg/cli/push.go, pkg/docker/push.go), which pushes the image to the    *)
(* registry or, with --x-pipeline, the source to the API                   *)
(* (pkg/docker/pipeline_push.go, pkg/api/client.go), and "cog pull"        *)
(* (pkg/cli/pull.go).                                                      *)
(*                                                                         *)
(* Each process runs one command at a time in a directory of its own; the  *)
(* processes share the model on the server.  The server is external.  A    *)
(* request may fail before the server sees it or, for one that changes     *)
(* something, after: the answer is lost.                                   *)
(***************************************************************************)
EXTENDS Naturals, Sequences, FiniteSets

CONSTANTS Procs,
          Files,          \* names of files
          Ignored,        \* those that .dockerignore names
          Hidden,         \* those whose base name begins with "._"
          Contents,
          None,
          MaxCommands, MaxFaults, MaxEdits

ASSUME PipelineAssumption ==
    Ignored \subseteq Files /\ Hidden \subseteq Files /\ None \notin Contents

Kinds == {"standard", "pipeline", "pull"}
Trees == [Files -> Contents \cup {None}]
Empty == [f \in Files |-> None]

VARIABLES versions,   \* the versions of the model: a sequence of sources
          latest,     \* the number of the version that is released, or 0
          images,     \* standard pushes that the registry has
          dir,        \* the directory of each process
          cmd,        \* its command and what it has learnt
          pc,
          commands, faults, edits

vars == <<versions, latest, images, dir, cmd, pc, commands, faults, edits>>

NoCmd == [kind |-> "none", token |-> FALSE, tar |-> Empty, tag |-> 0,
          left |-> {}, err |-> FALSE]

Init ==
    /\ versions = <<>> /\ latest = 0 /\ images = 0
    /\ dir \in [Procs -> {[f \in Files |-> c] : c \in Contents}]
    /\ \A p, q \in Procs : p # q => dir[p] # dir[q]
    /\ cmd = [p \in Procs |-> NoCmd]
    /\ pc = [p \in Procs |-> "idle"]
    /\ commands = 0 /\ faults = 0 /\ edits = 0

Fault == faults < MaxFaults /\ faults' = faults + 1
NoFault == UNCHANGED faults
At(p, from) == pc[p] = from
Goto(p, to) == pc' = [pc EXCEPT ![p] = to]
server == <<versions, latest, images>>

\* A step of p that may change what its command knows.
Step(p, from, to, new) ==
    /\ At(p, from) /\ Goto(p, to) /\ cmd' = [cmd EXCEPT ![p] = new]
    /\ UNCHANGED edits

\* The command ends with an error, which is logged with its end.
Fail(p, from) ==
    Step(p, from, "log", [cmd[p] EXCEPT !.err = TRUE])

Broken(p, from) == Fail(p, from) /\ Fault /\ UNCHANGED <<server, dir, commands>>

-----------------------------------------------------------------------------
(* cog push                                                                *)

Start(p, kind, tag) ==
    /\ commands < MaxCommands /\ commands' = commands + 1
    /\ Step(p, "idle", IF kind = "pull" THEN "folder" ELSE "config",
            [NoCmd EXCEPT !.kind = kind, !.tag = tag])
    /\ NoFault /\ UNCHANGED <<server, dir>>

\* cog.yaml is read and the name of the image is decided and checked.
GetConfig(p) ==
    \/ /\ Step(p, "config", "build", cmd[p])
       /\ NoFault /\ UNCHANGED <<server, dir, commands>>
    \/ Broken(p, "config")

\* The image is built; a failure returns at once, with nothing logged.
Build(p) ==
    /\ UNCHANGED <<server, dir, commands>>
    /\ \/ /\ Step(p, "build", IF cmd[p].kind = "pipeline" THEN "tar"
                              ELSE "pushstart", cmd[p])
          /\ NoFault
       \/ /\ Step(p, "build", "end", [cmd[p] EXCEPT !.err = TRUE])
          /\ Fault

\* The server is told of the build: when that fails, cog only warns.
PostPushStart(p) ==
    /\ Step(p, "pushstart", "push", cmd[p])
    /\ NoFault \/ Fault
    /\ UNCHANGED <<server, dir, commands>>

StandardPush(p) ==
    \/ /\ Step(p, "push", "log", cmd[p])
       /\ images' = images + 1
       /\ NoFault /\ UNCHANGED <<versions, latest, dir, commands>>
    \/ Broken(p, "push")

\* The files of the directory without those that .dockerignore names.
Packed(d) == [f \in Files |-> IF f \in Ignored THEN None ELSE d[f]]

\* The source is validated and packed.
CreateTarball(p) ==
    \/ /\ Step(p, "tar", "token", [cmd[p] EXCEPT !.tar = Packed(dir[p])])
       /\ NoFault /\ UNCHANGED <<server, dir, commands>>
    \/ Broken(p, "tar")

FetchAPIToken(c) == [c EXCEPT !.token = TRUE]

\* What the command wanted the token for.
AfterToken(c) ==
    CASE c.kind = "pipeline" /\ c.tag = 0 -> "version"
      [] c.kind = "pipeline" /\ c.tag # 0 -> "release"
      [] c.kind = "pull" /\ c.tag = 0     -> "model"
      [] OTHER                            -> "source"

\* Every request to the API asks for the token of the model's owner, which
\* is fetched when the client does not have it yet.
ProvideToken(p) ==
    \/ /\ At(p, "token")
       /\ LET c == IF cmd[p].token THEN cmd[p] ELSE FetchAPIToken(cmd[p])
          IN Step(p, "token", AfterToken(c), c)
       /\ NoFault /\ UNCHANGED <<server, dir, commands>>
    \/ ~cmd[p].token /\ Broken(p, "token")

\* The source becomes a version, which is not yet released.
PostNewVersion(p) ==
    /\ At(p, "version") /\ UNCHANGED <<latest, images, dir, commands>>
    /\ \/ /\ versions' = Append(versions, cmd[p].tar)
          /\ \/ /\ Step(p, "version", "token",
                        [cmd[p] EXCEPT !.tag = Len(versions'),
                                       !.tar = Empty])
                /\ NoFault
             \/ Fail(p, "version") /\ Fault
       \/ Fail(p, "version") /\ Fault /\ UNCHANGED versions

\* Mutant: the version to release is the last one that the server has.
ReleaseOfNewest(p) == Len(versions)

ReleaseOf(p) == cmd[p].tag

\* The version that this command posted becomes the release.
PostNewRelease(p) ==
    /\ At(p, "release") /\ UNCHANGED <<versions, images, dir, commands>>
    /\ \/ /\ latest' = ReleaseOf(p)
          /\ \/ /\ Step(p, "release", "log", cmd[p])
                /\ NoFault
             \/ Fail(p, "release") /\ Fault
       \/ Fail(p, "release") /\ Fault /\ UNCHANGED latest

-----------------------------------------------------------------------------
(* cog pull                                                                *)

\* The folder is made before anything else; without --x-pipeline the command
\* ends there.
MakeFolder(p) ==
    \/ /\ Step(p, "folder", "token", cmd[p])
       /\ NoFault /\ UNCHANGED <<server, dir, commands>>
    \/ Broken(p, "folder")

\* The image was named without a tag: the released version is looked up.
GetModel(p) ==
    \/ /\ At(p, "model") /\ latest > 0
       /\ Step(p, "model", "token", [cmd[p] EXCEPT !.tag = latest])
       /\ NoFault /\ UNCHANGED <<server, dir, commands>>
    \/ latest = 0 /\ Fail(p, "model") /\ NoFault
          /\ UNCHANGED <<server, dir, commands>>
    \/ Broken(p, "model")

\* Mutant: the newest version is downloaded, not the one that was found.
SourceOfNewest(p) == versions[Len(versions)]

SourceOf(p) == versions[cmd[p].tag]

GetSource(p) ==
    \/ /\ At(p, "source")
       /\ Step(p, "source", "extract",
               [cmd[p] EXCEPT !.tar = SourceOf(p),
                  !.left = {f \in Files : SourceOf(p)[f] # None}])
       /\ NoFault /\ UNCHANGED <<server, dir, commands>>
    \/ Broken(p, "source")

\* One entry of the tarball is written over what is there; a hidden one,
\* which the push packs like any other, is passed over without a word.  When
\* the download or a write fails the files written so far stay.
ExtractTarFile(p) ==
    \/ \E f \in cmd[p].left :
          /\ Step(p, "extract", "extract", [cmd[p] EXCEPT !.left = @ \ {f}])
          /\ IF f \in Hidden THEN UNCHANGED dir
             ELSE dir' = [dir EXCEPT ![p][f] = cmd[p].tar[f]]
          /\ NoFault /\ UNCHANGED <<server, commands>>
    \/ /\ cmd[p].left = {}
       /\ Step(p, "extract", "log", cmd[p])
       /\ NoFault /\ UNCHANGED <<server, dir, commands>>
    \/ cmd[p].left # {} /\ Broken(p, "extract")

\* EndPush and EndPull: a failure to post the log is a warning.
End(p) ==
    /\ Step(p, "log", "end", cmd[p])
    /\ NoFault /\ UNCHANGED <<server, dir, commands>>

Exit(p) ==
    /\ Step(p, "end", "idle", NoCmd)
    /\ NoFault /\ UNCHANGED <<server, dir, commands>>

\* The user edits a file of a directory between two commands.
Edit(p) ==
    /\ At(p, "idle") /\ edits < MaxEdits /\ edits' = edits + 1
    /\ \E f \in Files, c \in Contents :
          dir[p][f] # c /\ dir' = [dir EXCEPT ![p][f] = c]
    /\ UNCHANGED <<server, cmd, pc, commands, faults>>

Cog(p) ==
    \/ GetConfig(p) \/ Build(p) \/ PostPushStart(p) \/ StandardPush(p)
    \/ CreateTarball(p) \/ ProvideToken(p) \/ PostNewVersion(p)
    \/ PostNewRelease(p) \/ MakeFolder(p) \/ GetModel(p) \/ GetSource(p)
    \/ ExtractTarFile(p) \/ End(p) \/ Exit(p)

Next ==
    \E p \in Procs :
        \/ Edit(p) \/ Cog(p)
        \/ \E k \in Kinds : Start(p, k, 0)
        \/ \E tag \in 1 .. Len(versions) : Start(p, "pull", tag)

Spec == Init /\ [][Next]_vars

-----------------------------------------------------------------------------
(* Properties                                                              *)

TypeOK ==
    /\ versions \in Seq(Trees) /\ latest \in 0 .. Len(versions)
    /\ images \in 0 .. MaxCommands
    /\ dir \in [Procs -> Trees]
    /\ \A p \in Procs : /\ cmd[p].kind \in Kinds \cup {"none"}
                        /\ cmd[p].tar \in Trees
                        /\ cmd[p].tag \in 0 .. Len(versions)
                        /\ cmd[p].left \subseteq Files
    /\ commands \in 0 .. MaxCommands /\ faults \in 0 .. MaxFaults
    /\ edits \in 0 .. MaxEdits

\* A pipeline push that succeeds has released the source that it packed: the
\* version it names has the files of its own directory without the ignored
\* ones, also when another push posts a version at the same time.
PushReleasesItsSource ==
    [][\A p \in Procs :
         pc[p] = "release" /\ pc'[p] = "log" /\ ~cmd'[p].err =>
            versions[latest'] = Packed(dir[p])]_vars

\* A pull that succeeds has written one version, whole but for its hidden
\* files: every other file of the version it looked up is there with its
\* content, although pushes may release others while it runs.
PullIsOneVersion ==
    \A p \in Procs :
        pc[p] = "log" /\ cmd[p].kind = "pull" /\ ~cmd[p].err =>
            \A f \in Files \ Hidden : versions[cmd[p].tag][f] # None =>
                dir[p][f] = versions[cmd[p].tag][f]
=============================================================================
