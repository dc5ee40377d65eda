--------------------------- MODULE PipelineProofs ---------------------------
(***************************************************************************)
(* PullIsOneVersion and PushReleasesItsSource hold for any number of       *)
(* processes, files and versions.  What makes them true is that the server *)
(* only adds versions: what a command knows of a version by its number     *)
(* stays true whatever the other processes post and release.  The          *)
(* invariant (Ok) says of each process what it knows, at each point of its *)
(* command; a step of another process leaves it alone or adds a version.   *)
(***************************************************************************)
EXTENDS Pipeline, TLAPS

Labels == {"idle", "config", "build", "pushstart", "push", "tar", "token",
           "version", "release", "folder", "model", "source", "extract",
           "log", "end"}

Command == [kind : Kinds \cup {"none"}, token : BOOLEAN, tar : Trees,
            tag : Nat, left : SUBSET Files, err : BOOLEAN]

\* What a command does is of its kind.
KindOk(c, at) ==
    /\ at \in {"tar", "version", "release"} => c.kind = "pipeline"
    /\ at \in {"folder", "model", "source", "extract"} => c.kind = "pull"
    /\ at \in {"config", "build", "pushstart", "push"} => c.kind # "pull"
    /\ at = "token" => c.kind \in {"pipeline", "pull"}

\* A pipeline push holds the source of its directory d, and then the number
\* of the version it has become.
PushOk(v, d, c, at) ==
    /\ c.kind = "pipeline" /\ at \in {"config", "build", "tar"} => c.tag = 0
    /\ at = "version" => c.tag = 0
    /\ at = "release" => c.tag # 0
    /\ c.kind = "pipeline" /\ at \in {"token", "version"} /\ c.tag = 0 =>
          c.tar = Packed(d)
    /\ c.kind = "pipeline" /\ at \in {"token", "release"} /\ c.tag # 0 =>
          v[c.tag] = Packed(d)

\* A pull has written every file of its version that is not left and that it
\* does not pass over.
PullOk(v, d, c, at) ==
    /\ at \in {"source", "extract"} => c.tag # 0
    /\ at = "extract" =>
          /\ c.tar = v[c.tag]
          /\ \A f \in Files \ Hidden : c.tar[f] # None /\ f \notin c.left =>
                d[f] = c.tar[f]
    /\ at = "log" /\ c.kind = "pull" /\ ~c.err =>
          /\ c.tag # 0
          /\ \A f \in Files \ Hidden :
                v[c.tag][f] # None => d[f] = v[c.tag][f]

Ok(v, d, c, at) ==
    /\ c.tag <= Len(v)
    /\ KindOk(c, at) /\ PushOk(v, d, c, at) /\ PullOk(v, d, c, at)

Types ==
    /\ versions \in Seq(Trees) /\ latest \in 0 .. Len(versions)
    /\ dir \in [Procs -> Trees]
    /\ cmd \in [Procs -> Command]
    /\ pc \in [Procs -> Labels]

IInv == Types /\ \A p \in Procs : Ok(versions, dir[p], cmd[p], pc[p])

-----------------------------------------------------------------------------

\* A source without its ignored files is a source.
LEMMA PackedIsTree == \A d \in Trees : Packed(d) \in Trees
  BY DEF Packed, Trees

LEMMA NoCmdIsCommand == NoCmd \in Command
  BY DEF NoCmd, Command, Kinds, Trees, Empty

\* What a command knows stays true when a version is added.
LEMMA OkGrows ==
    ASSUME NEW v \in Seq(Trees), NEW t \in Trees, NEW d \in Trees,
           NEW c \in Command, NEW at \in Labels, Ok(v, d, c, at)
    PROVE Ok(Append(v, t), d, c, at)
<1>1. /\ c.tag <= Len(Append(v, t))
      /\ c.tag # 0 => Append(v, t)[c.tag] = v[c.tag]
  BY DEF Ok, Command
<1> QED
  BY <1>1 DEF Ok, PushOk, PullOk

\* A step of one process that keeps what it knows, and adds a version or
\* none, keeps the invariant.
LEMMA OneStep ==
    ASSUME IInv, NEW p \in Procs, NEW to \in Labels, NEW c \in Command,
           NEW d \in Trees,
           pc' = [pc EXCEPT ![p] = to], cmd' = [cmd EXCEPT ![p] = c],
           dir' = [dir EXCEPT ![p] = d],
           \/ UNCHANGED versions
           \/ \E t \in Trees : versions' = Append(versions, t),
           latest' \in 0 .. Len(versions'),
           Ok(versions', d, c, to)
    PROVE IInv'
<1>1. versions' \in Seq(Trees)
  BY DEF IInv, Types
<1>2. Types'
  BY <1>1 DEF IInv, Types
<1>3. ASSUME NEW q \in Procs PROVE Ok(versions', dir'[q], cmd'[q], pc'[q])
  <2>1. CASE q = p
    BY <2>1 DEF IInv, Types
  <2>2. CASE q # p
    <3>1. dir'[q] = dir[q] /\ cmd'[q] = cmd[q] /\ pc'[q] = pc[q]
      BY <2>2 DEF IInv, Types
    <3>2. /\ dir[q] \in Trees /\ cmd[q] \in Command /\ pc[q] \in Labels
          /\ versions \in Seq(Trees)
          /\ Ok(versions, dir[q], cmd[q], pc[q])
      BY DEF IInv, Types
    <3>3. ASSUME NEW t \in Trees
          PROVE Ok(Append(versions, t), dir[q], cmd[q], pc[q])
      BY <3>2, OkGrows
    <3>4. CASE UNCHANGED versions
      BY <3>1, <3>2, <3>4
    <3>5. ASSUME NEW t \in Trees, versions' = Append(versions, t)
          PROVE Ok(versions', dir'[q], cmd'[q], pc'[q])
      BY <3>1, <3>3, <3>5
    <3> QED
      BY <3>4, <3>5
  <2> QED
    BY <2>1, <2>2
<1> QED
  BY <1>2, <1>3 DEF IInv

\* The same for a step that leaves the server and the directory alone.
LEMMA QuietStep ==
    ASSUME IInv, NEW p \in Procs, NEW to \in Labels, NEW c \in Command,
           pc' = [pc EXCEPT ![p] = to], cmd' = [cmd EXCEPT ![p] = c],
           UNCHANGED <<versions, latest, dir>>,
           Ok(versions, dir[p], c, to)
    PROVE IInv'
<1>1. dir[p] \in Trees /\ dir' = [dir EXCEPT ![p] = dir[p]]
  BY DEF IInv, Types
<1>2. latest' \in 0 .. Len(versions')
  BY DEF IInv, Types
<1> QED
  BY <1>1, <1>2, OneStep

\* A command that fails knows nothing more.
LEMMA FailStep ==
    ASSUME IInv, NEW p \in Procs, NEW to \in {"log", "end"},
           pc' = [pc EXCEPT ![p] = to],
           cmd' = [cmd EXCEPT ![p] = [cmd[p] EXCEPT !.err = TRUE]],
           UNCHANGED <<latest, dir>>,
           \/ UNCHANGED versions
           \/ \E t \in Trees : versions' = Append(versions, t)
    PROVE IInv'
<1> DEFINE c == [cmd[p] EXCEPT !.err = TRUE]
<1>1. c \in Command /\ c.tag = cmd[p].tag /\ c.err /\ to \in Labels
  BY DEF IInv, Types, Command, Labels
<1>2. dir[p] \in Trees /\ dir' = [dir EXCEPT ![p] = dir[p]]
  BY DEF IInv, Types
<1>3. Len(versions) <= Len(versions') /\ versions \in Seq(Trees)
  BY DEF IInv, Types
<1>4. latest' \in 0 .. Len(versions')
  BY <1>3 DEF IInv, Types
<1>5. cmd[p].tag <= Len(versions) /\ cmd[p].tag \in Nat
  BY DEF IInv, Ok, Types, Command
<1>6. Ok(versions', dir[p], c, to)
  <2> HIDE DEF c
  <2>1. c.tag <= Len(versions')
    BY <1>1, <1>3, <1>5 DEF IInv, Types
  <2> QED
    BY <2>1, <1>1 DEF Ok, KindOk, PushOk, PullOk
<1> HIDE DEF c
<1>7. cmd' = [cmd EXCEPT ![p] = c]
  BY DEF c
<1> QED
  BY <1>1, <1>2, <1>4, <1>6, <1>7, OneStep

-----------------------------------------------------------------------------

LEMMA InitIInv == Init => IInv
<1> SUFFICES ASSUME Init PROVE IInv
  OBVIOUS
<1>1. versions = <<>> /\ Len(versions) = 0 /\ latest = 0
  BY DEF Init
<1>2. dir \in [Procs -> Trees]
  BY DEF Init, Trees
<1>3. Types
  BY <1>1, <1>2, NoCmdIsCommand DEF Init, Types, Labels
<1>4. ASSUME NEW p \in Procs PROVE Ok(versions, dir[p], cmd[p], pc[p])
  <2>1. cmd[p] = NoCmd /\ pc[p] = "idle" /\ NoCmd.tag = 0
    BY DEF Init, NoCmd
  <2> QED
    BY <1>1, <2>1 DEF Ok, KindOk, PushOk, PullOk
<1> QED
  BY <1>3, <1>4 DEF IInv

\* One step for each action of a process.
LEMMA StepIInv == IInv /\ [Next]_vars => IInv'
<1> SUFFICES ASSUME IInv, [Next]_vars PROVE IInv'
  OBVIOUS
<1>t. \A q \in Procs : /\ cmd[q] \in Command /\ dir[q] \in Trees
                       /\ Ok(versions, dir[q], cmd[q], pc[q])
  BY DEF IInv, Types
<1> USE DEF NoFault, server, At, Goto
<1>b. ASSUME NEW p \in Procs, NEW from \in Labels, Broken(p, from)
      PROVE IInv'
  BY <1>b, FailStep DEF Broken, Fail, Step
<1>1. ASSUME NEW p \in Procs, NEW kind \in Kinds,
             NEW tag \in 0 .. Len(versions), tag = 0 \/ kind = "pull",
             Start(p, kind, tag)
      PROVE IInv'
  <2> DEFINE to == IF kind = "pull" THEN "folder" ELSE "config"
             c == [NoCmd EXCEPT !.kind = kind, !.tag = tag]
  <2>1. /\ c \in Command /\ c.kind = kind /\ c.tag = tag /\ ~c.err
        /\ to \in Labels
    <3>1. tag \in Nat /\ kind \in Kinds \cup {"none"}
      BY DEF IInv, Types
    <3> QED
      BY <3>1, NoCmdIsCommand DEF Command, NoCmd, Labels
  <2>2. Ok(versions, dir[p], c, to)
    <3> HIDE DEF c
    <3> QED
      BY <1>1, <2>1 DEF Ok, KindOk, PushOk, PullOk, Kinds, IInv, Types
  <2> QED
    BY <1>1, <2>1, <2>2, QuietStep DEF Start, Step
<1>2. ASSUME NEW p \in Procs, GetConfig(p) PROVE IInv'
  <2>1. pc[p] = "config" => Ok(versions, dir[p], cmd[p], "build")
    BY <1>t DEF Ok, KindOk, PushOk, PullOk
  <2> QED
    BY <1>2, <1>b, <1>t, <2>1, QuietStep DEF GetConfig, Step, Labels
<1>3. ASSUME NEW p \in Procs, Build(p) PROVE IInv'
  <2> DEFINE to == IF cmd[p].kind = "pipeline" THEN "tar" ELSE "pushstart"
  <2>1. to \in Labels
    BY DEF Labels
  <2>2. pc[p] = "build" => Ok(versions, dir[p], cmd[p], to)
    BY <1>t DEF Ok, KindOk, PushOk, PullOk
  <2>3. CASE Step(p, "build", to, cmd[p])
    BY <1>3, <1>t, <2>1, <2>2, <2>3, QuietStep DEF Build, Step
  <2>4. CASE Step(p, "build", "end", [cmd[p] EXCEPT !.err = TRUE])
    BY <1>3, <2>4, FailStep DEF Build, Step
  <2> QED
    BY <1>3, <2>3, <2>4 DEF Build
<1>4. ASSUME NEW p \in Procs, PostPushStart(p) PROVE IInv'
  <2>1. pc[p] = "pushstart" => Ok(versions, dir[p], cmd[p], "push")
    BY <1>t DEF Ok, KindOk, PushOk, PullOk
  <2> QED
    BY <1>4, <1>t, <2>1, QuietStep DEF PostPushStart, Step, Labels
<1>5. ASSUME NEW p \in Procs, StandardPush(p) PROVE IInv'
  <2>1. pc[p] = "push" => Ok(versions, dir[p], cmd[p], "log")
    BY <1>t DEF Ok, KindOk, PushOk, PullOk
  <2> QED
    BY <1>5, <1>b, <1>t, <2>1, QuietStep DEF StandardPush, Step, Labels
<1>6. ASSUME NEW p \in Procs, CreateTarball(p) PROVE IInv'
  <2> DEFINE c == [cmd[p] EXCEPT !.tar = Packed(dir[p])]
  <2>1. /\ c \in Command /\ c.kind = cmd[p].kind /\ c.tag = cmd[p].tag
        /\ c.tar = Packed(dir[p])
    BY <1>t, PackedIsTree DEF Command
  <2>2. pc[p] = "tar" => Ok(versions, dir[p], c, "token")
    <3> HIDE DEF c
    <3> QED
      BY <1>t, <2>1 DEF Ok, KindOk, PushOk, PullOk
  <2>3. CASE Step(p, "tar", "token", c) /\ UNCHANGED <<server, dir>>
    <3> HIDE DEF c
    <3> QED
      BY <2>1, <2>2, <2>3, QuietStep DEF Step, Labels
  <2> QED
    BY <1>6, <1>b, <2>3 DEF CreateTarball, Labels
<1>7. ASSUME NEW p \in Procs, ProvideToken(p) PROVE IInv'
  <2> DEFINE c == IF cmd[p].token THEN cmd[p] ELSE FetchAPIToken(cmd[p])
  <2>1. /\ c \in Command /\ c.kind = cmd[p].kind /\ c.tag = cmd[p].tag
        /\ c.tar = cmd[p].tar
    BY <1>t DEF Command, FetchAPIToken
  <2>2. pc[p] = "token" => /\ AfterToken(c) \in Labels
                           /\ Ok(versions, dir[p], c, AfterToken(c))
    <3> HIDE DEF c
    <3>1. pc[p] = "token" => c.kind \in {"pipeline", "pull"}
      BY <1>t, <2>1 DEF Ok, KindOk
    <3>2. CASE c.kind = "pipeline" /\ c.tag = 0
      <4>1. AfterToken(c) = "version"
        BY <3>2 DEF AfterToken
      <4> QED
        BY <1>t, <2>1, <3>2, <4>1 DEF Ok, KindOk, PushOk, PullOk, Labels
    <3>3. CASE c.kind = "pipeline" /\ c.tag # 0
      <4>1. AfterToken(c) = "release"
        BY <3>3 DEF AfterToken
      <4> QED
        BY <1>t, <2>1, <3>3, <4>1 DEF Ok, KindOk, PushOk, PullOk, Labels
    <3>4. CASE c.kind = "pull"
      <4>1. AfterToken(c) = IF c.tag = 0 THEN "model" ELSE "source"
        BY <3>4 DEF AfterToken
      <4> QED
        BY <1>t, <2>1, <3>4, <4>1 DEF Ok, KindOk, PushOk, PullOk, Labels
    <3> QED
      BY <3>1, <3>2, <3>3, <3>4
  <2>3. CASE /\ pc[p] = "token" /\ Step(p, "token", AfterToken(c), c)
             /\ UNCHANGED <<server, dir>>
    <3> HIDE DEF c
    <3> QED
      BY <2>1, <2>2, <2>3, QuietStep DEF Step
  <2> QED
    BY <1>7, <1>b, <2>3 DEF ProvideToken, Labels
<1>8. ASSUME NEW p \in Procs, PostNewVersion(p) PROVE IInv'
  <2> DEFINE c == [cmd[p] EXCEPT !.tag = Len(versions'), !.tar = Empty]
  <2>1. cmd[p].tar \in Trees /\ versions \in Seq(Trees)
    BY <1>t DEF Command, IInv, Types
  <2>2. CASE Fail(p, "version")
    BY <1>8, <2>1, <2>2, FailStep DEF PostNewVersion, Fail, Step
  <2>3. CASE Step(p, "version", "token", c) /\ ~Fail(p, "version")
    <3>1. versions' = Append(versions, cmd[p].tar)
      BY <1>8, <2>3 DEF PostNewVersion
    <3>2. /\ c \in Command /\ c.kind = cmd[p].kind
          /\ c.tag = Len(versions) + 1 /\ Len(versions') = Len(versions) + 1
      <4>1. Len(versions') = Len(versions) + 1 /\ Len(versions') \in Nat
        BY <2>1, <3>1
      <4>2. Empty \in Trees
        BY DEF Empty, Trees
      <4> QED
        BY <1>t, <4>1, <4>2 DEF Command
    <3>3. Ok(versions', dir[p], c, "token")
      <4> HIDE DEF c
      <4>1. /\ pc[p] = "version" /\ cmd[p].tag = 0
            /\ cmd[p].kind = "pipeline" /\ cmd[p].tar = Packed(dir[p])
        BY <1>t, <2>3 DEF Step, Ok, KindOk, PushOk
      <4>2. versions'[c.tag] = cmd[p].tar
        BY <2>1, <3>1, <3>2
      <4> QED
        BY <2>1, <3>2, <4>1, <4>2 DEF Ok, KindOk, PushOk, PullOk
    <3>4. dir[p] \in Trees /\ dir' = [dir EXCEPT ![p] = dir[p]]
      BY <1>8 DEF IInv, Types, PostNewVersion
    <3>5. latest' \in 0 .. Len(versions')
      BY <1>8, <3>2 DEF PostNewVersion, IInv, Types
    <3>6. "token" \in Labels
      BY DEF Labels
    <3>7. pc' = [pc EXCEPT ![p] = "token"] /\ cmd' = [cmd EXCEPT ![p] = c]
      BY <2>3 DEF Step
    <3> HIDE DEF c
    <3> QED
      BY <2>1, <3>1, <3>2, <3>3, <3>4, <3>5, <3>6, <3>7, OneStep
  <2> QED
    BY <1>8, <2>2, <2>3 DEF PostNewVersion
<1>9. ASSUME NEW p \in Procs, PostNewRelease(p) PROVE IInv'
  <2>1. pc[p] = "release" /\ cmd[p].tag \in Nat /\ cmd[p].tag <= Len(versions)
    BY <1>9, <1>t DEF PostNewRelease, Ok, Command
  <2>2. latest' \in 0 .. Len(versions') /\ UNCHANGED <<versions, dir>>
    BY <1>9, <2>1 DEF PostNewRelease, ReleaseOf, IInv, Types
  <2>3. Ok(versions', dir[p], cmd[p], "log")
    BY <1>t, <2>1, <2>2 DEF Ok, KindOk, PushOk, PullOk
  <2>4. dir[p] \in Trees /\ dir' = [dir EXCEPT ![p] = dir[p]]
    BY <2>2 DEF IInv, Types
  <2>5. CASE Step(p, "release", "log", cmd[p])
    BY <1>t, <2>2, <2>3, <2>4, <2>5, OneStep DEF Step, Labels
  <2>6. CASE Fail(p, "release")
    <3>1. Ok(versions, dir[p], cmd[p], "log")
      BY <2>2, <2>3
    <3> DEFINE c == [cmd[p] EXCEPT !.err = TRUE]
    <3>2. c \in Command /\ c.kind = cmd[p].kind /\ c.tag = cmd[p].tag /\ c.err
      BY <1>t DEF Command
    <3>3. pc' = [pc EXCEPT ![p] = "log"] /\ cmd' = [cmd EXCEPT ![p] = c]
          /\ "log" \in Labels
      BY <2>6 DEF Fail, Step, Labels
    <3> HIDE DEF c
    <3>4. Ok(versions', dir[p], c, "log")
      BY <2>2, <3>1, <3>2 DEF Ok, KindOk, PushOk, PullOk
    <3> QED
      BY <2>2, <2>4, <3>2, <3>3, <3>4, OneStep
  <2> QED
    BY <1>9, <2>5, <2>6 DEF PostNewRelease
<1>10. ASSUME NEW p \in Procs, MakeFolder(p) PROVE IInv'
  <2>1. pc[p] = "folder" => Ok(versions, dir[p], cmd[p], "token")
    BY <1>t DEF Ok, KindOk, PushOk, PullOk
  <2> QED
    BY <1>10, <1>b, <1>t, <2>1, QuietStep DEF MakeFolder, Step, Labels
<1>11. ASSUME NEW p \in Procs, GetModel(p) PROVE IInv'
  <2> DEFINE c == [cmd[p] EXCEPT !.tag = latest]
  <2>1. /\ c \in Command /\ c.kind = cmd[p].kind /\ c.tag = latest
        /\ latest <= Len(versions)
    <3>1. latest \in Nat /\ latest <= Len(versions)
      BY DEF IInv, Types
    <3> QED
      BY <1>t, <3>1 DEF Command
  <2>2. pc[p] = "model" => Ok(versions, dir[p], c, "token")
    <3> HIDE DEF c
    <3> QED
      BY <1>t, <2>1 DEF Ok, KindOk, PushOk, PullOk
  <2>3. CASE Step(p, "model", "token", c) /\ UNCHANGED <<server, dir>>
    <3> HIDE DEF c
    <3> QED
      BY <2>1, <2>2, <2>3, QuietStep DEF Step, Labels
  <2>4. CASE Fail(p, "model") /\ UNCHANGED <<server, dir>>
    BY <2>4, FailStep DEF Fail, Step
  <2> QED
    BY <1>11, <1>b, <2>3, <2>4 DEF GetModel, Labels
<1>12. ASSUME NEW p \in Procs, GetSource(p) PROVE IInv'
  <2> DEFINE src == SourceOf(p)
             c == [cmd[p] EXCEPT !.tar = src,
                     !.left = {f \in Files : src[f] # None}]
  <2>1. CASE Step(p, "source", "extract", c) /\ UNCHANGED <<server, dir>>
    <3>1. src \in Trees /\ src = versions[cmd[p].tag]
      BY <1>t, <2>1
         DEF SourceOf, Step, Ok, PullOk, Command, IInv, Types
    <3> HIDE DEF src
    <3>2. /\ c \in Command /\ c.kind = cmd[p].kind /\ c.tag = cmd[p].tag
          /\ c.tar = src /\ c.left = {f \in Files : src[f] # None}
      BY <1>t, <3>1 DEF Command
    <3>3. Ok(versions, dir[p], c, "extract")
      <4> HIDE DEF c
      <4> QED
        BY <1>t, <2>1, <3>1, <3>2 DEF Step, Ok, KindOk, PushOk, PullOk
    <3> HIDE DEF c
    <3> QED
      BY <2>1, <3>2, <3>3, QuietStep DEF Step, Labels
  <2> QED
    BY <1>12, <1>b, <2>1 DEF GetSource, Labels
<1>13. ASSUME NEW p \in Procs, ExtractTarFile(p) PROVE IInv'
  <2>1. ASSUME NEW f \in cmd[p].left,
               Step(p, "extract", "extract", [cmd[p] EXCEPT !.left = @ \ {f}]),
               IF f \in Hidden THEN UNCHANGED dir
               ELSE dir' = [dir EXCEPT ![p][f] = cmd[p].tar[f]],
               UNCHANGED server
        PROVE IInv'
    <3> DEFINE c == [cmd[p] EXCEPT !.left = @ \ {f}]
               d == IF f \in Hidden THEN dir[p]
                    ELSE [dir[p] EXCEPT ![f] = cmd[p].tar[f]]
    <3>1. f \in Files /\ pc[p] = "extract"
      BY <1>t, <2>1 DEF Command, Step
    <3>2. /\ d \in Trees
          /\ \A g \in Files \ Hidden : d[g] = IF g = f THEN cmd[p].tar[g]
                                                ELSE dir[p][g]
      BY <1>t, <3>1 DEF Command, Trees
    <3>3. /\ c \in Command /\ c.kind = cmd[p].kind /\ c.tag = cmd[p].tag
          /\ c.tar = cmd[p].tar /\ c.left = cmd[p].left \ {f}
      BY <1>t DEF Command
    <3>4. dir' = [dir EXCEPT ![p] = d] /\ cmd' = [cmd EXCEPT ![p] = c]
          /\ pc' = [pc EXCEPT ![p] = "extract"]
      BY <2>1 DEF Step, IInv, Types
    <3> HIDE DEF c, d
    <3>5. Ok(versions, d, c, "extract")
      BY <1>t, <3>1, <3>2, <3>3 DEF Ok, KindOk, PushOk, PullOk
    <3>6. latest' \in 0 .. Len(versions') /\ UNCHANGED versions
          /\ "extract" \in Labels
      BY <2>1 DEF IInv, Types, Labels
    <3> QED
      BY <3>2, <3>3, <3>4, <3>5, <3>6, OneStep
  <2>2. CASE /\ cmd[p].left = {} /\ Step(p, "extract", "log", cmd[p])
             /\ UNCHANGED <<server, dir>>
    <3>1. Ok(versions, dir[p], cmd[p], "log")
      BY <1>t, <2>2 DEF Step, Ok, KindOk, PushOk, PullOk
    <3> QED
      BY <1>t, <2>2, <3>1, QuietStep DEF Step, Labels
  <2> QED
    BY <1>13, <1>b, <2>1, <2>2 DEF ExtractTarFile, Labels
<1>14. ASSUME NEW p \in Procs, End(p) PROVE IInv'
  <2>1. Ok(versions, dir[p], cmd[p], "end")
    BY <1>t DEF Ok, KindOk, PushOk, PullOk
  <2> QED
    BY <1>14, <1>t, <2>1, QuietStep DEF End, Step, Labels
<1>15. ASSUME NEW p \in Procs, Exit(p) PROVE IInv'
  <2>1. Ok(versions, dir[p], NoCmd, "idle")
    BY DEF Ok, KindOk, PushOk, PullOk, NoCmd, IInv, Types
  <2> QED
    BY <1>15, <2>1, NoCmdIsCommand, QuietStep DEF Exit, Step, Labels
<1>16. ASSUME NEW p \in Procs, Edit(p) PROVE IInv'
  <2>1. PICK f \in Files, x \in Contents : dir' = [dir EXCEPT ![p][f] = x]
    BY <1>16 DEF Edit
  <2> DEFINE d == [dir[p] EXCEPT ![f] = x]
  <2>2. d \in Trees /\ dir' = [dir EXCEPT ![p] = d]
    BY <2>1, <1>t DEF Trees, IInv, Types
  <2>3. /\ pc[p] = "idle" /\ pc' = [pc EXCEPT ![p] = "idle"]
        /\ cmd' = [cmd EXCEPT ![p] = cmd[p]]
        /\ UNCHANGED <<versions, latest>>
    BY <1>16 DEF Edit, IInv, Types
  <2> HIDE DEF d
  <2>4. Ok(versions, d, cmd[p], "idle")
    BY <1>t, <2>3 DEF Ok, KindOk, PushOk, PullOk
  <2>5. latest' \in 0 .. Len(versions') /\ "idle" \in Labels
    BY <2>3 DEF IInv, Types, Labels
  <2> QED
    BY <1>t, <2>2, <2>3, <2>4, <2>5, OneStep
<1>17. CASE UNCHANGED vars
  BY <1>17 DEF vars, IInv, Types
<1>18. ASSUME NEW p \in Procs, Cog(p) PROVE IInv'
  BY <1>18, <1>2, <1>3, <1>4, <1>5, <1>6, <1>7, <1>8, <1>9, <1>10, <1>11,
     <1>12, <1>13, <1>14, <1>15 DEF Cog
<1>19. ASSUME NEW p \in Procs, NEW k \in Kinds, Start(p, k, 0) PROVE IInv'
  BY <1>1, <1>19 DEF IInv, Types
<1>20. ASSUME NEW p \in Procs, NEW tag \in 1 .. Len(versions),
              Start(p, "pull", tag)
       PROVE IInv'
  BY <1>1, <1>20 DEF IInv, Types, Kinds
<1> QED
  BY <1>16, <1>17, <1>18, <1>19, <1>20 DEF Next

-----------------------------------------------------------------------------

\* The invariant holds for any number of processes, versions and commands.
THEOREM PipelineInv == Spec => []IInv
  BY InitIInv, StepIInv, PTL DEF Spec

\* A pull that succeeds has written one version of the model, whole but for
\* the hidden files that it passes over.
THEOREM PipelinePull == Spec => []PullIsOneVersion
<1>1. IInv => PullIsOneVersion
  BY DEF IInv, Ok, PullOk, PullIsOneVersion
<1> QED
  BY PipelineInv, <1>1, PTL

\* A pipeline push that succeeds has released the source that it packed:
\* only its own step ends its release.
THEOREM PipelinePush == Spec => PushReleasesItsSource
<1> DEFINE Released ==
      \A p \in Procs :
         pc[p] = "release" /\ pc'[p] = "log" /\ ~cmd'[p].err =>
            versions[latest'] = Packed(dir[p])
<1>1. IInv /\ Next => Released
  <2> SUFFICES ASSUME IInv, NEW p \in Procs, Next,
                      pc[p] = "release", pc'[p] = "log", ~cmd'[p].err
               PROVE versions[latest'] = Packed(dir[p])
    OBVIOUS
  <2>1. /\ pc \in [Procs -> Labels] /\ cmd \in [Procs -> Command]
        /\ Ok(versions, dir[p], cmd[p], pc[p])
    BY DEF IInv, Types
  <2> USE DEF Step, At, Goto
  <2>2. ASSUME NEW q \in Procs, q # p, Cog(q) PROVE pc'[p] = pc[p]
    BY <2>1, <2>2
       DEF Cog, GetConfig, Build, PostPushStart, StandardPush, CreateTarball,
           ProvideToken, PostNewVersion, PostNewRelease, MakeFolder, GetModel,
           GetSource, ExtractTarFile, End, Exit, Broken, Fail
  <2>3. ASSUME NEW q \in Procs, NEW k, NEW tag, Start(q, k, tag)
        PROVE FALSE
    BY <2>1, <2>3 DEF Start
  <2>4. ASSUME NEW q \in Procs, Edit(q) PROVE FALSE
    BY <2>1, <2>4 DEF Edit
  <2>5. PostNewRelease(p)
    <3>1. Cog(p)
      BY <2>2, <2>3, <2>4 DEF Next
    <3> QED
      BY <2>1, <3>1
         DEF Cog, GetConfig, Build, PostPushStart, StandardPush,
             CreateTarball, ProvideToken, PostNewVersion, MakeFolder,
             GetModel, GetSource, ExtractTarFile, End, Exit, Broken, Fail
  <2>6. ~Fail(p, "release")
    <3>1. Fail(p, "release") => cmd'[p].err
      BY <2>1 DEF Fail, Command
    <3> QED
      BY <3>1
  <2>7. latest' = cmd[p].tag
    BY <2>5, <2>6 DEF PostNewRelease, ReleaseOf
  <2> QED
    BY <2>1, <2>7 DEF Ok, KindOk, PushOk
<1>2. UNCHANGED vars => Released
  BY DEF vars
<1>3. IInv /\ [Next]_vars => [Released]_vars
  BY <1>1, <1>2
<1> QED
  BY PipelineInv, <1>3, PTL DEF Spec, PushReleasesItsSource
=============================================================================
