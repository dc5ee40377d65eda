----------------------------- MODULE CogConfig -----------------------------
(***************************************************************************)
(* cog.yaml (pkg/config): it is found, read, validated and completed with  *)
(* the versions of CUDA and cuDNN that its Python packages need, which     *)
(* three embedded tables tell: the CUDA base images, and the releases of   *)
(* PyTorch and of TensorFlow.                                              *)
(*                                                                         *)
(* A version is the sequence of its numbers; "" is the empty one.  A line  *)
(* of requirements is a record: the operator, the version and, after "+",  *)
(* the CUDA version that it names, and whether it gives an index itself.   *)
(***************************************************************************)
EXTENDS Naturals, Sequences, FiniteSets, CogCommand

CONSTANTS Images,      \* CUDA base images: [cuda, cudnn]
          TorchRows,   \* releases of PyTorch: [torch, plus, vision, cuda, pythons]
          TFRows,      \* releases of TensorFlow: [tf, cuda, cudnn]
          Yamls,       \* what cog.yaml may hold
          Denied,      \* names of variables that environment may not set
          Malformed    \* an entry of environment that is not NAME=VALUE

Version == Seq(Nat)

\* A row of the second table.  plus says that its version of PyTorch goes on
\* with "+" and the CUDA version or "cpu".
TorchRow ==
    [torch : [1 .. 3 -> Nat], plus : BOOLEAN, vision : [1 .. 3 -> Nat],
     cuda : [1 .. 2 -> Nat] \cup {None}, pythons : SUBSET [1 .. 2 -> Nat]]

\* What the embedded tables are: the first has an image for the default CUDA
\* version, in the second a release of torchvision is for one of PyTorch.
ASSUME TablesAssumption ==
    /\ None \notin Version \cup Nat
    /\ IsFiniteSet(Images)
    /\ Images \subseteq [cuda : [1 .. 3 -> Nat], cudnn : Nat]
    /\ \E i \in Images : i.cuda[1] = 11 /\ i.cuda[2] = 8
    /\ TorchRows \in Seq(TorchRow)
    /\ \A i, j \in DOMAIN TorchRows :
          TorchRows[i].vision = TorchRows[j].vision
          => TorchRows[i].torch = TorchRows[j].torch
    /\ TFRows \in Seq([tf : Version, cuda : Version, cudnn : [1 .. 2 -> Nat]])

\* A line of requirements: of the operators only "==" matters.
PackageName == STRING \cup {"torch", "torchvision", "tensorflow"}

PackageLine == [name : PackageName, spec : {"", "==", ">="}, ver : Version,
                cu : Version \cup {None}, index : BOOLEAN]

\* What cog.yaml says of a build; the lines are read from a file.
CogYaml ==
    [schema : BOOLEAN, predict : BOOLEAN, gpu : BOOLEAN,
     cuda : Version \cup {None}, cudnn : Nat \cup {None}, python : Version,
     packages : Seq(PackageLine), file : Seq(PackageLine) \cup {None},
     lines : Seq(PackageLine), system : SUBSET STRING, newline : BOOLEAN,
     env : Seq(STRING), runtime : BOOLEAN, concurrent : BOOLEAN]

ASSUME ConfigAssumption == Malformed \notin Denied /\ Yamls \subseteq CogYaml

MaxDepth == 1   \* Bound: directories above the working directory.

VARIABLES dir,      \* the depth of the directory it looks at
          yaml,     \* cog.yaml as it was read
          config,   \* the configuration
          errs      \* what is wrong with it

configVars == <<pc, dir, yaml, config, errs, faults>>

-----------------------------------------------------------------------------
(* Versions                                                                *)

Num(v, i) == IF i <= Len(v) THEN v[i] ELSE 0
StripPatch(v) == <<Num(v, 1), Num(v, 2)>>

Greater(v, w) ==
    \E i \in 1 .. 3 :
        Num(v, i) > Num(w, i) /\ \A j \in 1 .. i - 1 : Num(v, j) = Num(w, j)

Equal(v, w) == \A i \in 1 .. 3 : Num(v, i) = Num(w, i)

\* A patch counts only when both versions have one.
Matches(v, w) ==
    /\ Num(v, 1) = Num(w, 1) /\ Num(v, 2) = Num(w, 2)
    /\ Len(v) >= 3 /\ Len(w) >= 3 => v[3] = w[3]

Latest(vs) == CHOOSE v \in vs : \A w \in vs : ~Greater(w, v)

-----------------------------------------------------------------------------
(* The embedded tables                                                     *)

Rows(table) == {table[i] : i \in DOMAIN table}

\* Of some rows the one of the latest CUDA version, the first one of several.
LatestRow(table, rows) ==
    LET is == {i \in DOMAIN table : table[i] \in rows}
    IN table[CHOOSE i \in is : \A j \in is :
               \/ Greater(table[i].cuda, table[j].cuda)
               \/ Equal(table[i].cuda, table[j].cuda) /\ i <= j]

\* Mutant: releases whose CUDA version has no image are kept.
AllTorchRows == TorchRows

\* The rows that are kept, at their places.
TorchMatrix ==
    [k \in {k \in DOMAIN TorchRows :
              \/ TorchRows[k].cuda = None
              \/ \E i \in Images : Matches(TorchRows[k].cuda, i.cuda)}
        |-> TorchRows[k]]

TFMatrix ==
    [i \in DOMAIN TFRows |->
        [TFRows[i] EXCEPT !.cuda = StripPatch(@), !.cudnn = @[1]]]

\* For a version that is not empty: there is no comparing with that one.
CudasFromTorch(v, modifier) ==
    LET cudas == {r.cuda : r \in {s \in Rows(TorchMatrix) :
                                    s.cuda # None /\ Matches(v, s.torch)}}
    IN IF modifier \in cudas THEN {modifier} ELSE cudas

CudaFromTF(v) ==
    IF \E r \in Rows(TFMatrix) : r.tf = v
    THEN CHOOSE r \in Rows(TFMatrix) : r.tf = v
    ELSE [tf |-> v, cuda |-> None, cudnn |-> None]

\* The user's version has to be written as the table has it.
CompatibleCuDNNsForCUDA(cuda) ==
    {i.cudnn : i \in {j \in Images : j.cuda = cuda}}

LatestCuDNNForCUDA(cuda) ==
    LET all == {i.cudnn : i \in {j \in Images : Matches(cuda, j.cuda)}}
    IN IF all = {} THEN None ELSE CHOOSE n \in all : \A m \in all : m <= n

BaseImagesFor(cuda, cudnn) ==
    {i \in Images : Matches(cuda, i.cuda) /\ i.cudnn = cudnn}

-----------------------------------------------------------------------------
(* Python packages                                                         *)

Named(lines, name) == {i \in DOMAIN lines : lines[i].name = name}

\* The first line with the name.
FirstLine(lines, name) ==
    lines[CHOOSE i \in Named(lines, name) :
            \A j \in Named(lines, name) : i <= j]

\* Its version, which is "" for a line without one, or None.
PackageVersion(lines, name) ==
    IF Named(lines, name) = {} THEN None ELSE FirstLine(lines, name).ver

HasVersion(lines, name) == PackageVersion(lines, name) \notin {None, <<>>}

\* What is installed: a release for one CUDA version, for the CPU (cuda is
\* None), or whatever the default index has (cuda is empty).
Release(name, ver, cuda) == [name |-> name, ver |-> ver, cuda |-> cuda]
Default(name, ver) == Release(name, ver, <<>>)

TFPackage(c, line) ==
    IF ~c.gpu \/ (\E r \in Rows(TFMatrix) : r.tf = line.ver
                                              /\ Equal(r.cuda, c.cuda))
    THEN Default("tensorflow", line.ver)
    ELSE Default("", <<>>)

TorchGPUPackage(c, line) ==
    LET fits == {r \in Rows(TorchMatrix) :
                    /\ r.cuda # None /\ Matches(r.torch, line.ver)
                    /\ ~Greater(r.cuda, c.cuda)}
        row == LatestRow(TorchMatrix, fits)
    IN IF fits # {}
       THEN Release("torch", row.torch, row.cuda)
       ELSE Default("torch", line.ver)

\* Mutant: the latest CUDA version that there is.
NewestVisionPackage(c, line) ==
    LET fits == {r \in Rows(TorchMatrix) :
                    r.cuda # None /\ r.vision = line.ver /\ line.cu = None}
        row == LatestRow(TorchMatrix, fits)
    IN IF fits # {}
       THEN Release("torchvision", row.vision, row.cuda)
       ELSE Default("torchvision", line.ver)

TorchvisionGPUPackage(c, line) ==
    LET fits == {r \in Rows(TorchMatrix) :
                    /\ r.cuda # None /\ r.vision = line.ver /\ line.cu = None
                    /\ ~Greater(r.cuda, c.cuda)}
        row == LatestRow(TorchMatrix, fits)
    IN IF fits # {}
       THEN Release("torchvision", row.vision, row.cuda)
       ELSE Default("torchvision", line.ver)

CPUPackage(line, field) ==
    IF /\ line.cu = None
       /\ \E r \in Rows(TorchMatrix) : r.cuda = None /\ r[field] = line.ver
    THEN Release(line.name, line.ver, None)
    ELSE Default(line.name, line.ver)

\* A line that is not pinned, or gives an index, is left as it is.
PythonPackageForArch(c, line) ==
    IF line.spec # "==" \/ line.index THEN Default(line.name, line.ver)
    ELSE CASE line.name = "tensorflow" -> TFPackage(c, line)
           [] line.name = "torch" ->
                 IF c.gpu THEN TorchGPUPackage(c, line)
                 ELSE CPUPackage(line, "torch")
           [] line.name = "torchvision" ->
                 IF c.gpu THEN TorchvisionGPUPackage(c, line)
                 ELSE CPUPackage(line, "vision")
           [] OTHER -> Default(line.name, line.ver)

\* The resolved lines, and then the frameworks that were asked for and that
\* no resolved line names.
PythonRequirementsForArch(c) ==
    LET resolved == [i \in DOMAIN c.lines |-> PythonPackageForArch(c, c.lines[i])]
        Missing(n) ==
            IF PackageVersion(c.lines, n) # None /\ Named(resolved, n) = {}
            THEN <<Default(n, PackageVersion(c.lines, n))>>
            ELSE <<>>
    IN resolved \o Missing("torch") \o Missing("torchvision")
       \o Missing("tensorflow")

-----------------------------------------------------------------------------
(* The configuration is loaded, validated and completed.                   *)

ConfigInit ==
    /\ pc = "search" /\ dir \in 0 .. MaxDepth
    /\ yaml = None /\ config = None /\ errs = {} /\ faults = 0

\* The nearest directory that has a cog.yaml is the root of the project.
FindProjectRootDir ==
    /\ UNCHANGED <<yaml, config, errs>>
    /\ \/ At("search", "load") /\ NoFault /\ UNCHANGED dir
       \/ At("search", "search") /\ dir > 0 /\ dir' = dir - 1 /\ NoFault
       \/ At("search", "failed") /\ dir = 0 /\ NoFault /\ UNCHANGED dir
       \/ At("search", "failed") /\ Fault /\ UNCHANGED dir

LoadConfigFromFile ==
    /\ UNCHANGED <<dir, errs>>
    /\ \/ /\ At("load", "validate")
          /\ \E y \in Yamls : y.schema /\ yaml' = y /\ config' = y
          /\ NoFault
       \/ /\ At("load", "failed") /\ UNCHANGED <<yaml, config>>
          /\ \/ Fault
             \/ (\E y \in Yamls : ~y.schema) /\ NoFault

Errors(e) == errs' = errs \cup e

Validate ==
    /\ At("validate", "requirements")
    /\ Errors((IF config.predict THEN {} ELSE {"predict"})
              \cup (IF config.packages # <<>> /\ config.file # None
                    THEN {"both"} ELSE {}))
    /\ NoFault /\ UNCHANGED <<dir, yaml, config>>

\* The list in cog.yaml takes precedence over the file.
ReadRequirements ==
    /\ At("requirements", "cuda") /\ UNCHANGED <<dir, yaml>>
    /\ LET Lines(file) == [config EXCEPT !.lines =
                             IF config.packages # <<>> THEN config.packages
                             ELSE file]
       IN \/ /\ config' = Lines(IF config.file = None THEN <<>>
                                ELSE config.file)
             /\ NoFault /\ UNCHANGED errs
          \/ /\ config.file # None /\ Fault
             /\ config' = Lines(<<>>) /\ Errors({"file"})

\* The CUDA version that the packages choose, None when none is known.  A
\* line of PyTorch has a version here: without one cudasFromTorch panics.
ChosenCUDA(c) ==
    LET torch == FirstLine(c.lines, "torch")
        cudas == CudasFromTorch(torch.ver, torch.cu)
    IN CASE HasVersion(c.lines, "tensorflow") ->
              CudaFromTF(PackageVersion(c.lines, "tensorflow")).cuda
         [] ~HasVersion(c.lines, "tensorflow") /\ HasVersion(c.lines, "torch")
              -> IF cudas = {} THEN None ELSE Latest(cudas)
         [] OTHER -> <<11, 8>>

ChosenCuDNN(c, cuda) ==
    IF /\ HasVersion(c.lines, "tensorflow")
       /\ CudaFromTF(PackageVersion(c.lines, "tensorflow")).cudnn # None
    THEN CudaFromTF(PackageVersion(c.lines, "tensorflow")).cudnn
    ELSE LatestCuDNNForCUDA(cuda)

\* What the user gave is refused: a CUDA version without a minor one or
\* before 11, or a cuDNN version that is not the one of the image ...
RefusedCUDA(c) ==
    \/ c.cuda # None /\ (Len(c.cuda) < 2 \/ c.cuda[1] < 11)
    \/ /\ c.cuda # None /\ c.cudnn # None
       /\ c.cudnn \notin CompatibleCuDNNsForCUDA(c.cuda)

\* ... or of TensorFlow.
Refused(c) ==
    \/ RefusedCUDA(c)
    \/ /\ c.cudnn # None /\ HasVersion(c.lines, "tensorflow")
       /\ c.cudnn # CudaFromTF(PackageVersion(c.lines, "tensorflow")).cudnn

\* A model for GPUs names PyTorch and no version of it: the empty version is
\* compared with that of a release, which panics, whatever the CUDA version
\* and TensorFlow are.
Panics(c) ==
    /\ c.gpu /\ ~RefusedCUDA(c)
    /\ PackageVersion(c.lines, "torch") = <<>> /\ Rows(TorchMatrix) # {}

PanicOnVersion ==
    /\ At("cuda", "failed") /\ NoFault /\ UNCHANGED <<dir, yaml, config>>
    /\ Panics(config) /\ Errors({"panic"})

ValidateAndCompleteCUDA ==
    /\ At("cuda", "environment") /\ NoFault /\ UNCHANGED <<dir, yaml>>
    /\ ~Panics(config)
    /\ LET cuda == IF config.cuda # None THEN config.cuda
                   ELSE ChosenCUDA(config)
           cudnn == IF config.cudnn # None THEN config.cudnn
                    ELSE ChosenCuDNN(config, cuda)
       IN CASE ~config.gpu -> UNCHANGED <<config, errs>>
            [] config.gpu /\ (Refused(config) \/ cuda = None) ->
                 Errors({"cuda"}) /\ UNCHANGED config
            [] OTHER -> IF cudnn = None
                        THEN Errors({"cuda"}) /\ UNCHANGED config
                        ELSE /\ config' = [config EXCEPT !.cuda = cuda,
                                                         !.cudnn = cudnn]
                             /\ UNCHANGED errs

\* Every entry is NAME=VALUE, no name is denied or given twice.
ParseAndValidateEnvironment(env) ==
    \A i \in DOMAIN env :
        /\ env[i] \notin Denied \cup {Malformed}
        /\ \A j \in DOMAIN env : env[i] = env[j] => i = j

LoadEnvironment ==
    /\ pc = "environment" /\ NoFault /\ UNCHANGED <<dir, yaml, config>>
    /\ Errors(IF ParseAndValidateEnvironment(config.env) THEN {}
              ELSE {"environment"})
    /\ pc' = IF errs' = {} THEN "complete" ELSE "failed"

ConfigNext ==
    \/ FindProjectRootDir \/ LoadConfigFromFile \/ Validate
    \/ ReadRequirements \/ PanicOnVersion \/ ValidateAndCompleteCUDA
    \/ LoadEnvironment
=============================================================================
