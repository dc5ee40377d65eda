----------------------------- MODULE Dockerfile -----------------------------
(***************************************************************************)
(* The Dockerfile of a model (pkg/dockerfile).  The standard generator     *)
(* starts from a base image of Cog when the registry has one for the       *)
(* versions of the configuration, and otherwise from a CUDA or a Python    *)
(* image, on which it installs what the base image of Cog would have had.  *)
(* The fast generator hands the versions to monobase.  "base-image" makes  *)
(* the Dockerfile of a base image with the standard generator.             *)
(*                                                                         *)
(* An instruction is a record: what it does, and the versions, packages    *)
(* or requirements that it does it with.                                   *)
(***************************************************************************)
EXTENDS CogConfig

CONSTANTS BasePackages,      \* system packages that base images have
          MinPython, MinTorch, MinCUDA,
          MonobaseVenvs      \* [python, torch, cuda] that monobase has

\* CUDA versions before 11 are refused, so no base image has one.
ASSUME VersionsAssumption ==
    /\ {MinPython, MinTorch, MinCUDA} \subseteq Version
    /\ ~Greater(<<11>>, MinCUDA)
    /\ BasePackages \subseteq STRING

VARIABLES command,     \* "build", "fast", or "base" for base-image
          request,     \* the base image that base-image is to make
          useCog,      \* --use-cog-base-image: "auto", "true" or "false"
          useCuda,     \* --use-cuda-base-image
          parts,       \* what the generator has made so far
          dockerfile   \* the instructions, in their order

genVars == <<command, request, useCog, useCuda, parts, dockerfile>>
vars == <<configVars, genVars>>

NoParts == [from |-> None, python |-> None, apt |-> {}, run |-> FALSE,
            pip |-> <<>>, cog |-> FALSE]

Init ==
    /\ ConfigInit
    /\ command = "none" /\ request = None
    /\ useCog = "auto" /\ useCuda = TRUE
    /\ parts = NoParts /\ dockerfile = <<>>

-----------------------------------------------------------------------------
(* Base images of Cog                                                      *)

Configuration(cuda, python, torch) ==
    [cuda |-> cuda, python |-> python, torch |-> torch]

\* A release of exactly the first version of PyTorch is not as late as that
\* when it has a "+".
SinceMinTorch(r) ==
    Greater(r.torch, MinTorch) \/ (Equal(r.torch, MinTorch) /\ ~r.plus)

\* Those for a release of PyTorch, those for a Python and a CUDA version,
\* and those for a Python version.
BaseImageConfigurations ==
    LET torch == {Configuration(r.cuda, p, r.torch) :
                    r \in Rows(TorchMatrix), p \in UNION {r.pythons : r \in Rows(TorchMatrix)}}
        listed == {c \in torch :
                     /\ ~Greater(MinPython, c.python)
                     /\ c.cuda # None => ~Greater(MinCUDA, c.cuda)
                     /\ \E r \in Rows(TorchMatrix) :
                          /\ r.torch = c.torch /\ r.cuda = c.cuda
                          /\ c.python \in r.pythons /\ SinceMinTorch(r)}
        gpu == {c \in listed : c.cuda # None}
        pythons == {c.python : c \in gpu}
    IN listed
       \cup {Configuration(cuda, p, None) : cuda \in {c.cuda : c \in gpu}, p \in pythons}
       \cup {Configuration(None, p, None) : p \in pythons}

\* Mutant: what is not given is compatible with everything.
NoneIsCompatible(conf, requested) ==
    None \in {conf, requested} \/ Matches(requested, conf)

IsVersionCompatible(conf, requested) ==
    IF None \in {conf, requested} THEN conf = requested
    ELSE Matches(requested, conf)

Compatible(cuda, python, torch) ==
    {c \in BaseImageConfigurations :
        /\ IsVersionCompatible(c.cuda, cuda)
        /\ IsVersionCompatible(c.python, python)
        /\ IsVersionCompatible(c.torch, torch)}

\* The latest release of PyTorch that is compatible takes the place of the
\* requested one; none does when there is no such release.
BaseImageComponentNormalisation(cuda, python, torch) ==
    LET torches == {c.torch : c \in Compatible(cuda, python, torch)} \ {None}
    IN Configuration(cuda, python,
                     IF torches = {} THEN None ELSE Latest(torches))

BaseImageName(c) ==
    LET n == BaseImageComponentNormalisation(c.cuda, c.python, c.torch)
    IN Configuration(IF n.cuda = None THEN None ELSE StripPatch(n.cuda),
                     StripPatch(n.python), n.torch)

\* Whether the normalised configuration is one of those there are.
Valid(n) == Compatible(n.cuda, n.python, n.torch) # {}

\* What the requirements of a base image are: the release of PyTorch and the
\* torchvision of the first row that has it.
PythonPackages(torch) ==
    IF torch = None THEN <<>>
    ELSE LET i == CHOOSE i \in DOMAIN TorchMatrix :
                    /\ Matches(torch, TorchMatrix[i].torch)
                    /\ \A j \in DOMAIN TorchMatrix :
                          j < i => ~Matches(torch, TorchMatrix[j].torch)
             Pin(name, ver) == [name |-> name, spec |-> "==", ver |-> ver,
                                cu |-> None, index |-> FALSE]
         IN <<Pin("torch", torch), Pin("torchvision", TorchMatrix[i].vision)>>

MakeConfig(n) ==
    [schema |-> TRUE, predict |-> TRUE, gpu |-> n.cuda # None,
     cuda |-> n.cuda, cudnn |-> None, python |-> n.python,
     packages |-> PythonPackages(n.torch), file |-> None, lines |-> <<>>,
     system |-> BasePackages, newline |-> FALSE, env |-> <<>>,
     runtime |-> FALSE, concurrent |-> FALSE]

\* "base-image" with the versions of one base image as its flags.  It asks
\* no registry: the image is to be made.
NewBaseImageGenerator ==
    /\ pc = "search" /\ dir = MaxDepth /\ config = None
    /\ \E c \in BaseImageConfigurations :
          LET n == BaseImageComponentNormalisation(c.cuda, c.python, c.torch)
          IN /\ request' = c /\ config' = MakeConfig(n)
             /\ pc' = IF Valid(n) THEN "validate" ELSE "failed"
    /\ command' = "base" /\ useCog' = "false"
    /\ UNCHANGED <<dir, yaml, errs, faults, useCuda, parts, dockerfile>>

-----------------------------------------------------------------------------
(* The generators                                                          *)

Step(from, to, new) ==
    /\ At(from, to) /\ parts' = new
    /\ UNCHANGED <<dir, yaml, config, errs, command, request, useCuda, dockerfile>>

Stop(from) == Step(from, "failed", parts) /\ UNCHANGED useCog

\* Concurrent predictions need Python 3.11.
ValidateModelPythonVersion(c) ==
    /\ ~Greater(<<3, 8>>, c.python)
    /\ c.concurrent => ~Greater(<<3, 11>>, c.python)

NewGenerator ==
    /\ pc = "complete" /\ UNCHANGED <<dir, yaml, config, errs, request, parts, dockerfile>>
    /\ \/ /\ command = "base" /\ pc' = "base"
          /\ NoFault /\ UNCHANGED <<command, useCog, useCuda>>
       \/ /\ command = "none" /\ ~ValidateModelPythonVersion(config)
          /\ pc' = "failed" /\ NoFault /\ UNCHANGED <<command, useCog, useCuda>>
       \/ /\ command = "none" /\ ValidateModelPythonVersion(config)
          /\ \/ /\ command' = "build" /\ pc' = "base"
                /\ useCog' \in {"auto", "true", "false"}
                /\ useCuda' \in BOOLEAN /\ NoFault
             \/ /\ command' = "fast" /\ UNCHANGED <<useCog, useCuda>>
                /\ \/ pc' = "monobase" /\ NoFault
                   \/ pc' = "failed" /\ Fault

\* Without a base image of Cog.
OwnBase(c) ==
    IF c.gpu /\ useCuda
    THEN {[kind |-> "cuda", cuda |-> i.cuda, python |-> None, torch |-> None] :
            i \in {j \in BaseImagesFor(c.cuda, c.cudnn) :
                     \A k \in BaseImagesFor(c.cuda, c.cudnn) :
                        ~Greater(k.cuda, j.cuda)}}
    ELSE {[kind |-> "python", cuda |-> None, python |-> c.python,
           torch |-> None]}

\* The base image of Cog for the configuration.
CogBase(c) ==
    LET torch == PackageVersion(c.lines, "torch")
        n == BaseImageComponentNormalisation(
                c.cuda, StripPatch(c.python), IF torch = <<>> THEN None ELSE torch)
    IN [valid |-> Valid(n), name |-> BaseImageName(n)]

\* Mutant: the generator does not remember that it fell back.
Forget(flag) == flag

FellBack(flag) == "false"

BaseImage ==
    /\ pc = "base" /\ NoFault
    /\ \/ /\ useCog # "false" /\ CogBase(config).valid
          /\ LET n == CogBase(config).name
             IN Step("base", "python",
                     [parts EXCEPT !.from = [kind |-> "cog", cuda |-> n.cuda,
                                             python |-> n.python,
                                             torch |-> n.torch]])
          /\ UNCHANGED useCog
       \/ \* No such configuration, or the registry does not tell of one.
          useCog = "true" /\ Stop("base")
       \/ \E from \in OwnBase(config) :
             /\ useCog # "true"
             /\ Step("base", "python", [parts EXCEPT !.from = from])
             /\ useCog' = IF useCog = "auto" THEN FellBack(useCog) ELSE useCog
       \/ useCog # "true" /\ OwnBase(config) = {} /\ Stop("base")

IsUsingCogBaseImage == useCog # "false"

InstallPython ==
    /\ Step("python", "apt",
            [parts EXCEPT !.python = IF config.gpu /\ useCuda /\ ~IsUsingCogBaseImage
                                     THEN config.python ELSE None])
    /\ NoFault /\ UNCHANGED useCog

AptInstalls ==
    /\ Step("apt", "run",
            [parts EXCEPT !.apt = IF IsUsingCogBaseImage
                                  THEN config.system \ BasePackages
                                  ELSE config.system])
    /\ NoFault /\ UNCHANGED useCog

\* A command must be on one line.
RunCommands ==
    /\ pc = "run" /\ NoFault
    /\ IF config.newline THEN Stop("run")
       ELSE Step("run", "pip", [parts EXCEPT !.run = TRUE]) /\ UNCHANGED useCog

\* The resolved requirements are written to a file for the build.
PipInstalls ==
    \/ /\ Step("pip", "cog",
               [parts EXCEPT !.pip = PythonRequirementsForArch(config)])
       /\ NoFault /\ UNCHANGED useCog
    \/ Stop("pip") /\ config.lines # <<>> /\ Fault

\* The configuration brings its own runtime, or none is wanted.
NoCogNeeded ==
    Named(config.lines, "coglet") # {} \/ command = "base"

InstallCog ==
    \/ /\ Step("cog", "assemble", [parts EXCEPT !.cog = ~NoCogNeeded])
       /\ NoCogNeeded \/ (config.runtime => Len(config.python) = 2)
       /\ NoFault /\ UNCHANGED useCog
    \/ /\ Stop("cog") /\ ~NoCogNeeded
       /\ \/ config.runtime /\ Len(config.python) # 2 /\ NoFault
          \/ Fault

Instr(op, x) == <<[op |-> op, arg |-> x]>>
Optional(cond, s) == IF cond THEN s ELSE <<>>

\* Cog is installed before the packages on a base image of Cog only.
Installs(p) ==
    LET pip == Optional(p.pip # <<>>, Instr("pip", p.pip))
        cog == Optional(p.cog, Instr("cog", None))
    IN (IF IsUsingCogBaseImage THEN cog \o pip ELSE pip \o cog)
       \o Optional(p.run, Instr("run", None))

InitialSteps ==
    LET apt == Optional(parts.apt # {}, Instr("apt", parts.apt))
    IN Instr("from", parts.from)
       \o (IF IsUsingCogBaseImage THEN apt
           ELSE Instr("tini", None) \o apt
                \o Optional(parts.python # None, Instr("python", parts.python)))
       \o Installs(parts)
       \o Optional(command # "base", Instr("copy", None))

GenerateInitialSteps ==
    /\ At("assemble", "done") /\ dockerfile' = InitialSteps /\ NoFault
    /\ UNCHANGED <<dir, yaml, config, errs, command, request, useCog, useCuda, parts>>

\* Monobase is told the versions; only some combinations of them are built.
GenerateMonobase ==
    /\ pc = "monobase" /\ NoFault
    /\ UNCHANGED <<dir, yaml, config, errs, command, request, useCog, useCuda, parts>>
    /\ LET torch == PackageVersion(config.lines, "torch")
           venv == [python |-> config.python, torch |-> torch,
                    cuda |-> config.cuda]
       IN IF /\ torch # None => Len(torch) = 3
                               /\ FirstLine(config.lines, "torch").cu = None
             /\ config.gpu => Len(config.cuda) = 2
             /\ Len(config.python) = 2 /\ config.python # <<3, 8>>
             /\ IF torch = None
                THEN config.python \in {v.python : v \in MonobaseVenvs}
                ELSE venv \in MonobaseVenvs
          THEN /\ pc' = "done"
               /\ dockerfile' =
                    Instr("from", [kind |-> "monobase", cuda |-> config.cuda,
                                   python |-> config.python, torch |-> torch])
          ELSE pc' = "failed" /\ UNCHANGED dockerfile

GenNext ==
    \/ NewGenerator \/ BaseImage \/ InstallPython \/ AptInstalls
    \/ RunCommands \/ PipInstalls \/ InstallCog \/ GenerateInitialSteps
    \/ GenerateMonobase

Next ==
    \/ ConfigNext /\ UNCHANGED genVars
    \/ NewBaseImageGenerator
    \/ GenNext

Spec == Init /\ [][Next]_vars

-----------------------------------------------------------------------------
(* Properties                                                              *)

\* The versions are left to Cog by a model for GPUs that names no TensorFlow
\* and either no PyTorch or a version of it that is released for some CUDA
\* version with an image.
LeftToCog ==
    /\ yaml # None
    /\ yaml.gpu /\ yaml.cuda = None /\ yaml.cudnn = None
    /\ ~HasVersion(config.lines, "tensorflow")
    /\ PackageVersion(config.lines, "torch") # <<>>
    /\ HasVersion(config.lines, "torch") =>
          \E r \in Rows(TorchRows), i \in Images :
             /\ Matches(FirstLine(config.lines, "torch").ver, r.torch)
             /\ r.cuda # None /\ Matches(r.cuda, i.cuda)

HasImage(c) == BaseImagesFor(c.cuda, c.cudnn) # {}

\* Such a model is completed with versions that have an image: without a base
\* image of Cog there is one to fall back to.
PyTorchCompletes ==
    pc \in {"complete", "failed"} /\ LeftToCog =>
        /\ errs \cap {"cuda", "panic"} = {}
        /\ pc = "complete" => HasImage(config)

\* PyTorch and torchvision of one release are installed for the same CUDA
\* version, one that is not later than that of the configuration.
OneCUDAForTorch ==
    pc = "done" /\ config.gpu =>
        \A i, j \in DOMAIN parts.pip :
            LET torch == parts.pip[i]
                vision == parts.pip[j]
            IN /\ torch.name = "torch" /\ vision.name = "torchvision"
               /\ \E r \in Rows(TorchMatrix) :
                    /\ r.torch = torch.ver /\ r.vision = vision.ver
                    /\ r.cuda = torch.cuda
               => vision.cuda \in {torch.cuda, <<>>}
                  /\ ~Greater(torch.cuda, config.cuda)

Done(op) == {i \in DOMAIN dockerfile : dockerfile[i].op = op}
From == dockerfile[1].arg

\* A Dockerfile that is made gives the image what the configuration asks
\* for: its version of Python, every system package, every framework it
\* names, an init and Cog, each before what needs it, on the base image of
\* Cog, on the image it fell back to and on the CUDA image alike.
ImageHasWhatIsAsked ==
    pc = "done" /\ command # "fast" =>
        /\ \/ From.python # None /\ Matches(From.python, config.python)
           \/ \E i \in Done("python") :
                 /\ dockerfile[i].arg = config.python
                 /\ \A j \in Done("pip") \cup Done("cog") : i < j
        /\ config.system \subseteq
              (IF From.kind = "cog" THEN BasePackages ELSE {})
              \cup UNION {dockerfile[i].arg : i \in Done("apt")}
        /\ From.kind = "cog" \/ Done("tini") # {}
        /\ \A n \in {config.lines[i].name : i \in DOMAIN config.lines} :
              \E i \in Done("pip") : Named(dockerfile[i].arg, n) # {}
        /\ command = "build" /\ Named(config.lines, "coglet") = {} =>
              Done("cog") # {}
        /\ \A i \in Done("run"), j \in Done("pip") \cup Done("cog") : j < i

\* A base image of Cog that is used is one of those that are published, for
\* the Python, the CUDA and, if it has PyTorch, the PyTorch of the model.
BaseImageIsPublished ==
    pc = "done" /\ From.kind = "cog" =>
        /\ \E c \in BaseImageConfigurations :
              BaseImageName(c) = Configuration(From.cuda, From.python, From.torch)
        /\ From.torch # None =>
              /\ HasVersion(config.lines, "torch")
              /\ Matches(PackageVersion(config.lines, "torch"), From.torch)

\* Every base image that is published can be made: nothing but a failure
\* outside stops the generator.
PublishedCanBeMade ==
    pc = "failed" /\ command = "base" => faults > 0

\* The base images of Cog that a build uses and those that are published
\* are the same ones.
BaseImagesExist == BaseImageIsPublished /\ PublishedCanBeMade
=============================================================================
