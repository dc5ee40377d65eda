------------------------ MODULE DockerfileInvariant ------------------------
(***************************************************************************)
(* The inductive invariant of the configuration and of the Dockerfile:     *)
(* what is known of the configuration at each step, and which parts of the *)
(* Dockerfile have been made from it.                                      *)
(***************************************************************************)
EXTENDS Dockerfile

(* The steps of a command, in their order                                  *)

Loading == {"search", "load"}
BeforeCuda == {"validate", "requirements", "cuda"}
Completing == BeforeCuda \cup {"environment", "complete"}
AfterPip == {"cog", "assemble", "done"}
AfterApt == {"run", "pip"} \cup AfterPip
AfterPython == {"apt"} \cup AfterApt
AfterBase == {"python"} \cup AfterPython
Generating == {"base"} \cup (AfterBase \ {"done"})
Steps == Loading \cup Completing \cup Generating \cup {"monobase", "done", "failed"}

GenTypeOK ==
    /\ pc \in Steps /\ faults \in Nat
    /\ IF pc \in Loading THEN config = None /\ yaml = None
       ELSE pc # "failed" => config \in CogYaml
    /\ useCog \in {"auto", "true", "false"} /\ useCuda \in BOOLEAN
    /\ parts = [from |-> parts.from, python |-> parts.python, apt |-> parts.apt,
                run |-> parts.run, pip |-> parts.pip, cog |-> parts.cog]
    /\ parts.run \in BOOLEAN /\ parts.cog \in BOOLEAN
    /\ command \in {"none", "base", "build", "fast"}

\* Which command is at which step.
StepOfCommand ==
    /\ pc \in Loading => command = "none"
    /\ pc \in Completing => command \in {"none", "base"}
    /\ pc \in Generating => command \in {"base", "build"}
    /\ pc = "monobase" => command = "fast"
    /\ pc = "done" => command # "none"
    /\ command = "base" => useCog = "false" /\ yaml = None
    /\ command \in {"none", "fast"} => parts = NoParts

\* Errors are known until the configuration is complete.
ErrorsOfStep ==
    /\ errs # {} => pc \in BeforeCuda \cup {"environment", "failed"}
    /\ "cuda" \in errs => pc \in {"environment", "failed"}
    /\ "panic" \in errs => pc = "failed"

\* Until the CUDA version is chosen the configuration is what cog.yaml says.
ReadFromYaml ==
    pc \in BeforeCuda /\ command = "none" =>
        /\ yaml \in Yamls
        /\ config = [yaml EXCEPT !.lines = config.lines]

\* A model that leaves the versions to Cog gets some that have an image.
CudaIsChosen ==
    LeftToCog =>
        /\ pc \in {"environment", "failed"} => errs \cap {"cuda", "panic"} = {}
        /\ pc \in {"environment", "complete"} => HasImage(config)

\* A configuration for GPUs that is not refused has its versions.
CudaIsKnown ==
    /\ pc \notin Loading \cup BeforeCuda \cup {"failed"}
    /\ config.gpu /\ "cuda" \notin errs
    => config.cuda # None

\* The configuration of a base image is the one it is made from, with the
\* requirements and the version of cuDNN when they are known.
MadeFor(c) ==
    MakeConfig(BaseImageComponentNormalisation(c.cuda, c.python, c.torch))

Made == MadeFor(request)

BaseImageIsMade ==
    command = "base" =>
        /\ request \in BaseImageConfigurations
        /\ errs = {}
        /\ pc = "failed" => faults > 0
        /\ pc # "failed" => config = [Made EXCEPT !.lines = config.lines,
                                                  !.cudnn = config.cudnn]
        /\ pc \in {"validate", "requirements"} => config.lines = <<>>
        /\ pc \in BeforeCuda => config.cudnn = None
        /\ pc \in {"cuda", "environment", "complete"} => config.lines = Made.packages
        /\ pc \in {"environment", "complete", "base"} /\ config.gpu => HasImage(config)

\* The base image is that of Cog exactly as long as the generator says so.
CogFrom ==
    LET n == CogBase(config).name
    IN [kind |-> "cog", cuda |-> n.cuda, python |-> n.python, torch |-> n.torch]

FromIsKnown ==
    pc \in AfterBase /\ command # "fast" =>
        \/ useCog # "false" /\ CogBase(config).valid /\ parts.from = CogFrom
        \/ useCog = "false" /\ parts.from \in OwnBase(config)

PartsAreMade ==
    command # "fast" =>
        /\ pc \in AfterPython =>
              parts.python = IF config.gpu /\ useCuda /\ ~IsUsingCogBaseImage
                             THEN config.python ELSE None
        /\ pc \in AfterApt =>
              parts.apt = IF IsUsingCogBaseImage
                          THEN config.system \ BasePackages
                          ELSE config.system
        /\ pc \in AfterPip => parts.pip = PythonRequirementsForArch(config)
        /\ pc \in {"assemble", "done"} => parts.cog = ~NoCogNeeded
        /\ pc = "done" => dockerfile = InitialSteps

MonobaseIsFrom ==
    pc = "done" /\ command = "fast" => From.kind = "monobase"

GenInv ==
    /\ GenTypeOK /\ StepOfCommand /\ ErrorsOfStep
    /\ ReadFromYaml /\ CudaIsChosen /\ CudaIsKnown
    /\ BaseImageIsMade /\ FromIsKnown /\ PartsAreMade /\ MonobaseIsFrom
=============================================================================
