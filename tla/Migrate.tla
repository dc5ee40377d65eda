------------------------------ MODULE Migrate ------------------------------
(***************************************************************************)
(* "cog migrate" (pkg/cli/migrate.go, pkg/migrate): a project is made      *)
(* ready for fast boots.  Packages move from cog.yaml to a file of         *)
(* requirements, run commands are removed, Python code is rewritten and    *)
(* cog.yaml is written last, each after a question unless --y was given.   *)
(* Every file is truncated before it is written, so that a write is two    *)
(* steps here, and the command may be killed between any two steps.        *)
(*                                                                         *)
(* A file of requirements is the set of its packages; a Python file is the *)
(* set of the predictors in it that the script would still rewrite.  The   *)
(* script is external.                                                     *)
(***************************************************************************)
EXTENDS Naturals, Sequences

CONSTANTS Packages,
          Predictors,     \* a sequence: the predictors that code is checked for
          PyFiles,
          FileOf,         \* the Python file of each predictor
          RunLists,       \* the lists of run commands a user may write
          None, Truncated,
          MaxCommands, MaxFaults, MaxEdits

ReqFiles == {"requirements.txt", "cog_requirements.txt"}
Kinds == {Predictors[i] : i \in DOMAIN Predictors}

\* A file that is missing is none of the files and no list of packages.
ASSUME NoneAssumption ==
    None \notin ReqFiles /\ \A S \in SUBSET Packages : S # None
ASSUME FilesAssumption == FileOf \in [Kinds -> PyFiles]

\* A run command is one that cog knows or another, and is written as a
\* string or as a mapping.
RunItems == [known : BOOLEAN, scalar : BOOLEAN]

\* cog.yaml.  "build:" may be there with no value.
Configs == [nullBuild : BOOLEAN, packages : SUBSET Packages,
            reqfile : ReqFiles \cup {None}, run : RunLists \cup {<<>>},
            predictors : SUBSET Kinds, fast : BOOLEAN]

DefaultConfig == [nullBuild |-> FALSE, packages |-> {}, reqfile |-> None,
                  run |-> <<>>, predictors |-> {}, fast |-> FALSE]

VARIABLES yaml,     \* cog.yaml: a configuration, or Truncated
          reqs,     \* each file of requirements, or None
          code,     \* each Python file, or Truncated
          wanted,   \* history: the packages the user asked for
          cmd,      \* what the command knows
          pc,
          before,   \* history: the files when the command started
          accepted, \* history: the questions that were accepted
          commands, faults, edits

files == <<yaml, reqs, code>>
vars == <<files, wanted, cmd, pc, before, accepted, commands, faults, edits>>

NoCmd == [interactive |-> FALSE, cfg |-> DefaultConfig, at |-> 1,
          target |-> "requirements.txt", old |-> None]

\* The packages that a build of these files installs.
Resolved(y, r) ==
    IF y.packages # {} THEN y.packages
    ELSE IF y.reqfile = None \/ r[y.reqfile] = None THEN {}
    ELSE r[y.reqfile]

\* The user's project: at most one way to ask for packages, as a build
\* requires, and perhaps a requirements.txt that cog.yaml does not name.
Init ==
    /\ yaml \in {c \in Configs : /\ c.packages = {} \/ c.reqfile = None
                                 /\ c.reqfile # "cog_requirements.txt"
                                 /\ c.nullBuild => c = [DefaultConfig EXCEPT
                                      !.nullBuild = TRUE,
                                      !.predictors = c.predictors]
                                 /\ ~c.fast}
    /\ reqs \in [ReqFiles -> {None} \cup {{p} : p \in Packages}]
    /\ reqs["cog_requirements.txt"] = None
    /\ yaml.reqfile # None => reqs[yaml.reqfile] # None
    /\ code = [f \in PyFiles |-> {k \in Kinds : FileOf[k] = f}]
    /\ wanted = Resolved(yaml, reqs)
    /\ cmd = NoCmd /\ pc = "idle" /\ before = files /\ accepted = {}
    /\ commands = 0 /\ faults = 0 /\ edits = 0

Fault == faults < MaxFaults /\ faults' = faults + 1
NoFault == UNCHANGED faults
Goto(from, to) == pc = from /\ pc' = to
Stay == UNCHANGED <<wanted, before, commands, edits>>

\* The command returns an error.
Broken == /\ pc' = "end" /\ Fault
          /\ UNCHANGED <<files, cmd, accepted>>

\* A question: --y accepts it, an empty line accepts it too, and when the
\* input is at its end the command returns an error.
Accept(q) == accepted' = accepted \cup {q}
Decline == cmd.interactive /\ UNCHANGED accepted
EndOfInput == /\ cmd.interactive /\ pc' = "end"
              /\ UNCHANGED <<files, cmd, accepted, faults>>

-----------------------------------------------------------------------------

Start(interactive) ==
    /\ Goto("idle", "load")
    /\ commands < MaxCommands /\ commands' = commands + 1
    /\ cmd' = [NoCmd EXCEPT !.interactive = interactive]
    /\ before' = files /\ accepted' = {}
    /\ NoFault /\ UNCHANGED <<files, wanted, edits>>

\* cog.yaml is parsed but not validated against the packages' rules.  An
\* empty file, or an empty build, is the default.
GetRawConfig ==
    /\ pc = "load" /\ Stay
    /\ \/ /\ pc' = "packages"
          /\ cmd' = [cmd EXCEPT !.cfg =
                IF yaml = Truncated THEN DefaultConfig
                ELSE [yaml EXCEPT !.nullBuild = FALSE]]
          /\ NoFault /\ UNCHANGED <<files, accepted>>
       \/ Broken

\* Mutant: a requirements.txt of the user is not looked for.
TargetAlways == "requirements.txt"

\* An existing requirements.txt is left alone.
Target == IF reqs["requirements.txt"] = None THEN "requirements.txt"
          ELSE "cog_requirements.txt"

\* Mutant: cog.yaml names requirements.txt whichever file was written.
MovedToDefault(c, f) ==
    [c EXCEPT !.packages = {}, !.reqfile = "requirements.txt"]

Moved(c, f) == [c EXCEPT !.packages = {}, !.reqfile = f]

CheckPythonRequirements ==
    /\ pc = "packages" /\ Stay
    /\ \/ /\ cmd.cfg.packages = {} /\ pc' = "run"
          /\ NoFault /\ UNCHANGED <<files, cmd, accepted>>
       \/ /\ cmd.cfg.packages # {}
          /\ \/ /\ Accept("packages") /\ pc' = "createReqs"
                /\ cmd' = [cmd EXCEPT !.target = Target]
                /\ NoFault /\ UNCHANGED files
             \/ /\ Decline /\ pc' = "run"
                /\ NoFault /\ UNCHANGED <<files, cmd>>
             \/ EndOfInput

CreateRequirements ==
    /\ pc = "createReqs" /\ Stay
    /\ \/ /\ reqs' = [reqs EXCEPT ![cmd.target] = {}] /\ pc' = "writeReqs"
          /\ NoFault /\ UNCHANGED <<yaml, code, cmd, accepted>>
       \/ Broken

WriteRequirements ==
    /\ pc = "writeReqs" /\ Stay
    /\ \/ /\ reqs' = [reqs EXCEPT ![cmd.target] = cmd.cfg.packages]
          /\ cmd' = [cmd EXCEPT !.cfg = Moved(@, cmd.target)]
          /\ pc' = "run"
          /\ NoFault /\ UNCHANGED <<yaml, code, accepted>>
       \/ Broken

\* Commands that only install pget are removed without a question; as soon
\* as one is not known, the user is asked about all of them.
CheckRunCommands ==
    /\ pc = "run" /\ Stay /\ UNCHANGED files
    /\ LET run == cmd.cfg.run
           known == \A i \in DOMAIN run : run[i].known
           removed == [cmd EXCEPT !.cfg.run = <<>>]
       IN  \/ /\ known /\ cmd' = removed /\ pc' = "code"
              /\ NoFault /\ UNCHANGED accepted
           \/ /\ ~known /\ Accept("run")
              /\ cmd' = removed /\ pc' = "code" /\ NoFault
           \/ /\ ~known /\ Decline
              /\ pc' = "code" /\ NoFault /\ UNCHANGED cmd
           \/ ~known /\ EndOfInput

\* What the script prints for a predictor: the file with its hints made
\* explicit, and nothing for a file that does not define the class.
Output(k) == IF code[FileOf[k]] = Truncated THEN Truncated
             ELSE code[FileOf[k]] \ {k}

\* The predictor of the configuration whose turn it is.
Predictor == Predictors[cmd.at]
ToCheck == cmd.at \in DOMAIN Predictors
NextPredictor == cmd' = [cmd EXCEPT !.at = @ + 1]

\* The script runs over the code of predict and then of train.  Code that
\* it leaves alone, or has nothing to print for, passes.
CheckPredictor ==
    /\ pc = "code" /\ Stay
    /\ \/ /\ ~ToCheck /\ pc' = "flush"
          /\ NoFault /\ UNCHANGED <<files, cmd, accepted>>
       \/ /\ ToCheck
          /\ LET passes == \/ Predictor \notin cmd.cfg.predictors
                           \/ Output(Predictor) = code[FileOf[Predictor]]
             IN  \/ /\ passes /\ NextPredictor /\ pc' = "code"
                    /\ NoFault /\ UNCHANGED <<files, accepted>>
                 \/ /\ ~passes /\ Accept(Predictor)
                    /\ pc' = "createCode" /\ cmd' = [cmd EXCEPT
                                                 !.old = Output(Predictor)]
                    /\ NoFault /\ UNCHANGED files
                 \/ /\ ~passes /\ Decline /\ NextPredictor /\ pc' = "code"
                    /\ NoFault /\ UNCHANGED files
                 \/ ~passes /\ EndOfInput
       \/ ToCheck /\ Predictor \in cmd.cfg.predictors /\ Broken

CreatePythonFile ==
    /\ pc = "createCode" /\ Stay
    /\ \/ /\ code' = [code EXCEPT ![FileOf[Predictor]] = Truncated]
          /\ pc' = "writeCode"
          /\ NoFault /\ UNCHANGED <<yaml, reqs, cmd, accepted>>
       \/ Broken

WritePythonFile ==
    /\ pc = "writeCode" /\ Stay
    /\ \/ /\ code' = [code EXCEPT ![FileOf[Predictor]] = cmd.old]
          /\ NextPredictor /\ pc' = "code"
          /\ NoFault /\ UNCHANGED <<yaml, reqs, accepted>>
       \/ Broken

\* Only a file that is word for word what cog would write is left alone.
Canonical(c) == ~c.nullBuild /\ \A i \in DOMAIN c.run : ~c.run[i].scalar

\* Mutant: a declined change is written too.
DeclineWrites == "create"

AfterDecline == "end"

FlushConfig ==
    LET new == [cmd.cfg EXCEPT !.fast = TRUE] IN
    /\ pc = "flush" /\ Stay
    /\ \/ /\ yaml = new /\ Canonical(new) /\ pc' = "end"
          /\ NoFault /\ UNCHANGED <<files, cmd, accepted>>
       \/ /\ Accept("config") /\ pc' = "create"
          /\ cmd' = [cmd EXCEPT !.cfg = new, !.old = yaml]
          /\ NoFault /\ UNCHANGED files
       \/ /\ Decline /\ pc' = AfterDecline
          /\ cmd' = [cmd EXCEPT !.cfg = new, !.old = yaml]
          /\ NoFault /\ UNCHANGED files
       \/ EndOfInput
       \/ Broken

CreateConfig ==
    /\ pc = "create" /\ Stay
    /\ \/ /\ yaml' = Truncated /\ pc' = "write"
          /\ NoFault /\ UNCHANGED <<reqs, code, cmd, accepted>>
       \/ Broken

\* The new configuration is merged into the nodes of the old file.  Nodes of
\* two kinds do not merge: a run command is written as a mapping, whatever
\* the user wrote, and a build that was empty is a mapping now.
Merges(src, dst) ==
    /\ dst # Truncated
    /\ ~dst.nullBuild
    /\ \A i \in DOMAIN src.run \cap DOMAIN dst.run : ~dst.run[i].scalar

\* A list that the new configuration has is not made shorter; one that it
\* does not have is removed.
OverwrightYAML(src, dst) ==
    [src EXCEPT !.run = IF @ = <<>> THEN <<>> ELSE dst.run]

\* The merge comes after the truncation: when it fails nothing is written.
WriteConfig ==
    /\ pc = "write" /\ pc' = "end" /\ Stay
    /\ UNCHANGED <<reqs, code, cmd, accepted>>
    /\ \/ /\ Merges(cmd.cfg, cmd.old)
          /\ yaml' = OverwrightYAML(cmd.cfg, cmd.old) /\ NoFault
       \/ ~Merges(cmd.cfg, cmd.old) /\ UNCHANGED yaml /\ NoFault
       \/ Fault /\ UNCHANGED yaml

\* EndMigrate logs the outcome and the command exits.
Exit ==
    /\ Goto("end", "idle") /\ cmd' = NoCmd
    /\ NoFault /\ Stay /\ UNCHANGED <<files, accepted>>

Kill ==
    /\ pc \notin {"idle", "end"} /\ pc' = "end" /\ Fault
    /\ Stay /\ UNCHANGED <<files, cmd, accepted>>

\* Between two commands the user writes the packages into cog.yaml, writes
\* requirements.txt, or removes one that cog.yaml does not name.
Edit ==
    /\ pc = "idle" /\ edits < MaxEdits /\ edits' = edits + 1
    /\ \/ \E ps \in (SUBSET Packages) \ {{}} :
             /\ yaml' = [IF yaml = Truncated THEN DefaultConfig
                         ELSE [yaml EXCEPT !.nullBuild = FALSE]
                         EXCEPT !.packages = ps, !.reqfile = None]
             /\ wanted' = ps /\ UNCHANGED reqs
       \/ \E ps \in (SUBSET Packages) \ {{}} :
             /\ reqs' = [reqs EXCEPT !["requirements.txt"] = ps]
             /\ wanted' = IF yaml # Truncated /\ yaml.packages = {}
                             /\ yaml.reqfile = "requirements.txt"
                          THEN ps ELSE wanted
             /\ UNCHANGED yaml
       \/ /\ yaml # Truncated => yaml.reqfile # "requirements.txt"
          /\ reqs' = [reqs EXCEPT !["requirements.txt"] = None]
          /\ UNCHANGED <<yaml, wanted>>
    /\ UNCHANGED <<code, cmd, pc, before, accepted, commands, faults>>

Migrate ==
    \/ GetRawConfig \/ CheckPythonRequirements
    \/ CreateRequirements \/ WriteRequirements \/ CheckRunCommands
    \/ CheckPredictor \/ CreatePythonFile \/ WritePythonFile
    \/ FlushConfig \/ CreateConfig \/ WriteConfig \/ Exit

Next == Migrate \/ Kill \/ Edit \/ \E b \in BOOLEAN : Start(b)

Spec == Init /\ [][Next]_vars

-----------------------------------------------------------------------------
(* Properties                                                              *)

\* The packages survive: whatever was accepted, declined, failed or killed,
\* in one run of migrate or several, a build of a project whose cog.yaml is
\* whole installs the packages that the user asked for.
PackagesSurvive ==
    pc \in {"idle", "end"} /\ yaml # Truncated =>
        Resolved(yaml, reqs) = wanted

\* A file changes only when the question about it was accepted, and a
\* requirements.txt that was there does not change at all.
OnlyWhatWasAccepted ==
    pc = "end" =>
        /\ yaml # before[1] => "config" \in accepted
        /\ \A f \in ReqFiles : reqs[f] # before[2][f] =>
              "packages" \in accepted
        /\ before[2]["requirements.txt"] # None =>
              reqs["requirements.txt"] = before[2]["requirements.txt"]
        /\ \A f \in PyFiles : code[f] # before[3][f] =>
              \E k \in accepted \cap Kinds : FileOf[k] = f

\* A run of migrate that neither failed nor was killed leaves a cog.yaml.
ConfigSurvives == faults = 0 => (pc = "idle" => yaml # Truncated)
=============================================================================
