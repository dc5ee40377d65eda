---------------------------- MODULE MigrateProofs ----------------------------
(***************************************************************************)
(* PackagesSurvive and OnlyWhatWasAccepted hold for every set of packages, *)
(* every list of predictors in any files, and any number of runs, edits,   *)
(* failures and kills.  Neither is inductive: while migrate runs, what it  *)
(* has in memory must already stand for the packages that were asked for   *)
(* (InMemory), and a file is only touched where its question was accepted  *)
(* (Asked).                                                                *)
(***************************************************************************)
EXTENDS Migrate, TLAPS

\* What a Python file may hold.
Codes == (SUBSET Kinds) \cup {Truncated}

\* The variables that the arguments below look into.
Types ==
    /\ yaml \in Configs \cup {Truncated}
    /\ reqs \in [ReqFiles -> (SUBSET Packages) \cup {None}]
    /\ code \in [PyFiles -> Codes]
    /\ cmd \in [interactive : BOOLEAN, cfg : Configs, at : Nat,
                target : ReqFiles, old : Configs \cup Codes \cup {None}]
    /\ pc \in {"createCode", "writeCode"} => cmd.old \in Codes
    /\ pc \in {"create", "write"} => cmd.old \in Configs \cup {Truncated}

\* cog.yaml has been read and not yet truncated.
Loaded == {"packages", "createReqs", "writeReqs", "run", "code",
           "createCode", "writeCode", "flush", "create"}

\* The configuration in memory and the files it names stand for what the
\* user wants, from its reading to its writing.
InMemory ==
    /\ yaml # Truncated => Resolved(yaml, reqs) = wanted
    /\ pc \in Loaded /\ yaml # Truncated => Resolved(cmd.cfg, reqs) = wanted
    /\ pc = "packages" /\ yaml # Truncated =>
          cmd.cfg.packages = yaml.packages
    /\ pc \in {"createReqs", "writeReqs"} =>
          /\ cmd.cfg.packages # {}
          /\ yaml # Truncated => yaml.packages # {}
    /\ pc = "create" => cmd.old = yaml
    /\ pc = "write" /\ cmd.old # Truncated => Resolved(cmd.cfg, reqs) = wanted

\* The files that changed are those whose question was accepted.
Changed ==
    /\ yaml # before[1] => "config" \in accepted
    /\ \A f \in ReqFiles : reqs[f] # before[2][f] => "packages" \in accepted
    /\ before[2]["requirements.txt"] # None =>
          reqs["requirements.txt"] = before[2]["requirements.txt"]
    /\ \A f \in PyFiles : code[f] # before[3][f] =>
          \E k \in accepted \cap Kinds : FileOf[k] = f

Asked ==
    /\ pc # "idle" => Changed
    /\ pc \in {"createReqs", "writeReqs"} =>
          /\ "packages" \in accepted
          /\ cmd.target = "requirements.txt" =>
                before[2]["requirements.txt"] = None
    /\ pc \in {"createCode", "writeCode"} =>
          ToCheck /\ Predictor \in accepted
    /\ pc \in {"create", "write"} => "config" \in accepted

IInv == Types /\ InMemory /\ Asked

-----------------------------------------------------------------------------

\* The default configuration is one, and so are those that migrate makes of
\* a configuration.
LEMMA ConfigsClosed ==
    /\ DefaultConfig \in Configs
    /\ \A c \in Configs :
          /\ [c EXCEPT !.nullBuild = FALSE] \in Configs
          /\ [c EXCEPT !.run = <<>>] \in Configs
          /\ [c EXCEPT !.fast = TRUE] \in Configs
          /\ \A f \in ReqFiles : Moved(c, f) \in Configs
          /\ \A d \in Configs : OverwrightYAML(c, d) \in Configs
          /\ \A ps \in SUBSET Packages :
                [c EXCEPT !.packages = ps, !.reqfile = None] \in Configs
  BY ZenonT(40) DEF DefaultConfig, Configs, Moved, OverwrightYAML

LEMMA InitIInv == Init => IInv
<1> SUFFICES ASSUME Init PROVE IInv
  OBVIOUS
<1> USE DEF Init
<1>1. NoCmd.cfg \in Configs /\ NoCmd.target \in ReqFiles
  BY ConfigsClosed DEF NoCmd, ReqFiles
<1>2. reqs \in [ReqFiles -> (SUBSET Packages) \cup {None}]
  OBVIOUS
<1>3. code \in [PyFiles -> Codes]
  BY DEF Codes
<1>4. Types
  BY <1>1, <1>2, <1>3 DEF Types, NoCmd
<1>5. InMemory /\ Asked
  BY DEF InMemory, Asked, Loaded
<1> QED
  BY <1>4, <1>5 DEF IInv

LEMMA TypesStep == Types /\ [Next]_vars => Types'
<1> SUFFICES ASSUME Types, [Next]_vars PROVE Types'
  OBVIOUS
<1> USE DEF Types, files, Stay, NoFault, Goto
<1>1. CASE GetRawConfig
  BY <1>1, ConfigsClosed DEF GetRawConfig, Broken
<1>2. CASE CheckPythonRequirements
  BY <1>2, ConfigsClosed DEF CheckPythonRequirements, Accept, Decline, EndOfInput, Target, ReqFiles
<1>3. CASE CreateRequirements
  BY <1>3, ConfigsClosed DEF CreateRequirements, Broken
<1>4. CASE WriteRequirements
  <2>1. cmd.cfg.packages \in SUBSET Packages
    BY DEF Configs
  <2>2. Moved(cmd.cfg, cmd.target) \in Configs
    BY ConfigsClosed
  <2> QED
    BY <1>4, <2>1, <2>2 DEF WriteRequirements, Broken
<1>5. CASE CheckRunCommands
  BY <1>5, ConfigsClosed DEF CheckRunCommands, Accept, Decline, EndOfInput
<1>6. CASE CheckPredictor
  <2>1. ToCheck => Output(Predictor) \in Codes
    BY FilesAssumption DEF ToCheck, Predictor, Output, Codes, Kinds
  <2>2. \/ cmd' = cmd
        \/ cmd' = [cmd EXCEPT !.at = @ + 1]
        \/ ToCheck /\ cmd' = [cmd EXCEPT !.old = Output(Predictor)]
    BY <1>6 DEF CheckPredictor, Accept, Decline, EndOfInput, Broken,
               NextPredictor
  <2>3. UNCHANGED files /\ pc = "code" /\ pc' # "create" /\ pc' # "write"
        /\ (pc' = "createCode" => ToCheck /\ cmd' = [cmd EXCEPT
                                                 !.old = Output(Predictor)])
        /\ pc' # "writeCode"
    BY <1>6 DEF CheckPredictor, Accept, Decline, EndOfInput, Broken,
               NextPredictor
  <2> QED
    BY <2>1, <2>2, <2>3
<1>7. CASE CreatePythonFile
  BY <1>7, ConfigsClosed DEF CreatePythonFile, Broken, Codes
<1>8. CASE WritePythonFile
  <2>1. cmd.old \in Codes
    BY <1>8 DEF WritePythonFile
  <2>2. code' \in [PyFiles -> Codes]
    BY <1>8, <2>1 DEF WritePythonFile, Broken
  <2>3. /\ UNCHANGED <<yaml, reqs>>
        /\ cmd' = cmd \/ cmd' = [cmd EXCEPT !.at = @ + 1]
        /\ pc' \in {"code", "end"}
    BY <1>8 DEF WritePythonFile, Broken, NextPredictor
  <2> QED
    BY <2>2, <2>3
<1>9. CASE FlushConfig
  <2>1. [cmd.cfg EXCEPT !.fast = TRUE] \in Configs
    BY ConfigsClosed
  <2>2. /\ UNCHANGED files /\ pc' \in {"create", "end"}
        /\ \/ UNCHANGED cmd /\ pc' = "end"
           \/ cmd' = [cmd EXCEPT !.cfg = [cmd.cfg EXCEPT !.fast = TRUE],
                                 !.old = yaml]
    BY <1>9 DEF FlushConfig, Accept, Decline, EndOfInput, Broken, AfterDecline
  <2> QED
    BY <2>1, <2>2 DEF Codes
<1>10. CASE CreateConfig
  BY <1>10, ConfigsClosed DEF CreateConfig, Broken
<1>11. CASE WriteConfig
  BY <1>11, ConfigsClosed DEF WriteConfig, Merges
<1>12. CASE Exit
  BY <1>12, ConfigsClosed DEF Exit, NoCmd, ReqFiles
<1>13. CASE Kill
  BY <1>13, ConfigsClosed DEF Kill
<1>14. CASE Edit
  <2>1. yaml' \in Configs \cup {Truncated}
    <3> DEFINE Base == IF yaml = Truncated THEN DefaultConfig
                       ELSE [yaml EXCEPT !.nullBuild = FALSE]
    <3>1. Base \in Configs
      BY ConfigsClosed
    <3>2. \/ UNCHANGED yaml
          \/ \E ps \in SUBSET Packages :
                yaml' = [Base EXCEPT !.packages = ps, !.reqfile = None]
      BY <1>14 DEF Edit
    <3> HIDE DEF Base
    <3>3. \A ps \in SUBSET Packages :
              [Base EXCEPT !.packages = ps, !.reqfile = None] \in Configs
      BY <3>1, ConfigsClosed
    <3> QED
      BY <3>2, <3>3
  <2>2. reqs' \in [ReqFiles -> (SUBSET Packages) \cup {None}]
    BY <1>14 DEF Edit
  <2> QED
    BY <1>14, <2>1, <2>2 DEF Edit
<1>15. ASSUME NEW b \in BOOLEAN, Start(b) PROVE Types'
  BY <1>15, ConfigsClosed DEF Start, NoCmd, ReqFiles
<1>16. CASE UNCHANGED vars
  BY <1>16 DEF vars
<1> QED
  BY <1>1, <1>2, <1>3, <1>4, <1>5, <1>6, <1>7, <1>8, <1>9, <1>10, <1>11, <1>12, <1>13, <1>14, <1>15, <1>16 DEF Next, Migrate

-----------------------------------------------------------------------------

\* The steps that change nothing of what the user wants, of what is written
\* and of the packages in memory keep InMemory.
LEMMA SameMemory ==
    ASSUME UNCHANGED <<yaml, reqs, wanted>>, InMemory,
           \/ pc' \notin Loaded \cup {"write"}
           \/ /\ pc \in Loaded /\ pc' \in Loaded \ {"packages", "create"}
              /\ cmd'.cfg.packages = cmd.cfg.packages
              /\ cmd'.cfg.reqfile = cmd.cfg.reqfile
              /\ pc' \in {"createReqs", "writeReqs"} =>
                    \/ pc \in {"createReqs", "writeReqs"}
                    \/ pc = "packages" /\ cmd.cfg.packages # {}
    PROVE InMemory'
  BY DEF InMemory, Loaded, Resolved

\* What migrate changes in the configuration leaves its packages and its
\* file of requirements alone, except for the move.
LEMMA ConfigFields ==
    ASSUME NEW c \in Configs, NEW d \in Configs, NEW f \in ReqFiles
    PROVE /\ [c EXCEPT !.nullBuild = FALSE].packages = c.packages
          /\ [c EXCEPT !.nullBuild = FALSE].reqfile = c.reqfile
          /\ [c EXCEPT !.run = <<>>].packages = c.packages
          /\ [c EXCEPT !.run = <<>>].reqfile = c.reqfile
          /\ [c EXCEPT !.fast = TRUE].packages = c.packages
          /\ [c EXCEPT !.fast = TRUE].reqfile = c.reqfile
          /\ OverwrightYAML(c, d).packages = c.packages
          /\ OverwrightYAML(c, d).reqfile = c.reqfile
          /\ Moved(c, f).packages = {}
          /\ Moved(c, f).reqfile = f
          /\ c.packages \in SUBSET Packages
          /\ c.reqfile \in ReqFiles \cup {None}
  BY DEF Configs, OverwrightYAML, Moved

LEMMA InMemoryStep == Types /\ InMemory /\ [Next]_vars => InMemory'
<1> SUFFICES ASSUME Types, InMemory, [Next]_vars PROVE InMemory'
  OBVIOUS
<1>t. /\ cmd \in [interactive : BOOLEAN, cfg : Configs, at : Nat,
                 target : ReqFiles, old : Configs \cup Codes \cup {None}]
      /\ cmd.cfg \in Configs /\ cmd.target \in ReqFiles
  BY DEF Types
<1> USE DEF files, Stay, NoFault, Goto
<1>1. CASE GetRawConfig
  <2>1. CASE pc' = "end"
    BY <1>1, <2>1, SameMemory DEF GetRawConfig, Broken, Loaded
  <2>2. CASE pc' # "end"
    <3>1. /\ pc' = "packages" /\ UNCHANGED <<yaml, reqs, wanted>>
          /\ yaml # Truncated =>
                cmd'.cfg = [yaml EXCEPT !.nullBuild = FALSE]
      BY <1>1, <1>t, <2>2 DEF GetRawConfig, Broken
    <3>2. yaml # Truncated => /\ cmd'.cfg.packages = yaml.packages
                              /\ cmd'.cfg.reqfile = yaml.reqfile
      BY ZenonT(40), <3>1, ConfigFields DEF Types
    <3> QED
      BY <3>1, <3>2 DEF InMemory, Resolved
  <2> QED
    BY <2>1, <2>2
<1>2. CASE CheckPythonRequirements
  <2>1. cmd'.cfg = cmd.cfg
    BY <1>2, <1>t DEF CheckPythonRequirements, EndOfInput
  <2> QED
    BY <1>2, <2>1, SameMemory
       DEF CheckPythonRequirements, EndOfInput, Accept, Decline, Loaded
<1>3. CASE CreateRequirements
  <2>1. CASE pc' = "end"
    <3>1. UNCHANGED yaml /\ UNCHANGED wanted
      BY <1>3 DEF CreateRequirements, Broken
    <3>2. yaml # Truncated => yaml.packages # {}
      BY <1>3 DEF CreateRequirements, InMemory
    <3> QED
      BY <2>1, <3>1, <3>2 DEF InMemory, Resolved, Loaded
  <2>2. CASE pc' = "writeReqs"
    BY <1>3, <2>2
       DEF CreateRequirements, Broken, InMemory, Resolved, Loaded
  <2> QED
    BY <1>3, <2>1, <2>2 DEF CreateRequirements, Broken
<1>4. CASE WriteRequirements
  <2>1. CASE pc' = "end"
    BY <1>4, <2>1, SameMemory DEF WriteRequirements, Broken, Loaded
  <2>2. CASE pc' = "run"
    <3>1. /\ reqs'[cmd.target] = cmd.cfg.packages
          /\ cmd'.cfg = Moved(cmd.cfg, cmd.target)
          /\ UNCHANGED <<yaml, wanted>>
      BY <1>4, <1>t, <2>2 DEF WriteRequirements, Types, Broken
    <3>2. /\ cmd.cfg.packages # {} /\ cmd.cfg.packages # None
          /\ yaml # Truncated => yaml.packages # {}
      BY <1>4, <1>t, ConfigFields, NoneAssumption
         DEF WriteRequirements, InMemory
    <3>3. yaml # Truncated => cmd.cfg.packages = wanted
      BY <1>4, <3>2 DEF WriteRequirements, InMemory, Resolved, Loaded
    <3>4. cmd'.cfg.packages = {} /\ cmd'.cfg.reqfile = cmd.target
      BY <3>1, <1>t, ConfigFields
    <3>5. yaml # Truncated => Resolved(cmd'.cfg, reqs') = wanted
      BY <3>1, <3>2, <3>3, <3>4, <1>t, NoneAssumption DEF Resolved
    <3>6. yaml # Truncated => Resolved(yaml, reqs') = wanted
      BY <3>2 DEF InMemory, Resolved
    <3> QED
      BY <2>2, <3>1, <3>5, <3>6 DEF InMemory
  <2> QED
    BY <1>4, <2>1, <2>2 DEF WriteRequirements, Broken
<1>5. CASE CheckRunCommands
  <2>1. cmd' = cmd \/ cmd' = [cmd EXCEPT !.cfg = [cmd.cfg EXCEPT !.run = <<>>]]
    BY <1>5 DEF CheckRunCommands, EndOfInput
  <2>2. /\ cmd'.cfg.packages = cmd.cfg.packages
        /\ cmd'.cfg.reqfile = cmd.cfg.reqfile
    BY ZenonT(40), <2>1, <1>t, ConfigFields
  <2> QED
    BY <1>5, <2>2, SameMemory
       DEF CheckRunCommands, EndOfInput, Loaded
<1>6. CASE CheckPredictor
  <2>1. cmd'.cfg = cmd.cfg
    BY <1>6, <1>t DEF CheckPredictor, EndOfInput, Broken, NextPredictor
  <2> QED
    BY <1>6, <2>1, SameMemory
       DEF CheckPredictor, EndOfInput, Broken, Loaded
<1>7. CASE CreatePythonFile
  BY <1>7, SameMemory DEF CreatePythonFile, Broken, Loaded
<1>8. CASE WritePythonFile
  <2>1. cmd'.cfg = cmd.cfg
    BY <1>8, <1>t DEF WritePythonFile, Broken, NextPredictor
  <2> QED
    BY <1>8, <2>1, SameMemory DEF WritePythonFile, Broken, Loaded
<1>9. CASE FlushConfig
  <2>1. CASE pc' = "end"
    BY <1>9, <2>1, SameMemory
       DEF FlushConfig, EndOfInput, Broken, AfterDecline, Loaded
  <2>2. CASE pc' = "create"
    <3>1. /\ cmd'.cfg = [cmd.cfg EXCEPT !.fast = TRUE]
          /\ cmd'.old = yaml
          /\ UNCHANGED <<yaml, reqs, wanted>>
      BY <1>9, <1>t, <2>2 DEF FlushConfig, EndOfInput, Broken, AfterDecline
    <3>2. /\ cmd'.cfg.packages = cmd.cfg.packages
          /\ cmd'.cfg.reqfile = cmd.cfg.reqfile
      BY <3>1, <1>t, ConfigFields
    <3> QED
      BY <1>9, <2>2, <3>1, <3>2
         DEF FlushConfig, InMemory, Resolved, Loaded
  <2> QED
    BY <1>9, <2>1, <2>2 DEF FlushConfig, EndOfInput, Broken, AfterDecline
<1>10. CASE CreateConfig
  <2>1. CASE pc' = "end"
    BY <1>10, <2>1, SameMemory DEF CreateConfig, Broken, Loaded
  <2>2. CASE pc' = "write"
    BY <1>10, <2>2
       DEF CreateConfig, Broken, InMemory, Loaded, Resolved
  <2> QED
    BY <1>10, <2>1, <2>2 DEF CreateConfig, Broken
<1>11. CASE WriteConfig
  <2>1. CASE UNCHANGED yaml
    BY <1>11, <2>1, SameMemory DEF WriteConfig, Loaded
  <2>2. CASE ~UNCHANGED yaml
    <3>1. /\ cmd.old # Truncated
          /\ yaml' = OverwrightYAML(cmd.cfg, cmd.old)
          /\ pc' = "end" /\ UNCHANGED <<reqs, wanted>>
      BY <1>11, <2>2 DEF WriteConfig, Merges
    <3>2. cmd.old \in Configs
      BY <1>11, <3>1 DEF WriteConfig, Types
    <3>3. yaml'.packages = cmd.cfg.packages /\ yaml'.reqfile = cmd.cfg.reqfile
      BY <3>1, <3>2, <1>t, ConfigFields
    <3>4. Resolved(cmd.cfg, reqs) = wanted
      BY <1>11, <3>1 DEF WriteConfig, InMemory
    <3> QED
      BY <3>1, <3>3, <3>4 DEF InMemory, Resolved, Loaded
  <2> QED
    BY <2>1, <2>2
<1>12. CASE Exit
  BY <1>12, SameMemory DEF Exit, Loaded
<1>13. CASE Kill
  BY <1>13, SameMemory DEF Kill, Loaded
<1>14. CASE Edit
  <2>1. pc' = pc /\ pc = "idle" /\ reqs \in [ReqFiles -> (SUBSET Packages) \cup {None}]
    BY <1>14 DEF Edit, Types
  <2>2. yaml' # Truncated => Resolved(yaml', reqs') = wanted'
    <3> DEFINE Base == IF yaml = Truncated THEN DefaultConfig
                       ELSE [yaml EXCEPT !.nullBuild = FALSE]
    <3>1. Base \in Configs
      BY ConfigsClosed DEF Types
    <3>2. ASSUME NEW ps \in (SUBSET Packages) \ {{}},
                 yaml' = [Base EXCEPT !.packages = ps, !.reqfile = None],
                 wanted' = ps
          PROVE Resolved(yaml', reqs') = wanted'
      <4> HIDE DEF Base
      <4>1. yaml'.packages = ps
        BY <3>1, <3>2 DEF Configs
      <4> QED
        BY <3>2, <4>1 DEF Resolved
    <3>3. ASSUME NEW ps \in (SUBSET Packages) \ {{}},
                 reqs' = [reqs EXCEPT !["requirements.txt"] = ps],
                 wanted' = IF yaml # Truncated /\ yaml.packages = {}
                              /\ yaml.reqfile = "requirements.txt"
                           THEN ps ELSE wanted,
                 UNCHANGED yaml, yaml # Truncated
          PROVE Resolved(yaml', reqs') = wanted'
      <4>1. ps # None /\ reqs'["requirements.txt"] = ps
        BY <2>1, <3>3, NoneAssumption DEF ReqFiles
      <4>2. \A f \in ReqFiles : f # "requirements.txt" => reqs'[f] = reqs[f]
        BY <2>1, <3>3
      <4>3. yaml.reqfile \in ReqFiles \cup {None}
        BY <3>3 DEF Types, Configs
      <4>4. "requirements.txt" # None
        BY NoneAssumption DEF ReqFiles
      <4> QED
        BY <3>3, <4>1, <4>2, <4>3, <4>4 DEF Resolved, InMemory
    <3>4. ASSUME yaml # Truncated => yaml.reqfile # "requirements.txt",
                 reqs' = [reqs EXCEPT !["requirements.txt"] = None],
                 UNCHANGED <<yaml, wanted>>, yaml # Truncated
          PROVE Resolved(yaml', reqs') = wanted'
      <4>1. yaml.reqfile \in ReqFiles \cup {None}
        BY <3>4 DEF Types, Configs
      <4> QED
        BY <2>1, <3>4, <4>1 DEF Resolved, InMemory
    <3> QED
      BY <1>14, <3>2, <3>3, <3>4 DEF Edit
  <2> QED
    BY <2>1, <2>2 DEF InMemory, Loaded
<1>15. ASSUME NEW b \in BOOLEAN, Start(b) PROVE InMemory'
  BY <1>15, SameMemory DEF Start, Loaded
<1>16. CASE UNCHANGED vars
  BY <1>16 DEF vars, InMemory, Resolved, Loaded
<1> QED
  BY <1>1, <1>2, <1>3, <1>4, <1>5, <1>6, <1>7, <1>8, <1>9, <1>10, <1>11,
     <1>12, <1>13, <1>14, <1>15, <1>16 DEF Next, Migrate

-----------------------------------------------------------------------------

\* A step that leaves every file and the history alone keeps what Asked
\* says of them; accepting a question never takes one back.
LEMMA AskedFrame ==
    ASSUME UNCHANGED <<yaml, reqs, code, before>>, Asked, pc # "idle",
           accepted \subseteq accepted'
    PROVE Changed'
  BY DEF Asked, Changed

\* Nor do the two steps that write the file of requirements break it: only
\* a requirements.txt that was not there is written.
LEMMA AskedReqs ==
    ASSUME UNCHANGED <<yaml, code, before, accepted>>, Types, Asked,
           pc \in {"createReqs", "writeReqs"}, NEW v,
           UNCHANGED reqs \/ reqs' = [reqs EXCEPT ![cmd.target] = v]
    PROVE Changed'
<1>1. /\ "packages" \in accepted'
      /\ cmd.target = "requirements.txt" =>
            before'[2]["requirements.txt"] = None
  BY DEF Asked
<1>2. \A f \in ReqFiles : f # cmd.target => reqs'[f] = reqs[f]
  BY DEF Types
<1>3. before[2]["requirements.txt"] # None =>
          reqs'["requirements.txt"] = before[2]["requirements.txt"]
  BY <1>1, <1>2 DEF Asked, Changed, ReqFiles
<1> QED
  BY <1>1, <1>3 DEF Asked, Changed

LEMMA AskedStep == Types /\ InMemory /\ Asked /\ [Next]_vars => Asked'
<1> SUFFICES ASSUME Types, InMemory, Asked, [Next]_vars PROVE Asked'
  OBVIOUS
<1>t. /\ cmd \in [interactive : BOOLEAN, cfg : Configs, at : Nat,
                 target : ReqFiles, old : Configs \cup Codes \cup {None}]
      /\ reqs \in [ReqFiles -> (SUBSET Packages) \cup {None}]
      /\ code \in [PyFiles -> Codes]
  BY DEF Types
<1> USE DEF files, Stay, NoFault, Goto
<1>1. CASE GetRawConfig
  <2>1. Changed'
    BY <1>1, AskedFrame DEF GetRawConfig, Broken
  <2> QED
    BY <1>1, <2>1 DEF GetRawConfig, Broken, Asked
<1>2. CASE CheckPythonRequirements
  <2>1. Changed'
    BY <1>2, AskedFrame
       DEF CheckPythonRequirements, EndOfInput, Accept, Decline
  <2>2. pc' = "createReqs" => /\ "packages" \in accepted'
                              /\ cmd'.target = Target
                              /\ UNCHANGED <<reqs, before>> /\ Changed
    BY <1>2, <1>t
       DEF CheckPythonRequirements, EndOfInput, Accept, Decline, Asked
  <2>3. pc' = "createReqs" /\ cmd'.target = "requirements.txt" =>
            before'[2]["requirements.txt"] = None
    BY <2>2 DEF Target, Changed
  <2> QED
    BY <1>2, <2>1, <2>2, <2>3
       DEF CheckPythonRequirements, EndOfInput, Asked
<1>3. CASE CreateRequirements
  <2>1. /\ UNCHANGED <<yaml, code, cmd, before, accepted>>
        /\ pc = "createReqs" /\ pc' \in {"writeReqs", "end"}
        /\ UNCHANGED reqs \/ reqs' = [reqs EXCEPT ![cmd.target] = {}]
    BY <1>3 DEF CreateRequirements, Broken
  <2>2. Changed'
    BY <2>1, AskedReqs
  <2> QED
    BY <2>1, <2>2 DEF Asked
<1>4. CASE WriteRequirements
  <2>1. /\ UNCHANGED <<yaml, code, before, accepted>>
        /\ pc = "writeReqs" /\ pc' \in {"run", "end"}
        /\ \/ UNCHANGED reqs
           \/ reqs' = [reqs EXCEPT ![cmd.target] = cmd.cfg.packages]
    BY <1>4 DEF WriteRequirements, Broken
  <2>2. Changed'
    BY <2>1, AskedReqs
  <2> QED
    BY <2>1, <2>2 DEF Asked
<1>5. CASE CheckRunCommands
  <2>1. Changed'
    BY <1>5, AskedFrame DEF CheckRunCommands, EndOfInput, Accept, Decline
  <2> QED
    BY <1>5, <2>1 DEF CheckRunCommands, EndOfInput, Accept, Decline, Asked
<1>6. CASE CheckPredictor
  <2>1. Changed'
    BY <1>6, AskedFrame DEF CheckPredictor, EndOfInput, Accept, Decline,
                            Broken
  <2>2. /\ pc' \in {"flush", "code", "createCode", "end"}
        /\ pc' = "createCode" =>
              /\ ToCheck /\ Predictor \in accepted'
              /\ cmd' = [cmd EXCEPT !.old = Output(Predictor)]
    BY <1>6 DEF CheckPredictor, EndOfInput, Accept, Decline, Broken
  <2>3. pc' = "createCode" => cmd'.at = cmd.at
    BY <1>t, <2>2
  <2> QED
    BY <2>1, <2>2, <2>3 DEF Asked, ToCheck, Predictor
<1>7. CASE CreatePythonFile
  <2>1. /\ UNCHANGED <<yaml, reqs, cmd, before, accepted>>
        /\ pc = "createCode" /\ pc' \in {"writeCode", "end"}
        /\ \/ UNCHANGED code
           \/ code' = [code EXCEPT ![FileOf[Predictor]] = Truncated]
    BY <1>7 DEF CreatePythonFile, Broken
  <2>2. ToCheck /\ Predictor \in accepted /\ Predictor \in Kinds
    BY <2>1 DEF Asked, ToCheck, Predictor, Kinds
  <2>3. Changed'
    BY <1>t, <2>1, <2>2 DEF Asked, Changed
  <2> QED
    BY <2>1, <2>2, <2>3 DEF Asked, ToCheck, Predictor
<1>8. CASE WritePythonFile
  <2>1. /\ UNCHANGED <<yaml, reqs, before, accepted>>
        /\ pc = "writeCode" /\ pc' \in {"code", "end"}
        /\ \/ UNCHANGED code
           \/ code' = [code EXCEPT ![FileOf[Predictor]] = cmd.old]
    BY <1>8 DEF WritePythonFile, Broken
  <2>2. ToCheck /\ Predictor \in accepted /\ Predictor \in Kinds
    BY <2>1 DEF Asked, ToCheck, Predictor, Kinds
  <2>3. Changed'
    BY <1>t, <2>1, <2>2 DEF Asked, Changed
  <2> QED
    BY <2>1, <2>2, <2>3 DEF Asked
<1>9. CASE FlushConfig
  <2>1. Changed'
    BY <1>9, AskedFrame DEF FlushConfig, EndOfInput, Accept, Decline,
                            Broken, AfterDecline
  <2> QED
    BY <1>9, <2>1 DEF FlushConfig, EndOfInput, Accept, Decline, Broken,
                      AfterDecline, Asked
<1>10. CASE CreateConfig
  BY <1>10 DEF CreateConfig, Broken, Asked, Changed
<1>11. CASE WriteConfig
  BY <1>11 DEF WriteConfig, Asked, Changed
<1>12. CASE Exit
  BY <1>12 DEF Exit, Asked
<1>13. CASE Kill
  <2>1. Changed'
    BY <1>13, AskedFrame DEF Kill
  <2> QED
    BY <1>13, <2>1 DEF Kill, Asked
<1>14. CASE Edit
  BY <1>14 DEF Edit, Asked
<1>15. ASSUME NEW b \in BOOLEAN, Start(b) PROVE Asked'
  BY <1>15 DEF Start, Asked, Changed
<1>16. CASE UNCHANGED vars
  BY <1>16 DEF vars, Asked, Changed, ToCheck, Predictor
<1> QED
  BY <1>1, <1>2, <1>3, <1>4, <1>5, <1>6, <1>7, <1>8, <1>9, <1>10, <1>11,
     <1>12, <1>13, <1>14, <1>15, <1>16 DEF Next, Migrate

-----------------------------------------------------------------------------

\* The invariant holds, for every set of packages, list of predictors and
\* placing of them in files, and without a bound on runs, failures or edits.
THEOREM MigrateInv == Spec => []IInv
<1>1. IInv /\ [Next]_vars => IInv'
  BY TypesStep, InMemoryStep, AskedStep DEF IInv
<1> QED
  BY InitIInv, <1>1, PTL DEF Spec

\* The packages survive: while cog.yaml is whole, a build installs what the
\* user asked for.
THEOREM MigratePackagesSurvive == Spec => []PackagesSurvive
<1>1. IInv => PackagesSurvive
  BY DEF IInv, InMemory, PackagesSurvive
<1> QED
  BY MigrateInv, <1>1, PTL

\* A file changes only when the question about it was accepted, and a
\* requirements.txt of the user never does.
THEOREM MigrateOnlyWhatWasAccepted == Spec => []OnlyWhatWasAccepted
<1>1. IInv => OnlyWhatWasAccepted
  BY DEF IInv, Asked, Changed, OnlyWhatWasAccepted
<1> QED
  BY MigrateInv, <1>1, PTL
=============================================================================
