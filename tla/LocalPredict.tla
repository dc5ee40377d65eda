---------------------------- MODULE LocalPredict ----------------------------
(***************************************************************************)
(* Running a model on this machine: "cog predict" and "cog train"          *)
(* (pkg/cli/predict.go, train.go, pkg/predict), which start the model's    *)
(* server in a container, wait for it, send it one prediction and stop it, *)
(* and "cog run" and "cog serve" (pkg/cli/run.go, serve.go), which run a   *)
(* command in a container and wait for its end.  Both Docker drivers are   *)
(* modelled: the SDK (pkg/docker/api_client.go), which creates and starts  *)
(* a container in two requests, and the command line                       *)
(* (pkg/docker/docker_command.go).                                         *)
(*                                                                         *)
(* The processes are the command's main goroutine and the goroutine that   *)
(* waits for SIGINT.  The Docker daemon, the server in the container and   *)
(* the user are external.  A container is removed when it ends.  The       *)
(* container's server answers when it likes, or never.                     *)
(***************************************************************************)
EXTENDS Naturals, Sequences, FiniteSets

CONSTANTS Options,     \* the command lines and projects
          Given,       \* values of an input: a type and the values given for it
          Outputs,     \* what the model may return: numbers of files
          MaxFaults,
          Missing      \* files that cannot be read

\* A value given for an input: the text v, or "@" and the name of a file, v.
Values == [at : BOOLEAN, v : STRING]

ASSUME LocalPredictAssumption ==
    /\ Outputs \subseteq Nat
    /\ \A g \in Given : g.type \in STRING /\ g.vals \in Seq(Values) \ {<<>>}
    /\ \A o \in Options :
          /\ o.kind \in {"predict", "train", "run", "serve"}
          /\ o.driver \in {"sdk", "cli"}
          /\ o.flag \in {"", "all", "device", "wrong"}
          /\ {o.existing, o.fast, o.gpu, o.hasDriver} \subseteq BOOLEAN

VARIABLES opt,      \* the command that runs
          pc,       \* where its main goroutine is
          cur,      \* the number of the predictor, which a retry replaces
          gpus,     \* the GPUs asked for each predictor's container
          id,       \* whether a predictor knows the id of its container
          cont,     \* the containers: "none", "created", "running", "gone"
          health,   \* what the server in the container says of itself
          sig,      \* the goroutine that waits for SIGINT
          input,    \* the value given for an input, and what was sent for it
          resp,     \* the outcome of the prediction and its number of files
          out,      \* names of the files written, and whether text was printed
          exit,     \* how the command ended: its code, and what ended it
          lost,     \* a request to stop the container failed
          faults

vars == <<opt, pc, cur, gpus, id, cont, health, sig, input, resp, out, exit,
          lost, faults>>

NotYet == [code |-> "none", by |-> "none"]
NoInput == [json |-> FALSE, list |-> FALSE, disk |-> FALSE, type |-> "none",
            vals |-> <<>>, sent |-> [list |-> FALSE, vals |-> <<>>]]
NoAnswer == [status |-> "none", files |-> 0, text |-> FALSE, isJson |-> FALSE]
NoOut == [files |-> {}, items |-> 0, printed |-> FALSE]

Init ==
    /\ opt \in Options
    /\ pc = "image" /\ cur = 1
    /\ gpus = <<"", "">> /\ id = <<FALSE, FALSE>>
    /\ cont = <<"none", "none">>
    /\ health = "STARTING" /\ sig = "default"
    /\ input = NoInput /\ resp = NoAnswer
    /\ out = NoOut /\ exit = NotYet
    /\ lost = FALSE /\ faults = 0

Predicts == opt.kind \in {"predict", "train"}
At(from) == pc = from /\ exit = NotYet
Goto(to) == pc' = to
Fault == faults < MaxFaults /\ faults' = faults + 1
NoFault == UNCHANGED faults
docker == <<gpus, id, cont>>
result == <<input, resp, out>>

-----------------------------------------------------------------------------
(* Before the container                                                    *)

\* The GPUs to ask for: those of the flag, or all if the model's cog.yaml has
\* "gpu".  "cog predict" does not look at cog.yaml when it has built the fast
\* image itself.
Gpus ==
    IF opt.flag # "" THEN opt.flag
    ELSE IF /\ opt.gpu
            /\ ~(opt.kind = "predict" /\ opt.fast /\ ~opt.existing)
         THEN "all" ELSE ""

GiveUp(from) ==
    /\ At(from) /\ Goto("end") /\ Fault
    /\ exit' = [code |-> "error", by |-> "return"]
    /\ UNCHANGED <<opt, cur, docker, health, sig, result, lost>>

GoOn(from, to) ==
    /\ At(from) /\ Goto(to) /\ NoFault
    /\ UNCHANGED <<opt, cur, id, cont, health, result, exit, lost>>

\* The image is built, with the sources or without.
BuildImage ==
    /\ ~opt.existing
    /\ \/ GoOn("image", "options") /\ UNCHANGED <<gpus, sig>>
       \/ GiveUp("image")

\* An image that is not there is pulled.
PullImage ==
    /\ opt.existing
    /\ \/ GoOn("image", "options") /\ UNCHANGED <<gpus, sig>>
       \/ GiveUp("image")

\* The predictor is made, which reads the image's weights manifest, and the
\* goroutine for SIGINT is started.
NewPredictor ==
    /\ Predicts
    /\ \/ /\ GoOn("options", "create")
          /\ gpus' = [gpus EXCEPT ![1] = Gpus] /\ sig' = "starting"
       \/ GiveUp("options")

\* "cog run" and "cog serve" mount the project and read the manifest, too.
RunOptions ==
    /\ ~Predicts
    /\ \/ /\ GoOn("options", "create")
          /\ gpus' = [gpus EXCEPT ![1] = Gpus] /\ UNCHANGED sig
       \/ GiveUp("options")

-----------------------------------------------------------------------------
(* The container                                                           *)

SetCont(st) == cont' = [cont EXCEPT ![cur] = st]

\* Where the command goes when it could not start its container: it tries once
\* more without GPUs if all were asked for and the daemon has no driver for
\* them.  "cog train" never does.
AfterNoDriver ==
    IF gpus[cur] = "all" /\ opt.kind # "train" THEN "retry" ELSE "fail"

NoDriver == gpus[cur] # "" /\ ~opt.hasDriver

\* parseGPURequest: a flag that means nothing is refused.
GPURequest == gpus[cur] # "wrong"

\* ContainerCreate.
CreateContainer ==
    /\ At("create") /\ opt.driver = "sdk"
    /\ \/ GPURequest /\ Goto("start") /\ SetCont("created") /\ NoFault
       \/ ~GPURequest /\ Goto("fail") /\ NoFault /\ UNCHANGED cont
       \/ GPURequest /\ Goto("fail") /\ Fault /\ UNCHANGED cont
    /\ UNCHANGED <<opt, cur, gpus, id, health, sig, result, exit, lost>>

\* ContainerStart: a container that cannot be started stays behind.
StartContainer ==
    /\ At("start")
    /\ \/ ~NoDriver /\ Goto("started") /\ SetCont("running") /\ NoFault
       \/ NoDriver /\ Goto(AfterNoDriver) /\ NoFault /\ UNCHANGED cont
       \/ Goto("fail") /\ Fault /\ UNCHANGED cont
    /\ UNCHANGED <<opt, cur, gpus, id, health, sig, result, exit, lost>>

\* "docker run", which removes a container that it cannot start.
DockerRun ==
    /\ At("create") /\ opt.driver = "cli"
    /\ \/ /\ GPURequest /\ ~NoDriver
          /\ Goto("started") /\ SetCont("running") /\ NoFault
       \/ /\ GPURequest /\ NoDriver
          /\ Goto(AfterNoDriver) /\ NoFault /\ SetCont("gone")
       \/ ~GPURequest /\ Goto("fail") /\ NoFault /\ UNCHANGED cont
       \/ GPURequest /\ Goto("fail") /\ Fault /\ UNCHANGED cont
    /\ UNCHANGED <<opt, cur, gpus, id, health, sig, result, exit, lost>>

\* What a command's output is read as.  The command-line driver copies it in
\* a goroutine from a pipe that is closed when the command has ended, maybe
\* before the goroutine has got to it.
Captured == IF opt.driver = "cli" THEN {"all", "nothing"} ELSE {"all"}

\* The id of the container reaches the predictor; with an empty id the port
\* cannot be asked for.
KnowContainer ==
    /\ At("started") /\ Predicts
    /\ \/ "all" \in Captured /\ Goto("port") /\ id' = [id EXCEPT ![cur] = TRUE]
       \/ "nothing" \in Captured /\ Goto("fail") /\ UNCHANGED id
    /\ NoFault
    /\ UNCHANGED <<opt, cur, gpus, cont, health, sig, result, exit, lost>>

\* The retry stops the old predictor, whose id is unknown, and makes another.
\* "cog run" and "cog serve" use the same options again.
Retry ==
    /\ At("retry") /\ cur' = 2
    /\ \/ Goto("create") /\ NoFault
       \/ Goto("fail") /\ Fault
    /\ UNCHANGED <<opt, docker, health, sig, result, exit, lost>>

\* GetHostPortForContainer.
GetPort ==
    /\ At("port")
    /\ \/ cont[cur] = "running" /\ Goto("poll") /\ NoFault
       \/ cont[cur] # "running" /\ Goto("fail") /\ NoFault
       \/ Goto("fail") /\ Fault
    /\ UNCHANGED <<opt, cur, docker, health, sig, result, exit, lost>>

\* waitForContainerReady: until the container has ended, the server is ready
\* or has failed, or the time is over.
WaitForContainerReady ==
    /\ At("poll")
    /\ \/ cont[cur] # "running" /\ Goto("fail") /\ NoFault
       \/ cont[cur] = "running" /\ health = "READY" /\ Goto("inputs") /\ NoFault
       \/ cont[cur] = "running" /\ health \notin {"READY", "STARTING"}
          /\ Goto("fail") /\ NoFault
       \/ Goto("fail") /\ NoFault        \* timed out
    /\ UNCHANGED <<opt, cur, docker, health, sig, result, exit, lost>>

\* An error of Start is returned before the deferred stop is registered.
StartFailed ==
    /\ At("fail") /\ Goto("end") /\ exit' = [code |-> "error", by |-> "return"]
    /\ UNCHANGED <<opt, cur, docker, health, sig, result, lost, faults>>

\* "cog run" and "cog serve" wait for the container's end.
WaitForExit ==
    /\ At("started") /\ ~Predicts
    /\ \/ /\ cont[cur] = "gone"
          /\ \E c \in {"zero", "error"} : exit' = [code |-> c, by |-> "return"]
          /\ NoFault
       \/ Fault /\ exit' = [code |-> "error", by |-> "return"]
    /\ Goto("end")
    /\ UNCHANGED <<opt, cur, docker, health, sig, result, lost>>

-----------------------------------------------------------------------------
(* The input.  A type is that of the schema; JSON values are kept as text. *)

Data(v) == [at |-> FALSE, v |-> <<"data", v>>]

\* Mutant: the "@" of a value in a list means nothing.
PlainElement(e) == e

\* Input.toMap for an element of a list.
Element(e) == IF e.at THEN Data(e.v) ELSE e

\* NewInputs: the values given for one name by flags.  One value is a file, or
\* JSON for an object or for a list that parses as one, or a list of one, or
\* text; several are a list.
NewInputs(type, vals) ==
    [kind |-> IF Len(vals) > 1 THEN "Array"
              ELSE IF vals[1].at THEN "File"
              ELSE IF type = "array" /\ vals[1].v # "json" THEN "Array"
              ELSE IF type \in {"array", "object"} THEN "Json" ELSE "String",
     list |-> Len(vals) > 1 \/ (type = "array" /\ ~vals[1].at),
     vals |-> vals]

\* transformPathsToBase64URLs and predictJSONInputs: a value of --json, a list
\* or not.  Only a string that is not in a list may name a file.
JSONInputs(list, vals) ==
    [kind |-> IF list THEN "Json" ELSE "String",
     list |-> list,
     vals |-> IF list THEN vals ELSE <<Element(vals[1])>>]

ToMap(given) ==
    [list |-> given.list,
     vals |-> IF given.kind \in {"Array", "File"}
              THEN [i \in 1..Len(given.vals) |-> Element(given.vals[i])]
              ELSE given.vals]

Readable(vals) == \A i \in 1..Len(vals) : vals[i].at => vals[i].v \notin Missing

\* From here on an error goes through the deferred stop.
Return(code) == Goto("defer") /\ exit' = [code |-> code, by |-> "deferred"]

\* The inputs come from flags, or from --json as text, a file or stdin; both
\* are an error.
ChooseInputs ==
    /\ At("inputs")
    /\ \/ Goto("flags") /\ UNCHANGED exit /\ NoFault
       \/ opt.kind = "predict" /\ Goto("json") /\ UNCHANGED exit /\ NoFault
       \/ opt.kind = "predict" /\ Goto("stdin") /\ UNCHANGED exit /\ NoFault
       \/ Return("error") /\ Fault
    /\ UNCHANGED <<opt, cur, docker, health, sig, result, lost>>

\* The end of stdin, or an error in reading it.
ReadStdin ==
    /\ At("stdin")
    /\ \/ Goto("json") /\ UNCHANGED exit /\ NoFault
       \/ Return("error") /\ Fault
    /\ UNCHANGED <<opt, cur, docker, health, sig, result, lost>>

\* The files are read, and what is sent is made up.
Send(json, list, disk, g, given, read) ==
    /\ \/ /\ Readable(read) /\ Goto("place") /\ UNCHANGED exit /\ NoFault
          /\ input' = [json |-> json, list |-> list, disk |-> disk,
                       type |-> g.type, vals |-> g.vals, sent |-> ToMap(given)]
       \/ ~Readable(read) /\ Return("error") /\ NoFault /\ UNCHANGED input
       \/ Return("error") /\ Fault /\ UNCHANGED input
    /\ UNCHANGED <<opt, cur, docker, health, sig, resp, out, lost>>

PredictJSONInputs ==
    /\ At("json")
    /\ \E list, disk \in BOOLEAN, g \in Given :
          /\ Len(g.vals) = 1 \/ list
          /\ Send(TRUE, list, disk, g, JSONInputs(list, g.vals),
                  IF list THEN <<>> ELSE g.vals)

\* For flags the schema is asked for first.
PredictIndividualInputs ==
    /\ At("flags")
    /\ \/ /\ cont[cur] = "running"
          /\ \E g \in Given :
                Send(FALSE, FALSE, FALSE, g, NewInputs(g.type, g.vals), g.vals)
       \/ /\ cont[cur] # "running" /\ Return("error") /\ NoFault
          /\ UNCHANGED <<opt, cur, docker, health, sig, result, lost>>

\* The place of the output, --output or not, must be writable.
EnsureOutputWriteable ==
    /\ At("place")
    /\ \/ Goto("post") /\ UNCHANGED exit /\ NoFault
       \/ Return("error") /\ Fault
    /\ UNCHANGED <<opt, cur, docker, health, sig, result, lost>>

\* The request.
PostPrediction ==
    /\ At("post")
    /\ \/ cont[cur] = "running" /\ Goto("wait") /\ UNCHANGED <<exit, faults>>
       \/ cont[cur] # "running" /\ Return("error") /\ NoFault
    /\ UNCHANGED <<opt, cur, docker, health, sig, result, lost>>

\* Mutant: a lost connection is tried again for ever.
NeverLost == FALSE

\* The request fails when the container has ended.
ConnectionLost == cont[cur] # "running"

\* Its answer, however late; no answer comes from a container that has ended.
Predict ==
    /\ At("wait")
    /\ \/ resp.status \in {"succeeded", "failed"} /\ Goto("schema") /\ UNCHANGED exit
       \/ resp.status \in {"none", "rejected"} /\ Return("error")
          /\ (resp.status = "rejected" \/ ConnectionLost)
    /\ NoFault
    /\ UNCHANGED <<opt, cur, docker, health, sig, result, lost>>

\* The schema says how to present the output; the server may be gone by now.
GetSchema ==
    /\ At("schema")
    /\ \/ /\ cont[cur] = "running"
          /\ Goto(IF resp.status = "succeeded" THEN "write" ELSE "present")
          /\ UNCHANGED exit /\ NoFault
       \/ cont[cur] # "running" /\ Return("error") /\ NoFault
       \/ Return("error") /\ Fault
    /\ UNCHANGED <<opt, cur, docker, health, sig, result, lost>>

-----------------------------------------------------------------------------
(* The output                                                              *)

\* Mutant: the files of a list get one name.
SameName(i) == 0

\* The name of output file number i of a list: its number is part of it.
ItemDestination(i) == i

\* processFileOutputs, file by file.
ProcessFileOutputs ==
    /\ At("write")
    /\ \/ /\ out.items < resp.files
          /\ \/ /\ out' = [out EXCEPT !.items = @ + 1,
                                      !.files = @ \cup {ItemDestination(out.items)}]
                /\ UNCHANGED <<pc, exit, faults>>
             \/ Return("error") /\ Fault /\ UNCHANGED out
       \/ /\ out.items = resp.files /\ Goto("present")
          /\ UNCHANGED <<out, exit, faults>>
    /\ UNCHANGED <<opt, cur, docker, health, sig, input, resp, lost>>

\* A single file is named after --output with the extension of its type: a
\* JSON file has the name of the response itself.
Overwritten ==
    IF input.disk /\ resp.files = 1 /\ resp.isJson THEN {0} ELSE {}

\* The rest of runPrediction.  With --json the response is printed or written
\* whatever its status, and a failed prediction ends the process on the spot:
\* nothing deferred runs.
Present ==
    /\ At("present")
    /\ \/ /\ input.json
          /\ \/ /\ out' = [out EXCEPT !.printed = TRUE,
                                      !.files = @ \ Overwritten]
                /\ NoFault
                /\ IF resp.status = "succeeded" THEN Return("zero")
                   ELSE Goto("end") /\ exit' = [code |-> "error", by |-> "os.Exit"]
             \/ Return("error") /\ Fault /\ UNCHANGED out
       \/ /\ ~input.json /\ resp.status # "succeeded"
          /\ Return("error") /\ NoFault /\ UNCHANGED out
       \/ /\ ~input.json /\ resp.status = "succeeded"
          /\ \/ /\ Return("zero") /\ NoFault
                /\ out' = [out EXCEPT !.printed = resp.text]
             \/ Return("error") /\ Fault /\ UNCHANGED out
    /\ UNCHANGED <<opt, cur, docker, health, sig, input, resp, lost>>

\* Stop, of a predictor that may not know its container.
Stop(p) ==
    \/ id[p] /\ cont' = [cont EXCEPT ![p] = "gone"] /\ UNCHANGED <<lost, faults>>
    \/ ~id[p] /\ UNCHANGED <<cont, lost, faults>>
    \/ Fault /\ lost' = TRUE /\ UNCHANGED cont

\* Mutant: the predictor to stop is the one that was there first.
FirstPredictor == 1

\* The predictor that the deferred stop and the goroutine refer to: that of
\* the variable, which the retry has set.
Predictor == cur

\* The deferred stop, whose error is only logged.
DeferredStop ==
    /\ pc = "defer" /\ Goto("end") /\ Stop(Predictor)
    /\ UNCHANGED <<opt, cur, gpus, id, health, sig, result, exit>>

Main ==
    \/ BuildImage \/ PullImage \/ NewPredictor \/ RunOptions \/ CreateContainer \/ StartContainer \/ DockerRun
    \/ KnowContainer \/ Retry \/ GetPort \/ WaitForContainerReady \/ StartFailed
    \/ WaitForExit \/ ChooseInputs \/ ReadStdin \/ PredictJSONInputs
    \/ PredictIndividualInputs \/ EnsureOutputWriteable \/ PostPrediction
    \/ Predict \/ GetSchema \/ ProcessFileOutputs \/ Present \/ DeferredStop

-----------------------------------------------------------------------------
(* SIGINT                                                                  *)

\* signal.Notify: until the goroutine has got here the signal kills cog.
Notify ==
    /\ pc # "end" /\ sig = "starting" /\ sig' = "waiting"
    /\ UNCHANGED <<opt, pc, cur, docker, health, result, exit, lost, faults>>

\* The goroutine stops the container and ends; further signals are taken by
\* the channel and do nothing.
StopOnSignal ==
    /\ pc # "end" /\ sig = "caught" /\ sig' = "done" /\ Stop(Predictor)
    /\ UNCHANGED <<opt, pc, cur, gpus, id, health, result, exit>>

Interrupt ==
    /\ pc # "end"
    /\ \/ sig = "waiting" /\ sig' = "caught" /\ UNCHANGED <<pc, exit>>
       \/ /\ sig \in {"default", "starting"}
          /\ Goto("end") /\ exit' = [code |-> "killed", by |-> "signal"]
          /\ UNCHANGED sig
    /\ UNCHANGED <<opt, cur, docker, health, result, lost, faults>>

-----------------------------------------------------------------------------
(* The container's side                                                    *)

Serving == cont[cur] = "running" /\ exit = NotYet

\* The server sets up, or fails to; it shows another state only when somebody
\* else uses it too.
Setup ==
    /\ Serving /\ health = "STARTING"
    /\ health' \in {"READY", "SETUP_FAILED", "BUSY"}
    /\ UNCHANGED <<opt, pc, cur, docker, sig, result, exit, lost, faults>>

Answer ==
    /\ Serving /\ pc = "wait" /\ resp.status = "none"
    /\ resp' \in {r \in [status : {"succeeded"}, files : Outputs \cup {0},
                         text : BOOLEAN, isJson : BOOLEAN] :
                     /\ r.text => r.files = 0
                     /\ r.isJson => r.files = 1}
                 \cup [status : {"failed", "rejected"}, files : {0},
                       text : {FALSE}, isJson : {FALSE}]
    /\ UNCHANGED <<opt, pc, cur, docker, health, sig, input, out, exit, lost,
                   faults>>

\* The container ends by itself: the server crashes, or the command is done.
ContainerEnds ==
    /\ Serving
    /\ IF Predicts THEN Fault ELSE NoFault
    /\ cont' = [cont EXCEPT ![cur] = "gone"]
    /\ UNCHANGED <<opt, pc, cur, gpus, id, health, sig, result, exit, lost>>

Next ==
    \/ Main \/ Notify \/ StopOnSignal \/ Interrupt
    \/ Setup \/ Answer \/ ContainerEnds

\* Where cog may wait for ever: for the end of stdin, and for the schema of a
\* server that runs and does not answer.
Blocked == pc = "stdin" \/ (pc \in {"flags", "schema"} /\ cont[cur] = "running")

\* The goroutines run; the server and the user do what they like.
Spec == Init /\ [][Next]_vars /\ WF_vars(Main /\ ~Blocked) /\ WF_vars(StopOnSignal)

-----------------------------------------------------------------------------
(* Properties                                                              *)

\* A command that got as far as a ready server and returns, with an answer or
\* an error, leaves no container running, the second one after a retry
\* included (predict.go:306-312), unless Docker refused to stop it.
NothingLeftRunning ==
    (pc = "end" /\ exit.by = "deferred")
        => \A p \in 1..2 : cont[p] = "running" => lost

\* A SIGINT that is caught once the container is known (predict.go:271-281)
\* stops the container and ends the command, whatever it waits for in the
\* container, even an answer that never comes; unless the stop is refused.
\* Nothing interrupts a read of stdin (predict.go:83-90): there the command
\* ends when that read has.
SignalEndsIt ==
    (/\ pc # "end" /\ id[cur] /\ ~lost
     /\ sig = "caught" \/ (sig = "done" /\ cont[cur] = "gone" /\ pc # "stdin"))
        ~> (pc = "end" \/ lost \/ (pc = "stdin" /\ cont[cur] = "gone"))

\* Exit code 0 says that the prediction succeeded, that every file it returned
\* is in a file of its own, and that text is printed (predict.go:427-521,
\* 581-618); but for a single JSON file with --json and --output, which the
\* response overwrites.
ZeroMeansDelivered ==
    exit.code = "zero" /\ Predicts =>
        /\ resp.status = "succeeded"
        /\ Overwritten = {} => Cardinality(out.files) = resp.files
        /\ resp.text => out.printed

\* What is sent has every value that the user gave, in its place, with the
\* contents of the file for each "@" but those in a list of --json, which are
\* sent as they are; and a list arrives as a list, but for one file given by a
\* flag for an input that is a list (input.go:27-137, predict.go:133-164).
InputsArrive ==
    input # NoInput =>
        /\ Len(input.sent.vals) = Len(input.vals)
        /\ \A i \in 1..Len(input.vals) :
              input.sent.vals[i] =
                  IF input.vals[i].at /\ ~(input.json /\ input.list)
                  THEN Data(input.vals[i].v) ELSE input.vals[i]
        /\ IF input.json THEN input.sent.list = input.list
           ELSE /\ Len(input.vals) > 1 => input.sent.list
                /\ input.type = "array" =>
                      input.sent.list \/ \E i \in 1..Len(input.vals) : input.vals[i].at
=============================================================================
