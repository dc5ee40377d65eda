------------------------- MODULE LocalPredictProofs -------------------------
(***************************************************************************)
(* Proofs about "cog predict", "cog train" and "cog run" on this machine,  *)
(* for every command line, every input and every number of failures of     *)
(* Docker.                                                                 *)
(***************************************************************************)
EXTENDS LocalPredict, SequenceTheorems, FiniteSetTheorems, TLAPS

\* Where the main goroutine is before a container runs, while it knows the
\* id of the one that does, and otherwise.
Before == {"image", "options", "create", "start", "retry"}
Connected == {"port", "poll", "inputs", "flags", "json", "stdin", "place", "post", "wait", "schema", "write",
              "present", "defer"}
PC == Before \cup Connected \cup {"started", "fail", "end"}

Answers == [status : {"none", "succeeded", "failed", "rejected"},
            files : Outputs \cup {0}, text : BOOLEAN, isJson : BOOLEAN]
Written == [files : SUBSET Nat, items : Nat, printed : BOOLEAN]

TypeOK ==
    /\ opt \in Options
    /\ pc \in PC
    /\ cur \in 1 .. 2
    /\ id \in [1 .. 2 -> BOOLEAN]
    /\ cont \in [1 .. 2 -> {"none", "created", "running", "gone"}]
    /\ resp \in Answers
    /\ out \in Written
    /\ lost \in BOOLEAN

\* A predictor that a retry has replaced never had a running container, and
\* the present one has none before "docker run" or ContainerStart.
OthersStopped == \A p \in 1 .. 2 : p # cur => cont[p] # "running"
NoneBefore == pc \in Before => cont[cur] # "running"

\* The deferred stop is registered only with a container whose id is known, and
\* it is the only way on from a return that defers.
Known == pc \in Connected => id[cur]
Deferred == exit.by = "deferred" => pc \in {"defer", "end"}

\* The files of the output are written one by one, each in a file of its own.
FilesWritten == exit = NotYet => out.files = 0 .. (out.items - 1)
AllWritten ==
    pc = "present" /\ exit = NotYet /\ resp.status = "succeeded" => out.items = resp.files

IInv == /\ TypeOK
        /\ OthersStopped /\ NoneBefore /\ Known /\ Deferred
        /\ FilesWritten /\ AllWritten
        /\ NothingLeftRunning /\ ZeroMeansDelivered /\ InputsArrive

-----------------------------------------------------------------------------
(* Where the container is                                                  *)

\* Stopping a predictor ends its container, if its id is known, or is lost.
LEMMA StopTyped ==
    ASSUME TypeOK, NEW p \in 1 .. 2, Stop(p)
    PROVE  /\ cont' \in [1 .. 2 -> {"none", "created", "running", "gone"}]
           /\ lost' \in BOOLEAN /\ (lost => lost')
           /\ \A q \in 1 .. 2 : cont'[q] = cont[q] \/ cont'[q] = "gone"
           /\ id[p] => cont'[p] = "gone" \/ lost'
  BY DEF TypeOK, Stop

\* One more file of the output is written.
LEMMA OneMoreTyped ==
    ASSUME out \in Written
    PROVE  [out EXCEPT !.items = @ + 1, !.files = @ \cup {ItemDestination(out.items)}]
               \in Written
<1> DEFINE n == out.items + 1
           s == out.files \cup {ItemDestination(out.items)}
<1>1. n \in Nat /\ s \in SUBSET Nat
  BY DEF Written, ItemDestination
<1>2. [out EXCEPT !.items = @ + 1, !.files = @ \cup {ItemDestination(out.items)}]
      = [out EXCEPT !.items = n, !.files = s]
  OBVIOUS
<1> HIDE DEF n, s
<1>3. [out EXCEPT !.items = n, !.files = s] \in Written
  BY <1>1 DEF Written
<1> QED
  BY <1>2, <1>3

\* The steps that read the inputs.
Reads == ChooseInputs \/ ReadStdin \/ PredictJSONInputs \/ PredictIndividualInputs

\* They leave the containers and the outcome alone.
LEMMA ReadsKeep ==
    ASSUME Reads
    PROVE  /\ UNCHANGED <<opt, cur, docker, health, sig, resp, out, lost>>
           /\ pc \in Connected /\ exit = NotYet
           /\ pc' \in {"flags", "json", "stdin", "place", "defer"}
           /\ exit' \in {exit, [code |-> "error", by |-> "deferred"]}
           /\ exit' # exit => pc' = "defer"
  BY DEF Reads, ChooseInputs, ReadStdin, PredictJSONInputs, PredictIndividualInputs, Send,
     Return, At, Goto, result, Connected

LEMMA TypeStep == TypeOK /\ [Next]_vars => TypeOK'
<1> SUFFICES ASSUME TypeOK, [Next]_vars PROVE TypeOK'
  OBVIOUS
<1> USE DEF TypeOK, PC, Before, Connected, At, Goto, docker, result, Return
<1>1. CASE UNCHANGED vars
  BY <1>1 DEF vars
<1>2. CASE BuildImage \/ PullImage \/ NewPredictor \/ RunOptions
  BY <1>2 DEF BuildImage, PullImage, NewPredictor, RunOptions, GoOn, GiveUp
<1>3. CASE CreateContainer \/ StartContainer \/ DockerRun \/ KnowContainer \/ Retry
  <2>1. CASE CreateContainer
    BY <2>1 DEF CreateContainer, SetCont
  <2>2. CASE StartContainer
    BY <2>2 DEF StartContainer, SetCont, AfterNoDriver
  <2>3. CASE DockerRun
    BY <2>3 DEF DockerRun, SetCont, AfterNoDriver
  <2>4. CASE KnowContainer
    <3>1. id' \in [1 .. 2 -> BOOLEAN] /\ pc' \in {"port", "fail"}
      BY <2>4 DEF KnowContainer
    <3> QED
      BY <2>4, <3>1 DEF KnowContainer
  <2>5. CASE Retry
    <3>1. UNCHANGED <<opt, id, cont, resp, out, lost>>
      BY <2>5 DEF Retry
    <3>2. cur' = 2 /\ pc' \in {"create", "fail"}
      BY <2>5 DEF Retry
    <3> QED
      BY <3>1, <3>2
  <2> QED
    BY <1>3, <2>1, <2>2, <2>3, <2>4, <2>5
<1>4. CASE GetPort \/ WaitForContainerReady \/ StartFailed \/ WaitForExit
  BY <1>4 DEF GetPort, WaitForContainerReady, StartFailed, WaitForExit
<1>5. CASE EnsureOutputWriteable \/ PostPrediction \/ Predict \/ GetSchema
  BY <1>5 DEF EnsureOutputWriteable, PostPrediction, Predict, GetSchema
<1>12. CASE Reads
  BY <1>12, ReadsKeep
<1>6. CASE ProcessFileOutputs
  <2>1. out' \in Written
    BY <1>6, OneMoreTyped DEF ProcessFileOutputs
  <2>2. pc' \in {"write", "present", "defer"}
    BY <1>6 DEF ProcessFileOutputs
  <2> QED
    BY <1>6, <2>1, <2>2 DEF ProcessFileOutputs
<1>7. CASE Present
  <2>0. out \in Written /\ resp.text \in BOOLEAN
    BY DEF Answers
  <2>1. /\ [out EXCEPT !.printed = TRUE, !.files = @ \ Overwritten] \in Written
        /\ [out EXCEPT !.printed = resp.text] \in Written
    BY <2>0 DEF Written
  <2> QED
    BY <1>7, <2>1 DEF Present
<1>8. CASE DeferredStop \/ StopOnSignal
  BY <1>8, StopTyped DEF DeferredStop, StopOnSignal, Predictor
<1>9. CASE Notify \/ Interrupt \/ Setup
  BY <1>9 DEF Notify, Interrupt, Setup
<1>10. CASE Answer
  <2>1. resp' \in Answers
    BY <1>10 DEF Answer, Answers
  <2> QED
    BY <1>10, <2>1 DEF Answer
<1>11. CASE ContainerEnds
  BY <1>11 DEF ContainerEnds
<1> QED
  BY <1>1, <1>2, <1>3, <1>4, <1>5, <1>6, <1>7, <1>8, <1>9, <1>10, <1>11, <1>12
  DEF Next, Main, Reads

ContainerInv == OthersStopped /\ NoneBefore /\ Known /\ Deferred /\ NothingLeftRunning

\* Every step keeps what is known of the containers.
LEMMA ContainerStep == TypeOK /\ ContainerInv /\ [Next]_vars => ContainerInv'
<1> SUFFICES ASSUME TypeOK, ContainerInv, [Next]_vars PROVE ContainerInv'
  OBVIOUS
<1> USE DEF TypeOK, ContainerInv, OthersStopped, NoneBefore, Known, Deferred,
            NothingLeftRunning, PC, Before, Connected, At, Goto, docker, NotYet
<1>1. CASE UNCHANGED vars
  BY <1>1 DEF vars
<1>2. CASE BuildImage \/ PullImage \/ NewPredictor \/ RunOptions
  BY <1>2 DEF BuildImage, PullImage, NewPredictor, RunOptions, GoOn, GiveUp
<1>3. CASE CreateContainer
  BY <1>3 DEF CreateContainer, SetCont
<1>4. CASE StartContainer
  BY <1>4 DEF StartContainer, SetCont, AfterNoDriver
<1>5. CASE DockerRun
  BY <1>5 DEF DockerRun, SetCont, AfterNoDriver
<1>6. CASE KnowContainer \/ Retry
  BY <1>6 DEF KnowContainer, Retry
<1>7. CASE GetPort \/ WaitForContainerReady \/ StartFailed \/ WaitForExit
  BY <1>7 DEF GetPort, WaitForContainerReady, StartFailed, WaitForExit
<1>8. CASE EnsureOutputWriteable \/ PostPrediction \/ Predict \/ GetSchema
  BY <1>8 DEF EnsureOutputWriteable, PostPrediction, Predict, GetSchema, Return
<1>15. CASE Reads
  BY <1>15, ReadsKeep
<1>9. CASE ProcessFileOutputs \/ Present
  BY <1>9 DEF ProcessFileOutputs, Present, Return
<1>10. CASE DeferredStop
  BY <1>10, StopTyped DEF DeferredStop, Predictor
<1>11. CASE StopOnSignal
  BY <1>11, StopTyped DEF StopOnSignal, Predictor
<1>12. CASE Notify \/ Setup \/ Answer
  BY <1>12 DEF Notify, Setup, Answer
<1>13. CASE Interrupt
  <2>1. exit'.by = exit.by \/ exit'.by = "signal"
    BY <1>13 DEF Interrupt
  <2> QED
    BY <1>13, <2>1 DEF Interrupt
<1>14. CASE ContainerEnds
  BY <1>14 DEF ContainerEnds, Serving
<1> QED
  BY <1>1, <1>2, <1>3, <1>4, <1>5, <1>6, <1>7, <1>8, <1>9, <1>10, <1>11, <1>12, <1>13,
     <1>14, <1>15
  DEF Next, Main, Reads

-----------------------------------------------------------------------------
(* What is sent and what is written                                        *)

Arrived(json, list, type, vals, sent) ==
    /\ Len(sent.vals) = Len(vals)
    /\ \A i \in 1 .. Len(vals) :
          sent.vals[i] = IF vals[i].at /\ ~(json /\ list)
                         THEN Data(vals[i].v) ELSE vals[i]
    /\ IF json THEN sent.list = list
       ELSE /\ Len(vals) > 1 => sent.list
            /\ type = "array" => sent.list \/ \E i \in 1 .. Len(vals) : vals[i].at

\* NewInputs and ToMap send as many values as were given, those without "@" as they
\* are and the others as the contents of a file.
LEMMA FlagsArrive ==
    ASSUME NEW g \in Given
    PROVE  Arrived(FALSE, FALSE, g.type, g.vals, ToMap(NewInputs(g.type, g.vals)))
<1> DEFINE vals == g.vals
           type == g.type
           elements == [i \in 1 .. Len(vals) |-> Element(vals[i])]
           sent == ToMap(NewInputs(type, vals))
<1>1. vals \in Seq(Values) /\ vals # <<>>
  BY LocalPredictAssumption
<1> HIDE DEF vals, type
<1>2. Len(vals) \in Nat /\ Len(vals) > 0 /\ 1 \in 1 .. Len(vals)
  BY <1>1
<1>3. sent.list = (Len(vals) > 1 \/ (type = "array" /\ ~vals[1].at))
  BY DEF ToMap, NewInputs
<1>4. /\ Len(sent.vals) = Len(vals)
      /\ \A i \in 1 .. Len(vals) :
            sent.vals[i] = IF vals[i].at THEN Data(vals[i].v) ELSE vals[i]
  <2>1. CASE sent.vals = elements
    BY <1>2, <2>1 DEF Element
  <2>2. CASE sent.vals = vals /\ sent.vals # elements
    <3>1. ~(Len(vals) > 1) /\ ~vals[1].at
      BY <2>2 DEF ToMap, NewInputs
    <3> QED
      BY <1>2, <2>2, <3>1
  <2> QED
    BY <2>1, <2>2 DEF ToMap, NewInputs
<1> HIDE DEF sent
<1>5. Arrived(FALSE, FALSE, type, vals, sent)
  BY <1>2, <1>3, <1>4 DEF Arrived
<1> QED
  BY <1>5 DEF vals, type, sent

\* A value of --json that is no list is the contents of a file or as it is; a list is
\* as it is.
LEMMA JSONArrives ==
    ASSUME NEW g \in Given, NEW list \in BOOLEAN, Len(g.vals) = 1 \/ list
    PROVE  Arrived(TRUE, list, g.type, g.vals, ToMap(JSONInputs(list, g.vals)))
<1> DEFINE vals == g.vals
           sent == ToMap(JSONInputs(list, vals))
<1>0. Len(vals) = 1 \/ list
  OBVIOUS
<1>1. sent.list = list /\ sent.vals = IF list THEN vals ELSE <<Element(vals[1])>>
  BY DEF ToMap, JSONInputs
<1> HIDE DEF sent
<1>2. Len(sent.vals) = Len(vals)
  BY <1>1
<1>3. \A i \in 1 .. Len(vals) :
         sent.vals[i] = IF vals[i].at /\ ~list THEN Data(vals[i].v) ELSE vals[i]
  <2>1. CASE list
    BY <1>1, <2>1
  <2>2. CASE ~list
    <3>0. Len(vals) = 1
      BY <1>0, <2>2
    <3> HIDE DEF vals
    <3>1. \A i \in 1 .. Len(vals) : i = 1
      BY <3>0
    <3> QED
      BY <1>1, <2>2, <3>1 DEF Element
  <2> QED
    BY <2>1, <2>2
<1> HIDE DEF vals
<1>4. Arrived(TRUE, list, g.type, vals, sent)
  BY <1>1, <1>2, <1>3 DEF Arrived
<1> QED
  BY <1>4 DEF vals, sent

LEMMA InputsStep == InputsArrive /\ [Next]_vars => InputsArrive'
<1> SUFFICES ASSUME InputsArrive, [Next]_vars PROVE InputsArrive'
  OBVIOUS
<1>1. CASE UNCHANGED input
  BY <1>1 DEF InputsArrive
<1>2. CASE PredictJSONInputs /\ input' # input
  <2>1. PICK list \in BOOLEAN, disk \in BOOLEAN, g \in Given :
           /\ Len(g.vals) = 1 \/ list
           /\ input' = [json |-> TRUE, list |-> list, disk |-> disk, type |-> g.type,
                        vals |-> g.vals, sent |-> ToMap(JSONInputs(list, g.vals))]
    BY <1>2 DEF PredictJSONInputs, Send
  <2>2. /\ input'.json = TRUE /\ input'.list = list /\ input'.type = g.type
        /\ input'.vals = g.vals /\ input'.sent = ToMap(JSONInputs(list, g.vals))
    BY <2>1
  <2>3. Arrived(TRUE, list, g.type, g.vals, ToMap(JSONInputs(list, g.vals)))
    BY <2>1, JSONArrives
  <2> QED
    BY <2>2, <2>3 DEF InputsArrive, Arrived
<1>3. CASE PredictIndividualInputs /\ input' # input
  <2>1. PICK g \in Given :
           input' = [json |-> FALSE, list |-> FALSE, disk |-> FALSE, type |-> g.type,
                     vals |-> g.vals, sent |-> ToMap(NewInputs(g.type, g.vals))]
    BY <1>3 DEF PredictIndividualInputs, Send, result
  <2>2. /\ input'.json = FALSE /\ input'.list = FALSE /\ input'.type = g.type
        /\ input'.vals = g.vals /\ input'.sent = ToMap(NewInputs(g.type, g.vals))
    BY <2>1
  <2>3. Arrived(FALSE, FALSE, g.type, g.vals, ToMap(NewInputs(g.type, g.vals)))
    BY FlagsArrive
  <2> QED
    BY <2>2, <2>3 DEF InputsArrive, Arrived
<1>4. PredictJSONInputs \/ PredictIndividualInputs \/ UNCHANGED input
  BY DEF Next, Main, BuildImage, PullImage, NewPredictor, RunOptions, CreateContainer,
     StartContainer, DockerRun, KnowContainer, Retry, GetPort, WaitForContainerReady,
     StartFailed, WaitForExit, ChooseInputs, ReadStdin, EnsureOutputWriteable,
     PostPrediction, Predict, GetSchema, ProcessFileOutputs, Present, DeferredStop, Notify,
     StopOnSignal, Interrupt, Setup, Answer, ContainerEnds, GoOn, GiveUp, result, vars
<1> QED
  BY <1>1, <1>2, <1>3, <1>4

OutcomeInv == FilesWritten /\ AllWritten /\ ZeroMeansDelivered

\* Once the command has its exit code, the answer and the files are final.
LEMMA OutcomeFinal ==
    ASSUME OutcomeInv, exit # NotYet, [Next]_vars
    PROVE  OutcomeInv'
<1>1. DeferredStop \/ Notify \/ StopOnSignal \/ Interrupt \/ UNCHANGED vars
  BY DEF Next, Main, BuildImage, PullImage, NewPredictor, RunOptions, CreateContainer,
     StartContainer, DockerRun, KnowContainer, Retry, GetPort, WaitForContainerReady,
     StartFailed, WaitForExit, ChooseInputs, ReadStdin, PredictJSONInputs,
     PredictIndividualInputs, EnsureOutputWriteable, PostPrediction, Predict, GetSchema,
     ProcessFileOutputs, Present, Setup, Answer, ContainerEnds, Serving, GoOn, GiveUp, At
<1>2. UNCHANGED <<opt, input, resp, out>> /\ (exit' = exit \/ exit'.code = "killed")
  BY <1>1 DEF DeferredStop, Notify, StopOnSignal, Interrupt, result, vars
<1>3. exit' # NotYet
  BY <1>2 DEF NotYet
<1> QED
  BY <1>2, <1>3
  DEF OutcomeInv, FilesWritten, AllWritten, ZeroMeansDelivered, Overwritten, Predicts

\* Before that, only three steps concern it.
LEMMA OutcomeElsewhere ==
    ASSUME OutcomeInv, exit = NotYet, [Next]_vars,
           ~ProcessFileOutputs, ~Present, ~Answer
    PROVE  OutcomeInv'
<1> USE DEF At, Goto, Return, NotYet, docker, result
<1>1. UNCHANGED <<opt, resp, out>>
  BY ReadsKeep DEF Reads, Next, Main, BuildImage, PullImage, NewPredictor, RunOptions, CreateContainer,
     StartContainer, DockerRun, KnowContainer, Retry, GetPort, WaitForContainerReady,
     StartFailed, WaitForExit, EnsureOutputWriteable, PostPrediction, Predict,
     GetSchema, DeferredStop, Notify, StopOnSignal, Interrupt,
     Setup, ContainerEnds, GoOn, GiveUp, vars
<1>2. exit'.code # "zero" \/ ~Predicts
  BY ReadsKeep DEF Reads, Next, Main, BuildImage, PullImage, NewPredictor, RunOptions, CreateContainer,
     StartContainer, DockerRun, KnowContainer, Retry, GetPort, WaitForContainerReady,
     StartFailed, WaitForExit, EnsureOutputWriteable, PostPrediction, Predict,
     GetSchema, DeferredStop, Notify, StopOnSignal, Interrupt,
     Setup, ContainerEnds, GoOn, GiveUp, vars
<1>3. pc' = "present" => pc = "present" \/ resp.status # "succeeded"
  BY ReadsKeep DEF Reads, Next, Main, BuildImage, PullImage, NewPredictor, RunOptions, CreateContainer,
     StartContainer, DockerRun, KnowContainer, Retry, GetPort, WaitForContainerReady,
     StartFailed, WaitForExit, EnsureOutputWriteable, PostPrediction, Predict,
     GetSchema, DeferredStop, Notify, StopOnSignal, Interrupt,
     Setup, ContainerEnds, GoOn, GiveUp, AfterNoDriver, vars
<1> QED
  BY <1>1, <1>2, <1>3
  DEF OutcomeInv, FilesWritten, AllWritten, ZeroMeansDelivered, Predicts

LEMMA OneMoreWritten ==
    ASSUME out \in Written, out.files = 0 .. (out.items - 1)
    PROVE  out.files \cup {ItemDestination(out.items)} = 0 .. ((out.items + 1) - 1)
  BY DEF Written, ItemDestination

LEMMA CountWritten ==
    ASSUME NEW n \in Nat PROVE Cardinality(0 .. (n - 1)) = n
<1>1. n - 1 \in Int
  OBVIOUS
<1>2. Cardinality(0 .. (n - 1)) = IF 0 > n - 1 THEN 0 ELSE (n - 1) - 0 + 1
  BY <1>1, FS_Interval
<1> QED
  BY <1>2

LEMMA OutputsTyped == Outputs \subseteq Nat
  BY LocalPredictAssumption

LEMMA OutcomeStep == TypeOK /\ OutcomeInv /\ [Next]_vars => OutcomeInv'
<1> SUFFICES ASSUME TypeOK, OutcomeInv, exit = NotYet, [Next]_vars PROVE OutcomeInv'
  BY OutcomeFinal
<1> USE DEF OutcomeInv, FilesWritten, AllWritten, ZeroMeansDelivered, At, Goto
<1>1. CASE Answer
  BY <1>1 DEF Answer, Serving, NotYet
<1>2. CASE ProcessFileOutputs
  <2>1. CASE /\ out' = [out EXCEPT !.items = @ + 1,
                                   !.files = @ \cup {ItemDestination(out.items)}]
             /\ UNCHANGED <<pc, exit>>
    <3>1. pc' = pc /\ exit' = exit /\ pc = "write"
      BY <1>2, <2>1 DEF ProcessFileOutputs
    <3>2. /\ out'.files = out.files \cup {ItemDestination(out.items)}
          /\ out'.items = out.items + 1
      BY <2>1 DEF TypeOK, Written
    <3>3. out'.files = 0 .. (out'.items - 1)
      BY <3>2, OneMoreWritten DEF TypeOK
    <3> QED
      BY <3>1, <3>3 DEF NotYet
  <2>2. CASE UNCHANGED out
    <3>1. /\ UNCHANGED resp
          /\ exit' = exit \/ exit'.code = "error"
          /\ pc' = "present" => out.items = resp.files
      BY <1>2, <2>2 DEF ProcessFileOutputs, Return
    <3> QED
      BY <2>2, <3>1 DEF NotYet
  <2> QED
    BY <1>2, <2>1, <2>2 DEF ProcessFileOutputs
<1>3. CASE Present
  <2>1. exit' # NotYet /\ UNCHANGED <<opt, resp, input>> /\ pc = "present"
    BY <1>3 DEF Present, Return, NotYet
  <2>2. ASSUME exit'.code = "zero"
        PROVE  /\ resp.status = "succeeded"
               /\ resp.text => out'.printed
               /\ out'.files = out.files \/ out'.files = out.files \ Overwritten
    <3>1. /\ [out EXCEPT !.printed = TRUE, !.files = @ \ Overwritten].printed = TRUE
          /\ [out EXCEPT !.printed = TRUE, !.files = @ \ Overwritten].files
                 = out.files \ Overwritten
          /\ [out EXCEPT !.printed = resp.text].printed = resp.text
          /\ [out EXCEPT !.printed = resp.text].files = out.files
      BY DEF TypeOK, Written
    <3>2. /\ resp.status = "succeeded"
          /\ \/ out' = [out EXCEPT !.printed = TRUE, !.files = @ \ Overwritten]
             \/ out' = [out EXCEPT !.printed = resp.text]
      BY <1>3, <2>2 DEF Present, Return
    <3> QED
      BY <3>1, <3>2
  <2>3. ASSUME exit'.code = "zero", Overwritten = {}
        PROVE  Cardinality(out'.files) = resp.files
    <3>1. out'.files = 0 .. (resp.files - 1)
      BY <2>1, <2>2, <2>3
    <3>2. resp.files \in Nat
      <4>1. resp \in Answers
        BY DEF TypeOK
      <4>2. resp.files \in Outputs \cup {0}
        BY <4>1 DEF Answers
      <4>3. 0 \in Nat
        OBVIOUS
      <4> QED
        BY <4>2, <4>3, OutputsTyped
    <3> QED
      BY <3>1, <3>2, CountWritten
  <2> QED
    BY <2>1, <2>2, <2>3 DEF Overwritten
<1> QED
  BY <1>1, <1>2, <1>3, OutcomeElsewhere

-----------------------------------------------------------------------------
(* Theorems                                                                *)

LEMMA PairTyped ==
    ASSUME NEW S, NEW a \in S, NEW b \in S PROVE <<a, b>> \in [1 .. 2 -> S]
<1>1. <<a, b>> \in Seq(S) /\ Len(<<a, b>>) = 2
  OBVIOUS
<1> QED
  BY <1>1, LenProperties

LEMMA InitIInv == Init => IInv
<1> SUFFICES ASSUME Init PROVE IInv
  OBVIOUS
<1>0. id = <<FALSE, FALSE>> /\ cont = <<"none", "none">> /\ cur = 1
  BY DEF Init
<1>1. TypeOK
  <2>1. /\ id \in [1 .. 2 -> BOOLEAN]
        /\ cont \in [1 .. 2 -> {"none", "created", "running", "gone"}]
    BY <1>0, PairTyped
  <2>2. resp \in Answers
    BY DEF Init, Answers, NoAnswer
  <2>3. out \in Written
    BY DEF Init, Written, NoOut
  <2>4. opt \in Options /\ pc \in PC /\ lost \in BOOLEAN
    BY DEF Init, PC, Before
  <2>5. cur \in 1 .. 2
    BY <1>0
  <2> QED
    BY <2>1, <2>2, <2>3, <2>4, <2>5 DEF TypeOK
<1>2. ContainerInv
  <2>1. \A p \in 1 .. 2 : cont[p] = "none"
    BY <1>0
  <2>2. pc = "image" /\ cur = 1 /\ exit = NotYet /\ exit.by = "none"
    BY DEF Init, NotYet
  <2> QED
    BY <2>1, <2>2
    DEF ContainerInv, OthersStopped, NoneBefore, Known, Deferred, NothingLeftRunning,
        Connected
<1>3. OutcomeInv /\ InputsArrive
  <2>1. /\ pc = "image" /\ exit.code = "none" /\ input = NoInput
        /\ out.files = {} /\ out.items = 0
    BY DEF Init, NotYet, NoOut
  <2>2. {} = 0 .. (0 - 1)
    OBVIOUS
  <2> QED
    BY <2>1, <2>2 DEF OutcomeInv, FilesWritten, AllWritten, ZeroMeansDelivered, InputsArrive
<1> QED
  BY <1>1, <1>2, <1>3 DEF IInv, ContainerInv, OutcomeInv

\* Of every command: which containers may run and which the command knows, that its
\* files are written one by one, and the three invariants below.
THEOREM LocalPredictInv == Spec => []IInv
<1>1. IInv /\ [Next]_vars => IInv'
  BY TypeStep, ContainerStep, OutcomeStep, InputsStep DEF IInv, ContainerInv, OutcomeInv
<1> QED
  BY <1>1, InitIInv, PTL DEF Spec

\* A command that returns after its server was ready leaves no container of either
\* predictor running: the deferred stop of predict.go always knows the container that
\* runs, and the predictor that a retry replaced never had one.
THEOREM LocalPredictNothingLeftRunning == Spec => []NothingLeftRunning
<1>1. IInv => NothingLeftRunning
  BY DEF IInv
<1> QED
  BY <1>1, LocalPredictInv, PTL

\* With exit code 0 as many files are on the disk as the prediction returned, however
\* many these are.
THEOREM LocalPredictZeroMeansDelivered == Spec => []ZeroMeansDelivered
<1>1. IInv => ZeroMeansDelivered
  BY DEF IInv
<1> QED
  BY <1>1, LocalPredictInv, PTL

\* Every value that was given for an input is sent, in its place, for lists of values of
\* any length; only the "@" in a list of --json stays what it is, and only a single file
\* given by a flag for a list is sent without one.
THEOREM LocalPredictInputsArrive == Spec => []InputsArrive
<1>1. IInv => InputsArrive
  BY DEF IInv
<1> QED
  BY <1>1, LocalPredictInv, PTL
=============================================================================
