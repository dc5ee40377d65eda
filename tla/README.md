# Cog, verified

TLA+ models of Cog, the tool that packages machine learning models in containers and serves them. The
project follows the source tree: `src/python/cog` is the HTTP server that runs inside a container,
`src/pkg` is the `cog` command line tool, `src/tools` holds two helper programs. Everything below is
translated from the source; where a document or a test disagrees with it, the source wins and the
disagreement is a run of its own.

## 1. Inventory

### 1.1 The server in the container (`src/python/cog/server`)

**Worker** (`worker.py`, `connection.py`, `eventtypes.py`). Three processes' worth of concurrency in one
class: `Worker` in the HTTP server, a child process `_ChildWorker` that runs the user's model, and a pipe.
*State*: the worker's state (`NEW`, `STARTING`, `READY`, `DEFUNCT`), the dictionary of predictions in flight
(tag to future), `_terminating`, the setup future, the subscribers; in the child, the phase of the process,
one running prediction (synchronous) or a task per tag (asynchronous), `_cancelable`.
*Operations*: `setup`, `predict`, `cancel`, `shutdown`, `terminate`, `subscribe`; the start-pool thread of a
call downloads its input files and sends them; the event consumer thread reads the pipe, publishes events,
completes predictions and notices the death of the child; the child's loops read messages.
*Hard*: events are matched to calls by tag alone; two kinds of threads complete predictions; the signal that
cancels carries no tag and can be handled at any instruction; the child may die with events still in the pipe.
*Correct when*: every accepted call is resolved once, with the outcome its subscribers were told and the
outcome the user's code had; no call is canceled for another; no more calls run than allowed; the consumer
thread survives and ends.

**Prediction runner and tasks** (`runner.py`). `PredictionRunner` keeps a task per prediction id and decides
whether the server is busy; `PredictTask` folds the worker's events into the response and sends webhooks;
`SetupTask` does the same for setup. *State*: `_predict_tasks`, each task's future, status, outputs, logs.
*Interaction*: tasks subscribe to the worker's events and their callbacks run in the worker's threads, while
requests come from the event loop of the HTTP server. *Hard*: callbacks of a resolved future run after the
slot has been given away; ids are chosen by clients and may repeat. *Correct when*: a response is terminal
when the request is answered, a terminal status is final, a task is found under its id while it runs, the
completed webhook is sent once.

**HTTP server** (`http.py`, `probes.py`). Idempotent creation, cancel, the health state machine
(`STARTING`, `READY`, `BUSY`, `SETUP_FAILED`, `DEFUNCT`), shutdown. *Hard*: `READY` is cached from the end of
setup on; the server stops in three stages. *Correct when*: the health follows the worker's state, one
prediction is created per id, and the process ends.

**Webhooks** (`webhook.py`, `response_throttler.py`). Filter, throttle, retry. *Correct when*: terminal
updates are never throttled and intermediate ones never delay for retries.

**Stream redirection** (`helpers.py`, `scope.py`). Reader threads per redirected stream, drain tokens,
partial lines. *Correct when*: a drain returns only after everything written before it has been delivered, in
order and once.

**Predictor loading, types, files, schema** (`src/python/cog/*.py`, `telemetry.py`). Reflection over user
code, conversions. Mostly sequential.

### 1.2 The command line tool (`src/pkg`) and tools

**Configuration** (`config`). *State*: the directory searched, `cog.yaml` as read, the completed configuration,
the list of validation errors. *Operations*: find, load, validate, complete CUDA, CuDNN and package versions from
three embedded tables. *Hard*: three tables that are kept by different scripts have to agree; a value the user
gives is combined with values that are derived. *Correct when*: what is chosen fits each other and an image.

**Dockerfile generators** (`dockerfile`). A standard generator with three kinds of base image, a fast generator, a
generator of base images. *Hard*: what one base image brings another lacks, and the registry decides late which
one is used. *Correct when*: the image has what the configuration asks for, on every base.

**Image build** (`image`, `cli/build.go`). A sequence of effects on the directory and on Docker. *State*:
`.dockerignore` and its backup, `.cog/` (schema, weights manifest, temporary directories, requirements of
pipelines), images with their labels. *Hard*: any step may fail or be the last one before a kill, and the next
build starts from what is left. *Correct when*: the user's files survive, and nothing stale gets into an image.

**Weights** (`weights`). Which files are weights; a manifest of digests that tells whether the weights image of an
earlier build may be used again.

**Fast push** (`docker/fast_push.go`, `monobeam`, `web`, `dockerfile/fast_generator.go`). *State*: the layers kept
under `.cog`, the tarballs, a goroutine per upload and per challenge. *Hard*: the user edits files meanwhile; the
goroutines end in any order; verification is polled and may never come. *Correct when*: a posted version consists
of what its image was built from, and the server has all of it.

**Push and pull** (`docker/push.go`, `docker/pipeline_push.go`, `api`, `cli/pull.go`). A source is packed, uploaded
as a version and released; a pull looks a version up and writes its files. *Hard*: several processes share a
model; answers get lost. *Correct when*: a push releases its own source and a pull writes one version.

**Local prediction** (`predict`, `cli/predict.go`, `train.go`, `run.go`, `serve.go`) and **Docker drivers**
(`docker`). A container is started, polled, sent one prediction and stopped, with a retry without GPUs, while a
goroutine waits for SIGINT. *Correct when*: nothing is left running, exit code 0 means success, inputs arrive.

**Migration and validation** (`migrate`, `procedure`, `requirements`). Three files are rewritten one after the
other, after questions. *Hard*: each write truncates first. *Correct when*: the packages survive.

**S3 uploader** (`src/tools/uploader`). Parts in parallel from pooled buffers, abort on failure. *Correct when*: to
its caller it is one atomic put, and no multipart upload stays open.

**Registry client** (`registry`), **utilities** (`util`), **compatibility and registry tools** (`src/tools`):
requests, helpers and generators of tables; see section 6.

The hazards of all of these, each at its line and with the properties that would show it, are in `PROJECT.json`.

## 2. Modules

| module | role |
| --- | --- |
| `Worker` | the worker: callers, start-pool threads, consumer thread, child, pipe |
| `PredictionService` | what the worker promises; implemented by `Worker` |
| `MCWorker` | small instances of `Worker` |
| `WorkerInvariant`, `WorkerProofs` | its inductive invariants; the proofs of its types, its safety, its outcomes, and that it implements `PredictionService` |
| `PredictionRunner`, `MCRunner`, `RunnerProofs` | the HTTP endpoints, the runner, its tasks and their webhooks, above a worker that does what `PredictionService` says; and the proofs |
| `CogCommand` | what the models of the commands share: the step a command is at, and the steps that fail |
| `CogConfig` | `EXTENDS CogCommand`: `cog.yaml` is found, read, validated and completed |
| `Dockerfile`, `MCDockerfile` | `EXTENDS CogConfig`: the generators, and an excerpt of the embedded tables |
| `DockerfileInvariant` | the inductive invariant of both |
| `Weights` | which files are weights (operators only) |
| `ImageBuild`, `MCImageBuild` | `EXTENDS Weights, CogCommand`: `cog build`, `base-image build`, the validation of pipelines |
| `BuildProofs` | the proofs about `CogConfig` and `Dockerfile` (specification `Spec`), then those about `ImageBuild` (`BuildSpec`) |
| `FastGenerator` | `cog build --x-fast`: the layers kept under `.cog`, and the user who edits the project |
| `FastPush`, `MCFastPush`, `FastPushProofs` | `EXTENDS FastGenerator`: the uploads, challenges and the version after that build; and the proofs of both |
| `Pipeline`, `MCPipeline`, `PipelineProofs` | `cog push` and `cog pull` by several processes, and the proofs |
| `ObjectPut` | what the caller of an upload to S3 relies on |
| `Multipart`, `MCMultipart`, `MultipartProofs` | the S3 uploader, which implements `ObjectPut`, and the proofs |
| `LocalPredict`, `MCLocalPredict`, `LocalPredictProofs` | `cog predict`, `train`, `run`, `serve` and both Docker drivers, and the proofs |
| `Migrate`, `MCMigrate`, `MigrateProofs` | `cog migrate`, and the proofs |

### 2.1 How `Worker` corresponds to the code

| variable | code |
| --- | --- |
| `state`, `terminating`, `sentShutdown` | `Worker._state`, `_terminating`, `_sent_shutdown_event` |
| `setupResult` | `_setup_result` |
| `inFlight`, `cancelSent` | `_predictions_in_flight`, `PredictionState.cancel_sent` |
| `future` | the future that `predict` returned; `"fatal"` is `FatalWorkerException` |
| `seen` | the `Done` that the subscribers of the call were given |
| `starter`, `consumer` | program counters of the start-pool threads and of `_consume_events` |
| `popped`, `held` | local variables `predict_state` of `_complete_prediction` and `ev` of the consumer |
| `toChild`, `toParent` | the two directions of the pipe |
| `child`, `task` | program counters of the child and of each prediction in it |
| `verdict`, `outputs` | how the user's predict ended, how many outputs it yielded |
| `sigPending` | a SIGUSR1 that has been sent and not handled |

What is one step: whatever the code does under `_predictions_lock`; one message sent or received; one check of
`is_alive`; the pop and the `set_result` of `_complete_prediction` are two steps, as are the publishing of a
download error and the pop that follows. In the synchronous child the instructions between the setting of
`_cancelable` and the `try` (`"entering"`), inside the `try` (`"body"`), between its end and the clearing of
`_cancelable` (`"leaving"`), and after it (`"draining"`) are told apart, because SIGUSR1 does something else in
each. In the asynchronous child a task that has been created and has not run (`"created"`) is told apart from
one that runs.

A call is identified by a model value; messages carry its tag, which is all the code looks at. The field `of`
of a message, `verdict`, `outputs` and `seen` are history: no guard of the parent depends on them.

What is abstracted: payloads, logs and metrics (they change no state of the worker); large messages are whole;
a message to a dead child is accepted and lost (the parent holds a copy of the child's end); user code that
swallows `CancelationException` or `CancelledError` (it then simply continues); the redirected streams, whose
drain may time out, which kills the child (`ChildDies`).

### 2.2 The abstract service

`PredictionService` has four variables: the outcome of each call, the set of calls that hold a slot, the set
of calls somebody asked to cancel, and whether a prediction has made the process exit by `SystemExit`. A call is
accepted under the limit and with a fresh tag, releases its slot, then gets its outcome; a call is canceled only on
request or once the process exits; when the child is lost all holders fail together. `Worker!Service` maps the slots
to the calls that are in the dictionary under their tag, and the outcome to the future; `ImplementsService` is
checked with the asynchronous child, whose two slots make it the harder one.

### 2.3 How `PredictionRunner` corresponds to the code

| variable | code |
| --- | --- |
| `setup`, `setupStatus`, `setupFuture` | progress of `_consume_events_inner` and of the callbacks of setup; `SetupResult.status`; `_setup_result` |
| `health` | `app.state.health` (`BUSY` is computed from `Busy` when asked) |
| `lost`, `inFlight`, `future`, `sent`, `outputs`, `requested` | the worker as the runner sees it: the end of `_consume_events_inner`, `_predictions_in_flight`, the futures, inputs sent, `cancel_sent` |
| `at`, `on`, `event`, `todo` | what the consumer and the start-pool threads are doing: `_publish` with the subscribers it has yet to call, `_complete_prediction`, the callbacks |
| `tasks`, `subscribed`, `tracked`, `callbacks` | `_predict_tasks`, `Worker._subscribers`, `PredictTask._fut`, the callbacks a future holds |
| `status`, `fatalSeen`, `completed` | `PredictTask._p.status`, `_fatal_exception`, webhooks delivered with a terminal status |
| `loop`, `pc`, `answer` | the coroutine that the event loop runs, where each handler is, what it answered |
| `canceling` | the request whose task a cancel has found and has not yet asked the worker about |

A handler runs on the event loop without interruption by other handlers until it waits for its future; the threads of
the worker interleave with each of its steps. A cancel is two steps, `CancelLookup` under `_predict_tasks_lock`
(`runner.py:144-149`) and `WorkerCancel` under `_predictions_lock` (`worker.py:283-288`), between which the prediction
may end and give its slot away, but no other handler runs. (The endpoint that cancels a training never
awaits the coroutine it calls, `http.py:331`, so that it does nothing.) What the worker does is cut down to what
`PredictionService` promises and `WorkerProofs` proves: a Done is the last event of its call, an event belongs to the
call in flight under its tag, a future is resolved once and after its slot was given away, and when the child is lost
the calls in flight fail together, under `_predictions_lock`, which `predict` and `cancel` have to wait for. Three
shortcuts are sound because nothing can observe the difference: a task is entered and subscribed in one step; the
worker's state, the setup future and the first event of setup change in one step (before that, every request is
refused); a thread that is sent back to the pool forgets its call. The start pool may run waiting calls in any order.

`_handle_done` and the callback of `_task_done_callback` and `_handle_predict_done` are one step each, although
they send webhooks: nobody else writes what they write, except another task's events, which subscribers of the
same id get too. Not modelled here: shutdown (see `Worker`), the callback that removes input files, and the
cancelation of a waiting handler when the server is forced to exit.

### 2.4 How `CogConfig` and `Dockerfile` correspond to the code

| variable | code |
| --- | --- |
| `dir`, `yaml` | the directory that `findProjectRootDir` looks at; the parsed file |
| `config`, `errs` | `Config` while `ValidateAndComplete` fills it in, and its list of errors |
| `command`, `useCog`, `useCuda`, `request` | which generator runs, the flags, the base image that `base-image` is to make |
| `parts`, `dockerfile` | what the generator's methods return, and the instructions in their order |

A version is a sequence of numbers compared as `pkg/util/version` compares it (a patch counts only where both have
one). The rows of the tables are records; `plus` says that the release is written with `+`, which `GreaterOrEqual`
notices when the numbers are equal (`SinceMinTorch`); `MCDockerfile` takes those rows that are special, that of the
first supported PyTorch, 1.13.1, included. A line of `torch` without a version has the empty one: in a model for GPUs
`PanicOnVersion` ends the command there. A line of requirements keeps what the code looks at: operator, version,
`+cu`, and whether it names an index. What only changes the wording of an instruction is left out, the order of
instructions is not. `Compatible` is written once and used, as in the code, for choosing a base image and for
publishing one. The answer of the registry is a choice.

### 2.5 How `Weights` and `ImageBuild` correspond to the code

Files and images are variables of their own (`ignoreFile` is `.dockerignore`, `backup` is `.dockerignore.cog.bak`,
`schemaFile`, `manifestFile`, `tmpDirs`, `reqFiles` are under `.cog`); `pc` is the next effect of `Build` or
`BuildBase`, `local` holds what the function has computed. Every action may end in a failure, in the order and with
the clean-up of the code (the deferred `Cleanup` of the generator, `restoreDockerignore` where it is called and not
where it is not), and `Kill` may end a build between two actions. `userIgnore`, `startIgnore`, `built` and `leaked`
are history. `.dockerignore` is written in two steps, as `os.WriteFile` does (`build.go:508`): `WeightsIgnore` and
`RunnerIgnore` leave any part of the lines there, a line that is cut counting as missing, and the build may fail or be
killed before the rest is written. The history variable `cut` says that such a file is there (`"cut"`) and that a
later build has renamed it over the backup (`"saved"`). `FindWeights` does not look for code below a `.git` directory
(`weights.go:103`), but copies what is there with the directory of weights around it: `NoCodeInWeights` says so, after
the attempt to prove it without that exception failed.

### 2.6 How `FastGenerator` and `FastPush` correspond to the code

`cache` is what `.cog/tmp` keeps between builds, `tarballs` what `.cog/tarballs` does; `cfg` is the configuration that
the process read at its start, `project` what is on the disk now. A hard link to a file is told apart from a file
(`Linked`): writing in place changes both, replacing does not. `ups` and `chal` have the program counter of each
goroutine; the main goroutine waits for them as `errgroup` does, with the early returns of `FastPush`. `server` has
the digests that were verified; `posted` the version. The content of a file stands for its digest, size and time.
`hung` has the goroutines that wait for an answer that never comes (`NeverAnswered`): the client has no timeout
(`http/client.go:21`) and nothing cancels the context of the command.

### 2.7 How `Pipeline` corresponds to the code

`versions`, `latest` and `images` are the server's; `dir`, `cmd` and `pc` are the directory, the local variables and
the place of each process. A request that changes something is two outcomes when it fails: the server has not seen it,
or the answer is lost. Writing the files of a pull is one action per file; `Hidden` are the files whose name begins
with `._`, which `createTarball` packs and `extractTarFile` passes over (`pull.go:50-52`).

### 2.8 How `Multipart` corresponds to the code

`pc` is where `UploadObject` is; `part`, `tries` and `bufOf` are the goroutine of each part, `data` is what a buffer
of the pool holds, `egDone` says that the context of the group is cancelled; `mpu`, `stored` and `object` are at the
server. `MaxPartUploads` and `MaxPartUploadRetries` are what `NewS3Uploader` leaves in them: the second assignment of
`s3.go:72` goes to the wrong variable, so that there is no retry. A writer may change the file at any time, its size
too. `Multipart!Put` maps the object, the answer and the file to `ObjectPut`.

### 2.9 How `LocalPredict` corresponds to the code

`pc` is the main goroutine, from the image to the exit; `cur` is the predictor, which is replaced when a container
with GPUs cannot be started; `gpus`, `id` and `cont` are per predictor; `sig` is the goroutine that waits for SIGINT;
`health` is what the server in the container answers. `opt.driver` chooses between the SDK, which creates and starts
in two requests, and the command line, which does so in one and tells the id otherwise. `input`, `resp` and `out`
carry the value that was given and sent, the response, and the names of the files written. Inputs come from flags
(`PredictIndividualInputs`) or from `--json`, as text, from a file or from stdin (`ReadStdin`, `PredictJSONInputs`),
where "@" is looked for in values that are strings and not in lists (`predict.go:137`). The server's two steps are
those of `http.py`: its health as `healthcheck` tells it, and what `_predict` answers, which is any answer.

### 2.10 How `Migrate` corresponds to the code

`yaml`, `reqs` and `code` are the files, each `Truncated` between the two steps of a write; `cmd` is the configuration in
memory, the predictor under way and the file of requirements it chose; `before`, `wanted` and `accepted` are history.
A question is answered by a choice, or not asked with `--y`. `Output` is what `command/migrate_v1_v1fast.py` prints for a
predictor.

## 3. Runs

| run | question | bounds |
| --- | --- | --- |
| `worker_sync` | does every event, future and outcome of the synchronous worker belong to its call, and is every call resolved? | 2 calls with one tag, 1 output each, child killed, setup and downloads fail, shutdown and terminate |
| `worker_async` | are outcomes true with two slots, and is `PredictionService` implemented? | 3 calls, two of which share a tag, child killed or ended by `SystemExit`, downloads fail, shutdown |
| `runner` | do tasks, futures, webhooks and health agree, and is every request served? | 2 requests with ids of their own, one waits for its answer, 1 slot, child killed, downloads fail |
| `runner_same_id` | what holds when ids repeat? | a PUT and a waiting POST with the same id, 2 slots, 1 output, all failures |
| `config` | do the chosen versions fit, and does the image have what is asked? | every `cog.yaml` of 14 lists of packages with each choice of GPU, CUDA, CuDNN and Python, 16 others, 1 failure |
| `image_build` | what does a build leave for the next one? | 2 builds in 7 modes, 4 trees, 1 edit, 1 kill or lost image; any step may fail, every part of a write may be what is left |
| `fast_push` | is a posted version the one that was built, and stored? | 2 pushes, 2 files, 1 edit, 1 failure, kill or request that is never answered, 1 poll |
| `pipeline` | do concurrent pushes and pulls keep versions whole? | 2 processes, 3 commands, 4 files of which one is ignored and one hidden, 1 failure or lost answer, 1 edit |
| `multipart` | is an upload one atomic put that ends? | 3 or 4 parts, 4 buffers, 2 failures or lost answers, 1 write to the file |
| `predict` | what is left running, what does exit code 0 mean, what is sent, does SIGINT end it? | one command of every kind, both drivers, inputs by flags, `--json` and stdin, 2 failures, up to 2 output files |
| `migrate` | do the user's packages survive? | 2 runs, 2 packages, 2 predictors in a file, 1 failure or kill, 1 edit |
| `declined_run` | does a run that nothing went wrong with leave a `cog.yaml`? | as `migrate` |

Each is a question of its own; the first eleven pass. `declined_run` is expected to fail: the message at
`migrator_v1_v1fast.go:171` says that a user who declines goes on without the removal; but when one of the commands is
a string, the merge fails after `cog.yaml` was truncated (`migrator_v1_v1fast.go:237`), and it stays empty.
`PROJECT.json` tells the story. Deadlock is not checked: every one of these programs may stop, because its command has
ended, the worker was shut down or no request comes.

*Why the bounds are enough.* Two calls of one tag are the smallest instance in which a tag is reused while old events
are under way; three calls with two slots add a call that runs beside the reuse. One output per call is enough for an
event that is not the last. For `PredictionRunner` two requests are enough for every race in it, which is between a
request and the one that ran before it under the same id or in the same slot; with one slot the second request of
`runner` enters exactly when the first has given its slot away and its callbacks are still running. `StatusAgrees` and
`TerminalIsFinal` speak of ids used once and are not checked with failing uploads or webhooks: a failed upload makes a
task `failed` and the Done that follows makes it `succeeded` again.

What a build leaves is used by the next one only, so two builds with one kill, and an edit in between, meet every
pair of what was left and what it is used for; the same holds for two pushes and two migrations. Two pushes and a
pull are the fewest commands in which a pull sees a version replaced under it. Four parts with three goroutines
are the fewest where a part waits for a buffer; two failures let a part fail and then the abort, and with a lost
answer the server may have done what the client believes failed. `MaxPolls` is 1 where the code has 100: the
polls differ in nothing. `MaxDepth` of directories above the working directory is 1.

*Fairness.* In `Worker`, threads keep running (`Starters`, `Consume`), the child's loop reads what is in the pipe, the
user's predict and setup return, a signal that was sent is handled; no caller has to call, nothing has to fail. That
an asynchronous prediction can be canceled before it has run is why `EveryCallResolves` is stated of the synchronous
child. In `PredictionRunner` the event loop, the consumer and the start-pool threads keep running and a prediction
ends. In `FastPush` (`WF_vars(Cog)`), `Multipart` (`WF_vars(Upload)`) and `LocalPredict` (`WF_vars(Main /\ ~Blocked)`,
`WF_vars(StopOnSignal)`) the goroutines of cog keep running, as the Go scheduler sees to; the user, the server's
verification and the model in the container are never fair. Of requests the three assume different things. In
`FastPush` any request of any goroutine may never be answered (`NeverAnswered`), since the client has no time limit,
and `PushEnds` says that every push ends or waits for nothing but such requests: no goroutine waits for another one
that will not come. In `Multipart` a request ends or fails, which is an assumption about the SDK and the network that
`s3.go` does not enforce. In `LocalPredict` the answer to the prediction may never come, the server that runs may
never tell its schema, and stdin may never end (`Blocked`). `SignalEndsIt` says that a signal ends the command in the
first two, because the container is stopped and the connection breaks; it does not in the third, where the container
is stopped and the command waits for stdin to end, as the property says. The abstract `ObjectPut` is fair about its
answer only.

## 4. Proofs

Everything below is checked by tlapm for all values of the constants that meet the named assumptions.

**Worker** (`WorkerProofs`): every set of calls, every finite set of tags, every limit, both kinds of
child, every choice of failures and stops. `WorkerAssumption` says, among others, that a synchronous model has
`MaxConcurrency = 1` (setup fails otherwise) and that `NoCall`, `NoTag` and `Consumer` are no calls or tags.
`WorkerTypeOK` is inductive together with `EndedTasks` (a prediction that is leaving its `try` has a verdict). None of
the safety properties is inductive. The argument of `WorkerInv` is that the work of an accepted call is one thing in
one place, and that the place can be named: its start-pool thread, the input in the pipe, a task of the child,
events in the pipe, the consumer that holds its Done, or a thread that has popped it. The conjuncts:

* `Queues`: events carry the tag of their call, none follows a Done, no input is sent twice;
* `Phases`: how far setup, consumer and child are relative to each other (the consumer fails calls only when the
  child is dead and the pipe is empty);
* `Owners`: an unresolved future is in the dictionary or with exactly one thread, and a fatal one means that the
  consumer has exited and the dictionary is empty;
* `Lifecycle`: a call that is worked on anywhere is in flight under its tag and its input has been sent, and the
  places exclude each other;
* `Reports`: what the subscribers have been told at each place.

There is a lemma per conjunct (`EventQueueStep`, `InputQueueStep`, `PhasesStep`, `OwnersStep`, `LifecycleStep`,
`ReportsStep`), with a step per action that touches it, and `LifecycleShrinks` and `ReportsShrink` for all the others.
From `WorkerInv` follow `EventsReachTheirCall`, `PendingHasOwner`, `FutureAgreesWithEvents` and the action property
`DoneSeenOnce`, and four that no run repeats: `ChildWorksForInFlight`, `ConsumerSurvives`, `FatalIsLast` and
`FutureIsFinal`. `WithinCapacity` is proved from the finiteness of the set of tags.

What the outcomes come from is a second invariant, `OInv`, which is inductive on top of `IInv`. A Cancel in the pipe
names a tag, and a signal names nothing: `CancelOrder` says that a call of that tag which is worked on, or whose input
is before the Cancel in the pipe, is one whose cancelation was requested, and `SignalOrder` says the same of the
prediction that a pending signal can meet. `Verdicts`, `Dones` and `Outcomes` carry the verdict of a task over the
event in the pipe, the consumer's hands and the subscribers to the future. `WorkerTruthfulOutcome` and
`WorkerCanceledOnRequest` follow. `WorkerImplementsService` maps the worker to `PredictionService` step by step:
`AcceptStep`, `RequestCancelStep`, `ReleaseStep`, `DeliverFailedStep`, `DeliverHeldStep`, `LoseStep` and `QuitStep`
show which action is which step of the service, every other one is a stutter, and `SlotsFit` that the slots are never
more than `MaxConcurrency`.

**PredictionRunner** (`RunnerProofs`): every set of requests, every assignment of ids to them, every concurrency,
every set of failures. `RunnerAssumption`: `NoRequest`, `SetupTask` and `Consumer` are no requests.
`FinishedIsForgotten` and the action property `CancelHitsTheTask` are proved for all of these from `RunnerInv`:
`CancelInv` says that between the two look-ups of a cancel the slot of the id is that of the call whose task was
found, or free, since only a handler could give it to another and the event loop is not free. `HandlerInv` says that
one handler runs at a time and that only a handler that has called `Worker.predict` has a future; `RemovalInv`, that
the callback which forgets a task is still to run or has run, with `WakeInv` for the handler that another callback
wakes; `EntryInv` and `SlotInv`, that between its entry and its registration nobody takes the place of a task, so that
a call in flight and a task with a future under the same id belong to one request. `ThreadInv` and `ConsumerInv` say
what the threads have in hand: the start pool is done with a call before the child answers it, so that no two threads
publish or resolve for one request (the lemma `OnePublisher`), and a thread that finds the slot of its call empty has
lost it to the death of the child (`HasSlot`). `StatusAgrees` and `TerminalIsFinal` are proved from `StatusInv` under
`NothingUnsent`, that `Faults` has neither `"upload"` nor `"hook"`, as in the run that checks them: with one of them
the code itself ends a task twice. The lemmas are one per action; those that run a callback share `CallbackInv` and
`StatusCallback`, whether a handler or a thread runs it.

**Migrate** (`MigrateProofs`): every set of packages, predictors and files, every number of runs, failures and edits.
`NoneAssumption` tells a missing file from a set of packages, `FilesAssumption` gives every predictor a file.
`PackagesSurvive` is not inductive, since it says nothing of a run that has moved packages in one file and not in the
other; `InMemory` says at each step of the command what of the user's packages is in memory, in which file the
rest is, and that nothing but the file under way is truncated. `Asked` ties what has changed on the disk to the
questions accepted. From `MigrateInv` follow `MigratePackagesSurvive` and `MigrateOnlyWhatWasAccepted`.

**Pipeline** (`PipelineProofs`): every set of processes, every number of commands. `PipelineAssumption`: the ignored
and the hidden files are files, and a missing file is no content. The invariant has a conjunct `Ok` per process: what
it knows is true of its directory and of a version in the sequence. It survives the others' steps because they only
append versions and never change one; `PipelinePull` and the action property `PipelinePush` follow.

**Multipart** (`MultipartProofs`): every set of sizes with a largest one, every number of buffers not below that of
goroutines, every number of failures. `AbsentAssumption`: an object is not the absence of one. The invariant says what
each part's goroutine holds (`Buffering`: a buffer that is being filled or sent belongs to one part and has that
part's chunk), what the server has (`Sending`), that an upload is completed only from all the parts (`Complete`), and who
still has to close it (`Closing`). From it: `NothingLeftOpen`; `BuffersHaveOneUser`, which no run repeats; and
`MultipartRefinesPut`, that every step of the uploader is a step of `ObjectPut` or a stutter.

**FastPush** (`FastPushProofs`): every set of files, directories and packages, every `cog.yaml`, every number of
edits, pushes, polls and failures. `FilesAssumption` and `PushAssumption` tell the values apart that stand for an
absent, torn or linked file. The invariant has a half for the build and one for the push. In the build,
`WeightsWritten`, `TarballReady` and `SourcesLinked` say up to which step the cache holds what this `cog.yaml` asks
for, whatever an earlier build left there. In the push, `WeightsPromised` and `TarsPromised` say which uploads have
been started for which digest by the step the main goroutine is at, `UploadsSettled` that none runs once they were
waited for, `DoneIsStored` what their end means, and `AllChallenged` that each has one challenge; at the post these
together give what the version holds. From `FastPushInv`: `ImageOfThisBuild`, `PostedIsStored`,
`PostedWeightsOfBuild`, `PostedTarsOfImage`.

**LocalPredict** (`LocalPredictProofs`): every set of options, inputs and outputs, every number of failures.
`LocalPredictAssumption`: the options have the values the flags can have, and an input given has a type and at least
one value. `NothingLeftRunning` needs that the predictor a retry replaced is stopped (`OthersStopped`), that no
container runs before one was asked for (`NoneBefore`), and that a deferred stop has an id to stop (`Known`,
`Deferred`). `ZeroMeansDelivered` needs `FilesWritten`: the files so far have the numbers 0 to `items - 1`, so that
there are as many of them as were returned (`Cardinality` of an interval). `InputsArrive` is inductive by itself; its
steps are the lemmas `FlagsArrive` and `JSONArrives`, that `NewInputs`, `JSONInputs` and `ToMap` lose and mix up no
value, read each file that is looked for and send a list as a list in all forms but those it names.

**CogConfig and Dockerfile** (first part of `BuildProofs`): every `cog.yaml`, every list of packages, all tables of
any length, every set of combinations that Monobase has, every answer of the registry, every number of failures. Three
assumptions are used. `TablesAssumption` says what the embedded files are: finite, with three numbers in a release and
in the CUDA version of an image and two in that of a PyTorch release; there is an image for the default CUDA version,
11.8; and a release of torchvision belongs to one of PyTorch, without which the code could install a torchvision made
for another PyTorch. `ConfigAssumption` gives the fields of a `cog.yaml` their types. `VersionsAssumption` says that
the first supported versions are versions and that of CUDA is 11 or later, since earlier ones are refused by
`ValidateCudaVersion` and a base image for one could not be made. (`PackageName` names three strings besides `STRING`
because the provers do not know that a literal is a member of it.)

None of the four invariants is inductive: each speaks of the end of a command and of what was decided several steps
before. `GenInv` (in `DockerfileInvariant`) says what is known at each step. `ReadFromYaml`: until CUDA is chosen the
configuration is that of the file. `CudaIsChosen` and `CudaIsKnown`: after that, a model which left the versions to
Cog, and names no `torch` without a version, has some for which there is an image; for the others the panic is a step
of its own (`PanicKeeps`). `BaseImageIsMade`: the configuration of `base-image` is the one made for the request, which
is among those published. `FromIsKnown`: the base image is Cog's exactly as long as `useCog` is not `"false"`, also
after the registry has said no and the generator has fallen back. `PartsAreMade`: each part is what its method returns
for this configuration and this base image, up to the step that the generator has reached; the other conjuncts say
which command is at which step and what errors it can have. There is a lemma per action (`CompleteKeeps`,
`BaseImageKeeps`, `PipKeeps`, ...).

Below that are lemmas about the operators. What the code finds with loops over the tables the model chooses, so the
proofs need that the choice exists and is what it says: a finite set with a total order has a greatest element
(`Greatest`, by well-foundedness of the subsets), hence `LatestIs`, `LatestRowIs`, `LatestCuDNNIs` and `FirstLineIs`;
that `Greater` is such an order is `VersionOrder`. `ChosenHasImage` goes through the ways in which CUDA and CuDNN are
chosen. `RequirementsCover` and `RequirementsFrom` say that the packages installed are those asked for and what they
come from; `OneCUDA` that of the rows of one release both packages take the same. `NameIsPublished` is that the
normalisation of a configuration (versions cut to major and minor, the patch of PyTorch taken from the table) ends in
a name that `BaseImageConfigurations` has. `InitialStepsAre` is the order of the instructions. From `GenInvariant`:
`PyTorchAlwaysCompletes`, `AlwaysOneCUDA`, `BaseImagesAlwaysExist`, `ImageAlwaysHasWhatIsAsked`.

**ImageBuild** (second part of `BuildProofs`): every set of models, patterns and calls, every number of builds, edits,
failures and kills. `BuildAssumption`: `None` is no set of patterns and no requirements file, and the files of a model
are paths. A failure is the same wherever it happens (`FailureKeepsInv`), so that the lemmas treat the steps that
succeed. `UserPatternsSurvive` is not inductive: between the rename and the restore the patterns may be in the backup
only. `PatternsKept` says that they are in `.dockerignore`, or in the backup if there is none; `BackupKept` that they
are in the backup from the rename to the restore; `StartKept` that the one which `Restore` puts back is the one from
the beginning. `PatternsKept` and `BackupKept` speak of the time before a half-written `.dockerignore` has been backed
up (`cut # "saved"`): until then what a broken write left is only ever in `.dockerignore`, with the backup beside it.
`CodeLayerHonoursIgnore` follows from `BackupKept`, `GeneratedForRunner`, `WeightsOfTree` and the lemma
`WeightsAreIgnored`: each selected weight is under a pattern that was written. `NoCodeInWeights` is a lemma about
`FindWeights` alone (`WeightsAreNoCode`). The other conjuncts are about the files under `.cog` (`FilesInv`) and about
the schema from its reading to the label (`SchemaOfImage`).

*Only model-checked*: every liveness property, also the liveness half of `ImplementsPut` (fairness and `ENABLED` are
out of the prover's reach). These are `EveryCallResolves`, `ShutdownReturns`, `RequestsAreServed`, `FatalIsNoticed`,
`PushEnds`, `SignalEndsIt` and `ImplementsPut`, whose safety half is `MultipartRefinesPut`. Every invariant and every
action property that a passing run checks is stated by a theorem. `ConfigSurvives` does not hold.

## 5. Plan

Done: the worker and the runner; configuration, Dockerfiles and builds; fast push; pushes and pulls; the S3 uploader;
local prediction; migration. Proofs of the safety properties of all of these.

Left, in this order:

1. `StreamRedirector`: reader threads, drain tokens.
2. `ServerStop`: the three stages of stopping the server.

## 6. What the models show and no run is spent on

A reader of the code may want to know of these. The models have the behaviour unless it is said that they do not.

*The server.* A cancel of an asynchronous task that has not run yet leaves its call unresolved (`worker.py:619`); a
cancel that precedes the input is dropped (`worker.py:286`, against `docs/http.md:364`); a signal that arrives outside
of a prediction kills the child (`worker.py:791`); the reason of a failed setup can be lost (`worker.py:297`); a
shutdown drops a call whose input has not been sent (`worker.py:260`), and during setup it is overwritten by READY; a
repeated PUT with spare capacity is not idempotent (`http.py:421`, against `http.py:419`); the completed webhook can
be sent twice (`runner.py:336`, against `docs/http.md:85`); `SystemExit` in one asynchronous prediction ends its
siblings as canceled, which `CanceledOnRequest` allows; the late callback of an ended prediction removes the task of a
newer one with its id; a refusal by the worker leaves a task without a future behind, and `is_busy` raises until
another callback removes it; a terminal webhook that fails turns a success into a failure.

*Configuration.* `cuda: "11.8"` together with `cudnn` is refused, since the versions are compared as strings
(`config.go:498`, against `docs/yaml.md:27`); a CuDNN version without a CUDA version is never checked against the one
chosen, except for TensorFlow; TensorFlow 2.16 and 2.17 choose CUDA 12.3 with CuDNN 8, which no image has
(`config.go:535`); a `torch` without a version makes cog panic in a model for GPUs, also when `cuda` is given
(`config.go:506`: `compatibility.go:174` compares the empty version with those of the table), although `docs/yaml.md:38`
says that Cog will figure out the CUDA version: the model has the step, `PanicOnVersion`; the standard generator sets GOARCH to the operating
system (`standard_generator.go:95`); a release with `+` of exactly the first supported version of PyTorch has no base
images, as `GreaterOrEqual` compares the text after `+` too (`base.go:119`); the warning at `config.go:526` is
inverted. `OneCUDAForTorch` and `PyTorchCompletes` are stated for the cases these leave.

*Builds.* The manifest of the weights does not name the image it was built for, so a build of another name reuses it
(`build.go:152`); a failed build with separate weights leaves its own `.dockerignore` in the place of the user's, and
the backup beside it, until a build with separate weights succeeds; a kill or a full disk in the middle of that write
leaves a part of it, in which the user's patterns may be missing, and as it is not recognised the next build with
separate weights renames it over the backup (`build.go:511`): the patterns are lost, which `UserPatternsSurvive` and
`CodeLayerHonoursIgnore` name; in a directory without `.dockerignore` but with a backup a plain build ignores the
user's patterns; a half-written requirements file is used again; an ignored file inside a directory of weights stays
in a cached weights image; the fallback base is labelled as a base image of Cog (`build.go:263`).

*Fast push.* A tarball of system packages that were removed can be uploaded; the copy of requirements that no longer
exist counts as current; a truncated `weights.json` breaks later builds until it is deleted; a return in the middle
leaves uploads running until the process exits; an upload that is not verified after the last poll counts as done; a
build after a directory was deleted fails once; a request that is never answered is waited for until cog is killed
(`http/client.go:21`).

*Push and pull.* `latest` can go back when two pushes race; a version without a release stays when the release fails;
files named `._*` are packed by a push and never pulled, without a word (`pull.go:50`); a second pull never removes a
file, and an existing symbolic link makes it fail.

*Local prediction.* A SIGINT before the id of the container is known is swallowed (`predict.go:271`); a container
whose server never became ready is left running (`predict.go:303`), and one that was created and not started is left
behind (`api_client.go:441`); in JSON mode `os.Exit` skips the deferred stop (`predict.go:458`); `--json --output
x.json` with an output of one JSON file writes one over the other (`predict.go:427`); one `@file` given by a flag for
an input that is a list is sent as one value (`input.go:40`), an "@" in a list of `--json` is sent as text
(`predict.go:137`); with `--json -` a caught SIGINT stops the container while cog waits for stdin to end
(`predict.go:83`); an explicit `--gpus all` is retried without GPUs, against the comment at `predict.go:285`; a fast
build ignores `gpu: true` (`predict.go:191`). `NothingLeftRunning`, `ZeroMeansDelivered` and `InputsArrive` name the
exceptions.

*Migration.* A kill between truncation and write loses `cog.yaml` or a Python file; the script is opened relative to the
working directory while Go writes in the project's (`migrator_v1_v1fast.go:297`): the model runs in the project
directory, where the two agree.

## 7. Abstractions by module

* `CogConfig`, `Dockerfile`: an excerpt of the tables; the patch and `+` of releases only as the CUDA version;
  torchaudio is treated as torchvision is and left out; failures of wheels, tables and HTTP are one `Fault`.
* `ImageBuild`: edits happen between builds only; two builds at once in one directory are not modelled; the
  `os.WriteFile` of `.dockerignore` is two steps and that of the schema one, since the next build removes the schema
  before it reads anything; digests do not collide; the working directory is the project's.
* `FastPush`: an edit of `cog.yaml` during a push is left for the next one, as is reading it; large files are outside
  directories; `UploadObject` and the request that begins its verification are one step (`Multipart` models the
  first); symbolic links are not modelled.
* `Pipeline`: packing the tarball is one step; drafts are pulled as tagged sources are.
* `Multipart`: the request of a small file reads it once; the kill of the process, which leaves a multipart upload
  open, is not modelled; the retries inside the SDK are part of a request.
* `LocalPredict`: the goroutine of logs, mounts, ports and the check of the token are left out; `serve` is `run` with
  a fixed command and is not in the options of the run.
* `Migrate`: quoting and comments of `cog.yaml` are left out; the first one can be built and does not have `fast`; an
  empty one loads as the default, and writing it then panics, which is a failed write here.

## 8. Not modelled

* *Stream redirection* (`helpers.py`): its hazard, tokens of two streams counted together, is listed; the models take
  its drain as a step that ends or kills the child. *The stages of stopping the server* (`http.py:565`).
* *Predictor loading, types, schema, telemetry, environment wait, OpenAPI commands*: reflection over user code and
  conversions, with no state that a property would be about.
* *The ring buffer* (`util/ringbuffer.go`): it is only ever written to (`docker_command.go:407`); nothing reads it.
* *Registry client*: requests without state; its answers are choices of `Dockerfile` and `ImageBuild`.
* *Compatibility matrix and registry tools* (`src/tools`): scrapers that print tables; `CogConfig` reads the result.
* Vendored and generated code, examples, the documentation site, HTML and terminal output.
