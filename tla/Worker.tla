------------------------------- MODULE Worker -------------------------------
(***************************************************************************)
(* The model worker: the parent object Worker, which lives in the HTTP     *)
(* server process, the child process _ChildWorker, which runs the user's   *)
(* model, and the two directions of the pipe between them                  *)
(* (python/cog/server/worker.py).                                          *)
(*                                                                         *)
(* Four kinds of actors interleave:                                        *)
(*   - the callers of setup, predict, cancel, shutdown and terminate;      *)
(*   - one thread of the start pool per accepted call, which downloads the *)
(*     call's input files and sends the input to the child;                *)
(*   - the event consumer thread, which reads what the child sends;        *)
(*   - the child process, synchronous (one prediction at a time, canceled  *)
(*     by SIGUSR1) or asynchronous (one asyncio task per prediction,       *)
(*     canceled by a Cancel message).                                      *)
(*                                                                         *)
(* A call of Worker.predict is a member of Calls and stands for its        *)
(* future; two calls may use the same tag one after the other.  Messages   *)
(* carry the tag, which is all that the code looks at, and, as history     *)
(* only, the call they come from (field "of").                             *)
(***************************************************************************)
EXTENDS Integers, Sequences, FiniteSets

CONSTANTS Calls,           \* the calls of Worker.predict
          Tags,            \* the tags (prediction ids) they use
          TagOf,           \* [Calls -> Tags]
          NoCall, NoTag,   \* no call, no tag
          Consumer,        \* the event consumer thread
          MaxConcurrency,  \* concurrency.max of cog.yaml
          IsAsync,         \* the model has an async predict
          MaxOutputs,      \* bound: outputs a call may produce
          Faults,          \* which failures of the environment may happen
          Stops            \* which of shutdown and terminate may be called

AllFaults == {"kill",      \* the child is killed, or a drain times out
              "exit",      \* an async predict raises SystemExit
              "download",  \* an input file cannot be downloaded
              "setup"}     \* setup raises

ASSUME WorkerAssumption ==
    /\ IsFiniteSet(Tags)
    /\ TagOf \in [Calls -> Tags]
    /\ NoCall \notin Calls
    /\ NoTag \notin Tags
    /\ Consumer \notin Calls
    /\ MaxConcurrency \in Nat \ {0}
    /\ IsAsync \in BOOLEAN
    /\ ~IsAsync => MaxConcurrency = 1   \* or else setup fails
    /\ MaxOutputs \in Nat
    /\ Faults \subseteq AllFaults
    /\ Stops \subseteq {"shutdown", "terminate"}

VARIABLES
    state,        \* Worker._state
    terminating,  \* Worker._terminating
    sentShutdown, \* Worker._sent_shutdown_event
    setupResult,  \* Worker._setup_result
    inFlight,     \* Worker._predictions_in_flight: tag -> call or NoCall
    cancelSent,   \* the calls whose PredictionState.cancel_sent is set
    future,       \* call -> the state of its future
    seen,         \* call -> the Done event its subscribers were given
    starter,      \* call -> where its start-pool thread is
    popped,       \* thread -> the call it popped and will resolve
    consumer,     \* where the event consumer thread is
    held,         \* the Done event the consumer is completing
    toChild,      \* messages from the parent to the child
    toParent,     \* messages from the child to the parent
    child,        \* where the child process is
    task,         \* call -> where its prediction is in the child
    verdict,      \* call -> how the user's predict ended
    outputs,      \* call -> how many outputs it produced
    sigPending    \* a SIGUSR1 the child has not handled yet

parentVars == <<state, terminating, sentShutdown, setupResult, inFlight,
                cancelSent, future, seen>>
starterVars == <<starter, popped>>
consumerVars == <<consumer, held>>
pipeVars == <<toChild, toParent>>
childVars == <<child, task, verdict, outputs, sigPending>>
vars == <<parentVars, starterVars, consumerVars, pipeVars, childVars>>

WorkerState == {"NEW", "STARTING", "READY", "DEFUNCT"}
Ended == {"succeeded", "failed", "canceled"}   \* what a Done event says
Resolved == Ended \cup {"fatal"}               \* FatalWorkerException
SetupResult == {"pending", "ok", "failed", "unknown"}
StarterState == {"none", "downloading", "pop", "resolve", "done", "crashed"}
ConsumerState == {"none", "setupCheck", "setupPoll", "setupOk", "setupFailed",
                  "check", "poll", "pop", "resolve", "drain", "final", "fail",
                  "exited", "crashed"}
ChildState == {"none", "loading", "serving", "leaving", "dead"}
TaskState == {"none", "created", "entering", "body", "leaving", "draining",
              "canceling"}

Threads == Calls \cup {Consumer}
ToChild == [kind : {"input", "cancel", "shutdown"}, tag : Tags \cup {NoTag},
            of : Calls \cup {NoCall}]
ToParent == [kind : {"output", "done"}, tag : Tags \cup {NoTag},
             of : Calls \cup {NoCall}, verdict : Ended]

SetupDone(v) == [kind |-> "done", tag |-> NoTag, of |-> NoCall, verdict |-> v]
Done(c, v) == [kind |-> "done", tag |-> TagOf[c], of |-> c, verdict |-> v]
Output(c) == [kind |-> "output", tag |-> TagOf[c], of |-> c,
              verdict |-> "succeeded"]   \* the verdict of an output is unused

ChildAlive == child \notin {"none", "dead"}
Active == {c \in Calls : task[c] # "none"}
InFlightTags == {t \in Tags : inFlight[t] # NoCall}

\* The parent keeps its copy of the child's end of the pipe, so a message to a
\* dead child is accepted and never read.
SendToChild(m) == toChild' = IF ChildAlive THEN Append(toChild, m) ELSE toChild

ChildGone == /\ child' = "dead"
             /\ task' = [c \in Calls |-> "none"]
             /\ sigPending' = FALSE
             /\ toChild' = <<>>
             /\ UNCHANGED <<verdict, outputs>>

Init == /\ state = "NEW"
        /\ terminating = FALSE
        /\ sentShutdown = FALSE
        /\ setupResult = "pending"
        /\ inFlight = [t \in Tags |-> NoCall]
        /\ cancelSent = {}
        /\ future = [c \in Calls |-> "none"]
        /\ seen = [c \in Calls |-> "none"]
        /\ starter = [c \in Calls |-> "none"]
        /\ popped = [th \in Threads |-> NoCall]
        /\ consumer = "none"
        /\ held = SetupDone("succeeded")
        /\ toChild = <<>>
        /\ toParent = <<>>
        /\ child = "none"
        /\ task = [c \in Calls |-> "none"]
        /\ verdict = [c \in Calls |-> "none"]
        /\ outputs = [c \in Calls |-> 0]
        /\ sigPending = FALSE

-----------------------------------------------------------------------------
(* The callers of the worker. *)

Setup == /\ state = "NEW"
         /\ state' = "STARTING"
         /\ child' = "loading"
         /\ consumer' = "setupCheck"
         /\ UNCHANGED <<terminating, sentShutdown, setupResult, inFlight,
                        cancelSent, future, seen, starterVars, held, pipeVars,
                        task, verdict, outputs, sigPending>>

\* Mutant: an id that is in use is accepted again.
MayPredictSameTag(t) == Cardinality(InFlightTags) < MaxConcurrency /\ state = "READY"

\* The checks predict makes while it holds _predictions_lock.
MayPredict(t) == /\ Cardinality(InFlightTags) < MaxConcurrency
                 /\ inFlight[t] = NoCall
                 /\ state = "READY"

Predict(c) == /\ future[c] = "none"
              /\ MayPredict(TagOf[c])
              /\ inFlight' = [inFlight EXCEPT ![TagOf[c]] = c]
              /\ future' = [future EXCEPT ![c] = "pending"]
              /\ starter' = [starter EXCEPT ![c] = "downloading"]
              /\ UNCHANGED <<state, terminating, sentShutdown, setupResult,
                             cancelSent, seen, popped, consumerVars, pipeVars,
                             childVars>>

\* Mutant: the tag need not be in flight.
MayCancelAny(t) == inFlight[t] \notin cancelSent

\* cancel sends at most one signal and one message per call.  An asynchronous
\* child ignores SIGUSR1; a call that is not in flight is left alone.
MayCancel(t) == /\ inFlight[t] # NoCall
                /\ inFlight[t] \notin cancelSent

Cancel(t) == /\ MayCancel(t)
             /\ sigPending' = (sigPending \/ (ChildAlive /\ ~IsAsync))
             /\ SendToChild([kind |-> "cancel", tag |-> t, of |-> inFlight[t]])
             /\ cancelSent' = cancelSent \cup {inFlight[t]}
             /\ UNCHANGED <<state, terminating, sentShutdown, setupResult,
                            inFlight, future, seen, starterVars, consumerVars,
                            toParent, child, task, verdict, outputs>>

Shutdown == /\ "shutdown" \in Stops
            /\ terminating' = TRUE
            /\ state' = "DEFUNCT"
            /\ IF ChildAlive /\ ~sentShutdown
               THEN /\ SendToChild([kind |-> "shutdown", tag |-> NoTag, of |-> NoCall])
                    /\ sentShutdown' = TRUE
               ELSE UNCHANGED <<toChild, sentShutdown>>
            /\ UNCHANGED <<setupResult, inFlight, cancelSent, future, seen,
                           starterVars, consumerVars, toParent, childVars>>

Terminate == /\ "terminate" \in Stops
             /\ terminating' = TRUE
             /\ state' = "DEFUNCT"
             /\ IF ChildAlive
                THEN ChildGone
                ELSE UNCHANGED <<toChild, childVars>>
             /\ UNCHANGED <<sentShutdown, setupResult, inFlight, cancelSent,
                            future, seen, starterVars, consumerVars, toParent>>

-----------------------------------------------------------------------------
(* The start-pool thread of call c: start_prediction. *)

SendInput(c) == /\ starter[c] = "downloading"
                /\ SendToChild([kind |-> "input", tag |-> TagOf[c], of |-> c])
                /\ starter' = [starter EXCEPT ![c] = "done"]
                /\ UNCHANGED <<parentVars, popped, consumerVars, toParent, childVars>>

\* Mutant: the subscribers are not told.
DownloadFailsSilently(c) == /\ "download" \in Faults
                            /\ starter[c] = "downloading"
                            /\ starter' = [starter EXCEPT ![c] = "pop"]
                            /\ UNCHANGED <<parentVars, popped, consumerVars,
                                           pipeVars, childVars>>

\* Mutant: the subscribers are told, the future is forgotten.
DownloadFailsForgets(c) == /\ "download" \in Faults
                           /\ starter[c] = "downloading"
                           /\ seen' = [seen EXCEPT ![c] = "failed"]
                           /\ starter' = [starter EXCEPT ![c] = "done"]
                           /\ UNCHANGED <<state, terminating, sentShutdown,
                                          setupResult, inFlight, cancelSent, future,
                                          popped, consumerVars, pipeVars, childVars>>

\* Mutant: the error is raised when the input is already on its way.
DownloadFailsLate(c) == /\ "download" \in Faults
                        /\ starter[c] = "downloading"
                        /\ SendToChild([kind |-> "input", tag |-> TagOf[c], of |-> c])
                        /\ seen' = [seen EXCEPT ![c] = "failed"]
                        /\ starter' = [starter EXCEPT ![c] = "pop"]
                        /\ UNCHANGED <<state, terminating, sentShutdown, setupResult,
                                       inFlight, cancelSent, future, popped,
                                       consumerVars, toParent, childVars>>

\* An exception while the inputs are prepared: first the subscribers are told,
\* then _complete_prediction pops the call and resolves its future.
DownloadFails(c) == /\ "download" \in Faults
                    /\ starter[c] = "downloading"
                    /\ seen' = [seen EXCEPT ![c] = "failed"]
                    /\ starter' = [starter EXCEPT ![c] = "pop"]
                    /\ UNCHANGED <<state, terminating, sentShutdown, setupResult,
                                   inFlight, cancelSent, future, popped,
                                   consumerVars, pipeVars, childVars>>

\* _complete_prediction under the lock, for a thread th.
PopInFlight(th, t) == /\ inFlight' = [inFlight EXCEPT ![t] = NoCall]
                      /\ popped' = [popped EXCEPT ![th] = inFlight[t]]

\* The pop raises KeyError when the consumer has emptied the dictionary since;
\* the error ends up in the start pool's future, which nobody looks at.
StarterPops(c) == /\ starter[c] = "pop"
                  /\ IF inFlight[TagOf[c]] = NoCall
                     THEN /\ starter' = [starter EXCEPT ![c] = "crashed"]
                          /\ UNCHANGED <<inFlight, popped>>
                     ELSE /\ starter' = [starter EXCEPT ![c] = "resolve"]
                          /\ PopInFlight(c, TagOf[c])
                  /\ UNCHANGED <<state, terminating, sentShutdown, setupResult,
                                 cancelSent, future, seen, consumerVars, pipeVars,
                                 childVars>>

StarterResolves(c) == /\ starter[c] = "resolve"
                      /\ future' = [future EXCEPT ![popped[c]] = "failed"]
                      /\ starter' = [starter EXCEPT ![c] = "done"]
                      /\ popped' = [popped EXCEPT ![c] = NoCall]
                      /\ UNCHANGED <<state, terminating, sentShutdown, setupResult,
                                     inFlight, cancelSent, seen, consumerVars,
                                     pipeVars, childVars>>

-----------------------------------------------------------------------------
(* The event consumer thread: _consume_events. *)

ConsumerKeeps == UNCHANGED <<terminating, sentShutdown, cancelSent, starterVars,
                             toChild, childVars>>

\* _consume_events_until_done looks whether the child lives before it looks
\* into the pipe.
SetupCheck == /\ consumer = "setupCheck"
              /\ IF ChildAlive
                 THEN /\ consumer' = "setupPoll"
                      /\ UNCHANGED setupResult
                 ELSE /\ consumer' = "setupFailed"
                      /\ setupResult' = "unknown"
              /\ UNCHANGED <<state, inFlight, future, seen, held, toParent>>
              /\ ConsumerKeeps

SetupPoll == /\ consumer = "setupPoll"
             /\ IF toParent = <<>>
                THEN /\ consumer' = "setupCheck"
                     /\ UNCHANGED <<state, setupResult, toParent>>
                ELSE /\ toParent' = Tail(toParent)
                     /\ IF Head(toParent).verdict = "succeeded"
                        THEN /\ state' = "READY"
                             /\ consumer' = "setupOk"
                             /\ UNCHANGED setupResult
                        ELSE /\ setupResult' = "failed"
                             /\ consumer' = "setupFailed"
                             /\ UNCHANGED state
             /\ UNCHANGED <<inFlight, future, seen, held>>
             /\ ConsumerKeeps

SetupOk == /\ consumer = "setupOk"
           /\ setupResult' = "ok"
           /\ consumer' = "check"
           /\ UNCHANGED <<state, inFlight, future, seen, held, toParent>>
           /\ ConsumerKeeps

SetupFailed == /\ consumer = "setupFailed"
               /\ state' = "DEFUNCT"
               /\ consumer' = "exited"
               /\ UNCHANGED <<setupResult, inFlight, future, seen, held, toParent>>
               /\ ConsumerKeeps

\* Mutant: the thread does not look whether the child lives.
CheckBlind == /\ consumer = "check"
              /\ consumer' = "poll"
              /\ UNCHANGED <<state, setupResult, inFlight, future, seen, held, toParent>>
              /\ ConsumerKeeps

Check == /\ consumer = "check"
         /\ consumer' = IF ChildAlive THEN "poll" ELSE "drain"
         /\ UNCHANGED <<state, setupResult, inFlight, future, seen, held, toParent>>
         /\ ConsumerKeeps

\* Read one message and publish it to the subscribers of its tag, which is to
\* say to those of the call in flight under that tag.
Receive == /\ consumer \in {"poll", "drain"}
           /\ toParent # <<>>
           /\ toParent' = Tail(toParent)
           /\ LET m == Head(toParent) IN
              IF m.kind = "done"
              THEN /\ held' = m
                   /\ consumer' = "pop"
                   /\ seen' = [c \in Calls |-> IF /\ m.tag # NoTag
                                                  /\ inFlight[m.tag] = c
                                               THEN m.verdict ELSE seen[c]]
              ELSE /\ consumer' = "check"
                   /\ UNCHANGED <<held, seen>>
           /\ UNCHANGED <<state, setupResult, inFlight, future>>
           /\ ConsumerKeeps

PollTimesOut == /\ consumer = "poll"
                /\ toParent = <<>>
                /\ consumer' = "check"
                /\ UNCHANGED <<state, setupResult, inFlight, future, seen, held,
                               toParent>>
                /\ ConsumerKeeps

ConsumerPops == /\ consumer = "pop"
                /\ IF held.tag = NoTag \/ inFlight[held.tag] = NoCall
                   THEN /\ consumer' = "crashed"   \* KeyError ends the thread
                        /\ UNCHANGED <<inFlight, popped>>
                   ELSE /\ consumer' = "resolve"
                        /\ PopInFlight(Consumer, held.tag)
                /\ UNCHANGED <<state, terminating, sentShutdown, setupResult,
                               cancelSent, future, seen, starter, held, pipeVars,
                               childVars>>

ConsumerResolves == /\ consumer = "resolve"
                    /\ future' = [future EXCEPT ![popped[Consumer]] = held.verdict]
                    /\ popped' = [popped EXCEPT ![Consumer] = NoCall]
                    /\ consumer' = "check"
                    /\ UNCHANGED <<state, terminating, sentShutdown, setupResult,
                                   inFlight, cancelSent, seen, starter, held,
                                   pipeVars, childVars>>

Drained == /\ consumer = "drain"
           /\ toParent = <<>>
           /\ consumer' = "final"
           /\ UNCHANGED <<state, setupResult, inFlight, future, seen, held, toParent>>
           /\ ConsumerKeeps

Final == /\ consumer = "final"
         /\ IF terminating
            THEN /\ consumer' = "exited"
                 /\ UNCHANGED state
            ELSE /\ consumer' = "fail"
                 /\ state' = "DEFUNCT"
         /\ UNCHANGED <<setupResult, inFlight, future, seen, held, toParent>>
         /\ ConsumerKeeps

\* Mutant: the dictionary is emptied, the futures are left alone.
FailInFlightClearsOnly == /\ consumer = "fail"
                          /\ inFlight' = [t \in Tags |-> NoCall]
                          /\ consumer' = "exited"
                          /\ UNCHANGED <<state, setupResult, future, seen, held,
                                         toParent>>
                          /\ ConsumerKeeps

\* Under the lock: every call in flight gets a FatalWorkerException.
FailInFlight == /\ consumer = "fail"
                /\ future' = [c \in Calls |-> IF inFlight[TagOf[c]] = c
                                              THEN "fatal" ELSE future[c]]
                /\ inFlight' = [t \in Tags |-> NoCall]
                /\ consumer' = "exited"
                /\ UNCHANGED <<state, setupResult, seen, held, toParent>>
                /\ ConsumerKeeps

-----------------------------------------------------------------------------
(* The child process: _ChildWorker.run. *)

ChildKeeps == UNCHANGED <<parentVars, starterVars, consumerVars>>

\* Loading the predictor or validating it may fail: the child reports that and
\* leaves.  An exception in setup() itself is reported and swallowed: the child
\* goes on to its loop.  Success is reported after setup().
SetupEnds == /\ child = "loading"
             /\ \/ /\ toParent' = Append(toParent, SetupDone("succeeded"))
                   /\ child' = "serving"
                \/ /\ "setup" \in Faults
                   /\ toParent' = Append(toParent, SetupDone("failed"))
                   /\ child' \in {"serving", "leaving"}
             /\ UNCHANGED <<toChild, task, verdict, outputs, sigPending>>
             /\ ChildKeeps

\* The process is killed, a predict or setup raises SystemExit in a synchronous
\* child, or the redirected output cannot be drained in time: no Done is sent.
ChildDies == /\ "kill" \in Faults
             /\ ChildAlive
             /\ ChildGone
             /\ UNCHANGED toParent
             /\ ChildKeeps

\* The loop reads the next message; a synchronous child does so only between
\* predictions.  A pending SIGUSR1 is always handled before a prediction starts.
MayRead == /\ child = "serving"
           /\ toChild # <<>>
           /\ ~IsAsync => Active = {} /\ ~sigPending

ReadInput == /\ MayRead
             /\ Head(toChild).kind = "input"
             /\ toChild' = Tail(toChild)
             /\ task' = [task EXCEPT ![Head(toChild).of] =
                            IF IsAsync THEN "created" ELSE "entering"]
             /\ UNCHANGED <<toParent, child, verdict, outputs, sigPending>>
             /\ ChildKeeps

\* Mutant: canceling one task cancels every task (the tag is not looked at).
ReadCancelAll == /\ MayRead
                 /\ Head(toChild).kind = "cancel"
                 /\ toChild' = Tail(toChild)
                 /\ task' = [c \in Calls |-> IF IsAsync /\ task[c] = "body"
                                             THEN "canceling" ELSE task[c]]
                 /\ UNCHANGED <<toParent, child, verdict, outputs, sigPending>>
                 /\ ChildKeeps

\* task.cancel(): a task that has not run yet never enters its coroutine, so it
\* ends without a Done; a running one gets CancelledError when it next runs.
\* A synchronous child ignores the message.
Canceled(ts) == CASE ts = "created" -> "none"
                  [] ts = "body" -> "canceling"
                  [] OTHER -> ts

ReadCancel == /\ MayRead
              /\ Head(toChild).kind = "cancel"
              /\ toChild' = Tail(toChild)
              /\ task' = [c \in Calls |->
                            IF IsAsync /\ TagOf[c] = Head(toChild).tag
                            THEN Canceled(task[c]) ELSE task[c]]
              /\ UNCHANGED <<toParent, child, verdict, outputs, sigPending>>
              /\ ChildKeeps

ReadShutdown == /\ MayRead
                /\ Head(toChild).kind = "shutdown"
                /\ toChild' = Tail(toChild)
                /\ child' = "leaving"
                /\ UNCHANGED <<toParent, task, verdict, outputs, sigPending>>
                /\ ChildKeeps

\* The loop has been left and every task has ended: the process exits.
ChildExits == /\ child = "leaving"
              /\ Active = {}
              /\ ChildGone
              /\ UNCHANGED toParent
              /\ ChildKeeps

StartBody(c) == /\ task[c] \in {"created", "entering"}
                /\ task' = [task EXCEPT ![c] = "body"]
                /\ UNCHANGED <<pipeVars, child, verdict, outputs, sigPending>>
                /\ ChildKeeps

SendOutput(c) == /\ task[c] = "body"
                 /\ outputs[c] < MaxOutputs
                 /\ outputs' = [outputs EXCEPT ![c] = @ + 1]
                 /\ toParent' = Append(toParent, Output(c))
                 /\ UNCHANGED <<toChild, child, task, verdict, sigPending>>
                 /\ ChildKeeps

\* Mutant: done.error is not set when predict raises.
PredictEndsWell(c, v) == /\ task[c] = "body"
                         /\ verdict' = [verdict EXCEPT ![c] = v]
                         /\ task' = [task EXCEPT ![c] = "none"]
                         /\ toParent' = Append(toParent, Done(c, "succeeded"))
                         /\ UNCHANGED <<toChild, child, outputs, sigPending>>
                         /\ ChildKeeps

\* Mutant: the Done is sent without ending the task, which sends it again.
PredictEndsTwice(c, v) == /\ task[c] = "body"
                          /\ verdict' = [verdict EXCEPT ![c] = v]
                          /\ task' = [task EXCEPT ![c] = "draining"]
                          /\ toParent' = Append(toParent, Done(c, v))
                          /\ UNCHANGED <<toChild, child, outputs, sigPending>>
                          /\ ChildKeeps

\* The user's predict returns or raises.  In a synchronous child the code of
\* _handle_predict_error that follows is still interruptible by SIGUSR1 until
\* it clears _cancelable; in an asynchronous child nothing can intervene before
\* the Done is sent.
PredictEnds(c, v) == /\ task[c] = "body"
                     /\ v \in {"succeeded", "failed"}
                     /\ verdict' = [verdict EXCEPT ![c] = v]
                     /\ IF IsAsync
                        THEN /\ task' = [task EXCEPT ![c] = "none"]
                             /\ toParent' = Append(toParent, Done(c, v))
                        ELSE /\ task' = [task EXCEPT ![c] = "leaving"]
                             /\ UNCHANGED toParent
                     /\ UNCHANGED <<toChild, child, outputs, sigPending>>
                     /\ ChildKeeps

ClearCancelable(c) == /\ task[c] = "leaving"
                      /\ task' = [task EXCEPT ![c] = "draining"]
                      /\ UNCHANGED <<pipeVars, child, verdict, outputs, sigPending>>
                      /\ ChildKeeps

SendDone(c) == /\ task[c] = "draining"
               /\ task' = [task EXCEPT ![c] = "none"]
               /\ toParent' = Append(toParent, Done(c, verdict[c]))
               /\ UNCHANGED <<toChild, child, verdict, outputs, sigPending>>
               /\ ChildKeeps

\* An asynchronous prediction sees CancelledError.
CancelEnds(c) == /\ task[c] = "canceling"
                 /\ task' = [task EXCEPT ![c] = "none"]
                 /\ verdict' = [verdict EXCEPT ![c] = "canceled"]
                 /\ toParent' = Append(toParent, Done(c, "canceled"))
                 /\ UNCHANGED <<toChild, child, outputs, sigPending>>
                 /\ ChildKeeps

\* SystemExit in an asynchronous prediction leaves the event loop; asyncio.run
\* then cancels every other task before the process exits.
AsyncExit(c) == /\ "exit" \in Faults
                /\ IsAsync
                /\ task[c] = "body"
                /\ child' = "leaving"
                /\ task' = [d \in Calls |-> IF d = c THEN "none" ELSE Canceled(task[d])]
                /\ UNCHANGED <<pipeVars, verdict, outputs, sigPending>>
                /\ ChildKeeps

\* The signal handler runs in a synchronous child.  Inside the try block the
\* prediction is canceled.  While _cancelable is set outside it (before the
\* try, or while an ended predict is being handled) the exception escapes and
\* the process dies, possibly after a Done that says success or failure when
\* it hits the handling of an exception.  Otherwise the signal is ignored.
SignalIgnored == /\ sigPending
                 /\ \A c \in Calls : task[c] \in {"none", "draining"}
                 /\ sigPending' = FALSE
                 /\ UNCHANGED <<pipeVars, child, task, verdict, outputs>>
                 /\ ChildKeeps

SignalCancels(c) == /\ sigPending
                    /\ task[c] = "body"
                    /\ sigPending' = FALSE
                    /\ task' = [task EXCEPT ![c] = "draining"]
                    /\ verdict' = [verdict EXCEPT ![c] = "canceled"]
                    /\ UNCHANGED <<pipeVars, child, outputs>>
                    /\ ChildKeeps

SignalEscapes(c) == /\ sigPending
                    /\ task[c] \in {"entering", "leaving"}
                    /\ \/ UNCHANGED toParent
                       \/ /\ task[c] = "leaving"
                          /\ verdict[c] = "failed"
                          /\ \E v \in {"succeeded", "failed"} :
                                toParent' = Append(toParent, Done(c, v))
                    /\ ChildGone
                    /\ ChildKeeps

-----------------------------------------------------------------------------

Callers == Setup \/ Shutdown \/ Terminate
           \/ (\E c \in Calls : Predict(c)) \/ (\E t \in Tags : Cancel(t))

Starters(c) == SendInput(c) \/ DownloadFails(c) \/ StarterPops(c) \/ StarterResolves(c)

Consume == \/ SetupCheck \/ SetupPoll \/ SetupOk \/ SetupFailed
           \/ Check \/ Receive \/ PollTimesOut \/ ConsumerPops \/ ConsumerResolves
           \/ Drained \/ Final \/ FailInFlight

ChildLoop == SetupEnds \/ ReadInput \/ ReadCancel \/ ReadShutdown \/ ChildExits

ChildTask(c) == \/ StartBody(c) \/ SendOutput(c)
                \/ \E v \in {"succeeded", "failed"} : PredictEnds(c, v)
                \/ ClearCancelable(c) \/ SendDone(c) \/ CancelEnds(c)
                \/ SignalCancels(c) \/ SignalEscapes(c)

Next == \/ Callers
        \/ \E c \in Calls : Starters(c)
        \/ Consume
        \/ ChildLoop \/ SignalIgnored \/ ChildDies
        \/ \E c \in Calls : ChildTask(c) \/ AsyncExit(c)

Spec == Init /\ [][Next]_vars

\* Threads and the child process keep running: a download ends, the consumer
\* polls at least every 0.1s, the user's setup and predict return.  Nobody has to
\* call the worker, and no failure has to happen.
Fairness == /\ \A c \in Calls : WF_vars(Starters(c))
            /\ WF_vars(Consume)
            /\ WF_vars(ChildLoop)
            /\ WF_vars(SignalIgnored)
            /\ \A c \in Calls : WF_vars(ChildTask(c))

FairSpec == Spec /\ Fairness

-----------------------------------------------------------------------------
(* Type invariant *)

TypeOK ==
    /\ state \in WorkerState
    /\ terminating \in BOOLEAN
    /\ sentShutdown \in BOOLEAN
    /\ setupResult \in SetupResult
    /\ inFlight \in [Tags -> Calls \cup {NoCall}]
    /\ cancelSent \in SUBSET Calls
    /\ future \in [Calls -> {"none", "pending"} \cup Resolved]
    /\ seen \in [Calls -> {"none"} \cup Ended]
    /\ starter \in [Calls -> StarterState]
    /\ popped \in [Threads -> Calls \cup {NoCall}]
    /\ consumer \in ConsumerState
    /\ held \in ToParent
    /\ toChild \in Seq(ToChild)
    /\ toParent \in Seq(ToParent)
    /\ child \in ChildState
    /\ task \in [Calls -> TaskState]
    /\ verdict \in [Calls -> {"none"} \cup Ended]
    /\ outputs \in [Calls -> 0..MaxOutputs]
    /\ sigPending \in BOOLEAN

-----------------------------------------------------------------------------
(* Safety *)

\* A tag may be used again as soon as its previous call has left the in-flight
\* dictionary, and the code matches events to calls by tag alone.  Still, every
\* event on its way to the parent comes from the very call that is in flight
\* under its tag and whose future is unresolved: no late event of an earlier
\* call reaches the subscribers or the future of a later one.
EventsReachTheirCall ==
    \A i \in 1..Len(toParent) :
        LET m == toParent[i] IN
        m.of # NoCall => /\ inFlight[m.tag] = m.of
                         /\ future[m.of] = "pending"

\* The child works only for calls that are in flight in the parent, so never on
\* more than MaxConcurrency of them, whatever the two sides are doing.
ChildWorksForInFlight ==
    \A c \in Calls : task[c] # "none" => inFlight[TagOf[c]] = c

\* Admission: the dictionary never holds more calls than the limit.
WithinCapacity == Cardinality(InFlightTags) <= MaxConcurrency

\* The consumer thread never dies of a KeyError: whenever it completes a
\* prediction, the prediction is in the dictionary.
ConsumerSurvives == consumer # "crashed"

\* A future is unresolved exactly while its call is in flight or some thread has
\* popped the call and is about to resolve it, and never both, nor two threads:
\* nothing accepted is ever forgotten, and nothing is resolved twice.
PendingHasOwner ==
    /\ \A c \in Calls : future[c] = "pending" <=>
          inFlight[TagOf[c]] = c \/ \E th \in Threads : popped[th] = c
    /\ \A t \in Tags : inFlight[t] # NoCall =>
          TagOf[inFlight[t]] = t /\ \A th \in Threads : popped[th] # inFlight[t]
    /\ \A th1, th2 \in Threads : popped[th1] = popped[th2] =>
          th1 = th2 \/ popped[th1] = NoCall

\* What the future says and what the subscribers were told are the same Done.
FutureAgreesWithEvents ==
    \A c \in Calls : future[c] \in Ended => seen[c] = future[c]

\* Unless somebody called cancel for it, a call is reported to have ended the way
\* the user's predict ended, or as failed when its input could not be prepared.
TruthfulOutcome ==
    \A c \in Calls :
        /\ future[c] = "succeeded" /\ c \notin cancelSent => verdict[c] = "succeeded"
        /\ future[c] = "failed" /\ c \notin cancelSent =>
              verdict[c] = "failed" \/ verdict[c] = "none"

\* The child has left its loop, which SystemExit in a prediction makes it do.
Quitting == "exit" \in Faults /\ child \in {"leaving", "dead"}

\* A call is canceled only when cancel was called for it, or when another
\* prediction makes the process exit: neither the signal, which carries no tag,
\* nor a late Cancel message hits another call.
CanceledOnRequest ==
    \A c \in Calls : seen[c] = "canceled" => c \in cancelSent \/ Quitting

\* FatalWorkerException is set only once the child is gone and its last events
\* have been read, so it never overtakes a Done.
FatalIsLast == (\E c \in Calls : future[c] = "fatal") =>
                   child = "dead" /\ toParent = <<>> /\ consumer = "exited"

-----------------------------------------------------------------------------
(* Action properties *)

\* The outcome of a future is final.
FutureIsFinal == [][\A c \in Calls : future[c] \in Resolved => future'[c] = future[c]]_vars

\* The subscribers of a call are told that it is done at most once.
DoneSeenOnce == [][\A c \in Calls : seen[c] # "none" => seen'[c] = seen[c]]_vars

-----------------------------------------------------------------------------
(* Liveness *)

\* An accepted call is resolved, also one that is canceled, unless the worker is
\* terminated.
EveryCallResolves ==
    \A c \in Calls : (future[c] = "pending") ~> (future[c] \in Resolved \/ terminating)

\* shutdown waits for the consumer thread, and that thread ends.
ShutdownReturns == (terminating /\ consumer # "none") ~> (consumer = "exited")

-----------------------------------------------------------------------------
(* The abstract service this implements *)

Service == INSTANCE PredictionService WITH
    outcome <- future,
    slots <- {c \in Calls : inFlight[TagOf[c]] = c},
    requested <- cancelSent,
    quitting <- Quitting

ImplementsService == Service!SSpec

=============================================================================
