-------------------------- MODULE PredictionRunner --------------------------
(***************************************************************************)
(* The layer between the HTTP endpoints and the worker: PredictionRunner,  *)
(* PredictTask and SetupTask (python/cog/server/runner.py), the endpoints  *)
(* that create and cancel predictions and the health of the server         *)
(* (http.py), and the webhooks as far as their outcome matters             *)
(* (webhook.py).                                                           *)
(*                                                                         *)
(* Two kinds of actors interleave.  The event loop of the HTTP server runs *)
(* one handler at a time, except while a handler waits for a prediction.   *)
(* The worker's threads (the event consumer and one start-pool thread per  *)
(* request) publish events to the tasks, resolve futures and run their     *)
(* callbacks.  What the worker does is what PredictionService promises and *)
(* Worker was shown to do: an event belongs to the call in flight under    *)
(* its tag, the last one is a Done, and a future is resolved after its     *)
(* slot was given away.                                                    *)
(*                                                                         *)
(* A request carries an id; several requests may carry the same one.       *)
(***************************************************************************)
EXTENDS Integers, Sequences, FiniteSets

CONSTANTS Requests,        \* requests that create a prediction
          Ids,             \* prediction ids
          IdOf,            \* [Requests -> Ids]
          Puts,            \* the requests that are PUT with their id
          Waiters,         \* the requests without Prefer: respond-async
          NoRequest,
          SetupTask,       \* the task of setup, as a subscriber
          Consumer,        \* the event consumer thread
          MaxConcurrency,
          MaxOutputs,      \* bound: outputs of a prediction
          Faults           \* which failures may happen

AllFaults == {"kill",      \* the child process dies
              "download",  \* an input file cannot be downloaded
              "upload",    \* an output file cannot be uploaded
              "hook"}      \* a terminal webhook fails after all retries

ASSUME RunnerAssumption ==
    /\ IsFiniteSet(Ids)
    /\ IdOf \in [Requests -> Ids]
    /\ Puts \subseteq Requests
    /\ Waiters \subseteq Requests
    /\ NoRequest \notin Requests
    /\ SetupTask \notin Requests
    /\ Consumer \notin Requests
    /\ MaxConcurrency \in Nat \ {0}
    /\ MaxOutputs \in Nat
    /\ Faults \subseteq AllFaults

VARIABLES
    \* setup
    setup,        \* how far setup and the callbacks of its future are
    setupStatus,  \* SetupResult.status
    setupFuture,  \* the future of Worker.setup
    health,       \* app.state.health
    \* the worker, as the runner sees it
    lost,         \* how far the worker is with the death of its child
    inFlight,     \* id -> the request in flight under it
    future,       \* request -> its future
    sent,         \* the calls in flight whose input the child has
    outputs,      \* request -> outputs published so far by its call in flight
    requested,    \* the calls in flight with cancel_sent
    at,           \* thread -> where it is
    on,           \* thread -> the request it works on
    event,        \* thread -> the event it publishes
    todo,         \* thread -> the subscribers it has yet to call
    \* the runner and its tasks
    tasks,        \* PredictionRunner._predict_tasks: id -> request
    subscribed,   \* the requests whose task is subscribed to its id
    tracked,      \* the requests whose task has its future
    callbacks,    \* request -> the callbacks its future has yet to run
    status,       \* request -> PredictTask._p.status
    fatalSeen,    \* the requests whose task has recorded a fatal exception
    completed,    \* request -> webhooks delivered with a terminal status, up to 2
    \* the HTTP server
    loop,         \* the request whose handler runs, or NoRequest
    pc,           \* request -> where its handler is, or the answer it gave
    answer,       \* request -> the status answered by a handler that waited
    canceling     \* the request whose task the cancel endpoint found, while it runs

setupVarsButHealth == <<setup, setupStatus, setupFuture>>
setupVars == <<setupVarsButHealth, health>>
workerVars == <<lost, inFlight, future, sent, outputs, requested>>
threadVars == <<at, on, event, todo>>
taskVars == <<tasks, subscribed, tracked, callbacks, status, fatalSeen, completed>>
httpVars == <<loop, pc, answer, canceling>>
vars == <<setupVars, workerVars, threadVars, taskVars, httpVars>>

Ended == {"succeeded", "failed", "canceled"}
Threads == Requests \cup {Consumer}
Answers == {"ok", "accepted", "existing", "refused", "error"}

Init == /\ setup = "running"
        /\ setupStatus = "none"
        /\ setupFuture = "pending"
        /\ health = "STARTING"
        /\ lost = "no"
        /\ inFlight = [i \in Ids |-> NoRequest]
        /\ future = [r \in Requests |-> "none"]
        /\ sent = {}
        /\ outputs = [r \in Requests |-> 0]
        /\ requested = {}
        /\ at = [th \in Threads |-> "idle"]
        /\ on = [th \in Threads |-> NoRequest]
        /\ event = [th \in Threads |-> "output"]
        /\ todo = [th \in Threads |-> {}]
        /\ tasks = [i \in Ids |-> NoRequest]
        /\ subscribed = {}
        /\ tracked = {}
        /\ callbacks = [r \in Requests |-> <<>>]
        /\ status = [r \in Requests |-> "none"]
        /\ fatalSeen = {}
        /\ completed = [r \in Requests |-> 0]
        /\ loop = NoRequest
        /\ pc = [r \in Requests |-> "none"]
        /\ answer = [r \in Requests |-> "none"]
        /\ canceling = NoRequest

-----------------------------------------------------------------------------
(* What a task does *)

\* n more webhooks with a terminal status; two stand for any greater number.
Count(r, n) == completed' = [completed EXCEPT ![r] = IF @ + n > 2 THEN 2 ELSE @ + n]

\* A webhook is sent: it counts when it says that the prediction has ended.
Posted(r, s) == Count(r, IF s \in Ended THEN 1 ELSE 0)

\* failed: the status is set, then the completed webhook is sent.  Its failure is
\* an exception that the caller logs.
Fail(r) == /\ status' = [status EXCEPT ![r] = "failed"]
           /\ Posted(r, "failed") \/ ("hook" \in Faults /\ UNCHANGED completed)

\* succeeded, failed, canceled.  A webhook that fails in spite of its retries lands
\* in the except clause of handle_event, which calls failed.
Finish(r, s) == \/ /\ status' = [status EXCEPT ![r] = s]
                   /\ Posted(r, s)
                \/ "hook" \in Faults /\ Fail(r)

\* PredictTask.handle_event.  An output of an asynchronous request is uploaded,
\* and failed is called when that is impossible.  Outputs and logs may be sent by
\* a webhook: never throttled, and retried, if the task has ended already.
HandleEvent(r, e) ==
    \/ e \in Ended /\ Finish(r, e)
    \/ e = "output" /\ UNCHANGED status /\ (Posted(r, status[r]) \/ UNCHANGED completed)
    \/ e = "output" /\ "upload" \in Faults /\ r \notin Waiters /\ Fail(r)
    \/ e = "output" /\ "hook" \in Faults /\ status[r] \in Ended /\ Fail(r)

\* SetupTask.handle_event: a Done without an error is a success.
SetupHandleEvent(e) ==
    setupStatus' = CASE e = "failed" -> "failed"
                     [] e = "output" -> setupStatus
                     [] OTHER -> "succeeded"

\* The callback of PredictionRunner.predict: whatever task the id has is dropped,
\* and a missing one is a KeyError that the future logs.
Remove(r) == /\ subscribed' = subscribed \ {r}
             /\ tasks' = [tasks EXCEPT ![IdOf[r]] = NoRequest]

\* PredictTask._handle_done: only a fatal error is left to handle.  The webhooks
\* come first, the exception is recorded last, and not at all if a webhook fails:
\* the one with the log, or the one that says failed.
HandleDone(r) ==
    IF future[r] # "fatal"
    THEN UNCHANGED <<status, completed, fatalSeen>>
    ELSE LET logged == IF status[r] \in Ended THEN 1 ELSE 0 IN
         \/ /\ status' = [status EXCEPT ![r] = "failed"]
            /\ Count(r, logged + 1)
            /\ fatalSeen' = fatalSeen \cup {r}
         \/ /\ "hook" \in Faults
            /\ status' = [status EXCEPT ![r] = "failed"]
            /\ Count(r, logged)
            /\ UNCHANGED fatalSeen
         \/ /\ "hook" \in Faults /\ logged = 1
            /\ UNCHANGED <<status, completed, fatalSeen>>

\* A callback of the future of r runs.  HandlePredictDone tells a lost worker from
\* the exception that the task has recorded.
HandlePredictDone(r) == health' = IF r \in fatalSeen THEN "DEFUNCT" ELSE health

RunCallback(r, c) ==
    /\ IF c = "done" THEN HandleDone(r) ELSE UNCHANGED <<status, completed, fatalSeen>>
    /\ IF c = "remove" THEN Remove(r) ELSE UNCHANGED <<subscribed, tasks>>
    /\ IF c = "health" THEN HandlePredictDone(r) ELSE UNCHANGED health

RunNothing == UNCHANGED <<status, completed, fatalSeen, subscribed, tasks, health>>

\* Mutant: the newest callback is run first.
AddCallbackFirst(r, c) ==
    IF future[r] = "pending"
    THEN callbacks' = [callbacks EXCEPT ![r] = <<c>> \o @] /\ RunNothing
    ELSE RunCallback(r, c) /\ UNCHANGED callbacks

\* Mutant: a callback that comes too late is lost.
AddCallbackLost(r, c) ==
    /\ callbacks' = [callbacks EXCEPT ![r] =
                        IF future[r] = "pending" THEN Append(@, c) ELSE @]
    /\ RunNothing

\* Future.add_done_callback: a resolved future runs it at once, in this thread.
AddCallback(r, c) ==
    IF future[r] = "pending"
    THEN callbacks' = [callbacks EXCEPT ![r] = Append(@, c)] /\ RunNothing
    ELSE RunCallback(r, c) /\ UNCHANGED callbacks

-----------------------------------------------------------------------------
(* Setup, on the consumer thread *)

\* The Done of setup reaches its task, or the child dies without one; the worker
\* becomes READY or DEFUNCT and resolves the future of setup.
SetupResolved(e) ==
    /\ setup = "running"
    /\ setup' = "resolved"
    /\ IF e = "fatal" THEN UNCHANGED setupStatus ELSE SetupHandleEvent(e)
    /\ setupFuture' = IF e = "succeeded" THEN "ok" ELSE "fatal"
    /\ UNCHANGED <<health, workerVars, threadVars, taskVars, httpVars>>

\* The first two callbacks: SetupTask._handle_done and unsubscribe.
SetupUnsubscribes ==
    /\ setup = "resolved"
    /\ setup' = "unsubscribed"
    /\ setupStatus' = IF setupFuture = "fatal" THEN "failed" ELSE setupStatus
    /\ UNCHANGED <<setupFuture, health, workerVars, threadVars, taskVars, httpVars>>

\* The third: _handle_setup_done of http.py.
SetupSettles ==
    /\ setup = "unsubscribed"
    /\ setup' = "settled"
    /\ health' = IF setupStatus = "succeeded" THEN "READY" ELSE "SETUP_FAILED"
    /\ UNCHANGED <<setupStatus, setupFuture, workerVars, threadVars, taskVars, httpVars>>

Setup == \/ \E e \in {"succeeded", "failed", "fatal"} : SetupResolved(e)
         \/ SetupUnsubscribes
         \/ SetupSettles

-----------------------------------------------------------------------------
(* The handlers of the HTTP server, on its event loop *)

Tasks == {tasks[i] : i \in Ids} \ {NoRequest}
SetupDone == setupFuture # "pending"
Resolved(r) == future[r] \notin {"none", "pending"}

\* Worker.predict refuses the request, or has to wait for _predictions_lock.
InFlight == {i \in Ids : inFlight[i] # NoRequest}
LockHeld == lost = "failing"
WorkerRefuses(r) == \/ setupFuture # "ok"
                    \/ lost # "no"
                    \/ Cardinality(InFlight) >= MaxConcurrency
                    \/ inFlight[IdOf[r]] # NoRequest

\* is_busy and _raise_if_busy ask every task whether it is done, which is an
\* AssertionError for a task that has no future.
Unaskable == \E q \in Tasks : q \notin tracked
Busy == \/ ~SetupDone
        \/ Cardinality({q \in Tasks : ~Resolved(q)}) >= MaxConcurrency

\* Mutant: the cancel endpoint lets other handlers run before it asks the worker.
LoopLetGo == loop = NoRequest

\* No handler runs: the cancel endpoint does not await anything either.
LoopFree == loop = NoRequest /\ canceling = NoRequest

\* The handler leaves the event loop with this answer.
Reply(r, reply, s) == /\ loop' = NoRequest
                      /\ pc' = [pc EXCEPT ![r] = reply]
                      /\ answer' = [answer EXCEPT ![r] = s]
                      /\ UNCHANGED canceling

\* The handler goes on.
GoTo(r, next) == /\ loop' = r
                 /\ pc' = [pc EXCEPT ![r] = next]
                 /\ UNCHANGED <<answer, canceling>>

\* predict_idempotent: is_busy.
IsBusy(r) ==
    /\ LoopFree
    /\ pc[r] = "none"
    /\ r \in Puts
    /\ \/ SetupDone /\ Unaskable /\ Reply(r, "error", "none")
       \/ ~(SetupDone /\ Unaskable) /\ GoTo(r, IF Busy THEN "lookup" ELSE "check")
    /\ UNCHANGED <<setupVars, workerVars, threadVars, taskVars>>

\* predict_idempotent: get_predict_task, whose task is answered as it is.
GetPredictTask(r) ==
    /\ pc[r] = "lookup"
    /\ LET q == tasks[IdOf[r]] IN
       IF q = NoRequest THEN GoTo(r, "check") ELSE Reply(r, "existing", "none")
    /\ UNCHANGED <<setupVars, workerVars, threadVars, taskVars>>

\* PredictionRunner.predict: _raise_if_busy.
RaiseIfBusy(r) ==
    /\ \/ pc[r] = "check"
       \/ pc[r] = "none" /\ r \notin Puts /\ LoopFree
    /\ \/ SetupDone /\ Unaskable /\ Reply(r, "error", "none")
       \/ ~(SetupDone /\ Unaskable) /\ Busy /\ Reply(r, "refused", "none")
       \/ ~(SetupDone /\ Unaskable) /\ ~Busy /\ GoTo(r, "enter")
    /\ UNCHANGED <<setupVars, workerVars, threadVars, taskVars>>

\* Mutant: the task does not subscribe before the worker has the call.
EnterUnsubscribed(r) ==
    /\ pc[r] = "enter"
    /\ tasks' = [tasks EXCEPT ![IdOf[r]] = r]
    /\ status' = [status EXCEPT ![r] = "processing"]
    /\ GoTo(r, "predict")
    /\ UNCHANGED <<setupVars, workerVars, threadVars,
                   subscribed, tracked, callbacks, fatalSeen, completed>>

\* The task is created, entered under its id, whatever was there, and subscribed to
\* it.  Nothing can tell these steps apart: only a handler reads tasks, and an event
\* in between could have been published before.
Enter(r) ==
    /\ pc[r] = "enter"
    /\ tasks' = [tasks EXCEPT ![IdOf[r]] = r]
    /\ status' = [status EXCEPT ![r] = "processing"]
    /\ subscribed' = subscribed \cup {r}
    /\ GoTo(r, "predict")
    /\ UNCHANGED <<setupVars, workerVars, threadVars,
                   tracked, callbacks, fatalSeen, completed>>

\* Worker.predict.  Its InvalidStateException leaves the task entered and
\* subscribed, and the endpoint answers with an internal error.
PredictRefused(r) ==
    /\ pc[r] = "predict"
    /\ ~LockHeld
    /\ WorkerRefuses(r)
    /\ Reply(r, "error", "none")
    /\ UNCHANGED <<setupVars, workerVars, threadVars, taskVars>>

Predict(r) ==
    /\ pc[r] = "predict"
    /\ ~LockHeld
    /\ ~WorkerRefuses(r)
    /\ inFlight' = [inFlight EXCEPT ![IdOf[r]] = r]
    /\ future' = [future EXCEPT ![r] = "pending"]
    /\ at' = [at EXCEPT ![r] = "start"]
    /\ GoTo(r, "start")
    /\ UNCHANGED <<setupVars, lost, sent, outputs, requested, on, event, todo, taskVars>>

\* PredictTask.track: the start webhook shows the status the task has by now.  If
\* that one is terminal and cannot be sent, track raises.
SendStart(r) ==
    /\ pc[r] = "start"
    /\ \/ Posted(r, status[r]) /\ GoTo(r, "done")
       \/ /\ "hook" \in Faults /\ status[r] \in Ended
          /\ UNCHANGED completed
          /\ Reply(r, "error", "none")
    /\ UNCHANGED <<setupVars, workerVars, threadVars,
                   tasks, subscribed, tracked, callbacks, status, fatalSeen>>

\* track gives the task its future; track, predict and _predict each add a callback.
AfterCallback == [done |-> "remove", remove |-> "health", health |-> "respond"]

Register(r, c) ==
    /\ pc[r] = c
    /\ AddCallback(r, c)
    /\ tracked' = IF c = "done" THEN tracked \cup {r} ELSE tracked
    /\ GoTo(r, AfterCallback[c])
    /\ UNCHANGED <<setupVarsButHealth, workerVars, threadVars>>

\* respond-async: the handler answers with the task as it is by now.
Accept(r) ==
    /\ pc[r] = "respond"
    /\ r \notin Waiters
    /\ Reply(r, "accepted", "none")
    /\ UNCHANGED <<setupVars, workerVars, threadVars, taskVars>>

\* Mutant: the handler waits for a callback even if the future is resolved.
WaitForever(r) ==
    /\ pc[r] = "respond"
    /\ r \in Waiters
    /\ loop' = NoRequest
    /\ pc' = [pc EXCEPT ![r] = "waiting"]
    /\ callbacks' = [callbacks EXCEPT ![r] = Append(@, "wake")]
    /\ RunNothing
    /\ UNCHANGED <<setupVarsButHealth, workerVars, threadVars, tracked, answer, canceling>>

\* wait_async adds the callback that wakes the handler; the event loop is free.
Wait(r) ==
    /\ pc[r] = "respond"
    /\ r \in Waiters
    /\ loop' = NoRequest
    /\ IF future[r] = "pending"
       THEN /\ pc' = [pc EXCEPT ![r] = "waiting"]
            /\ callbacks' = [callbacks EXCEPT ![r] = Append(@, "wake")]
       ELSE pc' = [pc EXCEPT ![r] = "awake"] /\ UNCHANGED callbacks
    /\ RunNothing
    /\ UNCHANGED <<setupVarsButHealth, workerVars, threadVars, tracked, answer, canceling>>

\* The handler that waited goes on: the exception of the future is an internal
\* error, anything else is answered with the task as it is by now.
Answer(r) ==
    /\ LoopFree
    /\ pc[r] = "awake"
    /\ IF future[r] = "fatal" THEN Reply(r, "error", "none") ELSE Reply(r, "ok", status[r])
    /\ UNCHANGED <<setupVars, workerVars, threadVars, taskVars>>

\* PredictionRunner.cancel goes on to the worker.
Cancelable(i) == tasks[i] \in tracked /\ ~Resolved(tasks[i])

\* The cancel endpoint finds the task under _predict_tasks_lock; anything else is
\* answered with 404, or is an AssertionError for a task without a future.
CancelLookup(i) ==
    /\ LoopFree
    /\ Cancelable(i)
    /\ canceling' = tasks[i]
    /\ UNCHANGED <<setupVars, workerVars, threadVars, taskVars, loop, pc, answer>>

\* Worker.cancel looks the id up again, under _predictions_lock.
WorkerCancel ==
    /\ canceling # NoRequest
    /\ ~LockHeld
    /\ canceling' = NoRequest
    /\ requested' = requested \cup ({inFlight[IdOf[canceling]]} \ {NoRequest})
    /\ UNCHANGED <<setupVars, lost, inFlight, future, sent, outputs,
                   threadVars, taskVars, loop, pc, answer>>

Cancel == (\E i \in Ids : CancelLookup(i)) \/ WorkerCancel

Handler(r) == \/ IsBusy(r) \/ GetPredictTask(r) \/ RaiseIfBusy(r)
              \/ Enter(r)
              \/ PredictRefused(r) \/ Predict(r) \/ SendStart(r)
              \/ \E c \in DOMAIN AfterCallback : Register(r, c)
              \/ Accept(r) \/ Wait(r) \/ Answer(r)

-----------------------------------------------------------------------------
(* The threads of the worker: the event consumer and the start pool *)

\* Mutant: an event goes to every task.
SubscribersOfAll(i) == subscribed

\* Worker._publish: the tasks that subscribed to the tag, and whoever subscribed
\* without one, which is the task of setup until it unsubscribes.
Subscribers(i) == {q \in subscribed : IdOf[q] = i}
                  \cup (IF setup \in {"unsubscribed", "settled"} THEN {} ELSE {SetupTask})

\* The thread has nothing more to do with a call.
Rest(th) == /\ at' = [at EXCEPT ![th] = "idle"]
            /\ on' = [on EXCEPT ![th] = NoRequest]
            /\ event' = [event EXCEPT ![th] = "output"]

\* The thread takes an event for the call of r and copies the list of subscribers.
Publish(th, r, e) ==
    /\ at[th] \in {"idle", "start"}
    /\ at' = [at EXCEPT ![th] = "publish"]
    /\ on' = [on EXCEPT ![th] = r]
    /\ event' = [event EXCEPT ![th] = e]
    /\ todo' = [todo EXCEPT ![th] = Subscribers(IdOf[r])]

\* The consumer receives an event of a call in flight: an output, or the Done, which
\* says canceled only if that was requested.  The last events of a child that died
\* are received first.
ConsumerReceives(r, e) ==
    /\ setup = "settled" /\ setupFuture = "ok"
    /\ lost = "no"
    /\ at[Consumer] = "idle"
    /\ inFlight[IdOf[r]] = r
    /\ r \in sent
    /\ e = "output" => outputs[r] < MaxOutputs
    /\ e = "canceled" => r \in requested
    /\ Publish(Consumer, r, e)
    /\ outputs' = IF e = "output" THEN [outputs EXCEPT ![r] = @ + 1] ELSE outputs
    /\ UNCHANGED <<setupVars, lost, inFlight, future, sent, requested, taskVars, httpVars>>

\* A thread of the start pool sends the input.
StarterSends(r) ==
    /\ at[r] = "start"
    /\ Rest(r)
    /\ sent' = sent \cup {r}
    /\ UNCHANGED <<setupVars, lost, inFlight, future, outputs, requested,
                   todo, taskVars, httpVars>>

\* It fails to download or to send the input, and publishes the Done itself.
StarterFails(r) ==
    /\ Faults \cap {"download", "kill"} # {}
    /\ at[r] = "start"
    /\ Publish(r, r, "failed")
    /\ UNCHANGED <<setupVars, workerVars, taskVars, httpVars>>

\* The next subscriber is called.
Deliver(th) ==
    /\ at[th] = "publish"
    /\ \E q \in todo[th] :
         /\ todo' = [todo EXCEPT ![th] = @ \ {q}]
         /\ IF q = SetupTask
            THEN SetupHandleEvent(event[th]) /\ UNCHANGED <<status, completed>>
            ELSE HandleEvent(q, event[th]) /\ UNCHANGED setupStatus
    /\ UNCHANGED <<setup, setupFuture, health, workerVars, at, on, event,
                   tasks, subscribed, tracked, callbacks, fatalSeen, httpVars>>

\* The calls under these ids are no longer in flight.
Forget(ids) == LET gone == {inFlight[i] : i \in ids} IN
    /\ inFlight' = [i \in Ids |-> IF i \in ids THEN NoRequest ELSE inFlight[i]]
    /\ sent' = sent \ gone
    /\ requested' = requested \ gone
    /\ outputs' = [r \in Requests |-> IF r \in gone THEN 0 ELSE outputs[r]]

\* _publish returns.  After a Done, _complete_prediction frees the slot; if the
\* consumer took the call in between, the pop is a KeyError and the thread gives up.
Published(th) ==
    /\ at[th] = "publish"
    /\ todo[th] = {}
    /\ LET i == IdOf[on[th]] IN
       \/ /\ event[th] = "output" \/ (~LockHeld /\ inFlight[i] = NoRequest)
          /\ Rest(th)
          /\ UNCHANGED <<inFlight, sent, outputs, requested>>
       \/ /\ event[th] # "output" /\ ~LockHeld /\ inFlight[i] # NoRequest
          /\ at' = [at EXCEPT ![th] = "resolve"]
          /\ Forget({i})
          /\ UNCHANGED <<on, event>>
    /\ UNCHANGED <<setupVars, lost, future, todo, taskVars, httpVars>>

\* The future is resolved; its callbacks come next.
Resolve(th) ==
    /\ at[th] = "resolve"
    /\ at' = [at EXCEPT ![th] = "callbacks"]
    /\ future' = [future EXCEPT ![on[th]] = event[th]]
    /\ UNCHANGED <<setupVars, lost, inFlight, sent, outputs, requested,
                   on, event, todo, taskVars, httpVars>>

\* The thread that resolved a future runs the next of its callbacks.
RunNextCallback(th) ==
    /\ at[th] = "callbacks"
    /\ LET r == on[th] IN
       /\ callbacks[r] # <<>>
       /\ RunCallback(r, Head(callbacks[r]))
       /\ callbacks' = [callbacks EXCEPT ![r] = Tail(@)]
       /\ pc' = IF Head(callbacks[r]) = "wake" THEN [pc EXCEPT ![r] = "awake"] ELSE pc
    /\ UNCHANGED <<setupVarsButHealth, workerVars, threadVars, tracked,
                   loop, answer, canceling>>

\* All of them have run.
CallbacksEnd(th) ==
    /\ at[th] = "callbacks"
    /\ callbacks[on[th]] = <<>>
    /\ Rest(th)
    /\ UNCHANGED <<setupVars, workerVars, todo, taskVars, httpVars>>

\* The child has died and its last events are dealt with: the worker is DEFUNCT.
ChildLost ==
    /\ "kill" \in Faults
    /\ setup = "settled" /\ setupFuture = "ok"
    /\ lost = "no"
    /\ at[Consumer] = "idle"
    /\ lost' = "defunct"
    /\ UNCHANGED <<setupVars, inFlight, future, sent, outputs, requested,
                   threadVars, taskVars, httpVars>>

\* The consumer takes _predictions_lock and fails the calls in flight one by one;
\* their callbacks run under the lock.
TakeLock ==
    /\ lost = "defunct"
    /\ lost' = "failing"
    /\ UNCHANGED <<setupVars, inFlight, future, sent, outputs, requested,
                   threadVars, taskVars, httpVars>>

FailCall(i) ==
    /\ LockHeld
    /\ at[Consumer] = "idle"
    /\ inFlight[i] # NoRequest
    /\ future[inFlight[i]] = "pending"
    /\ future' = [future EXCEPT ![inFlight[i]] = "fatal"]
    /\ at' = [at EXCEPT ![Consumer] = "callbacks"]
    /\ on' = [on EXCEPT ![Consumer] = inFlight[i]]
    /\ UNCHANGED <<setupVars, lost, inFlight, sent, outputs, requested,
                   event, todo, taskVars, httpVars>>

ReleaseLock ==
    /\ LockHeld
    /\ at[Consumer] = "idle"
    /\ \A i \in InFlight : Resolved(inFlight[i])
    /\ Forget(Ids)
    /\ lost' = "failed"
    /\ UNCHANGED <<setupVars, future, threadVars, taskVars, httpVars>>

Thread(th) == Deliver(th) \/ Published(th) \/ Resolve(th) \/ RunNextCallback(th) \/ CallbacksEnd(th)

Failing == TakeLock \/ (\E i \in Ids : FailCall(i)) \/ ReleaseLock

Starter(r) == StarterSends(r) \/ StarterFails(r)

Next == \/ Setup
        \/ \E r \in Requests : Handler(r) \/ Starter(r)
        \/ Cancel
        \/ \E r \in Requests, e \in {"output"} \cup Ended : ConsumerReceives(r, e)
        \/ \E th \in Threads : Thread(th)
        \/ ChildLost \/ Failing

Spec == Init /\ [][Next]_vars

\* The event loop, the consumer and the threads of the start pool keep running, and
\* a prediction ends.  That a request or a cancelation comes, an output is produced
\* or the child dies is never assumed.
LoopRuns == WorkerCancel \/ \E r \in Requests : (loop = r /\ Handler(r)) \/ Answer(r)
ConsumerRuns == \/ Setup
                \/ \E r \in Requests, e \in Ended : ConsumerReceives(r, e)
                \/ Thread(Consumer)
                \/ Failing
StarterRuns(r) == Starter(r) \/ Thread(r)

Fairness == /\ WF_vars(LoopRuns)
            /\ WF_vars(ConsumerRuns)
            /\ \A r \in Requests : WF_vars(StarterRuns(r))

FairSpec == Spec /\ Fairness

-----------------------------------------------------------------------------
(* Properties *)

\* Requests whose id nobody else uses.
OnlyUser(r) == \A q \in Requests : IdOf[q] = IdOf[r] => q = r

\* A task agrees with the future it tracks: the events came before the resolution
\* and were handled by this task (runner.py, PredictTask; worker.py, _publish before
\* _complete_prediction).
StatusAgrees == \A r \in Requests :
    OnlyUser(r) /\ future[r] \in Ended => status[r] = future[r]

\* A task reaches one terminal status and keeps it (runner.py: succeeded, failed and
\* canceled are called from handle_event, its except clause and _handle_done).
TerminalIsFinal == [][\A r \in Requests :
    OnlyUser(r) /\ status[r] \in Ended => status'[r] = status[r]]_vars

\* When the callbacks of a future have run, whoever ran them, its task is subscribed
\* no longer and the runner has forgotten it (runner.py, _task_done_callback).
FinishedIsForgotten == \A r \in tracked :
    /\ Resolved(r)
    /\ callbacks[r] = <<>>
    /\ pc[r] # "remove"
    => r \notin subscribed /\ tasks[IdOf[r]] # r

\* A cancelation that reaches the worker hits the unresolved call of the task that the
\* runner found under the id, though the two look the id up one after the other, under
\* locks of their own, and the worker's threads run in between (runner.py, cancel;
\* worker.py, cancel).
CancelHitsTheTask == [][\A r \in requested' \ requested :
    r = canceling /\ future[r] = "pending"]_vars

\* Every request is answered, and one that is answered with 202 is reported by a
\* webhook when its prediction has ended, even if the child dies (http.py, _predict;
\* runner.py, _handle_done).
RequestsAreServed == \A r \in Requests :
    pc[r] # "none" ~> /\ pc[r] \in Answers
                      /\ pc[r] = "accepted" => completed[r] > 0

\* A call that was registered in time and is lost with the child makes the server
\* DEFUNCT (http.py, _handle_predict_done).
FatalIsNoticed == \A r \in Requests :
    future[r] = "pending" /\ pc[r] \in {"respond", "waiting", "accepted"}
        ~> future[r] \in Ended \/ health = "DEFUNCT"

=============================================================================
