---------------------------- MODULE RunnerProofs ----------------------------
(***************************************************************************)
(* Proofs about PredictionRunner, for any number of requests, any ids,     *)
(* shared or not, and any concurrency.                                     *)
(***************************************************************************)
EXTENDS PredictionRunner, SequenceTheorems, TLAPS

Events == {"output"} \cup Ended
Futures == {"none", "pending", "fatal"} \cup Ended
Callbacks == {"done", "remove", "health", "wake"}

\* The handler of a request runs; it has yet to register the call with the worker.
BeforePredict == {"lookup", "check", "enter", "predict"}
InHandler == BeforePredict \cup {"start", "done", "remove", "health", "respond"}
Places == {"none", "waiting", "awake"} \cup InHandler \cup Answers

WorkerTyped ==
    /\ lost \in {"no", "defunct", "failing", "failed"}
    /\ inFlight \in [Ids -> Requests \cup {NoRequest}]
    /\ future \in [Requests -> Futures]
    /\ sent \subseteq Requests
    /\ requested \subseteq Requests

ThreadsTyped ==
    /\ at \in [Threads -> {"idle", "start", "publish", "resolve", "callbacks"}]
    /\ on \in [Threads -> Requests \cup {NoRequest}]
    /\ event \in [Threads -> Events]
    /\ todo \in [Threads -> SUBSET (Requests \cup {SetupTask})]

TasksTyped ==
    /\ tasks \in [Ids -> Requests \cup {NoRequest}]
    /\ \A i \in Ids : tasks[i] # NoRequest => IdOf[tasks[i]] = i
    /\ subscribed \subseteq Requests
    /\ tracked \subseteq Requests
    /\ callbacks \in [Requests -> Seq(Callbacks)]

StatusTyped == status \in [Requests -> {"none", "processing"} \cup Ended]

HttpTyped == /\ loop \in Requests \cup {NoRequest}
             /\ pc \in [Requests -> Places]
             /\ canceling \in Requests \cup {NoRequest}

TypeInv == WorkerTyped /\ ThreadsTyped /\ TasksTyped /\ StatusTyped /\ HttpTyped

\* One handler runs at a time, and a request is registered with the worker once.
HandlerInv == \A r \in Requests :
    /\ pc[r] \in InHandler => loop = r
    /\ pc[r] \in {"none"} \cup BeforePredict => future[r] = "none"
    /\ pc[r] \in InHandler \ BeforePredict => future[r] # "none"
    /\ future[r] = "none" => at[r] = "idle" /\ r \notin tracked /\ r \notin sent

\* From its entry to its registration, nobody takes the place of a task; it is
\* subscribed until its future is resolved.
EntryInv == \A r \in Requests :
    /\ pc[r] = "predict" => tasks[IdOf[r]] \in {r, NoRequest} /\ r \in subscribed
    /\ pc[r] \in {"start", "done"} =>
         inFlight[IdOf[r]] \in {r, NoRequest} /\ r \notin tracked
    /\ future[r] = "pending" => r \in subscribed

\* A task with a future is forgotten already, or a callback will do so.
Awaits(r, c) == \E n \in 1 .. Len(callbacks[r]) : callbacks[r][n] = c

RemovalInv == \A r \in tracked :
    pc[r] # "remove" => \/ Awaits(r, "remove")
                        \/ r \notin subscribed /\ tasks[IdOf[r]] # r

\* A handler that is to be woken has nothing else left to do.
WakeInv == \A r \in Requests :
    Awaits(r, "wake") => pc[r] \in {"waiting", "awake"} \cup Answers

\* A call in flight is under its id and unresolved, unless the worker is failing
\* all of them; the runner knows no other task with a future under that id.
SlotInv == \A i \in Ids : inFlight[i] # NoRequest =>
    /\ IdOf[inFlight[i]] = i
    /\ future[inFlight[i]] \in {"pending", "fatal"}
    /\ future[inFlight[i]] = "fatal" => LockHeld
    /\ lost # "failed"
    /\ tasks[i] \in tracked => tasks[i] = inFlight[i]

\* The call of r is in flight, or was failed together with the child.
HasSlot(r) == inFlight[IdOf[r]] = r \/ (lost = "failed" /\ future[r] = "fatal")

\* A start-pool thread works on its own call, and only to say that it failed.
ThreadInv == \A th \in Threads :
    /\ at[th] = "start" => th \in Requests /\ HasSlot(th)
    /\ at[th] \in {"publish", "resolve", "callbacks"} =>
         /\ on[th] \in Requests
         /\ th # Consumer => on[th] = th /\ event[th] = "failed"
    /\ at[th] = "publish" => HasSlot(on[th])
    /\ at[th] = "resolve" => /\ future[on[th]] = "pending"
                             /\ inFlight[IdOf[on[th]]] # on[th]
                             /\ event[th] \in Ended
    /\ at[th] = "callbacks" => Resolved(on[th])

\* Only the subscribers of its id receive an event.
TodoInv == \A th \in Threads :
    /\ at[th] = "publish" => \A q \in todo[th] \cap Requests : IdOf[q] = IdOf[on[th]]
    /\ at[th] # "publish" => todo[th] = {}

\* The start pool is done with a call before the child answers it.
ConsumerInv ==
    /\ \A r \in sent : at[r] = "idle"
    /\ at[Consumer] \in {"publish", "resolve"} =>
         /\ lost = "no"
         /\ future[on[Consumer]] = "pending"
         /\ at[on[Consumer]] = "idle"

RunnerInv == /\ TypeInv
             /\ HandlerInv /\ EntryInv /\ RemovalInv /\ WakeInv
             /\ SlotInv /\ ThreadInv /\ TodoInv /\ ConsumerInv

\* No output upload and no terminal webhook fails.
NothingUnsent == Faults \cap {"upload", "hook"} = {}

\* What the status of a task is while its future is pending, and after.
Tells(th, r) == on[th] = r /\ event[th] = status[r] /\ at[th] \in {"publish", "resolve"}

StatusOf(r) ==
    /\ future[r] = "none" => status[r] \notin Ended
    /\ future[r] = "fatal" => status[r] \notin {"succeeded", "canceled"}
    /\ future[r] \in Ended => status[r] = future[r]
    /\ future[r] = "pending" /\ status[r] \in Ended => Tells(r, r) \/ Tells(Consumer, r)
    /\ \A th \in {r, Consumer} :
         on[th] = r /\ event[th] \in Ended /\ future[r] = "pending" =>
             /\ at[th] = "publish" => r \in todo[th] \/ status[r] = event[th]
             /\ at[th] = "resolve" => status[r] = event[th]

StatusInv == \A r \in Requests : OnlyUser(r) => StatusOf(r)

-----------------------------------------------------------------------------
(* The handlers                                                            *)

\* What the runner and the worker know is left alone.
OnlyHttp == UNCHANGED <<workerVars, threadVars, tasks, subscribed, tracked, callbacks, status>>

\* The handler of r goes from one place to another.
Moves(r, places) ==
    /\ loop = NoRequest \/ pc[r] \in InHandler
    /\ UNCHANGED canceling
    /\ \E x \in places : /\ pc' = [pc EXCEPT ![r] = x]
                         /\ loop' = IF x \in InHandler THEN r ELSE NoRequest

LEMMA MovesInv ==
    ASSUME RunnerInv, NEW r \in Requests, NEW places \in SUBSET Places,
           Moves(r, places)
    PROVE  /\ HttpTyped'
           /\ \A q \in Requests : pc'[q] \in InHandler => loop' = q
           /\ pc'[r] \in places
           /\ \A q \in Requests \ {r} : pc'[q] = pc[q]
<1>1. PICK x \in places : /\ pc' = [pc EXCEPT ![r] = x]
                          /\ loop' = IF x \in InHandler THEN r ELSE NoRequest
  BY DEF Moves
<1>2. x \in Places
  OBVIOUS
<1>3. HttpTyped'
  BY <1>1, <1>2 DEF RunnerInv, TypeInv, HttpTyped, Moves
<1>4. ASSUME NEW q \in Requests, pc'[q] \in InHandler PROVE loop' = q
  BY <1>1, <1>4, RunnerAssumption
     DEF RunnerInv, TypeInv, HttpTyped, HandlerInv, Moves, RunnerAssumption
<1> QED
  BY <1>1, <1>3, <1>4 DEF RunnerInv, TypeInv, HttpTyped

\* A handler that only moves breaks nothing, if it goes forward.
LEMMA OnlyHttpInv ==
    ASSUME RunnerInv, NEW r \in Requests, OnlyHttp,
           NEW places \in SUBSET Places, Moves(r, places),
           pc[r] # "remove",
           places \subseteq {"lookup", "check", "enter", "done"} \cup Answers,
           "done" \in places => pc[r] = "start",
           places \cap BeforePredict # {} => pc[r] \in {"none"} \cup BeforePredict,
           pc[r] \in {"waiting", "awake"} \cup Answers => places \subseteq Answers
    PROVE  RunnerInv'
<1> USE DEF RunnerInv, OnlyHttp, workerVars, threadVars
<1> DEFINE Next0 == /\ HttpTyped'
                    /\ \A q \in Requests : pc'[q] \in InHandler => loop' = q
                    /\ pc'[r] \in places
                    /\ \A q \in Requests \ {r} : pc'[q] = pc[q]
<1>0. Next0
  BY MovesInv
<1>1. TypeInv'
  BY <1>0 DEF TypeInv, WorkerTyped, ThreadsTyped, TasksTyped, StatusTyped
<1>2. HandlerInv'
  BY <1>0 DEF HandlerInv, InHandler, BeforePredict, Answers
<1>3. EntryInv'
  BY <1>0 DEF EntryInv, Answers
<1>4. RemovalInv'
  BY <1>0 DEF RemovalInv, Awaits, TypeInv, TasksTyped, Answers
<1>5. SlotInv'
  BY DEF SlotInv, LockHeld
<1>6. ThreadInv' /\ TodoInv'
  BY DEF ThreadInv, TodoInv, HasSlot, Resolved
<1>7. ConsumerInv'
  BY DEF ConsumerInv
<1>8. WakeInv'
  BY <1>0 DEF WakeInv, Awaits
<1> QED
  BY <1>1, <1>2, <1>3, <1>4, <1>5, <1>6, <1>7, <1>8

\* The steps of a handler before the task is entered, its answers, and the start
\* webhook.
LEMMA HandlerMoves ==
    ASSUME RunnerInv, NEW r \in Requests,
           \/ IsBusy(r) \/ GetPredictTask(r) \/ RaiseIfBusy(r) \/ PredictRefused(r)
           \/ SendStart(r) \/ Accept(r) \/ Answer(r)
    PROVE  RunnerInv' /\ OnlyHttp /\ UNCHANGED requested
<1> USE DEF GoTo, Reply, Moves, LoopFree, OnlyHttp, taskVars, workerVars, InHandler,
            BeforePredict, Places, Answers
<1>1. ASSUME IsBusy(r) PROVE OnlyHttp /\ Moves(r, {"error", "lookup", "check"})
  BY <1>1 DEF IsBusy
<1>2. ASSUME GetPredictTask(r) PROVE OnlyHttp /\ Moves(r, {"check", "existing"})
  BY <1>2 DEF GetPredictTask
<1>3. ASSUME RaiseIfBusy(r) PROVE OnlyHttp /\ Moves(r, {"error", "refused", "enter"})
  BY <1>3 DEF RaiseIfBusy
<1>4. ASSUME PredictRefused(r) PROVE OnlyHttp /\ Moves(r, {"error"})
  BY <1>4 DEF PredictRefused
<1>5. ASSUME SendStart(r) PROVE OnlyHttp /\ Moves(r, {"done", "error"})
  BY <1>5 DEF SendStart
<1>6. ASSUME Accept(r) PROVE OnlyHttp /\ Moves(r, {"accepted"})
  BY <1>6 DEF Accept
<1>7. ASSUME Answer(r) PROVE OnlyHttp /\ Moves(r, {"error", "ok"})
  BY <1>7 DEF Answer
<1>8. ASSUME IsBusy(r) PROVE RunnerInv'
  <2>1. pc[r] = "none"
    BY <1>8 DEF IsBusy
  <2> HIDE DEF GoTo, Reply, Moves, OnlyHttp, taskVars, workerVars
  <2> QED
    BY <1>8, <1>1, <2>1, OnlyHttpInv
<1>9. ASSUME GetPredictTask(r) PROVE RunnerInv'
  <2>1. pc[r] = "lookup"
    BY <1>9 DEF GetPredictTask
  <2> HIDE DEF GoTo, Reply, Moves, OnlyHttp, taskVars, workerVars
  <2> QED
    BY <1>9, <1>2, <2>1, OnlyHttpInv
<1>10. ASSUME RaiseIfBusy(r) PROVE RunnerInv'
  <2>1. pc[r] \in {"none", "check"}
    BY <1>10 DEF RaiseIfBusy
  <2> HIDE DEF GoTo, Reply, Moves, OnlyHttp, taskVars, workerVars
  <2> QED
    BY <1>10, <1>3, <2>1, OnlyHttpInv
<1>11. ASSUME PredictRefused(r) PROVE RunnerInv'
  <2>1. pc[r] = "predict"
    BY <1>11 DEF PredictRefused
  <2> HIDE DEF GoTo, Reply, Moves, OnlyHttp, taskVars, workerVars
  <2> QED
    BY <1>11, <1>4, <2>1, OnlyHttpInv
<1>12. ASSUME SendStart(r) PROVE RunnerInv'
  <2>1. pc[r] = "start"
    BY <1>12 DEF SendStart
  <2> HIDE DEF GoTo, Reply, Moves, OnlyHttp, taskVars, workerVars
  <2> QED
    BY <1>12, <1>5, <2>1, OnlyHttpInv
<1>13. ASSUME Accept(r) PROVE RunnerInv'
  <2>1. pc[r] = "respond"
    BY <1>13 DEF Accept
  <2> HIDE DEF GoTo, Reply, Moves, OnlyHttp, taskVars, workerVars
  <2> QED
    BY <1>13, <1>6, <2>1, OnlyHttpInv
<1>14. ASSUME Answer(r) PROVE RunnerInv'
  <2>1. pc[r] = "awake"
    BY <1>14 DEF Answer
  <2> HIDE DEF GoTo, Reply, Moves, OnlyHttp, taskVars, workerVars
  <2> QED
    BY <1>14, <1>7, <2>1, OnlyHttpInv
<1>15. OnlyHttp /\ UNCHANGED requested
  BY <1>1, <1>2, <1>3, <1>4, <1>5, <1>6, <1>7
<1> QED
  BY <1>8, <1>9, <1>10, <1>11, <1>12, <1>13, <1>14, <1>15

\* The task is entered: it has no future yet, and nobody else becomes tracked.
LEMMA EnterInv ==
    ASSUME RunnerInv, NEW r \in Requests, Enter(r)
    PROVE  RunnerInv'
<1> USE DEF RunnerInv, workerVars, threadVars
<1>0. /\ tasks' = [tasks EXCEPT ![IdOf[r]] = r]
      /\ status' = [status EXCEPT ![r] = "processing"]
      /\ subscribed' = subscribed \cup {r}
      /\ UNCHANGED <<workerVars, threadVars, tracked, callbacks>>
      /\ pc[r] = "enter" /\ pc' = [pc EXCEPT ![r] = "predict"] /\ loop' = r
      /\ UNCHANGED canceling
  BY DEF Enter, GoTo
<1> USE <1>0
<1>1. TypeInv'
  BY RunnerAssumption DEF TypeInv, WorkerTyped, ThreadsTyped, TasksTyped, StatusTyped,
     HttpTyped, Places, InHandler, BeforePredict, RunnerAssumption
<1>2. HandlerInv'
  BY DEF HandlerInv, TypeInv, HttpTyped, InHandler, BeforePredict
<1>3. r \notin tracked /\ future[r] = "none" /\ loop = r
  BY DEF HandlerInv, InHandler, BeforePredict
<1>4. EntryInv'
  <2> SUFFICES ASSUME NEW q \in Requests
               PROVE  /\ pc'[q] = "predict" =>
                           tasks'[IdOf[q]] \in {q, NoRequest} /\ q \in subscribed'
                      /\ pc'[q] \in {"start", "done"} =>
                           inFlight'[IdOf[q]] \in {q, NoRequest} /\ q \notin tracked'
                      /\ future'[q] = "pending" => q \in subscribed'
    BY DEF EntryInv
  <2>1. CASE q = r
    BY <1>3, <2>1, RunnerAssumption
       DEF TypeInv, HttpTyped, TasksTyped, RunnerAssumption
  <2>2. CASE q # r
    BY <1>3, <2>2 DEF EntryInv, HandlerInv, InHandler, BeforePredict, TypeInv, HttpTyped
  <2> QED
    BY <2>1, <2>2
<1>5. RemovalInv'
  BY <1>3, RunnerAssumption
     DEF RemovalInv, Awaits, TypeInv, TasksTyped, HttpTyped, RunnerAssumption
<1>6. SlotInv'
  BY <1>3 DEF SlotInv, LockHeld, TypeInv, TasksTyped
<1>7. ThreadInv' /\ TodoInv'
  BY DEF ThreadInv, TodoInv, HasSlot, Resolved
<1>8. ConsumerInv'
  BY DEF ConsumerInv
<1>9. WakeInv'
  BY DEF WakeInv, Awaits, TypeInv, HttpTyped, Answers
<1> QED
  BY <1>1, <1>2, <1>4, <1>5, <1>6, <1>7, <1>8, <1>9

\* The worker accepts the call: its slot was free.
LEMMA PredictInv ==
    ASSUME RunnerInv, NEW r \in Requests, Predict(r)
    PROVE  RunnerInv'
<1> USE DEF RunnerInv
<1>0. /\ inFlight' = [inFlight EXCEPT ![IdOf[r]] = r]
      /\ future' = [future EXCEPT ![r] = "pending"]
      /\ at' = [at EXCEPT ![r] = "start"]
      /\ pc[r] = "predict" /\ pc' = [pc EXCEPT ![r] = "start"] /\ loop' = r
      /\ UNCHANGED canceling
      /\ UNCHANGED <<lost, sent, requested, on, event, todo>>
      /\ UNCHANGED <<tasks, subscribed, tracked, callbacks, status>>
      /\ lost = "no" /\ inFlight[IdOf[r]] = NoRequest
  BY DEF Predict, GoTo, WorkerRefuses, taskVars
<1> USE <1>0
<1>1. TypeInv'
  BY RunnerAssumption DEF TypeInv, WorkerTyped, ThreadsTyped, TasksTyped, StatusTyped,
     HttpTyped, Places, InHandler, Futures, Threads, RunnerAssumption
<1>2. r \notin tracked /\ future[r] = "none" /\ loop = r /\ at[r] = "idle" /\ r \notin sent
  BY DEF HandlerInv, InHandler, BeforePredict
<1>3. HandlerInv'
  BY <1>2 DEF HandlerInv, TypeInv, HttpTyped, WorkerTyped, ThreadsTyped, InHandler,
     BeforePredict, Threads
<1>4. EntryInv'
  <2> SUFFICES ASSUME NEW q \in Requests
               PROVE  /\ pc'[q] = "predict" =>
                           tasks'[IdOf[q]] \in {q, NoRequest} /\ q \in subscribed'
                      /\ pc'[q] \in {"start", "done"} =>
                           inFlight'[IdOf[q]] \in {q, NoRequest} /\ q \notin tracked'
                      /\ future'[q] = "pending" => q \in subscribed'
    BY DEF EntryInv
  <2>1. CASE q = r
    BY <1>2, <2>1, RunnerAssumption
       DEF TypeInv, HttpTyped, WorkerTyped, EntryInv, RunnerAssumption
  <2>2. CASE q # r
    BY <1>2, <2>2 DEF EntryInv, HandlerInv, InHandler, BeforePredict, TypeInv, HttpTyped,
       WorkerTyped
  <2> QED
    BY <2>1, <2>2
<1>5. RemovalInv'
  BY <1>2 DEF RemovalInv, Awaits, TypeInv, TasksTyped, HttpTyped
<1>6. SlotInv'
  BY <1>2, RunnerAssumption
     DEF SlotInv, LockHeld, EntryInv, TypeInv, WorkerTyped, TasksTyped, RunnerAssumption
<1>7. \A q \in Requests : HasSlot(q) => HasSlot(q)' /\ q # r
  BY <1>2, RunnerAssumption DEF HasSlot, TypeInv, WorkerTyped, SlotInv, RunnerAssumption
<1>8. ThreadInv'
  <2>1. HasSlot(r)'
    BY RunnerAssumption DEF HasSlot, TypeInv, WorkerTyped, RunnerAssumption
  <2> SUFFICES ASSUME NEW th \in Threads
               PROVE  (/\ at[th] = "start" => th \in Requests /\ HasSlot(th)
                       /\ at[th] \in {"publish", "resolve", "callbacks"} =>
                            /\ on[th] \in Requests
                            /\ th # Consumer => on[th] = th /\ event[th] = "failed"
                       /\ at[th] = "publish" => HasSlot(on[th])
                       /\ at[th] = "resolve" => /\ future[on[th]] = "pending"
                                                /\ inFlight[IdOf[on[th]]] # on[th]
                                                /\ event[th] \in Ended
                       /\ at[th] = "callbacks" => Resolved(on[th]))'
    BY DEF ThreadInv
  <2>2. CASE th = r
    BY <2>1, <2>2 DEF TypeInv, ThreadsTyped
  <2>3. CASE th # r
    BY <1>2, <1>7, <2>3, RunnerAssumption
       DEF ThreadInv, Resolved, TypeInv, ThreadsTyped, WorkerTyped, RunnerAssumption
  <2> QED
    BY <2>2, <2>3
<1>9. TodoInv'
  BY <1>2 DEF TodoInv, TypeInv, ThreadsTyped
<1>10. ConsumerInv'
  BY <1>2, RunnerAssumption
     DEF ConsumerInv, ThreadInv, TypeInv, ThreadsTyped, WorkerTyped, Threads, RunnerAssumption
<1>11. WakeInv'
  BY DEF WakeInv, Awaits, TypeInv, HttpTyped, Answers
<1> QED
  BY <1>1, <1>3, <1>4, <1>5, <1>6, <1>8, <1>9, <1>10, <1>11

-----------------------------------------------------------------------------
(* Callbacks                                                               *)

\* A callback that is added is awaited, and so are those before it.
LEMMA AwaitsAdded ==
    ASSUME TasksTyped, NEW r \in Requests, NEW c \in Callbacks,
           callbacks' = [callbacks EXCEPT ![r] = Append(@, c)]
    PROVE  /\ callbacks' \in [Requests -> Seq(Callbacks)]
           /\ Awaits(r, c)'
           /\ \A q \in Requests, d \in Callbacks : Awaits(q, d) => Awaits(q, d)'
           /\ \A q \in Requests, d \in Callbacks :
                 Awaits(q, d)' => Awaits(q, d) \/ (q = r /\ d = c)
<1> DEFINE s == callbacks[r]
<1>1. s \in Seq(Callbacks)
  BY DEF TasksTyped
<1>2. callbacks'[r] = Append(s, c) /\ \A q \in Requests \ {r} : callbacks'[q] = callbacks[q]
  BY DEF TasksTyped
<1>3. Append(s, c) \in Seq(Callbacks)
  BY <1>1, AppendProperties
<1>4. callbacks' \in [Requests -> Seq(Callbacks)]
  BY <1>3 DEF TasksTyped
<1>5. /\ Len(Append(s, c)) = Len(s) + 1
      /\ \A n \in 1 .. Len(s) : Append(s, c)[n] = s[n]
      /\ Append(s, c)[Len(s) + 1] = c
      /\ Len(s) \in Nat
  BY <1>1, AppendProperties, LenProperties
<1> HIDE DEF s
<1>6. Awaits(r, c)'
  BY <1>2, <1>5 DEF Awaits
<1>7. ASSUME NEW d \in Callbacks, \E n \in 1 .. Len(s) : s[n] = d
      PROVE  Awaits(r, d)'
  BY <1>2, <1>5, <1>7 DEF Awaits
<1>8. ASSUME NEW d \in Callbacks, Awaits(r, d)
      PROVE  Awaits(r, d)'
  BY <1>7, <1>8 DEF Awaits, s
<1>9. ASSUME NEW q \in Requests \ {r}, NEW d \in Callbacks, Awaits(q, d)
      PROVE  Awaits(q, d)'
  BY <1>2, <1>9 DEF Awaits
<1>10. ASSUME NEW d \in Callbacks, Awaits(r, d)'
       PROVE  d = c \/ \E n \in 1 .. Len(s) : s[n] = d
  <2>1. PICK n \in 1 .. Len(s) + 1 : Append(s, c)[n] = d
    BY <1>2, <1>5, <1>10 DEF Awaits
  <2>2. n \in 1 .. Len(s) \/ n = Len(s) + 1
    BY <1>5
  <2> QED
    BY <1>5, <2>1, <2>2
<1>11. ASSUME NEW d \in Callbacks, Awaits(r, d)'
       PROVE  d = c \/ Awaits(r, d)
  BY <1>10, <1>11 DEF Awaits, s
<1>12. ASSUME NEW q \in Requests \ {r}, NEW d \in Callbacks, Awaits(q, d)'
       PROVE  Awaits(q, d)
  BY <1>2, <1>12 DEF Awaits
<1> QED
  BY <1>4, <1>6, <1>8, <1>9, <1>11, <1>12

\* A callback that has run is awaited no longer, the others are.
LEMMA AwaitsRun ==
    ASSUME TasksTyped, NEW r \in Requests, callbacks[r] # <<>>,
           callbacks' = [callbacks EXCEPT ![r] = Tail(@)]
    PROVE  /\ callbacks' \in [Requests -> Seq(Callbacks)]
           /\ Head(callbacks[r]) \in Callbacks
           /\ \A q \in Requests, d \in Callbacks :
                 Awaits(q, d) => Awaits(q, d)' \/ (q = r /\ d = Head(callbacks[r]))
           /\ \A q \in Requests, d \in Callbacks : Awaits(q, d)' => Awaits(q, d)
<1> DEFINE s == callbacks[r]
<1>1. s \in Seq(Callbacks) /\ s # <<>>
  BY DEF TasksTyped
<1>2. callbacks'[r] = Tail(s) /\ \A q \in Requests \ {r} : callbacks'[q] = callbacks[q]
  BY DEF TasksTyped
<1>3. /\ Tail(s) \in Seq(Callbacks) /\ Head(s) \in Callbacks
      /\ Len(Tail(s)) = Len(s) - 1
      /\ \A n \in 1 .. Len(Tail(s)) : Tail(s)[n] = s[n + 1]
      /\ Len(s) \in Nat /\ Head(s) = s[1]
  BY <1>1, HeadTailProperties, LenProperties
<1>4. callbacks' \in [Requests -> Seq(Callbacks)]
  BY <1>3 DEF TasksTyped
<1> HIDE DEF s
<1>5. ASSUME NEW d \in Callbacks, NEW n \in 1 .. Len(s), s[n] = d, d # Head(s)
      PROVE  Awaits(r, d)'
  <2>1. n - 1 \in 1 .. Len(Tail(s)) /\ Tail(s)[n - 1] = d
    BY <1>3, <1>5
  <2> QED
    BY <1>2, <2>1 DEF Awaits
<1>6. ASSUME NEW d \in Callbacks, Awaits(r, d)
      PROVE  Awaits(r, d)' \/ d = Head(s)
  <2>1. PICK n \in 1 .. Len(s) : s[n] = d
    BY <1>6 DEF Awaits, s
  <2> QED
    BY <2>1, <1>5
<1>7. ASSUME NEW q \in Requests \ {r}, NEW d \in Callbacks, Awaits(q, d)
      PROVE  Awaits(q, d)'
  BY <1>2, <1>7 DEF Awaits
<1>8. ASSUME NEW d \in Callbacks, Awaits(r, d)'
      PROVE  \E n \in 1 .. Len(s) : s[n] = d
  <2>1. PICK n \in 1 .. Len(Tail(s)) : Tail(s)[n] = d
    BY <1>2, <1>8 DEF Awaits
  <2>2. n + 1 \in 1 .. Len(s) /\ s[n + 1] = d
    BY <1>3, <2>1
  <2> QED
    BY <2>2
<1>9. ASSUME NEW d \in Callbacks, Awaits(r, d)'
      PROVE  Awaits(r, d)
  BY <1>8, <1>9 DEF Awaits, s
<1>10. ASSUME NEW q \in Requests \ {r}, NEW d \in Callbacks, Awaits(q, d)'
       PROVE  Awaits(q, d)
  BY <1>2, <1>10 DEF Awaits
<1> QED
  BY <1>3, <1>4, <1>6, <1>7, <1>9, <1>10 DEF s

\* The tasks are left alone, or that of r is forgotten.
Forgotten(r) == /\ subscribed' = subscribed \ {r}
                /\ tasks' = [tasks EXCEPT ![IdOf[r]] = NoRequest]

\* A status is left alone, or becomes "failed" because of a fatal error.
FailsFatal(r) == \/ status' = status
                 \/ future[r] = "fatal" /\ status' = [status EXCEPT ![r] = "failed"]

LEMMA RunCallbackDoes ==
    ASSUME TypeInv, NEW r \in Requests, NEW c \in Callbacks, RunCallback(r, c)
    PROVE  /\ FailsFatal(r)
           /\ c = "remove" => Forgotten(r)
           /\ c # "remove" => UNCHANGED <<subscribed, tasks>>
<1>1. FailsFatal(r)
  BY DEF RunCallback, HandleDone, FailsFatal
<1>2. c = "remove" => Forgotten(r)
  BY DEF RunCallback, Remove, Forgotten
<1>3. c # "remove" => UNCHANGED <<subscribed, tasks>>
  BY DEF RunCallback
<1> QED
  BY <1>1, <1>2, <1>3

\* What a step does that adds or runs a callback of the future of r.
CallbackStep(r) ==
    /\ UNCHANGED <<workerVars, threadVars>>
    /\ FailsFatal(r)
    /\ UNCHANGED <<subscribed, tasks>> \/ (Forgotten(r) /\ Resolved(r))
    /\ callbacks' \in [Requests -> Seq(Callbacks)]
    /\ \A q \in Requests, d \in Callbacks :
          Awaits(q, d) => Awaits(q, d)' \/ (q = r /\ (d = "remove" => Forgotten(r)))
    /\ \A q \in Requests :
          Awaits(q, "wake")' => Awaits(q, "wake") \/ (q = r /\ pc'[r] = "waiting")

LEMMA CallbackTyped ==
    ASSUME TypeInv, NEW r \in Requests, CallbackStep(r),
           tracked' \subseteq Requests, HttpTyped'
    PROVE  /\ TypeInv'
           /\ subscribed' = subscribed \/ (subscribed' = subscribed \ {r} /\ Resolved(r))
           /\ \A i \in Ids : tasks'[i] \in {tasks[i], NoRequest}
           /\ Forgotten(r) => r \notin subscribed' /\ tasks'[IdOf[r]] # r
<1>1. StatusTyped'
  BY DEF CallbackStep, FailsFatal, TypeInv, StatusTyped, Ended
<1>2. /\ subscribed' = subscribed \/ (subscribed' = subscribed \ {r} /\ Resolved(r))
      /\ \A i \in Ids : tasks'[i] \in {tasks[i], NoRequest}
      /\ tasks' \in [Ids -> Requests \cup {NoRequest}]
      /\ \A i \in Ids : tasks'[i] # NoRequest => IdOf[tasks'[i]] = i
  BY DEF CallbackStep, Forgotten, TypeInv, TasksTyped
<1>3. WorkerTyped' /\ ThreadsTyped'
  BY DEF CallbackStep, workerVars, threadVars, TypeInv, WorkerTyped, ThreadsTyped
<1>4. TasksTyped'
  BY <1>2 DEF TypeInv, TasksTyped, CallbackStep
<1>5. Forgotten(r) => r \notin subscribed' /\ tasks'[IdOf[r]] # r
  BY RunnerAssumption DEF Forgotten, TypeInv, TasksTyped, RunnerAssumption
<1> QED
  BY <1>1, <1>2, <1>3, <1>4, <1>5 DEF TypeInv

\* All but the invariants of the handlers and of removal survive such a step.
LEMMA CallbackKeeps ==
    ASSUME RunnerInv, NEW r \in Requests, CallbackStep(r),
           HttpTyped', UNCHANGED tracked \/ (tracked' = tracked \cup {r} /\ pc[r] = "done")
    PROVE  /\ TypeInv' /\ SlotInv' /\ ThreadInv' /\ TodoInv' /\ ConsumerInv'
           /\ \A q \in Requests : future[q] = "pending" => q \in subscribed'
           /\ \A q \in Requests : tasks[IdOf[q]] \in {q, NoRequest}
                                    => tasks'[IdOf[q]] \in {q, NoRequest}
<1> USE DEF RunnerInv
<1>0. /\ TypeInv'
      /\ subscribed' = subscribed \/ (subscribed' = subscribed \ {r} /\ Resolved(r))
      /\ \A i \in Ids : tasks'[i] \in {tasks[i], NoRequest}
  BY CallbackTyped DEF TypeInv, TasksTyped
<1>1. SlotInv'
  <2> SUFFICES ASSUME NEW i \in Ids, inFlight[i] # NoRequest
               PROVE  tasks'[i] \in tracked' => tasks'[i] = inFlight[i]
    BY DEF SlotInv, CallbackStep, workerVars, LockHeld
  <2>1. NoRequest \notin tracked'
    BY RunnerAssumption DEF TypeInv, TasksTyped, RunnerAssumption
  <2>2. CASE UNCHANGED tracked
    BY <1>0, <2>1, <2>2 DEF SlotInv
  <2>3. CASE tracked' = tracked \cup {r} /\ pc[r] = "done"
    <3>1. IdOf[inFlight[i]] = i /\ (tasks[i] \in tracked => tasks[i] = inFlight[i])
      BY DEF SlotInv
    <3>2. inFlight[IdOf[r]] \in {r, NoRequest}
      BY <2>3 DEF EntryInv
    <3>3. IdOf[r] = i => inFlight[i] = r
      BY <3>2
    <3>4. tasks'[i] = r => IdOf[r] = i
      BY <1>0, RunnerAssumption DEF TypeInv, TasksTyped, RunnerAssumption
    <3> QED
      BY <1>0, <2>1, <2>3, <3>1, <3>3, <3>4
  <2> QED
    BY <2>2, <2>3
<1>2. ThreadInv' /\ TodoInv' /\ ConsumerInv'
  BY DEF CallbackStep, workerVars, threadVars, ThreadInv, TodoInv, ConsumerInv, HasSlot,
     Resolved
<1>3. \A q \in Requests : future[q] = "pending" => q \in subscribed'
  BY <1>0 DEF EntryInv, Resolved
<1>4. \A q \in Requests : tasks[IdOf[q]] \in {q, NoRequest} => tasks'[IdOf[q]] \in {q, NoRequest}
  BY <1>0, RunnerAssumption DEF RunnerAssumption
<1> QED
  BY <1>0, <1>1, <1>2, <1>3, <1>4

\* A handler registers a callback: a future that is resolved runs it at once.
LEMMA AddCallbackDoes ==
    ASSUME RunnerInv, NEW r \in Requests, NEW c \in Callbacks \ {"wake"},
           AddCallback(r, c), future[r] # "none", UNCHANGED <<workerVars, threadVars>>
    PROVE  /\ CallbackStep(r)
           /\ c = "remove" => Awaits(r, c)' \/ Forgotten(r)
<1> USE DEF RunnerInv, TypeInv
<1>1. CASE future[r] = "pending"
  <2>1. callbacks' = [callbacks EXCEPT ![r] = Append(@, c)] /\ RunNothing
    BY <1>1 DEF AddCallback
  <2>2. /\ callbacks' \in [Requests -> Seq(Callbacks)]
        /\ Awaits(r, c)'
        /\ \A q \in Requests, d \in Callbacks : Awaits(q, d) => Awaits(q, d)'
        /\ \A q \in Requests, d \in Callbacks :
              Awaits(q, d)' => Awaits(q, d) \/ (q = r /\ d = c)
    BY <2>1, AwaitsAdded
  <2>3. UNCHANGED <<status, subscribed, tasks>>
    BY <2>1 DEF RunNothing
  <2> QED
    BY <2>2, <2>3 DEF CallbackStep, FailsFatal, Callbacks
<1>2. CASE future[r] # "pending"
  <2>1. RunCallback(r, c) /\ UNCHANGED callbacks
    BY <1>2 DEF AddCallback
  <2>2. /\ FailsFatal(r)
        /\ c = "remove" => Forgotten(r)
        /\ c # "remove" => UNCHANGED <<subscribed, tasks>>
    BY <2>1, RunCallbackDoes
  <2>3. callbacks' \in [Requests -> Seq(Callbacks)]
    BY <2>1 DEF TasksTyped
  <2>4. \A q \in Requests, d \in Callbacks : Awaits(q, d) <=> Awaits(q, d)'
    BY <2>1 DEF Awaits
  <2>5. Resolved(r)
    BY <1>2 DEF Resolved
  <2> QED
    BY <2>2, <2>3, <2>4, <2>5 DEF CallbackStep, Callbacks
<1> QED
  BY <1>1, <1>2

LEMMA RegisterInv ==
    ASSUME RunnerInv, NEW r \in Requests, NEW c \in DOMAIN AfterCallback,
           Register(r, c)
    PROVE  RunnerInv' /\ CallbackStep(r)
<1> USE DEF RunnerInv
<1>0. /\ c \in {"done", "remove", "health"}
      /\ pc[r] = c /\ loop' = r /\ loop = r
      /\ pc' = [pc EXCEPT ![r] = AfterCallback[c]]
      /\ AddCallback(r, c)
      /\ tracked' = IF c = "done" THEN tracked \cup {r} ELSE tracked
      /\ UNCHANGED <<workerVars, threadVars, canceling>>
      /\ future[r] # "none"
  BY DEF Register, GoTo, AfterCallback, HandlerInv, InHandler, BeforePredict
<1>1. /\ c = "done" => AfterCallback[c] = "remove"
      /\ c = "remove" => AfterCallback[c] = "health"
      /\ c = "health" => AfterCallback[c] = "respond"
  BY DEF AfterCallback
<1>2. /\ CallbackStep(r)
      /\ c = "remove" => Awaits(r, c)' \/ Forgotten(r)
  BY <1>0, AddCallbackDoes DEF Callbacks
<1>3. HttpTyped'
  BY <1>0, <1>1 DEF TypeInv, HttpTyped, Places, InHandler
<1>4. UNCHANGED tracked \/ (tracked' = tracked \cup {r} /\ pc[r] = "done")
  BY <1>0
<1>5. /\ TypeInv' /\ SlotInv' /\ ThreadInv' /\ TodoInv' /\ ConsumerInv'
      /\ \A q \in Requests : future[q] = "pending" => q \in subscribed'
  BY <1>2, <1>3, <1>4, CallbackKeeps
<1>6. /\ pc'[r] \in {"remove", "health", "respond"}
      /\ c = "remove" <=> pc'[r] = "health"
      /\ c = "done" <=> pc'[r] = "remove"
      /\ \A q \in Requests \ {r} : pc'[q] = pc[q] /\ pc[q] \notin InHandler
  BY <1>0, <1>1 DEF TypeInv, HttpTyped, HandlerInv
<1>7. HandlerInv'
  BY <1>0, <1>6
     DEF HandlerInv, CallbackStep, workerVars, threadVars, InHandler, BeforePredict
<1>8. EntryInv'
  BY <1>0, <1>5, <1>6
     DEF EntryInv, CallbackStep, workerVars, InHandler, BeforePredict
<1>9. RemovalInv'
  <2> SUFFICES ASSUME NEW q \in tracked', pc'[q] # "remove"
               PROVE  Awaits(q, "remove")' \/ (q \notin subscribed' /\ tasks'[IdOf[q]] # q)
    BY DEF RemovalInv
  <2>1. q \in Requests /\ TypeInv
    BY <1>5 DEF TypeInv, TasksTyped
  <2>2. /\ subscribed' = subscribed \/ (subscribed' = subscribed \ {r} /\ Resolved(r))
        /\ \A i \in Ids : tasks'[i] \in {tasks[i], NoRequest}
        /\ Forgotten(r) => r \notin subscribed' /\ tasks'[IdOf[r]] # r
    BY <1>2, <1>3, <1>5, CallbackTyped DEF TypeInv, TasksTyped
  <2>3. ASSUME q # r \/ c # "remove" PROVE q \in tracked /\ pc[q] # "remove"
    BY <2>3, <1>0, <1>6
  <2>4. CASE q \in tracked /\ Awaits(q, "remove")
    <3>1. Awaits(q, "remove")' \/ (q = r /\ Forgotten(r))
      BY <1>2, <2>1, <2>4 DEF CallbackStep, Callbacks
    <3> QED
      BY <2>2, <3>1
  <2>5. CASE q \in tracked /\ q \notin subscribed /\ tasks[IdOf[q]] # q
    BY <2>1, <2>2, <2>5, RunnerAssumption DEF RunnerAssumption
  <2>6. CASE q = r /\ c = "remove"
    BY <1>2, <2>2, <2>6
  <2> QED
    BY <2>3, <2>4, <2>5, <2>6 DEF RemovalInv
<1>10. WakeInv'
  <2>1. pc[r] \notin {"waiting", "awake"} \cup Answers
    BY <1>0 DEF Answers
  <2> QED
    BY <1>2, <1>6, <2>1 DEF WakeInv, CallbackStep
<1> QED
  BY <1>2, <1>5, <1>7, <1>8, <1>9, <1>10

\* The other steps that touch the callbacks leave the handlers' requests as they are.
LEMMA CallbackInv ==
    ASSUME RunnerInv, NEW r \in Requests, CallbackStep(r),
           UNCHANGED tracked, HttpTyped', pc[r] = "remove" => pc'[r] = "remove",
           \A q \in Requests : pc'[q] \in InHandler => loop' = q,
           pc'[r] \in {pc[r], "waiting", "awake"},
           \A q \in Requests \ {r} : pc'[q] = pc[q]
    PROVE  RunnerInv'
<1> USE DEF RunnerInv
<1>1. /\ TypeInv' /\ SlotInv' /\ ThreadInv' /\ TodoInv' /\ ConsumerInv'
      /\ \A q \in Requests : future[q] = "pending" => q \in subscribed'
      /\ \A q \in Requests : tasks[IdOf[q]] \in {q, NoRequest}
                               => tasks'[IdOf[q]] \in {q, NoRequest}
  BY CallbackKeeps
<1>2. HandlerInv'
  BY DEF HandlerInv, CallbackStep, workerVars, threadVars, InHandler, BeforePredict
<1>3. /\ subscribed' = subscribed \/ (subscribed' = subscribed \ {r} /\ Resolved(r))
      /\ \A i \in Ids : tasks'[i] \in {tasks[i], NoRequest}
      /\ Forgotten(r) => r \notin subscribed' /\ tasks'[IdOf[r]] # r
  BY CallbackTyped DEF TypeInv, TasksTyped
<1>4. EntryInv'
  <2> SUFFICES ASSUME NEW q \in Requests
               PROVE  /\ pc'[q] = "predict" =>
                           tasks'[IdOf[q]] \in {q, NoRequest} /\ q \in subscribed'
                      /\ pc'[q] \in {"start", "done"} =>
                           inFlight'[IdOf[q]] \in {q, NoRequest} /\ q \notin tracked'
                      /\ future'[q] = "pending" => q \in subscribed'
    BY DEF EntryInv
  <2>1. pc'[q] = "predict" => pc[q] = "predict" /\ future[q] = "none"
    BY DEF HandlerInv, BeforePredict
  <2>2. pc'[q] = "predict" => q \in subscribed'
    BY <1>3, <2>1 DEF EntryInv, CallbackStep, Forgotten, Resolved
  <2> QED
    BY <1>1, <2>1, <2>2 DEF EntryInv, CallbackStep, workerVars
<1>5. RemovalInv'
  <2> SUFFICES ASSUME NEW q \in tracked, pc'[q] # "remove"
               PROVE  Awaits(q, "remove")' \/ (q \notin subscribed' /\ tasks'[IdOf[q]] # q)
    BY DEF RemovalInv, TypeInv, TasksTyped
  <2>1. q \in Requests
    BY DEF TypeInv, TasksTyped
  <2>2. CASE Awaits(q, "remove")
    <3>1. Awaits(q, "remove")' \/ (q = r /\ Forgotten(r))
      BY <2>1, <2>2 DEF CallbackStep, Callbacks
    <3> QED
      BY <1>3, <3>1
  <2>3. CASE q \notin subscribed /\ tasks[IdOf[q]] # q
    BY <1>3, <2>1, <2>3, RunnerAssumption DEF RunnerAssumption
  <2>4. pc[q] # "remove"
    BY <2>1
  <2> QED
    BY <2>2, <2>3, <2>4 DEF RemovalInv
<1>6. WakeInv'
  BY DEF WakeInv, CallbackStep
<1> QED
  BY <1>1, <1>2, <1>4, <1>5, <1>6

LEMMA WaitInv ==
    ASSUME RunnerInv, NEW r \in Requests, Wait(r)
    PROVE  RunnerInv' /\ CallbackStep(r)
<1> USE DEF RunnerInv, TypeInv
<1>1. /\ pc[r] = "respond" /\ loop = r /\ loop' = NoRequest /\ future[r] # "none"
      /\ \/ pc' = [pc EXCEPT ![r] = "waiting"]
         \/ pc' = [pc EXCEPT ![r] = "awake"] /\ UNCHANGED callbacks
      /\ UNCHANGED <<status, subscribed, tasks, workerVars, threadVars, tracked, canceling>>
  BY DEF Wait, RunNothing, HandlerInv, InHandler, BeforePredict
<1>2. CallbackStep(r)
  <2>1. CASE callbacks' = [callbacks EXCEPT ![r] = Append(@, "wake")]
    <3>1. "wake" \in Callbacks
      BY DEF Callbacks
    <3>2. /\ callbacks' \in [Requests -> Seq(Callbacks)]
          /\ \A q \in Requests, d \in Callbacks : Awaits(q, d) => Awaits(q, d)'
          /\ \A q \in Requests, d \in Callbacks :
                Awaits(q, d)' => Awaits(q, d) \/ (q = r /\ d = "wake")
      BY <2>1, <3>1, AwaitsAdded
    <3>3. pc'[r] = "waiting" \/ \A q \in Requests : Awaits(q, "wake")' = Awaits(q, "wake")
      BY <1>1 DEF HttpTyped, Awaits
    <3> QED
      BY <1>1, <3>1, <3>2, <3>3 DEF CallbackStep, FailsFatal
  <2>2. CASE UNCHANGED callbacks
    BY <1>1, <2>2 DEF CallbackStep, FailsFatal, Awaits, TasksTyped
  <2> QED
    BY <2>1, <2>2 DEF Wait
<1>3. /\ HttpTyped'
      /\ pc'[r] \in {"waiting", "awake"}
      /\ \A q \in Requests \ {r} : pc'[q] = pc[q] /\ pc[q] \notin InHandler
  BY <1>1 DEF HttpTyped, Places, HandlerInv
<1>4. \A q \in Requests : pc'[q] \in InHandler => loop' = q
  BY <1>3 DEF InHandler, BeforePredict
<1> QED
  BY <1>1, <1>2, <1>3, <1>4, CallbackInv

\* The thread that resolved a future runs the next of its callbacks.
LEMMA RunNextCallbackInv ==
    ASSUME RunnerInv, NEW th \in Threads, RunNextCallback(th)
    PROVE  RunnerInv' /\ on[th] \in Requests /\ CallbackStep(on[th])
<1> USE DEF RunnerInv, TypeInv
<1> DEFINE r == on[th]
           c == Head(callbacks[r])
<1>1. r \in Requests /\ Resolved(r)
  BY DEF RunNextCallback, ThreadInv
<1>2. /\ callbacks[r] # <<>> /\ RunCallback(r, c)
      /\ callbacks' = [callbacks EXCEPT ![r] = Tail(@)]
      /\ pc' = IF c = "wake" THEN [pc EXCEPT ![r] = "awake"] ELSE pc
      /\ UNCHANGED <<workerVars, threadVars, tracked, loop, canceling>>
  BY DEF RunNextCallback
<1> HIDE DEF r
<1>3. /\ callbacks' \in [Requests -> Seq(Callbacks)]
      /\ c \in Callbacks
      /\ \A q \in Requests, d \in Callbacks :
            Awaits(q, d) => Awaits(q, d)' \/ (q = r /\ d = c)
      /\ \A q \in Requests, d \in Callbacks : Awaits(q, d)' => Awaits(q, d)
      /\ Awaits(r, c)
  <2>1. c = callbacks[r][1] /\ 1 \in 1 .. Len(callbacks[r])
    BY <1>1, <1>2, HeadTailProperties, LenProperties DEF TasksTyped
  <2> QED
    BY <1>1, <1>2, <2>1, AwaitsRun DEF Awaits
<1> HIDE DEF c
<1>4. /\ FailsFatal(r)
      /\ c = "remove" => Forgotten(r)
      /\ c # "remove" => UNCHANGED <<subscribed, tasks>>
  BY <1>1, <1>2, <1>3, RunCallbackDoes
<1>5. CallbackStep(r)
  <2>1. "wake" \in Callbacks
    BY DEF Callbacks
  <2> QED
    BY <1>1, <1>2, <1>3, <1>4, <2>1 DEF CallbackStep
<1>6. /\ HttpTyped'
      /\ \A q \in Requests : pc'[q] \in InHandler => loop' = q
      /\ pc'[r] \in {pc[r], "awake"}
      /\ \A q \in Requests \ {r} : pc'[q] = pc[q]
  BY <1>1, <1>2 DEF HttpTyped, Places, HandlerInv, InHandler, BeforePredict
<1>7. pc[r] = "remove" => pc'[r] = "remove"
  BY <1>1, <1>2, <1>3 DEF WakeInv, Answers
<1> QED
  BY <1>1, <1>2, <1>5, <1>6, <1>7, CallbackInv DEF r

-----------------------------------------------------------------------------
(* The threads                                                             *)

\* What the handlers read of the runner is left alone.
OnlyThreads == UNCHANGED <<tasks, subscribed, tracked, callbacks, loop, pc, canceling>>

\* The invariants that are about the handlers and the callbacks survive a step
\* of a thread that leaves the future of no request undone.
LEMMA HandlersKept ==
    ASSUME RunnerInv, OnlyThreads, TypeInv',
           \A r \in Requests : future'[r] = "none" <=> future[r] = "none",
           \A r \in Requests : future'[r] = "pending" => future[r] = "pending",
           \A r \in Requests : future[r] = "none" => at'[r] = at[r],
           \A r \in sent' : future[r] # "none",
           \A i \in Ids : inFlight'[i] \in {inFlight[i], NoRequest}
    PROVE  HandlerInv' /\ EntryInv' /\ RemovalInv' /\ WakeInv'
<1> USE DEF RunnerInv, OnlyThreads
<1>1. HandlerInv'
  BY DEF HandlerInv
<1>2. EntryInv'
  BY RunnerAssumption DEF EntryInv, RunnerAssumption
<1>3. RemovalInv' /\ WakeInv'
  BY DEF RemovalInv, WakeInv, Awaits
<1> QED
  BY <1>1, <1>2, <1>3

\* A thread that rests has nothing in hand.
LEMMA RestDoes ==
    ASSUME ThreadsTyped, NEW th \in Threads, Rest(th), UNCHANGED todo
    PROVE  /\ ThreadsTyped'
           /\ at'[th] = "idle"
           /\ \A t \in Threads \ {th} : at'[t] = at[t] /\ on'[t] = on[t] /\ event'[t] = event[t]
  BY DEF Rest, ThreadsTyped, Events

\* Two threads never publish or resolve for one request.
LEMMA OnePublisher ==
    ASSUME RunnerInv, NEW t \in Threads, NEW th \in Threads,
           at[t] \in {"publish", "resolve"}, at[th] \in {"start", "publish", "resolve"},
           on[t] = IF at[th] = "start" THEN th ELSE on[th]
    PROVE  t = th
<1> USE DEF RunnerInv
<1>1. CASE t = Consumer
  BY <1>1 DEF ConsumerInv, ThreadInv
<1>2. CASE t # Consumer
  BY <1>2 DEF ConsumerInv, ThreadInv
<1> QED
  BY <1>1, <1>2

LEMMA StarterSendsInv ==
    ASSUME RunnerInv, NEW r \in Requests, StarterSends(r)
    PROVE  RunnerInv'
<1> USE DEF RunnerInv, TypeInv
<1>0. /\ at[r] = "start" /\ sent' = sent \cup {r}
      /\ UNCHANGED <<lost, inFlight, future, requested, todo, status>>
      /\ OnlyThreads /\ r \in Threads
  BY DEF StarterSends, taskVars, httpVars, OnlyThreads, Threads
<1>1. /\ ThreadsTyped'
      /\ at'[r] = "idle"
      /\ \A t \in Threads \ {r} : at'[t] = at[t] /\ on'[t] = on[t] /\ event'[t] = event[t]
  BY <1>0, RestDoes DEF StarterSends
<1>2. TypeInv'
  BY <1>0, <1>1 DEF WorkerTyped, TasksTyped, StatusTyped, HttpTyped, OnlyThreads
<1>3. future[r] # "none"
  BY <1>0 DEF HandlerInv
<1>4. HandlerInv' /\ EntryInv' /\ RemovalInv' /\ WakeInv'
  <2>1. \A q \in Requests : future[q] = "none" => at'[q] = at[q]
    BY <1>1, <1>3 DEF Threads
  <2>2. \A q \in sent' : future[q] # "none"
    BY <1>0, <1>3 DEF HandlerInv, WorkerTyped
  <2> QED
    BY <1>0, <1>2, <2>1, <2>2, HandlersKept
<1>5. SlotInv'
  BY <1>0 DEF SlotInv, LockHeld, OnlyThreads
<1>6. ThreadInv' /\ TodoInv'
  BY <1>0, <1>1 DEF ThreadInv, TodoInv, HasSlot, Resolved
<1>7. ConsumerInv'
  BY <1>0, <1>1, RunnerAssumption
     DEF ConsumerInv, ThreadInv, Threads, WorkerTyped, RunnerAssumption
<1> QED
  BY <1>2, <1>4, <1>5, <1>6, <1>7

\* A thread that takes an event has the call in hand.
LEMMA PublishDoes ==
    ASSUME TypeInv, NEW th \in Threads, NEW r \in Requests,
           NEW e \in Events, Publish(th, r, e)
    PROVE  /\ ThreadsTyped'
           /\ at'[th] = "publish" /\ on'[th] = r /\ event'[th] = e
           /\ todo'[th] = Subscribers(IdOf[r])
           /\ \A t \in Threads \ {th} : /\ at'[t] = at[t] /\ on'[t] = on[t]
                                        /\ event'[t] = event[t] /\ todo'[t] = todo[t]
           /\ \A q \in todo'[th] \cap Requests : IdOf[q] = IdOf[r]
<1> USE DEF TypeInv
<1>1. Subscribers(IdOf[r]) \in SUBSET (Requests \cup {SetupTask})
  BY DEF Subscribers, TasksTyped
<1>2. /\ ThreadsTyped'
      /\ at'[th] = "publish" /\ on'[th] = r /\ event'[th] = e
      /\ todo'[th] = Subscribers(IdOf[r])
      /\ \A t \in Threads \ {th} : /\ at'[t] = at[t] /\ on'[t] = on[t]
                                   /\ event'[t] = event[t] /\ todo'[t] = todo[t]
  <2> DEFINE s == Subscribers(IdOf[r])
  <2>1. s \in SUBSET (Requests \cup {SetupTask}) /\ todo' = [todo EXCEPT ![th] = s]
    BY <1>1 DEF Publish
  <2> HIDE DEF s
  <2>2. /\ ThreadsTyped'
        /\ at'[th] = "publish" /\ on'[th] = r /\ event'[th] = e /\ todo'[th] = s
        /\ \A t \in Threads \ {th} : /\ at'[t] = at[t] /\ on'[t] = on[t]
                                     /\ event'[t] = event[t] /\ todo'[t] = todo[t]
    BY <2>1 DEF Publish, ThreadsTyped
  <2> QED
    BY <2>2 DEF s
<1>3. \A q \in Subscribers(IdOf[r]) \cap Requests : IdOf[q] = IdOf[r]
  BY RunnerAssumption DEF Subscribers, RunnerAssumption
<1> QED
  BY <1>2, <1>3

LEMMA StarterFailsInv ==
    ASSUME RunnerInv, NEW r \in Requests, StarterFails(r)
    PROVE  RunnerInv'
<1> USE DEF RunnerInv, TypeInv
<1>0. /\ at[r] = "start" /\ Publish(r, r, "failed") /\ r \in Threads
      /\ UNCHANGED <<lost, inFlight, future, sent, requested, status>>
      /\ OnlyThreads
  BY DEF StarterFails, workerVars, taskVars, httpVars, OnlyThreads, Threads
<1>1. /\ ThreadsTyped'
      /\ at'[r] = "publish" /\ on'[r] = r /\ event'[r] = "failed"
      /\ \A t \in Threads \ {r} : /\ at'[t] = at[t] /\ on'[t] = on[t]
                                  /\ event'[t] = event[t] /\ todo'[t] = todo[t]
      /\ \A q \in todo'[r] \cap Requests : IdOf[q] = IdOf[r]
  BY <1>0, PublishDoes DEF Events, Ended
<1>2. TypeInv'
  BY <1>0, <1>1 DEF WorkerTyped, TasksTyped, StatusTyped, HttpTyped, OnlyThreads
<1>3. future[r] # "none" /\ r \notin sent /\ HasSlot(r)
  BY <1>0 DEF HandlerInv, ConsumerInv, ThreadInv
<1>4. HandlerInv' /\ EntryInv' /\ RemovalInv' /\ WakeInv'
  <2>1. \A q \in Requests : future[q] = "none" => at'[q] = at[q]
    BY <1>1, <1>3 DEF Threads
  <2>2. \A q \in sent' : future[q] # "none"
    BY <1>0 DEF HandlerInv, WorkerTyped
  <2> QED
    BY <1>0, <1>2, <2>1, <2>2, HandlersKept
<1>5. SlotInv'
  BY <1>0 DEF SlotInv, LockHeld, OnlyThreads
<1>6. ThreadInv'
  BY <1>0, <1>1, <1>3 DEF ThreadInv, HasSlot, Resolved
<1>7. TodoInv'
  BY <1>0, <1>1 DEF TodoInv
<1>8. ConsumerInv'
  <2>1. r # Consumer
    BY RunnerAssumption DEF RunnerAssumption
  <2>2. at[Consumer] \in {"publish", "resolve"} => on[Consumer] # r
    BY <1>0 DEF ConsumerInv
  <2>3. Consumer \in Threads
    BY DEF Threads
  <2> QED
    BY <1>0, <1>1, <1>3, <2>1, <2>2, <2>3 DEF ConsumerInv, ThreadInv, Threads, WorkerTyped
<1> QED
  BY <1>2, <1>4, <1>5, <1>6, <1>7, <1>8

LEMMA ConsumerReceivesInv ==
    ASSUME RunnerInv, NEW r \in Requests, NEW e \in Events,
           ConsumerReceives(r, e)
    PROVE  RunnerInv'
<1> USE DEF RunnerInv, TypeInv
<1>0. /\ at[Consumer] = "idle" /\ Publish(Consumer, r, e) /\ Consumer \in Threads
      /\ UNCHANGED <<lost, inFlight, future, sent, requested, status>>
      /\ OnlyThreads
      /\ lost = "no" /\ inFlight[IdOf[r]] = r /\ r \in sent
  BY DEF ConsumerReceives, taskVars, httpVars, OnlyThreads, Threads
<1>1. /\ ThreadsTyped'
      /\ at'[Consumer] = "publish" /\ on'[Consumer] = r /\ event'[Consumer] = e
      /\ \A t \in Threads \ {Consumer} : /\ at'[t] = at[t] /\ on'[t] = on[t]
                                         /\ event'[t] = event[t] /\ todo'[t] = todo[t]
      /\ \A q \in todo'[Consumer] \cap Requests : IdOf[q] = IdOf[r]
  BY <1>0, PublishDoes
<1>2. TypeInv'
  BY <1>0, <1>1 DEF WorkerTyped, TasksTyped, StatusTyped, HttpTyped, OnlyThreads
<1>3. Consumer \notin Requests
  BY RunnerAssumption DEF RunnerAssumption
<1>4. HandlerInv' /\ EntryInv' /\ RemovalInv' /\ WakeInv'
  <2>1. \A q \in Requests : future[q] = "none" => at'[q] = at[q]
    BY <1>1, <1>3 DEF Threads
  <2>2. \A q \in sent' : future[q] # "none"
    BY <1>0 DEF HandlerInv, WorkerTyped
  <2> QED
    BY <1>0, <1>2, <2>1, <2>2, HandlersKept
<1>5. SlotInv'
  BY <1>0 DEF SlotInv, LockHeld, OnlyThreads
<1>6. ThreadInv'
  BY <1>0, <1>1 DEF ThreadInv, HasSlot, Resolved
<1>7. TodoInv'
  BY <1>0, <1>1 DEF TodoInv
<1>8. at[r] = "idle" /\ future[r] = "pending"
  <2>1. IdOf[r] \in Ids /\ r # NoRequest
    BY RunnerAssumption DEF RunnerAssumption
  <2> QED
    BY <1>0, <2>1 DEF ConsumerInv, SlotInv, LockHeld
<1>9. ConsumerInv'
  BY <1>0, <1>1, <1>3, <1>8 DEF ConsumerInv, Threads, WorkerTyped
<1> QED
  BY <1>2, <1>4, <1>5, <1>6, <1>7, <1>9

\* Delivering an event changes no more than the status of a subscriber.
LEMMA DeliverInv ==
    ASSUME RunnerInv, NEW th \in Threads, Deliver(th)
    PROVE  RunnerInv'
<1> USE DEF RunnerInv, TypeInv
<1>0. /\ at[th] = "publish"
      /\ UNCHANGED <<workerVars, at, on, event>> /\ OnlyThreads
  BY DEF Deliver, httpVars, OnlyThreads
<1>1. PICK q \in todo[th] :
         /\ todo' = [todo EXCEPT ![th] = @ \ {q}]
         /\ IF q = SetupTask
            THEN SetupHandleEvent(event[th]) /\ UNCHANGED <<status, completed>>
            ELSE HandleEvent(q, event[th]) /\ UNCHANGED setupStatus
  BY DEF Deliver
<1>2. ThreadsTyped' /\ \A t \in Threads : todo'[t] \subseteq todo[t]
  BY <1>0, <1>1 DEF ThreadsTyped
<1>3. StatusTyped'
  BY <1>1 DEF HandleEvent, Finish, Fail, StatusTyped, Ended
<1>4. TypeInv'
  BY <1>0, <1>2, <1>3 DEF WorkerTyped, TasksTyped, HttpTyped, OnlyThreads, workerVars
<1>5. HandlerInv' /\ EntryInv' /\ RemovalInv' /\ WakeInv'
  BY <1>0, <1>4, HandlersKept DEF workerVars, HandlerInv, WorkerTyped
<1>6. SlotInv'
  BY <1>0 DEF SlotInv, LockHeld, OnlyThreads, workerVars
<1>7. ThreadInv' /\ ConsumerInv'
  BY <1>0 DEF ThreadInv, ConsumerInv, HasSlot, Resolved, workerVars
<1>8. TodoInv'
  BY <1>0, <1>2 DEF TodoInv
<1> QED
  BY <1>4, <1>5, <1>6, <1>7, <1>8

\* An event is published to everybody.  A thread that finds the slot of its call
\* taken keeps it: only the consumer empties the slots, with the worker lost.
LEMMA PublishedDoes ==
    ASSUME RunnerInv, NEW th \in Threads, Published(th)
    PROVE  /\ at[th] = "publish" /\ todo[th] = {} /\ on[th] \in Requests
           /\ UNCHANGED <<lost, future, todo, status>> /\ OnlyThreads
           /\ \/ /\ Rest(th)
                 /\ UNCHANGED <<inFlight, sent, requested>>
                 /\ event[th] = "output" \/ future[on[th]] = "fatal"
              \/ /\ event[th] \in Ended /\ inFlight[IdOf[on[th]]] = on[th]
                 /\ future[on[th]] = "pending"
                 /\ at' = [at EXCEPT ![th] = "resolve"]
                 /\ inFlight' = [inFlight EXCEPT ![IdOf[on[th]]] = NoRequest]
                 /\ sent' = sent \ {on[th]}
                 /\ requested' = requested \ {on[th]}
                 /\ UNCHANGED <<on, event>>
<1> USE DEF RunnerInv, TypeInv
<1> DEFINE r == on[th]
           i == IdOf[r]
<1>1. /\ at[th] = "publish" /\ todo[th] = {}
      /\ UNCHANGED <<lost, future, todo, status>> /\ OnlyThreads
  BY DEF Published, taskVars, httpVars, OnlyThreads
<1>2. r \in Requests /\ HasSlot(r) /\ i \in Ids /\ r # NoRequest
  BY <1>1, RunnerAssumption DEF ThreadInv, RunnerAssumption
<1>3. CASE /\ event[th] = "output" \/ (~LockHeld /\ inFlight[i] = NoRequest)
           /\ Rest(th)
           /\ UNCHANGED <<inFlight, sent, outputs, requested>>
  <2>1. inFlight[i] = NoRequest => future[r] = "fatal"
    BY <1>2 DEF HasSlot
  <2> QED
    BY <1>1, <1>2, <1>3, <2>1
<1>4. CASE /\ event[th] # "output" /\ ~LockHeld /\ inFlight[i] # NoRequest
           /\ at' = [at EXCEPT ![th] = "resolve"]
           /\ Forget({i})
           /\ UNCHANGED <<on, event>>
  <2>1. event[th] \in Ended
    BY <1>4 DEF ThreadsTyped, Events
  <2>2. inFlight[i] = r
    BY <1>2, <1>4 DEF HasSlot, SlotInv
  <2>3. future[r] = "pending"
    BY <1>2, <1>4, <2>2 DEF SlotInv
  <2>4. {inFlight[j] : j \in {i}} = {r}
    BY <2>2
  <2>5. /\ inFlight' = [j \in Ids |-> IF j \in {i} THEN NoRequest ELSE inFlight[j]]
        /\ sent' = sent \ {r} /\ requested' = requested \ {r}
    BY <1>4, <2>4 DEF Forget
  <2>6. inFlight' = [inFlight EXCEPT ![i] = NoRequest]
    BY <2>5 DEF WorkerTyped
  <2> QED
    BY <1>1, <1>2, <1>4, <2>1, <2>2, <2>3, <2>5, <2>6
<1> QED
  BY <1>3, <1>4 DEF Published

LEMMA PublishedInv ==
    ASSUME RunnerInv, NEW th \in Threads, Published(th)
    PROVE  RunnerInv'
<1> USE DEF RunnerInv, TypeInv
<1> DEFINE r == on[th]
<1>0. /\ at[th] = "publish" /\ todo[th] = {} /\ r \in Requests /\ HasSlot(r)
      /\ UNCHANGED <<lost, future, todo, status>> /\ OnlyThreads
  BY PublishedDoes DEF ThreadInv
<1>1. future[r] # "none" /\ IdOf[r] \in Ids /\ r # NoRequest
  BY <1>0, RunnerAssumption DEF HasSlot, SlotInv, RunnerAssumption
<1>2. CASE /\ Rest(th)
           /\ UNCHANGED <<inFlight, sent, requested>>
  <2>1. /\ ThreadsTyped'
        /\ at'[th] = "idle"
        /\ \A t \in Threads \ {th} : at'[t] = at[t] /\ on'[t] = on[t] /\ event'[t] = event[t]
    BY <1>0, <1>2, RestDoes
  <2>2. TypeInv'
    BY <1>0, <1>2, <2>1 DEF WorkerTyped, TasksTyped, StatusTyped, HttpTyped, OnlyThreads
  <2>3. HandlerInv' /\ EntryInv' /\ RemovalInv' /\ WakeInv'
    <3>1. \A q \in Requests : future[q] = "none" => at'[q] = at[q]
      BY <1>0, <2>1 DEF Threads, HandlerInv
    <3>2. \A q \in sent' : future[q] # "none"
      BY <1>2 DEF HandlerInv, WorkerTyped
    <3> QED
      BY <1>0, <1>2, <2>2, <3>1, <3>2, HandlersKept
  <2>4. SlotInv'
    BY <1>0, <1>2 DEF SlotInv, LockHeld, OnlyThreads
  <2>5. ThreadInv' /\ TodoInv'
    BY <1>0, <1>2, <2>1 DEF ThreadInv, TodoInv, HasSlot, Resolved
  <2>6. ConsumerInv'
    <3>1. Consumer \in Threads /\ \A q \in Requests : q \in Threads
      BY DEF Threads
    <3>2. \A q \in Requests : at[q] = "idle" => at'[q] = "idle"
      BY <2>1, <3>1
    <3>3. at'[Consumer] \in {"publish", "resolve"} =>
            /\ at[Consumer] \in {"publish", "resolve"}
            /\ on'[Consumer] = on[Consumer] /\ on[Consumer] \in Requests
      BY <2>1, <3>1 DEF ThreadInv
    <3> QED
      BY <1>0, <1>2, <3>2, <3>3 DEF ConsumerInv, WorkerTyped
  <2> QED
    BY <2>2, <2>3, <2>4, <2>5, <2>6
<1>3. CASE /\ event[th] \in Ended /\ inFlight[IdOf[r]] = r
           /\ future[r] = "pending"
           /\ at' = [at EXCEPT ![th] = "resolve"]
           /\ inFlight' = [inFlight EXCEPT ![IdOf[r]] = NoRequest]
           /\ sent' = sent \ {r}
           /\ requested' = requested \ {r}
           /\ UNCHANGED <<on, event>>
  <2>1. TypeInv'
    BY <1>0, <1>3 DEF WorkerTyped, TasksTyped, StatusTyped, HttpTyped, ThreadsTyped, OnlyThreads
  <2>2. at'[th] = "resolve" /\ \A t \in Threads \ {th} : at'[t] = at[t]
    BY <1>3 DEF ThreadsTyped
  <2>3. /\ inFlight'[IdOf[r]] = NoRequest
        /\ \A i \in Ids : i # IdOf[r] => inFlight'[i] = inFlight[i]
    BY <1>1, <1>3 DEF WorkerTyped
  <2>4. HandlerInv' /\ EntryInv' /\ RemovalInv' /\ WakeInv'
    <3>1. \A q \in Requests : future[q] = "none" => at'[q] = at[q]
      BY <1>0, <2>2 DEF Threads, HandlerInv
    <3>2. \A q \in sent' : future[q] # "none"
      BY <1>3 DEF HandlerInv, WorkerTyped
    <3>3. \A i \in Ids : inFlight'[i] \in {inFlight[i], NoRequest}
      BY <2>3
    <3> QED
      BY <1>0, <2>1, <3>1, <3>2, <3>3, HandlersKept
  <2>5. SlotInv'
    BY <1>0, <2>3 DEF SlotInv, LockHeld, OnlyThreads
  <2>6. ThreadInv'
    <3> SUFFICES ASSUME NEW t \in Threads
                 PROVE  (/\ at[t] = "start" => t \in Requests /\ HasSlot(t)
                         /\ at[t] \in {"publish", "resolve", "callbacks"} =>
                              /\ on[t] \in Requests
                              /\ t # Consumer => on[t] = t /\ event[t] = "failed"
                         /\ at[t] = "publish" => HasSlot(on[t])
                         /\ at[t] = "resolve" => /\ future[on[t]] = "pending"
                                                 /\ inFlight[IdOf[on[t]]] # on[t]
                                                 /\ event[t] \in Ended
                         /\ at[t] = "callbacks" => Resolved(on[t]))'
      BY DEF ThreadInv
    <3>1. CASE t = th
      BY <1>0, <1>1, <1>3, <2>2, <2>3, <3>1 DEF ThreadInv
    <3>2. ASSUME t # th, NEW q \in Requests, HasSlot(q), q # r PROVE HasSlot(q)'
      <4>1. IdOf[q] \in Ids
        BY RunnerAssumption DEF RunnerAssumption
      <4> QED
        BY <1>0, <1>3, <2>3, <3>2, <4>1 DEF HasSlot
    <3>3. ASSUME t # th, at[t] = "start" PROVE t # r
      BY <1>0, <3>3, OnePublisher
    <3>4. ASSUME t # th, at[t] = "publish" PROVE on[t] # r
      BY <1>0, <3>4, OnePublisher
    <3>5. \A q \in Requests : inFlight[IdOf[q]] # q => inFlight'[IdOf[q]] # q
      BY <2>3, RunnerAssumption DEF RunnerAssumption
    <3>6. CASE t # th
      BY <1>0, <1>3, <2>2, <3>2, <3>3, <3>4, <3>5, <3>6 DEF ThreadInv, Resolved
    <3> QED
      BY <3>1, <3>6
  <2>7. TodoInv'
    BY <1>0, <1>3, <2>2 DEF TodoInv
  <2>8. ConsumerInv'
    <3>1. Consumer \in Threads /\ \A q \in Requests : q \in Threads
      BY DEF Threads
    <3>2. \A q \in Requests : at[q] = "idle" => at'[q] = "idle"
      BY <1>0, <2>2, <3>1
    <3>3. at'[Consumer] \in {"publish", "resolve"} =>
            /\ at[Consumer] \in {"publish", "resolve"}
            /\ on'[Consumer] = on[Consumer] /\ on[Consumer] \in Requests
      BY <1>0, <1>3, <2>2, <3>1 DEF ThreadInv
    <3> QED
      BY <1>0, <1>3, <3>2, <3>3 DEF ConsumerInv, WorkerTyped
  <2> QED
    BY <2>1, <2>4, <2>5, <2>6, <2>7, <2>8
<1> QED
  BY <1>2, <1>3, PublishedDoes

LEMMA ResolveInv ==
    ASSUME RunnerInv, NEW th \in Threads, Resolve(th)
    PROVE  RunnerInv'
<1> USE DEF RunnerInv, TypeInv
<1> DEFINE r == on[th]
<1>0. /\ at[th] = "resolve" /\ at' = [at EXCEPT ![th] = "callbacks"]
      /\ future' = [future EXCEPT ![r] = event[th]]
      /\ UNCHANGED <<lost, inFlight, sent, requested, on, event, todo, status>> /\ OnlyThreads
  BY DEF Resolve, taskVars, httpVars, OnlyThreads
<1>1. /\ r \in Requests /\ future[r] = "pending" /\ inFlight[IdOf[r]] # r
      /\ event[th] \in Ended
  BY <1>0 DEF ThreadInv
<1>2. /\ future'[r] \in Ended /\ \A q \in Requests \ {r} : future'[q] = future[q]
      /\ at'[th] = "callbacks" /\ \A t \in Threads \ {th} : at'[t] = at[t]
  BY <1>0, <1>1 DEF WorkerTyped, ThreadsTyped
<1>3. TypeInv'
  BY <1>0, <1>1 DEF WorkerTyped, TasksTyped, StatusTyped, HttpTyped, ThreadsTyped,
     OnlyThreads, Futures
<1>4. HandlerInv' /\ EntryInv' /\ RemovalInv' /\ WakeInv'
  <2>1. \A q \in Requests : future[q] = "none" => at'[q] = at[q]
    BY <1>0, <1>2 DEF Threads, HandlerInv
  <2>2. \A q \in sent' : future[q] # "none"
    BY <1>0 DEF HandlerInv, WorkerTyped
  <2>3. \A q \in Requests : /\ future'[q] = "none" <=> future[q] = "none"
                            /\ future'[q] = "pending" => future[q] = "pending"
    BY <1>1, <1>2 DEF Ended
  <2> QED
    BY <1>0, <1>3, <2>1, <2>2, <2>3, HandlersKept
<1>5. SlotInv'
  <2>1. \A i \in Ids : inFlight[i] # NoRequest => inFlight[i] \in Requests \ {r}
    BY <1>1 DEF WorkerTyped, SlotInv
  <2> QED
    BY <1>0, <1>2, <2>1 DEF SlotInv, LockHeld, OnlyThreads
<1>6. ThreadInv'
  <2> SUFFICES ASSUME NEW t \in Threads
               PROVE  (/\ at[t] = "start" => t \in Requests /\ HasSlot(t)
                       /\ at[t] \in {"publish", "resolve", "callbacks"} =>
                            /\ on[t] \in Requests
                            /\ t # Consumer => on[t] = t /\ event[t] = "failed"
                       /\ at[t] = "publish" => HasSlot(on[t])
                       /\ at[t] = "resolve" => /\ future[on[t]] = "pending"
                                               /\ inFlight[IdOf[on[t]]] # on[t]
                                               /\ event[t] \in Ended
                       /\ at[t] = "callbacks" => Resolved(on[t]))'
    BY DEF ThreadInv
  <2>1. \A q \in Requests : /\ HasSlot(q) => HasSlot(q)'
                            /\ Resolved(q) => Resolved(q)'
    BY <1>0, <1>1, <1>2 DEF HasSlot, Resolved, Ended
  <2>2. CASE t = th
    BY <1>0, <1>1, <1>2, <2>2 DEF ThreadInv, Resolved, Ended
  <2>3. ASSUME t # th, at[t] = "resolve" PROVE on[t] # r
    BY <1>0, <2>3, OnePublisher
  <2>4. CASE t # th
    BY <1>0, <1>2, <2>1, <2>3, <2>4 DEF ThreadInv
  <2> QED
    BY <2>2, <2>4
<1>7. TodoInv'
  BY <1>0, <1>2 DEF TodoInv
<1>8. ConsumerInv'
  <2>1. Consumer \in Threads /\ \A q \in Requests : q \in Threads
    BY DEF Threads
  <2>2. \A q \in Requests : at[q] = "idle" => at'[q] = "idle"
    BY <1>0, <1>2, <2>1
  <2>3. at'[Consumer] \in {"publish", "resolve"} =>
          /\ at[Consumer] \in {"publish", "resolve"} /\ Consumer # th
          /\ on'[Consumer] = on[Consumer] /\ on[Consumer] \in Requests
    BY <1>0, <1>2, <2>1 DEF ThreadInv
  <2>4. at'[Consumer] \in {"publish", "resolve"} => on[Consumer] # r
    BY <1>0, <2>1, <2>3, OnePublisher
  <2> QED
    BY <1>0, <1>2, <2>2, <2>3, <2>4 DEF ConsumerInv, WorkerTyped
<1> QED
  BY <1>3, <1>4, <1>5, <1>6, <1>7, <1>8

LEMMA CallbacksEndInv ==
    ASSUME RunnerInv, NEW th \in Threads, CallbacksEnd(th)
    PROVE  RunnerInv'
<1> USE DEF RunnerInv, TypeInv
<1>0. /\ at[th] = "callbacks" /\ Rest(th)
      /\ UNCHANGED <<workerVars, todo, status>> /\ OnlyThreads
  BY DEF CallbacksEnd, taskVars, httpVars, OnlyThreads
<1>1. /\ ThreadsTyped'
      /\ at'[th] = "idle"
      /\ \A t \in Threads \ {th} : at'[t] = at[t] /\ on'[t] = on[t] /\ event'[t] = event[t]
  BY <1>0, RestDoes
<1>2. TypeInv'
  BY <1>0, <1>1 DEF WorkerTyped, TasksTyped, StatusTyped, HttpTyped, OnlyThreads, workerVars
<1>3. HandlerInv' /\ EntryInv' /\ RemovalInv' /\ WakeInv'
  <2>1. \A q \in Requests : future[q] = "none" => at'[q] = at[q]
    BY <1>0, <1>1 DEF Threads, HandlerInv
  <2>2. \A q \in sent' : future[q] # "none"
    BY <1>0 DEF HandlerInv, WorkerTyped, workerVars
  <2> QED
    BY <1>0, <1>2, <2>1, <2>2, HandlersKept DEF workerVars
<1>4. SlotInv'
  BY <1>0 DEF SlotInv, LockHeld, OnlyThreads, workerVars
<1>5. ThreadInv' /\ TodoInv'
  BY <1>0, <1>1 DEF ThreadInv, TodoInv, HasSlot, Resolved, workerVars
<1>6. ConsumerInv'
  <2>1. Consumer \in Threads /\ \A q \in Requests : q \in Threads
    BY DEF Threads
  <2>2. \A q \in Requests : at[q] = "idle" => at'[q] = "idle"
    BY <1>1, <2>1
  <2>3. at'[Consumer] \in {"publish", "resolve"} =>
          /\ at[Consumer] \in {"publish", "resolve"}
          /\ on'[Consumer] = on[Consumer] /\ on[Consumer] \in Requests
    BY <1>1, <2>1 DEF ThreadInv
  <2> QED
    BY <1>0, <2>2, <2>3 DEF ConsumerInv, WorkerTyped, workerVars
<1> QED
  BY <1>2, <1>3, <1>4, <1>5, <1>6

\* The child is lost, or the lock is taken: only "lost" changes.
LEMMA LostInv ==
    ASSUME RunnerInv, ChildLost \/ TakeLock
    PROVE  RunnerInv' /\ UNCHANGED <<status, requested>> /\ OnlyThreads
<1> USE DEF RunnerInv, TypeInv
<1>0. /\ \/ lost = "no" /\ lost' = "defunct" /\ at[Consumer] = "idle"
         \/ lost = "defunct" /\ lost' = "failing"
      /\ UNCHANGED <<inFlight, future, sent, requested, threadVars, status>> /\ OnlyThreads
  BY DEF ChildLost, TakeLock, taskVars, httpVars, OnlyThreads
<1>1. TypeInv'
  BY <1>0 DEF WorkerTyped, TasksTyped, StatusTyped, HttpTyped, ThreadsTyped, threadVars,
     OnlyThreads
<1>2. HandlerInv' /\ EntryInv' /\ RemovalInv' /\ WakeInv'
  BY <1>0, <1>1, HandlersKept DEF HandlerInv, WorkerTyped, threadVars
<1>3. SlotInv'
  BY <1>0 DEF SlotInv, LockHeld, OnlyThreads
<1>4. ThreadInv' /\ TodoInv'
  BY <1>0 DEF ThreadInv, TodoInv, HasSlot, Resolved, threadVars
<1>5. ConsumerInv'
  BY <1>0 DEF ConsumerInv, threadVars
<1> QED
  BY <1>0, <1>1, <1>2, <1>3, <1>4, <1>5

\* A call in flight is failed under the lock.
LEMMA FailCallInv ==
    ASSUME RunnerInv, NEW i \in Ids, FailCall(i)
    PROVE  RunnerInv'
<1> USE DEF RunnerInv, TypeInv
<1> DEFINE r == inFlight[i]
<1>0. /\ LockHeld /\ at[Consumer] = "idle" /\ r # NoRequest /\ future[r] = "pending"
      /\ future' = [future EXCEPT ![r] = "fatal"]
      /\ at' = [at EXCEPT ![Consumer] = "callbacks"]
      /\ on' = [on EXCEPT ![Consumer] = r]
      /\ UNCHANGED <<lost, inFlight, sent, requested, event, todo, status>> /\ OnlyThreads
  BY DEF FailCall, taskVars, httpVars, OnlyThreads
<1>1. /\ r \in Requests /\ IdOf[r] = i /\ Consumer \in Threads
      /\ \A q \in Requests : q \in Threads /\ q # Consumer
  BY <1>0, RunnerAssumption DEF WorkerTyped, SlotInv, Threads, RunnerAssumption
<1>2. /\ future'[r] = "fatal" /\ \A q \in Requests \ {r} : future'[q] = future[q]
      /\ at'[Consumer] = "callbacks" /\ on'[Consumer] = r
      /\ \A t \in Threads \ {Consumer} : at'[t] = at[t] /\ on'[t] = on[t]
  BY <1>0, <1>1 DEF WorkerTyped, ThreadsTyped
<1>3. TypeInv'
  BY <1>0, <1>1 DEF WorkerTyped, TasksTyped, StatusTyped, HttpTyped, ThreadsTyped,
     OnlyThreads, Futures
<1>4. HandlerInv' /\ EntryInv' /\ RemovalInv' /\ WakeInv'
  <2>1. \A q \in Requests : future[q] = "none" => at'[q] = at[q]
    BY <1>1, <1>2
  <2>2. \A q \in sent' : future[q] # "none"
    BY <1>0 DEF HandlerInv, WorkerTyped
  <2>3. \A q \in Requests : /\ future'[q] = "none" <=> future[q] = "none"
                            /\ future'[q] = "pending" => future[q] = "pending"
    BY <1>0, <1>1, <1>2
  <2> QED
    BY <1>0, <1>3, <2>1, <2>2, <2>3, HandlersKept
<1>5. SlotInv'
  BY <1>0, <1>2 DEF SlotInv, LockHeld, OnlyThreads, WorkerTyped
<1>6. ThreadInv'
  <2> SUFFICES ASSUME NEW t \in Threads
               PROVE  (/\ at[t] = "start" => t \in Requests /\ HasSlot(t)
                       /\ at[t] \in {"publish", "resolve", "callbacks"} =>
                            /\ on[t] \in Requests
                            /\ t # Consumer => on[t] = t /\ event[t] = "failed"
                       /\ at[t] = "publish" => HasSlot(on[t])
                       /\ at[t] = "resolve" => /\ future[on[t]] = "pending"
                                               /\ inFlight[IdOf[on[t]]] # on[t]
                                               /\ event[t] \in Ended
                       /\ at[t] = "callbacks" => Resolved(on[t]))'
    BY DEF ThreadInv
  <2>1. \A q \in Requests : /\ HasSlot(q) => HasSlot(q)'
                            /\ Resolved(q) => Resolved(q)'
    BY <1>0, <1>1, <1>2 DEF HasSlot, Resolved
  <2>2. CASE t = Consumer
    BY <1>1, <1>2, <2>2 DEF Resolved
  <2>3. ASSUME t # Consumer, at[t] = "resolve" PROVE on[t] # r
    BY <1>0, <1>1, <2>3 DEF ThreadInv
  <2>4. CASE t # Consumer
    BY <1>0, <1>2, <2>1, <2>3, <2>4 DEF ThreadInv
  <2> QED
    BY <2>2, <2>4
<1>7. TodoInv'
  BY <1>0, <1>2 DEF TodoInv
<1>8. ConsumerInv'
  BY <1>0, <1>1, <1>2 DEF ConsumerInv, WorkerTyped
<1> QED
  BY <1>3, <1>4, <1>5, <1>6, <1>7, <1>8

\* All of them are failed: the slots are emptied.
LEMMA ReleaseLockInv ==
    ASSUME RunnerInv, ReleaseLock
    PROVE  RunnerInv'
<1> USE DEF RunnerInv, TypeInv
<1>0. /\ LockHeld /\ at[Consumer] = "idle"
      /\ \A i \in InFlight : Resolved(inFlight[i])
      /\ lost' = "failed"
      /\ UNCHANGED <<future, threadVars, status>> /\ OnlyThreads
  BY DEF ReleaseLock, taskVars, httpVars, OnlyThreads
<1>1. inFlight' = [i \in Ids |-> NoRequest] /\ sent' \subseteq sent /\ requested' \subseteq requested
  BY DEF ReleaseLock, Forget
<1>2. TypeInv'
  BY <1>0, <1>1 DEF WorkerTyped, TasksTyped, StatusTyped, HttpTyped, ThreadsTyped,
     threadVars, OnlyThreads
<1>3. HandlerInv' /\ EntryInv' /\ RemovalInv' /\ WakeInv'
  BY <1>0, <1>1, <1>2, HandlersKept DEF HandlerInv, WorkerTyped, threadVars
<1>4. SlotInv'
  BY <1>1 DEF SlotInv
<1>5. \A r \in Requests : HasSlot(r) => HasSlot(r)'
  <2> SUFFICES ASSUME NEW r \in Requests, inFlight[IdOf[r]] = r
               PROVE  future[r] = "fatal"
    BY <1>0 DEF HasSlot, LockHeld
  <2>1. IdOf[r] \in Ids /\ r # NoRequest
    BY RunnerAssumption DEF RunnerAssumption
  <2>2. Resolved(r)
    BY <1>0, <2>1 DEF InFlight
  <2> QED
    BY <2>1, <2>2 DEF SlotInv, Resolved
<1>6. ThreadInv' /\ TodoInv'
  <2>1. \A r \in Requests : inFlight'[IdOf[r]] # r
    BY <1>1, RunnerAssumption DEF RunnerAssumption
  <2> QED
    BY <1>0, <1>5, <2>1 DEF ThreadInv, TodoInv, Resolved, threadVars
<1>7. ConsumerInv'
  BY <1>0, <1>1 DEF ConsumerInv, threadVars
<1> QED
  BY <1>2, <1>3, <1>4, <1>6, <1>7

-----------------------------------------------------------------------------
(* The invariant                                                           *)

LEMMA InitInv == Init => RunnerInv
<1> SUFFICES ASSUME Init PROVE RunnerInv
  OBVIOUS
<1> USE DEF Init
<1>1. WorkerTyped /\ ThreadsTyped /\ StatusTyped /\ HttpTyped
  BY DEF WorkerTyped, ThreadsTyped, StatusTyped, HttpTyped, Futures, Events, Places
<1>2. TasksTyped
  BY DEF TasksTyped
<1>3. HandlerInv /\ EntryInv /\ RemovalInv
  BY RunnerAssumption DEF HandlerInv, EntryInv, RemovalInv, InHandler, BeforePredict, Threads,
     RunnerAssumption
<1>4. WakeInv
  BY DEF WakeInv, Awaits
<1>5. SlotInv /\ ThreadInv /\ TodoInv /\ ConsumerInv
  BY DEF SlotInv, ThreadInv, TodoInv, ConsumerInv, Threads
<1> QED
  BY <1>1, <1>2, <1>3, <1>4, <1>5 DEF RunnerInv, TypeInv

\* Nothing that the invariant is about changes.
LEMMA SameInv ==
    ASSUME RunnerInv, OnlyThreads,
           UNCHANGED <<workerVars, threadVars, status>>
    PROVE  RunnerInv'
<1> USE DEF RunnerInv, TypeInv, workerVars
<1>1. TypeInv'
  BY DEF WorkerTyped, TasksTyped, StatusTyped, HttpTyped, ThreadsTyped, threadVars,
     OnlyThreads
<1>2. HandlerInv' /\ EntryInv' /\ RemovalInv' /\ WakeInv'
  BY <1>1, HandlersKept DEF HandlerInv, WorkerTyped, threadVars
<1>3. SlotInv' /\ ThreadInv' /\ TodoInv' /\ ConsumerInv'
  BY DEF SlotInv, ThreadInv, TodoInv, ConsumerInv, HasSlot, Resolved, LockHeld, threadVars,
     OnlyThreads
<1> QED
  BY <1>1, <1>2, <1>3

\* A cancelation leaves everything else alone.
LEMMA CancelKeeps ==
    ASSUME RunnerInv, Cancel
    PROVE  /\ RunnerInv'
           /\ UNCHANGED <<inFlight, loop, future, status, threadVars>>
<1> USE DEF RunnerInv, TypeInv
<1>1. /\ UNCHANGED <<lost, inFlight, future, sent, threadVars>>
      /\ UNCHANGED <<tasks, subscribed, tracked, callbacks, status, loop, pc>>
  BY DEF Cancel, CancelLookup, WorkerCancel, workerVars, taskVars
<1>2. requested' \subseteq Requests /\ canceling' \in Requests \cup {NoRequest}
  <2>1. CASE \E i \in Ids : CancelLookup(i)
    BY <2>1 DEF CancelLookup, Cancelable, workerVars, WorkerTyped, TasksTyped
  <2>2. CASE WorkerCancel
    BY <2>2, RunnerAssumption DEF WorkerCancel, WorkerTyped, HttpTyped, RunnerAssumption
  <2> QED
    BY <2>1, <2>2 DEF Cancel
<1>3. TypeInv'
  BY <1>1, <1>2 DEF WorkerTyped, TasksTyped, StatusTyped, HttpTyped, ThreadsTyped, threadVars
<1>4. HandlerInv' /\ EntryInv' /\ RemovalInv' /\ WakeInv'
  BY <1>1 DEF HandlerInv, EntryInv, RemovalInv, WakeInv, Awaits, threadVars
<1>5. SlotInv' /\ ThreadInv' /\ TodoInv' /\ ConsumerInv'
  BY <1>1 DEF SlotInv, ThreadInv, TodoInv, ConsumerInv, HasSlot, Resolved, LockHeld, threadVars
<1> QED
  BY <1>1, <1>3, <1>4, <1>5

LEMMA StepInv == RunnerInv /\ [Next]_vars => RunnerInv'
<1> SUFFICES ASSUME RunnerInv, [Next]_vars PROVE RunnerInv'
  OBVIOUS
<1>1. CASE UNCHANGED vars
  BY <1>1, SameInv
     DEF vars, taskVars, httpVars, OnlyThreads
<1>2. CASE Setup
  BY <1>2, SameInv
     DEF Setup, SetupResolved, SetupUnsubscribes, SetupSettles, taskVars, httpVars,
         OnlyThreads
<1>3. ASSUME NEW r \in Requests, Handler(r) \/ Starter(r) PROVE RunnerInv'
  <2>1. CASE \/ IsBusy(r) \/ GetPredictTask(r) \/ RaiseIfBusy(r) \/ PredictRefused(r)
             \/ SendStart(r) \/ Accept(r) \/ Answer(r)
    BY <2>1, HandlerMoves
  <2>2. CASE Enter(r) \/ Predict(r) \/ Wait(r)
    BY <2>2, EnterInv, PredictInv, WaitInv
  <2>3. CASE \E c \in DOMAIN AfterCallback : Register(r, c)
    BY <2>3, RegisterInv
  <2>4. CASE StarterSends(r) \/ StarterFails(r)
    BY <2>4, StarterSendsInv, StarterFailsInv
  <2> QED
    BY <1>3, <2>1, <2>2, <2>3, <2>4 DEF Handler, Starter
<1>4. CASE Cancel
  BY <1>4, CancelKeeps
<1>5. ASSUME NEW r \in Requests, NEW e \in {"output"} \cup Ended, ConsumerReceives(r, e)
      PROVE  RunnerInv'
  BY <1>5, ConsumerReceivesInv DEF Events
<1>6. ASSUME NEW th \in Threads, Thread(th) PROVE RunnerInv'
  BY <1>6, DeliverInv, PublishedInv, ResolveInv, RunNextCallbackInv, CallbacksEndInv
     DEF Thread
<1>7. CASE ChildLost \/ Failing
  BY <1>7, LostInv, FailCallInv, ReleaseLockInv DEF Failing
<1> QED
  BY <1>1, <1>2, <1>3, <1>4, <1>5, <1>6, <1>7 DEF Next

\* The tasks, the calls and the threads agree with each other at every step, for
\* requests that share an id as for those that do not (runner.py, worker.py).
THEOREM RunnerInvariant == Spec => []RunnerInv
  BY InitInv, StepInv, PTL DEF Spec

\* Once the callbacks of a future have run, the runner knows its task no longer and the
\* task receives no more events, whichever failed and however the handler that adds the
\* callbacks and the thread that runs them took turns (runner.py, _task_done_callback).
THEOREM RunnerFinishedIsForgotten == Spec => []FinishedIsForgotten
<1>1. RunnerInv => FinishedIsForgotten
  <2> SUFFICES ASSUME RunnerInv, NEW r \in tracked, callbacks[r] = <<>>, pc[r] # "remove"
               PROVE  r \notin subscribed /\ tasks[IdOf[r]] # r
    BY DEF FinishedIsForgotten
  <2>1. ~Awaits(r, "remove")
    BY DEF Awaits
  <2> QED
    BY <2>1 DEF RunnerInv, RemovalInv
<1> QED
  BY <1>1, RunnerInvariant, PTL

\* From its lookup in the runner to the one in the worker, nobody else gets the slot of
\* the call that is to be canceled: no handler runs.
CancelInv == canceling # NoRequest =>
    /\ loop = NoRequest
    /\ inFlight[IdOf[canceling]] \in {canceling, NoRequest}

\* The other steps leave a cancelation alone.
LEMMA OthersCancelNothing ==
    ASSUME RunnerInv, CancelInv, [Next]_vars
    PROVE  Cancel \/ (CancelInv' /\ requested' \subseteq requested)
<1> USE DEF RunnerInv
<1> DEFINE Kept == /\ UNCHANGED canceling
                   /\ \A i \in Ids : inFlight'[i] \in {inFlight[i], NoRequest}
                   /\ UNCHANGED loop
                   /\ requested' \subseteq requested
<1>1. ASSUME Kept PROVE CancelInv' /\ requested' \subseteq requested
  BY <1>1, RunnerAssumption DEF CancelInv, TypeInv, HttpTyped, RunnerAssumption
<1>2. ASSUME NEW q \in Requests, Handler(q)
      PROVE  CancelInv' /\ requested' \subseteq requested
  <2>1. canceling = NoRequest
    BY <1>2, RunnerAssumption
       DEF Handler, IsBusy, GetPredictTask, RaiseIfBusy, Enter, PredictRefused, Predict,
           SendStart, Register, AfterCallback, Accept, Wait, Answer, LoopFree, CancelInv,
           HandlerInv, InHandler, BeforePredict, RunnerAssumption
  <2>2. UNCHANGED canceling /\ UNCHANGED requested
    <3>1. CASE \/ IsBusy(q) \/ GetPredictTask(q) \/ RaiseIfBusy(q) \/ PredictRefused(q)
               \/ SendStart(q) \/ Accept(q) \/ Answer(q)
      BY <3>1
         DEF IsBusy, GetPredictTask, RaiseIfBusy, PredictRefused, SendStart, Accept, Answer,
             Reply, GoTo, workerVars
    <3>2. CASE Enter(q) \/ Predict(q) \/ Wait(q)
      BY <3>2 DEF Enter, Predict, Wait, GoTo, workerVars
    <3>3. CASE \E c \in DOMAIN AfterCallback : Register(q, c)
      BY <3>3 DEF Register, GoTo, workerVars
    <3> QED
      BY <1>2, <3>1, <3>2, <3>3 DEF Handler
  <2> QED
    BY <2>1, <2>2 DEF CancelInv
<1>3. ASSUME NEW q \in Requests, Starter(q) PROVE Kept
  BY <1>3 DEF Starter, StarterSends, StarterFails, workerVars, httpVars
<1>4. ASSUME NEW th \in Threads, Thread(th) PROVE Kept
  <2>1. CASE Published(th)
    BY <2>1, PublishedDoes DEF Published, Forget, httpVars, TypeInv, WorkerTyped
  <2>2. CASE Deliver(th) \/ Resolve(th) \/ RunNextCallback(th) \/ CallbacksEnd(th)
    BY <2>2 DEF Deliver, Resolve, RunNextCallback, CallbacksEnd, workerVars, httpVars
  <2> QED
    BY <1>4, <2>1, <2>2 DEF Thread
<1>5. ASSUME Failing PROVE Kept
  BY <1>5 DEF Failing, TakeLock, FailCall, ReleaseLock, Forget, httpVars
<1>6. ASSUME \/ UNCHANGED vars \/ Setup \/ ChildLost
             \/ \E q \in Requests, e \in {"output"} \cup Ended : ConsumerReceives(q, e)
      PROVE  Kept
  BY <1>6
     DEF vars, workerVars, httpVars, Setup, SetupResolved, SetupUnsubscribes, SetupSettles,
         ChildLost, ConsumerReceives
<1> HIDE DEF Kept
<1> QED
  BY <1>1, <1>2, <1>3, <1>4, <1>5, <1>6 DEF Next

LEMMA StepCancel ==
    ASSUME RunnerInv, CancelInv, [Next]_vars
    PROVE  /\ CancelInv'
           /\ \A r \in requested' \ requested : r = canceling /\ future[r] = "pending"
<1> USE DEF RunnerInv
<1>1. CASE \E i \in Ids : CancelLookup(i)
  <2>1. PICK i \in Ids : CancelLookup(i)
    BY <1>1
  <2>2. /\ loop = NoRequest /\ tasks[i] \in tracked /\ canceling' = tasks[i]
        /\ UNCHANGED <<loop, inFlight, requested>>
    BY <2>1 DEF CancelLookup, LoopFree, Cancelable, workerVars
  <2>3. IdOf[tasks[i]] = i
    BY <2>2, RunnerAssumption DEF TypeInv, TasksTyped, RunnerAssumption
  <2>4. inFlight[i] \in {tasks[i], NoRequest}
    BY <2>2 DEF SlotInv
  <2> QED
    BY <2>2, <2>3, <2>4 DEF CancelInv
<1>2. CASE WorkerCancel
  <2>1. /\ canceling # NoRequest /\ ~LockHeld /\ canceling' = NoRequest
        /\ requested' = requested \cup ({inFlight[IdOf[canceling]]} \ {NoRequest})
    BY <1>2 DEF WorkerCancel
  <2>2. IdOf[canceling] \in Ids
    BY <2>1, RunnerAssumption DEF TypeInv, HttpTyped, RunnerAssumption
  <2>3. ASSUME NEW r \in requested' \ requested
        PROVE  r = canceling /\ future[r] = "pending"
    <3>1. r = inFlight[IdOf[canceling]] /\ r # NoRequest
      BY <2>1, <2>3
    <3>2. r = canceling
      BY <2>1, <3>1 DEF CancelInv
    <3>3. future[r] = "pending"
      BY <2>1, <2>2, <3>1 DEF SlotInv
    <3> QED
      BY <3>2, <3>3
  <2> QED
    BY <2>1, <2>3 DEF CancelInv
<1> QED
  BY <1>1, <1>2, OthersCancelNothing DEF Cancel

\* A cancelation that the worker notes is one of the task that the runner has found
\* under the id, and of a call that is not resolved, though calls end and slots are
\* freed between the two lookups (runner.py, cancel; worker.py, cancel).
THEOREM RunnerCancelHitsTheTask == Spec => CancelHitsTheTask
<1>1. Init => CancelInv
  BY DEF Init, CancelInv
<1>2. RunnerInv /\ CancelInv /\ [Next]_vars
        => /\ CancelInv'
           /\ [\A r \in requested' \ requested : r = canceling /\ future[r] = "pending"]_vars
  BY StepCancel
<1> QED
  BY <1>1, <1>2, RunnerInvariant, PTL DEF Spec, CancelHitsTheTask

-----------------------------------------------------------------------------
(* The status of a task                                                    *)

\* A terminal status is kept.
Stays == \A r \in Requests : OnlyUser(r) /\ status[r] \in Ended => status'[r] = status[r]

LEMMA StatusSame ==
    ASSUME StatusInv, UNCHANGED <<future, status, threadVars>>
    PROVE  StatusInv' /\ Stays
<1>1. StatusInv'
  BY DEF StatusInv, StatusOf, Tells, OnlyUser, threadVars
<1>2. Stays
  BY DEF Stays
<1> QED
  BY <1>1, <1>2

\* A fatal error makes a status "failed", and no other terminal one was there.
LEMMA StatusCallback ==
    ASSUME RunnerInv, StatusInv, NEW q \in Requests, CallbackStep(q)
    PROVE  StatusInv' /\ Stays
<1>1. UNCHANGED <<future, threadVars>> /\ FailsFatal(q)
  BY DEF CallbackStep, workerVars
<1>2. CASE status' = status
  BY <1>1, <1>2, StatusSame
<1>3. CASE future[q] = "fatal" /\ status' = [status EXCEPT ![q] = "failed"]
  <2>1. /\ status'[q] = "failed"
        /\ \A r \in Requests \ {q} : status'[r] = status[r]
    BY <1>3 DEF RunnerInv, TypeInv, StatusTyped
  <2>2. Stays
    <3>1. OnlyUser(q) /\ status[q] \in Ended => status[q] = "failed"
      BY <1>3 DEF StatusInv, StatusOf, Ended
    <3> QED
      BY <2>1, <3>1 DEF Stays
  <2>3. StatusInv'
    <3> SUFFICES ASSUME NEW r \in Requests, OnlyUser(r) PROVE StatusOf(r)'
      BY DEF StatusInv, OnlyUser
    <3>1. CASE r = q
      BY <1>1, <1>3, <2>1, <3>1 DEF StatusOf, Ended
    <3>2. CASE r # q
      BY <1>1, <2>1, <3>2 DEF StatusInv, StatusOf, Tells, threadVars
    <3> QED
      BY <3>1, <3>2
  <2> QED
    BY <2>2, <2>3
<1> QED
  BY <1>1, <1>2, <1>3 DEF FailsFatal

LEMMA StatusEnter ==
    ASSUME RunnerInv, StatusInv, NEW q \in Requests, Enter(q)
    PROVE  StatusInv' /\ Stays
<1>1. /\ status' = [status EXCEPT ![q] = "processing"] /\ UNCHANGED <<future, threadVars>>
      /\ future[q] = "none"
  BY DEF Enter, workerVars, RunnerInv, HandlerInv, BeforePredict
<1>2. /\ status'[q] = "processing"
      /\ \A r \in Requests \ {q} : status'[r] = status[r]
  BY <1>1 DEF RunnerInv, TypeInv, StatusTyped
<1>3. Stays
  BY <1>1, <1>2 DEF Stays, StatusInv, StatusOf
<1>4. StatusInv'
  <2> SUFFICES ASSUME NEW r \in Requests, OnlyUser(r) PROVE StatusOf(r)'
    BY DEF StatusInv, OnlyUser
  <2>1. CASE r = q
    BY <1>1, <1>2, <2>1 DEF StatusOf, Ended
  <2>2. CASE r # q
    BY <1>1, <1>2, <2>2 DEF StatusInv, StatusOf, Tells, threadVars
  <2> QED
    BY <2>1, <2>2
<1> QED
  BY <1>3, <1>4

LEMMA StatusPredict ==
    ASSUME RunnerInv, StatusInv, NEW q \in Requests, Predict(q)
    PROVE  StatusInv' /\ Stays
<1> USE DEF RunnerInv, TypeInv
<1>1. /\ future' = [future EXCEPT ![q] = "pending"] /\ at' = [at EXCEPT ![q] = "start"]
      /\ UNCHANGED <<on, event, todo, status>>
      /\ future[q] = "none" /\ q \in Threads /\ q # Consumer /\ Consumer \in Threads
  BY RunnerAssumption
     DEF Predict, taskVars, HandlerInv, BeforePredict, Threads, RunnerAssumption
<1>2. /\ future'[q] = "pending" /\ \A r \in Requests \ {q} : future'[r] = future[r]
      /\ at'[q] = "start" /\ \A t \in Threads \ {q} : at'[t] = at[t]
  BY <1>1 DEF WorkerTyped, ThreadsTyped
<1>3. Stays
  BY <1>1 DEF Stays
<1>4. StatusInv'
  <2> SUFFICES ASSUME NEW r \in Requests, OnlyUser(r) PROVE StatusOf(r)'
    BY DEF StatusInv, OnlyUser
  <2>1. CASE r = q
    <3>1. status'[q] \notin Ended
      BY <1>1, <2>1 DEF StatusInv, StatusOf
    <3>2. on[Consumer] = q => at[Consumer] \notin {"publish", "resolve"}
      BY <1>1 DEF ConsumerInv
    <3> QED
      BY <1>1, <1>2, <2>1, <3>1, <3>2 DEF StatusOf, Ended
  <2>2. CASE r # q
    <3>1. r \in Threads
      BY DEF Threads
    <3> QED
      BY <1>1, <1>2, <2>2, <3>1 DEF StatusInv, StatusOf, Tells
  <2> QED
    BY <2>1, <2>2
<1> QED
  BY <1>3, <1>4

\* The thread has nothing in hand, before or after: no status depends on it.
LEMMA StatusIdle ==
    ASSUME StatusInv, NEW th, UNCHANGED <<future, status>>,
           at[th] \notin {"publish", "resolve"}, at'[th] \notin {"publish", "resolve"},
           \A t \in Threads \ {th} : /\ at'[t] = at[t] /\ on'[t] = on[t]
                                     /\ event'[t] = event[t] /\ todo'[t] = todo[t]
    PROVE  StatusInv' /\ Stays
<1>1. Stays
  BY DEF Stays
<1>2. StatusInv'
  <2> SUFFICES ASSUME NEW r \in Requests, OnlyUser(r) PROVE StatusOf(r)'
    BY DEF StatusInv, OnlyUser
  <2>1. r \in Threads /\ Consumer \in Threads
    BY DEF Threads
  <2>2. \A t \in {r, Consumer} : t # th =>
            /\ at'[t] = at[t] /\ on'[t] = on[t] /\ event'[t] = event[t] /\ todo'[t] = todo[t]
    BY <2>1
  <2> QED
    BY <2>2 DEF StatusInv, StatusOf, Tells
<1> QED
  BY <1>1, <1>2

\* The call of q is pending and no thread tells of its end: the thread that publishes
\* an event for it will call its task.
LEMMA StatusPublish ==
    ASSUME RunnerInv, StatusInv, NEW q \in Requests, NEW th \in {q, Consumer},
           NEW e \in Events, Publish(th, q, e), UNCHANGED <<future, status>>,
           at[th] \in {"idle", "start"}, ~Tells(q, q), ~Tells(Consumer, q),
           \A t \in {q, Consumer} \ {th} : on[t] = q => at[t] \notin {"publish", "resolve"}
    PROVE  StatusInv' /\ Stays
<1> USE DEF RunnerInv, TypeInv
<1>1. Stays
  BY DEF Stays
<1>2. th \in Threads /\ Consumer \in Threads /\ \A r \in Requests : r \in Threads /\ r # Consumer
  BY RunnerAssumption DEF Threads, RunnerAssumption
<1>3. /\ at'[th] = "publish" /\ on'[th] = q /\ event'[th] = e
      /\ todo'[th] = Subscribers(IdOf[q])
      /\ \A t \in Threads \ {th} : /\ at'[t] = at[t] /\ on'[t] = on[t]
                                   /\ event'[t] = event[t] /\ todo'[t] = todo[t]
  BY <1>2, PublishDoes
<1>4. future[q] = "pending" => q \in todo'[th]
  BY <1>3 DEF EntryInv, Subscribers
<1>5. StatusInv'
  <2> SUFFICES ASSUME NEW r \in Requests, OnlyUser(r) PROVE StatusOf(r)'
    BY DEF StatusInv, OnlyUser
  <2>1. \A t \in {r, Consumer} : t # th =>
            /\ at'[t] = at[t] /\ on'[t] = on[t] /\ event'[t] = event[t] /\ todo'[t] = todo[t]
    BY <1>2, <1>3
  <2>2. CASE r = q
    <3>1. future[q] = "pending" => status[q] \notin Ended
      BY <2>2 DEF StatusInv, StatusOf
    <3> QED
      BY <1>3, <1>4, <2>1, <2>2, <3>1 DEF StatusInv, StatusOf
  <2>3. CASE r # q
    <3>1. ~Tells(th, r) /\ on'[th] # r
      BY <1>3, <2>3 DEF Tells
    <3>2. \A t \in {r, Consumer} : Tells(t, r) => Tells(t, r)'
      BY <2>1, <3>1 DEF Tells
    <3>3. \A t \in {r, Consumer} : on'[t] = r =>
            on[t] = r /\ at'[t] = at[t] /\ event'[t] = event[t] /\ todo'[t] = todo[t]
      BY <2>1, <3>1
    <3> QED
      BY <3>2, <3>3 DEF StatusInv, StatusOf
  <2> QED
    BY <2>2, <2>3
<1> QED
  BY <1>1, <1>5

LEMMA StatusConsumerReceives ==
    ASSUME RunnerInv, StatusInv, NEW q \in Requests, NEW e \in Events, ConsumerReceives(q, e)
    PROVE  StatusInv' /\ Stays
<1>1. /\ at[Consumer] = "idle" /\ q \in sent /\ Publish(Consumer, q, e)
      /\ UNCHANGED <<future, status>>
  BY DEF ConsumerReceives, taskVars
<1>2. at[q] = "idle"
  BY <1>1 DEF RunnerInv, ConsumerInv
<1>3. ~Tells(q, q) /\ ~Tells(Consumer, q)
  BY <1>1, <1>2 DEF Tells
<1> QED
  BY <1>1, <1>2, <1>3, StatusPublish

LEMMA StatusStarterFails ==
    ASSUME RunnerInv, StatusInv, NEW q \in Requests, StarterFails(q)
    PROVE  StatusInv' /\ Stays
<1>1. at[q] = "start" /\ Publish(q, q, "failed") /\ UNCHANGED <<future, status>>
  BY DEF StarterFails, workerVars, taskVars
<1>2. q \in Threads /\ Consumer \in Threads /\ q # Consumer
  BY RunnerAssumption DEF Threads, RunnerAssumption
<1>3. on[Consumer] = q => at[Consumer] \notin {"publish", "resolve"}
  BY <1>1, <1>2, OnePublisher
<1>4. ~Tells(q, q) /\ ~Tells(Consumer, q)
  BY <1>1, <1>3 DEF Tells
<1>5. "failed" \in Events
  BY DEF Events, Ended
<1> QED
  BY <1>1, <1>3, <1>4, <1>5, StatusPublish

LEMMA StatusDeliver ==
    ASSUME NothingUnsent, RunnerInv, StatusInv, NEW th \in Threads, Deliver(th)
    PROVE  StatusInv' /\ Stays
<1> USE DEF RunnerInv, TypeInv
<1>0. at[th] = "publish" /\ UNCHANGED <<future, at, on, event>>
  BY DEF Deliver, workerVars
<1>1. PICK q \in todo[th] :
         /\ todo' = [todo EXCEPT ![th] = @ \ {q}]
         /\ IF q = SetupTask
            THEN SetupHandleEvent(event[th]) /\ UNCHANGED <<status, completed>>
            ELSE HandleEvent(q, event[th]) /\ UNCHANGED setupStatus
  BY DEF Deliver
<1>2. /\ todo'[th] = todo[th] \ {q}
      /\ \A t \in Threads \ {th} : todo'[t] = todo[t]
  BY <1>1 DEF ThreadsTyped
<1>3. \A r \in Requests : r \in Threads /\ r # Consumer
  BY RunnerAssumption DEF Threads, RunnerAssumption
<1>4. Consumer \in Threads
  BY DEF Threads
<1>5. CASE q = SetupTask
  <2>1. Stays
    BY <1>1, <1>5 DEF Stays
  <2>2. \A r \in Requests, t \in Threads : r \in todo[t] => r \in todo'[t]
    BY <1>2, <1>5, RunnerAssumption DEF RunnerAssumption
  <2>3. StatusInv'
    <3> SUFFICES ASSUME NEW r \in Requests, OnlyUser(r) PROVE StatusOf(r)'
      BY DEF StatusInv, OnlyUser
    <3> QED
      BY <1>0, <1>1, <1>3, <1>4, <1>5, <2>2 DEF StatusInv, StatusOf, Tells
  <2> QED
    BY <2>1, <2>3
<1>6. CASE q # SetupTask
  <2>1. q \in Requests /\ IdOf[q] = IdOf[on[th]] /\ on[th] \in Requests
    BY <1>0, <1>6 DEF ThreadsTyped, TodoInv, ThreadInv
  <2>2. \/ event[th] \in Ended /\ status' = [status EXCEPT ![q] = event[th]]
        \/ event[th] = "output" /\ status' = status
    BY <1>1, <1>6 DEF HandleEvent, Finish, NothingUnsent
  <2>3. OnlyUser(q) => on[th] = q /\ th \in {q, Consumer}
    BY <1>0, <2>1 DEF OnlyUser, ThreadInv
  <2>4. \A t \in {q, Consumer} :
            on[th] = q /\ on[t] = q /\ at[t] \in {"publish", "resolve"} => t = th
    BY <1>0, <1>3, <1>4, <2>1, OnePublisher
  <2>5. on[th] = q => future[q] \in {"pending", "fatal"}
    BY <1>0, <2>1, RunnerAssumption DEF ThreadInv, HasSlot, SlotInv, RunnerAssumption
  <2>6. on[th] = q /\ future[q] = "fatal" => event[th] = "failed"
    BY <1>0 DEF ThreadInv, ConsumerInv
  <2>7. ASSUME OnlyUser(q), status[q] \in Ended, event[th] \in Ended
        PROVE  event[th] = status[q]
    <3>1. CASE future[q] = "fatal"
      BY <2>1, <2>3, <2>6, <2>7, <3>1 DEF StatusInv, StatusOf, Ended
    <3>2. CASE future[q] = "pending"
      <4>1. PICK t \in {q, Consumer} : Tells(t, q)
        BY <2>1, <2>7, <3>2 DEF StatusInv, StatusOf
      <4> QED
        BY <2>3, <2>4, <2>7, <4>1 DEF Tells
    <3> QED
      BY <2>3, <2>5, <2>7, <3>1, <3>2
  <2>8. \A r \in Requests \ {q} : status'[r] = status[r]
    BY <2>1, <2>2 DEF StatusTyped
  <2>9. status'[q] = IF event[th] \in Ended THEN event[th] ELSE status[q]
    BY <2>1, <2>2 DEF StatusTyped, Ended
  <2>10. Stays
    BY <2>7, <2>8, <2>9 DEF Stays
  <2>11. StatusInv'
    <3> SUFFICES ASSUME NEW r \in Requests, OnlyUser(r) PROVE StatusOf(r)'
      BY DEF StatusInv, OnlyUser
    <3>1. CASE r # q
      <4>1. \A t \in Threads : r \in todo[t] => r \in todo'[t]
        BY <1>2, <3>1
      <4> QED
        BY <1>0, <1>3, <1>4, <2>8, <3>1, <4>1 DEF StatusInv, StatusOf, Tells
    <3>2. CASE r = q /\ event[th] \in Ended
      <4>1. status'[q] = event[th] /\ on[th] = q /\ th \in {q, Consumer}
        BY <2>3, <2>9, <3>2
      <4>2. Tells(th, q)'
        BY <1>0, <4>1 DEF Tells
      <4>3. future'[q] = "fatal" => status'[q] = "failed"
        BY <1>0, <2>6, <4>1
      <4> QED
        BY <1>0, <2>4, <2>5, <3>2, <4>1, <4>2, <4>3 DEF StatusOf, Ended
    <3>3. CASE r = q /\ event[th] \notin Ended
      <4>1. status'[q] = status[q]
        BY <2>9, <3>3
      <4>2. \A t \in Threads : event[t] \in Ended => todo'[t] = todo[t]
        BY <1>2, <3>3
      <4> QED
        BY <1>0, <1>3, <1>4, <3>3, <4>1, <4>2 DEF StatusInv, StatusOf, Tells
    <3> QED
      BY <3>1, <3>2, <3>3
  <2> QED
    BY <2>10, <2>11
<1> QED
  BY <1>5, <1>6

LEMMA StatusPublished ==
    ASSUME RunnerInv, StatusInv, NEW th \in Threads, Published(th)
    PROVE  StatusInv' /\ Stays
<1> USE DEF RunnerInv, TypeInv
<1>0. at[th] = "publish" /\ todo[th] = {} /\ UNCHANGED <<future, status, todo>>
  BY PublishedDoes
<1>1. Stays
  BY <1>0 DEF Stays
<1>2. CASE Rest(th) /\ (event[th] = "output" \/ future[on[th]] = "fatal")
  <2>1. /\ at'[th] = "idle"
        /\ \A t \in Threads \ {th} : at'[t] = at[t] /\ on'[t] = on[t] /\ event'[t] = event[t]
    BY <1>0, <1>2, RestDoes
  <2>2. StatusInv'
    <3> SUFFICES ASSUME NEW r \in Requests, OnlyUser(r) PROVE StatusOf(r)'
      BY DEF StatusInv, OnlyUser
    <3>1. future[r] = "pending" /\ status[r] \in Ended => ~Tells(th, r)
      BY <1>2 DEF Tells, Ended
    <3>2. r \in Threads /\ Consumer \in Threads
      BY DEF Threads
    <3>3. \A t \in {r, Consumer} : t # th =>
              at'[t] = at[t] /\ on'[t] = on[t] /\ event'[t] = event[t]
      BY <2>1, <3>2
    <3> QED
      BY <1>0, <2>1, <3>1, <3>3 DEF StatusInv, StatusOf, Tells
  <2> QED
    BY <1>1, <2>2
<1>3. CASE at' = [at EXCEPT ![th] = "resolve"] /\ UNCHANGED <<on, event>>
  <2>1. at'[th] = "resolve" /\ \A t \in Threads \ {th} : at'[t] = at[t]
    BY <1>3 DEF ThreadsTyped
  <2>2. StatusInv'
    <3> SUFFICES ASSUME NEW r \in Requests, OnlyUser(r) PROVE StatusOf(r)'
      BY DEF StatusInv, OnlyUser
    <3>1. r \in Threads /\ Consumer \in Threads
      BY DEF Threads
    <3>2. \A t \in {r, Consumer} : t # th => at'[t] = at[t]
      BY <2>1, <3>1
    <3> QED
      BY <1>0, <1>3, <2>1, <3>2 DEF StatusInv, StatusOf, Tells
  <2> QED
    BY <1>1, <2>2
<1> QED
  BY <1>2, <1>3, PublishedDoes

LEMMA StatusResolve ==
    ASSUME RunnerInv, StatusInv, NEW th \in Threads, Resolve(th)
    PROVE  StatusInv' /\ Stays
<1> USE DEF RunnerInv, TypeInv
<1> DEFINE q == on[th]
<1>0. /\ at[th] = "resolve" /\ at' = [at EXCEPT ![th] = "callbacks"]
      /\ future' = [future EXCEPT ![q] = event[th]]
      /\ UNCHANGED <<status, on, event, todo>>
  BY DEF Resolve, taskVars
<1>1. /\ q \in Requests /\ future[q] = "pending" /\ event[th] \in Ended
      /\ th \in {q, Consumer}
  BY <1>0 DEF ThreadInv
<1>2. /\ future'[q] = event[th] /\ \A r \in Requests \ {q} : future'[r] = future[r]
      /\ at'[th] = "callbacks" /\ \A t \in Threads \ {th} : at'[t] = at[t]
  BY <1>0, <1>1 DEF WorkerTyped, ThreadsTyped
<1>3. Stays
  BY <1>0 DEF Stays
<1>4. StatusInv'
  <2> SUFFICES ASSUME NEW r \in Requests, OnlyUser(r) PROVE StatusOf(r)'
    BY DEF StatusInv, OnlyUser
  <2>1. CASE r = q
    <3>1. status[q] = event[th]
      BY <1>0, <1>1, <2>1 DEF StatusInv, StatusOf
    <3> QED
      BY <1>0, <1>1, <1>2, <2>1, <3>1 DEF StatusOf, Ended
  <2>2. CASE r # q
    <3>1. r \in Threads /\ Consumer \in Threads
      BY DEF Threads
    <3>2. \A t \in {r, Consumer} : at'[t] = at[t] \/ on[t] # r
      BY <1>2, <2>2, <3>1
    <3> QED
      BY <1>0, <1>2, <2>2, <3>2 DEF StatusInv, StatusOf, Tells
  <2> QED
    BY <2>1, <2>2
<1> QED
  BY <1>3, <1>4

\* The only terminal status of a call that is failed with the child is "failed": its
\* own thread has published it.
LEMMA StatusFailCall ==
    ASSUME RunnerInv, StatusInv, NEW i \in Ids, FailCall(i)
    PROVE  StatusInv' /\ Stays
<1> USE DEF RunnerInv, TypeInv
<1> DEFINE q == inFlight[i]
<1>0. /\ at[Consumer] = "idle" /\ q # NoRequest /\ future[q] = "pending"
      /\ future' = [future EXCEPT ![q] = "fatal"]
      /\ at' = [at EXCEPT ![Consumer] = "callbacks"]
      /\ on' = [on EXCEPT ![Consumer] = q]
      /\ UNCHANGED <<event, todo, status>>
  BY DEF FailCall, taskVars
<1>1. /\ q \in Requests /\ Consumer \in Threads
      /\ \A r \in Requests : r \in Threads /\ r # Consumer
  BY <1>0, RunnerAssumption DEF WorkerTyped, Threads, RunnerAssumption
<1>2. /\ future'[q] = "fatal" /\ \A r \in Requests \ {q} : future'[r] = future[r]
      /\ at'[Consumer] = "callbacks"
      /\ \A t \in Threads \ {Consumer} : at'[t] = at[t] /\ on'[t] = on[t]
  BY <1>0, <1>1 DEF WorkerTyped, ThreadsTyped
<1>3. Stays
  BY <1>0 DEF Stays
<1>4. StatusInv'
  <2> SUFFICES ASSUME NEW r \in Requests, OnlyUser(r) PROVE StatusOf(r)'
    BY DEF StatusInv, OnlyUser
  <2>1. ~Tells(Consumer, r)
    BY <1>0 DEF Tells
  <2>2. CASE r = q
    <3>1. status[q] \in Ended => Tells(q, q)
      BY <1>0, <1>1, <2>1, <2>2 DEF StatusInv, StatusOf
    <3>2. Tells(q, q) => status[q] = "failed"
      BY <1>1 DEF Tells, ThreadInv
    <3> QED
      BY <1>0, <1>2, <2>2, <3>1, <3>2 DEF StatusOf, Ended
  <2>3. CASE r # q
    BY <1>0, <1>1, <1>2, <2>1, <2>3 DEF StatusInv, StatusOf, Tells
  <2> QED
    BY <2>2, <2>3
<1> QED
  BY <1>3, <1>4

LEMMA StatusStep ==
    ASSUME NothingUnsent, RunnerInv, StatusInv, [Next]_vars
    PROVE  StatusInv' /\ Stays
<1>1. CASE UNCHANGED vars \/ Setup \/ ChildLost
  BY <1>1, StatusSame
     DEF vars, workerVars, taskVars, Setup, SetupResolved, SetupUnsubscribes, SetupSettles,
         ChildLost
<1>2. ASSUME NEW q \in Requests, Handler(q) PROVE StatusInv' /\ Stays
  <2>1. CASE \/ IsBusy(q) \/ GetPredictTask(q) \/ RaiseIfBusy(q) \/ PredictRefused(q)
             \/ SendStart(q) \/ Accept(q) \/ Answer(q)
    BY <2>1, HandlerMoves, StatusSame DEF OnlyHttp, workerVars
  <2>2. CASE Enter(q) \/ Predict(q)
    BY <2>2, StatusEnter, StatusPredict
  <2>3. CASE Wait(q) \/ \E c \in DOMAIN AfterCallback : Register(q, c)
    BY <2>3, WaitInv, RegisterInv, StatusCallback
  <2> QED
    BY <1>2, <2>1, <2>2, <2>3 DEF Handler
<1>3. ASSUME NEW q \in Requests, Starter(q) PROVE StatusInv' /\ Stays
  <2>1. CASE StarterSends(q)
    <3>1. /\ at[q] = "start" /\ Rest(q) /\ q \in Threads /\ ThreadsTyped
          /\ UNCHANGED <<future, status, todo>>
      BY <2>1 DEF StarterSends, taskVars, Threads, RunnerInv, TypeInv
    <3> QED
      BY <3>1, RestDoes, StatusIdle
  <2> QED
    BY <1>3, <2>1, StatusStarterFails DEF Starter
<1>4. CASE Cancel
  BY <1>4, CancelKeeps, StatusSame
<1>5. ASSUME NEW q \in Requests, NEW e \in {"output"} \cup Ended, ConsumerReceives(q, e)
      PROVE  StatusInv' /\ Stays
  BY <1>5, StatusConsumerReceives DEF Events
<1>6. ASSUME NEW th \in Threads, Thread(th) PROVE StatusInv' /\ Stays
  <2>1. CASE RunNextCallback(th)
    BY <2>1, RunNextCallbackInv, StatusCallback
  <2>2. CASE CallbacksEnd(th)
    <3>1. /\ at[th] = "callbacks" /\ Rest(th) /\ ThreadsTyped
          /\ UNCHANGED <<future, status, todo>>
      BY <2>2 DEF CallbacksEnd, workerVars, taskVars, RunnerInv, TypeInv
    <3> QED
      BY <3>1, RestDoes, StatusIdle
  <2> QED
    BY <1>6, <2>1, <2>2, StatusDeliver, StatusPublished, StatusResolve DEF Thread
<1>7. CASE Failing
  BY <1>7, StatusFailCall, StatusSame DEF Failing, TakeLock, ReleaseLock, taskVars
<1> QED
  BY <1>1, <1>2, <1>3, <1>4, <1>5, <1>6, <1>7 DEF Next

LEMMA StatusInit == Init => StatusInv
  BY DEF Init, StatusInv, StatusOf, Ended, Threads

\* As long as outputs can be uploaded and terminal webhooks are delivered, what a task
\* says and what its future will say are tied together at every step, for each request
\* that does not share its id.
THEOREM RunnerStatusInv == ASSUME NothingUnsent PROVE Spec => []StatusInv
<1>1. RunnerInv /\ StatusInv /\ [Next]_vars => StatusInv'
  BY StatusStep
<1> QED
  BY <1>1, StatusInit, RunnerInvariant, PTL DEF Spec

\* Under that condition the status that a client is shown is the outcome of the
\* prediction: the last event reaches the task before the future is resolved
\* (worker.py, _publish before _complete_prediction).
THEOREM RunnerStatusAgrees == ASSUME NothingUnsent PROVE Spec => []StatusAgrees
<1>1. StatusInv => StatusAgrees
  BY DEF StatusInv, StatusOf, StatusAgrees
<1> QED
  BY <1>1, RunnerStatusInv, PTL

\* And it never changes again, though the consumer, the start pool and the death of the
\* child may each end the prediction (runner.py, handle_event and _handle_done).
THEOREM RunnerTerminalIsFinal == ASSUME NothingUnsent PROVE Spec => TerminalIsFinal
<1>1. RunnerInv /\ StatusInv /\ [Next]_vars
        => [\A r \in Requests :
               OnlyUser(r) /\ status[r] \in Ended => status'[r] = status[r]]_vars
  BY StatusStep DEF Stays
<1> QED
  BY <1>1, RunnerInvariant, RunnerStatusInv, PTL DEF Spec, TerminalIsFinal
=============================================================================
