---------------------------- MODULE WorkerProofs ----------------------------
(***************************************************************************)
(* Proofs about Worker, for every set of calls and tags, every limit, both *)
(* kinds of child and every choice of failures and stops.  IInv of         *)
(* WorkerInvariant is inductive, and the safety properties follow from it: *)
(* one lemma per conjunct of IInv, each with one step per action that      *)
(* disturbs the conjunct.  On top of IInv, OInv is inductive: it says what *)
(* the outcomes of calls come from, and with it every step of Worker is    *)
(* one of PredictionService.                                               *)
(***************************************************************************)
EXTENDS WorkerInvariant, FiniteSetTheorems, TLAPS

-----------------------------------------------------------------------------
(* Types                                                                   *)

\* The type invariant in two halves: what the parent's threads keep, and the pipe
\* and the child.
ParentTyped ==
    /\ state \in WorkerState
    /\ terminating \in BOOLEAN
    /\ sentShutdown \in BOOLEAN
    /\ setupResult \in SetupResult
    /\ inFlight \in [Tags -> Calls \cup {NoCall}]
    /\ cancelSent \in SUBSET Calls
    /\ future \in [Calls -> {"none", "pending"} \cup Resolved]
    /\ seen \in [Calls -> {"none"} \cup Ended]
    /\ starter \in [Calls -> StarterState]
    /\ popped \in [Threads -> Calls \cup {NoCall}]
    /\ consumer \in ConsumerState

ChildTyped ==
    /\ held \in ToParent
    /\ toChild \in Seq(ToChild)
    /\ toParent \in Seq(ToParent)
    /\ child \in ChildState
    /\ task \in [Calls -> TaskState]
    /\ verdict \in [Calls -> {"none"} \cup Ended]
    /\ outputs \in [Calls -> 0..MaxOutputs]
    /\ sigPending \in BOOLEAN

LEMMA TypeHalves == TypeOK <=> ParentTyped /\ ChildTyped
  BY DEF TypeOK, ParentTyped, ChildTyped

LEMMA SetupDoneTyped == ASSUME NEW v \in Ended PROVE SetupDone(v) \in ToParent
  BY DEF SetupDone, ToParent, Ended

LEMMA MessagesTyped ==
    ASSUME NEW c \in Calls, NEW v \in Ended
    PROVE  Done(c, v) \in ToParent /\ Output(c) \in ToParent
  BY WorkerAssumption DEF Done, Output, ToParent, Ended

LEMMA AppendTyped ==
    ASSUME toParent \in Seq(ToParent), NEW m \in ToParent
    PROVE  Append(toParent, m) \in Seq(ToParent)
  OBVIOUS

LEMMA TypeInit == Init => TypeOK
<1> SUFFICES ASSUME Init PROVE ParentTyped /\ ChildTyped
  BY TypeHalves
<1>1. ParentTyped
  BY DEF Init, ParentTyped, WorkerState, SetupResult, StarterState, ConsumerState
<1>2. ChildTyped
  <2>1. held \in ToParent
    BY SetupDoneTyped DEF Init, Ended
  <2>2. toChild \in Seq(ToChild) /\ toParent \in Seq(ToParent)
    BY DEF Init
  <2>3. outputs \in [Calls -> 0..MaxOutputs]
    BY WorkerAssumption DEF Init
  <2> QED
    BY <2>1, <2>2, <2>3 DEF Init, ChildTyped, ChildState, TaskState
<1> QED
  BY <1>1, <1>2

\* No step takes the variables of the parent out of their types.
LEMMA ParentTypeStep == TypeOK /\ [Next]_vars => ParentTyped'
<1> SUFFICES ASSUME TypeOK, [Next]_vars PROVE ParentTyped'
  OBVIOUS
<1> USE WorkerAssumption DEF TypeOK, ParentTyped
<1>1. CASE UNCHANGED vars
  BY <1>1 DEF vars, parentVars, starterVars, consumerVars
<1>2. CASE Setup
  BY <1>2 DEF Setup, starterVars, WorkerState, ConsumerState
<1>3. ASSUME NEW c \in Calls, Predict(c) PROVE ParentTyped'
  BY <1>3 DEF Predict, consumerVars, StarterState
<1>4. ASSUME NEW t \in Tags, Cancel(t) PROVE ParentTyped'
  <2>1. inFlight[t] \in Calls
    BY <1>4 DEF Cancel, MayCancel
  <2> QED
    BY <1>4, <2>1 DEF Cancel, starterVars, consumerVars
<1>5. CASE Shutdown \/ Terminate
  BY <1>5 DEF Shutdown, Terminate, starterVars, consumerVars, WorkerState
<1>6. ASSUME NEW c \in Calls, SendInput(c) \/ DownloadFails(c) PROVE ParentTyped'
  BY ZenonT(40), <1>6 DEF SendInput, DownloadFails, parentVars, consumerVars, StarterState, Ended
<1>7. ASSUME NEW c \in Calls, StarterPops(c) PROVE ParentTyped'
  BY ZenonT(40), <1>7 DEF StarterPops, PopInFlight, Threads, consumerVars, StarterState
<1>8. ASSUME NEW c \in Calls, StarterResolves(c) PROVE ParentTyped'
  BY <1>8 DEF StarterResolves, Threads, consumerVars, StarterState, Resolved, Ended
<1>9. CASE SetupCheck \/ SetupPoll \/ SetupOk \/ SetupFailed
  BY <1>9 DEF SetupCheck, SetupPoll, SetupOk, SetupFailed, ConsumerKeeps, starterVars,
              WorkerState, SetupResult, ConsumerState
<1>10. CASE Check \/ PollTimesOut \/ Drained \/ Final
  BY <1>10 DEF Check, PollTimesOut, Drained, Final, ConsumerKeeps, starterVars,
               WorkerState, ConsumerState
<1>11. CASE Receive
  <2>1. Head(toParent) \in ToParent
    BY <1>11 DEF Receive
  <2>2. Head(toParent).verdict \in Ended
    BY <2>1 DEF ToParent
  <2> QED
    BY <1>11, <2>2 DEF Receive, ConsumerKeeps, starterVars, ConsumerState
<1>12. CASE ConsumerPops
  <2>1. held.tag \in Tags \cup {NoTag}
    BY DEF ToParent
  <2> QED
    BY <1>12, <2>1 DEF ConsumerPops, PopInFlight, Threads, ConsumerState
<1>13. CASE ConsumerResolves
  <2>1. held.verdict \in Ended
    BY DEF ToParent
  <2> QED
    BY <1>13, <2>1 DEF ConsumerResolves, Threads, Resolved, ConsumerState
<1>14. CASE FailInFlight
  BY <1>14 DEF FailInFlight, ConsumerKeeps, starterVars, Resolved, ConsumerState
<1>15. CASE ChildKeeps
  BY <1>15 DEF ChildKeeps, parentVars, starterVars, consumerVars
<1> QED
  BY <1>1, <1>2, <1>3, <1>4, <1>5, <1>6, <1>7, <1>8, <1>9, <1>10, <1>11, <1>12,
     <1>13, <1>14, <1>15
  DEF Next, Callers, Starters, Consume, ChildLoop, ChildTask, AsyncExit, ChildDies,
      SetupEnds, ReadInput, ReadCancel, ReadShutdown, ChildExits, StartBody,
      SendOutput, PredictEnds, ClearCancelable, SendDone, CancelEnds,
      SignalIgnored, SignalCancels, SignalEscapes

\* Nor those of the pipe and the child.
LEMMA SendToChildTyped ==
    ASSUME toChild \in Seq(ToChild), NEW m \in ToChild, SendToChild(m)
    PROVE  toChild' \in Seq(ToChild)
  BY DEF SendToChild

LEMMA ChildGoneTyped ==
    ASSUME ChildGone, TypeOK
    PROVE  /\ child' \in ChildState
           /\ task' \in [Calls -> TaskState]
           /\ sigPending' \in BOOLEAN
           /\ toChild' \in Seq(ToChild)
           /\ verdict' = verdict /\ outputs' = outputs
<1>1. toChild' \in Seq(ToChild)
  BY DEF ChildGone
<1> QED
  BY <1>1 DEF ChildGone, ChildState, TaskState

LEMMA ChildTypeStep == TypeOK /\ EndedTasks /\ [Next]_vars => ChildTyped'
<1> SUFFICES ASSUME TypeOK, EndedTasks, [Next]_vars PROVE ChildTyped'
  OBVIOUS
<1> USE WorkerAssumption DEF TypeOK, ChildTyped
<1>1. CASE UNCHANGED vars
  BY <1>1 DEF vars, consumerVars, pipeVars, childVars
<1>2. CASE Setup
  BY <1>2 DEF Setup, pipeVars, ChildState
<1>3. ASSUME NEW c \in Calls, Predict(c) PROVE ChildTyped'
  BY <1>3 DEF Predict, consumerVars, pipeVars, childVars
<1>4. ASSUME NEW t \in Tags, Cancel(t) PROVE ChildTyped'
  <2>1. [kind |-> "cancel", tag |-> t, of |-> inFlight[t]] \in ToChild
    BY DEF ToChild
  <2>2. toChild' \in Seq(ToChild)
    BY <1>4, <2>1, SendToChildTyped DEF Cancel
  <2> QED
    BY <1>4, <2>2 DEF Cancel, consumerVars, ChildAlive
<1>5. CASE Shutdown
  <2>1. [kind |-> "shutdown", tag |-> NoTag, of |-> NoCall] \in ToChild
    BY DEF ToChild
  <2>2. toChild' \in Seq(ToChild)
    BY <1>5, <2>1, SendToChildTyped DEF Shutdown
  <2> QED
    BY <1>5, <2>2 DEF Shutdown, consumerVars, childVars
<1>6. CASE Terminate
  BY <1>6, ChildGoneTyped DEF Terminate, consumerVars, childVars
<1>7. ASSUME NEW c \in Calls, SendInput(c) PROVE ChildTyped'
  <2>1. [kind |-> "input", tag |-> TagOf[c], of |-> c] \in ToChild
    BY DEF ToChild
  <2>2. toChild' \in Seq(ToChild)
    BY <1>7, <2>1, SendToChildTyped DEF SendInput
  <2> QED
    BY <1>7, <2>2 DEF SendInput, consumerVars, childVars
<1>8. ASSUME NEW c \in Calls, DownloadFails(c) \/ StarterPops(c) \/ StarterResolves(c)
      PROVE ChildTyped'
  BY <1>8 DEF DownloadFails, StarterPops, StarterResolves, consumerVars, pipeVars,
              childVars
<1>9. CASE SetupCheck \/ SetupPoll \/ SetupOk \/ SetupFailed
  <2>1. toParent # <<>> => Tail(toParent) \in Seq(ToParent)
    OBVIOUS
  <2> QED
    BY <1>9, <2>1 DEF SetupCheck, SetupPoll, SetupOk, SetupFailed, ConsumerKeeps,
                      childVars
<1>10. CASE Check \/ Receive \/ PollTimesOut \/ Drained \/ Final \/ FailInFlight
  <2>1. toParent # <<>> => Head(toParent) \in ToParent /\ Tail(toParent) \in Seq(ToParent)
    OBVIOUS
  <2> QED
    BY <1>10, <2>1 DEF Check, Receive, PollTimesOut, Drained, Final, FailInFlight,
                       ConsumerKeeps, childVars
<1>11. CASE ConsumerPops \/ ConsumerResolves
  BY <1>11 DEF ConsumerPops, ConsumerResolves, pipeVars, childVars
<1>12. CASE SetupEnds
  <2>1. /\ Append(toParent, SetupDone("succeeded")) \in Seq(ToParent)
        /\ Append(toParent, SetupDone("failed")) \in Seq(ToParent)
    BY SetupDoneTyped, AppendTyped DEF Ended
  <2>2. toParent' \in Seq(ToParent)
    BY <1>12, <2>1 DEF SetupEnds
  <2> QED
    BY <1>12, <2>2 DEF SetupEnds, ChildKeeps, consumerVars, ChildState
<1>13. CASE ChildDies \/ ChildExits
  BY <1>13, ChildGoneTyped DEF ChildDies, ChildExits, ChildKeeps, consumerVars
<1>14. CASE ReadInput
  <2>1. toChild' \in Seq(ToChild)
    BY <1>14 DEF ReadInput, MayRead
  <2>2. task' \in [Calls -> TaskState]
    BY <1>14 DEF ReadInput, TaskState
  <2> QED
    BY <1>14, <2>1, <2>2 DEF ReadInput, ChildKeeps, consumerVars
<1>15. CASE ReadCancel
  BY <1>15 DEF ReadCancel, MayRead, Canceled, ChildKeeps, consumerVars, TaskState
<1>16. CASE ReadShutdown
  BY <1>16 DEF ReadShutdown, MayRead, ChildKeeps, consumerVars, ChildState
<1>17. ASSUME NEW c \in Calls, StartBody(c) \/ ClearCancelable(c) PROVE ChildTyped'
  BY <1>17 DEF StartBody, ClearCancelable, pipeVars, ChildKeeps, consumerVars, TaskState
<1>18. ASSUME NEW c \in Calls, SendOutput(c) PROVE ChildTyped'
  <2>1. Append(toParent, Output(c)) \in Seq(ToParent)
    BY MessagesTyped, AppendTyped DEF Ended
  <2> QED
    BY <1>18, <2>1 DEF SendOutput, ChildKeeps, consumerVars
<1>19. ASSUME NEW c \in Calls, NEW v \in {"succeeded", "failed"}, PredictEnds(c, v)
       PROVE ChildTyped'
  <2>1. Append(toParent, Done(c, v)) \in Seq(ToParent)
    BY MessagesTyped, AppendTyped DEF Ended
  <2> QED
    BY <1>19, <2>1 DEF PredictEnds, ChildKeeps, consumerVars, TaskState, Ended
<1>20. ASSUME NEW c \in Calls, SendDone(c) PROVE ChildTyped'
  <2>1. Append(toParent, Done(c, verdict[c])) \in Seq(ToParent)
    BY <1>20, MessagesTyped, AppendTyped DEF SendDone, EndedTasks
  <2> QED
    BY <1>20, <2>1 DEF SendDone, ChildKeeps, consumerVars, TaskState
<1>21. ASSUME NEW c \in Calls, CancelEnds(c) PROVE ChildTyped'
  <2>1. Append(toParent, Done(c, "canceled")) \in Seq(ToParent)
    BY MessagesTyped, AppendTyped DEF Ended
  <2> QED
    BY <1>21, <2>1 DEF CancelEnds, ChildKeeps, consumerVars, TaskState, Ended
<1>22. ASSUME NEW c \in Calls, AsyncExit(c) PROVE ChildTyped'
  BY <1>22 DEF AsyncExit, Canceled, pipeVars, ChildKeeps, consumerVars, ChildState,
               TaskState
<1>23. CASE SignalIgnored
  BY <1>23 DEF SignalIgnored, pipeVars, ChildKeeps, consumerVars
<1>24. ASSUME NEW c \in Calls, SignalCancels(c) PROVE ChildTyped'
  BY <1>24 DEF SignalCancels, pipeVars, ChildKeeps, consumerVars, TaskState, Ended
<1>25. ASSUME NEW c \in Calls, SignalEscapes(c) PROVE ChildTyped'
  <2>1. \A v \in {"succeeded", "failed"} : Append(toParent, Done(c, v)) \in Seq(ToParent)
    BY MessagesTyped, AppendTyped DEF Ended
  <2>2. toParent' \in Seq(ToParent)
    BY <1>25, <2>1 DEF SignalEscapes
  <2> QED
    BY <1>25, <2>2, ChildGoneTyped DEF SignalEscapes, ChildKeeps, consumerVars
<1> QED
  BY <1>1, <1>2, <1>3, <1>4, <1>5, <1>6, <1>7, <1>8, <1>9, <1>10, <1>11, <1>12,
     <1>13, <1>14, <1>15, <1>16, <1>17, <1>18, <1>19, <1>20, <1>21, <1>22, <1>23,
     <1>24, <1>25
  DEF Next, Callers, Starters, Consume, ChildLoop, ChildTask

LEMMA EndedTasksStep == TypeOK /\ EndedTasks /\ [Next]_vars => EndedTasks'
<1> SUFFICES ASSUME TypeOK, EndedTasks, [Next]_vars PROVE EndedTasks'
  OBVIOUS
<1> USE DEF TypeOK, EndedTasks
<1>1. CASE UNCHANGED <<task, verdict>>
  BY <1>1
<1>2. CASE ChildGone
  BY <1>2 DEF ChildGone
<1>3. CASE ReadInput \/ ReadCancel
  BY <1>3 DEF ReadInput, ReadCancel, Canceled, TaskState
<1>4. ASSUME NEW c \in Calls,
             \/ StartBody(c) \/ ClearCancelable(c) \/ SendDone(c) \/ CancelEnds(c)
             \/ \E v \in {"succeeded", "failed"} : PredictEnds(c, v)
             \/ SignalCancels(c) \/ AsyncExit(c)
      PROVE EndedTasks'
  BY ZenonT(40), <1>4 DEF StartBody, ClearCancelable, SendDone, CancelEnds, PredictEnds,
              SignalCancels, AsyncExit, Canceled, TaskState, Ended
<1> QED
  BY <1>1, <1>2, <1>3, <1>4
  DEF vars, childVars, Next, Callers, Setup, Predict, Cancel, Shutdown, Terminate,
      Starters, SendInput, DownloadFails, StarterPops, StarterResolves,
      Consume, SetupCheck, SetupPoll, SetupOk, SetupFailed, Check, Receive,
      PollTimesOut, ConsumerPops, ConsumerResolves, Drained, Final, FailInFlight,
      ConsumerKeeps, ChildLoop, SetupEnds, ReadShutdown, ChildExits, ChildDies,
      ChildTask, SendOutput, SignalIgnored, SignalEscapes

\* Every reachable state of the worker is well typed.
THEOREM WorkerTypeOK == Spec => [](TypeOK /\ EndedTasks)
<1>1. TypeOK /\ EndedTasks /\ [Next]_vars => (TypeOK /\ EndedTasks)'
  BY ParentTypeStep, ChildTypeStep, EndedTasksStep DEF TypeOK, ParentTyped, ChildTyped
<1>2. Init => EndedTasks
  BY DEF Init, EndedTasks
<1> QED
  BY TypeInit, <1>1, <1>2, PTL DEF Spec

-----------------------------------------------------------------------------
(* What sending and receiving do to the queues *)

LEMMA ParentAppend ==
    ASSUME TypeOK, NEW m \in ToParent, toParent' = Append(toParent, m), NEW c \in Calls
    PROVE  /\ EventQueued(c)' <=> EventQueued(c) \/ m.of = c
           /\ DoneQueued(c)' <=> DoneQueued(c) \/ (m.of = c /\ m.kind = "done")
<1>1. /\ Len(toParent') = Len(toParent) + 1
      /\ \A i \in 1..Len(toParent) : toParent'[i] = toParent[i]
      /\ toParent'[Len(toParent) + 1] = m
      /\ Len(toParent) \in Nat
  BY DEF TypeOK
<1>2. EventQueued(c)' <=> EventQueued(c) \/ m.of = c
  BY <1>1 DEF EventQueued
<1>3. DoneQueued(c)' <=> DoneQueued(c) \/ (m.of = c /\ m.kind = "done")
  BY <1>1 DEF DoneQueued
<1> QED
  BY <1>2, <1>3

LEMMA ParentTail ==
    ASSUME TypeOK, toParent # <<>>, toParent' = Tail(toParent)
    PROVE  /\ Len(toParent') = Len(toParent) - 1
           /\ Len(toParent) \in Nat /\ Len(toParent) >= 1
           /\ \A i \in 1..Len(toParent') : toParent'[i] = toParent[i + 1]
           /\ Head(toParent) = toParent[1]
           /\ Head(toParent) \in ToParent
           /\ \A c \in Calls : EventQueued(c)' => EventQueued(c)
           /\ \A c \in Calls : DoneQueued(c)' => DoneQueued(c)
           /\ \A c \in Calls : Head(toParent).of = c => EventQueued(c)
           /\ \A c \in Calls : Head(toParent).of = c /\ Head(toParent).kind = "done"
                                   => DoneQueued(c)
<1>1. /\ Len(toParent') = Len(toParent) - 1
      /\ Len(toParent) \in Nat /\ Len(toParent) >= 1
      /\ \A i \in 1..Len(toParent') : toParent'[i] = toParent[i + 1]
      /\ Head(toParent) = toParent[1]
      /\ Head(toParent) \in ToParent
  BY DEF TypeOK
<1>2. \A c \in Calls : EventQueued(c)' => EventQueued(c)
  BY <1>1 DEF EventQueued
<1>3. \A c \in Calls : DoneQueued(c)' => DoneQueued(c)
  BY <1>1 DEF DoneQueued
<1> QED
  BY <1>1, <1>2, <1>3 DEF EventQueued, DoneQueued

LEMMA ChildAppend ==
    ASSUME TypeOK, NEW m \in ToChild, toChild' = Append(toChild, m), NEW c \in Calls
    PROVE  InputQueued(c)' <=> InputQueued(c) \/ (m.of = c /\ m.kind = "input")
<1>1. /\ Len(toChild') = Len(toChild) + 1
      /\ \A i \in 1..Len(toChild) : toChild'[i] = toChild[i]
      /\ toChild'[Len(toChild) + 1] = m
      /\ Len(toChild) \in Nat
  BY DEF TypeOK
<1> QED
  BY <1>1 DEF InputQueued

LEMMA ChildTail ==
    ASSUME TypeOK, toChild # <<>>, toChild' = Tail(toChild)
    PROVE  /\ Len(toChild') = Len(toChild) - 1
           /\ Len(toChild) \in Nat /\ Len(toChild) >= 1
           /\ \A i \in 1..Len(toChild') : toChild'[i] = toChild[i + 1]
           /\ Head(toChild) = toChild[1]
           /\ Head(toChild) \in ToChild
           /\ \A c \in Calls : InputQueued(c)' => InputQueued(c)
           /\ \A c \in Calls : Head(toChild).of = c /\ Head(toChild).kind = "input"
                                   => InputQueued(c)
<1>1. /\ Len(toChild') = Len(toChild) - 1
      /\ Len(toChild) \in Nat /\ Len(toChild) >= 1
      /\ \A i \in 1..Len(toChild') : toChild'[i] = toChild[i + 1]
      /\ Head(toChild) = toChild[1]
      /\ Head(toChild) \in ToChild
  BY DEF TypeOK
<1> QED
  BY <1>1 DEF InputQueued

LEMMA ParentSame ==
    ASSUME UNCHANGED toParent, NEW c \in Calls
    PROVE  /\ EventQueued(c)' <=> EventQueued(c)
           /\ DoneQueued(c)' <=> DoneQueued(c)
  BY DEF EventQueued, DoneQueued

LEMMA ChildSame ==
    ASSUME UNCHANGED toChild, NEW c \in Calls
    PROVE  InputQueued(c)' <=> InputQueued(c)
  BY DEF InputQueued

LEMMA ChildEmpty ==
    ASSUME toChild' = <<>>, NEW c \in Calls
    PROVE  ~InputQueued(c)'
  BY DEF InputQueued

\* A message of the child to the parent comes from a call or from setup.
LEMMA MessageFields ==
    ASSUME NEW c \in Calls, NEW v \in Ended
    PROVE  /\ Done(c, v) \in ToParent /\ Output(c) \in ToParent
           /\ SetupDone(v) \in ToParent
           /\ Done(c, v).of = c /\ Done(c, v).kind = "done"
           /\ Done(c, v).tag = TagOf[c]
           /\ Output(c).of = c /\ Output(c).kind = "output" /\ Output(c).tag = TagOf[c]
           /\ SetupDone(v).of = NoCall /\ SetupDone(v).kind = "done"
  BY MessagesTyped, SetupDoneTyped DEF Done, Output, SetupDone

\* The head of a queue is the only message of its kind from its call.
LEMMA HeadDone ==
    ASSUME TypeOK, Queues, toParent # <<>>, toParent' = Tail(toParent),
           NEW c \in Calls, Head(toParent).of = c, Head(toParent).kind = "done"
    PROVE  ~EventQueued(c)'
<1>1. NoCall # c
  BY WorkerAssumption
<1> QED
  BY <1>1, ParentTail DEF Queues, EventQueue, EventQueued

LEMMA HeadInput ==
    ASSUME TypeOK, Queues, toChild # <<>>, toChild' = Tail(toChild),
           NEW c \in Calls, Head(toChild).of = c, Head(toChild).kind = "input"
    PROVE  ~InputQueued(c)'
  BY ChildTail DEF Queues, InputQueue, InputQueued

-----------------------------------------------------------------------------
(* Queues *)

LEMMA EventQueueAppend ==
    ASSUME TypeOK, Queues, NEW m \in ToParent, toParent' = Append(toParent, m),
           \/ m.of = NoCall /\ m.kind = "done"
           \/ m.of \in Calls /\ m.tag = TagOf[m.of] /\ ~DoneQueued(m.of)
    PROVE  EventQueue'
<1>1. /\ Len(toParent') = Len(toParent) + 1
      /\ \A i \in 1..Len(toParent) : toParent'[i] = toParent[i]
      /\ toParent'[Len(toParent) + 1] = m
      /\ Len(toParent) \in Nat
  BY DEF TypeOK
<1>2. \A i \in 1..Len(toParent) :
         toParent[i].kind = "done" /\ toParent[i].of # NoCall => m.of # toParent[i].of
  BY DEF DoneQueued
<1> QED
  BY <1>1, <1>2 DEF Queues, EventQueue

LEMMA EventQueueTail ==
    ASSUME TypeOK, Queues, toParent # <<>>, toParent' = Tail(toParent)
    PROVE  EventQueue'
  BY ParentTail DEF Queues, EventQueue

LEMMA InputQueueTail ==
    ASSUME TypeOK, Queues, toChild # <<>>, toChild' = Tail(toChild)
    PROVE  InputQueue'
  BY ChildTail DEF Queues, InputQueue

LEMMA InputQueueAppend ==
    ASSUME TypeOK, Queues, NEW m \in ToChild, SendToChild(m),
           m.kind = "input" => m.of \in Calls /\ ~InputQueued(m.of)
    PROVE  InputQueue'
<1>1. CASE UNCHANGED toChild
  BY <1>1 DEF Queues, InputQueue
<1>2. CASE toChild' = Append(toChild, m)
  <2>1. /\ Len(toChild') = Len(toChild) + 1
        /\ \A i \in 1..Len(toChild) : toChild'[i] = toChild[i]
        /\ toChild'[Len(toChild) + 1] = m
        /\ Len(toChild) \in Nat
    BY <1>2 DEF TypeOK
  <2>2. \A i \in 1..Len(toChild) :
           toChild[i].kind = "input" /\ m.kind = "input" => m.of # toChild[i].of
    BY DEF InputQueued
  <2> QED
    BY <2>1, <2>2 DEF Queues, InputQueue
<1> QED
  BY <1>1, <1>2 DEF SendToChild

\* What a step does to the queue of events.
LEMMA EventQueueStep == IInv /\ [Next]_vars => EventQueue'
<1> SUFFICES ASSUME IInv, [Next]_vars PROVE EventQueue'
  OBVIOUS
<1> USE DEF IInv
<1>1. CASE UNCHANGED toParent
  BY <1>1 DEF Queues, EventQueue
<1>2. CASE SetupPoll \/ Receive
  BY <1>2, EventQueueTail DEF SetupPoll, Receive, Queues, EventQueue
<1>3. CASE SetupEnds
  <2>1. PICK v \in Ended : toParent' = Append(toParent, SetupDone(v))
    BY <1>3 DEF SetupEnds, Ended
  <2>2. SetupDone(v) \in ToParent /\ SetupDone(v).of = NoCall /\ SetupDone(v).kind = "done"
    BY SetupDoneTyped DEF SetupDone
  <2> QED
    BY <2>1, <2>2, EventQueueAppend
<1>4. ASSUME NEW c \in Calls, SendOutput(c) PROVE EventQueue'
  <2>1. /\ Output(c) \in ToParent /\ Output(c).of = c /\ Output(c).tag = TagOf[c]
        /\ toParent' = Append(toParent, Output(c))
        /\ ~DoneQueued(c)
    BY <1>4, MessageFields DEF SendOutput, Lifecycle, Ended
  <2> QED
    BY <2>1, EventQueueAppend
<1>5. ASSUME NEW c \in Calls, NEW v \in Ended, task[c] # "none",
             toParent' = Append(toParent, Done(c, v))
      PROVE EventQueue'
  <2>1. /\ Done(c, v) \in ToParent /\ Done(c, v).of = c /\ Done(c, v).tag = TagOf[c]
        /\ ~DoneQueued(c)
    BY <1>5, MessageFields DEF Lifecycle
  <2> QED
    BY <1>5, <2>1, EventQueueAppend
<1>6. ASSUME NEW c \in Calls,
             \/ \E v \in {"succeeded", "failed"} : PredictEnds(c, v)
             \/ CancelEnds(c) \/ SignalEscapes(c) \/ SendDone(c)
      PROVE UNCHANGED toParent
            \/ \E v \in Ended : task[c] # "none" /\ toParent' = Append(toParent, Done(c, v))
  BY <1>6 DEF PredictEnds, CancelEnds, SignalEscapes, SendDone, Ended, EndedTasks
<1> QED
  BY <1>1, <1>2, <1>3, <1>4, <1>5, <1>6
  DEF vars, pipeVars, Next, Callers, Setup, Predict, Cancel, Shutdown, Terminate,
      Starters, SendInput, DownloadFails, StarterPops, StarterResolves,
      Consume, SetupCheck, SetupOk, SetupFailed, Check, PollTimesOut, ConsumerPops,
      ConsumerResolves, Drained, Final, FailInFlight, ChildLoop, ReadInput,
      ReadCancel, ReadShutdown, ChildExits, ChildDies, ChildTask, StartBody,
      ClearCancelable, SignalIgnored, SignalCancels, AsyncExit

LEMMA InputQueueStep == IInv /\ [Next]_vars => InputQueue'
<1> SUFFICES ASSUME IInv, [Next]_vars PROVE InputQueue'
  OBVIOUS
<1> USE DEF IInv
<1>1. CASE UNCHANGED toChild
  BY <1>1 DEF Queues, InputQueue
<1>2. CASE toChild' = <<>>
  BY <1>2 DEF InputQueue
<1>3. CASE ReadInput \/ ReadCancel \/ ReadShutdown
  BY <1>3, InputQueueTail DEF ReadInput, ReadCancel, ReadShutdown, MayRead
<1>4. ASSUME NEW t \in Tags, Cancel(t) PROVE InputQueue'
  <2>1. [kind |-> "cancel", tag |-> t, of |-> inFlight[t]] \in ToChild
    BY DEF ToChild, TypeOK
  <2> QED
    BY <1>4, <2>1, InputQueueAppend DEF Cancel
<1>5. CASE Shutdown
  <2>1. [kind |-> "shutdown", tag |-> NoTag, of |-> NoCall] \in ToChild
    BY DEF ToChild
  <2> QED
    BY <1>1, <1>5, <2>1, InputQueueAppend DEF Shutdown
<1>6. ASSUME NEW c \in Calls, SendInput(c) PROVE InputQueue'
  <2>1. [kind |-> "input", tag |-> TagOf[c], of |-> c] \in ToChild
    BY WorkerAssumption DEF ToChild
  <2>2. ~InputQueued(c)
    BY <1>6 DEF SendInput, Lifecycle
  <2> QED
    BY <1>6, <2>1, <2>2, InputQueueAppend DEF SendInput
<1> QED
  BY <1>1, <1>2, <1>3, <1>4, <1>5, <1>6
  DEF vars, pipeVars, Next, Callers, Setup, Predict, Terminate, ChildGone,
      Starters, DownloadFails, StarterPops, StarterResolves,
      Consume, SetupCheck, SetupPoll, SetupOk, SetupFailed, Check, Receive,
      PollTimesOut, ConsumerPops, ConsumerResolves, Drained, Final, FailInFlight,
      ConsumerKeeps, ChildLoop, SetupEnds, ChildExits, ChildDies, ChildTask,
      StartBody, SendOutput, PredictEnds, ClearCancelable, SendDone, CancelEnds,
      SignalIgnored, SignalCancels, SignalEscapes, AsyncExit

\* A step of a prediction sends nothing, an output, or the Done with which it ends.
LEMMA TaskSends ==
    ASSUME TypeOK, EndedTasks, NEW c \in Calls, ChildTask(c) \/ AsyncExit(c)
    PROVE  \/ UNCHANGED toParent
           \/ toParent' = Append(toParent, Output(c))
           \/ \E v \in Ended : toParent' = Append(toParent, Done(c, v)) /\ task'[c] = "none"
<1>1. CASE SendOutput(c)
  BY <1>1 DEF SendOutput
<1>2. ASSUME NEW v \in {"succeeded", "failed"}, PredictEnds(c, v)
      PROVE  \/ UNCHANGED toParent
             \/ toParent' = Append(toParent, Done(c, v)) /\ task'[c] = "none" /\ v \in Ended
  BY <1>2 DEF PredictEnds, TypeOK, Ended
<1>3. CASE SendDone(c)
  BY <1>3 DEF SendDone, TypeOK, EndedTasks
<1>4. CASE CancelEnds(c)
  BY <1>4 DEF CancelEnds, TypeOK, Ended
<1>5. CASE SignalEscapes(c)
  BY <1>5 DEF SignalEscapes, ChildGone, Ended
<1>6. CASE StartBody(c) \/ ClearCancelable(c) \/ SignalCancels(c) \/ AsyncExit(c)
  BY <1>6 DEF StartBody, ClearCancelable, SignalCancels, AsyncExit, pipeVars
<1> QED
  BY <1>1, <1>2, <1>3, <1>4, <1>5, <1>6 DEF ChildTask

-----------------------------------------------------------------------------
(* Phases *)

LEMMA PhasesStep == IInv /\ [Next]_vars => Phases'
<1> SUFFICES ASSUME IInv, [Next]_vars PROVE Phases'
  OBVIOUS
<1> USE WorkerAssumption DEF IInv, TypeOK, Phases, MainLoop
<1>1. CASE UNCHANGED vars
  BY <1>1 DEF vars, parentVars, consumerVars, pipeVars, childVars
<1>2. CASE Setup
  BY <1>2 DEF Setup, pipeVars
<1>3. ASSUME NEW c \in Calls, Predict(c) PROVE Phases'
  BY <1>3 DEF Predict, MayPredict, consumerVars, pipeVars, childVars
<1>4. ASSUME NEW t \in Tags, Cancel(t) PROVE Phases'
  BY <1>4 DEF Cancel, SendToChild, ChildAlive, consumerVars
<1>5. CASE Shutdown
  BY <1>5 DEF Shutdown, SendToChild, ChildAlive, consumerVars, childVars
<1>6. CASE Terminate
  BY <1>6 DEF Terminate, ChildAlive, ChildGone, consumerVars, childVars
<1>7. ASSUME NEW c \in Calls, Starters(c) PROVE Phases'
  <2>1. future[c] # "none" \/ starter[c] = "none"
    BY DEF Lifecycle
  <2>2. CASE SendInput(c) \/ DownloadFails(c) \/ StarterPops(c)
    BY <2>2 DEF SendInput, DownloadFails, StarterPops, SendToChild, ChildAlive,
                parentVars, consumerVars, pipeVars, childVars
  <2>3. CASE StarterResolves(c)
    <3>1. popped[c] = c
      BY <2>3 DEF StarterResolves, Owners
    <3>2. future[c] # "none"
      BY <2>3, <2>1 DEF StarterResolves
    <3> QED
      BY <2>3, <3>1, <3>2 DEF StarterResolves, consumerVars, pipeVars, childVars
  <2> QED
    BY <1>7, <2>2, <2>3 DEF Starters
<1>8. CASE SetupCheck \/ SetupOk \/ SetupFailed
  BY <1>8 DEF SetupCheck, SetupOk, SetupFailed, ConsumerKeeps, ChildAlive, childVars
<1>9. CASE SetupPoll
  <2>1. CASE toParent = <<>>
    BY <1>9, <2>1 DEF SetupPoll, ConsumerKeeps, childVars
  <2>2. CASE toParent # <<>>
    <3>1. Len(toParent') = 0 /\ toParent' = <<>>
      BY <1>9, <2>2, ParentTail DEF SetupPoll
    <3> QED
      BY <1>9, <2>2, <3>1 DEF SetupPoll, ConsumerKeeps, childVars
  <2> QED
    BY <2>1, <2>2
<1>10. CASE Check \/ PollTimesOut \/ Drained \/ Final
  BY <1>10 DEF Check, PollTimesOut, Drained, Final, ConsumerKeeps, ChildAlive, childVars
<1>11. CASE Receive
  <2>1. /\ \A i \in 1..Len(toParent') : toParent'[i].of # NoCall
        /\ Head(toParent).of \in Calls /\ Head(toParent).tag = TagOf[Head(toParent).of]
    BY <1>11, ParentTail DEF Receive, Queues, EventQueue
  <2> QED
    BY <1>11, <2>1 DEF Receive, ConsumerKeeps, childVars
<1>12. CASE ConsumerPops
  <2>1. held.of \in Calls /\ held.tag = TagOf[held.of] /\ Completing(held.of)
    BY <1>12 DEF ConsumerPops, Completing
  <2>2. inFlight[held.tag] = held.of /\ held.tag \in Tags
    BY <2>1 DEF Lifecycle
  <2> QED
    BY <1>12, <2>1, <2>2 DEF ConsumerPops, pipeVars, childVars
<1>13. CASE ConsumerResolves
  BY <1>13 DEF ConsumerResolves, pipeVars, childVars
<1>14. CASE FailInFlight
  BY <1>14 DEF FailInFlight, ConsumerKeeps, childVars
<1>15. CASE SetupEnds
  <2>1. PICK v \in Ended : toParent' = Append(<<>>, SetupDone(v))
    BY <1>15 DEF SetupEnds, Ended
  <2>2. Len(toParent') = 1 /\ toParent' # <<>>
    BY <2>1
  <2>3. consumer \notin MainLoop
    BY <1>15 DEF SetupEnds
  <2> QED
    BY <1>15, <2>2, <2>3 DEF SetupEnds, ChildKeeps, parentVars, consumerVars
<1>16. CASE UNCHANGED toParent /\ ChildGone /\ ChildAlive /\ ChildKeeps
  BY <1>16 DEF ChildGone, ChildAlive, ChildKeeps, parentVars, consumerVars
<1>17. CASE ReadInput \/ ReadCancel \/ ReadShutdown
  BY <1>17 DEF ReadInput, ReadCancel, ReadShutdown, MayRead, ChildKeeps, parentVars,
               consumerVars
<1>18. ASSUME NEW c \in Calls, task[c] # "none", ChildKeeps,
              child' = child \/ ChildGone \/ child' = "leaving",
              child' = child => UNCHANGED toChild,
              child' = "leaving" => UNCHANGED toChild,
              UNCHANGED toParent
              \/ \E m \in ToParent : m.of = c /\ toParent' = Append(toParent, m)
       PROVE Phases'
  <2>1. /\ starter[c] = "done" /\ inFlight[TagOf[c]] = c /\ future[c] # "none"
        /\ child \notin {"none", "dead"}
    BY <1>18 DEF Lifecycle
  <2>2. consumer \notin {"none", "setupCheck", "setupPoll", "setupFailed", "exited"}
        /\ child # "loading"
    BY <2>1 DEF ConsumerState
  <2>3. \A i \in 1..Len(toParent') : toParent'[i].of # NoCall
    <3>1. \A i \in 1..Len(toParent) : toParent[i].of # NoCall
      BY <2>2 DEF ConsumerState
    <3>2. CASE UNCHANGED toParent
      BY <3>1, <3>2
    <3>3. ASSUME NEW m \in ToParent, m.of = c, toParent' = Append(toParent, m)
          PROVE \A i \in 1..Len(toParent') : toParent'[i].of # NoCall
      <4>1. /\ Len(toParent') = Len(toParent) + 1
            /\ \A i \in 1..Len(toParent) : toParent'[i] = toParent[i]
            /\ toParent'[Len(toParent) + 1] = m
        BY <3>3
      <4> QED
        BY <3>1, <3>3, <4>1
    <3> QED
      BY <1>18, <3>2, <3>3
  <2>4. consumer \in MainLoop \ {"drain", "final", "fail"}
    BY <2>1, <2>2 DEF ConsumerState
  <2> QED
    BY <1>18, <2>1, <2>2, <2>3, <2>4 DEF ChildKeeps, parentVars, consumerVars, ChildGone
<1>19. ASSUME NEW c \in Calls, ChildTask(c) \/ AsyncExit(c) PROVE Phases'
  <2>1. /\ Output(c) \in ToParent /\ Output(c).of = c
        /\ \A v \in Ended : Done(c, v) \in ToParent /\ Done(c, v).of = c
    BY MessageFields DEF Ended
  <2>2. task[c] # "none" /\ ChildKeeps
    BY <1>19 DEF ChildTask, StartBody, SendOutput, PredictEnds, ClearCancelable,
                 SendDone, CancelEnds, SignalCancels, SignalEscapes, AsyncExit
  <2>3. UNCHANGED toParent \/ \E m \in ToParent : m.of = c /\ toParent' = Append(toParent, m)
    <3>1. TypeOK /\ EndedTasks
      OBVIOUS
    <3> HIDE DEF IInv, TypeOK, Phases, MainLoop
    <3> QED
      BY <1>19, <2>1, <3>1, TaskSends
  <2>4. /\ child' = child \/ ChildGone \/ child' = "leaving"
        /\ child' = child => UNCHANGED toChild
        /\ child' = "leaving" => UNCHANGED toChild
    BY <1>19, <2>2 DEF ChildTask, StartBody, SendOutput, PredictEnds, ClearCancelable,
                 SendDone, CancelEnds, SignalCancels, SignalEscapes, AsyncExit,
                 ChildGone, pipeVars
  <2> QED
    BY <1>18, <2>2, <2>3, <2>4
<1>20. CASE SignalIgnored
  BY <1>20 DEF SignalIgnored, ChildKeeps, parentVars, consumerVars, pipeVars
<1> QED
  BY <1>1, <1>2, <1>3, <1>4, <1>5, <1>6, <1>7, <1>8, <1>9, <1>10, <1>11, <1>12, <1>13,
     <1>14, <1>15, <1>16, <1>17, <1>19, <1>20
  DEF Next, Callers, Consume, ChildLoop, ChildExits, ChildDies, ChildAlive
-----------------------------------------------------------------------------
(* Owners *)

\* A start-pool thread that pops finds its own call, or nothing because the
\* consumer has failed every call in the meantime.
LEMMA StarterPopsOwn ==
    ASSUME IInv, NEW c \in Calls, StarterPops(c), inFlight[TagOf[c]] # NoCall
    PROVE  inFlight[TagOf[c]] = c
<1> USE WorkerAssumption DEF IInv, Owners, StarterPops
<1>1. TagOf[c] \in Tags
  OBVIOUS
<1>2. future[c] = "pending"
  BY <1>1
<1>3. popped[c] # c /\ popped[Consumer] # c
  OBVIOUS
<1> QED
  BY <1>2, <1>3

\* The consumer finds the call whose Done it holds.
LEMMA ConsumerPopsOwn ==
    ASSUME IInv, ConsumerPops
    PROVE  /\ held.of \in Calls /\ held.tag = TagOf[held.of] /\ held.tag \in Tags
           /\ inFlight[held.tag] = held.of
           /\ starter[held.of] = "done"
           /\ Completing(held.of)
<1>1. held.of \in Calls /\ held.tag = TagOf[held.of] /\ Completing(held.of)
  BY DEF ConsumerPops, Completing, IInv, Phases
<1> QED
  BY <1>1, WorkerAssumption DEF IInv, Lifecycle

LEMMA OwnersStep == IInv /\ [Next]_vars => Owners'
<1> SUFFICES ASSUME IInv, [Next]_vars PROVE Owners'
  OBVIOUS
<1> USE WorkerAssumption DEF IInv, TypeOK, Owners, Threads
<1>1. CASE UNCHANGED <<state, inFlight, future, starterVars, consumer>>
  BY <1>1 DEF starterVars
<1>2. CASE Setup
  BY <1>2 DEF Setup, starterVars, Phases
<1>3. ASSUME NEW c \in Calls, Predict(c) PROVE Owners'
  <2>1. starter[c] = "none"
    BY <1>3 DEF Predict, Lifecycle
  <2> QED
    BY <1>3, <2>1 DEF Predict, MayPredict, consumerVars
<1>4. CASE Shutdown \/ Terminate
  BY <1>4 DEF Shutdown, Terminate, starterVars, consumerVars
<1>5. ASSUME NEW c \in Calls, SendInput(c) \/ DownloadFails(c) PROVE Owners'
  BY <1>5 DEF SendInput, DownloadFails, parentVars, consumerVars
<1>6. ASSUME NEW c \in Calls, StarterPops(c) PROVE Owners'
  <2>1. CASE inFlight[TagOf[c]] = NoCall
    BY <1>6, <2>1 DEF StarterPops, consumerVars
  <2>2. CASE inFlight[TagOf[c]] # NoCall
    <3>1. /\ inFlight[TagOf[c]] = c /\ future[c] = "pending" /\ c # Consumer
          /\ starter[c] = "pop" /\ TagOf[c] \in Tags
      BY <1>6, <2>2, StarterPopsOwn DEF StarterPops
    <3>2. /\ inFlight' = [inFlight EXCEPT ![TagOf[c]] = NoCall]
          /\ popped' = [popped EXCEPT ![c] = c]
          /\ starter' = [starter EXCEPT ![c] = "resolve"]
          /\ UNCHANGED <<state, future, consumer>>
      BY <1>6, <2>2, <3>1 DEF StarterPops, PopInFlight, consumerVars
    <3>3. popped'[Consumer] = popped[Consumer] /\ popped[Consumer] # c
      BY <3>1, <3>2
    <3>4. \A d \in Calls : popped'[d] = IF d = c THEN c ELSE popped[d]
      BY <3>2
    <3>5. /\ \A d \in Calls : inFlight'[TagOf[d]] = d => inFlight[TagOf[d]] = d /\ d # c
          /\ \A d \in Calls : d # c /\ inFlight[TagOf[d]] = d => inFlight'[TagOf[d]] = d
      BY <3>1, <3>2
    <3>6. \A t \in Tags : inFlight'[t] # NoCall => inFlight'[t] = inFlight[t] /\ inFlight[t] # c
      BY <3>1, <3>2
    <3> QED
      BY <3>1, <3>2, <3>3, <3>4, <3>5, <3>6
  <2> QED
    BY <2>1, <2>2
<1>7. ASSUME NEW c \in Calls, StarterResolves(c) PROVE Owners'
  BY <1>7 DEF StarterResolves, consumerVars
<1>8. CASE SetupCheck \/ SetupPoll \/ SetupOk \/ SetupFailed \/ Check \/ Receive
           \/ PollTimesOut \/ Drained \/ Final
  BY <1>8 DEF SetupCheck, SetupPoll, SetupOk, SetupFailed, Check, Receive,
              PollTimesOut, Drained, Final, ConsumerKeeps, starterVars, Phases
<1>9. CASE ConsumerPops
  <2> DEFINE c == held.of
  <2>1. /\ c \in Calls /\ held.tag = TagOf[c] /\ held.tag \in Tags
        /\ inFlight[TagOf[c]] = c /\ starter[c] = "done" /\ future[c] = "pending"
        /\ c # Consumer /\ c # NoCall /\ popped[Consumer] = NoCall
    BY <1>9, ConsumerPopsOwn DEF ConsumerPops
  <2>2. /\ inFlight' = [inFlight EXCEPT ![TagOf[c]] = NoCall]
        /\ popped' = [popped EXCEPT ![Consumer] = c]
        /\ consumer' = "resolve"
        /\ UNCHANGED <<state, future, starter>>
    BY <1>9, <2>1 DEF ConsumerPops, PopInFlight
  <2> HIDE DEF c
  <2>3. popped'[Consumer] = c /\ \A d \in Calls : popped'[d] = popped[d]
    BY <2>1, <2>2
  <2>4. /\ \A d \in Calls : inFlight'[TagOf[d]] = d => inFlight[TagOf[d]] = d /\ d # c
        /\ \A d \in Calls : d # c /\ inFlight[TagOf[d]] = d => inFlight'[TagOf[d]] = d
    BY <2>1, <2>2
  <2>5. \A t \in Tags : inFlight'[t] # NoCall => inFlight'[t] = inFlight[t] /\ inFlight[t] # c
    BY <2>1, <2>2
  <2> QED
    BY <2>1, <2>2, <2>3, <2>4, <2>5
<1>10. CASE ConsumerResolves
  <2> DEFINE c == popped[Consumer]
  <2>1. c \in Calls /\ c # NoCall /\ starter[c] = "done" /\ future[c] = "pending"
        /\ inFlight[TagOf[c]] # c
    BY <1>10 DEF ConsumerResolves
  <2>2. /\ future' = [future EXCEPT ![c] = held.verdict]
        /\ popped' = [popped EXCEPT ![Consumer] = NoCall]
        /\ consumer' = "check"
        /\ UNCHANGED <<state, inFlight, starter>>
        /\ held.verdict \in Ended
    BY <1>10 DEF ConsumerResolves, ToParent
  <2> HIDE DEF c
  <2>3. popped'[Consumer] = NoCall /\ \A d \in Calls : popped'[d] = popped[d]
    BY <2>2
  <2>4. \A d \in Calls : future'[d] = IF d = c THEN held.verdict ELSE future[d]
    BY <2>1, <2>2
  <2>5. \A d \in Calls : popped[d] # c
    BY <2>1
  <2>6. popped[Consumer] = c
    BY DEF c
  <2> QED
    BY <2>1, <2>2, <2>3, <2>4, <2>5, <2>6 DEF Ended
<1>11. CASE FailInFlight
  BY <1>11 DEF FailInFlight, ConsumerKeeps, starterVars, Phases
<1>12. CASE ChildKeeps
  BY <1>12 DEF ChildKeeps, parentVars, starterVars, consumerVars
<1>13. ASSUME NEW t \in Tags, Cancel(t) PROVE Owners'
  BY <1>1, <1>13 DEF Cancel, consumerVars
<1> QED
  BY <1>1, <1>2, <1>3, <1>4, <1>5, <1>6, <1>7, <1>8, <1>9, <1>10, <1>11, <1>12, <1>13
  DEF vars, parentVars, consumerVars, Next, Callers, Starters, Consume, ChildLoop,
      ChildTask, AsyncExit, ChildDies, SetupEnds, ReadInput, ReadCancel, ReadShutdown,
      ChildExits, StartBody, SendOutput, PredictEnds, ClearCancelable, SendDone,
      CancelEnds, SignalIgnored, SignalCancels, SignalEscapes
-----------------------------------------------------------------------------
(* Lifecycle *)

Working(c) == InputQueued(c) \/ task[c] # "none" \/ EventQueued(c) \/ Completing(c)

\* A step that starts no work, and takes nobody's place who still works.
LEMMA LifecycleShrinks ==
    ASSUME Lifecycle,
           \A c \in Calls : (starter[c] = "none")' <=> (future[c] = "none")',
           \A c \in Calls :
               /\ InputQueued(c)' => InputQueued(c)
               /\ (task[c] # "none")' => task[c] # "none"
               /\ EventQueued(c)' => EventQueued(c)
               /\ DoneQueued(c)' => DoneQueued(c)
               /\ Completing(c)' => Completing(c),
           \A c \in Calls : Working(c)' /\ starter[c] = "done" /\ inFlight[TagOf[c]] = c =>
               starter'[c] = "done" /\ inFlight'[TagOf[c]] = c
    PROVE  Lifecycle'
  BY DEF Lifecycle, Working

\* The callers' steps.
LEMMA LifecycleCallers == IInv /\ Callers => Lifecycle'
<1> SUFFICES ASSUME IInv, Callers PROVE Lifecycle'
  OBVIOUS
<1> USE WorkerAssumption DEF IInv, TypeOK
<1>1. CASE Setup
  BY <1>1, LifecycleShrinks, ParentSame, ChildSame
  DEF Setup, starterVars, pipeVars, Completing, Lifecycle
<1>2. ASSUME NEW c \in Calls, Predict(c) PROVE Lifecycle'
  <2>1. starter[c] = "none" /\ inFlight[TagOf[c]] = NoCall
    BY <1>2 DEF Predict, MayPredict, Lifecycle
  <2>2. \A d \in Calls : Working(d) => d # c /\ starter'[d] = "done" /\ inFlight'[TagOf[d]] = d
    BY <1>2, <2>1 DEF Predict, Working, Lifecycle
  <2>3. \A d \in Calls : (starter[d] = "none")' <=> (future[d] = "none")'
    BY <1>2 DEF Predict, Lifecycle
  <2>4. \A d \in Calls : /\ InputQueued(d)' <=> InputQueued(d)
                         /\ task'[d] = task[d]
                         /\ EventQueued(d)' <=> EventQueued(d)
                         /\ DoneQueued(d)' <=> DoneQueued(d)
                         /\ Completing(d)' <=> Completing(d)
    BY <1>2, ParentSame, ChildSame DEF Predict, pipeVars, childVars, consumerVars, Completing
  <2> QED
    BY <2>2, <2>3, <2>4, LifecycleShrinks DEF Working
<1>3. ASSUME NEW m \in ToChild, m.kind # "input",
             SendToChild(m) \/ UNCHANGED toChild \/ (toChild' = <<>>),
             UNCHANGED <<inFlight, future, starter, toParent, consumer, held>>,
             \A d \in Calls : task'[d] \in {task[d], "none"}
      PROVE  Lifecycle'
  <2>1. \A d \in Calls : InputQueued(d)' => InputQueued(d)
    BY <1>3, ChildAppend, ChildSame, ChildEmpty DEF SendToChild
  <2>2. \A d \in Calls : /\ EventQueued(d)' <=> EventQueued(d)
                         /\ DoneQueued(d)' <=> DoneQueued(d)
                         /\ Completing(d)' <=> Completing(d)
    BY <1>3, ParentSame DEF Completing
  <2>3. \A d \in Calls : (starter[d] = "none")' <=> (future[d] = "none")'
    BY <1>3 DEF Lifecycle
  <2> QED
    BY <1>3, <2>1, <2>2, <2>3, LifecycleShrinks
<1>4. ASSUME NEW t \in Tags, Cancel(t) PROVE Lifecycle'
  <2>1. [kind |-> "cancel", tag |-> t, of |-> inFlight[t]] \in ToChild
    BY DEF ToChild
  <2> QED
    BY <1>3, <1>4, <2>1 DEF Cancel, starterVars, consumerVars
<1>5. CASE Shutdown \/ Terminate
  <2>1. [kind |-> "shutdown", tag |-> NoTag, of |-> NoCall] \in ToChild
    BY DEF ToChild
  <2> QED
    BY <1>3, <1>5, <2>1
    DEF Shutdown, Terminate, ChildGone, starterVars, consumerVars, childVars
<1> QED
  BY <1>1, <1>2, <1>4, <1>5 DEF Callers

\* The steps of the start-pool threads.
LEMMA LifecycleStarters == ASSUME NEW c \in Calls PROVE IInv /\ Starters(c) => Lifecycle'
<1> SUFFICES ASSUME IInv, Starters(c) PROVE Lifecycle'
  OBVIOUS
<1> USE WorkerAssumption DEF IInv, TypeOK, Threads
<1>1. /\ UNCHANGED <<task, toParent, consumer, held>>
      /\ \A d \in Calls : /\ EventQueued(d)' <=> EventQueued(d)
                          /\ DoneQueued(d)' <=> DoneQueued(d)
                          /\ Completing(d)' <=> Completing(d)
  BY ParentSame DEF Starters, SendInput, DownloadFails, StarterPops, StarterResolves,
                    pipeVars, consumerVars, childVars, Completing
<1>2. starter[c] \in {"downloading", "pop", "resolve"} => ~Working(c)
  BY DEF Lifecycle, Working
<1>3. CASE SendInput(c)
  <2>1. [kind |-> "input", tag |-> TagOf[c], of |-> c] \in ToChild
    BY DEF ToChild
  <2>2. /\ \A d \in Calls : InputQueued(d)' => InputQueued(d) \/ (ChildAlive /\ d = c)
        /\ ~Working(c) /\ starter[c] = "downloading"
        /\ starter' = [starter EXCEPT ![c] = "done"]
        /\ UNCHANGED <<inFlight, future>>
    BY <1>2, <1>3, <2>1, ChildAppend, ChildSame DEF SendInput, SendToChild, parentVars
  <2>3. ChildAlive => future[c] = "pending"
    BY <2>2 DEF Owners, Phases, ChildAlive
  <2>4. ChildAlive => inFlight[TagOf[c]] = c
    BY <2>2, <2>3 DEF Owners
  <2> QED
    BY <1>1, <2>2, <2>4 DEF Lifecycle, Working
<1>4. CASE DownloadFails(c)
  BY <1>1, <1>2, <1>4, ChildSame, LifecycleShrinks DEF DownloadFails, pipeVars, Lifecycle, Working
<1>5. CASE StarterPops(c)
  <2>1. /\ starter' \in [Calls -> StarterState]
        /\ \A d \in Calls : d # c => starter'[d] = starter[d]
        /\ starter'[c] # "none" /\ starter[c] = "pop" /\ UNCHANGED <<future, toChild>>
    BY <1>5 DEF StarterPops, pipeVars, StarterState
  <2>2. \A d \in Calls : d # c /\ inFlight[TagOf[d]] = d => inFlight'[TagOf[d]] = d
    <3>1. CASE inFlight[TagOf[c]] = NoCall
      BY <1>5, <3>1 DEF StarterPops
    <3>2. CASE inFlight[TagOf[c]] # NoCall
      <4>1. inFlight[TagOf[c]] = c /\ inFlight' = [inFlight EXCEPT ![TagOf[c]] = NoCall]
        BY <1>5, <3>2, StarterPopsOwn DEF StarterPops, PopInFlight
      <4> QED
        BY <4>1
    <3> QED
      BY <3>1, <3>2
  <2> QED
    BY <1>1, <1>2, <2>1, <2>2, ChildSame, LifecycleShrinks DEF Lifecycle, Working
<1>6. CASE StarterResolves(c)
  <2>1. popped[c] = c /\ future[c] = "pending"
    BY <1>6 DEF StarterResolves, Owners
  <2> QED
    BY <1>1, <1>2, <1>6, <2>1, ChildSame, LifecycleShrinks
    DEF StarterResolves, pipeVars, Lifecycle, Working
<1> QED
  BY <1>3, <1>4, <1>5, <1>6 DEF Starters

\* The steps of the event consumer thread.
LEMMA LifecycleConsume == IInv /\ Consume => Lifecycle'
<1> SUFFICES ASSUME IInv, Consume PROVE Lifecycle'
  OBVIOUS
<1> USE WorkerAssumption DEF IInv, TypeOK
<1>1. UNCHANGED <<starter, task, toChild>>
      /\ \A d \in Calls : InputQueued(d)' <=> InputQueued(d)
  BY ChildSame DEF Consume, SetupCheck, SetupPoll, SetupOk, SetupFailed, Check, Receive,
      PollTimesOut, ConsumerPops, ConsumerResolves, Drained, Final, FailInFlight,
      ConsumerKeeps, starterVars, pipeVars, childVars
<1>2. CASE SetupCheck \/ SetupOk \/ SetupFailed \/ Check \/ PollTimesOut \/ Drained \/ Final
  BY <1>1, <1>2, ParentSame, LifecycleShrinks
  DEF SetupCheck, SetupOk, SetupFailed, Check, PollTimesOut, Drained, Final,
      Completing, Lifecycle
<1>3. CASE SetupPoll
  BY <1>1, <1>3, ParentSame, ParentTail, LifecycleShrinks
  DEF SetupPoll, Completing, Lifecycle
<1>4. CASE Receive
  <2> DEFINE m == Head(toParent)
  <2>1. /\ toParent # <<>> /\ toParent' = Tail(toParent)
        /\ UNCHANGED <<inFlight, future>>
        /\ \A d \in Calls : ~Completing(d)
    BY <1>4 DEF Receive, Completing
  <2>2. \A d \in Calls : /\ EventQueued(d)' => EventQueued(d)
                         /\ DoneQueued(d)' => DoneQueued(d)
    BY <2>1, ParentTail
  <2>3. CASE m.kind # "done"
    BY <1>1, <1>4, <2>1, <2>2, <2>3, LifecycleShrinks DEF Receive, Completing, Lifecycle
  <2>4. CASE m.kind = "done"
    <3>1. consumer' = "pop" /\ held' = m
      BY <1>4, <2>4 DEF Receive
    <3>2. \A d \in Calls : Completing(d)' => m.of = d
      BY <3>1 DEF Completing
    <3>3. \A d \in Calls : m.of = d => EventQueued(d) /\ DoneQueued(d) /\ ~EventQueued(d)'
      BY <2>1, <2>4, ParentTail, HeadDone
    <3> QED
      BY <1>1, <2>1, <2>2, <3>2, <3>3 DEF Lifecycle
  <2> QED
    BY <2>3, <2>4
<1>5. CASE ConsumerPops
  <2>0. PICK c \in Calls : c = held.of
    BY <1>5, ConsumerPopsOwn
  <2>1. /\ inFlight[TagOf[c]] = c
        /\ inFlight' = [inFlight EXCEPT ![TagOf[c]] = NoCall]
        /\ UNCHANGED <<future, toParent>> /\ consumer' = "resolve"
        /\ Completing(c)
    BY <1>5, <2>0, ConsumerPopsOwn DEF ConsumerPops, PopInFlight, pipeVars
  <2>2. \A d \in Calls : ~Completing(d)'
    BY <2>1 DEF Completing
  <2>3. \A d \in Calls : d # c /\ inFlight[TagOf[d]] = d => inFlight'[TagOf[d]] = d
    BY <2>1
  <2>4. ~Working(c)'
    BY <1>1, <2>1, <2>2, ParentSame DEF Lifecycle, Working
  <2> QED
    BY <1>1, <2>1, <2>2, <2>3, <2>4, ParentSame, LifecycleShrinks DEF Lifecycle
<1>6. CASE ConsumerResolves
  <2>1. popped[Consumer] \in Calls /\ future[popped[Consumer]] = "pending"
    BY <1>6 DEF ConsumerResolves, Owners, Threads
  <2>2. held.verdict # "none"
    BY DEF ToParent, Ended
  <2>3. \A d \in Calls : (starter[d] = "none")' <=> (future[d] = "none")'
    BY <1>6, <2>1, <2>2 DEF ConsumerResolves, Lifecycle
  <2> QED
    BY <1>1, <1>6, <2>3, ParentSame, LifecycleShrinks
    DEF ConsumerResolves, pipeVars, Completing
<1>7. CASE FailInFlight
  <2>1. child = "dead" /\ toParent' = <<>> /\ toChild = <<>> /\ consumer' = "exited"
    BY <1>7 DEF FailInFlight, Phases
  <2>2. \A d \in Calls : ~Working(d)'
    BY <1>1, <2>1 DEF Working, Completing, InputQueued, EventQueued, Phases
  <2>3. \A d \in Calls : (starter[d] = "none")' <=> (future[d] = "none")'
    BY <1>1, <1>7 DEF FailInFlight, Lifecycle, Owners
  <2> QED
    BY <2>2, <2>3 DEF Lifecycle, Working
<1> QED
  BY <1>2, <1>3, <1>4, <1>5, <1>6, <1>7 DEF Consume

\* The steps of the child's loop, and its death.
LEMMA LifecycleChild ==
    IInv /\ (ChildLoop \/ ChildDies \/ SignalIgnored) => Lifecycle'
<1> SUFFICES ASSUME IInv, ChildLoop \/ ChildDies \/ SignalIgnored PROVE Lifecycle'
  OBVIOUS
<1> USE WorkerAssumption DEF IInv, TypeOK
<1>1. /\ UNCHANGED <<starter, future, inFlight, consumer, held>>
      /\ \A d \in Calls : Completing(d)' <=> Completing(d)
      /\ \A d \in Calls : (starter[d] = "none")' <=> (future[d] = "none")'
  BY DEF ChildLoop, SetupEnds, ReadInput, ReadCancel, ReadShutdown, ChildExits,
         ChildDies, SignalIgnored, ChildKeeps, parentVars, starterVars, consumerVars,
         Completing, Lifecycle
<1>2. CASE SetupEnds
  <2>1. PICK v \in Ended : toParent' = Append(toParent, SetupDone(v))
    BY <1>2 DEF SetupEnds, Ended
  <2>2. SetupDone(v) \in ToParent /\ SetupDone(v).of = NoCall
    BY SetupDoneTyped DEF SetupDone
  <2>3. \A d \in Calls : /\ EventQueued(d)' <=> EventQueued(d)
                         /\ DoneQueued(d)' <=> DoneQueued(d)
    BY <2>1, <2>2, ParentAppend
  <2> QED
    BY <1>1, <1>2, <2>3, ChildSame, LifecycleShrinks DEF SetupEnds
<1>3. CASE ReadInput
  <2>1. PICK c \in Calls : c = Head(toChild).of
    BY <1>3, ChildTail DEF ReadInput, MayRead, Queues, InputQueue
  <2>2. toChild # <<>> /\ toChild' = Tail(toChild) /\ Head(toChild).kind = "input"
    BY <1>3 DEF ReadInput, MayRead
  <2>3. /\ \A d \in Calls : InputQueued(d)' => InputQueued(d)
        /\ InputQueued(c) /\ ~InputQueued(c)'
    BY <2>1, <2>2, ChildTail, HeadInput
  <2>4. \A d \in Calls : d # c => task'[d] = task[d]
    BY <1>3, <2>1 DEF ReadInput
  <2>5. /\ starter[c] = "done" /\ inFlight[TagOf[c]] = c
        /\ ~EventQueued(c) /\ ~Completing(c)
    BY <2>3 DEF Lifecycle
  <2>6. \A d \in Calls : DoneQueued(d) => EventQueued(d)
    BY DEF DoneQueued, EventQueued
  <2>7. \A d \in Calls : /\ EventQueued(d)' <=> EventQueued(d)
                         /\ DoneQueued(d)' <=> DoneQueued(d)
    BY <1>3, ParentSame DEF ReadInput
  <2> QED
    BY <1>1, <2>3, <2>4, <2>5, <2>6, <2>7 DEF Lifecycle
<1>4. CASE ReadCancel \/ ReadShutdown
  <2>1. toChild # <<>> /\ toChild' = Tail(toChild) /\ UNCHANGED toParent
    BY <1>4 DEF ReadCancel, ReadShutdown, MayRead
  <2>2. \A d \in Calls : InputQueued(d)' => InputQueued(d)
    BY <2>1, ChildTail
  <2>3. \A d \in Calls : (task[d] # "none")' => task[d] # "none"
    BY <1>4 DEF ReadCancel, ReadShutdown, Canceled
  <2> QED
    BY <1>1, <2>1, <2>2, <2>3, ParentSame, LifecycleShrinks
<1>5. CASE ChildGone /\ UNCHANGED toParent
  BY <1>1, <1>5, ParentSame, ChildEmpty, LifecycleShrinks DEF ChildGone
<1>6. CASE SignalIgnored
  BY <1>1, <1>6, ParentSame, ChildSame, LifecycleShrinks DEF SignalIgnored, pipeVars
<1> QED
  BY <1>2, <1>3, <1>4, <1>5, <1>6 DEF ChildLoop, ChildExits, ChildDies

\* The steps of a prediction in the child: it sends its events, the last of which
\* is its Done, and ends.
LEMMA LifecycleTask ==
    ASSUME NEW c \in Calls PROVE IInv /\ (ChildTask(c) \/ AsyncExit(c)) => Lifecycle'
<1> SUFFICES ASSUME IInv, ChildTask(c) \/ AsyncExit(c) PROVE Lifecycle'
  OBVIOUS
<1> USE WorkerAssumption DEF IInv, TypeOK
<1>1. /\ task[c] # "none" /\ ChildKeeps
      /\ UNCHANGED toChild \/ toChild' = <<>>
      /\ \A d \in Calls : task'[d] # "none" => task[d] # "none"
  BY DEF ChildTask, StartBody, SendOutput, PredictEnds, ClearCancelable, SendDone,
         CancelEnds, SignalCancels, SignalEscapes, AsyncExit, Canceled, ChildGone, pipeVars
<1>2. /\ UNCHANGED <<starter, future, inFlight, consumer, held>>
      /\ \A d \in Calls : Completing(d)' <=> Completing(d)
      /\ \A d \in Calls : (starter[d] = "none")' <=> (future[d] = "none")'
      /\ \A d \in Calls : InputQueued(d)' => InputQueued(d)
  BY <1>1, ChildSame, ChildEmpty
  DEF ChildKeeps, parentVars, starterVars, consumerVars, Completing, Lifecycle
<1>3. CASE UNCHANGED toParent
  BY <1>1, <1>2, <1>3, ParentSame, LifecycleShrinks
<1>4. CASE toParent' = Append(toParent, Output(c))
  <2>1. Output(c) \in ToParent /\ Output(c).of = c /\ Output(c).kind = "output"
    BY MessageFields DEF Ended
  <2>2. \A d \in Calls : /\ EventQueued(d)' <=> EventQueued(d) \/ d = c
                         /\ DoneQueued(d)' <=> DoneQueued(d)
    BY <1>4, <2>1, ParentAppend
  <2> QED
    BY <1>1, <1>2, <2>2 DEF Lifecycle
<1>5. ASSUME NEW v \in Ended, toParent' = Append(toParent, Done(c, v)), task'[c] = "none"
      PROVE  Lifecycle'
  <2>1. Done(c, v) \in ToParent /\ Done(c, v).of = c /\ Done(c, v).kind = "done"
    BY MessageFields
  <2>2. \A d \in Calls : /\ EventQueued(d)' <=> EventQueued(d) \/ d = c
                         /\ DoneQueued(d)' <=> DoneQueued(d) \/ d = c
    BY <1>5, <2>1, ParentAppend
  <2> QED
    BY <1>1, <1>2, <1>5, <2>2 DEF Lifecycle
<1>6. \/ UNCHANGED toParent
      \/ toParent' = Append(toParent, Output(c))
      \/ \E v \in Ended : toParent' = Append(toParent, Done(c, v)) /\ task'[c] = "none"
  <2> HIDE DEF IInv, TypeOK
  <2> QED
    BY TaskSends DEF IInv
<1> QED
  BY <1>3, <1>4, <1>5, <1>6

LEMMA LifecycleStep == IInv /\ [Next]_vars => Lifecycle'
<1>1. IInv /\ UNCHANGED vars => Lifecycle'
  BY LifecycleShrinks, ParentSame, ChildSame
  DEF IInv, vars, parentVars, starterVars, consumerVars, pipeVars, childVars, Completing,
      Lifecycle
<1> QED
  BY <1>1, LifecycleCallers, LifecycleStarters, LifecycleConsume, LifecycleChild,
     LifecycleTask DEF Next
-----------------------------------------------------------------------------
(* Reports *)

\* A step that reports nothing, and after which only those work, complete or
\* resolve who did so before.
LEMMA ReportsShrink ==
    ASSUME Reports, UNCHANGED <<seen, held, popped>>,
           \A c \in Calls :
               /\ future'[c] \in Ended => future[c] = future'[c] \/ seen[c] = future'[c]
               /\ Completing(c)' => Completing(c)
               /\ starter'[c] \in {"pop", "resolve"} => starter[c] \in {"pop", "resolve"}
               /\ starter'[c] \in {"none", "downloading"} => starter[c] \in {"none", "downloading"}
               /\ InputQueued(c)' \/ (task[c] # "none")' \/ EventQueued(c)' =>
                     \/ InputQueued(c) \/ task[c] # "none" \/ EventQueued(c)
                     \/ starter[c] = "downloading"
    PROVE  Reports'
  BY DEF Reports

LEMMA ReportsCallers == IInv /\ Callers => Reports'
<1> SUFFICES ASSUME IInv, Callers PROVE Reports'
  OBVIOUS
<1> USE WorkerAssumption DEF IInv, TypeOK
<1>1. CASE Setup
  BY <1>1, ParentSame, ChildSame, ReportsShrink DEF Setup, starterVars, pipeVars, Completing, Phases
<1>2. ASSUME NEW c \in Calls, Predict(c) PROVE Reports'
  <2>1. starter[c] = "none" /\ future[c] = "none"
    BY <1>2 DEF Predict, Lifecycle
  <2> QED
    BY <1>2, <2>1, ParentSame, ChildSame, ReportsShrink
    DEF Predict, pipeVars, childVars, consumerVars, Completing, Ended
<1>3. ASSUME NEW m \in ToChild, m.kind # "input",
             SendToChild(m) \/ UNCHANGED toChild \/ (toChild' = <<>>),
             UNCHANGED <<seen, held, popped, future, starter, toParent, consumer>>,
             \A d \in Calls : task'[d] \in {task[d], "none"}
      PROVE  Reports'
  <2>1. \A d \in Calls : InputQueued(d)' => InputQueued(d)
    BY <1>3, ChildAppend, ChildSame, ChildEmpty DEF SendToChild
  <2> QED
    BY <1>3, <2>1, ParentSame, ReportsShrink DEF Completing
<1>4. ASSUME NEW t \in Tags, Cancel(t) PROVE Reports'
  <2>1. [kind |-> "cancel", tag |-> t, of |-> inFlight[t]] \in ToChild
    BY DEF ToChild
  <2> QED
    BY <1>3, <1>4, <2>1 DEF Cancel, starterVars, consumerVars
<1>5. CASE Shutdown \/ Terminate
  <2>1. [kind |-> "shutdown", tag |-> NoTag, of |-> NoCall] \in ToChild
    BY DEF ToChild
  <2> QED
    BY <1>3, <1>5, <2>1
    DEF Shutdown, Terminate, ChildGone, starterVars, consumerVars, childVars
<1> QED
  BY <1>1, <1>2, <1>4, <1>5 DEF Callers

LEMMA ReportsStarters == ASSUME NEW c \in Calls PROVE IInv /\ Starters(c) => Reports'
<1> SUFFICES ASSUME IInv, Starters(c) PROVE Reports'
  OBVIOUS
<1> USE WorkerAssumption DEF IInv, TypeOK, Threads
<1>1. /\ UNCHANGED <<task, toParent, consumer, held>>
      /\ \A d \in Calls : /\ EventQueued(d)' <=> EventQueued(d)
                          /\ Completing(d)' <=> Completing(d)
  BY ParentSame DEF Starters, SendInput, DownloadFails, StarterPops, StarterResolves,
                    pipeVars, consumerVars, childVars, Completing
<1>2. CASE SendInput(c)
  <2>1. [kind |-> "input", tag |-> TagOf[c], of |-> c] \in ToChild
    BY DEF ToChild
  <2>2. \A d \in Calls : InputQueued(d)' => InputQueued(d) \/ d = c
    BY <1>2, <2>1, ChildAppend, ChildSame DEF SendInput, SendToChild
  <2> QED
    BY <1>1, <1>2, <2>2, ReportsShrink DEF SendInput, parentVars
<1>3. CASE DownloadFails(c)
  <2>1. ~Working(c) /\ future[c] \notin Ended /\ popped[Consumer] # c
    BY <1>3 DEF DownloadFails, Lifecycle, Working, Owners, Ended
  <2>2. /\ \A d \in Calls : seen'[d] = IF d = c THEN "failed" ELSE seen[d]
        /\ \A d \in Calls : starter'[d] = IF d = c THEN "pop" ELSE starter[d]
        /\ UNCHANGED <<future, popped, toChild>>
    BY <1>3 DEF DownloadFails, pipeVars
  <2>3. ~InputQueued(c)' /\ task'[c] = "none" /\ ~EventQueued(c)' /\ ~Completing(c)'
    BY <1>1, <2>1, <2>2, ChildSame DEF Working
  <2>4. \A d \in Calls : d # c => /\ seen'[d] = seen[d] /\ starter'[d] = starter[d]
                                  /\ InputQueued(d)' <=> InputQueued(d)
    BY <2>2, ChildSame
  <2>5. popped[Consumer] # NoCall => popped[Consumer] \in Calls \ {c}
    BY <2>1
  <2> QED
    BY ZenonT(40), <1>1, <2>1, <2>2, <2>3, <2>4, <2>5 DEF Reports
<1>4. CASE StarterPops(c)
  <2>1. /\ \A d \in Calls : d # c => starter'[d] = starter[d]
        /\ starter'[c] \in {"resolve", "crashed"} /\ starter[c] = "pop"
        /\ UNCHANGED <<future, seen, toChild>>
    BY <1>4 DEF StarterPops, pipeVars
  <2>2. popped'[Consumer] = popped[Consumer]
    BY <1>4 DEF StarterPops, PopInFlight
  <2> QED
    BY <1>1, <2>1, <2>2, ChildSame DEF Reports
<1>5. CASE StarterResolves(c)
  <2>1. popped[c] = c /\ seen[c] = "failed"
    BY <1>5 DEF StarterResolves, Owners, Reports
  <2>2. /\ \A d \in Calls : future'[d] = IF d = c THEN "failed" ELSE future[d]
        /\ \A d \in Calls : starter'[d] = IF d = c THEN "done" ELSE starter[d]
        /\ popped'[Consumer] = popped[Consumer]
        /\ UNCHANGED <<seen, toChild>>
    BY <1>5, <2>1 DEF StarterResolves, pipeVars
  <2> QED
    BY ZenonT(40), <1>1, <2>1, <2>2, ChildSame DEF Reports
<1> QED
  BY <1>2, <1>3, <1>4, <1>5 DEF Starters

LEMMA ReportsConsume == IInv /\ Consume => Reports'
<1> SUFFICES ASSUME IInv, Consume PROVE Reports'
  OBVIOUS
<1> USE WorkerAssumption DEF IInv, TypeOK
<1>1. UNCHANGED <<starter, task, toChild>>
      /\ \A d \in Calls : InputQueued(d)' <=> InputQueued(d)
  BY ChildSame DEF Consume, SetupCheck, SetupPoll, SetupOk, SetupFailed, Check, Receive,
      PollTimesOut, ConsumerPops, ConsumerResolves, Drained, Final, FailInFlight,
      ConsumerKeeps, starterVars, pipeVars, childVars
<1>2. CASE SetupCheck \/ SetupPoll \/ SetupOk \/ SetupFailed \/ Check \/ PollTimesOut
           \/ Drained \/ Final \/ FailInFlight
  <2>1. /\ UNCHANGED <<seen, held, popped>>
        /\ \A d \in Calls : future'[d] \in {future[d], "fatal"}
        /\ \A d \in Calls : Completing(d)' => Completing(d)
    BY <1>2 DEF SetupCheck, SetupPoll, SetupOk, SetupFailed, Check, PollTimesOut,
                Drained, Final, FailInFlight, ConsumerKeeps, starterVars, Completing
  <2>2. \A d \in Calls : EventQueued(d)' => EventQueued(d)
    BY <1>2, ParentSame, ParentTail
    DEF SetupCheck, SetupPoll, SetupOk, SetupFailed, Check, PollTimesOut, Drained,
        Final, FailInFlight
  <2> QED
    BY <1>1, <2>1, <2>2, ReportsShrink DEF Ended
<1>3. CASE Receive
  <2> DEFINE m == Head(toParent)
  <2>1. /\ toParent # <<>> /\ toParent' = Tail(toParent)
        /\ UNCHANGED <<inFlight, future, popped>>
        /\ popped[Consumer] = NoCall
    BY <1>3 DEF Receive, ConsumerKeeps, starterVars, Owners, Threads
  <2>2. \A d \in Calls : EventQueued(d)' => EventQueued(d)
    BY <2>1, ParentTail
  <2>3. CASE m.kind # "done"
    BY <1>1, <1>3, <2>1, <2>2, <2>3, ReportsShrink DEF Receive, Completing
  <2>4. CASE m.kind = "done"
    <3>1. PICK c \in Calls : c = m.of
      BY <1>3, ParentTail DEF Receive, Phases, MainLoop, Queues, EventQueue
    <3>2. EventQueued(c) /\ DoneQueued(c) /\ ~EventQueued(c)' /\ m.tag = TagOf[c]
      BY <2>1, <2>4, <3>1, ParentTail, HeadDone DEF Queues, EventQueue
    <3>3. /\ starter[c] = "done" /\ inFlight[TagOf[c]] = c
          /\ ~InputQueued(c) /\ task[c] = "none" /\ future[c] = "pending"
      BY <3>2 DEF Lifecycle, Owners
    <3>4. /\ consumer' = "pop" /\ held' = m
          /\ \A d \in Calls : seen'[d] = IF d = c THEN m.verdict ELSE seen[d]
      BY <1>3, <2>4, <3>2, <3>3 DEF Receive
    <3>5. \A d \in Calls : Completing(d)' => d = c
      BY <3>1, <3>4 DEF Completing
    <3> QED
      BY <1>1, <2>1, <2>2, <3>2, <3>3, <3>4, <3>5 DEF Reports, Ended
  <2> QED
    BY <2>3, <2>4
<1>4. CASE ConsumerPops
  <2>1. /\ popped'[Consumer] = held.of /\ consumer' = "resolve"
        /\ Completing(held.of) /\ held.of \in Calls
        /\ UNCHANGED <<future, seen, held, toParent>>
    BY <1>4, ConsumerPopsOwn DEF ConsumerPops, PopInFlight, pipeVars, Threads
  <2>2. \A d \in Calls : ~Completing(d)' /\ (EventQueued(d)' <=> EventQueued(d))
    BY <2>1, ParentSame DEF Completing
  <2> QED
    BY <1>1, <2>1, <2>2 DEF Reports
<1>5. CASE ConsumerResolves
  <2>1. PICK c \in Calls : c = popped[Consumer]
    BY <1>5 DEF ConsumerResolves, Owners, Threads
  <2>2. seen[c] = held.verdict
    BY <2>1 DEF Reports
  <2>3. /\ \A d \in Calls : future'[d] = IF d = c THEN held.verdict ELSE future[d]
        /\ popped'[Consumer] = NoCall /\ consumer' = "check"
        /\ UNCHANGED <<seen, held, toParent>>
    BY <1>5, <2>1 DEF ConsumerResolves, pipeVars, Threads
  <2>4. \A d \in Calls : ~Completing(d)' /\ (EventQueued(d)' <=> EventQueued(d))
    BY <2>3, ParentSame DEF Completing
  <2> QED
    BY <1>1, <2>2, <2>3, <2>4 DEF Reports
<1> QED
  BY <1>2, <1>3, <1>4, <1>5 DEF Consume

\* The child works for nobody new.
LEMMA ChildStartsNothing ==
    ASSUME IInv, NEW c \in Calls,
           ChildLoop \/ ChildDies \/ SignalIgnored
           \/ \E d \in Calls : ChildTask(d) \/ AsyncExit(d),
           InputQueued(c)' \/ (task[c] # "none")' \/ EventQueued(c)'
    PROVE  InputQueued(c) \/ task[c] # "none" \/ EventQueued(c)
<1> USE WorkerAssumption DEF IInv, TypeOK
<1>1. CASE SetupEnds
  <2>1. PICK v \in Ended : toParent' = Append(toParent, SetupDone(v))
    BY <1>1 DEF SetupEnds, Ended
  <2>2. SetupDone(v) \in ToParent /\ SetupDone(v).of = NoCall
    BY SetupDoneTyped DEF SetupDone
  <2> QED
    BY <1>1, <2>1, <2>2, ParentAppend, ChildSame DEF SetupEnds
<1>2. CASE ReadInput
  <2>1. /\ toChild # <<>> /\ toChild' = Tail(toChild)
        /\ Head(toChild).kind = "input" /\ Head(toChild).of \in Calls
    BY <1>2, ChildTail DEF ReadInput, MayRead, Queues, InputQueue
  <2>2. (task[c] # "none")' => task[c] # "none" \/ c = Head(toChild).of
    BY <1>2, <2>1 DEF ReadInput
  <2> QED
    BY <1>2, <2>1, <2>2, ChildTail, ParentSame DEF ReadInput
<1>3. CASE ReadCancel \/ ReadShutdown
  <2>1. toChild # <<>> /\ toChild' = Tail(toChild) /\ UNCHANGED toParent
    BY <1>3 DEF ReadCancel, ReadShutdown, MayRead
  <2>2. (task[c] # "none")' => task[c] # "none"
    BY <1>3 DEF ReadCancel, ReadShutdown, Canceled
  <2> QED
    BY <2>1, <2>2, ChildTail, ParentSame
<1>4. CASE (ChildGone /\ UNCHANGED toParent) \/ SignalIgnored
  BY <1>4, ParentSame, ChildSame, ChildEmpty DEF ChildGone, SignalIgnored, pipeVars
<1>5. ASSUME NEW d \in Calls, ChildTask(d) \/ AsyncExit(d)
      PROVE InputQueued(c) \/ task[c] # "none" \/ EventQueued(c)
  <2>1. /\ UNCHANGED toChild \/ toChild' = <<>>
        /\ (task[c] # "none")' => task[c] # "none"
        /\ task[d] # "none"
    BY <1>5 DEF ChildTask, StartBody, SendOutput, PredictEnds, ClearCancelable, SendDone,
         CancelEnds, SignalCancels, SignalEscapes, AsyncExit, Canceled, ChildGone, pipeVars
  <2>2. UNCHANGED toParent
        \/ toParent' = Append(toParent, Output(d))
        \/ \E v \in Ended : toParent' = Append(toParent, Done(d, v))
    <3> HIDE DEF IInv, TypeOK
    <3> QED
      BY <1>5, TaskSends DEF IInv
  <2>3. /\ Output(d) \in ToParent /\ Output(d).of = d
        /\ \A v \in Ended : Done(d, v) \in ToParent /\ Done(d, v).of = d
    BY MessageFields DEF Ended
  <2>4. EventQueued(c)' => EventQueued(c) \/ c = d
    BY <2>2, <2>3, ParentAppend, ParentSame
  <2> QED
    BY <2>1, <2>4, ChildSame, ChildEmpty
<1> QED
  BY <1>1, <1>2, <1>3, <1>4, <1>5 DEF ChildLoop, ChildExits, ChildDies

LEMMA ReportsStep == IInv /\ [Next]_vars => Reports'
<1> SUFFICES ASSUME IInv, [Next]_vars PROVE Reports'
  OBVIOUS
<1>1. CASE ChildLoop \/ ChildDies \/ SignalIgnored
           \/ \E d \in Calls : ChildTask(d) \/ AsyncExit(d)
  <2>1. ChildKeeps
    BY <1>1 DEF ChildLoop, ChildTask, AsyncExit, ChildDies, SetupEnds, ReadInput,
        ReadCancel, ReadShutdown, ChildExits, StartBody, SendOutput, PredictEnds,
        ClearCancelable, SendDone, CancelEnds, SignalIgnored, SignalCancels, SignalEscapes
  <2>2. UNCHANGED <<seen, held, popped, future, starter, consumer>>
        /\ \A d \in Calls : Completing(d)' <=> Completing(d)
    BY <2>1 DEF ChildKeeps, parentVars, starterVars, consumerVars, Completing
  <2>3. Reports
    BY DEF IInv
  <2> QED
    BY <1>1, <2>2, <2>3, ChildStartsNothing, ReportsShrink
<1>2. CASE UNCHANGED vars
  <2>1. UNCHANGED <<seen, held, popped, future, starter, consumer, task, toParent, toChild>>
        /\ Reports
    BY <1>2 DEF vars, parentVars, starterVars, consumerVars, pipeVars, childVars, IInv
  <2> QED
    BY <2>1, ParentSame, ChildSame, ReportsShrink DEF Completing
<1> QED
  BY <1>1, <1>2, ReportsCallers, ReportsStarters, ReportsConsume DEF Next

-----------------------------------------------------------------------------
(* The invariant *)

LEMMA InvInit == Init => IInv
<1> SUFFICES ASSUME Init PROVE IInv
  OBVIOUS
<1>1. TypeOK
  BY TypeInit
<1>2. \A c \in Calls : ~InputQueued(c) /\ ~EventQueued(c) /\ ~DoneQueued(c) /\ ~Completing(c)
  BY DEF Init, InputQueued, EventQueued, DoneQueued, Completing
<1>3. EndedTasks /\ Queues
  BY DEF Init, EndedTasks, Queues, EventQueue, InputQueue
<1>4. Phases /\ Owners
  BY WorkerAssumption DEF Init, Phases, Owners, MainLoop, Threads
<1>5. Lifecycle /\ Reports
  BY <1>2, WorkerAssumption DEF Init, Lifecycle, Reports, Threads, Ended
<1> QED
  BY <1>1, <1>3, <1>4, <1>5 DEF IInv

LEMMA InvStep == IInv /\ [Next]_vars => IInv'
<1> SUFFICES ASSUME IInv, [Next]_vars PROVE IInv'
  OBVIOUS
<1>1. TypeOK' /\ EndedTasks'
  <2>1. TypeOK /\ EndedTasks
    BY DEF IInv
  <2>2. ParentTyped' /\ ChildTyped' /\ EndedTasks'
    BY <2>1, ParentTypeStep, ChildTypeStep, EndedTasksStep
  <2> QED
    BY <2>2 DEF TypeOK, ParentTyped, ChildTyped
<1>2. Queues'
  BY EventQueueStep, InputQueueStep DEF Queues
<1>3. Phases' /\ Owners' /\ Lifecycle' /\ Reports'
  BY PhasesStep, OwnersStep, LifecycleStep, ReportsStep
<1> QED
  BY <1>1, <1>2, <1>3 DEF IInv

\* IInv holds in every reachable state.
THEOREM WorkerInv == Spec => []IInv
  BY InvInit, InvStep, PTL DEF Spec

-----------------------------------------------------------------------------
(* What follows *)

\* No event of an earlier call under the same tag is ever taken for one of a later
\* call (_consume_events matches by tag alone).
THEOREM WorkerEventsReachTheirCall == Spec => []EventsReachTheirCall
<1>1. IInv => EventsReachTheirCall
  <2> SUFFICES ASSUME IInv, NEW i \in 1..Len(toParent), toParent[i].of # NoCall
               PROVE  inFlight[toParent[i].tag] = toParent[i].of
                      /\ future[toParent[i].of] = "pending"
    BY DEF EventsReachTheirCall
  <2>1. PICK c \in Calls : c = toParent[i].of /\ toParent[i].tag = TagOf[c]
    BY DEF IInv, Queues, EventQueue
  <2>2. EventQueued(c)
    BY <2>1 DEF EventQueued
  <2> QED
    BY <2>1, <2>2, WorkerAssumption DEF IInv, Lifecycle, Owners
<1> QED
  BY WorkerInv, <1>1, PTL

\* The child never works for a call that the parent does not hold in flight.
THEOREM WorkerChildWorksForInFlight == Spec => []ChildWorksForInFlight
<1>1. IInv => ChildWorksForInFlight
  BY DEF IInv, Lifecycle, ChildWorksForInFlight
<1> QED
  BY WorkerInv, <1>1, PTL

\* The consumer thread never dies of the KeyError of _complete_prediction.
THEOREM WorkerConsumerSurvives == Spec => []ConsumerSurvives
<1>1. IInv => ConsumerSurvives
  BY DEF IInv, Phases, ConsumerSurvives
<1> QED
  BY WorkerInv, <1>1, PTL

\* An unresolved future always has exactly one holder, who will resolve it.
THEOREM WorkerPendingHasOwner == Spec => []PendingHasOwner
<1>1. IInv => PendingHasOwner
  <2> SUFFICES ASSUME IInv PROVE PendingHasOwner
    OBVIOUS
  <2> USE WorkerAssumption DEF IInv, TypeOK, Owners, Threads
  <2>1. \A c \in Calls : future[c] = "pending" <=>
           inFlight[TagOf[c]] = c \/ \E th \in Threads : popped[th] = c
    OBVIOUS
  <2>2. \A t \in Tags : inFlight[t] # NoCall =>
           TagOf[inFlight[t]] = t /\ \A th \in Threads : popped[th] # inFlight[t]
    OBVIOUS
  <2>3. \A th1, th2 \in Threads : popped[th1] = popped[th2] =>
           th1 = th2 \/ popped[th1] = NoCall
    OBVIOUS
  <2> QED
    BY <2>1, <2>2, <2>3 DEF PendingHasOwner
<1> QED
  BY WorkerInv, <1>1, PTL

\* The future of a call says what its subscribers were told.
THEOREM WorkerFutureAgreesWithEvents == Spec => []FutureAgreesWithEvents
<1>1. IInv => FutureAgreesWithEvents
  BY DEF IInv, Reports, FutureAgreesWithEvents
<1> QED
  BY WorkerInv, <1>1, PTL

\* A FatalWorkerException is never set while the child or its events are around.
THEOREM WorkerFatalIsLast == Spec => []FatalIsLast
<1>1. IInv => FatalIsLast
  BY DEF IInv, Owners, Phases, FatalIsLast
<1> QED
  BY WorkerInv, <1>1, PTL

\* The outcome of a future never changes: whoever resolves a future is its only
\* holder, and a call in flight has none.
THEOREM WorkerFutureIsFinal == Spec => FutureIsFinal
<1> DEFINE Final1 == \A c \in Calls : future[c] \in Resolved => future'[c] = future[c]
<1>1. IInv /\ [Next]_vars => [Final1]_vars
  <2> SUFFICES ASSUME IInv, [Next]_vars, NEW c \in Calls, future[c] \in Resolved
               PROVE  future'[c] = future[c]
    OBVIOUS
  <2> USE WorkerAssumption DEF IInv, TypeOK, Owners, Threads, Resolved, Ended
  <2>1. CASE UNCHANGED future
    BY <2>1
  <2>2. ASSUME NEW d \in Calls, Predict(d) PROVE future'[c] = future[c]
    BY <2>2 DEF Predict
  <2>3. ASSUME NEW d \in Calls, StarterResolves(d) PROVE future'[c] = future[c]
    BY <2>3 DEF StarterResolves
  <2>4. CASE ConsumerResolves
    BY <2>4 DEF ConsumerResolves
  <2>5. CASE FailInFlight
    BY <2>5 DEF FailInFlight
  <2> QED
    BY <2>1, <2>2, <2>3, <2>4, <2>5
    DEF vars, parentVars, Next, Callers, Setup, Cancel, Shutdown, Terminate, Starters,
        SendInput, DownloadFails, StarterPops, Consume, SetupCheck, SetupPoll, SetupOk,
        SetupFailed, Check, Receive, PollTimesOut, ConsumerPops, Drained, Final,
        ChildLoop, ChildTask, AsyncExit, ChildDies, SetupEnds, ReadInput, ReadCancel,
        ReadShutdown, ChildExits, StartBody, SendOutput, PredictEnds, ClearCancelable,
        SendDone, CancelEnds, SignalIgnored, SignalCancels, SignalEscapes, ChildKeeps
<1> QED
  BY WorkerInv, <1>1, PTL DEF Spec, FutureIsFinal

\* The subscribers of a call see at most one Done: no input is sent for a call
\* whose download failed, and no event follows a Done.
THEOREM WorkerDoneSeenOnce == Spec => DoneSeenOnce
<1> DEFINE Once == \A c \in Calls : seen[c] # "none" => seen'[c] = seen[c]
<1>1. IInv /\ [Next]_vars => [Once]_vars
  <2> SUFFICES ASSUME IInv, [Next]_vars, NEW c \in Calls, seen[c] # "none"
               PROVE  seen'[c] = seen[c]
    OBVIOUS
  <2> USE WorkerAssumption DEF IInv, TypeOK
  <2>1. CASE UNCHANGED seen
    BY <2>1
  <2>2. ASSUME NEW d \in Calls, DownloadFails(d) PROVE seen'[c] = seen[c]
    BY <2>2 DEF DownloadFails, Reports
  <2>3. CASE Receive
    <3>1. PICK d \in Calls : d = Head(toParent).of /\ Head(toParent).tag = TagOf[d]
      BY <2>3, ParentTail DEF Receive, Phases, MainLoop, Queues, EventQueue
    <3>2. EventQueued(d)
      BY <2>3, <3>1, ParentTail DEF Receive
    <3>3. inFlight[TagOf[d]] = d /\ seen[d] = "none"
      BY <3>2 DEF Lifecycle, Reports
    <3> QED
      BY <2>3, <3>1, <3>3 DEF Receive
  <2> QED
    BY <2>1, <2>2, <2>3
    DEF vars, parentVars, Next, Callers, Setup, Predict, Cancel, Shutdown, Terminate,
        Starters, SendInput, StarterPops, StarterResolves, Consume, SetupCheck,
        SetupPoll, SetupOk, SetupFailed, Check, PollTimesOut, ConsumerPops,
        ConsumerResolves, Drained, Final, FailInFlight, ChildLoop, ChildTask, AsyncExit,
        ChildDies, SetupEnds, ReadInput, ReadCancel, ReadShutdown, ChildExits,
        StartBody, SendOutput, PredictEnds, ClearCancelable, SendDone, CancelEnds,
        SignalIgnored, SignalCancels, SignalEscapes, ChildKeeps
<1> QED
  BY WorkerInv, <1>1, PTL DEF Spec, DoneSeenOnce

\* However the calls interleave, the dictionary never holds more of them than
\* concurrency.max: predict counts and inserts under one lock.
THEOREM WorkerWithinCapacity == Spec => []WithinCapacity
<1>1. Init => WithinCapacity
  <2> SUFFICES ASSUME Init PROVE WithinCapacity
    OBVIOUS
  <2>1. InFlightTags = {}
    BY DEF Init, InFlightTags
  <2> QED
    BY <2>1, FS_EmptySet, WorkerAssumption DEF WithinCapacity
<1>2. TypeOK /\ WithinCapacity /\ [Next]_vars => WithinCapacity'
  <2> SUFFICES ASSUME TypeOK, WithinCapacity, [Next]_vars PROVE WithinCapacity'
    OBVIOUS
  <2> USE WorkerAssumption DEF TypeOK, WithinCapacity
  <2>1. IsFiniteSet(InFlightTags) /\ Cardinality(InFlightTags) \in Nat
    BY FS_Subset, FS_CardinalityType DEF InFlightTags
  <2>2. ASSUME NEW c \in Calls, Predict(c) PROVE WithinCapacity'
    <3>1. InFlightTags' = InFlightTags \cup {TagOf[c]}
      BY <2>2 DEF Predict, InFlightTags
    <3>2. Cardinality(InFlightTags \cup {TagOf[c]}) \in
             {Cardinality(InFlightTags), Cardinality(InFlightTags) + 1}
      BY <2>1, FS_AddElement
    <3>3. Cardinality(InFlightTags) < MaxConcurrency
      BY <2>2 DEF Predict, MayPredict
    <3> QED
      BY <2>1, <3>1, <3>2, <3>3
  <2>3. ASSUME InFlightTags' \subseteq InFlightTags PROVE WithinCapacity'
    <3>1. Cardinality(InFlightTags') <= Cardinality(InFlightTags)
      BY <2>1, <2>3, FS_Subset
    <3>2. Cardinality(InFlightTags') \in Nat
      BY <2>1, <2>3, FS_Subset, FS_CardinalityType
    <3> QED
      BY <2>1, <3>1, <3>2
  <2>4. ASSUME NEW th, NEW t, PopInFlight(th, t) PROVE InFlightTags' \subseteq InFlightTags
    BY <2>4 DEF PopInFlight, InFlightTags
  <2>5. CASE UNCHANGED inFlight \/ FailInFlight
    BY <2>3, <2>5 DEF InFlightTags, FailInFlight
  <2> QED
    BY <2>2, <2>3, <2>4, <2>5
    DEF vars, parentVars, Next, Callers, Setup, Cancel, Shutdown, Terminate, Starters,
        SendInput, DownloadFails, StarterPops, StarterResolves, Consume, SetupCheck,
        SetupPoll, SetupOk, SetupFailed, Check, Receive, PollTimesOut, ConsumerPops,
        ConsumerResolves, Drained, Final, ChildLoop, ChildTask, AsyncExit, ChildDies,
        SetupEnds, ReadInput, ReadCancel, ReadShutdown, ChildExits, StartBody,
        SendOutput, PredictEnds, ClearCancelable, SendDone, CancelEnds, SignalIgnored,
        SignalCancels, SignalEscapes, ChildKeeps
<1>3. IInv => TypeOK
  BY DEF IInv
<1> QED
  BY WorkerInv, <1>1, <1>2, <1>3, PTL DEF Spec

-----------------------------------------------------------------------------
(* What the outcomes come from                                             *)

\* A request to cancel is never taken back, and a child that exits is gone.
LEMMA CancelsStay ==
    ASSUME IInv, [Next]_vars
    PROVE  /\ cancelSent \subseteq cancelSent'
           /\ Quitting => Quitting'
           /\ \A c \in Calls : MayEndCanceled(c) => MayEndCanceled(c)'
<1>1. cancelSent \subseteq cancelSent'
  BY DEF Next, vars, parentVars, Callers, Setup, Shutdown, Terminate, Predict, Cancel,
         Starters, SendInput, DownloadFails, StarterPops, StarterResolves, Consume,
         SetupCheck, SetupPoll, SetupOk, SetupFailed, Check, Receive, PollTimesOut,
         ConsumerPops, ConsumerResolves, Drained, Final, FailInFlight, ConsumerKeeps,
         ChildLoop, SetupEnds, ReadInput, ReadCancel, ReadShutdown, ChildExits,
         ChildTask, StartBody, SendOutput, PredictEnds, ClearCancelable, SendDone,
         CancelEnds, SignalIgnored, SignalCancels, SignalEscapes, AsyncExit, ChildDies,
         ChildKeeps
<1>2. child \in {"leaving", "dead"} => child' \in {"leaving", "dead"}
  BY DEF IInv, Phases, Next, vars, childVars, Callers, Setup, Shutdown, Terminate,
         Predict, Cancel, ChildGone, ChildAlive,
         Starters, SendInput, DownloadFails, StarterPops, StarterResolves, Consume,
         SetupCheck, SetupPoll, SetupOk, SetupFailed, Check, Receive, PollTimesOut,
         ConsumerPops, ConsumerResolves, Drained, Final, FailInFlight, ConsumerKeeps,
         ChildLoop, SetupEnds, ReadInput, ReadCancel, ReadShutdown, ChildExits, MayRead,
         ChildTask, StartBody, SendOutput, PredictEnds, ClearCancelable, SendDone,
         CancelEnds, SignalIgnored, SignalCancels, SignalEscapes, AsyncExit, ChildDies
<1> QED
  BY <1>1, <1>2 DEF MayEndCanceled, Quitting

\* A call that the child works for, or whose input is on its way, is in flight.
LEMMA WorkedOnInFlight ==
    ASSUME IInv, NEW c \in Calls, task[c] # "none" \/ InputQueued(c)
    PROVE  inFlight[TagOf[c]] = c /\ starter[c] = "done"
  BY DEF IInv, Lifecycle

-----------------------------------------------------------------------------
(* CancelOrder *)

LEMMA CancelOrderShrinks ==
    ASSUME CancelOrder, UNCHANGED toChild \/ toChild' = <<>>,
           cancelSent \subseteq cancelSent',
           \A c \in Calls : task'[c] # "none" => task[c] # "none"
    PROVE  CancelOrder'
<1>1. CASE toChild' = <<>>
  BY <1>1 DEF CancelOrder
<1>2. CASE UNCHANGED toChild
  BY <1>2 DEF CancelOrder, InputBefore
<1> QED
  BY <1>1, <1>2

LEMMA CancelOrderTail ==
    ASSUME IInv, CancelOrder, MayRead, toChild' = Tail(toChild), UNCHANGED cancelSent,
           \A c \in Calls : task'[c] # "none" =>
               task[c] # "none" \/ (Head(toChild).kind = "input" /\ Head(toChild).of = c)
    PROVE  CancelOrder'
<1>1. /\ Len(toChild') = Len(toChild) - 1
      /\ Len(toChild) \in Nat /\ Len(toChild) >= 1
      /\ \A i \in 1..Len(toChild') : toChild'[i] = toChild[i + 1]
      /\ Head(toChild) = toChild[1]
  BY ChildTail DEF MayRead, IInv
<1> SUFFICES ASSUME NEW i \in 1..Len(toChild'), toChild'[i].kind = "cancel",
                    NEW c \in Calls, TagOf[c] = toChild'[i].tag,
                    task'[c] # "none" \/ InputBefore(c, i - 1)'
             PROVE  c \in cancelSent
  BY DEF CancelOrder
<1>2. i + 1 \in 1..Len(toChild) /\ toChild[i + 1] = toChild'[i]
  BY <1>1
<1>3. task[c] # "none" \/ InputBefore(c, i)
  <2>1. CASE InputBefore(c, i - 1)'
    <3>1. PICK j \in 1..(i - 1) : toChild'[j].kind = "input" /\ toChild'[j].of = c
      BY <2>1 DEF InputBefore
    <3>2. j + 1 \in 1..i /\ toChild[j + 1] = toChild'[j]
      BY <1>1
    <3> QED
      BY <3>1, <3>2 DEF InputBefore
  <2>2. CASE task'[c] # "none"
    <3>1. 1 \in 1..i
      BY <1>1
    <3> QED
      BY <1>1, <2>2, <3>1 DEF InputBefore
  <2> QED
    BY <2>1, <2>2
<1>4. (i + 1) - 1 = i
  BY <1>1
<1> QED
  BY <1>2, <1>3, <1>4 DEF CancelOrder

LEMMA CancelOrderAppend ==
    ASSUME IInv, CancelOrder, NEW m \in ToChild, SendToChild(m), UNCHANGED task,
           cancelSent \subseteq cancelSent',
           m.kind = "cancel" =>
               \A c \in Calls : TagOf[c] = m.tag /\ inFlight[TagOf[c]] = c
                                    => c \in cancelSent'
    PROVE  CancelOrder'
<1>1. CASE UNCHANGED toChild
  BY <1>1, CancelOrderShrinks
<1>2. CASE toChild' = Append(toChild, m)
  <2>1. /\ Len(toChild') = Len(toChild) + 1
        /\ \A i \in 1..Len(toChild) : toChild'[i] = toChild[i]
        /\ toChild'[Len(toChild) + 1] = m
        /\ Len(toChild) \in Nat
    BY <1>2 DEF IInv, TypeOK
  <2>2. ASSUME NEW i \in 1..Len(toChild'), toChild'[i].kind = "cancel",
               NEW c \in Calls, TagOf[c] = toChild'[i].tag,
               task'[c] # "none" \/ InputBefore(c, i - 1)'
        PROVE  c \in cancelSent'
    <3>1. task[c] # "none" \/ InputBefore(c, i - 1)
      <4>1. \A j \in 1..(i - 1) : j \in 1..Len(toChild)
        BY <2>1
      <4> QED
        BY <2>1, <2>2, <4>1 DEF InputBefore
    <3>2. CASE i \in 1..Len(toChild)
      BY <2>1, <2>2, <3>1, <3>2 DEF CancelOrder
    <3>3. CASE i = Len(toChild) + 1
      <4>1. InputBefore(c, i - 1) => InputQueued(c)
        BY <2>1, <3>3 DEF InputBefore, InputQueued
      <4>2. inFlight[TagOf[c]] = c
        BY <3>1, <4>1, WorkedOnInFlight
      <4> QED
        BY <2>1, <2>2, <3>3, <4>2
    <3> QED
      BY <2>1, <3>2, <3>3
  <2> QED
    BY <2>2 DEF CancelOrder
<1> QED
  BY <1>1, <1>2 DEF SendToChild

LEMMA CancelOrderStep == IInv /\ CancelOrder /\ [Next]_vars => CancelOrder'
<1> SUFFICES ASSUME IInv, CancelOrder, [Next]_vars PROVE CancelOrder'
  OBVIOUS
<1>1. cancelSent \subseteq cancelSent'
  BY CancelsStay
<1>2. ASSUME UNCHANGED <<toChild, task>> PROVE CancelOrder'
  BY <1>1, <1>2, CancelOrderShrinks
<1>3. ASSUME ChildGone PROVE CancelOrder'
  BY <1>1, <1>3, CancelOrderShrinks DEF ChildGone
<1>4. ASSUME NEW t \in Tags, Cancel(t) PROVE CancelOrder'
  <2> DEFINE m == [kind |-> "cancel", tag |-> t, of |-> inFlight[t]]
  <2>1. m \in ToChild
    BY DEF ToChild, IInv, TypeOK
  <2>2. \A c \in Calls : TagOf[c] = m.tag /\ inFlight[TagOf[c]] = c => c \in cancelSent'
    BY <1>4 DEF Cancel
  <2>3. SendToChild(m) /\ UNCHANGED task
    BY <1>4 DEF Cancel
  <2> HIDE DEF m
  <2> QED
    BY <1>1, <2>1, <2>2, <2>3, CancelOrderAppend
<1>5. CASE Shutdown
  <2> DEFINE m == [kind |-> "shutdown", tag |-> NoTag, of |-> NoCall]
  <2>1. m \in ToChild /\ m.kind # "cancel"
    BY DEF ToChild
  <2>2. UNCHANGED task /\ (SendToChild(m) \/ UNCHANGED toChild)
    BY <1>5 DEF Shutdown, childVars
  <2> HIDE DEF m
  <2> QED
    BY <1>1, <1>2, <2>1, <2>2, CancelOrderAppend
<1>6. ASSUME NEW c \in Calls, SendInput(c) PROVE CancelOrder'
  <2> DEFINE m == [kind |-> "input", tag |-> TagOf[c], of |-> c]
  <2>1. m \in ToChild /\ m.kind # "cancel"
    BY WorkerAssumption DEF ToChild
  <2>2. UNCHANGED task /\ SendToChild(m)
    BY <1>6 DEF SendInput, childVars
  <2> HIDE DEF m
  <2> QED
    BY <1>1, <2>1, <2>2, CancelOrderAppend
<1>7. CASE ReadInput \/ ReadCancel \/ ReadShutdown
  <2>1. MayRead /\ toChild' = Tail(toChild) /\ UNCHANGED cancelSent
    BY <1>7 DEF ReadInput, ReadCancel, ReadShutdown, ChildKeeps, parentVars
  <2>2. \A c \in Calls : task'[c] # "none" =>
           task[c] # "none" \/ (Head(toChild).kind = "input" /\ Head(toChild).of = c)
    BY <1>7 DEF ReadInput, ReadCancel, ReadShutdown, Canceled, IInv, TypeOK
  <2> QED
    BY <2>1, <2>2, CancelOrderTail
<1>8. ASSUME NEW c \in Calls, ChildTask(c) \/ AsyncExit(c) PROVE CancelOrder'
  <2>1. /\ UNCHANGED toChild \/ toChild' = <<>>
        /\ \A d \in Calls : task'[d] # "none" => task[d] # "none"
    BY <1>8 DEF ChildTask, StartBody, SendOutput, PredictEnds, ClearCancelable, SendDone,
         CancelEnds, SignalCancels, SignalEscapes, AsyncExit, Canceled, ChildGone,
         pipeVars, IInv, TypeOK
  <2> QED
    BY <1>1, <2>1, CancelOrderShrinks
<1> QED
  BY <1>2, <1>3, <1>4, <1>5, <1>6, <1>7, <1>8
  DEF vars, pipeVars, childVars, Next, Callers, Setup, Predict, Terminate, Starters,
      DownloadFails, StarterPops, StarterResolves, Consume, SetupCheck, SetupPoll,
      SetupOk, SetupFailed, Check, Receive, PollTimesOut, ConsumerPops, ConsumerResolves,
      Drained, Final, FailInFlight, ConsumerKeeps, ChildLoop, SetupEnds, ChildExits,
      ChildDies, SignalIgnored

-----------------------------------------------------------------------------
(* SignalOrder *)

\* A synchronous worker has one call in flight at most.
LEMMA OneInFlight ==
    ASSUME IInv, WithinCapacity, ~IsAsync, NEW t \in Tags, NEW u \in Tags,
           inFlight[t] # NoCall, inFlight[u] # NoCall
    PROVE  t = u
<1>1. {t, u} \subseteq InFlightTags
  BY DEF InFlightTags
<1>2. IsFiniteSet(InFlightTags)
  BY FS_Subset, WorkerAssumption DEF InFlightTags
<1>3. /\ IsFiniteSet({t, u})
      /\ Cardinality({t, u}) <= Cardinality(InFlightTags)
      /\ Cardinality({t, u}) \in Nat /\ Cardinality(InFlightTags) \in Nat
  BY <1>1, <1>2, FS_Subset, FS_CardinalityType
<1>4. Cardinality(InFlightTags) <= 1
  BY WorkerAssumption DEF WithinCapacity
<1>5. t # u => Cardinality({t, u}) = 2
  <2>1. IsFiniteSet({t}) /\ Cardinality({t}) = 1 /\ {t, u} = {t} \cup {u}
    BY FS_Singleton
  <2>2. Cardinality({t} \cup {u}) = IF u \in {t} THEN Cardinality({t}) ELSE Cardinality({t}) + 1
    BY <2>1, FS_AddElement
  <2> QED
    BY <2>1, <2>2
<1> QED
  BY <1>3, <1>4, <1>5

LEMMA SignalOrderStep ==
    IInv /\ WithinCapacity /\ SignalOrder /\ [Next]_vars => SignalOrder'
<1> SUFFICES ASSUME IInv, WithinCapacity, SignalOrder, [Next]_vars PROVE SignalOrder'
  OBVIOUS
<1>1. cancelSent \subseteq cancelSent'
  BY CancelsStay
<1>2. ASSUME sigPending' => sigPending,
             \A c \in Calls : task'[c] # "none" => task[c] # "none"
      PROVE SignalOrder'
  BY <1>1, <1>2 DEF SignalOrder
<1>3. ASSUME NEW t \in Tags, Cancel(t) PROVE SignalOrder'
  <2>1. CASE IsAsync
    BY <1>1, <1>3, <2>1 DEF Cancel, SignalOrder
  <2>2. CASE ~IsAsync
    <3>1. ASSUME NEW c \in Calls, task[c] # "none" PROVE c \in cancelSent'
      <4>1. inFlight[TagOf[c]] = c /\ TagOf[c] \in Tags /\ c # NoCall
        BY <3>1, WorkedOnInFlight, WorkerAssumption
      <4>2. inFlight[t] # NoCall
        BY <1>3 DEF Cancel, MayCancel
      <4>3. TagOf[c] = t
        BY <2>2, <4>1, <4>2, OneInFlight
      <4> QED
        BY <1>3, <4>1, <4>3 DEF Cancel
    <3> QED
      BY <1>3, <2>2, <3>1 DEF Cancel, SignalOrder
  <2> QED
    BY <2>1, <2>2
<1>4. CASE ReadInput
  BY <1>4 DEF ReadInput, MayRead, SignalOrder
<1>5. ASSUME ChildGone PROVE SignalOrder'
  BY <1>5 DEF ChildGone, SignalOrder
<1>6. CASE ReadCancel \/ ReadShutdown
  BY <1>2, <1>6 DEF ReadCancel, ReadShutdown, Canceled, IInv, TypeOK
<1>7. ASSUME NEW c \in Calls, ChildTask(c) \/ AsyncExit(c) PROVE SignalOrder'
  <2>1. CASE SignalEscapes(c)
    BY <1>5, <2>1 DEF SignalEscapes
  <2>2. CASE ~SignalEscapes(c)
    BY <1>2, <1>7, <2>2 DEF ChildTask, StartBody, SendOutput, PredictEnds,
       ClearCancelable, SendDone, CancelEnds, SignalCancels, AsyncExit, Canceled,
       IInv, TypeOK
  <2> QED
    BY <2>1, <2>2
<1>8. CASE UNCHANGED <<task, sigPending>>
  BY <1>2, <1>8
<1> QED
  BY <1>2, <1>3, <1>4, <1>5, <1>6, <1>7, <1>8
  DEF vars, childVars, Next, Callers, Setup, Predict, Shutdown, Terminate, Starters,
      SendInput, DownloadFails, StarterPops, StarterResolves, Consume, SetupCheck,
      SetupPoll, SetupOk, SetupFailed, Check, Receive, PollTimesOut, ConsumerPops,
      ConsumerResolves, Drained, Final, FailInFlight, ConsumerKeeps, ChildLoop,
      SetupEnds, ChildExits, ChildDies, SignalIgnored

-----------------------------------------------------------------------------
(* Verdicts *)

\* A verdict is given to a prediction that runs, and says canceled only to one
\* that is being canceled.
LEMMA VerdictChanges ==
    ASSUME IInv, [Next]_vars, NEW c \in Calls
    PROVE  \/ verdict'[c] = verdict[c]
           \/ /\ task[c] # "none"
              /\ verdict'[c] = "canceled" => task[c] = "canceling" \/ sigPending
<1> USE DEF IInv, TypeOK
<1>1. CASE UNCHANGED verdict
  BY <1>1
<1>2. ASSUME NEW d \in Calls,
             \/ \E v \in {"succeeded", "failed"} : PredictEnds(d, v)
             \/ CancelEnds(d) \/ SignalCancels(d)
      PROVE  \/ verdict'[c] = verdict[c]
             \/ /\ task[c] # "none"
                /\ verdict'[c] = "canceled" => task[c] = "canceling" \/ sigPending
  BY <1>2 DEF PredictEnds, CancelEnds, SignalCancels
<1> QED
  BY <1>1, <1>2
  DEF vars, childVars, Next, Callers, Setup, Predict, Cancel, Shutdown, Terminate,
      ChildGone, Starters, SendInput, DownloadFails, StarterPops, StarterResolves,
      Consume, SetupCheck, SetupPoll, SetupOk, SetupFailed, Check, Receive, PollTimesOut,
      ConsumerPops, ConsumerResolves, Drained, Final, FailInFlight, ConsumerKeeps,
      ChildLoop, SetupEnds, ReadInput, ReadCancel, ReadShutdown, ChildExits, ChildDies,
      ChildTask, StartBody, SendOutput, ClearCancelable, SendDone, SignalIgnored,
      SignalEscapes, AsyncExit

\* A task starts being canceled when a Cancel for its tag is read, which is one for
\* this very call, or when the process is made to exit.
LEMMA CancelingStarts ==
    ASSUME IInv, CancelOrder, [Next]_vars, NEW c \in Calls, task'[c] = "canceling"
    PROVE  task[c] = "canceling" \/ MayEndCanceled(c)'
<1> USE DEF IInv, TypeOK
<1>1. CASE task'[c] = task[c] \/ ChildGone
  BY <1>1 DEF ChildGone
<1>2. CASE ReadInput
  BY <1>2 DEF ReadInput
<1>3. CASE ReadCancel
  <2>1. CASE task'[c] = task[c]
    BY <2>1
  <2>2. CASE task'[c] # task[c]
    <3>1. TagOf[c] = Head(toChild).tag /\ task[c] # "none"
      BY <1>3, <2>2 DEF ReadCancel, Canceled
    <3>2. 1 \in 1..Len(toChild) /\ toChild[1] = Head(toChild)
      BY <1>3, ChildTail DEF ReadCancel, MayRead
    <3>3. c \in cancelSent
      BY <1>3, <3>1, <3>2 DEF ReadCancel, CancelOrder
    <3> QED
      BY <3>3, CancelsStay DEF MayEndCanceled
  <2> QED
    BY <2>1, <2>2
<1>4. ASSUME NEW d \in Calls, AsyncExit(d) PROVE MayEndCanceled(c)'
  BY <1>4 DEF AsyncExit, MayEndCanceled, Quitting
<1>5. ASSUME NEW d \in Calls, ChildTask(d) PROVE task'[c] = task[c] \/ task'[c] # "canceling"
  BY <1>5 DEF ChildTask, StartBody, SendOutput, PredictEnds, ClearCancelable, SendDone,
     CancelEnds, SignalCancels, SignalEscapes, ChildGone
<1> QED
  BY <1>1, <1>2, <1>3, <1>4, <1>5
  DEF vars, childVars, Next, Callers, Setup, Predict, Cancel, Shutdown, Terminate,
      Starters, SendInput, DownloadFails, StarterPops, StarterResolves,
      Consume, SetupCheck, SetupPoll, SetupOk, SetupFailed, Check, Receive, PollTimesOut,
      ConsumerPops, ConsumerResolves, Drained, Final, FailInFlight, ConsumerKeeps,
      ChildLoop, SetupEnds, ReadShutdown, ChildExits, ChildDies, SignalIgnored

\* A thread that has sent the input of its call has nothing more to do.
LEMMA StarterDoneStays ==
    ASSUME IInv, [Next]_vars, NEW c \in Calls, starter[c] = "done"
    PROVE  starter'[c] = "done"
<1> USE DEF IInv, TypeOK
<1>1. ASSUME NEW d \in Calls, Predict(d) PROVE starter'[c] = "done"
  BY <1>1 DEF Predict, Lifecycle
<1>2. ASSUME NEW d \in Calls, Starters(d) PROVE starter'[c] = "done"
  BY <1>2 DEF Starters, SendInput, DownloadFails, StarterPops, StarterResolves
<1>3. CASE UNCHANGED starter
  BY <1>3
<1> QED
  BY <1>1, <1>2, <1>3
  DEF vars, starterVars, Next, Callers, Setup, Cancel, Shutdown, Terminate,
      Consume, SetupCheck, SetupPoll, SetupOk, SetupFailed, Check, Receive, PollTimesOut,
      ConsumerPops, ConsumerResolves, Drained, Final, FailInFlight, ConsumerKeeps,
      ChildLoop, SetupEnds, ReadInput, ReadCancel, ReadShutdown, ChildExits, ChildDies,
      ChildTask, StartBody, SendOutput, PredictEnds, ClearCancelable, SendDone,
      CancelEnds, SignalIgnored, SignalCancels, SignalEscapes, AsyncExit, ChildKeeps

LEMMA VerdictsStep ==
    IInv /\ CancelOrder /\ SignalOrder /\ Verdicts /\ [Next]_vars => Verdicts'
<1> SUFFICES ASSUME IInv, CancelOrder, SignalOrder, Verdicts, [Next]_vars, NEW c \in Calls
             PROVE  /\ task'[c] = "canceling" => MayEndCanceled(c)'
                    /\ verdict'[c] = "canceled" => MayEndCanceled(c)'
                    /\ starter'[c] # "done" => verdict'[c] = "none"
  BY DEF Verdicts, MayEndCanceled, Quitting
<1>1. MayEndCanceled(c) => MayEndCanceled(c)'
  BY CancelsStay
<1>2. task'[c] = "canceling" => MayEndCanceled(c)'
  BY <1>1, CancelingStarts DEF Verdicts
<1>3. verdict'[c] = "canceled" => MayEndCanceled(c)'
  <2>1. CASE verdict'[c] = verdict[c]
    BY <1>1, <2>1 DEF Verdicts
  <2>2. CASE task[c] # "none" /\ (task[c] = "canceling" \/ sigPending)
    BY <1>1, <2>2 DEF Verdicts, SignalOrder, MayEndCanceled
  <2> QED
    BY <2>1, <2>2, VerdictChanges
<1>4. starter'[c] # "done" => verdict'[c] = "none"
  BY VerdictChanges, StarterDoneStays, WorkedOnInFlight DEF Verdicts
<1> QED
  BY <1>2, <1>3, <1>4

-----------------------------------------------------------------------------
(* What a Done says *)

\* What may be said of a call that no longer runs does not change.
LEMMA TrueStays ==
    ASSUME IInv, [Next]_vars, NEW c \in Calls, task[c] = "none", NEW v, True(c, v)
    PROVE  True(c, v)'
<1>1. verdict'[c] = verdict[c] /\ cancelSent \subseteq cancelSent'
  BY VerdictChanges, CancelsStay
<1> QED
  BY <1>1 DEF True

\* The Done a step of the child sends is true.
LEMMA TrueSent ==
    ASSUME IInv, SignalOrder, [Next]_vars, NEW c \in Calls, ChildTask(c) \/ AsyncExit(c)
    PROVE  \/ UNCHANGED toParent
           \/ toParent' = Append(toParent, Output(c))
           \/ \E v \in Ended : toParent' = Append(toParent, Done(c, v)) /\ True(c, v)'
<1> USE DEF IInv, TypeOK
<1>1. CASE SendOutput(c)
  BY <1>1 DEF SendOutput
<1>2. ASSUME NEW v \in {"succeeded", "failed"}, PredictEnds(c, v)
      PROVE  \/ UNCHANGED toParent
             \/ toParent' = Append(toParent, Done(c, v)) /\ True(c, v)' /\ v \in Ended
  BY <1>2 DEF PredictEnds, True, Ended
<1>3. CASE SendDone(c)
  BY <1>3 DEF SendDone, EndedTasks, True
<1>4. CASE CancelEnds(c)
  BY <1>4 DEF CancelEnds, True, Ended
<1>5. CASE SignalEscapes(c)
  <2>1. c \in cancelSent'
    BY <1>5, CancelsStay DEF SignalEscapes, SignalOrder
  <2> QED
    BY <1>5, <2>1 DEF SignalEscapes, True, Ended
<1>6. CASE StartBody(c) \/ ClearCancelable(c) \/ SignalCancels(c) \/ AsyncExit(c)
  BY <1>6 DEF StartBody, ClearCancelable, SignalCancels, AsyncExit, pipeVars
<1> QED
  BY <1>1, <1>2, <1>3, <1>4, <1>5, <1>6 DEF ChildTask

QueuedTrue == \A i \in 1..Len(toParent) :
                 toParent[i].kind = "done" /\ toParent[i].of \in Calls =>
                     True(toParent[i].of, toParent[i].verdict)

LEMMA QueuedTrueStays ==
    ASSUME IInv, QueuedTrue, [Next]_vars, NEW c \in Calls, NEW v,
           NEW i \in 1..Len(toParent), toParent[i].kind = "done",
           toParent[i].of = c, toParent[i].verdict = v
    PROVE  True(c, v)'
<1>1. task[c] = "none" /\ True(c, v)
  BY DEF IInv, Lifecycle, DoneQueued, QueuedTrue
<1> QED
  BY <1>1, TrueStays

LEMMA QueuedTrueTail ==
    ASSUME IInv, QueuedTrue, [Next]_vars, toParent # <<>>, toParent' = Tail(toParent)
    PROVE  QueuedTrue'
<1> SUFFICES ASSUME NEW i \in 1..Len(toParent'), toParent'[i].kind = "done",
                    NEW c \in Calls, NEW v, toParent'[i].of = c, toParent'[i].verdict = v
             PROVE  True(c, v)'
  BY DEF QueuedTrue, True
<1>1. i + 1 \in 1..Len(toParent) /\ toParent[i + 1] = toParent'[i]
  BY ParentTail DEF IInv
<1> QED
  BY <1>1, QueuedTrueStays

LEMMA QueuedTrueAppend ==
    ASSUME IInv, QueuedTrue, [Next]_vars, NEW m \in ToParent, toParent' = Append(toParent, m),
           m.kind = "done" /\ m.of \in Calls =>
               \E c \in Calls, v \in Ended : m.of = c /\ m.verdict = v /\ True(c, v)'
    PROVE  QueuedTrue'
<1>1. /\ Len(toParent') = Len(toParent) + 1
      /\ \A i \in 1..Len(toParent) : toParent'[i] = toParent[i]
      /\ toParent'[Len(toParent) + 1] = m
      /\ Len(toParent) \in Nat
  BY DEF IInv, TypeOK
<1> SUFFICES ASSUME NEW i \in 1..Len(toParent'), toParent'[i].kind = "done",
                    NEW c \in Calls, NEW v, toParent'[i].of = c, toParent'[i].verdict = v
             PROVE  True(c, v)'
  BY DEF QueuedTrue, True
<1>2. CASE i \in 1..Len(toParent)
  BY <1>1, <1>2, QueuedTrueStays
<1>3. CASE i = Len(toParent) + 1
  BY <1>1, <1>3
<1> QED
  BY <1>1, <1>2, <1>3

LEMMA QueuedTrueStep == IInv /\ SignalOrder /\ QueuedTrue /\ [Next]_vars => QueuedTrue'
<1> SUFFICES ASSUME IInv, SignalOrder, QueuedTrue, [Next]_vars PROVE QueuedTrue'
  OBVIOUS
<1>1. CASE UNCHANGED toParent
  <2> SUFFICES ASSUME NEW i \in 1..Len(toParent), toParent[i].kind = "done",
                      NEW c \in Calls, NEW v, toParent[i].of = c, toParent[i].verdict = v
               PROVE  True(c, v)'
    BY <1>1 DEF QueuedTrue, True
  <2> QED
    BY QueuedTrueStays
<1>2. CASE SetupPoll \/ Receive
  BY <1>1, <1>2, QueuedTrueTail DEF SetupPoll, Receive
<1>3. CASE SetupEnds
  <2>1. PICK v \in Ended : toParent' = Append(toParent, SetupDone(v))
    BY <1>3 DEF SetupEnds, Ended
  <2>2. SetupDone(v) \in ToParent /\ SetupDone(v).of \notin Calls
    BY SetupDoneTyped, WorkerAssumption DEF SetupDone
  <2> QED
    BY <2>1, <2>2, QueuedTrueAppend
<1>4. ASSUME NEW c \in Calls, ChildTask(c) \/ AsyncExit(c) PROVE QueuedTrue'
  <2>1. CASE toParent' = Append(toParent, Output(c))
    <3>1. Output(c) \in ToParent /\ Output(c).kind # "done"
      BY MessageFields DEF Ended
    <3> QED
      BY <2>1, <3>1, QueuedTrueAppend
  <2>2. ASSUME NEW v \in Ended, toParent' = Append(toParent, Done(c, v)), True(c, v)'
        PROVE  QueuedTrue'
    <3>1. Done(c, v) \in ToParent /\ Done(c, v).of = c /\ Done(c, v).verdict = v
      BY MessageFields DEF Done
    <3> QED
      BY <2>2, <3>1, QueuedTrueAppend
  <2> QED
    BY <1>1, <1>4, <2>1, <2>2, TrueSent
<1> QED
  BY <1>1, <1>2, <1>3, <1>4
  DEF vars, pipeVars, Next, Callers, Setup, Predict, Cancel, Shutdown, Terminate,
      Starters, SendInput, DownloadFails, StarterPops, StarterResolves,
      Consume, SetupCheck, SetupOk, SetupFailed, Check, PollTimesOut, ConsumerPops,
      ConsumerResolves, Drained, Final, FailInFlight, ChildLoop, ReadInput,
      ReadCancel, ReadShutdown, ChildExits, ChildDies, SignalIgnored

\* The Done that the consumer holds while it completes its call is true too.
HeldTrue == /\ consumer = "pop" => True(held.of, held.verdict)
            /\ popped[Consumer] # NoCall => True(popped[Consumer], held.verdict)

LEMMA HeldTrueStep ==
    ASSUME IInv, QueuedTrue, HeldTrue, [Next]_vars
    PROVE  HeldTrue'
<1> USE WorkerAssumption
<1>1. ASSUME NEW c \in Calls, NEW v, True(c, v), Completing(c) \/ popped[Consumer] = c
      PROVE  True(c, v)'
  <2>1. task[c] = "none"
    BY <1>1 DEF IInv, Lifecycle, Owners
  <2> QED
    BY <1>1, <2>1, TrueStays
<1>2. CASE UNCHANGED <<consumer, held>> /\ popped'[Consumer] = popped[Consumer]
  <2>1. ASSUME consumer = "pop" PROVE True(held.of, held.verdict)'
    <3>1. PICK c \in Calls : c = held.of /\ Completing(c) /\ True(c, held.verdict)
      BY <2>1 DEF IInv, Phases, Completing, HeldTrue
    <3>2. True(c, held.verdict)'
      BY <1>1, <1>2, <3>1 DEF True
    <3> QED
      BY <1>2, <3>1, <3>2 DEF True
  <2>2. ASSUME popped[Consumer] # NoCall PROVE True(popped[Consumer], held.verdict)'
    <3>1. PICK c \in Calls : c = popped[Consumer] /\ True(c, held.verdict)
      BY <2>2 DEF IInv, TypeOK, Threads, HeldTrue
    <3>2. True(c, held.verdict)'
      BY <1>1, <1>2, <3>1 DEF True
    <3> QED
      BY <1>2, <3>1, <3>2 DEF True
  <2> QED
    BY <1>2, <2>1, <2>2 DEF HeldTrue
<1>3. CASE Receive
  <2>1. popped'[Consumer] = NoCall
    BY <1>3 DEF Receive, ConsumerKeeps, starterVars, IInv, Owners, TypeOK, Threads
  <2>2. CASE Head(toParent).kind = "done"
    <3>1. PICK c \in Calls : c = Head(toParent).of
      BY <1>3, ParentTail DEF Receive, IInv, Phases, MainLoop, Queues, EventQueue
    <3>2. PICK v : v = Head(toParent).verdict
      OBVIOUS
    <3>3. 1 \in 1..Len(toParent) /\ toParent[1] = Head(toParent)
      BY <1>3, ParentTail DEF Receive, IInv
    <3>4. True(c, v)'
      BY <2>2, <3>1, <3>2, <3>3, QueuedTrueStays
    <3>5. held' = Head(toParent)
      BY <1>3, <2>2 DEF Receive
    <3> QED
      BY <2>1, <3>1, <3>2, <3>4, <3>5 DEF HeldTrue, True
  <2>3. CASE Head(toParent).kind # "done"
    BY <1>3, <2>1, <2>3 DEF Receive, HeldTrue
  <2> QED
    BY <2>2, <2>3
<1>4. CASE ConsumerPops
  <2>1. PICK c \in Calls : /\ c = held.of /\ Completing(c) /\ True(c, held.verdict)
                           /\ popped'[Consumer] = c /\ consumer' = "resolve" /\ held' = held
    BY <1>4, ConsumerPopsOwn
    DEF ConsumerPops, PopInFlight, IInv, TypeOK, Threads, HeldTrue
  <2>2. True(c, held.verdict)'
    BY <1>1, <2>1, <1>4 DEF True
  <2> QED
    BY <2>1, <2>2 DEF HeldTrue, True
<1>5. CASE consumer' # "pop" /\ popped'[Consumer] = NoCall
  BY <1>5 DEF HeldTrue
<1>6. CASE ConsumerResolves
  BY <1>5, <1>6 DEF ConsumerResolves, IInv, TypeOK, Threads
<1>7. ASSUME NEW c \in Calls, Starters(c)
      PROVE  UNCHANGED <<consumer, held>> /\ popped'[Consumer] = popped[Consumer]
  BY <1>7 DEF Starters, SendInput, DownloadFails, StarterPops, StarterResolves, PopInFlight,
     consumerVars, IInv, TypeOK, Threads
<1>8. CASE SetupCheck \/ SetupPoll \/ SetupOk \/ SetupFailed \/ Check \/ PollTimesOut
           \/ Drained \/ Final \/ FailInFlight
  <2>1. popped'[Consumer] = NoCall
    BY <1>8 DEF SetupCheck, SetupPoll, SetupOk, SetupFailed, Check, PollTimesOut, Drained,
       Final, FailInFlight, ConsumerKeeps, starterVars, IInv, Owners, TypeOK, Threads
  <2>2. consumer' # "pop"
    BY <1>8 DEF SetupCheck, SetupPoll, SetupOk, SetupFailed, Check, PollTimesOut, Drained,
       Final, FailInFlight
  <2> QED
    BY <1>5, <2>1, <2>2
<1>9. CASE Setup
  BY <1>5, <1>9 DEF Setup, starterVars, IInv, Owners, Phases, TypeOK, Threads
<1> QED
  BY <1>2, <1>3, <1>4, <1>6, <1>7, <1>8, <1>9
  DEF vars, starterVars, consumerVars, Next, Callers, Predict, Cancel, Shutdown, Terminate,
      Consume, ChildLoop, SetupEnds, ReadInput, ReadCancel, ReadShutdown, ChildExits,
      ChildDies, ChildTask, StartBody, SendOutput, PredictEnds, ClearCancelable, SendDone,
      CancelEnds, SignalIgnored, SignalCancels, SignalEscapes, AsyncExit, ChildKeeps

LEMMA DonesParts == Dones <=> QueuedTrue /\ HeldTrue
  BY DEF Dones, QueuedTrue, HeldTrue

-----------------------------------------------------------------------------
(* How calls end *)

\* An event in the pipe comes from a call in flight.
LEMMA EventInFlight ==
    ASSUME IInv, NEW i \in 1..Len(toParent), NEW c \in Calls, toParent[i].of = c
    PROVE  inFlight[TagOf[c]] = c
  BY DEF IInv, Lifecycle, EventQueued

\* Subscribers are told canceled only by a Done that says so.
LEMMA SeenStep ==
    ASSUME IInv, Verdicts, Outcomes, QueuedTrue, [Next]_vars,
           NEW c \in Calls, seen'[c] = "canceled"
    PROVE  MayEndCanceled(c)'
<1> USE WorkerAssumption DEF IInv, TypeOK
<1>1. CASE seen'[c] = seen[c]
  BY <1>1, CancelsStay DEF Outcomes
<1>2. ASSUME NEW d \in Calls, DownloadFails(d) PROVE seen'[c] = seen[c]
  BY <1>2 DEF DownloadFails
<1>3. CASE Receive /\ seen'[c] # seen[c]
  <2>1. /\ Head(toParent).kind = "done" /\ Head(toParent).verdict = "canceled"
        /\ inFlight[Head(toParent).tag] = c
    BY <1>3 DEF Receive
  <2>2. consumer \in MainLoop /\ toParent # <<>> /\ toParent' = Tail(toParent)
    BY <1>3 DEF Receive, MainLoop
  <2>3. 1 \in 1..Len(toParent) /\ toParent[1] = Head(toParent)
    BY <2>2, ParentTail
  <2>4. PICK d \in Calls : d = Head(toParent).of /\ Head(toParent).tag = TagOf[d]
    BY <2>2, <2>3 DEF Phases, Queues, EventQueue
  <2>5. d = c
    <3> HIDE DEF IInv, TypeOK
    <3> QED
      BY <2>1, <2>3, <2>4, EventInFlight
  <2>6. True(c, "canceled")
    BY <2>1, <2>3, <2>4, <2>5 DEF QueuedTrue
  <2>7. MayEndCanceled(c)
    BY <2>6 DEF True, Verdicts
  <2> QED
    BY <2>7, CancelsStay
<1> QED
  BY <1>1, <1>2, <1>3
  DEF vars, parentVars, Next, Callers, Setup, Predict, Cancel, Shutdown, Terminate,
      Starters, SendInput, StarterPops, StarterResolves, Consume, SetupCheck,
      SetupPoll, SetupOk, SetupFailed, Check, PollTimesOut, ConsumerPops,
      ConsumerResolves, Drained, Final, FailInFlight, ChildLoop, ChildTask, AsyncExit,
      ChildDies, SetupEnds, ReadInput, ReadCancel, ReadShutdown, ChildExits,
      StartBody, SendOutput, PredictEnds, ClearCancelable, SendDone, CancelEnds,
      SignalIgnored, SignalCancels, SignalEscapes, ChildKeeps

\* Futures are set by the thread that popped the call, or by FailInFlight.
LEMMA FutureStep ==
    ASSUME IInv, [Next]_vars, NEW c \in Calls, future'[c] # future[c]
    PROVE  \/ future'[c] \in {"pending", "fatal"}
           \/ starter[c] = "resolve" /\ future'[c] = "failed"
           \/ popped[Consumer] = c /\ future'[c] = held.verdict
<1> USE WorkerAssumption DEF IInv, TypeOK
<1>1. ASSUME NEW d \in Calls, Predict(d) PROVE future'[c] = "pending"
  BY <1>1 DEF Predict
<1>2. ASSUME NEW d \in Calls, StarterResolves(d)
      PROVE  starter[c] = "resolve" /\ future'[c] = "failed"
  BY <1>2 DEF StarterResolves, Owners
<1>3. CASE ConsumerResolves
  BY <1>3 DEF ConsumerResolves
<1>4. CASE FailInFlight
  BY <1>4 DEF FailInFlight
<1> QED
  BY <1>1, <1>2, <1>3, <1>4
  DEF vars, parentVars, Next, Callers, Setup, Cancel, Shutdown, Terminate, Starters,
      SendInput, DownloadFails, StarterPops, Consume, SetupCheck, SetupPoll, SetupOk,
      SetupFailed, Check, Receive, PollTimesOut, ConsumerPops, Drained, Final,
      ChildLoop, ChildTask, AsyncExit, ChildDies, SetupEnds, ReadInput, ReadCancel,
      ReadShutdown, ChildExits, StartBody, SendOutput, PredictEnds, ClearCancelable,
      SendDone, CancelEnds, SignalIgnored, SignalCancels, SignalEscapes, ChildKeeps

LEMMA OutcomesStep ==
    IInv /\ Verdicts /\ Dones /\ Outcomes /\ [Next]_vars => Outcomes'
<1> SUFFICES ASSUME IInv, Verdicts, Dones, Outcomes, [Next]_vars, NEW c \in Calls
             PROVE  /\ seen'[c] = "canceled" => MayEndCanceled(c)'
                    /\ future'[c] \in Ended =>
                          True(c, future[c])' \/ (future'[c] = "failed" /\ verdict'[c] = "none")
  BY DEF Outcomes, MayEndCanceled, Quitting, True
<1>1. seen'[c] = "canceled" => MayEndCanceled(c)'
  BY SeenStep, DonesParts
<1>2. ASSUME future'[c] \in Ended
      PROVE  True(c, future[c])' \/ (future'[c] = "failed" /\ verdict'[c] = "none")
  <2>1. CASE future'[c] = future[c]
    <3>1. task[c] = "none"
      BY <1>2, <2>1, WorkerAssumption DEF IInv, Lifecycle, Owners, Ended
    <3>2. verdict'[c] = verdict[c] /\ cancelSent \subseteq cancelSent'
      BY <3>1, VerdictChanges, CancelsStay
    <3> QED
      BY <1>2, <2>1, <3>2 DEF Outcomes, True
  <2>2. CASE starter[c] = "resolve" /\ future'[c] = "failed"
    <3>1. task[c] = "none" /\ verdict[c] = "none"
      BY <2>2 DEF IInv, Lifecycle, Verdicts
    <3> QED
      BY <2>2, <3>1, VerdictChanges
  <2>3. CASE popped[Consumer] = c /\ future'[c] = held.verdict
    <3>1. task[c] = "none" /\ True(c, held.verdict)
      BY <2>3, WorkerAssumption DEF IInv, Lifecycle, Owners, Dones
    <3>2. verdict'[c] = verdict[c] /\ cancelSent \subseteq cancelSent'
      BY <3>1, VerdictChanges, CancelsStay
    <3> QED
      BY <2>3, <3>1, <3>2 DEF True
  <2> QED
    BY <1>2, <2>1, <2>2, <2>3, FutureStep DEF Ended
<1> QED
  BY <1>1, <1>2

-----------------------------------------------------------------------------
(* The invariant and what follows *)

LEMMA OutcomesInit == Init => OInv
  BY WorkerAssumption
  DEF Init, OInv, CancelOrder, SignalOrder, Verdicts, Dones, Outcomes, Threads, Ended

LEMMA OutcomesInvStep == IInv /\ WithinCapacity /\ OInv /\ [Next]_vars => OInv'
<1> SUFFICES ASSUME IInv, WithinCapacity, OInv, [Next]_vars PROVE OInv'
  OBVIOUS
<1> USE DEF OInv
<1>1. CancelOrder' /\ SignalOrder' /\ Verdicts' /\ Outcomes'
  BY CancelOrderStep, SignalOrderStep, VerdictsStep, OutcomesStep
<1>2. Dones'
  BY DonesParts, QueuedTrueStep, HeldTrueStep DEF Dones, QueuedTrue, HeldTrue
<1> QED
  BY <1>1, <1>2

\* OInv holds in every reachable state.
THEOREM WorkerOutcomesInv == Spec => []OInv
  BY OutcomesInit, OutcomesInvStep, WorkerInv, WorkerWithinCapacity, PTL DEF Spec

\* A call nobody canceled is reported to have ended the way predict ended, or as
\* failed when start_prediction could not prepare its input.
THEOREM WorkerTruthfulOutcome == Spec => []TruthfulOutcome
<1>1. OInv => TruthfulOutcome
  BY DEF OInv, Outcomes, True, Ended, TruthfulOutcome
<1> QED
  BY WorkerOutcomesInv, <1>1, PTL

\* SIGUSR1 carries no tag and a Cancel message may be late; neither makes a call
\* end as canceled for which cancel was not called, unless the process exits.
THEOREM WorkerCanceledOnRequest == Spec => []CanceledOnRequest
<1>1. OInv => CanceledOnRequest
  BY DEF OInv, Outcomes, MayEndCanceled, CanceledOnRequest
<1> QED
  BY WorkerOutcomesInv, <1>1, PTL

-----------------------------------------------------------------------------
(* Worker implements PredictionService.  Every step is one of the service or   *)
(* changes nothing that the service speaks of.                                 *)

Slots == {c \in Calls : inFlight[TagOf[c]] = c}

\* Each call that holds a slot does so under a tag of its own.
LEMMA SlotsFit ==
    ASSUME TypeOK
    PROVE  /\ IsFiniteSet(Slots)
           /\ Cardinality(Slots) \in Nat /\ Cardinality(InFlightTags) \in Nat
           /\ Cardinality(Slots) <= Cardinality(InFlightTags)
<1> DEFINE f == [c \in Slots |-> TagOf[c]]
<1>1. IsFiniteSet(InFlightTags)
  BY FS_Subset, WorkerAssumption DEF InFlightTags
<1>2. f \in [Slots -> InFlightTags]
  BY WorkerAssumption DEF Slots, InFlightTags
<1>3. \A c, d \in Slots : f[c] = f[d] => c = d
  BY DEF Slots
<1>4. f \in Injection(Slots, InFlightTags)
  BY <1>2, <1>3 DEF Injection, IsInjective
<1>5. IsFiniteSet(Slots) /\ Cardinality(Slots) <= Cardinality(InFlightTags)
  BY <1>1, <1>4, FS_Injection
<1> QED
  BY <1>1, <1>5, FS_CardinalityType

LEMMA ServiceInit == Init => Service!SInit
  BY WorkerAssumption DEF Init, Service!SInit, Quitting

LEMMA SameCardinality == ASSUME NEW S PROVE Service!Cardinality(S) = Cardinality(S)
  BY DEF Service!Cardinality, Cardinality

LEMMA AcceptStep ==
    ASSUME IInv, NEW c \in Calls, Predict(c)
    PROVE  Service!Accept(c)
<1> USE WorkerAssumption
<1>1. TypeOK
  BY DEF IInv
<1>2. Cardinality(Slots) < MaxConcurrency
  BY <1>1, SlotsFit DEF Predict, MayPredict
<1>3. \A d \in Slots : TagOf[d] # TagOf[c]
  BY DEF Predict, MayPredict, Slots
<1>4. Slots' = Slots \cup {c}
  <2>1. ASSUME NEW d \in Calls PROVE inFlight'[TagOf[d]] = d <=> inFlight[TagOf[d]] = d \/ d = c
    BY <1>1 DEF Predict, MayPredict, TypeOK
  <2> QED
    BY <2>1 DEF Slots
<1>5. /\ future[c] = "none" /\ future' = [future EXCEPT ![c] = "pending"]
      /\ UNCHANGED cancelSent /\ (Quitting' <=> Quitting)
  BY DEF Predict, childVars, Quitting
<1> QED
  BY <1>2, <1>3, <1>4, <1>5, SameCardinality DEF Service!Accept, Slots, Quitting

LEMMA RequestCancelStep ==
    ASSUME IInv, NEW t \in Tags, Cancel(t)
    PROVE  Service!RequestCancel(inFlight[t]) /\ inFlight[t] \in Calls
<1>1. inFlight[t] \in Calls /\ TagOf[inFlight[t]] = t
  BY DEF Cancel, MayCancel, IInv, TypeOK, Owners
<1> QED
  BY <1>1 DEF Cancel, MayCancel, Service!RequestCancel, Quitting

\* Popping a call frees its slot.
LEMMA ReleaseStep ==
    ASSUME IInv, NEW c \in Calls, NEW th \in Threads, PopInFlight(th, TagOf[c]),
           inFlight[TagOf[c]] = c, UNCHANGED <<future, cancelSent, child>>
    PROVE  Service!Release(c)
<1>1. \A d \in Calls : inFlight'[TagOf[d]] = d <=> inFlight[TagOf[d]] = d /\ d # c
  BY WorkerAssumption DEF PopInFlight, IInv, TypeOK
<1> QED
  BY <1>1 DEF Service!Release, Quitting

LEMMA DeliverFailedStep ==
    ASSUME IInv, NEW c \in Calls, StarterResolves(c)
    PROVE  Service!Deliver(c, "failed")
<1>1. popped[c] = c /\ future[c] = "pending" /\ inFlight[TagOf[c]] # c
  BY WorkerAssumption DEF StarterResolves, IInv, Owners
<1> QED
  BY <1>1 DEF StarterResolves, childVars, Service!Deliver, Quitting

LEMMA DeliverHeldStep ==
    ASSUME IInv, OInv, ConsumerResolves
    PROVE  \E c \in Calls, o \in Ended : Service!Deliver(c, o)
<1>1. PICK c \in Calls : c = popped[Consumer]
  BY DEF ConsumerResolves, IInv, TypeOK, Owners, Threads
<1>2. future[c] = "pending" /\ inFlight[TagOf[c]] # c
  BY <1>1 DEF IInv, Owners
<1>3. held.verdict \in Ended
  BY DEF IInv, TypeOK, ToParent
<1>4. held.verdict = "canceled" => c \in cancelSent \/ Quitting
  BY <1>1, WorkerAssumption DEF OInv, Dones, True, Verdicts, MayEndCanceled
<1>5. Service!Deliver(c, held.verdict)
  BY <1>1, <1>2, <1>4 DEF ConsumerResolves, childVars, Service!Deliver, Quitting
<1> QED
  BY <1>3, <1>5 DEF Service!Ended, Ended

\* The process is lost: every call that holds a slot fails, or there was none.
LEMMA LoseStep ==
    ASSUME IInv, FailInFlight
    PROVE  Service!Lose \/ UNCHANGED Service!svars
<1>1. /\ UNCHANGED <<cancelSent, child>> /\ Slots' = {}
      /\ future' = [c \in Calls |-> IF c \in Slots THEN "fatal" ELSE future[c]]
  BY WorkerAssumption DEF FailInFlight, ConsumerKeeps, childVars, Slots
<1>2. CASE Slots = {}
  <2>1. future' = future
    BY <1>1, <1>2 DEF IInv, TypeOK
  <2> QED
    BY <1>1, <1>2, <2>1 DEF Service!svars, Slots, Quitting
<1>3. CASE Slots # {}
  BY <1>1, <1>3 DEF Service!Lose, Slots, Quitting
<1> QED
  BY <1>2, <1>3

\* A step that touches no future, slot or request at most starts the exit.
LEMMA QuitStep ==
    ASSUME IInv, [Next]_vars, UNCHANGED <<future, inFlight, cancelSent>>
    PROVE  Service!Quit \/ UNCHANGED Service!svars
<1>1. Quitting => Quitting'
  BY CancelsStay
<1>2. CASE Quitting'
  BY <1>2 DEF Service!Quit
<1>3. CASE ~Quitting'
  <2>1. UNCHANGED Quitting
    BY <1>1, <1>3 DEF Quitting
  <2>2. UNCHANGED {c \in Calls : inFlight[TagOf[c]] = c}
    OBVIOUS
  <2> QED
    BY <2>1, <2>2 DEF Service!svars
<1> QED
  BY <1>2, <1>3

LEMMA ServiceStep == IInv /\ OInv /\ [Next]_vars => [Service!SNext]_(Service!svars)
<1> SUFFICES ASSUME IInv, OInv, [Next]_vars
             PROVE  Service!SNext \/ UNCHANGED Service!svars
  OBVIOUS
<1> USE DEF Service!SNext
<1>1. ASSUME NEW c \in Calls, Predict(c) PROVE Service!SNext
  BY <1>1, AcceptStep
<1>2. ASSUME NEW t \in Tags, Cancel(t) PROVE Service!SNext
  BY <1>2, RequestCancelStep
<1>3. ASSUME NEW c \in Calls, StarterPops(c)
      PROVE  Service!SNext \/ UNCHANGED <<future, inFlight, cancelSent>>
  <2>1. CASE inFlight[TagOf[c]] = NoCall
    BY <1>3, <2>1 DEF StarterPops
  <2>2. CASE inFlight[TagOf[c]] # NoCall
    <3>1. inFlight[TagOf[c]] = c
      BY <1>3, <2>2, StarterPopsOwn
    <3>2. PopInFlight(c, TagOf[c]) /\ UNCHANGED <<future, cancelSent, child>>
      BY <1>3, <2>2 DEF StarterPops, childVars
    <3> QED
      BY <3>1, <3>2, ReleaseStep DEF Threads
  <2> QED
    BY <2>1, <2>2
<1>4. CASE ConsumerPops
  <2>1. PICK c \in Calls : c = held.of /\ held.tag = TagOf[c] /\ inFlight[TagOf[c]] = c
    BY <1>4, ConsumerPopsOwn
  <2>2. PopInFlight(Consumer, TagOf[c]) /\ UNCHANGED <<future, cancelSent, child>>
    BY <1>4, <2>1, WorkerAssumption, ConsumerPopsOwn DEF ConsumerPops, childVars
  <2> QED
    BY <2>1, <2>2, ReleaseStep DEF Threads
<1>5. ASSUME NEW c \in Calls, StarterResolves(c) PROVE Service!SNext
  BY <1>5, DeliverFailedStep DEF Service!Ended
<1>6. CASE ConsumerResolves
  BY <1>6, DeliverHeldStep DEF Service!Ended, Ended
<1>7. CASE FailInFlight
  BY <1>7, LoseStep
<1>8. CASE UNCHANGED <<future, inFlight, cancelSent>>
  BY <1>8, QuitStep
<1> QED
  BY <1>1, <1>2, <1>3, <1>4, <1>5, <1>6, <1>7, <1>8
  DEF vars, parentVars, Next, Callers, Setup, Shutdown, Terminate, Starters, SendInput,
      DownloadFails, Consume, SetupCheck, SetupPoll, SetupOk, SetupFailed, Check, Receive,
      PollTimesOut, Drained, Final, ConsumerKeeps, ChildLoop, ChildTask, AsyncExit,
      ChildDies, SetupEnds, ReadInput, ReadCancel, ReadShutdown, ChildExits,
      StartBody, SendOutput, PredictEnds, ClearCancelable, SendDone, CancelEnds,
      SignalIgnored, SignalCancels, SignalEscapes, ChildKeeps

\* Whatever the threads, the pipe and the child do, the callers of Worker see the
\* service that PredictionService describes.
THEOREM WorkerImplementsService == Spec => ImplementsService
<1>1. Init => Service!SInit
  BY ServiceInit
<1>2. IInv /\ OInv /\ [Next]_vars => [Service!SNext]_(Service!svars)
  BY ServiceStep
<1> QED
  BY <1>1, <1>2, WorkerInv, WorkerOutcomesInv, PTL
  DEF Spec, ImplementsService, Service!SSpec

=============================================================================
