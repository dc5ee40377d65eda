-------------------------- MODULE WorkerInvariant --------------------------
(***************************************************************************)
(* The inductive invariant of Worker.  It says where the one piece of work *)
(* of an accepted call is: with its start-pool thread, as an input in the  *)
(* pipe, as a task of the child, as events in the pipe, with the consumer  *)
(* that completes it, or nowhere once its future is resolved.              *)
(***************************************************************************)
EXTENDS Worker

InputQueued(c) == \E i \in 1..Len(toChild) : toChild[i].kind = "input" /\ toChild[i].of = c
EventQueued(c) == \E i \in 1..Len(toParent) : toParent[i].of = c
DoneQueued(c) == \E i \in 1..Len(toParent) : toParent[i].of = c /\ toParent[i].kind = "done"
Completing(c) == consumer = "pop" /\ held.of = c

\* The consumer is past setup.
MainLoop == {"setupOk", "check", "poll", "pop", "resolve", "drain", "final", "fail"}

\* A prediction whose predict has ended has a verdict to report.
EndedTasks == \A c \in Calls : task[c] \in {"leaving", "draining"} => verdict[c] \in Ended

\* Messages carry the tag of the call they come from.  No event of a call follows
\* its Done, and no input is sent twice.
EventQueue ==
    /\ \A i \in 1..Len(toParent) :
          \/ toParent[i].of = NoCall /\ toParent[i].kind = "done"
          \/ toParent[i].of \in Calls /\ toParent[i].tag = TagOf[toParent[i].of]
    /\ \A i, j \in 1..Len(toParent) :
          i < j /\ toParent[i].kind = "done" /\ toParent[i].of # NoCall
              => toParent[j].of # toParent[i].of

InputQueue ==
    /\ \A i \in 1..Len(toChild) : toChild[i].kind = "input" => toChild[i].of \in Calls
    /\ \A i, j \in 1..Len(toChild) :
          i < j /\ toChild[i].kind = "input" /\ toChild[j].kind = "input"
              => toChild[j].of # toChild[i].of

Queues == EventQueue /\ InputQueue

\* How far setup, the consumer and the child are.
Phases ==
    /\ state = "NEW" => consumer = "none"
    /\ consumer = "none" => child = "none"
    /\ child \in {"none", "loading"} => toParent = <<>>
    /\ child \in {"none", "dead"} => toChild = <<>> /\ \A c \in Calls : task[c] = "none"
    /\ consumer \in {"none", "setupCheck", "setupPoll", "setupFailed"} =>
          state # "READY" /\ \A c \in Calls : future[c] = "none"
    /\ consumer \in {"setupCheck", "setupPoll"} => Len(toParent) <= 1
    /\ consumer \in MainLoop => /\ child \notin {"none", "loading"}
                                /\ \A i \in 1..Len(toParent) : toParent[i].of # NoCall
    /\ consumer \in {"drain", "final", "fail"} => child = "dead"
    /\ consumer \in {"final", "fail"} => toParent = <<>>
    /\ consumer = "exited" /\ (state = "READY" \/ \E c \in Calls : future[c] # "none") =>
          child = "dead" /\ toParent = <<>>
    /\ consumer = "pop" => held.of \in Calls /\ held.tag = TagOf[held.of]
    /\ consumer = "fail" => state = "DEFUNCT"
    /\ consumer # "crashed"

\* Who is responsible for an unresolved future.
Owners ==
    /\ \A t \in Tags : inFlight[t] # NoCall =>
          /\ TagOf[inFlight[t]] = t
          /\ future[inFlight[t]] = "pending"
          /\ starter[inFlight[t]] \in {"downloading", "pop", "done"}
    /\ \A c \in Calls : popped[c] = IF starter[c] = "resolve" THEN c ELSE NoCall
    /\ (popped[Consumer] # NoCall) <=> (consumer = "resolve")
    /\ popped[Consumer] # NoCall => starter[popped[Consumer]] = "done"
    /\ \A c \in Calls : popped[c] = c \/ popped[Consumer] = c =>
          future[c] = "pending" /\ inFlight[TagOf[c]] # c
    /\ \A c \in Calls : future[c] = "pending" =>
          inFlight[TagOf[c]] = c \/ popped[c] = c \/ popped[Consumer] = c
    /\ \A c \in Calls : starter[c] \in {"downloading", "pop"} =>
          future[c] \in {"pending", "fatal"}
    /\ (\E c \in Calls : future[c] = "fatal") =>
          /\ consumer = "exited"
          /\ state = "DEFUNCT"
          /\ \A t \in Tags : inFlight[t] = NoCall

\* Where the work of a call is.
Lifecycle ==
    \A c \in Calls :
        /\ starter[c] = "none" <=> future[c] = "none"
        /\ InputQueued(c) \/ task[c] # "none" \/ EventQueued(c) \/ Completing(c) =>
              starter[c] = "done" /\ inFlight[TagOf[c]] = c
        /\ InputQueued(c) => task[c] = "none" /\ ~EventQueued(c) /\ ~Completing(c)
        /\ task[c] # "none" => ~DoneQueued(c) /\ ~Completing(c)
        /\ Completing(c) => ~EventQueued(c)

\* Who has been told how a call ended.
Reports ==
    /\ \A c \in Calls : future[c] \in Ended => seen[c] = future[c]
    /\ \A c \in Calls : Completing(c) => seen[c] = held.verdict
    /\ popped[Consumer] # NoCall => seen[popped[Consumer]] = held.verdict
    /\ \A c \in Calls : starter[c] \in {"pop", "resolve"} => seen[c] = "failed"
    /\ \A c \in Calls : starter[c] \in {"none", "downloading"} => seen[c] = "none"
    /\ \A c \in Calls : InputQueued(c) \/ task[c] # "none" \/ EventQueued(c) => seen[c] = "none"

IInv == TypeOK /\ EndedTasks /\ Queues /\ Phases /\ Owners /\ Lifecycle /\ Reports

-----------------------------------------------------------------------------
(* What the outcomes of calls come from, on top of IInv.                   *)

\* The call may end as canceled.
MayEndCanceled(c) == c \in cancelSent \/ Quitting

\* The input of c is among the first n messages to the child.
InputBefore(c, n) == \E j \in 1..n : toChild[j].kind = "input" /\ toChild[j].of = c

\* A Cancel in the pipe can reach, among the calls with its tag, only calls that
\* were canceled: the input of a later one is behind it.
CancelOrder ==
    \A i \in 1..Len(toChild) : toChild[i].kind = "cancel" =>
        \A c \in Calls :
            /\ TagOf[c] = toChild[i].tag
            /\ task[c] # "none" \/ InputBefore(c, i - 1)
            => c \in cancelSent

\* A signal that has been sent meets only the prediction it was meant for.
SignalOrder ==
    sigPending => ~IsAsync /\ \A c \in Calls : task[c] # "none" => c \in cancelSent

\* What a Done of c may say.
True(c, v) ==
    v = verdict[c] \/ (c \in cancelSent /\ v \in {"succeeded", "failed"})

Verdicts ==
    \A c \in Calls :
        /\ task[c] = "canceling" => MayEndCanceled(c)
        /\ verdict[c] = "canceled" => MayEndCanceled(c)
        /\ starter[c] # "done" => verdict[c] = "none"

Dones ==
    /\ \A i \in 1..Len(toParent) :
          toParent[i].kind = "done" /\ toParent[i].of \in Calls =>
              True(toParent[i].of, toParent[i].verdict)
    /\ consumer = "pop" => True(held.of, held.verdict)
    /\ popped[Consumer] # NoCall => True(popped[Consumer], held.verdict)

Outcomes ==
    \A c \in Calls :
        /\ seen[c] = "canceled" => MayEndCanceled(c)
        /\ future[c] \in Ended =>
              True(c, future[c]) \/ (future[c] = "failed" /\ verdict[c] = "none")

OInv == CancelOrder /\ SignalOrder /\ Verdicts /\ Dones /\ Outcomes

=============================================================================
