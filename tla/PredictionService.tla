------------------------- MODULE PredictionService -------------------------
(***************************************************************************)
(* What the model worker promises to whoever calls Worker.predict and      *)
(* Worker.cancel, without saying how.                                      *)
(*                                                                         *)
(* A call is accepted while fewer than MaxConcurrency calls hold a slot    *)
(* and no other call holds a slot under the same tag.  It gives its slot   *)
(* back before its outcome is delivered (so that the next call can be      *)
(* accepted at once), its outcome is delivered at most once and never      *)
(* changes, it is canceled only if somebody asked for that or the model    *)
(* process is about to exit, and when that process is lost every call that *)
(* holds a slot fails, all of them together.                               *)
(***************************************************************************)
EXTENDS Integers, FiniteSets

CONSTANTS Calls,           \* the calls of Worker.predict, one future each
          Tags,            \* prediction ids
          TagOf,           \* the id each call is made with
          MaxConcurrency   \* how many calls may hold a slot

VARIABLES outcome,    \* call -> "none", "pending" or how it ended
          slots,      \* the calls that hold a slot
          requested,  \* the calls somebody asked to cancel
          quitting    \* a prediction has asked the process to exit

svars == <<outcome, slots, requested, quitting>>

Ended == {"succeeded", "failed", "canceled"}

SInit == /\ outcome = [c \in Calls |-> "none"]
         /\ slots = {}
         /\ requested = {}
         /\ quitting = FALSE

Accept(c) == /\ outcome[c] = "none"
             /\ Cardinality(slots) < MaxConcurrency
             /\ \A d \in slots : TagOf[d] # TagOf[c]
             /\ outcome' = [outcome EXCEPT ![c] = "pending"]
             /\ slots' = slots \cup {c}
             /\ UNCHANGED <<requested, quitting>>

RequestCancel(c) == /\ c \in slots \ requested
                    /\ requested' = requested \cup {c}
                    /\ UNCHANGED <<outcome, slots, quitting>>

Release(c) == /\ c \in slots
              /\ slots' = slots \ {c}
              /\ UNCHANGED <<outcome, requested, quitting>>

Deliver(c, o) == /\ outcome[c] = "pending"
                 /\ c \notin slots
                 /\ o = "canceled" => c \in requested \/ quitting
                 /\ outcome' = [outcome EXCEPT ![c] = o]
                 /\ UNCHANGED <<slots, requested, quitting>>

Lose == /\ slots # {}
        /\ outcome' = [c \in Calls |-> IF c \in slots THEN "fatal" ELSE outcome[c]]
        /\ slots' = {}
        /\ UNCHANGED <<requested, quitting>>

\* Once the process is to exit, whoever still runs in it may be canceled.
Quit == /\ quitting' = TRUE
        /\ UNCHANGED <<outcome, slots, requested>>

SNext == \/ \E c \in Calls : Accept(c) \/ RequestCancel(c) \/ Release(c)
         \/ \E c \in Calls, o \in Ended : Deliver(c, o)
         \/ Lose \/ Quit

SSpec == SInit /\ [][SNext]_svars
=============================================================================
