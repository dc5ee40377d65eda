----------------------------- MODULE CogCommand -----------------------------
(***************************************************************************)
(* What the models of the commands of cog share: a command goes from step  *)
(* to step, and a step may fail through something outside of it.           *)
(***************************************************************************)
EXTENDS Naturals

CONSTANTS None, MaxFaults

ASSUME FaultsAssumption == MaxFaults \in Nat

VARIABLES pc,     \* the step that the command takes next
          faults  \* how many steps have failed

At(from, to) == pc = from /\ pc' = to
Fault == faults < MaxFaults /\ faults' = faults + 1
NoFault == UNCHANGED faults
=============================================================================
