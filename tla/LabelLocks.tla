----------------------------- MODULE LabelLocks -----------------------------
(***************************************************************************)
(* What the pipeline queue promises to those who put "parallel/" labels on  *)
(* pipelines, without saying how: at most MaxParallel executions at a time, *)
(* and an execution starts only while no other holds one of its labels.     *)
(* PipelineService implements it.                                           *)
(***************************************************************************)
EXTENDS Naturals, FiniteSets

CONSTANTS Label, Slot, MaxParallel

VARIABLE holding    \* the labels of the execution in each slot, or Idle

Idle == "idle"

Busy == {s \in Slot : holding[s].state # Idle}

Init == holding = [s \in Slot |-> [state |-> Idle, labels |-> {}]]

Start(s, L) ==
    /\ holding[s].state = Idle
    /\ Cardinality(Busy) < MaxParallel
    /\ \A b \in Busy : holding[b].labels \cap L = {}
    /\ holding' = [holding EXCEPT ![s] = [state |-> "busy", labels |-> L]]

Finish(s) ==
    /\ holding[s].state # Idle
    /\ holding' = [holding EXCEPT ![s] = [state |-> Idle, labels |-> {}]]

\* The process that runs the executions ends, and they all end with it.
Restart == holding' = [s \in Slot |-> [state |-> Idle, labels |-> {}]]

Next ==
    \/ \E s \in Slot : Finish(s) \/ \E L \in SUBSET Label : Start(s, L)
    \/ Restart

Spec == Init /\ [][Next]_holding
=============================================================================
