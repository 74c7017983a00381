-------------------------- MODULE MCPipelineService --------------------------
(***************************************************************************)
(* Finite values for the constants of PipelineService.                      *)
(***************************************************************************)
EXTENDS PipelineService, TLC

CONSTANTS g1, g2, g3, a, b

\* No action names a goroutine.
Goroutines == Permutations(Goroutine)

\* Plans: one task; two rows of one; two tasks in the first row, one in the next.
Single == {<<1, 1>>}
TwoRows == {<<1, 1>>, <<2, 1>>}
Fork == {<<1, 1>>, <<1, 2>>, <<2, 1>>}

PlanSingles == [p \in Pipeline |-> Single]
PlanRows == [p \in Pipeline |-> IF p = 1 THEN Fork ELSE TwoRows]
PlanSmall == [p \in Pipeline |-> IF p = 1 THEN TwoRows ELSE Single]

NoLabels == [p \in Pipeline |-> {}]
\* 1 and 2 share a, 2 and 3 share b, a fourth pipeline has no label.
ChainLabels ==
    [p \in Pipeline |-> CASE p = 1 -> {a} [] p = 2 -> {a, b} [] p = 3 -> {b} [] OTHER -> {}]

NoBlueprint == [p \in Pipeline |-> 0]
OneBlueprint == [p \in Pipeline |-> 1]
=============================================================================
