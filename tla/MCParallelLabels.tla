-------------------------- MODULE MCParallelLabels --------------------------
(***************************************************************************)
(* Finite values for the constants of ParallelLabels.                       *)
(***************************************************************************)
EXTENDS ParallelLabels

CONSTANTS p1, p2, p3, p4, p5, a, b

\* Two of each kind want one label, a fifth pipeline both.
TwoLabels ==
    [p \in Pipeline |-> CASE p \in {p1, p2} -> <<a>> [] p \in {p3, p4} -> <<b>>
                          [] OTHER -> <<b, a>>]
=============================================================================
