------------------------- MODULE MCGraphqlCollector -------------------------
(***************************************************************************)
(* Finite values for the constants of GraphqlCollector: input 1 has a page   *)
(* without records, one that has a record twice, one with two records, which *)
(* ends the paging, and one behind it; input 2 has one page.                 *)
(***************************************************************************)
EXTENDS GraphqlCollector

CONSTANTS r1, r2, r3

MCPages == [x \in Inputs |-> IF x = 1 THEN 4 ELSE 1]
MCKey == {PageOf(1, p) : p \in 1 .. 4} \cup {PageOf(2, 1)}
MCResults == [k \in Key |->
    IF k.x = 2 THEN <<r3>> ELSE <<(<<>>), <<r1, r1>>, <<r1, r2>>, <<r3>>>>[k.page]]
MCFinal == {PageOf(1, 3)}
=============================================================================
