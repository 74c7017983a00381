--------------------------- MODULE MCApiCollector ---------------------------
(***************************************************************************)
(* Finite values for the constants of ApiCollector.                         *)
(***************************************************************************)
EXTENDS ApiCollector

MCPages == [x \in Inputs |-> IF x = 1 THEN 3 ELSE 2]
\* Chains of pages are many tasks at once: one input is enough of them.
MCMaxInputs == [m \in Modes |-> IF m = "undetermined" THEN 1 ELSE 2]
MCRequest == [x : Inputs, page : 1 .. LastPage, retry : 0 .. MaxRetry]
=============================================================================
