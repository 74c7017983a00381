-------------------------- MODULE MCCollectorState --------------------------
(***************************************************************************)
(* CollectorState for TLC: its constants are numbers.                       *)
(***************************************************************************)
EXTENDS CollectorState
=============================================================================
