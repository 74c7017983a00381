------------------------------ MODULE MCServer ------------------------------
(***************************************************************************)
(* Finite values for the constants of Server.                               *)
(***************************************************************************)
EXTENDS Server

=============================================================================
