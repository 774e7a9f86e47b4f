------------------------------ MODULE MCProcTree ------------------------------
(***************************************************************************)
(* TLC instance of ProcTree.                                               *)
(***************************************************************************)
EXTENDS ProcTree

=============================================================================
