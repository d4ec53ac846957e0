------------------------------ MODULE MCPruner ------------------------------
(***************************************************************************)
(* Pruner on the tree of this commit.  Which files the operator touches is *)
(* in the configuration; the number of runs is not bounded.                *)
(***************************************************************************)
EXTENDS Pruner
=============================================================================
