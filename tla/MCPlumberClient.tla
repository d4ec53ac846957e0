---------------------------- MODULE MCPlumberClient ----------------------------
(***************************************************************************)
(* Model values for PlumberClient: three concurrent calls, enough for two  *)
(* that share a rejected bearer and a third that holds its successor.      *)
(***************************************************************************)
EXTENDS PlumberClient

CONSTANTS f1, f2, f3

=============================================================================
