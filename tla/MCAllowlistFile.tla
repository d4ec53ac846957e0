---------------------------- MODULE MCAllowlistFile ----------------------------
(***************************************************************************)
(* Model values for AllowlistFile: two wallets the admin and the operator  *)
(* manage and one that also comes from the environment.                    *)
(***************************************************************************)
EXTENDS AllowlistFile

CONSTANTS w1, w2, w3

=============================================================================
