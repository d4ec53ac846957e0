--------------------------- MODULE MCRegistration ---------------------------
(***************************************************************************)
(* Registration with two assets, one token and two calls under way.        *)
(***************************************************************************)
EXTENDS Registration

CONSTANTS a1, a2, j1, j2, t1
=============================================================================
