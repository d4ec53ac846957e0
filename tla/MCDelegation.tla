---------------------------- MODULE MCDelegation ----------------------------
(***************************************************************************)
(* Delegation with two calls under way and two assets.                     *)
(***************************************************************************)
EXTENDS Delegation, TLC

CONSTANTS a1, a2, c1, c2

\* Neither calls nor assets are told apart by anything but what happens to them.
Alike == Permutations({c1, c2}) \cup Permutations({a1, a2})
=============================================================================
