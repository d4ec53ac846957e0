----------------------------- MODULE MCHandshake -----------------------------
(***************************************************************************)
(* Handshake with two connections, an owner and a guest.                   *)
(***************************************************************************)
EXTENDS Handshake

CONSTANTS s1, s2, w1, w2, w3

SignersOne == [s \in Session |-> Wallet]
SignersTwo == [s \in Session |-> IF s = s1 THEN {w1, w2} ELSE {w2, w3}]
=============================================================================
