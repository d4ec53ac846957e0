----------------------------- MODULE MCChatTurns -----------------------------
(***************************************************************************)
(* ChatTurns with one busy session (two usable messages around an unusable *)
(* one) and a neighbour, each with transactions.                           *)
(***************************************************************************)
EXTENDS ChatTurns

CONSTANTS s1, s2, m1, m2, m3, t1, t2

OneFrom   == [m \in Msg |-> s1]
OpenerOne == [t \in Tx |-> IF t = t1 THEN m1 ELSE m3]
=============================================================================
