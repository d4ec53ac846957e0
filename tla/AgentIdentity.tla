---------------------------- MODULE AgentIdentity ----------------------------
(***************************************************************************)
(* What the rest of the server relies on of the agent's registration: a    *)
(* running process knows one registered asset or none, may come to know    *)
(* another one at any time, and never forgets that it is registered.       *)
(* Registration implements it; Delegation is built on it.                  *)
(***************************************************************************)
CONSTANTS
  Asset,
  None,   \* not registered
  Down    \* no process

VARIABLE registered   \* config.AGENT_ASSET_ADDRESS

IdentityInit == registered = Down

Start ==
  /\ registered = Down
  /\ registered' \in Asset \cup {None}

Register ==
  /\ registered # Down
  /\ registered' \in Asset

End ==
  /\ registered # Down
  /\ registered' = Down

IdentitySpec == IdentityInit /\ [][Start \/ Register \/ End]_registered
=============================================================================
