------------------------------ MODULE Admission ------------------------------
(***************************************************************************)
(* What the sign-in of PlexChatServer promises of each connection, without *)
(* sockets, timers, nonces and lookups.  A connection is challenged once.  *)
(* It becomes the session of one wallet, for good, if that wallet has      *)
(* signed the challenge and may come in; otherwise it is gone for good.    *)
(* Handshake implements it.                                                *)
(***************************************************************************)
CONSTANTS
  Session,
  Wallet,
  Signers,     \* Signers[s]: the wallets that sign the challenge of s when shown it
  Allowlist,
  Mode,        \* AGENT_AUTH_MODE
  FirstOwner,
  NoWallet

VARIABLES
  phase,       \* "stranger", "challenged", "member" or "gone"
  wallet,      \* the wallet a member acts for
  owners,      \* the wallets that the chain has named as owner of the asset
  verified     \* the sessions that pass for the owner's

standing == <<phase, wallet>>

AdmissionInit ==
  /\ phase = [s \in Session |-> "stranger"]
  /\ wallet = [s \in Session |-> NoWallet]
  /\ owners = {FirstOwner}
  /\ verified = {}

MayEnter(w) ==
  \/ Mode = "open"
  \/ Mode = "allowlist" /\ w \in Allowlist
  \/ w \in owners

Challenge(s) ==
  /\ phase[s] = "stranger"
  /\ phase' = [phase EXCEPT ![s] = "challenged"]
  /\ UNCHANGED <<wallet, owners, verified>>

\* Only an owner comes in with the owner's rights.
Enter(s, w) ==
  /\ phase[s] = "challenged"
  /\ w \in Signers[s]
  /\ MayEnter(w)
  /\ phase' = [phase EXCEPT ![s] = "member"]
  /\ wallet' = [wallet EXCEPT ![s] = w]
  /\ \/ verified' = verified \ {s}
     \/ w \in owners /\ verified' = verified \cup {s}
  /\ UNCHANGED owners

\* A challenge answered wrongly, or left behind: of one connection, or at a shutdown.
TurnAway(S) ==
  /\ \A s \in S : phase[s] = "challenged"
  /\ phase' = [s \in Session |-> IF s \in S THEN "gone" ELSE phase[s]]
  /\ UNCHANGED <<wallet, owners, verified>>

\* A member is found to be an owner, or not to be one.
Recheck(s) ==
  /\ phase[s] = "member"
  /\ \/ verified' = verified \ {s}
     \/ wallet[s] \in owners /\ verified' = verified \cup {s}
  /\ UNCHANGED <<standing, owners>>

Sell(w) ==
  /\ owners' = owners \cup {w}
  /\ UNCHANGED <<standing, verified>>

AdmissionNext ==
  \/ \E s \in Session :
       \/ Challenge(s)
       \/ \E w \in Wallet : Enter(s, w)
       \/ Recheck(s)
  \/ \E S \in SUBSET Session : TurnAway(S)
  \/ \E w \in Wallet : Sell(w)

AdmissionSpec == AdmissionInit /\ [][AdmissionNext]_<<standing, owners, verified>>
=============================================================================
