----------------------------- MODULE Delegation -----------------------------
(***************************************************************************)
(* The tools that change who may spend from the agent's wallet on chain,   *)
(* delegate-to-nori and revoke-delegate, called by turns of several        *)
(* sessions at once, in a process whose registered asset may change        *)
(* meanwhile (AgentIdentity, which Registration implements).               *)
(*                                                                         *)
(* A call reads the chain, decides, and hands a transaction to the user's  *)
(* wallet; anything may happen between the three.  The registry program is *)
(* external: a transaction lands as a whole or not at all.                 *)
(***************************************************************************)
EXTENDS AgentIdentity

CONSTANTS
  Call,         \* tool calls that may be under way
  PlumberUrl    \* whether PLUMBER_URL is set

Executive == {"plumber", "self"}
Account == Executive \cup {"profile"}

ASSUME ConstantsAssumption ==
  /\ PlumberUrl \in BOOLEAN
  /\ {None, Down} \cap Asset = {}
  /\ None # Down

VARIABLES
  records,   \* external: <<asset, executive>> with an ExecutionDelegateRecordV1
  profile,   \* external: the agent's executive profile exists
  pc,        \* where a call is; "idle" before it and after an error
  tool,
  asset,     \* agentAssetPk
  target,    \* the executives the call is about
  unread,    \* accounts whose read has not come back
  seen,      \* accounts that were there when read
  was,       \* history: target executives whose record has been, at some moment of the
             \* call since its reads began, as the call's "ok" would have it
  severed    \* history: assets whose own executive was revoked, and not set up since

chain   == <<records, profile, severed>>
call    == <<tool, asset, target, unread, seen>>
vars    == <<registered, chain, pc, call, was>>

TypeOK ==
  /\ registered \in Asset \cup {None, Down}
  /\ records \subseteq Asset \X Executive
  /\ profile \in BOOLEAN
  /\ pc \in [Call -> {"idle", "card", "reading", "approval", "landed", "late", "ok"}]
  /\ tool \in [Call -> {"delegate", "revoke"}]
  /\ asset \in [Call -> Asset \cup {None}]
  /\ target \in [Call -> SUBSET Executive]
  /\ unread \in [Call -> SUBSET Account]
  /\ seen \in [Call -> SUBSET Account]
  /\ was \in [Call -> SUBSET Executive]
  /\ severed \subseteq Asset

Init ==
  /\ IdentityInit
  /\ records = {}
  /\ profile \in BOOLEAN
  /\ pc = [c \in Call |-> "idle"]
  /\ tool = [c \in Call |-> "delegate"]
  /\ asset = [c \in Call |-> None]
  /\ target = [c \in Call |-> {}]
  /\ unread = [c \in Call |-> {}]
  /\ seen = [c \in Call |-> {}]
  /\ was = [c \in Call |-> {}]
  /\ severed = {}

Goes(c, where) ==
  /\ pc' = [pc EXCEPT ![c] = where]
  /\ UNCHANGED call

\* The call c is about these: the state it starts from, and is left in by an error.
Holds(c, t, a, execs, accounts) ==
  /\ tool' = [tool EXCEPT ![c] = t]
  /\ asset' = [asset EXCEPT ![c] = a]
  /\ target' = [target EXCEPT ![c] = execs]
  /\ unread' = [unread EXCEPT ![c] = accounts]
  /\ seen' = [seen EXCEPT ![c] = {}]

Errs(c) ==
  /\ pc' = [pc EXCEPT ![c] = "idle"]
  /\ Holds(c, "delegate", None, {}, {})

-----------------------------------------------------------------------------
(***************************************************************************)
(* A call begins: its preconditions, and the agent card of plumber, which  *)
(* names plumber's executive.  A call that fails them leaves nothing.      *)
(***************************************************************************)

Begin(c, where) ==
  /\ pc[c] \in {"idle", "ok"}
  /\ registered \in Asset
  /\ pc' = [pc EXCEPT ![c] = where]
  /\ UNCHANGED <<registered, chain>>

\* The asset is read from the configuration once more when the card has come.
DelegateToNori(c) ==
  /\ PlumberUrl
  /\ Begin(c, "card")
  /\ Holds(c, "delegate", None, Executive, Account)

\* A target of "nori" or "plumber" is looked up, an authority given by the
\* caller is not.
RevokeDelegate(c) ==
  \/ /\ PlumberUrl
     /\ Begin(c, "card")
     /\ Holds(c, "revoke", registered, {"plumber"}, {"plumber"})
  \/ \E e \in Executive :
       /\ Begin(c, "reading")
       /\ Holds(c, "revoke", registered, {e}, {e})

CardArrives(c) ==
  /\ pc[c] = "card"
  /\ pc' = [pc EXCEPT ![c] = "reading"]
  /\ asset' = IF tool[c] = "delegate" THEN [asset EXCEPT ![c] = registered] ELSE asset
  /\ UNCHANGED <<registered, chain, tool, target, unread, seen>>

CardFails(c) ==
  /\ pc[c] = "card"
  /\ Errs(c)
  /\ UNCHANGED <<registered, chain>>

-----------------------------------------------------------------------------
(***************************************************************************)
(* The reads and the decision.                                             *)
(***************************************************************************)

Exists(c, x) == IF x = "profile" THEN profile ELSE <<asset[c], x>> \in records

\* The reads of Promise.all come back one by one, in any order.
Read(c, x) ==
  /\ pc[c] = "reading"
  /\ x \in unread[c]
  /\ unread' = [unread EXCEPT ![c] = @ \ {x}]
  /\ seen' = IF Exists(c, x) THEN [seen EXCEPT ![c] = @ \cup {x}] ELSE seen
  /\ UNCHANGED <<registered, chain, pc, tool, asset, target>>

ReadFails(c) ==
  /\ pc[c] = "reading"
  /\ unread[c] # {}
  /\ Errs(c)
  /\ UNCHANGED <<registered, chain>>

\* FAULT: one of the two records is enough.
NothingToDoEither(c) ==
  IF tool[c] = "delegate" THEN target[c] \cap seen[c] # {} ELSE target[c] \cap seen[c] = {}

NothingToDo(c) ==
  IF tool[c] = "delegate" THEN target[c] \subseteq seen[c] ELSE target[c] \cap seen[c] = {}

\* All is as asked for; or the wallet gets a transaction to approve; or there is
\* no wallet to sign one.
Decide(c) ==
  /\ pc[c] = "reading"
  /\ unread[c] = {}
  /\ IF NothingToDo(c) THEN Goes(c, "ok") ELSE Goes(c, "approval") \/ Errs(c)
  /\ UNCHANGED <<registered, chain>>

-----------------------------------------------------------------------------
(***************************************************************************)
(* submitWithUserWallet, the wallet, and the registry program.             *)
(***************************************************************************)

\* FAULT: the record of the agent's own executive is not asked for.
WritesPlumberOnly(c) ==
  {<<asset[c], e>> : e \in IF tool[c] = "delegate" THEN {"plumber"} \ seen[c] ELSE target[c]}

\* The records the transaction of a call creates or closes.
Writes(c) ==
  {<<asset[c], e>> : e \in IF tool[c] = "delegate" THEN target[c] \ seen[c] ELSE target[c]}

\* The program creates no account twice and closes none that is not there.
Accepted(c) ==
  IF tool[c] = "delegate"
    THEN /\ Writes(c) \cap records = {}
         /\ profile => "profile" \in seen[c]
    ELSE Writes(c) \subseteq records

Touched(c) == {r[1] : r \in {w \in Writes(c) : w[2] = "self"}}

\* The transaction lands, whether or not the call is still waiting for it.
Lands(c) ==
  /\ pc[c] \in {"approval", "late"}
  /\ Accepted(c)
  /\ IF tool[c] = "delegate"
       THEN /\ records' = records \cup Writes(c)
            /\ profile' = TRUE
            /\ severed' = severed \ Touched(c)
       ELSE /\ records' = records \ Writes(c)
            /\ profile' = profile
            /\ severed' = severed \cup Touched(c)
  /\ IF pc[c] = "approval" THEN Goes(c, "landed") ELSE Errs(c)
  /\ UNCHANGED registered

\* tx_result of a transaction that is confirmed.
Confirmed(c) ==
  /\ pc[c] = "landed"
  /\ Goes(c, "ok")
  /\ UNCHANGED <<registered, chain>>

\* Refused, timed out, or the client has left: the transaction may have landed,
\* may land yet ("late"), or never.
Rejected(c) ==
  /\ \/ pc[c] \in {"approval", "landed"} /\ Errs(c)
     \/ pc[c] = "approval" /\ Goes(c, "late")
  /\ UNCHANGED <<registered, chain>>

\* A transaction nobody waits for expires with its blockhash.
Expires(c) ==
  /\ pc[c] = "late"
  /\ Errs(c)
  /\ UNCHANGED <<registered, chain>>

\* The process ends, and the calls with it; a transaction in a wallet may land
\* all the same.
CallsEnd ==
  LET Keep(f, none) == [c \in Call |-> IF pc[c] \in {"approval", "late"} THEN f[c] ELSE none]
  IN /\ pc' = Keep([c \in Call |-> "late"], "idle")
     /\ tool' = Keep(tool, "delegate")
     /\ asset' = Keep(asset, None)
     /\ target' = Keep(target, {})
     /\ unread' = Keep(unread, {})
     /\ seen' = Keep(seen, {})

-----------------------------------------------------------------------------

CallStep(c) ==
  \/ DelegateToNori(c) \/ RevokeDelegate(c)
  \/ CardArrives(c) \/ CardFails(c)
  \/ \E x \in Account : Read(c, x)
  \/ ReadFails(c) \/ Decide(c)
  \/ Lands(c) \/ Confirmed(c) \/ Rejected(c) \/ Expires(c)

Step ==
  \/ (Start \/ Register) /\ UNCHANGED <<chain, pc, call>>
  \/ End /\ CallsEnd /\ UNCHANGED chain
  \/ \E c \in Call : CallStep(c)

\* The history looks on while a call reads, waits and is answered, and keeps what
\* it has seen until the call is forgotten.
AsAnswered(c) == {e \in target[c] : tool[c] = "delegate" <=> <<asset[c], e>> \in records}
Working(c) == pc[c] \in {"reading", "approval", "landed"}

Observe ==
  was' = [c \in Call |-> (IF Working(c) \/ pc'[c] = "ok" THEN was[c] ELSE {})
                            \cup (IF Working(c)' THEN AsAnswered(c)' ELSE {})]

Next == Step /\ Observe

Spec == Init /\ [][Next]_vars

-----------------------------------------------------------------------------
(***************************************************************************)
(* Properties.                                                             *)
(***************************************************************************)

\* What a tool answers was so, record by record, at some moment of the call: "ok" of
\* delegate-to-nori, that the record of plumber and the agent's own were there,
\* "ok" of revoke-delegate, that the record was gone.  A read that came back, a
\* record left out of the transaction, an asset replaced while the card was awaited
\* and a landing each contribute to it.  It is all that the code can promise: nothing
\* is read again once the wallet has been asked, so a revocation that overtakes the
\* reads leaves an "ok" that is no longer true when it is given.
AnswersHold == \A c \in Call : pc[c] = "ok" => target[c] \subseteq was[c]

\* delegate-to-nori.ts:122-131: without a record of its own executive the agent
\* cannot sign in to plumber, and plumber's record is of no use.  No interleaving
\* of calls, lost answers and crashes leaves plumber with a record and the agent
\* without one, unless the latter was revoked.
PairedDelegation ==
  \A a \in Asset :
    <<a, "plumber">> \in records => (<<a, "self">> \in records <=> a \notin severed)
=============================================================================
