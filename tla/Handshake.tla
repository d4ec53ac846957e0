------------------------------- MODULE Handshake -------------------------------
(***************************************************************************)
(* How a connection of PlexChatServer becomes an authenticated session:    *)
(* the sign-in challenge, its single-use nonce (nonce-store.ts), the       *)
(* handshake timer, the verification in handleAuthResponse with its wait   *)
(* for resolveOwner (owner-resolution.ts), the promotion, and the later    *)
(* re-check of ownership by requireOwner.                                  *)
(*                                                                         *)
(* An asset is registered, so the owner comes from the chain: through a    *)
(* cache with a time to live, or through one lookup that all callers       *)
(* share.  A caller that finds its answer in the cache goes on in a        *)
(* microtask: before it does, only further frames that came with the same  *)
(* chunk of its socket are handled.                                        *)
(***************************************************************************)
EXTENDS Naturals, FiniteSets

CONSTANTS
  Session,         \* connections; the nonce of a session goes by the session's name
  Wallet,
  Signers,         \* Signers[s]: the wallets that sign the challenge of s when shown it
  Allowlist,       \* AllowlistFile.current()
  Mode,            \* AGENT_AUTH_MODE
  MaxConnections,  \* MAX_CONNECTIONS
  FirstOwner,      \* the wallet that owns the asset at the start
  Boot,            \* the call of resolveOwner in PlexChatServer.start
  NoWallet         \* null

ASSUME ConstantsAssumption ==
  /\ Signers \in [Session -> SUBSET Wallet]
  /\ Allowlist \subseteq Wallet
  /\ Mode \in {"owner", "allowlist", "open"}
  /\ MaxConnections \in Nat \ {0}
  /\ FirstOwner \in Wallet
  /\ Boot \notin Session
  /\ NoWallet \notin Wallet
  /\ {"none", "waiting"} \cap (Wallet \cup {NoWallet}) = {}

VARIABLES
  ws,           \* ws[s]: readyState of the socket, "refused" over the connection limit
  registered,   \* the sessions in the server's sessions map
  stopped,      \* PlexChatServer.stopped
  wallet,       \* Session.walletAddress; not null says authStatus is 'authenticated'
  isOwner,      \* Session.isOwnerVerified
  pending,      \* the sessions that hold pendingNonce and pendingChallenge
  timer,        \* the sessions whose authTimeout is armed
  nonces,       \* the entry of a session's nonce in NonceStore
  claim,        \* the wallet whose response is awaiting resolveOwner
  answer,       \* what the call of resolveOwner has come to, "none" without a call
  cache,        \* the owner in ownerCache, null when missing or past its time to live
  inflight,     \* owners the chain had since the lookup in flight began, {} without one
  ownerWallet,  \* PlexChatServer.ownerWallet, and with it the limiter's exempt wallet
  chainOwner,   \* external: the owner of the asset on chain
  everOwner,    \* history: the wallets that have owned the asset
  failed        \* history: the sessions that were sent an auth_error

server == <<ws, registered, stopped>>
auth   == <<wallet, isOwner, pending, timer, claim, failed>>
owner  == <<answer, cache, inflight, ownerWallet>>
chain  == <<chainOwner, everOwner>>
vars   == <<server, auth, nonces, owner, chain>>

Caller == Session \cup {Boot}

TypeOK ==
  /\ ws \in [Session -> {"new", "refused", "open", "closing", "closed"}]
  /\ registered \subseteq Session
  /\ stopped \in BOOLEAN
  /\ wallet \in [Session -> Wallet \cup {NoWallet}]
  /\ isOwner \in [Session -> BOOLEAN]
  /\ pending \subseteq Session
  /\ timer \subseteq Session
  /\ nonces \in [Session -> {"none", "live", "expired"}]
  /\ claim \in [Session -> Wallet \cup {NoWallet}]
  /\ answer \in [Caller -> Wallet \cup {NoWallet, "none", "waiting"}]
  /\ cache \in Wallet \cup {NoWallet}
  /\ inflight \subseteq Wallet
  /\ ownerWallet \in Wallet \cup {NoWallet}
  /\ chainOwner \in Wallet
  /\ everOwner \subseteq Wallet
  /\ failed \subseteq Session

\* The server listens and has asked for the owner; nobody is connected.
Init ==
  /\ ws = [s \in Session |-> "new"]
  /\ registered = {}
  /\ stopped = FALSE
  /\ wallet = [s \in Session |-> NoWallet]
  /\ isOwner = [s \in Session |-> FALSE]
  /\ pending = {}
  /\ timer = {}
  /\ nonces = [s \in Session |-> "none"]
  /\ claim = [s \in Session |-> NoWallet]
  /\ answer = [c \in Caller |-> IF c = Boot THEN "waiting" ELSE "none"]
  /\ cache = NoWallet
  /\ inflight = {FirstOwner}
  /\ ownerWallet = NoWallet
  /\ chainOwner = FirstOwner
  /\ everOwner = {FirstOwner}
  /\ failed = {}

-----------------------------------------------------------------------------
(***************************************************************************)
(* resolveOwner.                                                           *)
(***************************************************************************)

\* The answer of c is there: c goes on before the event loop turns.
Ready(c) == answer[c] \notin {"none", "waiting"}

\* From the cache, from the lookup in flight, or from a new lookup.
ResolveOwner(c) ==
  /\ answer' = [answer EXCEPT ![c] = IF cache # NoWallet THEN cache ELSE "waiting"]
  /\ inflight' = IF cache = NoWallet /\ inflight = {} THEN {chainOwner} ELSE inflight
  /\ UNCHANGED <<cache, ownerWallet>>

\* The lookup answers all that wait for it; a failure answers null and is not cached.
LookupReturns ==
  /\ inflight # {}
  /\ \E v \in inflight \cup {NoWallet} :
       /\ answer' = [c \in Caller |-> IF answer[c] = "waiting" THEN v ELSE answer[c]]
       /\ cache' = IF v = NoWallet THEN cache ELSE v
  /\ inflight' = {}
  /\ UNCHANGED <<server, auth, nonces, ownerWallet, chain>>

CacheExpires ==
  /\ cache # NoWallet
  /\ cache' = NoWallet
  /\ UNCHANGED <<server, auth, nonces, answer, inflight, ownerWallet, chain>>

\* The asset is sold, to a wallet that has not had it yet (a bound).
TransferOwnership(w) ==
  /\ w \notin everOwner
  /\ chainOwner' = w
  /\ everOwner' = everOwner \cup {w}
  /\ inflight' = IF inflight = {} THEN {} ELSE inflight \cup {w}
  /\ UNCHANGED <<server, auth, nonces, answer, cache, ownerWallet>>

\* start() stores what the owner lookup at startup found.
BootAnswered ==
  /\ Ready(Boot)
  /\ ownerWallet' = answer[Boot]
  /\ answer' = [answer EXCEPT ![Boot] = "none"]
  /\ UNCHANGED <<server, auth, nonces, cache, inflight, chain>>

-----------------------------------------------------------------------------
(***************************************************************************)
(* Connections.                                                            *)
(***************************************************************************)

RefuseConnection(s) ==
  /\ ws[s] = "new"
  /\ ~stopped
  /\ Cardinality(registered) >= MaxConnections
  /\ ws' = [ws EXCEPT ![s] = "refused"]
  /\ UNCHANGED <<registered, stopped, auth, nonces, owner, chain>>

AcceptConnection(s) ==
  /\ ws[s] = "new"
  /\ ~stopped
  /\ Cardinality(registered) < MaxConnections
  /\ ws' = [ws EXCEPT ![s] = "open"]
  /\ registered' = registered \cup {s}
  /\ nonces' = [nonces EXCEPT ![s] = "live"]
  /\ pending' = pending \cup {s}
  /\ timer' = timer \cup {s}
  /\ UNCHANGED <<stopped, wallet, isOwner, claim, failed, owner, chain>>

\* FAULT: the client is told, the socket stays.
FailAuthFault(s) ==
  /\ failed' = IF ws[s] = "open" THEN failed \cup {s} ELSE failed
  /\ UNCHANGED ws

\* auth_error, then close; neither reaches a socket that is closing already.
FailAuth(s) ==
  /\ failed' = IF ws[s] = "open" THEN failed \cup {s} ELSE failed
  /\ ws' = [ws EXCEPT ![s] = IF @ = "open" THEN "closing" ELSE @]

\* FAULT: the timer is disarmed for good once it fires, and only logs.
AuthTimeoutFault(s) ==
  /\ s \in timer
  /\ timer' = timer \ {s}
  /\ UNCHANGED <<server, wallet, isOwner, pending, claim, failed, nonces, owner, chain>>

\* AUTH_HANDSHAKE_TIMEOUT_MS without an auth_response.
AuthTimeout(s) ==
  /\ s \in timer
  /\ timer' = timer \ {s}
  /\ IF wallet[s] = NoWallet THEN FailAuth(s) ELSE UNCHANGED <<ws, failed>>
  /\ UNCHANGED <<registered, stopped, wallet, isOwner, pending, claim, nonces, owner,
                 chain>>

\* Session.cleanup, as far as the handshake goes.
Cleanup(S) ==
  /\ pending' = pending \ S
  /\ timer' = timer \ S

Disconnect(s) ==
  /\ ws[s] \in {"open", "closing"}
  /\ ws' = [ws EXCEPT ![s] = "closed"]
  /\ Cleanup({s} \cap registered)
  /\ registered' = registered \ {s}
  /\ UNCHANGED <<stopped, wallet, isOwner, claim, failed, nonces, owner, chain>>

Stop ==
  /\ ~stopped
  /\ stopped' = TRUE
  /\ Cleanup(registered)
  /\ ws' = [s \in Session |-> IF s \in registered /\ ws[s] = "open"
                                THEN "closing" ELSE ws[s]]
  /\ registered' = {}
  /\ UNCHANGED <<wallet, isOwner, claim, failed, nonces, owner, chain>>

-----------------------------------------------------------------------------
(***************************************************************************)
(* The nonce store.                                                        *)
(***************************************************************************)

NonceExpires(s) ==
  /\ nonces[s] = "live"
  /\ nonces' = [nonces EXCEPT ![s] = "expired"]
  /\ UNCHANGED <<server, auth, owner, chain>>

\* FAULT: the comparison is the wrong way round.
SweepFault ==
  /\ ~stopped
  /\ \E s \in Session : nonces[s] = "live"
  /\ nonces' = [s \in Session |-> IF nonces[s] = "live" THEN "none" ELSE nonces[s]]
  /\ UNCHANGED <<server, auth, owner, chain>>

Sweep ==
  /\ ~stopped
  /\ \E s \in Session : nonces[s] = "expired"
  /\ nonces' = [s \in Session |-> IF nonces[s] = "expired" THEN "none" ELSE nonces[s]]
  /\ UNCHANGED <<server, auth, owner, chain>>

\* FAULT: consume looks the nonce up and leaves it in the store.
ConsumeFault(s) == UNCHANGED nonces

Consume(s) == nonces' = [nonces EXCEPT ![s] = "none"]

-----------------------------------------------------------------------------
(***************************************************************************)
(* Frames of a client that is not authenticated.                           *)
(***************************************************************************)

Frame(s) == ws[s] \in {"open", "closing"}

\* Not JSON, or not an auth_response: the timer keeps running.
RejectFrame(s) ==
  /\ Frame(s)
  /\ wallet[s] = NoWallet
  /\ FailAuth(s)
  /\ UNCHANGED <<registered, stopped, wallet, isOwner, pending, timer, claim, nonces,
                 owner, chain>>

\* FAULT: unless a response is being verified, the client may try again with a new
\* challenge.
RejectResponseFault(s) ==
  /\ Frame(s)
  /\ wallet[s] = NoWallet /\ claim[s] = NoWallet
  /\ timer' = timer \ {s}
  /\ FailAuth(s)
  /\ pending' = pending \cup {s}
  /\ nonces' = [nonces EXCEPT ![s] = "live"]
  /\ UNCHANGED <<registered, stopped, wallet, isOwner, claim, owner, chain>>

\* An auth_response with malformed fields, or with no nonce pending.
RejectResponse(s) ==
  /\ Frame(s)
  /\ wallet[s] = NoWallet
  /\ timer' = timer \ {s}
  /\ FailAuth(s)
  /\ UNCHANGED <<registered, stopped, wallet, isOwner, pending, claim, nonces, owner,
                 chain>>

\* The wallet signs a challenge once the server has sent it.
Signed(w, n) == ws[n] \notin {"new", "refused"} /\ w \in Signers[n]

\* FAULT: any challenge the wallet has signed will do.
VerifiedFault(s, w, n) == nonces[s] = "live" /\ Signed(w, n)

\* The nonce is good, the message is the canonical one of this session's
\* challenge, and the wallet signed it.
Verified(s, w, n) == nonces[s] = "live" /\ n = s /\ Signed(w, n)

\* An auth_response of wallet w with a message that carries the challenge of n:
\* the nonce is spent before anything is verified.
AuthResponse(s, w, n) ==
  /\ Frame(s)
  /\ wallet[s] = NoWallet
  /\ s \in pending
  /\ pending' = pending \ {s}
  /\ timer' = timer \ {s}
  /\ Consume(s)
  /\ IF Verified(s, w, n)
       THEN /\ claim' = [claim EXCEPT ![s] = w]
            /\ ResolveOwner(s)
            /\ UNCHANGED <<ws, failed>>
       ELSE /\ FailAuth(s)
            /\ UNCHANGED <<claim, owner>>
  /\ UNCHANGED <<registered, stopped, wallet, isOwner, chain>>

\* FAULT: with no owner known, everybody passes.
IsAuthorizedFault(w, o) ==
  \/ o = NoWallet
  \/ w = o
  \/ Mode = "allowlist" /\ w \in Allowlist
  \/ Mode = "open"

IsAuthorized(w, o) ==
  \/ o # NoWallet /\ w = o
  \/ Mode = "allowlist" /\ w \in Allowlist
  \/ Mode = "open"

\* handleAuthResponse goes on with the owner: promotion or auth_error.
AuthAnswered(s) ==
  LET w == claim[s]
      o == answer[s]
  IN
  /\ w # NoWallet
  /\ Ready(s)
  /\ claim' = [claim EXCEPT ![s] = NoWallet]
  /\ answer' = [answer EXCEPT ![s] = "none"]
  /\ IF IsAuthorized(w, o)
       THEN /\ wallet' = [wallet EXCEPT ![s] = w]
            /\ isOwner' = [isOwner EXCEPT ![s] = o # NoWallet /\ w = o]
            /\ ownerWallet' = o
            /\ UNCHANGED <<ws, failed>>
       ELSE /\ FailAuth(s)
            /\ UNCHANGED <<wallet, isOwner, ownerWallet>>
  /\ UNCHANGED <<registered, stopped, pending, timer, nonces, cache, inflight, chain>>

-----------------------------------------------------------------------------
(***************************************************************************)
(* Frames of an authenticated client: allowlist administration, which      *)
(* requireOwner guards (one request of a session at a time, a bound).      *)
(***************************************************************************)

AdminRequest(s) ==
  /\ Frame(s)
  /\ wallet[s] # NoWallet
  /\ answer[s] = "none"
  /\ ResolveOwner(s)
  /\ UNCHANGED <<server, auth, nonces, chain>>

AdminAnswered(s) ==
  /\ claim[s] = NoWallet
  /\ Ready(s)
  /\ isOwner' = [isOwner EXCEPT ![s] = answer[s] # NoWallet /\ wallet[s] = answer[s]]
  /\ answer' = [answer EXCEPT ![s] = "none"]
  /\ UNCHANGED <<server, wallet, pending, timer, claim, failed, nonces, cache, inflight,
                 ownerWallet, chain>>

-----------------------------------------------------------------------------

ClientFrame(s) ==
  \/ RejectFrame(s)
  \/ RejectResponse(s)
  \/ \E w \in Wallet, n \in Session : AuthResponse(s, w, n)
  \/ AdminRequest(s)

Event ==
  \/ LookupReturns
  \/ CacheExpires
  \/ \E w \in Wallet : TransferOwnership(w)
  \/ \E s \in Session :
       \/ RefuseConnection(s)
       \/ AcceptConnection(s)
       \/ AuthTimeout(s)
       \/ Disconnect(s)
       \/ NonceExpires(s)
  \/ Stop
  \/ Sweep

\* No caller but those in C is about to go on.
Quiet(C) == \A c \in Caller \ C : ~Ready(c)

Next ==
  \/ BootAnswered
  \/ \E s \in Session : AuthAnswered(s) \/ AdminAnswered(s)
  \/ \E s \in Session : Quiet({s}) /\ ClientFrame(s)
  \/ Quiet({}) /\ Event

\* Timers and intervals fire, lookups return and settled promises are acted on,
\* however busy the event loop is.  Nothing is assumed of clients.
Fairness ==
  /\ SF_vars(Quiet({}) /\ LookupReturns)
  /\ SF_vars(Quiet({}) /\ Sweep)
  /\ WF_vars(BootAnswered)
  /\ \A s \in Session :
       /\ WF_vars(AuthAnswered(s))
       /\ WF_vars(AdminAnswered(s))
       /\ SF_vars(Quiet({}) /\ AuthTimeout(s))
       /\ SF_vars(Quiet({}) /\ NonceExpires(s))

Spec == Init /\ [][Next]_vars
FairSpec == Spec /\ Fairness

-----------------------------------------------------------------------------
(***************************************************************************)
(* Properties.                                                             *)
(***************************************************************************)

\* A session acts for a wallet only if that wallet signed the challenge of this
\* very session: a signature given to another session opens nothing.
AuthenticatedBySigner ==
  \A s \in Session : {wallet[s], claim[s]} \subseteq Signers[s] \cup {NoWallet}

\* Once a response has passed verification its nonce is gone, from the session
\* and from the store: nothing is left to replay it against.
NonceSpent ==
  \A s \in Session : wallet[s] # NoWallet \/ claim[s] # NoWallet =>
    s \notin pending /\ nonces[s] = "none"

\* Whoever is in may be in: by the tier, or as an owner the chain has named.  A
\* failed lookup lets nobody in and makes nobody the owner.
Admitted ==
  \A s \in Session : wallet[s] # NoWallet =>
    /\ \/ Mode = "open"
       \/ Mode = "allowlist" /\ wallet[s] \in Allowlist
       \/ wallet[s] \in everOwner
    /\ isOwner[s] => wallet[s] \in everOwner

\* No socket stays open after an auth_error, also when one response fails while
\* another of the same session is still being verified.
FailedIsClosed == \A s \in failed : ws[s] # "open"

\* Where a connection stands: a challenge is open until its response has been
\* decided on, the wait for the owner included.
Phase(s) ==
  IF wallet[s] # NoWallet THEN "member"
  ELSE IF s \in pending \/ claim[s] # NoWallet THEN "challenged"
  ELSE IF ws[s] \in {"new", "refused"} THEN "stranger"
  ELSE "gone"

Door == INSTANCE Admission WITH
  phase <- [s \in Session |-> Phase(s)],
  owners <- everOwner,
  verified <- {s \in Session : isOwner[s]}

\* A connection gets one challenge and one decision, which nothing that is still
\* under way can reopen: a second response, the timer, a late lookup, a disconnect
\* or a shutdown.  A session never changes its wallet, and has the owner's rights
\* only for a wallet the chain has named.
ImplementsAdmission == Door!AdmissionSpec

\* A connection is authenticated or closed in the end, whatever the client sends
\* or leaves out.
HandshakeEnds ==
  \A s \in Session : ws[s] = "open" ~> (wallet[s] # NoWallet \/ ws[s] # "open")

\* The store forgets the nonce of every challenge, answered or not, until the
\* server stops.
NoncesForgotten ==
  \A s \in Session : nonces[s] # "none" ~> (nonces[s] = "none" \/ stopped)

=============================================================================
