--------------------------- MODULE Handshake_proofs ---------------------------
(***************************************************************************)
(* Proofs about Handshake, for any connections, wallets, allowlist, tier   *)
(* and connection limit.                                                   *)
(*                                                                         *)
(* The properties need two facts they do not say: a connection that was    *)
(* not accepted yet has no past (NewIsFresh), and nothing the server has   *)
(* been told, keeps or waits for names a wallet that never owned the asset *)
(* (OwnersKnown).                                                          *)
(***************************************************************************)
EXTENDS Handshake, TLAPS

NewIsFresh ==
  \A s \in Session : ws[s] = "new" =>
    wallet[s] = NoWallet /\ claim[s] = NoWallet /\ s \notin failed

OwnersKnown ==
  /\ chainOwner \in everOwner
  /\ inflight \subseteq everOwner
  /\ cache \in everOwner \cup {NoWallet}
  /\ \A c \in Caller : answer[c] \in everOwner \cup {NoWallet, "none", "waiting"}

Inv ==
  /\ TypeOK /\ AuthenticatedBySigner /\ NonceSpent /\ FailedIsClosed /\ Admitted
  /\ NewIsFresh /\ OwnersKnown

-----------------------------------------------------------------------------

LEMMA InitInv == ASSUME Init PROVE Inv
<1>1. TypeOK
  BY ConstantsAssumption DEF Init, TypeOK, Caller
<1>2. AuthenticatedBySigner /\ NonceSpent /\ FailedIsClosed /\ Admitted /\ NewIsFresh
  BY DEF Init, AuthenticatedBySigner, NonceSpent, FailedIsClosed, Admitted, NewIsFresh
<1>3. OwnersKnown
  BY DEF Init, OwnersKnown, Caller
<1>4. QED
  BY <1>1, <1>2, <1>3 DEF Inv

\* The chain, the lookup and the cache: the sessions do not notice.
LEMMA ChainInv ==
  ASSUME Inv,
         \/ LookupReturns \/ CacheExpires \/ BootAnswered
         \/ \E w \in Wallet : TransferOwnership(w)
  PROVE  Inv'
<1>1. UNCHANGED <<server, auth, nonces>>
  BY DEF LookupReturns, CacheExpires, BootAnswered, TransferOwnership
<1>2. everOwner \subseteq everOwner'
  BY DEF LookupReturns, CacheExpires, BootAnswered, TransferOwnership, chain
<1>3. TypeOK' /\ OwnersKnown'
  <2>1. CASE LookupReturns
    BY <2>1 DEF LookupReturns, Inv, TypeOK, OwnersKnown, server, auth, chain
  <2>2. CASE CacheExpires
    BY <2>2 DEF CacheExpires, Inv, TypeOK, OwnersKnown, server, auth, chain
  <2>3. CASE BootAnswered
    BY <2>3 DEF BootAnswered, Ready, Caller, Inv, TypeOK, OwnersKnown, server, auth, chain
  <2>4. ASSUME NEW w \in Wallet, TransferOwnership(w) PROVE TypeOK' /\ OwnersKnown'
    BY <2>4 DEF TransferOwnership, Inv, TypeOK, OwnersKnown, server, auth
  <2>5. QED
    BY <2>1, <2>2, <2>3, <2>4
<1>4. (AuthenticatedBySigner /\ NonceSpent /\ FailedIsClosed /\ NewIsFresh)'
  BY <1>1 DEF Inv, AuthenticatedBySigner, NonceSpent, FailedIsClosed, NewIsFresh, server, auth
<1>5. Admitted'
  BY <1>1, <1>2 DEF Inv, Admitted, auth
<1>6. QED
  BY <1>3, <1>4, <1>5 DEF Inv

\* auth_error: a session that is told so is not open any more, and one that was
\* never open is not told.
LEMMA FailAuthFact ==
  ASSUME TypeOK, FailedIsClosed, NewIsFresh, NEW s \in Session, FailAuth(s)
  PROVE  /\ ws' \in [Session -> {"new", "refused", "open", "closing", "closed"}]
         /\ failed' \subseteq Session
         /\ \A r \in Session : ws'[r] = "new" => ws[r] = "new" /\ r \notin failed'
         /\ FailedIsClosed'
BY DEF TypeOK, FailedIsClosed, NewIsFresh, FailAuth

\* A frame or a timer that ends in auth_error and promotes nobody.
LEMMA RefusalInv ==
  ASSUME Inv, NEW s \in Session, FailAuth(s) \/ UNCHANGED <<ws, failed>>,
         pending' \subseteq pending, timer' \subseteq timer,
         nonces' = nonces \/ Consume(s),
         UNCHANGED <<registered, stopped, wallet, isOwner, claim, owner, chain>>
  PROVE  Inv'
<1>1. /\ ws' \in [Session -> {"new", "refused", "open", "closing", "closed"}]
      /\ failed' \subseteq Session
      /\ \A r \in Session : ws'[r] = "new" => ws[r] = "new" /\ r \notin failed'
      /\ FailedIsClosed'
  <2>1. CASE FailAuth(s)
    BY <2>1, FailAuthFact DEF Inv
  <2>2. CASE UNCHANGED <<ws, failed>>
    BY <2>2 DEF Inv, TypeOK, NewIsFresh, FailedIsClosed
  <2>3. QED
    BY <2>1, <2>2
<1>2. nonces' \in [Session -> {"none", "live", "expired"}]
      /\ \A r \in Session : nonces[r] = "none" => nonces'[r] = "none"
  BY DEF Inv, TypeOK, Consume
<1>3. TypeOK'
  BY <1>1, <1>2 DEF Inv, TypeOK, owner, chain
<1>4. NonceSpent'
  BY <1>2 DEF Inv, NonceSpent
<1>5. NewIsFresh'
  BY <1>1 DEF Inv, NewIsFresh
<1>6. (AuthenticatedBySigner /\ Admitted /\ OwnersKnown)'
  BY DEF Inv, AuthenticatedBySigner, Admitted, OwnersKnown, owner, chain
<1>7. QED
  BY <1>1, <1>3, <1>4, <1>5, <1>6 DEF Inv

\* Sockets come and go.
LEMMA ConnectionInv ==
  ASSUME Inv,
         \/ Stop
         \/ \E s \in Session : RefuseConnection(s) \/ AcceptConnection(s) \/ Disconnect(s)
  PROVE  Inv'
<1>1. UNCHANGED <<wallet, isOwner, claim, failed, owner, chain>>
  BY DEF RefuseConnection, AcceptConnection, Disconnect, Stop, auth
<1>2. TypeOK' /\ NonceSpent'
  <2>1. ASSUME NEW s \in Session, RefuseConnection(s) PROVE TypeOK' /\ NonceSpent'
    BY <2>1 DEF RefuseConnection, Inv, TypeOK, NonceSpent, auth, owner, chain
  <2>2. ASSUME NEW s \in Session, AcceptConnection(s) PROVE TypeOK' /\ NonceSpent'
    BY <2>2 DEF AcceptConnection, Inv, TypeOK, NewIsFresh, NonceSpent, owner, chain
  <2>3. ASSUME NEW s \in Session, Disconnect(s) PROVE TypeOK' /\ NonceSpent'
    BY <2>3 DEF Disconnect, Cleanup, Inv, TypeOK, NonceSpent, owner, chain
  <2>4. CASE Stop
    BY <2>4 DEF Stop, Cleanup, Inv, TypeOK, NonceSpent, owner, chain
  <2>5. QED
    BY <2>1, <2>2, <2>3, <2>4
<1>3. \A r \in Session :
        /\ ws'[r] = "new" => ws[r] = "new"
        /\ ws'[r] = "open" => ws[r] \in {"new", "open"}
  BY DEF RefuseConnection, AcceptConnection, Disconnect, Stop, Inv, TypeOK
<1>4. FailedIsClosed' /\ NewIsFresh'
  BY <1>1, <1>3 DEF Inv, TypeOK, FailedIsClosed, NewIsFresh
<1>5. (AuthenticatedBySigner /\ Admitted /\ OwnersKnown)'
  BY <1>1 DEF Inv, AuthenticatedBySigner, Admitted, OwnersKnown, owner, chain
<1>6. QED
  BY <1>2, <1>4, <1>5 DEF Inv

\* Nonces expire and are swept; a nonce that is gone stays so.
LEMMA NonceInv ==
  ASSUME Inv, Sweep \/ \E s \in Session : NonceExpires(s)
  PROVE  Inv'
<1>1. UNCHANGED <<server, auth, owner, chain>>
  BY DEF Sweep, NonceExpires
<1>2. /\ nonces' \in [Session -> {"none", "live", "expired"}]
      /\ \A r \in Session : nonces[r] = "none" => nonces'[r] = "none"
  BY DEF Sweep, NonceExpires, Inv, TypeOK
<1>3. TypeOK'
  BY <1>1, <1>2 DEF Inv, TypeOK, server, auth, owner, chain
<1>4. NonceSpent'
  BY <1>1, <1>2 DEF Inv, NonceSpent, auth
<1>5. (AuthenticatedBySigner /\ FailedIsClosed /\ NewIsFresh)'
  BY <1>1 DEF Inv, AuthenticatedBySigner, FailedIsClosed, NewIsFresh, server, auth
<1>6. (Admitted /\ OwnersKnown)'
  BY <1>1 DEF Inv, Admitted, OwnersKnown, auth, owner, chain
<1>7. QED
  BY <1>3, <1>4, <1>5, <1>6 DEF Inv

\* What resolveOwner leaves is what the chain has said.
LEMMA ResolveOwnerFact ==
  ASSUME TypeOK, OwnersKnown, NEW c \in Caller, ResolveOwner(c), UNCHANGED chain
  PROVE  /\ OwnersKnown'
         /\ answer' \in [Caller -> Wallet \cup {NoWallet, "none", "waiting"}]
         /\ inflight' \subseteq Wallet
         /\ UNCHANGED <<cache, ownerWallet>>
BY DEF TypeOK, OwnersKnown, ResolveOwner, chain

\* A response that verifies: its nonce is spent and its wallet has signed it.
LEMMA VerifiedInv ==
  ASSUME Inv, NEW s \in Session, NEW w \in Wallet, NEW n \in Session,
         AuthResponse(s, w, n), Verified(s, w, n)
  PROVE  Inv'
<1>1. /\ Frame(s) /\ Consume(s) /\ ResolveOwner(s)
      /\ pending' = pending \ {s} /\ timer' = timer \ {s}
      /\ claim' = [claim EXCEPT ![s] = w]
      /\ UNCHANGED <<ws, failed, registered, stopped, wallet, isOwner, chain>>
  BY DEF AuthResponse
<1>2. s \in Caller
  BY DEF Caller
<1>3. /\ OwnersKnown'
      /\ answer' \in [Caller -> Wallet \cup {NoWallet, "none", "waiting"}]
      /\ inflight' \subseteq Wallet
      /\ UNCHANGED <<cache, ownerWallet>>
  BY <1>1, <1>2, ResolveOwnerFact DEF Inv
<1>4. TypeOK'
  BY <1>1, <1>3 DEF Inv, TypeOK, Consume, chain
<1>5. AuthenticatedBySigner'
  <2>1. w \in Signers[s]
    BY DEF Verified, Signed
  <2>2. QED
    BY <1>1, <2>1 DEF Inv, TypeOK, AuthenticatedBySigner
<1>6. NonceSpent'
  BY <1>1 DEF Inv, TypeOK, NonceSpent, Consume
<1>7. NewIsFresh'
  BY <1>1 DEF Inv, TypeOK, NewIsFresh, Frame
<1>8. FailedIsClosed' /\ Admitted'
  BY <1>1 DEF Inv, FailedIsClosed, Admitted, chain
<1>9. QED
  BY <1>3, <1>4, <1>5, <1>6, <1>7, <1>8 DEF Inv

LEMMA FrameInv == ASSUME Inv, NEW s \in Session, ClientFrame(s) PROVE Inv'
<1>1. CASE RejectFrame(s)
  BY <1>1, RefusalInv DEF RejectFrame
<1>2. CASE RejectResponse(s)
  <2>1. timer' \subseteq timer
    BY <1>2 DEF RejectResponse
  <2>2. QED
    BY <1>2, <2>1, RefusalInv DEF RejectResponse
<1>3. ASSUME NEW w \in Wallet, NEW n \in Session, AuthResponse(s, w, n) PROVE Inv'
  <2>1. CASE Verified(s, w, n)
    BY <1>3, <2>1, VerifiedInv
  <2>2. CASE ~Verified(s, w, n)
    <3>1. /\ pending' \subseteq pending /\ timer' \subseteq timer
          /\ FailAuth(s) /\ Consume(s)
          /\ UNCHANGED <<registered, stopped, wallet, isOwner, claim, owner, chain>>
      BY <1>3, <2>2 DEF AuthResponse
    <3>2. QED
      BY <3>1, RefusalInv
  <2>3. QED
    BY <2>1, <2>2
<1>4. CASE AdminRequest(s)
  <2>1. s \in Caller
    BY DEF Caller
  <2>2. ResolveOwner(s) /\ UNCHANGED <<server, auth, nonces, chain>>
    BY <1>4 DEF AdminRequest
  <2>3. /\ OwnersKnown'
        /\ answer' \in [Caller -> Wallet \cup {NoWallet, "none", "waiting"}]
        /\ inflight' \subseteq Wallet
        /\ UNCHANGED <<cache, ownerWallet>>
    BY <2>1, <2>2, ResolveOwnerFact DEF Inv
  <2>4. TypeOK'
    BY <2>2, <2>3 DEF Inv, TypeOK, server, auth, chain
  <2>5. (AuthenticatedBySigner /\ NonceSpent /\ FailedIsClosed /\ Admitted /\ NewIsFresh)'
    BY <2>2 DEF Inv, AuthenticatedBySigner, NonceSpent, FailedIsClosed, Admitted, NewIsFresh,
                server, auth, chain
  <2>6. QED
    BY <2>3, <2>4, <2>5 DEF Inv
<1>5. QED
  BY <1>1, <1>2, <1>3, <1>4 DEF ClientFrame

\* The owner is there: promotion, or auth_error to one who may not be in.
LEMMA AnswerInv ==
  ASSUME Inv, NEW s \in Session, AuthAnswered(s)
  PROVE  Inv'
<1> DEFINE w == claim[s]
           o == answer[s]
<1>1. /\ w # NoWallet /\ Ready(s) /\ s \in Caller
      /\ claim' = [claim EXCEPT ![s] = NoWallet]
      /\ answer' = [answer EXCEPT ![s] = "none"]
      /\ UNCHANGED <<registered, stopped, pending, timer, nonces, cache, inflight, chain>>
  BY DEF AuthAnswered, Caller
<1>2. w \in Wallet /\ w \in Signers[s] /\ ws[s] # "new" /\ s \notin pending /\ nonces[s] = "none"
  BY <1>1 DEF Inv, TypeOK, AuthenticatedBySigner, NonceSpent, NewIsFresh
<1>3. o \in everOwner \cup {NoWallet}
  BY <1>1 DEF Inv, OwnersKnown, Ready
<1>4. OwnersKnown'
  BY <1>1 DEF Inv, TypeOK, OwnersKnown, chain
<1>5. CASE IsAuthorized(w, o)
  <2>1. /\ wallet' = [wallet EXCEPT ![s] = w]
        /\ isOwner' = [isOwner EXCEPT ![s] = o # NoWallet /\ w = o]
        /\ ownerWallet' = o
        /\ UNCHANGED <<ws, failed>>
    BY <1>5 DEF AuthAnswered
  <2>2. TypeOK'
    <3>1. o \in Wallet \cup {NoWallet} /\ (o # NoWallet /\ w = o) \in BOOLEAN
      BY <1>3 DEF Inv, TypeOK
    <3>2. QED
      BY <1>1, <1>2, <2>1, <3>1 DEF Inv, TypeOK, chain
  <2>3. AuthenticatedBySigner' /\ NonceSpent' /\ NewIsFresh' /\ FailedIsClosed'
    BY <1>1, <1>2, <2>1
      DEF Inv, TypeOK, AuthenticatedBySigner, NonceSpent, NewIsFresh, FailedIsClosed
  <2>4. \/ Mode = "open"
        \/ Mode = "allowlist" /\ w \in Allowlist
        \/ w \in everOwner
    BY <1>3, <1>5 DEF IsAuthorized
  <2>5. Admitted'
    <3>1. ASSUME NEW r \in Session, r # s PROVE wallet'[r] = wallet[r] /\ isOwner'[r] = isOwner[r]
      BY <2>1, <3>1 DEF Inv, TypeOK
    <3>2. wallet'[s] = w /\ (isOwner'[s] => w \in everOwner)
      BY <1>3, <2>1 DEF Inv, TypeOK
    <3>3. QED
      BY <1>1, <2>4, <3>1, <3>2 DEF Inv, Admitted, chain
  <2>6. QED
    BY <1>4, <2>2, <2>3, <2>5 DEF Inv
<1>6. CASE ~IsAuthorized(w, o)
  <2>1. FailAuth(s) /\ UNCHANGED <<wallet, isOwner, ownerWallet>>
    BY <1>6 DEF AuthAnswered
  <2>2. /\ ws' \in [Session -> {"new", "refused", "open", "closing", "closed"}]
        /\ failed' \subseteq Session
        /\ \A r \in Session : ws'[r] = "new" => ws[r] = "new" /\ r \notin failed'
        /\ FailedIsClosed'
    BY <2>1, FailAuthFact DEF Inv
  <2>3. TypeOK'
    BY <1>1, <2>1, <2>2 DEF Inv, TypeOK, chain
  <2>4. AuthenticatedBySigner' /\ NonceSpent' /\ NewIsFresh' /\ Admitted'
    BY <1>1, <2>1, <2>2
      DEF Inv, TypeOK, AuthenticatedBySigner, NonceSpent, NewIsFresh, Admitted, chain
  <2>5. QED
    BY <1>4, <2>2, <2>3, <2>4 DEF Inv
<1>7. QED
  BY <1>5, <1>6

\* requireOwner goes on: the flag follows the answer.
LEMMA AdminInv ==
  ASSUME Inv, NEW s \in Session, AdminAnswered(s)
  PROVE  Inv'
<1>1. /\ Ready(s) /\ s \in Caller
      /\ isOwner' = [isOwner EXCEPT ![s] = answer[s] # NoWallet /\ wallet[s] = answer[s]]
      /\ answer' = [answer EXCEPT ![s] = "none"]
      /\ UNCHANGED <<server, wallet, pending, timer, claim, failed, nonces, cache, inflight,
                     ownerWallet, chain>>
  BY DEF AdminAnswered, Caller
<1>2. answer[s] \in everOwner \cup {NoWallet}
  BY <1>1 DEF Inv, OwnersKnown, Ready
<1>3. isOwner' \in [Session -> BOOLEAN]
  <2>1. (answer[s] # NoWallet /\ wallet[s] = answer[s]) \in BOOLEAN
    OBVIOUS
  <2>2. QED
    BY <1>1, <2>1 DEF Inv, TypeOK
<1>4. TypeOK' /\ OwnersKnown'
  BY <1>1, <1>3 DEF Inv, TypeOK, OwnersKnown, server, chain
<1>5. Admitted'
  <2>1. ASSUME NEW r \in Session, r # s PROVE isOwner'[r] = isOwner[r]
    BY <1>1, <2>1 DEF Inv, TypeOK
  <2>2. isOwner'[s] => wallet[s] \in everOwner
    BY <1>1, <1>2 DEF Inv, TypeOK
  <2>3. QED
    BY <1>1, <2>1, <2>2 DEF Inv, Admitted, chain
<1>6. (AuthenticatedBySigner /\ NonceSpent /\ FailedIsClosed /\ NewIsFresh)'
  BY <1>1 DEF Inv, AuthenticatedBySigner, NonceSpent, FailedIsClosed, NewIsFresh, server
<1>7. QED
  BY <1>4, <1>5, <1>6 DEF Inv

-----------------------------------------------------------------------------

LEMMA StepInv == ASSUME Inv, [Next]_vars PROVE Inv'
<1>1. CASE BootAnswered
  BY <1>1, ChainInv
<1>2. ASSUME NEW s \in Session, AuthAnswered(s) \/ AdminAnswered(s) PROVE Inv'
  BY <1>2, AnswerInv, AdminInv
<1>3. ASSUME NEW s \in Session, ClientFrame(s) PROVE Inv'
  BY <1>3, FrameInv
<1>4. CASE Event
  <2>1. CASE LookupReturns \/ CacheExpires \/ \E w \in Wallet : TransferOwnership(w)
    BY <2>1, ChainInv
  <2>2. CASE \/ Stop
             \/ \E s \in Session : RefuseConnection(s) \/ AcceptConnection(s) \/ Disconnect(s)
    BY <2>2, ConnectionInv
  <2>3. CASE Sweep \/ \E s \in Session : NonceExpires(s)
    BY <2>3, NonceInv
  <2>4. ASSUME NEW s \in Session, AuthTimeout(s) PROVE Inv'
    <3>1. /\ FailAuth(s) \/ UNCHANGED <<ws, failed>>
          /\ timer' \subseteq timer
          /\ UNCHANGED <<registered, stopped, wallet, isOwner, pending, claim, nonces, owner,
                         chain>>
      BY <2>4 DEF AuthTimeout
    <3>2. QED
      BY <3>1, RefusalInv
  <2>5. QED
    BY <1>4, <2>1, <2>2, <2>3, <2>4 DEF Event
<1>5. CASE UNCHANGED vars
  <2>1. TypeOK'
    BY <1>5 DEF Inv, TypeOK, vars, server, auth, owner, chain
  <2>2. OwnersKnown' /\ Admitted'
    BY <1>5 DEF Inv, OwnersKnown, Admitted, vars, server, auth, owner, chain
  <2>3. (AuthenticatedBySigner /\ NonceSpent /\ FailedIsClosed /\ NewIsFresh)'
    BY <1>5 DEF Inv, AuthenticatedBySigner, NonceSpent, FailedIsClosed, NewIsFresh, vars,
                server, auth
  <2>4. QED
    BY <2>1, <2>2, <2>3 DEF Inv
<1>6. QED
  BY <1>1, <1>2, <1>3, <1>4, <1>5 DEF Next

LEMMA SpecInv == Spec => []Inv
<1>1. Init => Inv
  BY InitInv
<1>2. Inv /\ [Next]_vars => Inv'
  BY StepInv
<1>3. QED
  BY <1>1, <1>2, PTL DEF Spec

-----------------------------------------------------------------------------
(***************************************************************************)
(* Admission.                                                              *)
(***************************************************************************)

\* What is under way concerns a connection that was accepted and is not yet decided on,
\* and an owner is asked for on behalf of a response or of a member.
UnderWay ==
  \A s \in Session :
    /\ claim[s] = NoWallet \/ wallet[s] = NoWallet
    /\ s \in pending \/ claim[s] # NoWallet => ws[s] \notin {"new", "refused"}
    /\ answer[s] # "none" => claim[s] # NoWallet \/ wallet[s] # NoWallet

\* Steps that decide nothing.
LEMMA AsideKeepsUnderWay ==
  ASSUME UnderWay,
         UNCHANGED <<wallet, claim>>, pending' \subseteq pending,
         \A s \in Session : /\ ws'[s] \in {"new", "refused"} <=> ws[s] \in {"new", "refused"}
                            /\ answer'[s] # "none" =>
                                 answer[s] # "none" \/ wallet[s] # NoWallet
  PROVE  UnderWay'
  BY DEF UnderWay

LEMMA FailAuthAccepted ==
  ASSUME Inv, NEW s \in Session, FailAuth(s)
  PROVE  \A r \in Session : ws'[r] \in {"new", "refused"} <=> ws[r] \in {"new", "refused"}
  BY DEF Inv, TypeOK, FailAuth

\* What every step but an accepted connection and a response leaves of the sockets.
Settling ==
  /\ \A s \in Session : ws'[s] \in {"new", "refused"} <=> ws[s] \in {"new", "refused"}
  /\ pending' \subseteq pending

Asides ==
  \/ LookupReturns \/ CacheExpires \/ BootAnswered \/ Sweep \/ Stop
  \/ \E s \in Session :
       \/ RefuseConnection(s) \/ Disconnect(s) \/ AuthTimeout(s) \/ NonceExpires(s)
       \/ RejectFrame(s) \/ RejectResponse(s) \/ AdminRequest(s)

LEMMA AsidesFact ==
  ASSUME Inv, Asides
  PROVE  /\ UNCHANGED <<wallet, isOwner, claim, everOwner>>
         /\ Settling
         /\ \A s \in Session :
              answer'[s] # "none" => answer[s] # "none" \/ wallet[s] # NoWallet
<1>1. CASE LookupReturns \/ CacheExpires \/ BootAnswered \/ Sweep
  BY <1>1 DEF LookupReturns, CacheExpires, BootAnswered, Sweep, Settling, Caller, Inv,
              TypeOK, server, auth, owner, chain
<1>2. CASE Stop
  BY <1>2 DEF Stop, Cleanup, Settling, Inv, TypeOK, owner, chain
<1>3. ASSUME NEW s \in Session, RefuseConnection(s) \/ Disconnect(s) \/ NonceExpires(s)
      PROVE  /\ UNCHANGED <<wallet, isOwner, claim, everOwner, answer>>
             /\ Settling
  BY <1>3 DEF RefuseConnection, Disconnect, NonceExpires, Cleanup, Settling, Inv, TypeOK,
              server, auth, owner, chain
<1>4. ASSUME NEW s \in Session, AuthTimeout(s) \/ RejectFrame(s) \/ RejectResponse(s)
      PROVE  /\ UNCHANGED <<wallet, isOwner, claim, everOwner, answer>>
             /\ Settling
  <2>1. /\ FailAuth(s) \/ UNCHANGED ws
        /\ UNCHANGED <<pending, wallet, isOwner, claim, owner, chain>>
    BY <1>4 DEF AuthTimeout, RejectFrame, RejectResponse
  <2> QED
    BY <2>1, FailAuthAccepted DEF Settling, owner, chain
<1>5. ASSUME NEW s \in Session, AdminRequest(s)
      PROVE  /\ UNCHANGED <<wallet, isOwner, claim, everOwner>>
             /\ Settling
             /\ \A r \in Session :
                  answer'[r] # "none" => answer[r] # "none" \/ wallet[r] # NoWallet
  BY <1>5 DEF AdminRequest, ResolveOwner, Settling, Caller, Inv, TypeOK, server, auth, chain
<1> QED
  BY <1>1, <1>2, <1>3, <1>4, <1>5 DEF Asides

\* A response whose verification failed.
LEMMA BadResponseFact ==
  ASSUME Inv, NEW s \in Session, NEW w \in Wallet, NEW n \in Session,
         AuthResponse(s, w, n), ~Verified(s, w, n)
  PROVE  UNCHANGED <<wallet, isOwner, claim, everOwner, answer>> /\ Settling
<1>1. /\ FailAuth(s) /\ pending' = pending \ {s}
      /\ UNCHANGED <<claim, owner, wallet, isOwner, chain>>
  BY DEF AuthResponse
<1> QED
  BY <1>1, FailAuthAccepted DEF Settling, owner, chain

LEMMA NextCases ==
  ASSUME Next
  PROVE  \/ Asides
         \/ \E s \in Session, w \in Wallet, n \in Session : AuthResponse(s, w, n)
         \/ \E s \in Session : AcceptConnection(s) \/ AuthAnswered(s) \/ AdminAnswered(s)
         \/ \E w \in Wallet : TransferOwnership(w)
  BY DEF Next, ClientFrame, Event, Asides

LEMMA UnderWayStep ==
  ASSUME Inv, UnderWay, [Next]_vars
  PROVE  UnderWay'
<1>1. CASE Asides
  BY <1>1, AsidesFact, AsideKeepsUnderWay DEF Settling
<1>2. ASSUME NEW s \in Session, NEW w \in Wallet, NEW n \in Session, AuthResponse(s, w, n)
      PROVE  UnderWay'
  <2>1. CASE Verified(s, w, n)
    <3>1. /\ Frame(s) /\ wallet[s] = NoWallet /\ w # NoWallet
          /\ pending' = pending \ {s} /\ claim' = [claim EXCEPT ![s] = w]
          /\ ResolveOwner(s)
          /\ UNCHANGED <<ws, wallet>>
      BY <1>2, <2>1, ConstantsAssumption DEF AuthResponse
    <3>2. \A r \in Session : r # s => answer'[r] = answer[r]
      BY <3>1 DEF ResolveOwner, Inv, TypeOK, Caller
    <3> QED
      BY <3>1, <3>2 DEF UnderWay, Inv, TypeOK, Frame
  <2>2. CASE ~Verified(s, w, n)
    BY <1>2, <2>2, BadResponseFact, AsideKeepsUnderWay DEF Settling
  <2> QED
    BY <2>1, <2>2
<1>3. ASSUME NEW s \in Session, AcceptConnection(s) PROVE UnderWay'
  BY <1>3 DEF AcceptConnection, UnderWay, Inv, TypeOK, owner
<1>4. ASSUME NEW s \in Session, AuthAnswered(s) PROVE UnderWay'
  <2>1. /\ claim' = [claim EXCEPT ![s] = NoWallet]
        /\ answer' = [answer EXCEPT ![s] = "none"]
        /\ pending' = pending /\ s \in Caller
    BY <1>4 DEF AuthAnswered, Caller
  <2>2. \A r \in Session : ws'[r] \in {"new", "refused"} <=> ws[r] \in {"new", "refused"}
    BY <1>4, FailAuthAccepted DEF AuthAnswered
  <2>3. \A r \in Session : r # s => wallet'[r] = wallet[r]
    BY <1>4 DEF AuthAnswered, Inv, TypeOK
  <2> QED
    BY <2>1, <2>2, <2>3 DEF UnderWay, Inv, TypeOK
<1>5. ASSUME NEW s \in Session, AdminAnswered(s) PROVE UnderWay'
  BY <1>5 DEF AdminAnswered, UnderWay, Inv, TypeOK, server, Caller
<1>6. ASSUME NEW w \in Wallet, TransferOwnership(w) PROVE UnderWay'
  BY <1>6 DEF TransferOwnership, UnderWay, server, auth
<1>7. CASE UNCHANGED vars
  BY <1>7 DEF vars, server, auth, owner, UnderWay
<1> QED
  BY <1>1, <1>2, <1>3, <1>4, <1>5, <1>6, <1>7, NextCases

LEMMA SpecUnderWay == Spec => []UnderWay
<1>1. Init => UnderWay
  BY ConstantsAssumption DEF Init, UnderWay, Caller
<1>2. Inv /\ UnderWay /\ [Next]_vars => UnderWay'
  BY UnderWayStep
<1> QED
  BY <1>1, <1>2, SpecInv, PTL DEF Spec

\* The variables of Admission, as Handshake has them.
Phases == [s \in Session |-> Phase(s)]
Verifieds == {s \in Session : isOwner[s]}

\* The steps that decide nothing, and those that turn connections away.
LEMMA AsideRefines ==
  ASSUME UnderWay, UNCHANGED <<wallet, isOwner, claim, everOwner>>, Settling
  PROVE  \E S \in SUBSET Session : Door!TurnAway(S)
<1> DEFINE S == {s \in Session : s \in pending /\ Phase(s)' # Phase(s)}
<1>1. \A s \in S : Phase(s) = "challenged"
  BY DEF Phase
<1>2. ASSUME NEW s \in Session
      PROVE  Phase(s)' = IF s \in S THEN "gone" ELSE Phase(s)
  BY DEF Phase, Settling, UnderWay
<1> HIDE DEF S
<1>3. /\ Phases' = [s \in Session |-> IF s \in S THEN "gone" ELSE Phases[s]]
      /\ \A s \in S : Phases[s] = "challenged"
      /\ S \in SUBSET Session
  BY <1>1, <1>2 DEF Phases, S
<1>4. Verifieds' = Verifieds
  BY DEF Verifieds
<1> QED
  BY <1>3, <1>4 DEF Door!TurnAway, Phases, Verifieds

\* A response that verifies leaves the challenge open until the owner is known.
LEMMA VerifiedStutters ==
  ASSUME Inv, NEW s \in Session, NEW w \in Wallet, NEW n \in Session,
         AuthResponse(s, w, n), Verified(s, w, n)
  PROVE  UNCHANGED <<Phases, wallet, everOwner, Verifieds>>
<1>1. /\ s \in pending /\ w # NoWallet
      /\ pending' = pending \ {s} /\ claim' = [claim EXCEPT ![s] = w]
      /\ UNCHANGED <<ws, wallet, isOwner, everOwner>>
  BY ConstantsAssumption DEF AuthResponse, chain
<1>2. ASSUME NEW r \in Session PROVE Phase(r)' = Phase(r)
  BY <1>1 DEF Phase, Inv, TypeOK
<1> QED
  BY <1>1, <1>2 DEF Phases, Verifieds

LEMMA AcceptRefines ==
  ASSUME Inv, UnderWay, NEW s \in Session, AcceptConnection(s)
  PROVE  Door!Challenge(s)
<1>1. /\ ws[s] = "new" /\ ws' = [ws EXCEPT ![s] = "open"] /\ pending' = pending \cup {s}
      /\ UNCHANGED <<wallet, isOwner, claim, everOwner>>
  BY DEF AcceptConnection, chain
<1>2. Phase(s) = "stranger" /\ Phase(s)' = "challenged"
  BY <1>1 DEF Phase, Inv, NewIsFresh, UnderWay
<1>3. ASSUME NEW r \in Session, r # s PROVE Phase(r)' = Phase(r)
  BY <1>1, <1>3 DEF Phase, Inv, TypeOK
<1>4. Phases' = [Phases EXCEPT ![s] = "challenged"] /\ Phases[s] = "stranger"
  BY <1>2, <1>3 DEF Phases
<1> QED
  BY <1>1, <1>4 DEF Door!Challenge, Phases, Verifieds

\* The decision: in, or turned away.
LEMMA AnswerRefines ==
  ASSUME Inv, UnderWay, NEW s \in Session, AuthAnswered(s)
  PROVE  (\E w \in Wallet : Door!Enter(s, w)) \/ Door!TurnAway({s})
<1> DEFINE w == claim[s]
           o == answer[s]
<1>1. /\ w # NoWallet /\ Ready(s) /\ s \in Caller
      /\ claim' = [claim EXCEPT ![s] = NoWallet]
      /\ UNCHANGED <<pending, everOwner>>
  BY DEF AuthAnswered, Caller, chain
<1>2. /\ w \in Wallet /\ w \in Signers[s] /\ wallet[s] = NoWallet
      /\ s \notin pending /\ ws[s] \notin {"new", "refused"}
  BY <1>1 DEF Inv, TypeOK, AuthenticatedBySigner, NonceSpent, UnderWay
<1>3. o \in everOwner \cup {NoWallet}
  BY <1>1 DEF Inv, OwnersKnown, Ready
<1>4. Phases[s] = "challenged"
  BY <1>1, <1>2 DEF Phases, Phase
<1>5. CASE IsAuthorized(w, o)
  <2>1. /\ wallet' = [wallet EXCEPT ![s] = w]
        /\ isOwner' = [isOwner EXCEPT ![s] = o # NoWallet /\ w = o]
        /\ ws' = ws
    BY <1>5 DEF AuthAnswered
  <2>2. Door!MayEnter(w)
    BY <1>3, <1>5 DEF IsAuthorized, Door!MayEnter
  <2>3. Phases' = [Phases EXCEPT ![s] = "member"]
    <3>1. Phase(s)' = "member"
      BY <1>1, <1>2, <2>1 DEF Phase, Inv, TypeOK
    <3>2. ASSUME NEW r \in Session, r # s PROVE Phase(r)' = Phase(r)
      BY <1>1, <2>1, <3>2 DEF Phase, Inv, TypeOK
    <3> QED
      BY <3>1, <3>2 DEF Phases
  <2>4. \/ Verifieds' = Verifieds \ {s}
        \/ w \in everOwner /\ Verifieds' = Verifieds \cup {s}
    <3>1. ASSUME NEW r \in Session, r # s PROVE isOwner'[r] = isOwner[r]
      BY <2>1, <3>1 DEF Inv, TypeOK
    <3>2. CASE o # NoWallet /\ w = o
      <4>1. isOwner'[s] /\ w \in everOwner
        BY <1>3, <2>1, <3>2 DEF Inv, TypeOK
      <4> QED
        BY <3>1, <4>1 DEF Verifieds
    <3>3. CASE ~(o # NoWallet /\ w = o)
      <4>1. ~isOwner'[s]
        BY <2>1, <3>3 DEF Inv, TypeOK
      <4> QED
        BY <3>1, <4>1 DEF Verifieds
    <3> QED
      BY <3>2, <3>3
  <2>5. PICK v \in Wallet : v = w
    BY <1>2
  <2>6. Door!Enter(s, v)
    BY <1>1, <1>2, <1>4, <2>1, <2>2, <2>3, <2>4, <2>5
      DEF Door!Enter, Door!MayEnter, Phases, Verifieds
  <2> QED
    BY <2>6
<1>6. CASE ~IsAuthorized(w, o)
  <2>1. FailAuth(s) /\ UNCHANGED <<wallet, isOwner>>
    BY <1>6 DEF AuthAnswered
  <2>2. \A r \in Session : ws'[r] \in {"new", "refused"} <=> ws[r] \in {"new", "refused"}
    BY <2>1, FailAuthAccepted
  <2>3. Phase(s)' = "gone"
    BY <1>1, <1>2, <2>1, <2>2 DEF Phase, Inv, TypeOK
  <2>4. ASSUME NEW r \in Session, r # s PROVE Phase(r)' = Phase(r)
    BY <1>1, <2>1, <2>2, <2>4 DEF Phase, Inv, TypeOK
  <2>5. Phases' = [r \in Session |-> IF r \in {s} THEN "gone" ELSE Phases[r]]
    BY <2>3, <2>4 DEF Phases
  <2>6. Door!TurnAway({s})
    BY <1>1, <1>4, <2>1, <2>5 DEF Door!TurnAway, Phases, Verifieds
  <2> QED
    BY <2>6
<1> QED
  BY <1>5, <1>6

LEMMA AdminRefines ==
  ASSUME Inv, UnderWay, NEW s \in Session, AdminAnswered(s)
  PROVE  Door!Recheck(s)
<1>1. /\ claim[s] = NoWallet /\ Ready(s) /\ s \in Caller
      /\ isOwner' = [isOwner EXCEPT ![s] = answer[s] # NoWallet /\ wallet[s] = answer[s]]
      /\ UNCHANGED <<ws, wallet, pending, claim, everOwner>>
  BY DEF AdminAnswered, Caller, server, chain
<1>2. Phases[s] = "member"
  BY <1>1 DEF UnderWay, Ready, Phases, Phase
<1>3. UNCHANGED Phases
  BY <1>1 DEF Phases, Phase
<1>4. answer[s] \in everOwner \cup {NoWallet}
  BY <1>1 DEF Inv, OwnersKnown, Ready
<1>5. \/ Verifieds' = Verifieds \ {s}
      \/ wallet[s] \in everOwner /\ Verifieds' = Verifieds \cup {s}
  <2>1. ASSUME NEW r \in Session, r # s PROVE isOwner'[r] = isOwner[r]
    BY <1>1, <2>1 DEF Inv, TypeOK
  <2>2. CASE answer[s] # NoWallet /\ wallet[s] = answer[s]
    <3>1. isOwner'[s] /\ wallet[s] \in everOwner
      BY <1>1, <1>4, <2>2 DEF Inv, TypeOK
    <3> QED
      BY <2>1, <3>1 DEF Verifieds
  <2>3. CASE ~(answer[s] # NoWallet /\ wallet[s] = answer[s])
    <3>1. ~isOwner'[s]
      BY <1>1, <2>3 DEF Inv, TypeOK
    <3> QED
      BY <2>1, <3>1 DEF Verifieds
  <2> QED
    BY <2>2, <2>3
<1> QED
  BY <1>1, <1>2, <1>3, <1>5 DEF Door!Recheck, Door!standing, Phases, Verifieds

LEMMA SaleRefines ==
  ASSUME NEW w \in Wallet, TransferOwnership(w)
  PROVE  Door!Sell(w)
<1>1. /\ everOwner' = everOwner \cup {w}
      /\ UNCHANGED <<ws, wallet, isOwner, pending, claim>>
  BY DEF TransferOwnership, server, auth
<1>2. UNCHANGED Phases
  BY <1>1 DEF Phases, Phase
<1> QED
  BY <1>1, <1>2 DEF Door!Sell, Door!standing, Phases, Verifieds

LEMMA StepRefines ==
  ASSUME Inv, UnderWay, [Next]_vars
  PROVE  Door!AdmissionNext \/ UNCHANGED <<Phases, wallet, everOwner, Verifieds>>
<1>1. CASE Asides
  <2>1. \E S \in SUBSET Session : Door!TurnAway(S)
    BY <1>1, AsidesFact, AsideRefines
  <2> QED
    BY <2>1 DEF Door!AdmissionNext
<1>2. ASSUME NEW s \in Session, NEW w \in Wallet, NEW n \in Session, AuthResponse(s, w, n)
      PROVE  Door!AdmissionNext \/ UNCHANGED <<Phases, wallet, everOwner, Verifieds>>
  <2>1. CASE Verified(s, w, n)
    BY <1>2, <2>1, VerifiedStutters
  <2>2. CASE ~Verified(s, w, n)
    <3>1. \E S \in SUBSET Session : Door!TurnAway(S)
      BY <1>2, <2>2, BadResponseFact, AsideRefines
    <3> QED
      BY <3>1 DEF Door!AdmissionNext
  <2> QED
    BY <2>1, <2>2
<1>3. ASSUME NEW s \in Session, AcceptConnection(s) PROVE Door!AdmissionNext
  BY <1>3, AcceptRefines DEF Door!AdmissionNext
<1>4. ASSUME NEW s \in Session, AuthAnswered(s) PROVE Door!AdmissionNext
  <2>1. {s} \in SUBSET Session
    OBVIOUS
  <2> QED
    BY <1>4, <2>1, AnswerRefines DEF Door!AdmissionNext
<1>5. ASSUME NEW s \in Session, AdminAnswered(s) PROVE Door!AdmissionNext
  BY <1>5, AdminRefines DEF Door!AdmissionNext
<1>6. ASSUME NEW w \in Wallet, TransferOwnership(w) PROVE Door!AdmissionNext
  BY <1>6, SaleRefines DEF Door!AdmissionNext
<1>7. CASE UNCHANGED vars
  BY <1>7 DEF vars, server, auth, chain, Phases, Phase, Verifieds
<1> QED
  BY <1>1, <1>2, <1>3, <1>4, <1>5, <1>6, <1>7, NextCases

-----------------------------------------------------------------------------

\* Every variable has its type.
THEOREM TypeCorrect == Spec => []TypeOK
<1>1. Inv => TypeOK
  BY DEF Inv
<1>2. QED
  BY <1>1, SpecInv, PTL

\* handleAuthResponse verifies a signature over the challenge of its own session:
\* nobody is promoted, or on the way to it, who has not signed that challenge.
THEOREM SignersOnly == Spec => []AuthenticatedBySigner
<1>1. Inv => AuthenticatedBySigner
  BY DEF Inv
<1>2. QED
  BY <1>1, SpecInv, PTL

\* consume and the clearing of the pending challenge come before verification: a
\* response that has passed it leaves nothing to replay it against.
THEOREM NonceUsedOnce == Spec => []NonceSpent
<1>1. Inv => NonceSpent
  BY DEF Inv
<1>2. QED
  BY <1>1, SpecInv, PTL

\* The tier check decides on an owner the chain has named, or on none, however
\* lookups, cache and sales of the asset interleave with the await.
THEOREM OnlyAdmitted == Spec => []Admitted
<1>1. Inv => Admitted
  BY DEF Inv
<1>2. QED
  BY <1>1, SpecInv, PTL

\* failAuth closes what it has told of the failure, and no later step of another
\* response of the session opens it again.
THEOREM FailureCloses == Spec => []FailedIsClosed
<1>1. Inv => FailedIsClosed
  BY DEF Inv
<1>2. QED
  BY <1>1, SpecInv, PTL

\* Handshake implements Admission: one challenge and one decision for each connection,
\* for good, whatever responses, lookups, timers, disconnects and shutdowns interleave
\* with the wait for the owner.
THEOREM Refinement == Spec => ImplementsAdmission
<1>1. Init => Door!AdmissionInit
  <2> SUFFICES ASSUME Init
               PROVE  Door!AdmissionInit
    OBVIOUS
  <2>1. Phases = [s \in Session |-> "stranger"]
    BY DEF Init, Phases, Phase
  <2>2. Verifieds = {}
    BY DEF Init, Verifieds
  <2> QED
    BY <2>1, <2>2 DEF Init, Door!AdmissionInit, Phases, Verifieds
<1>2. Inv /\ UnderWay /\ [Next]_vars
        => [Door!AdmissionNext]_<<Door!standing, everOwner, Verifieds>>
  BY StepRefines DEF Door!standing, Phases, Verifieds
<1> QED
  BY <1>1, <1>2, SpecInv, SpecUnderWay, PTL
    DEF Spec, ImplementsAdmission, Door!AdmissionSpec, Verifieds

-----------------------------------------------------------------------------
(***************************************************************************)
(* Nobody is left waiting.                                                 *)
(***************************************************************************)

\* A connection that is neither authenticated nor closed has its handshake timer
\* running or a response that waits for the owner; and whoever waits for the owner
\* waits for a lookup that has been made and not come back.
Attended ==
  /\ \A s \in Session : ws[s] = "open" /\ wallet[s] = NoWallet =>
       s \in timer \/ claim[s] # NoWallet
  /\ \A s \in Session : claim[s] # NoWallet => answer[s] # "none"
  /\ \A c \in Caller : answer[c] = "waiting" => inflight # {}

\* Steps that leave the calls alone, and the timers of the connections that stay open.
LEMMA IdleAttended ==
  ASSUME Attended, UNCHANGED <<wallet, claim, answer, inflight>>,
         \A s \in Session : ws'[s] = "open" => /\ ws[s] = "open" \/ s \in timer'
                                               /\ s \in timer => s \in timer'
  PROVE  Attended'
  BY DEF Attended

LEMMA FailAuthCloses ==
  ASSUME Inv, NEW s \in Session, FailAuth(s)
  PROVE  ws'[s] # "open" /\ \A r \in Session : ws'[r] = "open" => ws[r] = "open" /\ r # s
  BY DEF Inv, TypeOK, FailAuth

\* A caller of resolveOwner has its answer, or waits for a lookup.
LEMMA ResolveAttended ==
  ASSUME Inv, Attended, NEW s \in Session, ResolveOwner(s)
  PROVE  /\ answer'[s] # "none"
         /\ \A c \in Caller : c # s => answer'[c] = answer[c]
         /\ \A c \in Caller : answer'[c] = "waiting" => inflight' # {}
<1>1. /\ cache \in Wallet \cup {NoWallet} /\ s \in Caller
      /\ cache # "none" /\ cache # "waiting"
  BY ConstantsAssumption DEF Inv, TypeOK, Caller
<1>2. \A c \in Caller : answer'[c] = IF c # s THEN answer[c]
                                     ELSE IF cache # NoWallet THEN cache ELSE "waiting"
  BY <1>1 DEF ResolveOwner, Inv, TypeOK
<1>3. cache = NoWallet => inflight' # {}
  BY DEF ResolveOwner
<1>4. inflight # {} => inflight' # {}
  BY DEF ResolveOwner
<1> QED
  BY <1>1, <1>2, <1>3, <1>4 DEF Attended

LEMMA FrameAttended ==
  ASSUME Inv, Attended, NEW s \in Session, ClientFrame(s)
  PROVE  Attended'
<1>1. CASE RejectFrame(s)
  BY <1>1, FailAuthCloses, IdleAttended DEF RejectFrame, owner
<1>2. CASE RejectResponse(s)
  BY <1>2, FailAuthCloses, IdleAttended DEF RejectResponse, owner
<1>3. ASSUME NEW w \in Wallet, NEW n \in Session, AuthResponse(s, w, n), Verified(s, w, n)
      PROVE  Attended'
  <2>1. /\ claim' = [claim EXCEPT ![s] = w] /\ w # NoWallet
        /\ timer' = timer \ {s} /\ ResolveOwner(s) /\ UNCHANGED <<ws, wallet>>
    BY <1>3, ConstantsAssumption DEF AuthResponse
  <2>2. \A r \in Session : claim'[r] = IF r = s THEN w ELSE claim[r]
    BY <2>1 DEF Inv, TypeOK
  <2> QED
    BY <2>1, <2>2, ResolveAttended DEF Attended, Caller
<1>4. ASSUME NEW w \in Wallet, NEW n \in Session, AuthResponse(s, w, n), ~Verified(s, w, n)
      PROVE  Attended'
  <2>1. FailAuth(s) /\ timer' = timer \ {s} /\ UNCHANGED <<claim, owner, wallet>>
    BY <1>4 DEF AuthResponse
  <2> QED
    BY <2>1, FailAuthCloses, IdleAttended DEF owner
<1>5. CASE AdminRequest(s)
  <2>1. ResolveOwner(s) /\ UNCHANGED <<ws, wallet, timer, claim>>
    BY <1>5 DEF AdminRequest, server, auth
  <2> QED
    BY <2>1, ResolveAttended DEF Attended, Caller
<1> QED
  BY <1>1, <1>2, <1>3, <1>4, <1>5 DEF ClientFrame

\* The owner is there: the response or the request of s is decided on.
LEMMA AnswerAttended ==
  ASSUME Inv, Attended, NEW s \in Session, AuthAnswered(s) \/ AdminAnswered(s)
  PROVE  Attended'
<1>1. /\ \A r \in Caller : answer'[r] = IF r = s THEN "none" ELSE answer[r]
      /\ UNCHANGED <<timer, inflight>>
  BY DEF AuthAnswered, AdminAnswered, Inv, TypeOK, Caller
<1>2. CASE AuthAnswered(s)
  <2>1. \A r \in Session : claim'[r] = IF r = s THEN NoWallet ELSE claim[r]
    BY <1>2 DEF AuthAnswered, Inv, TypeOK
  <2>2. CASE wallet' = [wallet EXCEPT ![s] = claim[s]] /\ UNCHANGED ws
    <3>1. \A r \in Session : wallet'[r] = IF r = s THEN claim[s] ELSE wallet[r]
      BY <2>2 DEF Inv, TypeOK
    <3>2. claim[s] # NoWallet
      BY <1>2 DEF AuthAnswered
    <3> QED
      BY <1>1, <2>1, <2>2, <3>1, <3>2 DEF Attended, Caller
  <2>3. CASE FailAuth(s) /\ UNCHANGED wallet
    BY <1>1, <2>1, <2>3, FailAuthCloses DEF Attended, Caller
  <2> QED
    BY <1>2, <2>2, <2>3 DEF AuthAnswered
<1>3. CASE AdminAnswered(s)
  <2>1. claim[s] = NoWallet /\ UNCHANGED <<ws, wallet, claim>>
    BY <1>3 DEF AdminAnswered, server
  <2> QED
    BY <1>1, <2>1 DEF Attended, Caller
<1> QED
  BY <1>2, <1>3

\* A lookup that comes back, with an owner or without, answers all that wait for it.
LEMMA LookupAttended ==
  ASSUME Inv, Attended, LookupReturns
  PROVE  Attended'
<1>1. PICK v \in inflight \cup {NoWallet} :
        answer' = [c \in Caller |-> IF answer[c] = "waiting" THEN v ELSE answer[c]]
  BY DEF LookupReturns
<1>2. v # "none" /\ v # "waiting"
  BY <1>1, ConstantsAssumption DEF Inv, TypeOK
<1>3. UNCHANGED <<ws, wallet, timer, claim>>
  BY DEF LookupReturns, server, auth
<1> QED
  BY <1>1, <1>2, <1>3 DEF Attended, Caller

LEMMA EventAttended ==
  ASSUME Inv, Attended, Event
  PROVE  Attended'
<1>1. ASSUME NEW s \in Session, AuthTimeout(s) PROVE Attended'
  <2>1. CASE wallet[s] = NoWallet
    BY <1>1, <2>1, FailAuthCloses, IdleAttended DEF AuthTimeout, owner
  <2>2. CASE wallet[s] # NoWallet
    BY <1>1, <2>2 DEF AuthTimeout, Attended, owner
  <2> QED
    BY <2>1, <2>2
<1>2. ASSUME NEW s \in Session, Disconnect(s) PROVE Attended'
  <2>1. /\ \A r \in Session : ws'[r] = IF r = s THEN "closed" ELSE ws[r]
        /\ timer \ {s} \subseteq timer'
        /\ UNCHANGED <<wallet, claim, answer, inflight>>
    BY <1>2 DEF Disconnect, Cleanup, Inv, TypeOK, owner
  <2> QED
    BY <2>1, IdleAttended
<1>3. CASE Stop
  <2>1. /\ \A r \in Session : ws'[r] = IF r \in registered /\ ws[r] = "open"
                                         THEN "closing" ELSE ws[r]
        /\ timer' = timer \ registered
        /\ UNCHANGED <<wallet, claim, answer, inflight>>
    BY <1>3 DEF Stop, Cleanup, Inv, TypeOK, owner
  <2> QED
    BY <2>1, IdleAttended
<1>4. ASSUME NEW s \in Session,
             RefuseConnection(s) \/ AcceptConnection(s) \/ NonceExpires(s)
      PROVE  Attended'
  <2>1. UNCHANGED <<wallet, claim, answer, inflight>> /\ timer \subseteq timer'
    BY <1>4 DEF RefuseConnection, AcceptConnection, NonceExpires, auth, owner
  <2>2. \A r \in Session : ws'[r] = "open" => ws[r] = "open" \/ r \in timer'
    BY <1>4 DEF RefuseConnection, AcceptConnection, NonceExpires, server, Inv, TypeOK
  <2> QED
    BY <2>1, <2>2, IdleAttended
<1>5. ASSUME NEW w \in Wallet, TransferOwnership(w) PROVE Attended'
  BY <1>5 DEF TransferOwnership, Attended, server, auth
<1>6. CASE CacheExpires \/ Sweep
  BY <1>6 DEF CacheExpires, Sweep, Attended, server, auth, owner
<1> QED
  BY <1>1, <1>2, <1>3, <1>4, <1>5, <1>6, LookupAttended DEF Event

\* Whatever responses, timers, failed lookups, disconnects and shutdowns interleave, an
\* undecided connection is never without the one thing that will decide on it: the part
\* of HandshakeEnds that is a matter of safety.
THEOREM NobodyForgotten == Spec => []Attended
<1>1. Init => Attended
  BY ConstantsAssumption DEF Init, Attended, Caller
<1>2. Inv /\ Attended /\ [Next]_vars => Attended'
  <2> SUFFICES ASSUME Inv, Attended, [Next]_vars
               PROVE  Attended'
    OBVIOUS
  <2>1. CASE BootAnswered
    <3>1. /\ answer' = [answer EXCEPT ![Boot] = "none"]
          /\ UNCHANGED <<ws, wallet, timer, claim, inflight>>
      BY <2>1 DEF BootAnswered, server, auth
    <3>2. \A c \in Caller : answer'[c] = IF c = Boot THEN "none" ELSE answer[c]
      BY <3>1 DEF Inv, TypeOK
    <3> QED
      BY <3>1, <3>2, ConstantsAssumption DEF Attended, Caller
  <2>2. CASE UNCHANGED vars
    BY <2>2 DEF vars, server, auth, owner, Attended
  <2> QED
    BY <2>1, <2>2, AnswerAttended, FrameAttended, EventAttended DEF Next
<1> QED
  BY <1>1, <1>2, SpecInv, PTL DEF Spec
=============================================================================
