----------------------------- MODULE PlumberClient -----------------------------
(***************************************************************************)
(* The paid-RPC client (packages/shared/src/plumber-client.ts): concurrent *)
(* calls of plumberFetch share one PlumberClient, its cached bearer and    *)
(* its handshake in flight.  A call is retried once after a 401, with a    *)
(* new bearer, and once after a 402, with a signed payment.                *)
(*                                                                         *)
(* Plumber is external: it may answer a request in any way the client      *)
(* distinguishes, and an answer may be lost after it has had its effect.   *)
(* A step is what the client does between two awaits of the network.       *)
(***************************************************************************)
EXTENDS Naturals

CONSTANTS
  Fetch,     \* calls of plumberFetch
  MaxToken   \* bound on the bearers plumber issues

ASSUME ConstantsAssumption == MaxToken \in Nat

NoToken == 0

VARIABLES
  hasAsset,   \* agentAssetAddress is set: without it there is no handshake
  bearer,     \* PlumberClient._bearer until 30 s before its expiry: a token,
              \* numbered in the order plumber issued them
  handshake,  \* _handshakeInFlight, by the request it waits for
  pc,         \* where a call of plumberFetch is
  token,      \* the bearer its last unpaid request carried
  ledger,     \* the payment event the call has emitted
  issued,     \* plumber: the bearers issued so far
  settled,    \* plumber: how many payments of a call it has settled
  charged,    \* plumber: how often it has charged a call to the delegated wallet
  told,       \* history: the calls that have read of their settlement
  retired,    \* history: the bearers a 401 has made a call give up
  broken      \* history: the calls whose own request or payment failed

client  == <<hasAsset, bearer, handshake>>
plumber == <<issued, settled, charged>>
vars    == <<client, pc, token, ledger, plumber, told, retired, broken>>

Token == 0 .. MaxToken

TypeOK ==
  /\ hasAsset \in BOOLEAN
  /\ bearer \in Token
  /\ handshake \in {"none", "challenge", "post"}
  /\ pc \in [Fetch -> {"idle", "joining", "request", "rejoining", "retry", "pay",
                       "done", "thrown"}]
  /\ token \in [Fetch -> Token]
  /\ ledger \in [Fetch -> {"none", "delegate-charge", "x402-paid", "x402-rejected"}]
  /\ issued \in Token
  /\ bearer =< issued
  /\ settled \in [Fetch -> Nat]
  /\ charged \in [Fetch -> Nat]
  /\ told \subseteq Fetch
  /\ retired \subseteq 1 .. issued
  /\ broken \subseteq Fetch

Init ==
  /\ hasAsset \in BOOLEAN
  /\ bearer = NoToken
  /\ handshake = "none"
  /\ pc = [f \in Fetch |-> "idle"]
  /\ token = [f \in Fetch |-> NoToken]
  /\ ledger = [f \in Fetch |-> "none"]
  /\ issued = 0
  /\ settled = [f \in Fetch |-> 0]
  /\ charged = [f \in Fetch |-> 0]
  /\ told = {}
  /\ retired = {}
  /\ broken = {}

-----------------------------------------------------------------------------
(***************************************************************************)
(* getBearer and the handshake.                                            *)
(***************************************************************************)

Send(f, t, where) ==
  /\ pc' = [pc EXCEPT ![f] = where]
  /\ token' = [token EXCEPT ![f] = t]

\* The handshake in flight is joined, or one is started.
Join(f, where) ==
  /\ handshake' = IF handshake = "none" THEN "challenge" ELSE handshake
  /\ pc' = [pc EXCEPT ![f] = where]
  /\ UNCHANGED token

\* plumberFetch up to its first request or the wait for a bearer.
StartFetch(f) ==
  /\ pc[f] = "idle"
  /\ \/ ~hasAsset /\ Send(f, NoToken, "request") /\ UNCHANGED handshake
     \/ hasAsset /\ bearer # NoToken /\ Send(f, bearer, "request") /\ UNCHANGED handshake
     \/ hasAsset /\ bearer = NoToken /\ Join(f, "joining")
  /\ UNCHANGED <<hasAsset, bearer, ledger, plumber, told, retired, broken>>

\* GET /auth/challenge succeeds.
Challenged ==
  /\ handshake = "challenge"
  /\ handshake' = "post"
  /\ UNCHANGED <<hasAsset, bearer, pc, token, ledger, plumber, told, retired, broken>>

\* FAULT: the callers of a failed handshake never hear of it.
ResumeFault(t) ==
  /\ token' = [f \in Fetch |-> IF pc[f] \in {"joining", "rejoining"} THEN t ELSE token[f]]
  /\ pc' = [f \in Fetch |-> CASE pc[f] = "joining" /\ t # NoToken -> "request"
                              [] pc[f] = "rejoining" /\ t # NoToken -> "retry"
                              [] OTHER -> pc[f]]

\* Every caller of the handshake goes on with its result.
Resume(t) ==
  /\ token' = [f \in Fetch |-> IF pc[f] \in {"joining", "rejoining"} THEN t ELSE token[f]]
  /\ pc' = [f \in Fetch |-> CASE pc[f] = "joining" -> "request"
                              [] pc[f] = "rejoining" -> "retry"
                              [] OTHER -> pc[f]]

\* POST /auth/handshake is answered with a token.
HandshakeIssues ==
  /\ handshake = "post"
  /\ issued + 1 \in Token
  /\ issued' = issued + 1
  /\ bearer' = issued'
  /\ handshake' = "none"
  /\ Resume(issued')
  /\ UNCHANGED <<hasAsset, ledger, settled, charged, told, retired, broken>>

\* Either request fails or is refused, or an answer is lost.
HandshakeFails ==
  /\ handshake # "none"
  /\ handshake' = "none"
  /\ Resume(NoToken)
  /\ UNCHANGED <<hasAsset, bearer, ledger, plumber, told, retired, broken>>

\* The bearer comes within 30 s of its expiry.
BearerAges ==
  /\ bearer # NoToken
  /\ bearer' = NoToken
  /\ UNCHANGED <<hasAsset, handshake, pc, token, ledger, plumber, told, retired, broken>>

-----------------------------------------------------------------------------
(***************************************************************************)
(* Answers to the unpaid requests.                                         *)
(***************************************************************************)

Unpaid(f) == pc[f] \in {"request", "retry"}

\* FAULT: the bearer that was rejected stays cached.
UnauthorizedFault(f) ==
  /\ pc[f] = "request"
  /\ token[f] # NoToken
  /\ retired' = retired \cup {token[f]}
  /\ IF bearer # NoToken THEN Send(f, bearer, "retry") /\ UNCHANGED handshake
                         ELSE Join(f, "rejoining")
  /\ UNCHANGED <<hasAsset, bearer, ledger, plumber, told, broken>>

\* 401 to the first request: invalidateBearer, whatever bearer is cached now, and
\* getBearer again.
Unauthorized(f) ==
  /\ pc[f] = "request"
  /\ token[f] # NoToken
  /\ retired' = retired \cup {token[f]}
  /\ bearer' = NoToken
  /\ Join(f, "rejoining")
  /\ UNCHANGED <<hasAsset, ledger, plumber, told, broken>>

Charge(f) == charged' = [charged EXCEPT ![f] = @ + 1]
Settle(f) == settled' = [settled EXCEPT ![f] = @ + 1]

\* FAULT: the header is looked for in the answer to the first request only.
AnsweredFault(f) ==
  /\ Unpaid(f)
  /\ pc' = [pc EXCEPT ![f] = "done"]
  /\ \/ UNCHANGED <<charged, ledger>>
     \/ /\ token[f] # NoToken
        /\ Charge(f)
        /\ ledger' = IF pc[f] = "request" THEN [ledger EXCEPT ![f] = "delegate-charge"]
                                          ELSE ledger
  /\ UNCHANGED <<client, token, issued, settled, told, retired, broken>>

\* Any other answer but a 402 goes to the caller, a second 401 included; plumber
\* may have charged the delegated wallet, and then says so in a header.
Answered(f) ==
  /\ Unpaid(f)
  /\ pc' = [pc EXCEPT ![f] = "done"]
  /\ \/ UNCHANGED <<charged, ledger>>
     \/ /\ token[f] # NoToken
        /\ Charge(f)
        /\ ledger' = [ledger EXCEPT ![f] = "delegate-charge"]
  /\ UNCHANGED <<client, token, issued, settled, told, retired, broken>>

\* buildPaymentTransaction, offline: it throws at a requirement without what the
\* transaction needs, or one that the configured source cannot pay.
BuildPayment(f) ==
  \/ pc' = [pc EXCEPT ![f] = "pay"] /\ UNCHANGED broken
  \/ pc' = [pc EXCEPT ![f] = "thrown"] /\ broken' = broken \cup {f}

\* 402: a payment is built and sent, without the bearer; a body that is not a
\* payment request goes to the caller.
PaymentRequired(f) ==
  /\ Unpaid(f)
  /\ \/ BuildPayment(f)
     \/ pc' = [pc EXCEPT ![f] = "done"] /\ UNCHANGED broken
  /\ UNCHANGED <<client, token, ledger, plumber, told, retired>>

-----------------------------------------------------------------------------
(***************************************************************************)
(* Answers to the paid request.                                            *)
(***************************************************************************)

\* What X-PAYMENT-RESPONSE may be: a SettleResponse that says success or not, a
\* header that cannot be read, or none.
SettleHeader == {"success", "failure", "malformed", "none"}

\* Plumber answers a payment it has settled with the header, which may be mangled
\* on the way, and one it has not settled with any other.
Settles(f, header) ==
  \/ header \in {"success", "malformed"} /\ Settle(f)
  \/ header # "success" /\ UNCHANGED settled

\* The event: x402-paid for any header that can be read, whatever it says and
\* whatever the status; nothing for one that cannot.
Report(f, header, status) ==
  /\ ledger' = [ledger EXCEPT ![f] =
                  CASE header \in {"success", "failure"}       -> "x402-paid"
                    [] header = "none" /\ status = "error"    -> "x402-rejected"
                    [] OTHER                                  -> @]
  /\ told' = IF header = "success" THEN told \cup {f} ELSE told

PaymentAnswered(f) ==
  /\ pc[f] = "pay"
  /\ \E header \in SettleHeader, status \in {"ok", "error"} :
       Settles(f, header) /\ Report(f, header, status)
  /\ pc' = [pc EXCEPT ![f] = "done"]
  /\ UNCHANGED <<client, token, issued, charged, retired, broken>>

\* FAULT: the call goes back to the request without the payment.
ConnectionLostFault(f) ==
  /\ pc[f] = "pay"
  /\ Settle(f) \/ UNCHANGED settled
  /\ pc' = [pc EXCEPT ![f] = "retry"]
  /\ UNCHANGED <<client, token, ledger, issued, charged, told, retired, broken>>

\* The connection fails: plumberFetch throws.  Plumber may have served the call.
ConnectionLost(f) ==
  /\ Unpaid(f) \/ pc[f] = "pay"
  /\ \/ UNCHANGED <<settled, charged>>
     \/ pc[f] = "pay" /\ Settle(f) /\ UNCHANGED charged
     \/ Unpaid(f) /\ token[f] # NoToken /\ Charge(f) /\ UNCHANGED settled
  /\ pc' = [pc EXCEPT ![f] = "thrown"]
  /\ broken' = broken \cup {f}
  /\ UNCHANGED <<client, token, ledger, issued, told, retired>>

-----------------------------------------------------------------------------

Replied(f) ==
  Unauthorized(f) \/ Answered(f) \/ PaymentRequired(f) \/ PaymentAnswered(f)
    \/ ConnectionLost(f)

Handshaken == Challenged \/ HandshakeIssues \/ HandshakeFails

Next ==
  \/ \E f \in Fetch : StartFetch(f) \/ Replied(f)
  \/ Handshaken
  \/ BearerAges

\* Requests are answered or their connections fail: fetch has no time limit of
\* its own, and the calls wait as long as the network does.
Fairness == WF_vars(Handshaken) /\ \A f \in Fetch : WF_vars(Replied(f))

Spec == Init /\ [][Next]_vars
FairSpec == Spec /\ Fairness

-----------------------------------------------------------------------------
(***************************************************************************)
(* Properties.                                                             *)
(***************************************************************************)

\* A bearer that a call gave up after a 401 is in no request sent later, whichever
\* call renewed the bearer.  (The 401 to a retry makes nobody give it up.)
NoRetiredBearer ==
  [][\A f \in Fetch :
       pc'[f] \in {"request", "retry"} /\ pc'[f] # pc[f] => token'[f] \notin retired']_vars

\* A call costs once at most: no path through a renewed bearer, a payment and a
\* lost answer lets plumber settle or charge a second time.
PaysOnce == \A f \in Fetch : settled[f] + charged[f] =< 1

\* What plumber has taken for a call that returns is in the ledger, on whichever
\* request it was taken: a charge, and a settlement whose header could be read; and
\* no call is reported as rejected that was settled all the same.  (x402-paid does
\* not say the converse: the code reports it without looking at `success`.)
LedgerFollowsMoney ==
  \A f \in Fetch : pc[f] = "done" =>
    /\ ledger[f] = "delegate-charge" <=> charged[f] > 0
    /\ f \in told => ledger[f] = "x402-paid"
    /\ ledger[f] = "x402-rejected" => settled[f] = 0

\* Every call returns unless its own request or payment fails: a handshake that
\* fails, for whichever call it was made, holds nobody up.
FetchEnds ==
  \A f \in Fetch : pc[f] # "idle" ~> (pc[f] = "done" \/ f \in broken)
=============================================================================
