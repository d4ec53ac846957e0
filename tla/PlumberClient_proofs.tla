-------------------------- MODULE PlumberClient_proofs --------------------------
(***************************************************************************)
(* Proofs about PlumberClient, for any number of concurrent calls and of   *)
(* bearers.                                                                *)
(***************************************************************************)
EXTENDS PlumberClient, TLAPS

\* The cached bearer has not been given up, and a request carries a bearer that
\* plumber has issued.
BearersInOrder ==
  /\ bearer \notin retired
  /\ \A f \in Fetch : token[f] =< issued

\* Money moves for a call, and is reported, only by the step that ends the call.
MoneyAtTheEnd ==
  \A f \in Fetch :
    /\ pc[f] \notin {"done", "thrown"} =>
         settled[f] = 0 /\ charged[f] = 0 /\ f \notin told
    /\ settled[f] + charged[f] =< 1
    /\ pc[f] # "done" => ledger[f] = "none"

Inv == TypeOK /\ BearersInOrder /\ MoneyAtTheEnd /\ LedgerFollowsMoney

-----------------------------------------------------------------------------

LEMMA InitInv == ASSUME Init PROVE Inv
<1> USE ConstantsAssumption
<1>1. 0 \in Token
  BY DEF Token
<1>2. TypeOK
  BY <1>1 DEF Init, TypeOK, NoToken
<1>3. QED
  BY <1>2 DEF Init, Inv, BearersInOrder, MoneyAtTheEnd, LedgerFollowsMoney, NoToken

\* A handshake ends and every call that waits for it goes on with token t.
LEMMA ResumeInv ==
  ASSUME Inv, NEW t \in Token, Resume(t),
         handshake' = "none", issued' \in Token, issued =< issued', t =< issued',
         bearer' \in Token, bearer' =< issued', bearer' \notin retired,
         UNCHANGED <<hasAsset, ledger, settled, charged, told, retired, broken>>
  PROVE  Inv'
<1> USE ConstantsAssumption
<1>1. issued \in Nat /\ issued' \in Nat /\ t \in Nat /\ \A f \in Fetch : token[f] \in Nat
  BY DEF Inv, TypeOK, Token
<1>2. TypeOK'
  BY <1>1 DEF Resume, Inv, TypeOK, Token
<1>3. BearersInOrder'
  BY <1>1 DEF Resume, Inv, TypeOK, BearersInOrder, Token
<1>4. MoneyAtTheEnd' /\ LedgerFollowsMoney'
  BY DEF Resume, Inv, TypeOK, MoneyAtTheEnd, LedgerFollowsMoney
<1>5. QED
  BY <1>2, <1>3, <1>4 DEF Inv

LEMMA StepInv == ASSUME Inv, [Next]_vars PROVE Inv'
<1> USE ConstantsAssumption
<1>1. /\ issued \in Nat /\ bearer \in Nat /\ NoToken \in Token
      /\ \A f \in Fetch : token[f] \in Nat
  BY DEF Inv, TypeOK, Token, NoToken
<1>2. ASSUME NEW f \in Fetch, StartFetch(f) PROVE Inv'
  <2>1. TypeOK' /\ BearersInOrder'
    BY <1>1, <1>2 DEF StartFetch, Send, Join, Inv, TypeOK, Token, NoToken, BearersInOrder, plumber
  <2>2. MoneyAtTheEnd' /\ LedgerFollowsMoney'
    BY <1>2 DEF StartFetch, Send, Join, Inv, TypeOK, MoneyAtTheEnd, LedgerFollowsMoney, plumber
  <2>3. QED
    BY <2>1, <2>2 DEF Inv
<1>3. ASSUME NEW f \in Fetch, Unauthorized(f) PROVE Inv'
  <2>1. token[f] \in 1 .. issued /\ retired' = retired \cup {token[f]}
    BY <1>1, <1>3 DEF Unauthorized, Inv, BearersInOrder, NoToken
  <2>2. TypeOK'
    <3>1. bearer' = 0 /\ 0 \in Token /\ bearer' =< issued /\ issued' = issued
      BY <1>1, <1>3 DEF Unauthorized, NoToken, plumber
    <3>2. retired' \subseteq 1 .. issued'
      BY <2>1, <3>1 DEF Inv, TypeOK
    <3>3. QED
      BY <1>3, <3>1, <3>2 DEF Unauthorized, Join, Inv, TypeOK, plumber
  <2>3. BearersInOrder'
    BY <1>1, <1>3, <2>1
      DEF Unauthorized, Join, Inv, TypeOK, BearersInOrder, NoToken, plumber
  <2>4. MoneyAtTheEnd' /\ LedgerFollowsMoney'
    BY <1>3
      DEF Unauthorized, Join, Inv, TypeOK, MoneyAtTheEnd, LedgerFollowsMoney, plumber
  <2>5. QED
    BY <2>2, <2>3, <2>4 DEF Inv
<1>4. ASSUME NEW f \in Fetch, Answered(f) PROVE Inv'
  <2>1. TypeOK' /\ BearersInOrder'
    BY <1>4 DEF Answered, Charge, Unpaid, Inv, TypeOK, BearersInOrder, client
  <2>2. MoneyAtTheEnd' /\ LedgerFollowsMoney'
    BY <1>4
      DEF Answered, Charge, Unpaid, Inv, TypeOK, MoneyAtTheEnd, LedgerFollowsMoney, client
  <2>3. QED
    BY <2>1, <2>2 DEF Inv
<1>5. ASSUME NEW f \in Fetch, PaymentRequired(f) PROVE Inv'
  <2>1. TypeOK' /\ BearersInOrder'
    BY <1>5
      DEF PaymentRequired, BuildPayment, Unpaid, Inv, TypeOK, BearersInOrder, client, plumber
  <2>2. MoneyAtTheEnd' /\ LedgerFollowsMoney'
    BY <1>5
      DEF PaymentRequired, BuildPayment, Unpaid, Inv, TypeOK, MoneyAtTheEnd,
          LedgerFollowsMoney, client, plumber
  <2>3. QED
    BY <2>1, <2>2 DEF Inv
<1>6. ASSUME NEW f \in Fetch, PaymentAnswered(f) PROVE Inv'
  <2>1. PICK header \in SettleHeader, status \in {"ok", "error"} :
          Settles(f, header) /\ Report(f, header, status)
    BY <1>6 DEF PaymentAnswered
  <2>2. TypeOK' /\ BearersInOrder'
    BY <1>6, <2>1
      DEF PaymentAnswered, Settles, Settle, Report, SettleHeader, Inv, TypeOK,
          BearersInOrder, client
  <2>3. /\ pc' = [pc EXCEPT ![f] = "done"] /\ charged' = charged
        /\ settled[f] = 0 /\ charged[f] = 0 /\ ledger[f] = "none" /\ f \notin told
    BY <1>6 DEF PaymentAnswered, Inv, MoneyAtTheEnd
  <2>4. /\ header = "success" => ledger'[f] = "x402-paid"
        /\ ledger'[f] = "x402-rejected" => header = "none"
        /\ ledger'[f] # "delegate-charge"
        /\ told' = IF header = "success" THEN told \cup {f} ELSE told
        /\ \A g \in Fetch \ {f} : ledger'[g] = ledger[g]
    BY <2>1, <2>3 DEF Report, SettleHeader, Inv, TypeOK
  <2>5. /\ settled'[f] \in {0, 1} /\ (header = "none" => settled'[f] = 0)
        /\ \A g \in Fetch \ {f} : settled'[g] = settled[g]
    BY <2>1, <2>3 DEF Settles, Settle, Inv, TypeOK
  <2>6. MoneyAtTheEnd'
    BY <2>3, <2>4, <2>5 DEF Inv, TypeOK, MoneyAtTheEnd
  <2>7. LedgerFollowsMoney'
    BY <2>3, <2>4, <2>5 DEF Inv, TypeOK, LedgerFollowsMoney
  <2>8. QED
    BY <2>2, <2>6, <2>7 DEF Inv
<1>7. ASSUME NEW f \in Fetch, ConnectionLost(f) PROVE Inv'
  <2>1. TypeOK' /\ BearersInOrder'
    BY <1>7
      DEF ConnectionLost, Settle, Charge, Unpaid, Inv, TypeOK, BearersInOrder, client
  <2>2. MoneyAtTheEnd' /\ LedgerFollowsMoney'
    BY <1>7
      DEF ConnectionLost, Settle, Charge, Unpaid, Inv, TypeOK, MoneyAtTheEnd,
          LedgerFollowsMoney, client
  <2>3. QED
    BY <2>1, <2>2 DEF Inv
<1>8. CASE Challenged
  BY <1>8
    DEF Challenged, Inv, TypeOK, BearersInOrder, MoneyAtTheEnd, LedgerFollowsMoney,
        plumber
<1>9. CASE HandshakeIssues
  <2>1. issued + 1 \in Token /\ issued + 1 \notin retired
    BY <1>1, <1>9 DEF HandshakeIssues, Inv, TypeOK
  <2>2. QED
    BY <1>1, <1>9, <2>1, ResumeInv DEF HandshakeIssues
<1>10. CASE HandshakeFails
  <2>1. /\ issued' \in Token /\ issued =< issued' /\ NoToken =< issued'
        /\ bearer' \in Token /\ bearer' =< issued' /\ bearer' \notin retired
    BY <1>1, <1>10
      DEF HandshakeFails, Inv, TypeOK, BearersInOrder, NoToken, plumber
  <2>2. QED
    BY <1>1, <1>10, <2>1, ResumeInv DEF HandshakeFails, plumber
<1>11. CASE BearerAges
  BY <1>1, <1>11
    DEF BearerAges, Inv, TypeOK, BearersInOrder, MoneyAtTheEnd, LedgerFollowsMoney,
        NoToken, plumber
<1>12. CASE UNCHANGED vars
  BY <1>12
    DEF Inv, TypeOK, BearersInOrder, MoneyAtTheEnd, LedgerFollowsMoney, vars, client,
        plumber
<1>13. QED
  BY <1>2, <1>3, <1>4, <1>5, <1>6, <1>7, <1>8, <1>9, <1>10, <1>11, <1>12
    DEF Next, Replied, Handshaken

LEMMA SpecInv == Spec => []Inv
<1>1. Init => Inv
  BY InitInv
<1>2. Inv /\ [Next]_vars => Inv'
  BY StepInv
<1>3. QED
  BY <1>1, <1>2, PTL DEF Spec

-----------------------------------------------------------------------------

\* Every variable keeps its type.
THEOREM TypeCorrect == Spec => []TypeOK
<1>1. Inv => TypeOK
  BY DEF Inv
<1>2. QED
  BY <1>1, SpecInv, PTL

\* What plumber has taken and told for a call that returns is in the ledger, and a
\* rejection is reported only of a call that cost nothing.
THEOREM LedgerHolds == Spec => []LedgerFollowsMoney
<1>1. Inv => LedgerFollowsMoney
  BY DEF Inv
<1>2. QED
  BY <1>1, SpecInv, PTL

\* Plumber settles or charges for a call once at most.
THEOREM PaidOnce == Spec => []PaysOnce
<1>1. Inv => PaysOnce
  BY DEF Inv, MoneyAtTheEnd, PaysOnce
<1>2. QED
  BY <1>1, SpecInv, PTL

\* A request that goes out carries no bearer that some call has given up.
LEMMA SentBearer ==
  ASSUME Inv, [Next]_vars, NEW f \in Fetch,
         pc'[f] \in {"request", "retry"}, pc'[f] # pc[f]
  PROVE  token'[f] \notin retired'
<1> USE ConstantsAssumption
<1>1. issued \in Nat /\ NoToken \notin retired /\ issued + 1 \notin retired
  BY DEF Inv, TypeOK, Token, NoToken
<1>2. ASSUME NEW t, t \notin retired, Resume(t), retired' = retired
      PROVE  token'[f] \notin retired'
  BY <1>2 DEF Resume, Inv, TypeOK
<1>3. ASSUME NEW g \in Fetch, StartFetch(g) PROVE token'[f] \notin retired'
  BY <1>1, <1>3 DEF StartFetch, Send, Join, Inv, TypeOK, BearersInOrder
<1>4. ASSUME NEW g \in Fetch, Replied(g) PROVE FALSE
  BY <1>4
    DEF Replied, Unauthorized, Join, Answered, PaymentRequired, BuildPayment, PaymentAnswered,
        ConnectionLost, Inv, TypeOK
<1>5. CASE HandshakeIssues
  BY <1>1, <1>2, <1>5 DEF HandshakeIssues
<1>6. CASE HandshakeFails
  BY <1>1, <1>2, <1>6 DEF HandshakeFails
<1>7. CASE Challenged \/ BearerAges \/ UNCHANGED vars
  BY <1>7 DEF Challenged, BearerAges, vars
<1>8. QED
  BY <1>3, <1>4, <1>5, <1>6, <1>7 DEF Next, Handshaken

\* A bearer that a call gave up is never sent again.
THEOREM RetiredStaysRetired == Spec => NoRetiredBearer
<1>1. Inv /\ [Next]_vars =>
        [\A f \in Fetch : pc'[f] \in {"request", "retry"} /\ pc'[f] # pc[f] =>
           token'[f] \notin retired']_vars
  BY SentBearer
<1>2. QED
  BY <1>1, SpecInv, PTL DEF Spec, NoRetiredBearer

\* A call waits for a bearer only while a handshake is under way, which goes on or
\* ends with an answer for all that wait.
WaitersServed ==
  \A f \in Fetch : pc[f] \in {"joining", "rejoining"} => handshake # "none"

\* No interleaving of joins, failures, 401s and expiries leaves a call waiting for a
\* handshake that nobody makes: the part of FetchEnds that is a matter of safety.
THEOREM NobodyWaitsAlone == Spec => []WaitersServed
<1>1. Init => WaitersServed
  BY DEF Init, WaitersServed
<1>2. Inv /\ WaitersServed /\ [Next]_vars => WaitersServed'
  <2> SUFFICES ASSUME Inv, WaitersServed, [Next]_vars
               PROVE  WaitersServed'
    OBVIOUS
  <2>1. ASSUME NEW f \in Fetch, StartFetch(f) \/ Unauthorized(f) PROVE WaitersServed'
    BY <2>1 DEF StartFetch, Unauthorized, Send, Join, WaitersServed, Inv, TypeOK
  <2>2. ASSUME NEW f \in Fetch,
               Answered(f) \/ PaymentRequired(f) \/ PaymentAnswered(f) \/ ConnectionLost(f)
        PROVE  WaitersServed'
    BY <2>2 DEF Answered, PaymentRequired, BuildPayment, PaymentAnswered, ConnectionLost,
         client, WaitersServed, Inv, TypeOK
  <2>3. CASE HandshakeIssues \/ HandshakeFails
    BY <2>3 DEF HandshakeIssues, HandshakeFails, Resume, WaitersServed, Inv, TypeOK
  <2>4. CASE Challenged \/ BearerAges \/ UNCHANGED vars
    BY <2>4 DEF Challenged, BearerAges, vars, client, WaitersServed
  <2>5. QED
    BY <2>1, <2>2, <2>3, <2>4 DEF Next, Replied, Handshaken
<1>3. QED
  BY <1>1, <1>2, SpecInv, PTL DEF Spec
=============================================================================
