---------------------------- MODULE ChatTurns_proofs ----------------------------
(***************************************************************************)
(* What holds of ChatTurns for any sessions, messages, transactions and    *)
(* limits.                                                                 *)
(***************************************************************************)
EXTENDS ChatTurns, SequenceTheorems, TLAPS

-----------------------------------------------------------------------------
(***************************************************************************)
(* Type correctness.                                                       *)
(***************************************************************************)

\* The end of a turn, with the next turn it may start, keeps the types.
LEMMA FinishTypeOK ==
  ASSUME TypeOK, NEW m \in Msg, NEW how \in Outcome, Finish(m, how)
  PROVE  TypeOK'
<1> USE ConstantsAssumption
<1> DEFINE s == From[m]
           q == queue[s]
<1>1. s \in Session /\ q \in Seq(Msg) /\ handled[s] \in Seq(Msg)
  BY DEF TypeOK
<1>2. CASE FinishIdle(m, how)
  <2>1. queue' \in [Session -> Seq(Msg)] /\ handled' \in [Session -> Seq(Msg)]
    <3>1. <<>> \in Seq(Msg) /\ handled[s] \o q \in Seq(Msg)
      BY <1>1
    <3>2. CASE DrainAll(s)
      BY <1>1, <3>1, <3>2 DEF DrainAll, TypeOK
    <3>3. CASE DrainNothing(s)
      BY <3>3 DEF DrainNothing, TypeOK
    <3>4. QED
      BY <1>2, <3>2, <3>3 DEF FinishIdle
  <2>2. QED
    BY <1>1, <1>2, <2>1 DEF Finish, FinishIdle, TypeOK, server
<1>3. CASE FinishAndStart(m, how)
  <2>1. PICK i \in FirstChat(q) :
          /\ Begin(s, q[i])
          /\ pc' = [pc EXCEPT ![m] = how, ![q[i]] = "calling"]
          /\ budgetTimer' = [budgetTimer EXCEPT ![m] = FALSE, ![q[i]] = TRUE]
          /\ queue' = [queue EXCEPT ![s] = SubSeq(q, i + 1, Len(q))]
          /\ handled' = [handled EXCEPT ![s] = @ \o SubSeq(q, 1, i)]
    BY <1>3 DEF FinishAndStart
  <2>2. i \in 1 .. Len(q) /\ q[i] \in Msg
    BY <1>1, <2>1 DEF FirstChat
  <2>3. SubSeq(q, i + 1, Len(q)) \in Seq(Msg) /\ SubSeq(q, 1, i) \in Seq(Msg)
    BY <1>1, <2>2
  <2>4. handled[s] \o SubSeq(q, 1, i) \in Seq(Msg)
    BY <1>1, <2>3
  <2>5. QED
    BY <1>1, <2>1, <2>2, <2>3, <2>4 DEF Finish, Begin, TypeOK, server, Live
<1>4. QED
  BY <1>2, <1>3 DEF Finish

\* The initial state has the types.
LEMMA InitTypeOK == ASSUME Init PROVE TypeOK
<1> USE ConstantsAssumption
<1>1. <<>> \in Seq(Msg) /\ 0 \in 0 .. MaxTools + 1
  OBVIOUS
<1>2. /\ queue \in [Session -> Seq(Msg)]
      /\ arrived \in [Session -> Seq(Msg)]
      /\ handled \in [Session -> Seq(Msg)]
      /\ tools \in [Msg -> 0 .. MaxTools + 1]
  BY <1>1 DEF Init
<1>3. QED
  BY <1>2 DEF Init, TypeOK

\* Every step keeps the types.
LEMMA TypeOKStep ==
  ASSUME TypeOK, [Next]_vars
  PROVE  TypeOK'
<1> USE ConstantsAssumption
<1>1. ASSUME NEW s \in Session, NEW m \in Msg, EnqueueMessage(s, m)
      PROVE  TypeOK'
  <2>1. queue' \in [Session -> Seq(Msg)] /\ arrived' \in [Session -> Seq(Msg)]
    BY <1>1 DEF EnqueueMessage, Receive, TypeOK
  <2>2. QED
    BY <1>1, <2>1 DEF EnqueueMessage, Receive, TypeOK, server
<1>2. ASSUME NEW s \in Session, NEW m \in Msg, RefuseMessage(s, m)
      PROVE  TypeOK'
  <2>1. arrived' \in [Session -> Seq(Msg)] /\ handled' \in [Session -> Seq(Msg)]
    BY <1>2 DEF RefuseMessage, Receive, TypeOK
  <2>2. QED
    BY <1>2, <2>1 DEF RefuseMessage, Receive, TypeOK, server, session
<1>3. ASSUME NEW s \in Session, NEW m \in Msg, StartMessage(s, m)
      PROVE  TypeOK'
  <2>1. arrived' \in [Session -> Seq(Msg)] /\ handled' \in [Session -> Seq(Msg)]
    BY <1>3 DEF StartMessage, Receive, TypeOK
  <2>2. QED
    BY <1>3, <2>1 DEF StartMessage, Receive, Begin, TypeOK, server, Live
<1>4. ASSUME NEW m \in Msg, StreamOpens(m)
      PROVE  TypeOK'
  BY <1>4 DEF StreamOpens, LoopTop, TypeOK, server, session, history, Live
<1>5. ASSUME NEW m \in Msg, ReadChunk(m)
      PROVE  TypeOK'
  <2>1. tools' \in [Msg -> 0 .. MaxTools + 1]
    <3>1. tools[m] < MaxTools => tools[m] + 1 \in 0 .. MaxTools + 1
      BY DEF TypeOK
    <3>2. QED
      BY <1>5, <3>1 DEF ReadChunk, TypeOK
  <2>2. pc' \in [Msg -> {"unsent", "sent"} \cup Live \cup Outcome]
    BY <1>5 DEF ReadChunk, LoopTop, TypeOK, Live
  <2>3. QED
    BY <1>5, <2>1, <2>2 DEF ReadChunk, TypeOK, server, session, history
<1>6. ASSUME NEW m \in Msg, ReadBreach(m)
      PROVE  TypeOK'
  <2>1. tools' \in [Msg -> 0 .. MaxTools + 1]
    <3>1. tools[m] = MaxTools => tools[m] + 1 \in 0 .. MaxTools + 1
      OBVIOUS
    <3>2. QED
      BY <1>6, <3>1 DEF ReadBreach, TypeOK
  <2>2. aborted' \in [Msg -> BOOLEAN]
    BY <1>6 DEF ReadBreach, AbortCurrent, TypeOK
  <2>3. QED
    BY <1>6, <2>1, <2>2 DEF ReadBreach, TypeOK, server, session, history, Live
<1>7. ASSUME NEW m \in Msg, AfterLoop(m)
      PROVE  TypeOK'
  <2>1. CASE Finish(m, "budget") \/ Finish(m, "silent")
    BY <2>1, FinishTypeOK DEF Outcome
  <2>2. CASE ~Finish(m, "budget") /\ ~Finish(m, "silent")
    <3>1. /\ \E to \in Live : pc' = [pc EXCEPT ![m] = to]
          /\ UNCHANGED <<server, session, aborted, budgetTimer, tripped, breached, tools,
                         running, txState, history>>
      BY <1>7, <2>2 DEF AfterLoop, Live
    <3>2. QED
      BY <3>1 DEF TypeOK, server, session, history
  <2>3. QED
    BY <2>1, <2>2
<1>8. ASSUME NEW m \in Msg, TextSettles(m) \/ TextAfterAbort(m) \/ Throws(m)
      PROVE  TypeOK'
  BY <1>8, FinishTypeOK DEF TextSettles, TextAfterAbort, Throws, Outcome
<1>9. ASSUME NEW m \in Msg, BudgetFires(m)
      PROVE  TypeOK'
  BY <1>9 DEF BudgetFires, AbortCurrent, TypeOK, server, session, history
<1>10. ASSUME NEW m \in Msg, AgentStops(m)
       PROVE  TypeOK'
  BY <1>10 DEF AgentStops, TypeOK, server, session, history
<1>11. ASSUME NEW t \in Tx, AwaitTransaction(t) \/ TxTimesOut(t)
       PROVE  TypeOK'
  <2>1. CASE AwaitTransaction(t)
    BY <2>1 DEF AwaitTransaction, TypeOK, server, turn, history
  <2>2. CASE TxTimesOut(t)
    BY <2>2 DEF TxTimesOut, Settle, TypeOK, server, turn, history
  <2>3. QED
    BY <1>11, <2>1, <2>2
<1>12. ASSUME NEW s \in Session, NEW t \in Tx, HandleTxResult(s, t) \/ HandleTxError(s, t)
       PROVE  TypeOK'
  <2>1. CASE HandleTxResult(s, t)
    <3>1. signedBy' \subseteq Session \X Tx
      BY <2>1 DEF HandleTxResult, TypeOK
    <3>2. UNCHANGED <<server, isProcessing, controller, queue, turn, arrived, handled>>
      BY <2>1 DEF HandleTxResult
    <3>3. CASE t \in pendingTx[s]
      <4>1. Settle(s, t, "resolved")
        BY <2>1, <3>3 DEF HandleTxResult
      <4>2. QED
        BY <3>1, <3>2, <4>1 DEF Settle, TypeOK, server, turn
    <3>4. CASE t \notin pendingTx[s]
      <4>1. UNCHANGED <<pendingTx, txState>>
        BY <2>1, <3>4 DEF HandleTxResult
      <4>2. QED
        BY <3>1, <3>2, <4>1 DEF TypeOK, server, turn
    <3>5. QED
      BY <3>3, <3>4
  <2>2. CASE HandleTxError(s, t)
    BY <2>2 DEF HandleTxError, Settle, TypeOK, server, turn, history
  <2>3. QED
    BY <1>12, <2>1, <2>2
<1>13. ASSUME NEW s \in Session, Disconnect(s)
       PROVE  TypeOK'
  BY <1>13 DEF Disconnect, Cleanup, TypeOK, history
<1>14. CASE Stop
  BY <1>14 DEF Stop, Cleanup, TypeOK, history
<1>15. CASE UNCHANGED vars
  BY <1>15 DEF vars, server, session, turn, history, TypeOK
<1>16. QED
  BY <1>1, <1>2, <1>3, <1>4, <1>5, <1>6, <1>7, <1>8, <1>9, <1>10, <1>11, <1>12,
     <1>13, <1>14, <1>15 DEF Next, TurnStep, CancelSettles, ReadDone

\* Every variable stays within its type, for any number of sessions and messages.
THEOREM TypeCorrect == Spec => []TypeOK
<1> USE ConstantsAssumption
<1>1. Init => TypeOK
  BY InitTypeOK
<1>2. TypeOK /\ [Next]_vars => TypeOK'
  BY TypeOKStep
<1>3. QED
  BY <1>1, <1>2, PTL DEF Spec

-----------------------------------------------------------------------------
(***************************************************************************)
(* The turns of a session.                                                 *)
(***************************************************************************)

\* An abort through the session of a turn in progress hits that turn.
LEMMA ControllerIsOwn ==
  ASSUME TypeOK, SingleTurn, AbortReachesTurn,
         NEW m \in Msg, Active(m), controller[From[m]] # NoMsg
  PROVE  controller[From[m]] = m
<1> USE ConstantsAssumption
<1>1. From[m] \in Session /\ controller[From[m]] \in Msg
  BY DEF TypeOK
<1>2. Active(controller[From[m]]) /\ From[controller[From[m]]] = From[m]
  BY <1>1 DEF AbortReachesTurn
<1>3. QED
  BY <1>1, <1>2 DEF SingleTurn

\* What is in a queue is a message that waits.
LEMMA QueuedWait ==
  ASSUME TypeOK, QueueWaits, NEW s \in Session, NEW i \in 1 .. Len(queue[s])
  PROVE  queue[s][i] \in Msg /\ pc[queue[s][i]] = "sent" /\ ~Active(queue[s][i])
<1>1. queue[s] \in Seq(Msg)
  BY DEF TypeOK
<1>2. queue[s][i] \in Msg
  BY <1>1, ElementOfSeq
<1>3. pc[queue[s][i]] = "sent"
  BY DEF QueueWaits
<1> QED
  BY <1>2, <1>3 DEF Active, Live

\* Appending to the queue appends to what has been handled or waits.
LEMMA AppendAfterConcat ==
  ASSUME NEW h \in Seq(Msg), NEW q \in Seq(Msg), NEW m \in Msg
  PROVE  h \o Append(q, m) = Append(h \o q, m)
OBVIOUS

\* What a drain up to position i leaves in the queue.
LEMMA RestOfQueue ==
  ASSUME NEW q \in Seq(Msg), NEW i \in 1 .. Len(q)
  PROVE  LET rest == SubSeq(q, i + 1, Len(q))
         IN  /\ rest \in Seq(Msg)
             /\ Len(rest) = Len(q) - i
             /\ \A j \in 1 .. Len(rest) : i + j \in 1 .. Len(q) /\ rest[j] = q[i + j]
<1> DEFINE rest == SubSeq(q, i + 1, Len(q))
<1>1. Len(q) \in Nat /\ \A j \in i + 1 .. Len(q) : q[j] \in Msg
  BY ElementOfSeq, LenProperties
<1>2. /\ rest \in Seq(Msg)
      /\ Len(rest) = IF i + 1 <= Len(q) THEN Len(q) - (i + 1) + 1 ELSE 0
      /\ \A j \in 1 .. Len(q) - (i + 1) + 1 : rest[j] = q[i + 1 + j - 1]
  BY <1>1, SubSeqProperties
<1> HIDE DEF rest
<1>3. Len(rest) = Len(q) - i
  BY <1>1, <1>2
<1>4. ASSUME NEW j \in 1 .. Len(rest)
      PROVE  i + j \in 1 .. Len(q) /\ rest[j] = q[i + j]
  <2>1. /\ i + j \in 1 .. Len(q)
        /\ j \in 1 .. Len(q) - (i + 1) + 1
        /\ i + 1 + j - 1 = i + j
    BY <1>1, <1>3
  <2>2. QED
    BY <1>2, <2>1
<1>5. QED
  BY <1>2, <1>3, <1>4 DEF rest

\* A drain up to position i of the queue hands its messages on in order.
LEMMA DrainKeepsOrder ==
  ASSUME NEW h \in Seq(Msg), NEW q \in Seq(Msg), NEW i \in 1 .. Len(q)
  PROVE  (h \o SubSeq(q, 1, i)) \o SubSeq(q, i + 1, Len(q)) = h \o q
<1> DEFINE a == SubSeq(q, 1, i)
           b == SubSeq(q, i + 1, Len(q))
<1> SUFFICES (h \o a) \o b = h \o q
  OBVIOUS
<1>1. Len(q) \in Nat /\ \A j \in 1 .. Len(q) : q[j] \in Msg
  BY ElementOfSeq, LenProperties
<1>2. a \in Seq(Msg) /\ b \in Seq(Msg)
  BY <1>1
<1>3. a \o b = q
  <2>1. 1 \in 1 .. Len(q) + 1 /\ i \in 1 - 1 .. Len(q) /\ Len(q) \in i .. Len(q)
    BY <1>1
  <2>2. a \o b = SubSeq(q, 1, Len(q))
    BY <2>1, ConcatAdjacentSubSeq
  <2>3. QED
    BY <2>2, SubSeqFull
<1> HIDE DEF a, b
<1>4. (h \o a) \o b = h \o (a \o b)
  BY <1>2
<1>5. QED
  BY <1>3, <1>4

\* A turn that ends leaves all turns in order, the one it may start among them.
LEMMA FinishTurnsInv ==
  ASSUME TurnsInv, NEW m \in Msg, NEW how \in Outcome, Active(m), Finish(m, how),
         breached[m] => how = "budget",
         how = "silent" /\ From[m] \in registered => tripped[m]
  PROVE  TurnsInv'
<1> USE ConstantsAssumption
<1> DEFINE s == From[m]
           q == queue[s]
<1>1. /\ s \in Session /\ q \in Seq(Msg)
      /\ handled[s] \in Seq(Msg) /\ arrived[s] \in Seq(Msg)
      /\ Len(q) \in Nat
      /\ \A i \in 1 .. Len(q) : q[i] \in Msg
  BY ElementOfSeq, LenProperties DEF TurnsInv, TypeOK
<1>2. TypeOK'
  BY FinishTypeOK DEF TurnsInv
<1>3. how \notin Live /\ how \notin {"unsent", "sent", "cancelling"}
  BY DEF Live, Outcome
<1>4. UNCHANGED <<ws, registered, stopped, aborted, tripped, breached, arrived>>
  BY DEF Finish, server
<1>5. \A x \in Msg : Active(x) /\ From[x] = s => x = m
  BY DEF TurnsInv, SingleTurn
<1>6. CASE FinishIdle(m, how)
  <2>1. /\ pc' = [pc EXCEPT ![m] = how]
        /\ budgetTimer' = [budgetTimer EXCEPT ![m] = FALSE]
        /\ isProcessing' = [isProcessing EXCEPT ![s] = FALSE]
        /\ controller' = [controller EXCEPT ![s] = NoMsg]
        /\ DrainAll(s) \/ DrainNothing(s)
    BY <1>6 DEF FinishIdle
  <2>2. \A x \in Msg : pc'[x] = IF x = m THEN how ELSE pc[x]
    BY <2>1 DEF TurnsInv, TypeOK
  <2>3. \A x \in Msg : Active(x)' <=> Active(x) /\ x # m
    BY <1>3, <2>2 DEF Active
  <2>4. SingleTurn'
    BY <1>1, <1>5, <2>1, <2>3 DEF TurnsInv, SingleTurn, TypeOK
  <2>5. NoMessageLost'
    <3>1. CASE DrainAll(s)
      <4>1. handled[s] \o q = arrived[s]
        BY <1>1, <3>1 DEF TurnsInv, NoMessageLost, DrainAll
      <4>2. arrived[s] \o <<>> = arrived[s]
        BY <1>1, ConcatEmptySeq
      <4>3. QED
        BY <1>1, <1>4, <2>1, <3>1, <4>1, <4>2 DEF TurnsInv, NoMessageLost, DrainAll, TypeOK
    <3>2. CASE DrainNothing(s)
      BY <1>4, <3>2 DEF NoMessageLost, DrainNothing
    <3>3. QED
      BY <2>1, <3>1, <3>2
  <2>6. AbortReachesTurn'
    BY <1>1, <1>4, <1>5, <2>1, <2>3 DEF TurnsInv, AbortReachesTurn, TypeOK
  <2>7. AbortHasCause'
    BY <1>4 DEF TurnsInv, AbortHasCause
  <2>8. TurnAnswered'
    BY <1>4, <2>2 DEF TurnsInv, TurnAnswered, Ended
  <2>9. QueueWaits'
    <3>1. \A r \in Session : queue'[r] = queue[r] \/ queue'[r] = <<>>
      BY <1>1, <2>1 DEF DrainAll, DrainNothing, TurnsInv, TypeOK
    <3>2. \A r \in Session : \A i \in 1 .. Len(queue[r]) :
            queue[r][i] \in Msg /\ queue[r][i] # m
      BY QueuedWait DEF TurnsInv
    <3>3. QED
      BY <2>2, <3>1, <3>2 DEF TurnsInv, QueueWaits
  <2>10. TimerInTurn'
    BY <2>1, <2>3 DEF TurnsInv, TimerInTurn, TypeOK
  <2>11. BreachCancels'
    BY <1>4, <2>2 DEF TurnsInv, BreachCancels
  <2>12. QED
    BY <1>2, <2>4, <2>5, <2>6, <2>7, <2>8, <2>9, <2>10, <2>11 DEF TurnsInv
<1>7. CASE FinishAndStart(m, how)
  <2>1. PICK i \in FirstChat(q) :
          /\ Begin(s, q[i])
          /\ pc' = [pc EXCEPT ![m] = how, ![q[i]] = "calling"]
          /\ budgetTimer' = [budgetTimer EXCEPT ![m] = FALSE, ![q[i]] = TRUE]
          /\ queue' = [queue EXCEPT ![s] = SubSeq(q, i + 1, Len(q))]
          /\ handled' = [handled EXCEPT ![s] = @ \o SubSeq(q, 1, i)]
    BY <1>7 DEF FinishAndStart
  <2> DEFINE n == q[i]
             rest == SubSeq(q, i + 1, Len(q))
  <2>2. i \in 1 .. Len(q) /\ n \in Msg
    BY <1>1, <2>1 DEF FirstChat
  <2>3. pc[n] = "sent" /\ From[n] = s /\ n # m
    BY <1>1, <2>2 DEF TurnsInv, QueueWaits, Active, Live
  <2>4. /\ isProcessing' = [isProcessing EXCEPT ![s] = TRUE]
        /\ controller' = [controller EXCEPT ![s] = n]
    BY <2>1 DEF Begin
  <2>5. \A x \in Msg : pc'[x] = IF x = m THEN how ELSE IF x = n THEN "calling" ELSE pc[x]
    BY <2>1, <2>2, <2>3 DEF TurnsInv, TypeOK
  <2>6. \A x \in Msg : Active(x)' <=> x = n \/ (Active(x) /\ x # m)
    BY <1>3, <2>3, <2>5 DEF Active, Live
  <2>7. SingleTurn'
    <3>1. \A x, y \in Msg : Active(x)' /\ Active(y)' /\ From[x] = From[y] => x = y
      BY <1>5, <2>3, <2>6 DEF TurnsInv, SingleTurn
    <3>2. \A r \in Session : isProcessing'[r] = IF r = s THEN TRUE ELSE isProcessing[r]
      BY <1>1, <2>4 DEF TurnsInv, TypeOK
    <3>3. \A r \in Session : isProcessing[r] <=> \E x \in Msg : Active(x) /\ From[x] = r
      BY DEF TurnsInv, SingleTurn
    <3>4. ASSUME NEW r \in Session
          PROVE  isProcessing'[r] <=> \E x \in Msg : Active(x)' /\ From[x] = r
      <4>1. CASE r = s
        BY <2>2, <2>3, <2>6, <3>2, <4>1
      <4>2. CASE r # s
        BY <2>3, <2>6, <3>2, <3>3, <4>2
      <4>3. QED
        BY <4>1, <4>2
    <3>5. QED
      BY <3>1, <3>4 DEF SingleTurn
  <2>8. /\ rest \in Seq(Msg)
        /\ Len(rest) = Len(q) - i
        /\ \A j \in 1 .. Len(rest) : i + j \in 1 .. Len(q) /\ rest[j] = q[i + j]
    BY <1>1, <2>2, RestOfQueue
  <2>9. NoMessageLost'
    <3>1. (handled[s] \o SubSeq(q, 1, i)) \o rest = handled[s] \o q
      BY <1>1, <2>2, DrainKeepsOrder
    <3>2. QED
      BY <1>1, <1>4, <2>1, <2>4, <3>1 DEF TurnsInv, NoMessageLost, TypeOK
  <2>10. AbortReachesTurn'
    <3>1. \A r \in Session : controller'[r] = IF r = s THEN n ELSE controller[r]
      BY <1>1, <2>4 DEF TurnsInv, TypeOK
    <3>2. ASSUME NEW x \in Msg, Active(x)', From[x] \in registered'
          PROVE  controller'[From[x]] = x
      <4>1. CASE x = n
        BY <1>1, <2>3, <3>1, <4>1
      <4>2. CASE x # n
        <5>1. Active(x) /\ x # m /\ From[x] # s
          BY <1>5, <2>6, <3>2, <4>2
        <5>2. controller[From[x]] = x
          BY <1>4, <3>2, <5>1 DEF TurnsInv, AbortReachesTurn
        <5>3. QED
          BY <3>1, <5>1, <5>2 DEF TurnsInv, TypeOK
      <4>3. QED
        BY <4>1, <4>2
    <3>3. ASSUME NEW r \in Session, controller'[r] # NoMsg
          PROVE  (Active(controller[r]) /\ From[controller[r]] = r)'
      <4>1. CASE r = s
        BY <2>2, <2>3, <2>6, <3>1, <4>1
      <4>2. CASE r # s
        BY <2>6, <3>1, <3>3, <4>2 DEF TurnsInv, TypeOK, AbortReachesTurn
      <4>3. QED
        BY <4>1, <4>2
    <3>4. QED
      BY <3>2, <3>3 DEF AbortReachesTurn
  <2>11. AbortHasCause'
    BY <1>4 DEF TurnsInv, AbortHasCause
  <2>12. TurnAnswered'
    BY <1>4, <2>5 DEF TurnsInv, TurnAnswered, Ended, Outcome
  <2>13. QueueWaits'
    <3>1. \A r \in Session : \A j \in 1 .. Len(queue[r]) :
            queue[r][j] \in Msg /\ queue[r][j] # m
      BY QueuedWait DEF TurnsInv
    <3>2. ASSUME NEW r \in Session, r # s
          PROVE  \A j \in 1 .. Len(queue[r]) : queue[r][j] # n
      BY <2>3, <3>2 DEF TurnsInv, QueueWaits
    <3>3. \A k \in 1 .. Len(q) :
            /\ pc[q[k]] = "sent" /\ From[q[k]] = s /\ q[k] \in Msg /\ q[k] # m
            /\ \A l \in 1 .. Len(q) : q[k] = q[l] => k = l
      <4>1. \A k \in 1 .. Len(q) :
              /\ pc[q[k]] = "sent" /\ From[q[k]] = s
              /\ \A l \in 1 .. Len(q) : q[k] = q[l] => k = l
        BY <1>1 DEF TurnsInv, QueueWaits
      <4>2. QED
        BY <1>1, <3>1, <4>1
    <3>4. \A r \in Session : queue'[r] = IF r = s THEN rest ELSE queue[r]
      BY <1>1, <2>1 DEF TurnsInv, TypeOK
    <3>5. ASSUME NEW r \in Session, r # s, NEW j \in 1 .. Len(queue'[r])
          PROVE  /\ pc'[queue'[r][j]] = "sent"
                 /\ From[queue'[r][j]] = r
                 /\ \A k \in 1 .. Len(queue'[r]) : queue'[r][j] = queue'[r][k] => j = k
      BY <2>5, <3>1, <3>2, <3>4, <3>5 DEF TurnsInv, QueueWaits
    <3>6. ASSUME NEW j \in 1 .. Len(rest)
          PROVE  /\ pc'[rest[j]] = "sent"
                 /\ From[rest[j]] = s
                 /\ \A k \in 1 .. Len(rest) : rest[j] = rest[k] => j = k
      <4>1. i + j \in 1 .. Len(q) /\ rest[j] = q[i + j] /\ i # i + j
        <5>1. i + j \in 1 .. Len(q) /\ rest[j] = q[i + j]
          BY <2>8, <3>6
        <5>2. \A a, b \in Nat \ {0} : a # a + b
          OBVIOUS
        <5>3. i \in Nat \ {0} /\ j \in Nat \ {0}
          BY <1>1, <2>2, <2>8, <3>6
        <5>4. QED
          BY <5>1, <5>2, <5>3
      <4>2. rest[j] # n
        BY <2>2, <3>3, <4>1
      <4>3. pc[rest[j]] = "sent" /\ From[rest[j]] = s /\ rest[j] # m /\ rest[j] \in Msg
        BY <3>3, <4>1
      <4>4. ASSUME NEW k \in 1 .. Len(rest), rest[j] = rest[k]
            PROVE  j = k
        <5>1. i + k \in 1 .. Len(q) /\ rest[k] = q[i + k]
          BY <2>8
        <5>2. i + j = i + k
          BY <3>3, <4>1, <4>4, <5>1
        <5>3. QED
          BY <1>1, <2>2, <2>8, <5>2
      <4>5. QED
        BY <2>5, <4>2, <4>3, <4>4
    <3>7. queue'[s] = rest
      BY <1>1, <3>4
    <3>8. SUFFICES ASSUME NEW r \in Session, NEW j \in 1 .. Len(queue'[r])
                   PROVE  /\ pc'[queue'[r][j]] = "sent"
                          /\ From[queue'[r][j]] = r
                          /\ \A k \in 1 .. Len(queue'[r]) :
                               queue'[r][j] = queue'[r][k] => j = k
      BY DEF QueueWaits
    <3>9. CASE r = s
      <4>1. queue'[r] = rest /\ j \in 1 .. Len(rest)
        BY <3>7, <3>9
      <4> HIDE DEF rest, s
      <4> QED
        BY <3>6, <3>9, <4>1
    <3>10. CASE r # s
      BY <3>5, <3>10
    <3>11. QED
      BY <3>9, <3>10
  <2>14. TimerInTurn'
    BY <2>1, <2>2, <2>6 DEF TurnsInv, TimerInTurn, TypeOK
  <2>15. BreachCancels'
    BY <1>4, <2>3, <2>5 DEF TurnsInv, BreachCancels
  <2>16. QED
    BY <1>2, <2>7, <2>9, <2>10, <2>11, <2>12, <2>13, <2>14, <2>15 DEF TurnsInv
<1>8. QED
  BY <1>6, <1>7 DEF Finish

\* A turn that moves on inside its try block leaves all turns in order.
LEMMA MoveTurnsInv ==
  ASSUME TurnsInv, TypeOK', NEW m \in Msg, NEW to \in Live, Active(m),
         breached[m] => to = "cancelling",
         pc' = [pc EXCEPT ![m] = to],
         UNCHANGED <<registered, stopped, isProcessing, controller, queue, aborted,
                     budgetTimer, tripped, breached, arrived, handled>>
  PROVE  TurnsInv'
<1>1. \A x \in Msg : pc'[x] = IF x = m THEN to ELSE pc[x]
  BY DEF TurnsInv, TypeOK
<1>2. \A x \in Msg : Active(x)' <=> Active(x)
  BY <1>1 DEF Active
<1>3. SingleTurn' /\ NoMessageLost'
  BY <1>2 DEF TurnsInv, SingleTurn, NoMessageLost
<1>4. AbortReachesTurn' /\ AbortHasCause' /\ TimerInTurn'
  BY <1>2 DEF TurnsInv, TypeOK, AbortReachesTurn, AbortHasCause, TimerInTurn
<1>5. TurnAnswered' /\ BreachCancels'
  BY <1>1 DEF TurnsInv, TurnAnswered, BreachCancels, Ended, Live, Outcome
<1>6. QueueWaits'
  <2>1. \A s \in Session : \A i \in 1 .. Len(queue[s]) :
          queue[s][i] \in Msg /\ queue[s][i] # m
    BY ElementOfSeq DEF TurnsInv, TypeOK, QueueWaits, Active, Live
  <2>2. QED
    BY <1>1, <2>1 DEF TurnsInv, QueueWaits
<1>7. QED
  BY <1>3, <1>4, <1>5, <1>6 DEF TurnsInv

\* A message that joins the queue of a busy session leaves all turns in order.
LEMMA EnqueueTurnsInv ==
  ASSUME TurnsInv, TypeOK', NEW s \in Session, NEW m \in Msg, EnqueueMessage(s, m)
  PROVE  TurnsInv'
<1> USE ConstantsAssumption
<1> DEFINE q == queue[s]
<1>1. /\ q \in Seq(Msg) /\ handled[s] \in Seq(Msg) /\ arrived[s] \in Seq(Msg)
      /\ Len(q) \in Nat
  BY LenProperties DEF TurnsInv, TypeOK
<1>2. /\ From[m] = s /\ pc[m] = "unsent" /\ isProcessing[s]
      /\ arrived' = [arrived EXCEPT ![s] = Append(@, m)]
      /\ queue' = [queue EXCEPT ![s] = Append(@, m)]
      /\ pc' = [pc EXCEPT ![m] = "sent"]
      /\ UNCHANGED <<registered, stopped, isProcessing, controller, aborted, budgetTimer,
                     tripped, breached, handled>>
  BY DEF EnqueueMessage, Receive, server
<1>3. \A x \in Msg : pc'[x] = IF x = m THEN "sent" ELSE pc[x]
  BY <1>2 DEF TurnsInv, TypeOK
<1>4. \A x \in Msg : Active(x)' <=> Active(x)
  BY <1>2, <1>3 DEF Active, Live
<1>5. SingleTurn'
  BY <1>2, <1>4 DEF TurnsInv, SingleTurn
<1>6. AbortReachesTurn' /\ AbortHasCause' /\ TimerInTurn'
  BY <1>2, <1>4 DEF TurnsInv, TypeOK, AbortReachesTurn, AbortHasCause, TimerInTurn
<1>7. TurnAnswered' /\ BreachCancels'
  BY <1>2, <1>3 DEF TurnsInv, TurnAnswered, BreachCancels, Ended, Outcome
<1>8. NoMessageLost'
  <2>1. handled[s] \o Append(q, m) = Append(handled[s] \o q, m)
    BY <1>1, AppendAfterConcat
  <2>2. QED
    BY <1>1, <1>2, <2>1 DEF TurnsInv, NoMessageLost, TypeOK
<1>9. QueueWaits'
  <2>1. /\ Len(Append(q, m)) = Len(q) + 1
        /\ Append(q, m)[Len(q) + 1] = m
        /\ \A i \in 1 .. Len(q) : Append(q, m)[i] = q[i]
    BY <1>1, AppendProperties
  <2>2. \A r \in Session : \A i \in 1 .. Len(queue[r]) :
          queue[r][i] \in Msg /\ queue[r][i] # m
    BY <1>2, QueuedWait DEF TurnsInv
  <2>3. \A r \in Session : queue'[r] = IF r = s THEN Append(q, m) ELSE queue[r]
    BY <1>2 DEF TurnsInv, TypeOK
  <2>4. SUFFICES ASSUME NEW r \in Session, NEW i \in 1 .. Len(queue'[r])
                 PROVE  /\ pc'[queue'[r][i]] = "sent"
                        /\ From[queue'[r][i]] = r
                        /\ \A j \in 1 .. Len(queue'[r]) :
                             queue'[r][i] = queue'[r][j] => i = j
    BY DEF QueueWaits
  <2>5. CASE r # s
    BY <1>3, <2>2, <2>3, <2>5 DEF TurnsInv, QueueWaits
  <2>6. CASE r = s
    <3>1. queue'[r] = Append(q, m)
      BY <2>3, <2>6
    <3>2. i \in 1 .. Len(q) \/ i = Len(q) + 1
      BY <1>1, <2>1, <3>1
    <3>3. \A k \in 1 .. Len(q) :
            /\ pc[q[k]] = "sent" /\ From[q[k]] = s /\ q[k] \in Msg /\ q[k] # m
            /\ \A l \in 1 .. Len(q) : q[k] = q[l] => k = l
      <4>1. \A k \in 1 .. Len(q) :
              /\ pc[q[k]] = "sent" /\ From[q[k]] = s
              /\ \A l \in 1 .. Len(q) : q[k] = q[l] => k = l
        BY DEF TurnsInv, QueueWaits
      <4>2. QED
        BY <2>2, <4>1
    <3>4. \A j \in 1 .. Len(Append(q, m)) : j \in 1 .. Len(q) \/ j = Len(q) + 1
      BY <1>1, <2>1
    <3>5. CASE i \in 1 .. Len(q)
      BY <1>3, <2>1, <2>6, <3>1, <3>3, <3>4, <3>5
    <3>6. CASE i = Len(q) + 1
      BY <1>2, <1>3, <2>1, <2>6, <3>1, <3>3, <3>4, <3>6
    <3>7. QED
      BY <3>2, <3>5, <3>6
  <2>7. QED
    BY <2>5, <2>6
<1>10. QED
  BY <1>5, <1>6, <1>7, <1>8, <1>9 DEF TurnsInv

\* A message to an idle session, refused or the start of a turn, leaves all turns
\* in order.
LEMMA IdleTurnsInv ==
  ASSUME TurnsInv, TypeOK', NEW s \in Session, NEW m \in Msg,
         RefuseMessage(s, m) \/ StartMessage(s, m)
  PROVE  TurnsInv'
<1> USE ConstantsAssumption
<1>1. /\ From[m] = s /\ pc[m] = "unsent" /\ ~isProcessing[s]
      /\ arrived' = [arrived EXCEPT ![s] = Append(@, m)]
      /\ handled' = [handled EXCEPT ![s] = Append(@, m)]
      /\ UNCHANGED <<registered, stopped, queue, aborted, tripped, breached>>
  BY DEF RefuseMessage, StartMessage, Receive, server, session
<1>2. handled[s] \in Seq(Msg) /\ queue[s] \in Seq(Msg)
  BY DEF TurnsInv, TypeOK
<1>3. \A x \in Msg : Active(x) => From[x] # s
  BY <1>1 DEF TurnsInv, SingleTurn
<1>4. \A r \in Session : \A i \in 1 .. Len(queue[r]) :
        queue[r][i] \in Msg /\ queue[r][i] # m
  BY <1>1, QueuedWait DEF TurnsInv
<1>5. NoMessageLost' /\ AbortHasCause'
  <2>1. ASSUME ~stopped, NEW r \in Session
        PROVE  handled'[r] \o queue'[r] = arrived'[r]
    <3>1. CASE r # s
      BY <1>1, <2>1, <3>1 DEF TurnsInv, TypeOK, NoMessageLost
    <3>2. CASE r = s
      <4>1. queue[s] = <<>> /\ handled[s] \o <<>> = arrived[s]
        BY <1>1, <2>1 DEF TurnsInv, NoMessageLost
      <4>2. handled[s] = arrived[s]
        BY <1>2, <4>1, ConcatEmptySeq
      <4>3. Append(handled[s], m) \o <<>> = Append(handled[s], m)
        BY <1>2, AppendProperties, ConcatEmptySeq
      <4>4. handled'[s] = Append(handled[s], m) /\ arrived'[s] = Append(arrived[s], m)
        BY <1>1 DEF TurnsInv, TypeOK
      <4>5. QED
        BY <1>1, <3>2, <4>1, <4>2, <4>3, <4>4
    <3>3. QED
      BY <3>1, <3>2
  <2>2. ASSUME ~stopped, NEW r \in Session, queue'[r] # <<>>
        PROVE  isProcessing'[r]
    <3>1. isProcessing[r]
      BY <1>1, <2>2 DEF TurnsInv, NoMessageLost
    <3>2. r # s
      BY <1>1, <3>1
    <3>3. isProcessing' \in {isProcessing, [isProcessing EXCEPT ![s] = TRUE]}
      BY DEF RefuseMessage, StartMessage, Begin, session
    <3>4. QED
      BY <3>1, <3>2, <3>3 DEF TurnsInv, TypeOK
  <2>3. QED
    BY <1>1, <2>1, <2>2 DEF TurnsInv, NoMessageLost, AbortHasCause
<1>6. CASE RefuseMessage(s, m)
  <2>1. /\ pc' = [pc EXCEPT ![m] = "sent"]
        /\ UNCHANGED <<isProcessing, controller, budgetTimer>>
    BY <1>6 DEF RefuseMessage, session
  <2>2. \A x \in Msg : pc'[x] = IF x = m THEN "sent" ELSE pc[x]
    BY <2>1 DEF TurnsInv, TypeOK
  <2>3. \A x \in Msg : Active(x)' <=> Active(x)
    BY <1>1, <2>2 DEF Active, Live
  <2>4. SingleTurn' /\ AbortReachesTurn' /\ TimerInTurn'
    BY <1>1, <2>1, <2>3 DEF TurnsInv, TypeOK, SingleTurn, AbortReachesTurn, TimerInTurn
  <2>5. TurnAnswered' /\ BreachCancels'
    BY <1>1, <2>2 DEF TurnsInv, TurnAnswered, BreachCancels, Ended, Outcome
  <2>6. QueueWaits'
    BY <1>1, <1>4, <2>2 DEF TurnsInv, QueueWaits
  <2>7. QED
    BY <1>5, <2>4, <2>5, <2>6 DEF TurnsInv
<1>7. CASE StartMessage(s, m)
  <2>1. /\ pc' = [pc EXCEPT ![m] = "calling"]
        /\ isProcessing' = [isProcessing EXCEPT ![s] = TRUE]
        /\ controller' = [controller EXCEPT ![s] = m]
        /\ budgetTimer' = [budgetTimer EXCEPT ![m] = TRUE]
    BY <1>7 DEF StartMessage, Begin
  <2>2. \A x \in Msg : pc'[x] = IF x = m THEN "calling" ELSE pc[x]
    BY <2>1 DEF TurnsInv, TypeOK
  <2>3. \A x \in Msg : Active(x)' <=> Active(x) \/ x = m
    BY <2>2 DEF Active, Live
  <2>4. SingleTurn'
    <3>1. \A r \in Session : isProcessing'[r] = IF r = s THEN TRUE ELSE isProcessing[r]
      BY <2>1 DEF TurnsInv, TypeOK
    <3>2. QED
      BY <1>1, <1>3, <2>3, <3>1 DEF TurnsInv, SingleTurn
  <2>5. AbortReachesTurn'
    <3>1. \A r \in Session : controller'[r] = IF r = s THEN m ELSE controller[r]
      BY <2>1 DEF TurnsInv, TypeOK
    <3>2. \A x \in Msg : Active(x)' /\ From[x] \in registered' => controller'[From[x]] = x
      BY <1>1, <1>3, <2>3, <3>1 DEF TurnsInv, AbortReachesTurn
    <3>3. ASSUME NEW r \in Session, controller'[r] # NoMsg
          PROVE  (Active(controller[r]) /\ From[controller[r]] = r)'
      <4>1. CASE r = s
        BY <1>1, <2>3, <3>1, <4>1
      <4>2. CASE r # s
        <5>1. /\ controller'[r] = controller[r] /\ controller[r] \in Msg
              /\ Active(controller[r]) /\ From[controller[r]] = r
          BY <3>1, <3>3, <4>2 DEF TurnsInv, TypeOK, AbortReachesTurn
        <5>2. QED
          BY <2>3, <5>1
      <4>3. QED
        BY <4>1, <4>2
    <3>4. QED
      BY <3>2, <3>3 DEF AbortReachesTurn
  <2>6. TimerInTurn'
    BY <2>1, <2>3 DEF TurnsInv, TypeOK, TimerInTurn
  <2>7. TurnAnswered' /\ BreachCancels'
    BY <1>1, <2>2 DEF TurnsInv, TurnAnswered, BreachCancels, Ended, Outcome
  <2>8. QueueWaits'
    BY <1>1, <1>4, <2>2 DEF TurnsInv, QueueWaits
  <2>9. QED
    BY <1>5, <2>4, <2>5, <2>6, <2>7, <2>8 DEF TurnsInv
<1>8. QED
  BY <1>6, <1>7

\* The cleanup of sessions that leave the server leaves all turns in order.
LEMMA CleanupTurnsInv ==
  ASSUME TurnsInv, TypeOK', NEW S \in SUBSET Session, Cleanup(S),
         registered' = registered \ S,
         stopped => stopped',
         UNCHANGED <<isProcessing, queue, pc, budgetTimer, tripped, breached, arrived,
                     handled>>
  PROVE  TurnsInv'
<1> USE ConstantsAssumption
<1>1. \A x \in Msg : (Active(x)' <=> Active(x)) /\ (Ended(x)' <=> Ended(x))
  BY DEF Active, Ended
<1>2. SingleTurn' /\ QueueWaits' /\ TimerInTurn' /\ BreachCancels'
  BY <1>1 DEF TurnsInv, SingleTurn, QueueWaits, TimerInTurn, BreachCancels
<1>3. NoMessageLost'
  BY DEF TurnsInv, NoMessageLost
<1>4. TurnAnswered'
  BY <1>1 DEF TurnsInv, TurnAnswered
<1>5. AbortReachesTurn'
  <2>1. \A s \in Session : controller'[s] = IF s \in S THEN NoMsg ELSE controller[s]
    BY DEF Cleanup
  <2>2. \A m \in Msg : Active(m)' /\ From[m] \in registered' => controller'[From[m]] = m
    BY <1>1, <2>1 DEF TurnsInv, AbortReachesTurn
  <2>3. ASSUME NEW s \in Session, controller'[s] # NoMsg
        PROVE  (Active(controller[s]) /\ From[controller[s]] = s)'
    <3>1. /\ controller'[s] = controller[s] /\ controller[s] \in Msg
          /\ Active(controller[s]) /\ From[controller[s]] = s
      BY <2>1, <2>3 DEF TurnsInv, TypeOK, AbortReachesTurn
    <3>2. QED
      BY <1>1, <3>1
  <2>4. QED
    BY <2>2, <2>3 DEF AbortReachesTurn
<1>6. AbortHasCause'
  <2>1. SUFFICES ASSUME NEW m \in Msg, aborted'[m]
                 PROVE  tripped[m] \/ breached[m] \/ From[m] \notin registered'
    BY DEF AbortHasCause
  <2>2. CASE aborted[m]
    BY <2>2 DEF TurnsInv, AbortHasCause
  <2>3. CASE \E s \in S : controller[s] = m
    BY <2>3 DEF TurnsInv, AbortReachesTurn
  <2>4. QED
    BY <2>1, <2>2, <2>3 DEF Cleanup
<1>7. QED
  BY <1>2, <1>3, <1>4, <1>5, <1>6 DEF TurnsInv

\* What follows the read loop leaves all turns in order.
LEMMA AfterLoopTurnsInv ==
  ASSUME TurnsInv, TypeOK', NEW m \in Msg, Active(m), AfterLoop(m)
  PROVE  TurnsInv'
<1> USE ConstantsAssumption
<1>1. AbortSeen(From[m]) => aborted[m]
  BY ControllerIsOwn DEF TurnsInv, AbortSeen
<1>2. CASE /\ breached[m] \/ (AbortSeen(From[m]) /\ tripped[m])
           /\ Finish(m, "budget")
  BY <1>2, FinishTurnsInv DEF Outcome
<1>3. CASE /\ ~breached[m] /\ AbortSeen(From[m]) /\ ~tripped[m]
           /\ Finish(m, "silent")
  <2>1. From[m] \notin registered
    BY <1>1, <1>3 DEF TurnsInv, AbortHasCause
  <2>2. QED
    BY <1>3, <2>1, FinishTurnsInv DEF Outcome
<1>4. CASE /\ ~breached[m]
           /\ pc' = [pc EXCEPT ![m] = IF aborted[m] THEN "textAborted" ELSE "text"]
           /\ UNCHANGED <<server, session, aborted, budgetTimer, tripped, breached, tools,
                          running, txState, history>>
  <2>1. PICK to \in Live : pc' = [pc EXCEPT ![m] = to]
    BY <1>4 DEF Live
  <2>2. QED
    BY <1>4, <2>1, MoveTurnsInv DEF server, session, history
<1>5. QED
  BY <1>2, <1>3, <1>4 DEF AfterLoop

\* The breach of a limit aborts the turn that breached it.
LEMMA BreachTurnsInv ==
  ASSUME TurnsInv, TypeOK', NEW m \in Msg, ReadBreach(m)
  PROVE  TurnsInv'
<1> USE ConstantsAssumption
<1>1. /\ pc[m] = "reading"
      /\ breached' = [breached EXCEPT ![m] = TRUE]
      /\ aborted' = [x \in Msg |-> aborted[x] \/ controller[From[m]] = x]
      /\ pc' = [pc EXCEPT ![m] = "cancelling"]
      /\ UNCHANGED <<registered, stopped, isProcessing, controller, queue, budgetTimer,
                     tripped, arrived, handled>>
  BY DEF ReadBreach, AbortCurrent, server, session, history
<1>2. \A x \in Msg : pc'[x] = IF x = m THEN "cancelling" ELSE pc[x]
  BY <1>1 DEF TurnsInv, TypeOK
<1>3. Active(m) /\ \A x \in Msg : Active(x)' <=> Active(x)
  BY <1>1, <1>2 DEF Active, Live
<1>4. \A x \in Msg : aborted'[x] => aborted[x] \/ x = m
  BY <1>1, <1>3, ControllerIsOwn DEF TurnsInv
<1>5. \A x \in Msg : breached'[x] <=> breached[x] \/ x = m
  BY <1>1 DEF TurnsInv, TypeOK
<1>6. SingleTurn' /\ NoMessageLost'
  BY <1>1, <1>3 DEF TurnsInv, SingleTurn, NoMessageLost
<1>7. AbortReachesTurn' /\ AbortHasCause' /\ TimerInTurn'
  BY <1>1, <1>3, <1>4, <1>5
     DEF TurnsInv, TypeOK, AbortReachesTurn, AbortHasCause, TimerInTurn
<1>8. TurnAnswered' /\ BreachCancels'
  BY <1>1, <1>2, <1>5 DEF TurnsInv, TurnAnswered, BreachCancels, Ended, Outcome
<1>9. QueueWaits'
  <2>1. \A s \in Session : \A i \in 1 .. Len(queue[s]) :
          queue[s][i] \in Msg /\ queue[s][i] # m
    BY <1>1, QueuedWait DEF TurnsInv
  <2>2. QED
    BY <1>1, <1>2, <2>1 DEF TurnsInv, QueueWaits
<1>10. QED
  BY <1>6, <1>7, <1>8, <1>9 DEF TurnsInv

\* The budget timer aborts the turn it was armed for.
LEMMA BudgetTurnsInv ==
  ASSUME TurnsInv, TypeOK', NEW m \in Msg, BudgetFires(m)
  PROVE  TurnsInv'
<1> USE ConstantsAssumption
<1>1. /\ budgetTimer[m]
      /\ budgetTimer' = [budgetTimer EXCEPT ![m] = FALSE]
      /\ tripped' = [tripped EXCEPT ![m] = TRUE]
      /\ aborted' = [x \in Msg |-> aborted[x] \/ controller[From[m]] = x]
      /\ UNCHANGED <<registered, stopped, isProcessing, controller, queue, pc, breached,
                     arrived, handled>>
  BY DEF BudgetFires, AbortCurrent, server, session, history
<1>2. Active(m)
  BY <1>1 DEF TurnsInv, TimerInTurn
<1>3. \A x \in Msg : (Active(x)' <=> Active(x)) /\ (Ended(x)' <=> Ended(x))
  BY <1>1 DEF Active, Ended
<1>4. \A x \in Msg : aborted'[x] => aborted[x] \/ x = m
  BY <1>1, <1>2, ControllerIsOwn DEF TurnsInv
<1>5. \A x \in Msg : tripped'[x] <=> tripped[x] \/ x = m
  BY <1>1 DEF TurnsInv, TypeOK
<1>6. SingleTurn' /\ NoMessageLost' /\ QueueWaits' /\ BreachCancels'
  <2>1. SingleTurn' /\ NoMessageLost'
    BY <1>1, <1>3 DEF TurnsInv, SingleTurn, NoMessageLost
  <2>2. QueueWaits'
    BY <1>1 DEF TurnsInv, QueueWaits
  <2>3. BreachCancels'
    BY <1>1 DEF TurnsInv, BreachCancels
  <2>4. QED
    BY <2>1, <2>2, <2>3
<1>7. AbortReachesTurn' /\ AbortHasCause' /\ TimerInTurn'
  BY <1>1, <1>3, <1>4, <1>5
     DEF TurnsInv, TypeOK, AbortReachesTurn, AbortHasCause, TimerInTurn
<1>8. TurnAnswered'
  BY <1>1, <1>3, <1>5 DEF TurnsInv, TurnAnswered
<1>9. QED
  BY <1>6, <1>7, <1>8 DEF TurnsInv

\* A step that touches neither turns nor queues leaves them in order.
LEMMA QuietTurnsInv ==
  ASSUME TurnsInv, TypeOK',
         UNCHANGED <<registered, stopped, isProcessing, controller, queue, pc, aborted,
                     budgetTimer, tripped, breached, arrived, handled>>
  PROVE  TurnsInv'
<1>1. \A x \in Msg : (Active(x)' <=> Active(x)) /\ (Ended(x)' <=> Ended(x))
  BY DEF Active, Ended
<1>2. SingleTurn' /\ NoMessageLost'
  BY <1>1 DEF TurnsInv, SingleTurn, NoMessageLost
<1>3. AbortReachesTurn'
  BY <1>1 DEF TurnsInv, TypeOK, AbortReachesTurn
<1>4. AbortHasCause' /\ TurnAnswered' /\ TimerInTurn'
  BY <1>1 DEF TurnsInv, AbortHasCause, TurnAnswered, TimerInTurn
<1>5. QueueWaits'
  BY DEF TurnsInv, QueueWaits
<1>6. BreachCancels'
  BY DEF TurnsInv, BreachCancels
<1>7. QED
  BY <1>2, <1>3, <1>4, <1>5, <1>6 DEF TurnsInv

\* The turns of all sessions stay in order, whatever interleaves with them.
THEOREM TurnsInOrder == Spec => []TurnsInv
<1> USE ConstantsAssumption
<1>1. Init => TurnsInv
  <2> SUFFICES ASSUME Init
               PROVE  TurnsInv
    OBVIOUS
  <2>1. TypeOK
    BY InitTypeOK
  <2>2. \A m \in Msg : ~Active(m) /\ ~Ended(m)
    BY DEF Init, Active, Ended, Live, Outcome
  <2>3. <<>> \o <<>> = <<>> /\ Len(<<>>) = 0
    OBVIOUS
  <2>4. QED
    BY <2>1, <2>2, <2>3 DEF Init, TurnsInv, SingleTurn, NoMessageLost, AbortReachesTurn,
         AbortHasCause, TurnAnswered, QueueWaits, TimerInTurn, BreachCancels
<1>2. TurnsInv /\ [Next]_vars => TurnsInv'
  <2> SUFFICES ASSUME TurnsInv, [Next]_vars
               PROVE  TurnsInv'
    OBVIOUS
  <2>1. TypeOK'
    BY TypeOKStep DEF TurnsInv
  <2>2. ASSUME NEW s \in Session, NEW m \in Msg,
               EnqueueMessage(s, m) \/ RefuseMessage(s, m) \/ StartMessage(s, m)
        PROVE  TurnsInv'
    BY <2>1, <2>2, EnqueueTurnsInv, IdleTurnsInv
  <2>3. ASSUME NEW m \in Msg, StreamOpens(m)
        PROVE  TurnsInv'
    <3>1. Active(m) /\ ~breached[m] /\ LoopTop(m) \in Live
      BY <2>3 DEF StreamOpens, LoopTop, Active, Live, TurnsInv, BreachCancels
    <3>2. QED
      BY <2>1, <2>3, <3>1, MoveTurnsInv DEF StreamOpens, server, session, history
  <2>4. ASSUME NEW m \in Msg, ReadChunk(m)
        PROVE  TurnsInv'
    <3>1. Active(m) /\ ~breached[m] /\ LoopTop(m) \in Live
      BY <2>4 DEF ReadChunk, LoopTop, Active, Live, TurnsInv, BreachCancels
    <3>2. QED
      BY <2>1, <2>4, <3>1, MoveTurnsInv DEF ReadChunk, server, session, history
  <2>5. ASSUME NEW m \in Msg, ReadBreach(m)
        PROVE  TurnsInv'
    BY <2>1, <2>5, BreachTurnsInv
  <2>6. ASSUME NEW m \in Msg, CancelSettles(m) \/ ReadDone(m)
        PROVE  TurnsInv'
    <3>1. Active(m) /\ AfterLoop(m)
      BY <2>6 DEF CancelSettles, ReadDone, Active, Live
    <3>2. QED
      BY <2>1, <3>1, AfterLoopTurnsInv
  <2>7. ASSUME NEW m \in Msg, TextSettles(m) \/ TextAfterAbort(m)
        PROVE  TurnsInv'
    <3>1. /\ Active(m) /\ ~breached[m]
          /\ Finish(m, "answer") /\ "answer" \in Outcome
      BY <2>7 DEF TextSettles, TextAfterAbort, Active, Live, Outcome, TurnsInv, BreachCancels
    <3>2. QED
      BY <3>1, FinishTurnsInv
  <2>8. ASSUME NEW m \in Msg, Throws(m)
        PROVE  TurnsInv'
    <3>1. /\ Active(m) /\ ~breached[m]
          /\ "error" \in Outcome /\ "silent" \in Outcome
      BY <2>8 DEF Throws, Active, Live, Outcome, TurnsInv, BreachCancels
    <3>2. CASE Finish(m, "error")
      BY <3>1, <3>2, FinishTurnsInv
    <3>3. CASE aborted[m] /\ Finish(m, "silent")
      <4>1. From[m] \in registered => tripped[m]
        BY <3>1, <3>3 DEF TurnsInv, AbortHasCause
      <4>2. QED
        BY <3>1, <3>3, <4>1, FinishTurnsInv
    <3>4. QED
      BY <2>8, <3>2, <3>3 DEF Throws
  <2>9. ASSUME NEW m \in Msg, BudgetFires(m)
        PROVE  TurnsInv'
    BY <2>1, <2>9, BudgetTurnsInv
  <2>10. ASSUME NEW m \in Msg, AgentStops(m)
         PROVE  TurnsInv'
    BY <2>1, <2>10, QuietTurnsInv DEF AgentStops, server, session, history
  <2>11. ASSUME NEW t \in Tx, AwaitTransaction(t) \/ TxTimesOut(t)
         PROVE  TurnsInv'
    BY <2>1, <2>11, QuietTurnsInv DEF AwaitTransaction, TxTimesOut, server, turn, history
  <2>12. ASSUME NEW s \in Session, NEW t \in Tx, HandleTxResult(s, t) \/ HandleTxError(s, t)
         PROVE  TurnsInv'
    BY <2>1, <2>12, QuietTurnsInv DEF HandleTxResult, HandleTxError, server, turn, history
  <2>13. ASSUME NEW s \in Session, Disconnect(s)
         PROVE  TurnsInv'
    <3> DEFINE S == {s} \cap registered
    <3>1. S \in SUBSET Session /\ registered' = registered \ S
      BY <2>13 DEF Disconnect
    <3>2. QED
      BY <2>1, <2>13, <3>1, CleanupTurnsInv DEF Disconnect, history
  <2>14. CASE Stop
    <3>1. registered \in SUBSET Session /\ registered' = registered \ registered
      BY <2>14 DEF Stop, TurnsInv, TypeOK
    <3>2. QED
      BY <2>1, <2>14, <3>1, CleanupTurnsInv DEF Stop, history
  <2>15. CASE UNCHANGED vars
    BY <2>1, <2>15, QuietTurnsInv DEF vars, server, session, turn, history
  <2>16. QED
    BY <2>2, <2>3, <2>4, <2>5, <2>6, <2>7, <2>8, <2>9, <2>10, <2>11, <2>12, <2>13,
       <2>14, <2>15 DEF Next, TurnStep
<1>3. QED
  BY <1>1, <1>2, PTL DEF Spec

\* A session never runs two turns, and isProcessing tells whether it runs one.
THEOREM OneTurnAtATime == Spec => []SingleTurn
<1>1. TurnsInv => SingleTurn
  BY DEF TurnsInv
<1>2. QED
  BY <1>1, TurnsInOrder, PTL

\* Messages are handled in arrival order and none is lost or forgotten.
THEOREM MessagesKept == Spec => []NoMessageLost
<1>1. TurnsInv => NoMessageLost
  BY DEF TurnsInv
<1>2. QED
  BY <1>1, TurnsInOrder, PTL

\* The abort of a session reaches its turn, and no other.
THEOREM AbortsArrive == Spec => []AbortReachesTurn
<1>1. TurnsInv => AbortReachesTurn
  BY DEF TurnsInv
<1>2. QED
  BY <1>1, TurnsInOrder, PTL

\* No turn is aborted by what another turn left behind.
THEOREM AbortsJustified == Spec => []AbortHasCause
<1>1. TurnsInv => AbortHasCause
  BY DEF TurnsInv
<1>2. QED
  BY <1>1, TurnsInOrder, PTL

\* A turn over its limits tells the client.
THEOREM BreachesTold == Spec => []TurnAnswered
<1>1. TurnsInv => TurnAnswered
  BY DEF TurnsInv
<1>2. QED
  BY <1>1, TurnsInOrder, PTL

-----------------------------------------------------------------------------
(***************************************************************************)
(* The time budget.                                                        *)
(***************************************************************************)

\* Steps that start no turn and take nothing away from those under way.
LEMMA SteadyTurnHeld ==
  ASSUME TurnHeld, registered' \subseteq registered,
         \A m \in Msg : /\ Active(m)' => Active(m)
                        /\ aborted[m] => aborted'[m]
                        /\ Active(m) /\ ~aborted'[m] =>
                             /\ budgetTimer[m] => budgetTimer'[m]
                             /\ controller'[From[m]] = controller[From[m]]
                        /\ pc'[m] = "textAborted" /\ pc[m] # "textAborted" =>
                             From[m] \notin registered
  PROVE  TurnHeld'
  BY DEF TurnHeld

\* A turn that goes on stays held.
LEMMA MoveTurnHeld ==
  ASSUME TurnsInv, TurnHeld, NEW m \in Msg, Active(m), NEW to \in Live,
         pc' = [pc EXCEPT ![m] = to],
         to = "textAborted" => From[m] \notin registered,
         \A x \in Msg : aborted[x] => aborted'[x],
         UNCHANGED <<registered, controller, budgetTimer>>
  PROVE  TurnHeld'
<1>1. \A x \in Msg : pc'[x] = IF x = m THEN to ELSE pc[x]
  BY DEF TurnsInv, TypeOK
<1>2. \A x \in Msg : Active(x)' => Active(x)
  BY <1>1 DEF Active
<1> QED
  BY <1>1, <1>2, SteadyTurnHeld

\* The turn that begins is held by its own timer and controller; no other turn of the
\* session is there to lose its own.
LEMMA BegunTurnHeld ==
  ASSUME TurnHeld, NEW s \in Session, NEW n \in Msg, From[n] = s,
         controller'[s] = n, budgetTimer'[n], pc'[n] = "calling",
         \A r \in Session : r # s => controller'[r] = controller[r],
         \A x \in Msg : Active(x)' /\ x # n => Active(x) /\ From[x] # s,
         \A x \in Msg : /\ Active(x)' /\ x # n => budgetTimer'[x] = budgetTimer[x]
                        /\ pc'[x] = "textAborted" => pc[x] = "textAborted",
         UNCHANGED <<registered, aborted>>
  PROVE  TurnHeld'
<1> USE ConstantsAssumption
<1>1. ASSUME NEW x \in Msg, Active(x)'
      PROVE  /\ budgetTimer'[x] \/ aborted'[x]
             /\ controller'[From[x]] = x \/ aborted'[x]
  <2>1. CASE x = n
    BY <2>1
  <2>2. CASE x # n
    <3>1. /\ Active(x) /\ From[x] # s /\ From[x] \in Session
          /\ budgetTimer'[x] = budgetTimer[x]
      BY <1>1, <2>2
    <3> QED
      BY <3>1 DEF TurnHeld
  <2> QED
    BY <2>1, <2>2
<1> QED
  BY <1>1 DEF TurnHeld

\* The end of a turn, with the turn that it starts.
LEMMA FinishTurnHeld ==
  ASSUME TurnsInv, TurnHeld, NEW m \in Msg, NEW how \in Outcome, Active(m), Finish(m, how)
  PROVE  TurnHeld'
<1> USE ConstantsAssumption
<1> DEFINE s == From[m]
           q == queue[s]
<1>1. /\ s \in Session /\ q \in Seq(Msg) /\ Len(q) \in Nat
      /\ \A i \in 1 .. Len(q) : q[i] \in Msg
  BY ElementOfSeq, LenProperties DEF TurnsInv, TypeOK
<1>2. how \notin Live /\ how # "textAborted" /\ "calling" # "textAborted"
  BY DEF Live, Outcome
<1>3. UNCHANGED <<registered, aborted>>
  BY DEF Finish, server
<1>4. \A x \in Msg : Active(x) /\ From[x] = s => x = m
  BY DEF TurnsInv, SingleTurn
<1>5. CASE FinishIdle(m, how)
  <2>1. /\ \A x \in Msg : pc'[x] = IF x = m THEN how ELSE pc[x]
        /\ \A x \in Msg : x # m => budgetTimer'[x] = budgetTimer[x]
        /\ \A r \in Session : r # s => controller'[r] = controller[r]
    BY <1>5 DEF FinishIdle, TurnsInv, TypeOK
  <2>2. \A x \in Msg : Active(x)' => Active(x) /\ x # m /\ From[x] # s /\ From[x] \in Session
    BY <1>2, <1>4, <2>1 DEF Active
  <2> QED
    BY <1>2, <1>3, <2>1, <2>2 DEF TurnHeld
<1>6. CASE FinishAndStart(m, how)
  <2>1. PICK i \in FirstChat(q) :
          /\ Begin(s, q[i])
          /\ pc' = [pc EXCEPT ![m] = how, ![q[i]] = "calling"]
          /\ budgetTimer' = [budgetTimer EXCEPT ![m] = FALSE, ![q[i]] = TRUE]
    BY <1>6 DEF FinishAndStart
  <2>2. i \in 1 .. Len(q) /\ q[i] \in Msg
    BY <1>1, <2>1 DEF FirstChat
  <2>3. From[q[i]] = s /\ pc[q[i]] = "sent" /\ q[i] # m
    BY <1>1, <2>2 DEF TurnsInv, QueueWaits, Active, Live
  <2>4. \A x \in Msg : pc'[x] = IF x = q[i] THEN "calling" ELSE IF x = m THEN how ELSE pc[x]
    BY <2>1, <2>2, <2>3 DEF TurnsInv, TypeOK
  <2>5. \A x \in Msg : budgetTimer'[x] = IF x = q[i] THEN TRUE
                                         ELSE IF x = m THEN FALSE ELSE budgetTimer[x]
    BY <2>1, <2>2, <2>3 DEF TurnsInv, TypeOK
  <2>6. \A r \in Session : controller'[r] = IF r = s THEN q[i] ELSE controller[r]
    BY <2>1 DEF Begin, TurnsInv, TypeOK
  <2>7. \A x \in Msg : Active(x)' /\ x # q[i] => Active(x) /\ x # m /\ From[x] # s
    BY <1>2, <1>4, <2>4 DEF Active
  <2>8. controller'[s] = q[i] /\ budgetTimer'[q[i]] /\ pc'[q[i]] = "calling"
    BY <1>1, <2>2, <2>4, <2>5, <2>6
  <2>9. \A x \in Msg : /\ Active(x)' /\ x # q[i] => budgetTimer'[x] = budgetTimer[x]
                       /\ pc'[x] = "textAborted" => pc[x] = "textAborted"
    BY <1>2, <2>4, <2>5, <2>7
  <2> HIDE DEF s, q
  <2> QED
    BY <1>1, <1>3, <2>2, <2>3, <2>6, <2>7, <2>8, <2>9, BegunTurnHeld
<1> QED
  BY <1>5, <1>6 DEF Finish

\* The read loop is over: the turn ends, or waits for its text.
LEMMA AfterLoopTurnHeld ==
  ASSUME TurnsInv, TurnHeld, NEW m \in Msg, Active(m), AfterLoop(m)
  PROVE  TurnHeld'
<1> USE ConstantsAssumption
<1>1. CASE Finish(m, "budget") \/ Finish(m, "silent")
  BY <1>1, FinishTurnHeld DEF Outcome
<1>2. CASE /\ ~AbortSeen(From[m])
           /\ pc' = [pc EXCEPT ![m] = IF aborted[m] THEN "textAborted" ELSE "text"]
           /\ UNCHANGED <<server, session, aborted, budgetTimer>>
  <2>1. aborted[m] => From[m] \notin registered
    <3> SUFFICES ASSUME aborted[m], From[m] \in registered
                 PROVE  FALSE
      OBVIOUS
    <3>1. controller[From[m]] = m /\ m # NoMsg
      BY DEF TurnsInv, AbortReachesTurn
    <3> QED
      BY <1>2, <3>1 DEF AbortSeen
  <2>2. PICK to \in Live : /\ pc' = [pc EXCEPT ![m] = to]
                           /\ to = "textAborted" => From[m] \notin registered
    BY <1>2, <2>1 DEF Live
  <2> QED
    BY <1>2, <2>2, MoveTurnHeld DEF server, session
<1> QED
  BY <1>1, <1>2 DEF AfterLoop

\* The timer that fires stops the turn it belongs to.
LEMMA BudgetTurnHeld ==
  ASSUME TurnsInv, TurnHeld, NEW m \in Msg, BudgetFires(m)
  PROVE  TurnHeld'
<1>1. /\ \A x \in Msg : x # m => budgetTimer'[x] = budgetTimer[x]
      /\ aborted' = [x \in Msg |-> aborted[x] \/ controller[From[m]] = x]
      /\ UNCHANGED <<registered, controller, pc>>
  BY DEF BudgetFires, AbortCurrent, server, session, TurnsInv, TypeOK
<1>2. Active(m)
  BY DEF BudgetFires, TurnsInv, TimerInTurn
<1>3. aborted'[m]
  BY <1>1, <1>2 DEF TurnHeld
<1>4. \A x \in Msg : Active(x)' <=> Active(x)
  BY <1>1 DEF Active
<1> QED
  BY <1>1, <1>3, <1>4, SteadyTurnHeld

\* The cleanup stops the turns whose controllers it forgets.
LEMMA CleanupTurnHeld ==
  ASSUME TurnHeld, NEW S \in SUBSET Session, Cleanup(S), registered' \subseteq registered,
         UNCHANGED <<pc, budgetTimer>>
  PROVE  TurnHeld'
<1> USE ConstantsAssumption
<1>1. /\ \A x \in Msg : aborted'[x] <=> aborted[x] \/ \E s \in S : controller[s] = x
      /\ \A s \in Session : controller'[s] = IF s \in S THEN NoMsg ELSE controller[s]
  BY DEF Cleanup
<1>2. \A x \in Msg : Active(x)' <=> Active(x)
  BY DEF Active
<1>3. ASSUME NEW x \in Msg, Active(x), ~aborted'[x]
      PROVE  controller'[From[x]] = controller[From[x]]
  <2>1. From[x] \in Session /\ controller[From[x]] = x
    BY <1>1, <1>3 DEF TurnHeld
  <2> QED
    BY <1>1, <1>3, <2>1
<1> QED
  BY <1>1, <1>2, <1>3, SteadyTurnHeld

\* Whatever the agent does, and whatever messages, breaches, disconnects and a shutdown
\* do meanwhile, no turn escapes its time budget: the part of TurnEnds that is a matter
\* of safety.
THEOREM NoTurnEscapes == Spec => []TurnHeld
<1> USE ConstantsAssumption
<1>1. Init => TurnHeld
  BY DEF Init, TurnHeld, Active, Live
<1>2. TurnsInv /\ TurnHeld /\ [Next]_vars => TurnHeld'
  <2> SUFFICES ASSUME TurnsInv, TurnHeld, [Next]_vars
               PROVE  TurnHeld'
    OBVIOUS
  <2>1. ASSUME UNCHANGED <<registered, controller, pc, aborted, budgetTimer>>
        PROVE  TurnHeld'
    BY <2>1 DEF TurnHeld, Active
  <2>2. ASSUME NEW s \in Session, NEW m \in Msg, EnqueueMessage(s, m) \/ RefuseMessage(s, m)
        PROVE  TurnHeld'
    <3>1. \A x \in Msg : pc'[x] = IF x = m THEN "sent" ELSE pc[x]
      BY <2>2 DEF EnqueueMessage, RefuseMessage, TurnsInv, TypeOK
    <3>2. \A x \in Msg : Active(x)' => Active(x)
      BY <3>1 DEF Active, Live
    <3>3. UNCHANGED <<registered, controller, aborted, budgetTimer>>
      BY <2>2 DEF EnqueueMessage, RefuseMessage, server, session
    <3> QED
      BY <3>1, <3>2, <3>3, SteadyTurnHeld
  <2>3. ASSUME NEW s \in Session, NEW m \in Msg, StartMessage(s, m)
        PROVE  TurnHeld'
    <3>1. /\ From[m] = s /\ ~isProcessing[s]
          /\ \A x \in Msg : pc'[x] = IF x = m THEN "calling" ELSE pc[x]
          /\ \A x \in Msg : budgetTimer'[x] = IF x = m THEN TRUE ELSE budgetTimer[x]
          /\ \A r \in Session : controller'[r] = IF r = s THEN m ELSE controller[r]
      BY <2>3 DEF StartMessage, Receive, Begin, TurnsInv, TypeOK
    <3>2. \A x \in Msg : ~(Active(x) /\ From[x] = s)
      BY <3>1 DEF TurnsInv, SingleTurn
    <3>3. \A x \in Msg : Active(x)' /\ x # m => Active(x) /\ From[x] # s
      BY <3>1, <3>2 DEF Active
    <3>4. UNCHANGED <<registered, aborted>>
      BY <2>3 DEF StartMessage, server
    <3>5. controller'[s] = m /\ budgetTimer'[m] /\ pc'[m] = "calling"
      BY <3>1
    <3>6. \A x \in Msg : /\ Active(x)' /\ x # m => budgetTimer'[x] = budgetTimer[x]
                         /\ pc'[x] = "textAborted" => pc[x] = "textAborted"
      BY <3>1
    <3> QED
      BY <3>1, <3>3, <3>4, <3>5, <3>6, BegunTurnHeld
  <2>4. ASSUME NEW m \in Msg, StreamOpens(m) \/ ReadChunk(m)
        PROVE  TurnHeld'
    <3>1. /\ Active(m) /\ LoopTop(m) \in Live /\ LoopTop(m) # "textAborted"
          /\ pc' = [pc EXCEPT ![m] = LoopTop(m)]
          /\ UNCHANGED <<registered, controller, aborted, budgetTimer>>
      BY <2>4 DEF StreamOpens, ReadChunk, LoopTop, Active, Live, server, session
    <3> QED
      BY <3>1, MoveTurnHeld
  <2>5. ASSUME NEW m \in Msg, ReadBreach(m)
        PROVE  TurnHeld'
    <3>1. /\ Active(m) /\ "cancelling" \in Live
          /\ pc' = [pc EXCEPT ![m] = "cancelling"]
          /\ \A x \in Msg : aborted[x] => aborted'[x]
          /\ UNCHANGED <<registered, controller, budgetTimer>>
      BY <2>5 DEF ReadBreach, AbortCurrent, Active, Live, server, session
    <3> QED
      BY <3>1, MoveTurnHeld
  <2>6. ASSUME NEW m \in Msg, CancelSettles(m) \/ ReadDone(m)
        PROVE  TurnHeld'
    <3>1. Active(m) /\ AfterLoop(m)
      BY <2>6 DEF CancelSettles, ReadDone, Active, Live
    <3> QED
      BY <3>1, AfterLoopTurnHeld
  <2>7. ASSUME NEW m \in Msg, TextSettles(m) \/ TextAfterAbort(m) \/ Throws(m)
        PROVE  TurnHeld'
    <3>1. Active(m) /\ \E how \in Outcome : Finish(m, how)
      BY <2>7 DEF TextSettles, TextAfterAbort, Throws, Active, Live, Outcome
    <3> QED
      BY <3>1, FinishTurnHeld
  <2>8. ASSUME NEW m \in Msg, BudgetFires(m)
        PROVE  TurnHeld'
    BY <2>8, BudgetTurnHeld
  <2>9. ASSUME NEW m \in Msg, AgentStops(m)
        PROVE  TurnHeld'
    BY <2>1, <2>9 DEF AgentStops, server, session
  <2>10. ASSUME NEW t \in Tx, AwaitTransaction(t) \/ TxTimesOut(t)
         PROVE  TurnHeld'
    BY <2>1, <2>10 DEF AwaitTransaction, TxTimesOut, server, turn
  <2>11. ASSUME NEW s \in Session, NEW t \in Tx, HandleTxResult(s, t) \/ HandleTxError(s, t)
         PROVE  TurnHeld'
    BY <2>1, <2>11 DEF HandleTxResult, HandleTxError, server, turn
  <2>12. ASSUME NEW s \in Session, Disconnect(s)
         PROVE  TurnHeld'
    BY <2>12, CleanupTurnHeld DEF Disconnect
  <2>13. CASE Stop
    <3>1. registered \in SUBSET Session /\ registered' \subseteq registered
      BY <2>13 DEF Stop, TurnsInv, TypeOK
    <3> QED
      BY <2>13, <3>1, CleanupTurnHeld DEF Stop
  <2>14. CASE UNCHANGED vars
    BY <2>1, <2>14 DEF vars, server, session, turn
  <2> QED
    BY <2>2, <2>3, <2>4, <2>5, <2>6, <2>7, <2>8, <2>9, <2>10, <2>11, <2>12, <2>13, <2>14
       DEF Next, TurnStep
<1>3. QED
  BY <1>1, <1>2, TurnsInOrder, PTL DEF Spec

-----------------------------------------------------------------------------
(***************************************************************************)
(* Transactions.                                                           *)
(***************************************************************************)

\* What a step may do to the transactions of all sessions.
TxInv == TypeOK /\ PendingTxReachable /\ ResolvedByOwnClient

\* A promise that is settled and struck off in one go stays reachable, and
\* resolved only by its own client.
LEMMA SettleTxInv ==
  ASSUME TxInv, TypeOK', NEW s \in Session, NEW t \in Tx, t \in pendingTx[s],
         NEW how \in {"resolved", "rejected", "timedout"}, Settle(s, t, how),
         signedBy \subseteq signedBy',
         how = "resolved" => <<s, t>> \in signedBy'
  PROVE  TxInv'
<1> USE ConstantsAssumption
<1>1. \A u \in Tx : txState'[u] = IF u = t THEN how ELSE txState[u]
  BY DEF TxInv, TypeOK, Settle, PendingTxReachable
<1>2. \A r \in Session : pendingTx'[r] = IF r = s THEN pendingTx[r] \ {t} ELSE pendingTx[r]
  BY DEF TxInv, TypeOK, Settle
<1>3. txState[t] = "pending" /\ s = From[Opener[t]]
  BY DEF TxInv, PendingTxReachable
<1>4. PendingTxReachable'
  <2>1. SUFFICES ASSUME NEW u \in Tx, NEW r \in Session
                 PROVE  u \in pendingTx'[r] <=> txState'[u] = "pending" /\ r = From[Opener[u]]
    BY DEF PendingTxReachable
  <2>2. u \in pendingTx[r] <=> txState[u] = "pending" /\ r = From[Opener[u]]
    BY DEF TxInv, PendingTxReachable
  <2>3. CASE u = t
    BY <1>1, <1>2, <1>3, <2>2, <2>3
  <2>4. CASE u # t
    BY <1>1, <1>2, <2>2, <2>4
  <2>5. QED
    BY <2>3, <2>4
<1>5. ResolvedByOwnClient'
  BY <1>1, <1>3 DEF TxInv, ResolvedByOwnClient
<1>6. QED
  BY <1>4, <1>5 DEF TxInv

\* The cleanup settles what it strikes off.
LEMMA CleanupTxInv ==
  ASSUME TxInv, TypeOK', NEW S \in SUBSET Session, Cleanup(S), UNCHANGED signedBy
  PROVE  TxInv'
<1> USE ConstantsAssumption
<1>1. \A t \in Tx : txState'[t] = IF \E s \in S : t \in pendingTx[s]
                                    THEN "rejected" ELSE txState[t]
  BY DEF Cleanup
<1>2. \A s \in Session : pendingTx'[s] = IF s \in S THEN {} ELSE pendingTx[s]
  BY DEF Cleanup
<1>3. PendingTxReachable'
  BY <1>1, <1>2 DEF TxInv, PendingTxReachable
<1>4. ResolvedByOwnClient'
  BY <1>1 DEF TxInv, ResolvedByOwnClient
<1>5. QED
  BY <1>3, <1>4 DEF TxInv

\* The invariant of the transactions.
LEMMA TxInOrder == Spec => []TxInv
<1> USE ConstantsAssumption
<1>1. Init => TxInv
  BY InitTypeOK DEF Init, TxInv, PendingTxReachable, ResolvedByOwnClient
<1>2. TxInv /\ [Next]_vars => TxInv'
  <2> SUFFICES ASSUME TxInv, [Next]_vars
               PROVE  TxInv'
    OBVIOUS
  <2>1. TypeOK'
    BY TypeOKStep DEF TxInv
  <2>2. ASSUME UNCHANGED <<pendingTx, txState, signedBy>>
        PROVE  TxInv'
    BY <2>1, <2>2 DEF TxInv, PendingTxReachable, ResolvedByOwnClient
  <2>3. ASSUME NEW s \in Session, NEW m \in Msg,
               EnqueueMessage(s, m) \/ RefuseMessage(s, m) \/ StartMessage(s, m)
        PROVE  TxInv'
    BY <2>2, <2>3 DEF EnqueueMessage, RefuseMessage, StartMessage, session
  <2>4. ASSUME NEW m \in Msg, TurnStep(m)
        PROVE  TxInv'
    BY <2>2, <2>4 DEF TurnStep, StreamOpens, ReadChunk, ReadBreach, CancelSettles,
         ReadDone, AfterLoop, TextSettles, TextAfterAbort, Throws, Finish, BudgetFires,
         AgentStops, session, history
  <2>5. ASSUME NEW t \in Tx, AwaitTransaction(t)
        PROVE  TxInv'
    <3>1. /\ From[Opener[t]] \in Session /\ txState[t] = "unused"
          /\ \A u \in Tx : txState'[u] = IF u = t THEN "pending" ELSE txState[u]
          /\ \A r \in Session : pendingTx'[r] = IF r = From[Opener[t]]
                                  THEN pendingTx[r] \cup {t} ELSE pendingTx[r]
          /\ UNCHANGED signedBy
      BY <2>5 DEF AwaitTransaction, TxInv, TypeOK, history
    <3>2. PendingTxReachable'
      <4>1. SUFFICES ASSUME NEW u \in Tx, NEW r \in Session
                     PROVE  u \in pendingTx'[r] <=>
                              txState'[u] = "pending" /\ r = From[Opener[u]]
        BY DEF PendingTxReachable
      <4>2. u \in pendingTx[r] <=> txState[u] = "pending" /\ r = From[Opener[u]]
        BY DEF TxInv, PendingTxReachable
      <4>3. CASE u = t
        BY <3>1, <4>2, <4>3
      <4>4. CASE u # t
        <5>1. txState'[u] = txState[u]
          BY <3>1, <4>4
        <5>2. u \in pendingTx'[r] <=> u \in pendingTx[r]
          <6>1. pendingTx'[r] \in {pendingTx[r], pendingTx[r] \cup {t}}
            BY <3>1
          <6>2. QED
            BY <4>4, <6>1
        <5>3. QED
          BY <4>2, <5>1, <5>2
      <4>5. QED
        BY <4>3, <4>4
    <3>3. ResolvedByOwnClient'
      BY <3>1 DEF TxInv, ResolvedByOwnClient
    <3>4. QED
      BY <2>1, <3>2, <3>3 DEF TxInv
  <2>6. ASSUME NEW t \in Tx, TxTimesOut(t)
        PROVE  TxInv'
    <3>1. From[Opener[t]] \in Session /\ t \in pendingTx[From[Opener[t]]]
      BY <2>6 DEF TxTimesOut, TxInv, PendingTxReachable
    <3>2. QED
      BY <2>1, <2>6, <3>1, SettleTxInv DEF TxTimesOut, history
  <2>7. ASSUME NEW s \in Session, NEW t \in Tx, HandleTxResult(s, t)
        PROVE  TxInv'
    <3>1. CASE t \in pendingTx[s]
      <4>1. Settle(s, t, "resolved") /\ signedBy' = signedBy \cup {<<s, t>>}
        BY <2>7, <3>1 DEF HandleTxResult
      <4>2. QED
        BY <2>1, <3>1, <4>1, SettleTxInv
    <3>2. CASE t \notin pendingTx[s]
      <4>1. UNCHANGED <<pendingTx, txState>> /\ signedBy \subseteq signedBy'
        BY <2>7, <3>2 DEF HandleTxResult
      <4>2. QED
        BY <2>1, <4>1 DEF TxInv, PendingTxReachable, ResolvedByOwnClient
    <3>3. QED
      BY <3>1, <3>2
  <2>8. ASSUME NEW s \in Session, NEW t \in Tx, HandleTxError(s, t)
        PROVE  TxInv'
    BY <2>1, <2>8, SettleTxInv DEF HandleTxError, history
  <2>9. ASSUME NEW s \in Session, Disconnect(s)
        PROVE  TxInv'
    BY <2>1, <2>9, CleanupTxInv DEF Disconnect, history
  <2>10. CASE Stop
    <3>1. registered \in SUBSET Session
      BY DEF TxInv, TypeOK
    <3>2. QED
      BY <2>1, <2>10, <3>1, CleanupTxInv DEF Stop, history
  <2>11. CASE UNCHANGED vars
    BY <2>2, <2>11 DEF vars, session, history
  <2>12. QED
    BY <2>3, <2>4, <2>5, <2>6, <2>7, <2>8, <2>9, <2>10, <2>11 DEF Next
<1>3. QED
  BY <1>1, <1>2, PTL DEF Spec

\* Every open promise stays within reach of the answer, the timeout and the
\* cleanup of its own session.
THEOREM PromisesReachable == Spec => []PendingTxReachable
<1>1. TxInv => PendingTxReachable
  BY DEF TxInv
<1>2. QED
  BY <1>1, TxInOrder, PTL

\* No transaction is resolved by the word of another client.
THEOREM OwnClientSigns == Spec => []ResolvedByOwnClient
<1>1. TxInv => ResolvedByOwnClient
  BY DEF TxInv
<1>2. QED
  BY <1>1, TxInOrder, PTL

\* Nothing leaves a queue once the server has stopped.
THEOREM QueueFrozen == Spec => QueueFrozenByStop
<1> USE ConstantsAssumption
<1> DEFINE Tail1 == {<<>>} \cup {<<m>> : m \in Msg}
           Frozen == stopped => \A s \in Session : \E tail \in Tail1 :
                       queue'[s] = queue[s] \o tail
<1>1. TypeOK /\ [Next]_vars => [Frozen]_vars
  <2> SUFFICES ASSUME TypeOK, Next, stopped
               PROVE  \A s \in Session : \E tail \in Tail1 : queue'[s] = queue[s] \o tail
    BY DEF vars
  <2>1. ASSUME NEW s \in Session, queue'[s] = queue[s]
        PROVE  \E tail \in Tail1 : queue'[s] = queue[s] \o tail
    <3>1. queue[s] \o <<>> = queue[s] /\ <<>> \in Tail1
      BY ConcatEmptySeq DEF TypeOK
    <3>2. QED
      BY <2>1, <3>1
  <2>2. ASSUME UNCHANGED queue
        PROVE  \A s \in Session : \E tail \in Tail1 : queue'[s] = queue[s] \o tail
    BY <2>1, <2>2
  <2>3. ASSUME NEW r \in Session, NEW m \in Msg, EnqueueMessage(r, m)
        PROVE  \A s \in Session : \E tail \in Tail1 : queue'[s] = queue[s] \o tail
    <3>1. \A s \in Session : queue'[s] = IF s = r THEN Append(queue[s], m) ELSE queue[s]
      BY <2>3 DEF EnqueueMessage, TypeOK
    <3>2. Append(queue[r], m) = queue[r] \o <<m>> /\ <<m>> \in Tail1
      BY AppendIsConcat DEF TypeOK
    <3>3. QED
      BY <2>1, <3>1, <3>2
  <2>4. ASSUME NEW m \in Msg, NEW how, Finish(m, how)
        PROVE  UNCHANGED queue
    BY <2>4 DEF Finish, FinishIdle, FinishAndStart, DrainAll, DrainNothing
  <2>5. ASSUME NEW m \in Msg, TurnStep(m)
        PROVE  UNCHANGED queue
    BY <2>4, <2>5 DEF TurnStep, StreamOpens, ReadChunk, ReadBreach, CancelSettles, ReadDone,
         AfterLoop, TextSettles, TextAfterAbort, Throws, BudgetFires, AgentStops, session
  <2>6. CASE UNCHANGED queue
    BY <2>2, <2>6
  <2>7. CASE \E r \in Session, m \in Msg : EnqueueMessage(r, m)
    BY <2>3, <2>7
  <2>8. QED
    BY <2>5, <2>6, <2>7 DEF Next, RefuseMessage, StartMessage, AwaitTransaction, TxTimesOut,
       HandleTxResult, HandleTxError, Disconnect, Stop, session
<1>2. QED
  BY <1>1, TypeCorrect, PTL DEF Spec, QueueFrozenByStop

-----------------------------------------------------------------------------
(***************************************************************************)
(* The sessions of ChatTurns implement FifoService, for any sessions and   *)
(* messages: every step is a step of the service or leaves it alone.       *)
(***************************************************************************)

\* What the sessions show of their turns.
Serving(s) == {m \in Msg : Active(m) /\ From[m] = s}

\* A prefix that reaches into the queue.
LEMMA PrefixOfConcat ==
  ASSUME NEW h \in Seq(Msg), NEW q \in Seq(Msg), NEW i \in 1 .. Len(q)
  PROVE  /\ Len(h \o q) = Len(h) + Len(q)
         /\ Len(h) + i \in Len(h) .. Len(h \o q)
         /\ Len(h) + i > Len(h)
         /\ h \o SubSeq(q, 1, i) = SubSeq(h \o q, 1, Len(h) + i)
         /\ (h \o q)[Len(h) + i] = q[i]
<1> DEFINE p == SubSeq(q, 1, i)
           k == Len(h) + i
           t == SubSeq(h \o q, 1, k)
<1>1. /\ Len(h) \in Nat /\ Len(q) \in Nat
      /\ \A j \in 1 .. Len(q) : q[j] \in Msg
  BY ElementOfSeq, LenProperties
<1>2. /\ h \o q \in Seq(Msg)
      /\ Len(h \o q) = Len(h) + Len(q)
      /\ \A j \in 1 .. Len(h) + Len(q) :
           (h \o q)[j] = IF j <= Len(h) THEN h[j] ELSE q[j - Len(h)]
  BY ConcatProperties
<1>3. /\ p \in Seq(Msg) /\ Len(p) = i
      /\ \A j \in 1 .. i : p[j] = q[j]
  BY <1>1
<1>4. /\ h \o p \in Seq(Msg)
      /\ Len(h \o p) = k
      /\ \A j \in 1 .. k : (h \o p)[j] = IF j <= Len(h) THEN h[j] ELSE p[j - Len(h)]
  BY <1>3, ConcatProperties
<1>5. /\ t \in Seq(Msg) /\ Len(t) = k
      /\ \A j \in 1 .. k : t[j] = (h \o q)[j]
  <2>1. \A j \in 1 .. k : (h \o q)[j] \in Msg
    BY <1>1, <1>2, ElementOfSeq
  <2>2. QED
    BY <1>1, <2>1, SubSeqProperties
<1> HIDE DEF p, t
<1>6. \A j \in 1 .. k : (h \o p)[j] = t[j]
  <2>1. SUFFICES ASSUME NEW j \in 1 .. k
                 PROVE  (h \o p)[j] = t[j]
    OBVIOUS
  <2>2. t[j] = (h \o q)[j] /\ j \in 1 .. Len(h) + Len(q)
    BY <1>1, <1>5
  <2>3. CASE j <= Len(h)
    BY <1>2, <1>4, <2>2, <2>3
  <2>4. CASE ~(j <= Len(h))
    <3>1. j - Len(h) \in 1 .. i
      BY <1>1, <2>4
    <3>2. (h \o p)[j] = p[j - Len(h)] /\ (h \o q)[j] = q[j - Len(h)]
      BY <1>2, <1>4, <2>2, <2>4
    <3>3. QED
      BY <1>3, <2>2, <3>1, <3>2
  <2>5. QED
    BY <2>3, <2>4
<1>7. h \o p = t
  BY <1>4, <1>5, <1>6, SeqEqual
<1>8. QED
  BY <1>1, <1>2, <1>7 DEF p, t

\* The end of a turn is a Complete of the service.
LEMMA FinishCompletes ==
  ASSUME TurnsInv, TurnsInv', NEW m \in Msg, NEW how \in Outcome, Active(m), Finish(m, how)
  PROVE  Fifo!Complete(From[m])
<1> USE ConstantsAssumption
<1> DEFINE s == From[m]
           q == queue[s]
           h == handled[s]
           sv == [c \in Session |-> Serving(c)]
<1>1. /\ s \in Session /\ q \in Seq(Msg) /\ h \in Seq(Msg)
      /\ arrived[s] \in Seq(Msg) /\ Len(q) \in Nat /\ Len(h) \in Nat
  BY LenProperties DEF TurnsInv, TypeOK
<1>2. UNCHANGED <<stopped, arrived>>
  BY DEF Finish, server
<1>3. Serving(s) = {m}
  BY DEF Serving, TurnsInv, SingleTurn
<1>4. how \notin Live
  BY DEF Live, Outcome
<1>5. ~stopped => h \o q = arrived[s]
  BY <1>1 DEF TurnsInv, NoMessageLost
<1>6. CASE FinishIdle(m, how)
  <2>1. \A x \in Msg : Active(x)' <=> Active(x) /\ x # m
    BY <1>4, <1>6 DEF FinishIdle, Active, TurnsInv, TypeOK
  <2>2. sv' = [sv EXCEPT ![s] = {}]
    <3>1. \A c \in Session : Serving(c)' = IF c = s THEN {} ELSE Serving(c)
      BY <1>3, <2>1 DEF Serving
    <3>2. QED
      BY <3>1
  <2>3. CASE stopped
    <3>1. UNCHANGED handled
      BY <1>6, <2>3 DEF FinishIdle, DrainAll, DrainNothing
    <3>2. QED
      BY <1>1, <1>2, <1>3, <2>2, <2>3, <3>1 DEF Fifo!Complete, Serving
  <2>4. CASE ~stopped
    <3>1. handled' = [handled EXCEPT ![s] = SubSeq(arrived[s], 1, Len(arrived[s]))]
      <4>1. handled' = [handled EXCEPT ![s] = h \o q]
        BY <1>6, <2>4 DEF FinishIdle, DrainAll, DrainNothing
      <4>2. SubSeq(arrived[s], 1, Len(arrived[s])) = arrived[s]
        BY <1>1, SubSeqFull
      <4>3. QED
        BY <1>5, <2>4, <4>1, <4>2
    <3>2. Len(arrived[s]) \in Len(h) .. Len(arrived[s])
      <4>1. Len(h \o q) = Len(h) + Len(q)
        BY <1>1, ConcatProperties
      <4>2. Len(arrived[s]) = Len(h) + Len(q)
        BY <1>5, <2>4, <4>1
      <4>3. \A a, b \in Nat : a + b \in a .. a + b
        OBVIOUS
      <4>4. QED
        BY <1>1, <4>2, <4>3
    <3>3. QED
      BY <1>1, <1>2, <1>3, <2>2, <2>4, <3>1, <3>2 DEF Fifo!Complete, Serving
  <2>5. QED
    BY <2>3, <2>4
<1>7. CASE FinishAndStart(m, how)
  <2>1. ~stopped
    BY <1>7 DEF FinishAndStart
  <2>2. PICK i \in FirstChat(q) :
          /\ pc' = [pc EXCEPT ![m] = how, ![q[i]] = "calling"]
          /\ handled' = [handled EXCEPT ![s] = @ \o SubSeq(q, 1, i)]
    BY <1>7 DEF FinishAndStart
  <2> DEFINE n == q[i]
             k == Len(h) + i
  <2>3. i \in 1 .. Len(q) /\ n \in Msg
    BY <1>1, <2>2, ElementOfSeq DEF FirstChat
  <2>4. pc[n] = "sent" /\ From[n] = s /\ n # m
    BY <1>1, <2>3 DEF TurnsInv, QueueWaits, Active, Live
  <2>5. \A x \in Msg : Active(x)' <=> x = n \/ (Active(x) /\ x # m)
    BY <1>4, <2>2, <2>3, <2>4 DEF Active, Live, TurnsInv, TypeOK
  <2>6. sv' = [sv EXCEPT ![s] = {n}]
    BY <1>1, <1>3, <2>3, <2>4, <2>5 DEF Serving
  <2>7. /\ k \in Len(h) .. Len(arrived[s])
        /\ k > Len(h)
        /\ handled' = [handled EXCEPT ![s] = SubSeq(arrived[s], 1, k)]
        /\ arrived[s][k] = n
    <3>1. h \o q = arrived[s] /\ handled' = [handled EXCEPT ![s] = h \o SubSeq(q, 1, i)]
      BY <1>5, <2>1, <2>2
    <3>2. /\ k \in Len(h) .. Len(h \o q)
          /\ k > Len(h)
          /\ h \o SubSeq(q, 1, i) = SubSeq(h \o q, 1, k)
          /\ (h \o q)[k] = n
      <4> HIDE DEF h, q
      <4> QED
        BY <1>1, <2>3, PrefixOfConcat
    <3>3. QED
      BY <3>1, <3>2
  <2>8. QED
    BY <1>1, <1>2, <1>3, <2>1, <2>6, <2>7 DEF Fifo!Complete, Serving
<1>8. QED
  BY <1>6, <1>7 DEF Finish

\* The chat sessions of the server implement the FIFO service.
THEOREM Refinement == Spec => ImplementsFifo
<1> USE ConstantsAssumption
<1> DEFINE sv == [c \in Session |-> Serving(c)]
<1>1. Init => Fifo!Init
  BY DEF Init, Fifo!Init, Active, Live
<1>2. TurnsInv /\ TurnsInv' /\ [Next]_vars => [Fifo!Next]_(Fifo!vars)
  <2> SUFFICES ASSUME TurnsInv, TurnsInv', [Next]_vars
               PROVE  Fifo!Next \/ UNCHANGED Fifo!vars
    OBVIOUS
  <2>1. ASSUME UNCHANGED <<arrived, handled, stopped>>,
               \A x \in Msg : Active(x)' <=> Active(x)
        PROVE  UNCHANGED Fifo!vars
    BY <2>1 DEF Fifo!vars
  <2>2. ASSUME NEW m \in Msg, NEW how \in Outcome, Active(m), Finish(m, how)
        PROVE  Fifo!Next
    <3>1. From[m] \in Session
      OBVIOUS
    <3>2. QED
      BY <2>2, <3>1, FinishCompletes DEF Fifo!Next
  <2>3. ASSUME NEW s \in Session, NEW m \in Msg,
               EnqueueMessage(s, m) \/ RefuseMessage(s, m) \/ StartMessage(s, m)
        PROVE  Fifo!Arrive(s, m)
    <3>1. /\ From[m] = s /\ pc[m] = "unsent"
          /\ arrived' = [arrived EXCEPT ![s] = Append(@, m)]
          /\ UNCHANGED stopped
      BY <2>3 DEF EnqueueMessage, RefuseMessage, StartMessage, Receive, server
    <3>2. isProcessing[s] <=> Serving(s) # {}
      BY DEF Serving, TurnsInv, SingleTurn
    <3>3. CASE EnqueueMessage(s, m)
      <4>1. \A x \in Msg : Active(x)' <=> Active(x)
        BY <3>1, <3>3 DEF EnqueueMessage, Active, Live, TurnsInv, TypeOK
      <4>2. sv' = sv
        BY <4>1 DEF Serving
      <4>3. isProcessing[s] /\ UNCHANGED handled
        BY <3>3 DEF EnqueueMessage
      <4>4. QED
        BY <3>1, <3>2, <4>2, <4>3 DEF Fifo!Arrive, Serving
    <3>4. CASE RefuseMessage(s, m)
      <4>1. \A x \in Msg : Active(x)' <=> Active(x)
        BY <3>1, <3>4 DEF RefuseMessage, Active, Live, TurnsInv, TypeOK
      <4>2. sv' = sv
        BY <4>1 DEF Serving
      <4>3. ~isProcessing[s] /\ handled' = [handled EXCEPT ![s] = Append(@, m)]
        BY <3>4 DEF RefuseMessage
      <4>4. QED
        BY <3>1, <3>2, <4>2, <4>3 DEF Fifo!Arrive, Serving
    <3>5. CASE StartMessage(s, m)
      <4>1. \A x \in Msg : Active(x)' <=> Active(x) \/ x = m
        BY <3>1, <3>5 DEF StartMessage, Active, Live, TurnsInv, TypeOK
      <4>2. ~isProcessing[s] /\ handled' = [handled EXCEPT ![s] = Append(@, m)]
        BY <3>5 DEF StartMessage
      <4>3. sv' = [sv EXCEPT ![s] = {m}]
        BY <3>1, <3>2, <4>1, <4>2 DEF Serving
      <4>4. QED
        BY <3>1, <3>2, <4>2, <4>3 DEF Fifo!Arrive, Serving
    <3>6. QED
      BY <2>3, <3>3, <3>4, <3>5
  <2>4. ASSUME NEW m \in Msg, NEW to \in Live, Active(m), pc' = [pc EXCEPT ![m] = to]
        PROVE  \A x \in Msg : Active(x)' <=> Active(x)
    BY <2>4 DEF Active, TurnsInv, TypeOK
  <2>5. ASSUME NEW m \in Msg, StreamOpens(m) \/ ReadChunk(m) \/ ReadBreach(m)
        PROVE  UNCHANGED Fifo!vars
    <3>1. /\ Active(m) /\ \E to \in Live : pc' = [pc EXCEPT ![m] = to]
          /\ UNCHANGED <<arrived, handled, stopped>>
      BY <2>5 DEF StreamOpens, ReadChunk, ReadBreach, LoopTop, Active, Live, server, history
    <3>2. QED
      BY <2>1, <2>4, <3>1
  <2>6. ASSUME NEW m \in Msg, CancelSettles(m) \/ ReadDone(m)
        PROVE  Fifo!Next \/ UNCHANGED Fifo!vars
    <3>1. Active(m) /\ AfterLoop(m)
      BY <2>6 DEF CancelSettles, ReadDone, Active, Live
    <3>2. CASE Finish(m, "budget") \/ Finish(m, "silent")
      BY <2>2, <3>1, <3>2 DEF Outcome
    <3>3. CASE /\ pc' = [pc EXCEPT ![m] = IF aborted[m] THEN "textAborted" ELSE "text"]
               /\ UNCHANGED <<server, history>>
      <4>1. \E to \in Live : pc' = [pc EXCEPT ![m] = to]
        BY <3>3 DEF Live
      <4>2. QED
        BY <2>1, <2>4, <3>1, <3>3, <4>1 DEF server, history
    <3>4. QED
      BY <3>1, <3>2, <3>3 DEF AfterLoop
  <2>7. ASSUME NEW m \in Msg, TextSettles(m) \/ TextAfterAbort(m) \/ Throws(m)
        PROVE  Fifo!Next
    <3>1. Active(m) /\ \E how \in Outcome : Finish(m, how)
      BY <2>7 DEF TextSettles, TextAfterAbort, Throws, Active, Live, Outcome
    <3>2. QED
      BY <2>2, <3>1
  <2>8. ASSUME UNCHANGED <<pc, arrived, handled, stopped>>
        PROVE  UNCHANGED Fifo!vars
    BY <2>1, <2>8 DEF Active
  <2>9. ASSUME NEW m \in Msg, BudgetFires(m) \/ AgentStops(m)
        PROVE  UNCHANGED Fifo!vars
    BY <2>8, <2>9 DEF BudgetFires, AgentStops, server, history
  <2>10. ASSUME NEW t \in Tx, AwaitTransaction(t) \/ TxTimesOut(t)
         PROVE  UNCHANGED Fifo!vars
    BY <2>8, <2>10 DEF AwaitTransaction, TxTimesOut, server, turn, history
  <2>11. ASSUME NEW s \in Session, NEW t \in Tx, HandleTxResult(s, t) \/ HandleTxError(s, t)
         PROVE  UNCHANGED Fifo!vars
    BY <2>8, <2>11 DEF HandleTxResult, HandleTxError, server, turn, history
  <2>12. ASSUME NEW s \in Session, Disconnect(s)
         PROVE  UNCHANGED Fifo!vars
    BY <2>8, <2>12 DEF Disconnect, history
  <2>13. CASE Stop
    <3>1. sv' = sv /\ UNCHANGED <<arrived, handled>> /\ ~stopped /\ stopped'
      BY <2>13 DEF Stop, history, Serving, Active
    <3>2. QED
      BY <3>1 DEF Fifo!Next, Fifo!Close, Serving
  <2>14. CASE UNCHANGED vars
    BY <2>8, <2>14 DEF vars, server, turn, history
  <2>15. QED
    BY <2>3, <2>5, <2>6, <2>7, <2>9, <2>10, <2>11, <2>12, <2>13, <2>14
       DEF Next, TurnStep, Fifo!Next
<1>3. QED
  BY <1>1, <1>2, TurnsInOrder, PTL DEF Spec, ImplementsFifo, Fifo!Spec
=============================================================================
