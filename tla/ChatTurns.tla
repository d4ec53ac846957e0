------------------------------- MODULE ChatTurns -------------------------------
(***************************************************************************)
(* The post-authentication life of the sessions of PlexChatServer          *)
(* (packages/server/src/websocket.ts) and Session (session.ts): chat       *)
(* messages that start a turn of the agent or wait behind the current one, *)
(* the abort controller and the wall-clock budget of a turn, the           *)
(* transactions its tools send to the client for approval, disconnects and *)
(* server shutdown.                                                        *)
(*                                                                         *)
(* JavaScript runs each callback to its next await without interruption,   *)
(* so one action is one such run: everything handleChatMessage does        *)
(* between two awaits, its finally block and the start of the next queued  *)
(* turn included, is one step.  What may happen at an await is             *)
(* interleaved: other messages, wallet answers, timers, close events.      *)
(***************************************************************************)
EXTENDS Naturals, Sequences

CONSTANTS
  Session,   \* connected, authenticated WebSocket sessions
  Msg,       \* the chat messages clients may send
  From,      \* From[m] is the session message m arrives on
  Chat,      \* messages with usable content; the others are empty, blank or too long
  Tx,        \* the transactions tools may hand to a client's wallet
  Opener,    \* Opener[t] is the message whose agent run submits t
  MaxTools,  \* MAX_TOOL_EXECUTIONS_PER_MESSAGE
  NoMsg      \* "currentAbortController is null"

ASSUME ConstantsAssumption ==
  /\ From \in [Msg -> Session]
  /\ Chat \subseteq Msg
  /\ Opener \in [Tx -> Msg]
  /\ MaxTools \in Nat
  /\ NoMsg \notin Msg

VARIABLES
  ws,            \* ws[s]: readyState of the socket
  registered,    \* the sessions in the server's sessions map
  stopped,       \* PlexChatServer.stopped
  isProcessing,  \* Session.isProcessing
  controller,    \* Session.currentAbortController, named by the turn that created it
  queue,         \* Session.pendingMessages
  pendingTx,     \* the correlation ids in Session.pendingTransactions
  pc,            \* where the handleChatMessage call of a message is
  aborted,       \* the abort signal of the turn's controller
  budgetTimer,   \* budgetTimer of the turn is armed
  tripped,       \* budgetTripped of the turn
  breached,      \* budgetExceededReason of the turn is set
  tools,         \* toolExecutionCount of the turn
  running,       \* the agent's run of the turn may still execute tools
  txState,       \* the promise awaitTransaction returned for a transaction
  arrived,       \* history: the chat messages received, in order
  handled,       \* history: the messages passed to handleChatMessage, in order
  signedBy       \* history: <<s, t>> when session s sent a tx_result for t

server  == <<ws, registered, stopped>>
session == <<isProcessing, controller, queue, pendingTx>>
turn    == <<pc, aborted, budgetTimer, tripped, breached, tools, running>>
history == <<arrived, handled, signedBy>>
vars    == <<server, session, turn, txState, history>>

Live    == {"calling", "reading", "cancelling", "text", "textAborted"}
Outcome == {"answer", "budget", "error", "silent"}

Active(m) == pc[m] \in Live      \* inside the try block of handleChatMessage
Ended(m)  == pc[m] \in Outcome   \* its finally block has run

TypeOK ==
  /\ ws \in [Session -> {"open", "closing", "closed"}]
  /\ registered \subseteq Session
  /\ stopped \in BOOLEAN
  /\ isProcessing \in [Session -> BOOLEAN]
  /\ controller \in [Session -> Msg \cup {NoMsg}]
  /\ queue \in [Session -> Seq(Msg)]
  /\ pendingTx \in [Session -> SUBSET Tx]
  /\ pc \in [Msg -> {"unsent", "sent"} \cup Live \cup Outcome]
  /\ aborted \in [Msg -> BOOLEAN]
  /\ budgetTimer \in [Msg -> BOOLEAN]
  /\ tripped \in [Msg -> BOOLEAN]
  /\ breached \in [Msg -> BOOLEAN]
  /\ tools \in [Msg -> 0 .. MaxTools + 1]
  /\ running \in [Msg -> BOOLEAN]
  /\ txState \in [Tx -> {"unused", "pending", "resolved", "rejected", "timedout"}]
  /\ arrived \in [Session -> Seq(Msg)]
  /\ handled \in [Session -> Seq(Msg)]
  /\ signedBy \subseteq Session \X Tx

Init ==
  /\ ws = [s \in Session |-> "open"]
  /\ registered = Session
  /\ stopped = FALSE
  /\ isProcessing = [s \in Session |-> FALSE]
  /\ controller = [s \in Session |-> NoMsg]
  /\ queue = [s \in Session |-> <<>>]
  /\ pendingTx = [s \in Session |-> {}]
  /\ pc = [m \in Msg |-> "unsent"]
  /\ aborted = [m \in Msg |-> FALSE]
  /\ budgetTimer = [m \in Msg |-> FALSE]
  /\ tripped = [m \in Msg |-> FALSE]
  /\ breached = [m \in Msg |-> FALSE]
  /\ tools = [m \in Msg |-> 0]
  /\ running = [m \in Msg |-> FALSE]
  /\ txState = [t \in Tx |-> "unused"]
  /\ arrived = [s \in Session |-> <<>>]
  /\ handled = [s \in Session |-> <<>>]
  /\ signedBy = {}

-----------------------------------------------------------------------------
(***************************************************************************)
(* Messages.  ws delivers messages until the close frame of the peer, so   *)
(* also on a socket the server is closing.                                 *)
(***************************************************************************)

\* The try block begins: isProcessing, a fresh controller, the budget timer.
Begin(s, m) ==
  /\ isProcessing' = [isProcessing EXCEPT ![s] = TRUE]
  /\ controller' = [controller EXCEPT ![s] = m]

Receive(s, m) ==
  /\ From[m] = s
  /\ ws[s] # "closed"
  /\ pc[m] = "unsent"
  /\ arrived' = [arrived EXCEPT ![s] = Append(@, m)]

\* case 'message' while a turn is in flight.
EnqueueMessage(s, m) ==
  /\ Receive(s, m)
  /\ isProcessing[s]
  /\ queue' = [queue EXCEPT ![s] = Append(@, m)]
  /\ pc' = [pc EXCEPT ![m] = "sent"]
  /\ UNCHANGED <<server, isProcessing, controller, pendingTx, aborted, budgetTimer,
                 tripped, breached, tools, running, txState, handled, signedBy>>

\* case 'message' on an idle session: handleChatMessage refuses the content ...
RefuseMessage(s, m) ==
  /\ Receive(s, m)
  /\ ~isProcessing[s]
  /\ m \notin Chat
  /\ pc' = [pc EXCEPT ![m] = "sent"]
  /\ handled' = [handled EXCEPT ![s] = Append(@, m)]
  /\ UNCHANGED <<server, session, aborted, budgetTimer, tripped, breached, tools,
                 running, txState, signedBy>>

\* FAULT: the busy check is missing.
StartMessageFault(s, m) ==
  /\ Receive(s, m)
  /\ m \in Chat
  /\ Begin(s, m)
  /\ pc' = [pc EXCEPT ![m] = "calling"]
  /\ budgetTimer' = [budgetTimer EXCEPT ![m] = TRUE]
  /\ handled' = [handled EXCEPT ![s] = Append(@, m)]
  /\ UNCHANGED <<server, queue, pendingTx, aborted, tripped, breached, tools,
                 running, txState, signedBy>>

\* ... or starts a turn and calls agent.stream.
StartMessage(s, m) ==
  /\ Receive(s, m)
  /\ ~isProcessing[s]
  /\ m \in Chat
  /\ Begin(s, m)
  /\ pc' = [pc EXCEPT ![m] = "calling"]
  /\ budgetTimer' = [budgetTimer EXCEPT ![m] = TRUE]
  /\ handled' = [handled EXCEPT ![s] = Append(@, m)]
  /\ UNCHANGED <<server, queue, pendingTx, aborted, tripped, breached, tools,
                 running, txState, signedBy>>

-----------------------------------------------------------------------------
(***************************************************************************)
(* The end of a turn: the finally block clears the timer and the           *)
(* processing flag and drains the queue.  Messages with unusable content   *)
(* return at once, so the drain runs on to the first usable one, whose     *)
(* turn starts in the same step.                                           *)
(***************************************************************************)

FirstChat(q) ==
  {i \in 1 .. Len(q) : q[i] \in Chat /\ \A j \in 1 .. i - 1 : q[j] \notin Chat}

\* FAULT: the queue is not drained.
DrainAllFault(s) == UNCHANGED <<queue, handled>>

\* Nothing left to start: the queue is empty, or holds unusable content only.
DrainAll(s) ==
  /\ ~stopped
  /\ FirstChat(queue[s]) = {}
  /\ queue' = [queue EXCEPT ![s] = <<>>]
  /\ handled' = [handled EXCEPT ![s] = @ \o queue[s]]

\* A stopped server leaves the queue where it is.
DrainNothing(s) ==
  /\ stopped
  /\ UNCHANGED <<queue, handled>>

\* FAULT: the controller is left in the session.
FinishIdleControllerFault(m, how) ==
  LET s == From[m] IN
  /\ DrainAll(s) \/ DrainNothing(s)
  /\ pc' = [pc EXCEPT ![m] = how]
  /\ budgetTimer' = [budgetTimer EXCEPT ![m] = FALSE]
  /\ isProcessing' = [isProcessing EXCEPT ![s] = FALSE]
  /\ UNCHANGED controller

FinishIdle(m, how) ==
  LET s == From[m] IN
  /\ DrainAll(s) \/ DrainNothing(s)
  /\ pc' = [pc EXCEPT ![m] = how]
  /\ budgetTimer' = [budgetTimer EXCEPT ![m] = FALSE]
  /\ isProcessing' = [isProcessing EXCEPT ![s] = FALSE]
  /\ controller' = [controller EXCEPT ![s] = NoMsg]

\* FAULT: the timer of the ended turn is left armed while the next one runs.
FinishAndStartTimerFault(m, how) ==
  LET s == From[m]
      q == queue[s]
  IN
  /\ ~stopped
  /\ \E i \in FirstChat(q) :
       /\ Begin(s, q[i])
       /\ pc' = [pc EXCEPT ![m] = how, ![q[i]] = "calling"]
       /\ budgetTimer' = [budgetTimer EXCEPT ![q[i]] = TRUE]
       /\ queue' = [queue EXCEPT ![s] = SubSeq(q, i + 1, Len(q))]
       /\ handled' = [handled EXCEPT ![s] = @ \o SubSeq(q, 1, i)]

\* FAULT: pop in place of shift.
FinishAndStartPopFault(m, how) ==
  LET s == From[m]
      q == queue[s]
  IN
  /\ ~stopped
  /\ \E i \in {Len(q)} \cap DOMAIN q :
       /\ q[i] \in Chat
       /\ Begin(s, q[i])
       /\ pc' = [pc EXCEPT ![m] = how, ![q[i]] = "calling"]
       /\ budgetTimer' = [budgetTimer EXCEPT ![m] = FALSE, ![q[i]] = TRUE]
       /\ queue' = [queue EXCEPT ![s] = SubSeq(q, 1, i - 1)]
       /\ handled' = [handled EXCEPT ![s] = Append(@, q[i])]

\* FAULT: the drained turn starts without a timer of its own.
FinishAndStartUntimedFault(m, how) ==
  LET s == From[m]
      q == queue[s]
  IN
  /\ ~stopped
  /\ \E i \in FirstChat(q) :
       /\ Begin(s, q[i])
       /\ pc' = [pc EXCEPT ![m] = how, ![q[i]] = "calling"]
       /\ budgetTimer' = [budgetTimer EXCEPT ![m] = FALSE]
       /\ queue' = [queue EXCEPT ![s] = SubSeq(q, i + 1, Len(q))]
       /\ handled' = [handled EXCEPT ![s] = @ \o SubSeq(q, 1, i)]

FinishAndStart(m, how) ==
  LET s == From[m]
      q == queue[s]
  IN
  /\ ~stopped
  /\ \E i \in FirstChat(q) :
       /\ Begin(s, q[i])
       /\ pc' = [pc EXCEPT ![m] = how, ![q[i]] = "calling"]
       /\ budgetTimer' = [budgetTimer EXCEPT ![m] = FALSE, ![q[i]] = TRUE]
       /\ queue' = [queue EXCEPT ![s] = SubSeq(q, i + 1, Len(q))]
       /\ handled' = [handled EXCEPT ![s] = @ \o SubSeq(q, 1, i)]

Finish(m, how) ==
  /\ FinishIdle(m, how) \/ FinishAndStart(m, how)
  /\ UNCHANGED <<server, pendingTx, aborted, tripped, breached, tools, running,
                 txState, arrived, signedBy>>

-----------------------------------------------------------------------------
(***************************************************************************)
(* A turn.  The code asks the session's current controller, not the turn's *)
(* own signal, whether it was aborted.                                     *)
(***************************************************************************)

AbortSeen(s) == controller[s] # NoMsg /\ aborted[controller[s]]

\* session.currentAbortController?.abort()
AbortCurrent(s) == aborted' = [m \in Msg |-> aborted[m] \/ controller[s] = m]

LoopTop(m) == IF AbortSeen(From[m]) THEN "cancelling" ELSE "reading"

\* agent.stream returns its stream; the read loop checks for an abort.
StreamOpens(m) ==
  /\ pc[m] = "calling"
  /\ pc' = [pc EXCEPT ![m] = LoopTop(m)]
  /\ running' = [running EXCEPT ![m] = TRUE]
  /\ UNCHANGED <<server, session, aborted, budgetTimer, tripped, breached, tools,
                 txState, history>>

\* A chunk within the limits, a tool-call among them.
ReadChunk(m) ==
  /\ pc[m] = "reading"
  /\ \/ tools' = tools
     \/ /\ tools[m] < MaxTools
        /\ tools' = [tools EXCEPT ![m] = @ + 1]
  /\ pc' = [pc EXCEPT ![m] = LoopTop(m)]
  /\ UNCHANGED <<server, session, aborted, budgetTimer, tripped, breached, running,
                 txState, history>>

\* A tool-call above the limit, or a step-finish above the token limit.
ReadBreach(m) ==
  /\ pc[m] = "reading"
  /\ \/ tools' = tools
     \/ /\ tools[m] = MaxTools
        /\ tools' = [tools EXCEPT ![m] = @ + 1]
  /\ breached' = [breached EXCEPT ![m] = TRUE]
  /\ AbortCurrent(From[m])
  /\ pc' = [pc EXCEPT ![m] = "cancelling"]
  /\ UNCHANGED <<server, session, budgetTimer, tripped, running, txState, history>>

\* FAULT: the abort is looked at before the breach that caused it.
AfterLoopFault(m) ==
  \/ /\ AbortSeen(From[m]) /\ ~tripped[m]
     /\ Finish(m, "silent")
  \/ /\ breached[m] \/ tripped[m]
     /\ AbortSeen(From[m]) => tripped[m]
     /\ Finish(m, "budget")
  \/ /\ ~breached[m] /\ ~AbortSeen(From[m])
     /\ pc' = [pc EXCEPT ![m] = IF aborted[m] THEN "textAborted" ELSE "text"]
     /\ UNCHANGED <<server, session, aborted, budgetTimer, tripped, breached, tools,
                    running, txState, history>>

\* What follows the read loop: the budget message, the abort branch, or the
\* wait for stream.text ("textAborted" when the turn's signal has been aborted).
AfterLoop(m) ==
  \/ /\ breached[m] \/ (AbortSeen(From[m]) /\ tripped[m])
     /\ Finish(m, "budget")
  \/ /\ ~breached[m] /\ AbortSeen(From[m]) /\ ~tripped[m]
     /\ Finish(m, "silent")
  \/ /\ ~breached[m] /\ ~AbortSeen(From[m])
     /\ pc' = [pc EXCEPT ![m] = IF aborted[m] THEN "textAborted" ELSE "text"]
     /\ UNCHANGED <<server, session, aborted, budgetTimer, tripped, breached, tools,
                    running, txState, history>>

\* reader.cancel() settles.
CancelSettles(m) == pc[m] = "cancelling" /\ AfterLoop(m)

\* reader.read() says done: the run has finished, or was aborted.
ReadDone(m) ==
  /\ pc[m] = "reading"
  /\ ~running[m] \/ aborted[m]
  /\ AfterLoop(m)

\* stream.text, totalUsage and finishReason settle.
TextSettles(m) == pc[m] = "text" /\ Finish(m, "answer")

TextAfterAbort(m) == pc[m] = "textAborted" /\ Finish(m, "answer")

\* The catch block: an AbortError ends the turn without a word.
Throws(m) ==
  /\ pc[m] \in Live \ {"cancelling"}
  /\ \/ Finish(m, "error")
     \/ aborted[m] /\ Finish(m, "silent")

\* FAULT: the timer records that it fired and aborts nothing.
BudgetFiresFault(m) ==
  /\ budgetTimer[m]
  /\ budgetTimer' = [budgetTimer EXCEPT ![m] = FALSE]
  /\ tripped' = [tripped EXCEPT ![m] = TRUE]
  /\ UNCHANGED <<server, session, pc, aborted, breached, tools, running, txState,
                 history>>

\* The wall-clock budget timer.
BudgetFires(m) ==
  /\ budgetTimer[m]
  /\ budgetTimer' = [budgetTimer EXCEPT ![m] = FALSE]
  /\ tripped' = [tripped EXCEPT ![m] = TRUE]
  /\ AbortCurrent(From[m])
  /\ UNCHANGED <<server, session, pc, breached, tools, running, txState, history>>

\* The agent's run ends; a tool awaiting a wallet keeps it alive, also after
\* its turn was cut short.
AgentStops(m) ==
  /\ running[m]
  /\ \A t \in Tx : Opener[t] = m => txState[t] # "pending"
  /\ running' = [running EXCEPT ![m] = FALSE]
  /\ UNCHANGED <<server, session, pc, aborted, budgetTimer, tripped, breached, tools,
                 txState, history>>

-----------------------------------------------------------------------------
(***************************************************************************)
(* Transactions: awaitTransaction registers a promise under a fresh        *)
(* correlation id in the session of the turn, whatever became of it.       *)
(***************************************************************************)

\* resolve or reject, which a promise already settled ignores, and the entry's end.
Settle(s, t, how) ==
  /\ pendingTx' = [pendingTx EXCEPT ![s] = @ \ {t}]
  /\ txState' = [txState EXCEPT ![t] = IF @ = "pending" THEN how ELSE @]

AwaitTransaction(t) ==
  LET s == From[Opener[t]] IN
  /\ running[Opener[t]]
  /\ txState[t] = "unused"
  /\ pendingTx' = [pendingTx EXCEPT ![s] = @ \cup {t}]
  /\ txState' = [txState EXCEPT ![t] = "pending"]
  /\ UNCHANGED <<server, isProcessing, controller, queue, turn, history>>

\* FAULT: the correlation id is looked up over all sessions.
HandleTxResultFault(s, t) ==
  /\ ws[s] # "closed"
  /\ txState[t] # "unused"
  /\ signedBy' = signedBy \cup {<<s, t>>}
  /\ IF txState[t] = "pending"
       THEN Settle(From[Opener[t]], t, "resolved")
       ELSE UNCHANGED <<pendingTx, txState>>
  /\ UNCHANGED <<server, isProcessing, controller, queue, turn, arrived, handled>>

\* tx_result from a client: settles a promise of its own session, or is dropped.
HandleTxResult(s, t) ==
  /\ ws[s] # "closed"
  /\ txState[t] # "unused"
  /\ signedBy' = signedBy \cup {<<s, t>>}
  /\ IF t \in pendingTx[s]
       THEN Settle(s, t, "resolved")
       ELSE UNCHANGED <<pendingTx, txState>>
  /\ UNCHANGED <<server, isProcessing, controller, queue, turn, arrived, handled>>

HandleTxError(s, t) ==
  /\ ws[s] # "closed"
  /\ t \in pendingTx[s]
  /\ Settle(s, t, "rejected")
  /\ UNCHANGED <<server, isProcessing, controller, queue, turn, history>>

\* FAULT: no timeout runs for a session that has been cleaned up.
TxTimesOutClosedFault(t) ==
  /\ txState[t] = "pending"
  /\ From[Opener[t]] \in registered
  /\ Settle(From[Opener[t]], t, "timedout")
  /\ UNCHANGED <<server, isProcessing, controller, queue, turn, history>>

\* TX_APPROVAL_TIMEOUT_MS passes before the promise is settled.
TxTimesOut(t) ==
  /\ txState[t] = "pending"
  /\ Settle(From[Opener[t]], t, "timedout")
  /\ UNCHANGED <<server, isProcessing, controller, queue, turn, history>>

-----------------------------------------------------------------------------
(***************************************************************************)
(* Disconnect and shutdown.                                                *)
(***************************************************************************)

\* FAULT: the pending transactions are forgotten, not rejected.
CleanupFault(S) ==
  /\ aborted' = [m \in Msg |-> aborted[m] \/ \E s \in S : controller[s] = m]
  /\ controller' = [s \in Session |-> IF s \in S THEN NoMsg ELSE controller[s]]
  /\ pendingTx' = [s \in Session |-> IF s \in S THEN {} ELSE pendingTx[s]]
  /\ UNCHANGED txState

\* Session.cleanup for the sessions in S: abort and forget the controller,
\* reject the pending transactions.  The queue and isProcessing stay.
Cleanup(S) ==
  /\ aborted' = [m \in Msg |-> aborted[m] \/ \E s \in S : controller[s] = m]
  /\ controller' = [s \in Session |-> IF s \in S THEN NoMsg ELSE controller[s]]
  /\ txState' = [t \in Tx |-> IF \E s \in S : t \in pendingTx[s]
                                THEN "rejected" ELSE txState[t]]
  /\ pendingTx' = [s \in Session |-> IF s \in S THEN {} ELSE pendingTx[s]]

\* The close or error event of a socket.
Disconnect(s) ==
  /\ ws[s] # "closed"
  /\ ws' = [ws EXCEPT ![s] = "closed"]
  /\ Cleanup({s} \cap registered)
  /\ registered' = registered \ {s}
  /\ UNCHANGED <<stopped, isProcessing, queue, pc, budgetTimer, tripped, breached,
                 tools, running, history>>

\* PlexChatServer.stop up to its first await.
Stop ==
  /\ ~stopped
  /\ stopped' = TRUE
  /\ Cleanup(registered)
  /\ ws' = [s \in Session |-> IF s \in registered /\ ws[s] = "open"
                                THEN "closing" ELSE ws[s]]
  /\ registered' = {}
  /\ UNCHANGED <<isProcessing, queue, pc, budgetTimer, tripped, breached, tools,
                 running, history>>

-----------------------------------------------------------------------------

TurnStep(m) ==
  \/ StreamOpens(m)
  \/ ReadChunk(m)
  \/ ReadBreach(m)
  \/ CancelSettles(m)
  \/ ReadDone(m)
  \/ TextSettles(m)
  \/ TextAfterAbort(m)
  \/ Throws(m)
  \/ BudgetFires(m)
  \/ AgentStops(m)

Next ==
  \/ \E s \in Session, m \in Msg :
       EnqueueMessage(s, m) \/ RefuseMessage(s, m) \/ StartMessage(s, m)
  \/ \E m \in Msg : TurnStep(m)
  \/ \E t \in Tx : AwaitTransaction(t) \/ TxTimesOut(t)
  \/ \E s \in Session, t \in Tx : HandleTxResult(s, t) \/ HandleTxError(s, t)
  \/ \E s \in Session : Disconnect(s)
  \/ Stop

\* Timers fire, agent.stream and reader.cancel settle, a stream that has ended
\* or was aborted delivers its end, and the text of a complete stream resolves.
\* Nothing is assumed of clients, of the agent's own progress, or of the text
\* of an aborted stream.
Fairness ==
  /\ \A m \in Msg :
       /\ WF_vars(StreamOpens(m))
       /\ WF_vars(CancelSettles(m))
       /\ WF_vars(ReadDone(m))
       /\ WF_vars(TextSettles(m))
       /\ WF_vars(BudgetFires(m))
  /\ \A t \in Tx : WF_vars(TxTimesOut(t))

Spec == Init /\ [][Next]_vars
FairSpec == Spec /\ Fairness

-----------------------------------------------------------------------------
(***************************************************************************)
(* Safety.                                                                 *)
(***************************************************************************)

\* At most one turn of a session is between the start and the finally block of
\* handleChatMessage, and isProcessing says whether there is one.
SingleTurn ==
  /\ \A m, n \in Msg : Active(m) /\ Active(n) /\ From[m] = From[n] => m = n
  /\ \A s \in Session : isProcessing[s] <=> \E m \in Msg : Active(m) /\ From[m] = s

\* Until the server stops, messages are handled in arrival order and none is
\* lost or forgotten in the queue of an idle session.
NoMessageLost ==
  ~stopped => \A s \in Session :
                /\ handled[s] \o queue[s] = arrived[s]
                /\ queue[s] # <<>> => isProcessing[s]

\* The turn of a connected session can be aborted through the session, and a
\* controller left in a session is that of its live turn.
AbortReachesTurn ==
  /\ \A m \in Msg : Active(m) /\ From[m] \in registered => controller[From[m]] = m
  /\ \A s \in Session : controller[s] # NoMsg =>
       Active(controller[s]) /\ From[controller[s]] = s

\* A turn is aborted by its own time budget, its own tool or token limit, or the
\* end of its session: never by what another turn left behind.
AbortHasCause ==
  \A m \in Msg : aborted[m] => tripped[m] \/ breached[m] \/ From[m] \notin registered

\* A turn over its tool or token limit ends with the BUDGET_EXCEEDED message,
\* and only an AbortError after the time budget leaves a connected client
\* without a closing message.
TurnAnswered ==
  \A m \in Msg :
    /\ breached[m] /\ Ended(m) => pc[m] = "budget"
    /\ pc[m] = "silent" /\ From[m] \in registered => tripped[m]

\* The time budget gets a live turn out: its timer is armed or it has been
\* aborted, the abort that the timer sends would reach it, and the turn of a
\* connected client never waits for the text of a stream that was aborted, which
\* no timer would end.
TurnHeld ==
  \A m \in Msg :
    /\ Active(m) => /\ budgetTimer[m] \/ aborted[m]
                    /\ controller[From[m]] = m \/ aborted[m]
    /\ pc[m] = "textAborted" => From[m] \notin registered

\* The promise of a transaction is open exactly while its session lists it: the
\* client's answer, the timeout and the cleanup can all still reach it.
PendingTxReachable ==
  \A t \in Tx : \A s \in Session :
    t \in pendingTx[s] <=> txState[t] = "pending" /\ s = From[Opener[t]]

\* A transaction counts as signed only on the word of the session it was sent to.
ResolvedByOwnClient ==
  \A t \in Tx : txState[t] = "resolved" => <<From[Opener[t]], t>> \in signedBy

\* Once the server stops, no queued message starts a turn.
QueueFrozenByStop ==
  [][stopped => \A s \in Session : \E tail \in {<<>>} \cup {<<m>> : m \in Msg} :
                  queue'[s] = queue[s] \o tail]_vars

-----------------------------------------------------------------------------
(***************************************************************************)
(* Liveness.                                                               *)
(***************************************************************************)

\* Every turn ends, whatever the agent does, unless its client disconnects.
TurnEnds ==
  \A m \in Msg : Active(m) ~> (Ended(m) \/ From[m] \notin registered)

\* Every transaction sent for approval is settled, disconnected or not.
TxSettles ==
  \A t \in Tx : txState[t] = "pending" ~> txState[t] # "pending"

\* A message received by a connected session reaches handleChatMessage.
MessageServed ==
  \A m \in Msg : pc[m] = "sent" ~>
    (\/ \E i \in DOMAIN handled[From[m]] : handled[From[m]][i] = m
     \/ From[m] \notin registered)

-----------------------------------------------------------------------------
(***************************************************************************)
(* The safety of turns as an inductive invariant.  A turn ends by starting *)
(* the next one, so what is true of turns rests on what is true of the     *)
(* messages in the queue; and an abort through the session reaches the     *)
(* right turn only if timers and breaches belong to turns still running.   *)
(***************************************************************************)

\* A queued message waits: no call of handleChatMessage has been made for it.
QueueWaits ==
  \A s \in Session : \A i \in 1 .. Len(queue[s]) :
    /\ pc[queue[s][i]] = "sent"
    /\ From[queue[s][i]] = s
    /\ \A j \in 1 .. Len(queue[s]) : queue[s][i] = queue[s][j] => i = j

TimerInTurn == \A m \in Msg : budgetTimer[m] => Active(m)

BreachCancels == \A m \in Msg : breached[m] => pc[m] \in {"cancelling", "budget"}

\* The turns of all sessions are in order: the safety properties above, with the
\* facts about queue, timers and breaches that carry them from step to step.
TurnsInv ==
  /\ TypeOK
  /\ SingleTurn
  /\ NoMessageLost
  /\ AbortReachesTurn
  /\ AbortHasCause
  /\ TurnAnswered
  /\ QueueWaits
  /\ TimerInTurn
  /\ BreachCancels

-----------------------------------------------------------------------------
(***************************************************************************)
(* What the documentation says and the code does not do.                   *)
(***************************************************************************)

\* docs/SPEC.md:841: when a session closes its pending transactions are
\* rejected, "No orphaned promises".  The claim is read kindly: of a server that
\* runs on, and without what the leftover run of a turn that has ended, or that
\* the close has aborted, still opens, for no abort can take back a tool call.
\* The code breaks it even so: a message still in the queue starts a turn of its
\* own after the cleanup, nothing aborts that turn, and its transaction waits for
\* a client that has left.
ClosedSessionHasNoTx ==
  ~stopped => \A s \in Session \ registered : \A t \in pendingTx[s] :
                ~Active(Opener[t]) \/ aborted[Opener[t]]

-----------------------------------------------------------------------------
(***************************************************************************)
(* The sessions implement a FIFO service that works on one message at a    *)
(* time.                                                                   *)
(***************************************************************************)

Fifo == INSTANCE FifoService WITH
          Client  <- Session,
          Job     <- Msg,
          serving <- [s \in Session |-> {m \in Msg : Active(m) /\ From[m] = s}],
          open    <- ~stopped

ImplementsFifo == Fifo!Spec
=============================================================================
