------------------------------ MODULE FifoService ------------------------------
(***************************************************************************)
(* What the chat sessions of the server promise a client: the messages of  *)
(* a client are taken up in the order they arrive, one at a time, each     *)
(* once, and the service does not idle while some wait.  The promise ends  *)
(* when the service closes; from then on it takes nothing from the backlog *)
(* but may still take a message as it arrives.                             *)
(***************************************************************************)
EXTENDS Naturals, Sequences

CONSTANTS Client, Job

VARIABLES
  arrived,  \* arrived[c]: the jobs c has sent, in order
  handled,  \* handled[c]: the jobs taken up, in order
  serving,  \* serving[c]: the jobs being worked on
  open

vars == <<arrived, handled, serving, open>>

Init ==
  /\ arrived = [c \in Client |-> <<>>]
  /\ handled = [c \in Client |-> <<>>]
  /\ serving = [c \in Client |-> {}]
  /\ open = TRUE

\* A job arrives; a client with no job in service has it taken up, at most to be
\* turned away.
Arrive(c, j) ==
  /\ arrived' = [arrived EXCEPT ![c] = Append(@, j)]
  /\ IF serving[c] # {}
       THEN UNCHANGED <<handled, serving>>
       ELSE /\ handled' = [handled EXCEPT ![c] = Append(@, j)]
            /\ serving' \in {serving, [serving EXCEPT ![c] = {j}]}
  /\ UNCHANGED open

\* The job in service ends.  An open service takes up the backlog in order, up
\* to the next job it works on, or to its end.
Complete(c) ==
  /\ serving[c] # {}
  /\ IF open
       THEN \E k \in Len(handled[c]) .. Len(arrived[c]) :
              /\ handled' = [handled EXCEPT ![c] = SubSeq(arrived[c], 1, k)]
              /\ \/ /\ k = Len(arrived[c])
                    /\ serving' = [serving EXCEPT ![c] = {}]
                 \/ /\ k > Len(handled[c])
                    /\ serving' = [serving EXCEPT ![c] = {arrived[c][k]}]
       ELSE /\ serving' = [serving EXCEPT ![c] = {}]
            /\ UNCHANGED handled
  /\ UNCHANGED <<arrived, open>>

Close ==
  /\ open
  /\ open' = FALSE
  /\ UNCHANGED <<arrived, handled, serving>>

Next ==
  \/ \E c \in Client, j \in Job : Arrive(c, j)
  \/ \E c \in Client : Complete(c)
  \/ Close

Spec == Init /\ [][Next]_vars
=============================================================================
