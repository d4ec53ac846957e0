SPECIFICATION FairSpec
CONSTANTS
  s1 = s1
  s2 = s2
  m1 = m1
  m2 = m2
  m3 = m3
  t1 = t1
  t2 = t2
  NoMsg = NoMsg
  Session = {s1}
  Msg = {m1, m2, m3}
  Chat = {m1, m3}
  From <- OneFrom
  Tx = {}
  Opener <- OpenerOne
  MaxTools = 1
INVARIANTS
  SingleTurn
  NoMessageLost
  AbortReachesTurn
  AbortHasCause
  TurnAnswered
  TurnHeld
PROPERTIES
  ImplementsFifo
  TurnEnds
  MessageServed
\* Clients may leave and turns may end: the system may come to rest.
CHECK_DEADLOCK FALSE
