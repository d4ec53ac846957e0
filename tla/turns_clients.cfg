SPECIFICATION FairSpec
CONSTANTS
  s1 = s1
  s2 = s2
  m1 = m1
  m2 = m2
  m3 = m3
  t1 = t1
  t2 = t2
  NoMsg = NoMsg
  Session = {s1, s2}
  Msg = {m1, m3}
  Chat = {m1, m3}
  From <- OneFrom
  Tx = {t1}
  Opener <- OpenerOne
  MaxTools = 0
INVARIANTS
  PendingTxReachable
  ResolvedByOwnClient
PROPERTIES
  TxSettles
\* Clients may leave and turns may end: the system may come to rest.
CHECK_DEADLOCK FALSE
