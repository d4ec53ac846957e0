SPECIFICATION FairSpec
CONSTANTS
  f1 = f1
  f2 = f2
  f3 = f3
  Fetch = {f1, f2, f3}
  MaxToken = 2
INVARIANTS
  LedgerFollowsMoney
  PaysOnce
PROPERTIES
  NoRetiredBearer
  FetchEnds
\* The calls of the model end.
CHECK_DEADLOCK FALSE
