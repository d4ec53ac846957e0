SPECIFICATION FairSpec
CONSTANTS
  w1 = w1
  w2 = w2
  w3 = w3
  Blank = Blank
  NoSnapshot = NoSnapshot
  NoChange = NoChange
  Wallet = {w1, w2, w3}
  Env = {w3}
  MaxStamp = 3
INVARIANTS
  ListInv
  FileAsIntended
PROPERTIES
  AdminSeesFile
  ListFollowsFile
