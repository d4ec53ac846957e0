SPECIFICATION FairSpec
CONSTANTS
  s1 = s1
  s2 = s2
  w1 = w1
  w2 = w2
  w3 = w3
  Boot = Boot
  Signers <- SignersOne
  NoWallet = NoWallet
  Session = {s1, s2}
  Wallet = {w1}
  Allowlist = {}
  Mode = "allowlist"
  MaxConnections = 1
  FirstOwner = w1
PROPERTIES
  HandshakeEnds
  NoncesForgotten
\* Clients may leave: the system may come to rest.
CHECK_DEADLOCK FALSE
