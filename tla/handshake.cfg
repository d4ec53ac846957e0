SPECIFICATION Spec
CONSTANTS
  s1 = s1
  s2 = s2
  w1 = w1
  w2 = w2
  w3 = w3
  Boot = Boot
  Signers <- SignersTwo
  NoWallet = NoWallet
  Session = {s1, s2}
  Wallet = {w1, w2, w3}
  Allowlist = {w3}
  Mode = "allowlist"
  MaxConnections = 2
  FirstOwner = w1
INVARIANTS
  AuthenticatedBySigner
  NonceSpent
  Admitted
  FailedIsClosed
PROPERTIES
  ImplementsAdmission
\* Clients may leave: the system may come to rest.
CHECK_DEADLOCK FALSE
