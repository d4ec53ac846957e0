SPECIFICATION Spec
CONSTANTS
  a1 = a1
  a2 = a2
  j1 = j1
  j2 = j2
  t1 = t1
  None = None
  NoConfig = NoConfig
  Malformed = Malformed
  Asset = {a1, a2}
  Mint = {t1}
  Job = {j1, j2}
  Mode = "public"
  Bootstrap = FALSE
INVARIANTS
  EnvWins
