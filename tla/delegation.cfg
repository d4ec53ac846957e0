SPECIFICATION Spec
CONSTANTS
  a1 = a1
  a2 = a2
  c1 = c1
  c2 = c2
  None = None
  Down = Down
  Asset = {a1, a2}
  Call = {c1, c2}
  PlumberUrl = TRUE
SYMMETRY Alike
INVARIANTS
  AnswersHold
  PairedDelegation
