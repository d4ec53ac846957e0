SPECIFICATION FairSpec
CONSTANTS
  g1 = g1
  Goal = {g1}
  JournalMax = 3
  AutoPause = 3
  MaxUnpauses = 2
  MaxCrashes = 1
INVARIANTS
  TypeOK
  FailuresBounded
  PauseHolds
  PauseJournalled
  NoLostUpdate
PROPERTIES
  WorkReached
  ShutdownEnds
