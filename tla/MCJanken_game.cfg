SPECIFICATION FairSpec
CONSTANTS
  k1 = k1
  Children = {k1}
  Rounds = 5
  Faults = {"child", "input"}
CHECK_DEADLOCK FALSE
INVARIANT TypeOK
INVARIANT ShowsTheRound
INVARIANT DrawsAfterTheUser
INVARIANT CleanExit
PROPERTY GameEnds
