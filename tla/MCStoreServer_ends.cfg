SPECIFICATION FairSpec
CONSTANTS
  c1 = c1
  c2 = c2
  c3 = c3
  Junk = Junk
  NONE = NONE
  NoMsg = NoMsg
  NoSession = NoSession
  Clients = {c1, c2}
  Ids <- MCIds
  IntMax = 3
  LoopMax = 1
  Exclusive = TRUE
  Backlog = 0
  OldStores <- BlankOrOld
  StackMessages <- JunkMessages
  Faults = {"accept", "fork", "child", "client", "server"}
  MaxRestarts = 1
  Stalling = {}
INVARIANT NoMutualWait
INVARIANT OneRecordPerSession
PROPERTY EveryStepAdvances
PROPERTY EverythingEnds
PROPERTY AllServed
