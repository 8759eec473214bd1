SPECIFICATION FairSpec
CONSTANTS
  c1 = c1
  c2 = c2
  c3 = c3
  Junk = Junk
  NONE = NONE
  NoMsg = NoMsg
  NoSession = NoSession
  Clients = {c1, c2, c3}
  Ids <- MCIds
  IntMax = 20
  LoopMax = 1
  Exclusive = FALSE
  Backlog = 1
  OldStores <- Blank
  StackMessages <- JunkMessages
  Faults = {}
  MaxRestarts = 0
  Stalling = {c1}
INVARIANT CountFitsPlace
PROPERTY OthersFinish
