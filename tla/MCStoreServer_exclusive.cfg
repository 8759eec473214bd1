SPECIFICATION Spec
CONSTANTS
  c1 = c1
  c2 = c2
  c3 = c3
  Junk = Junk
  NONE = NONE
  NoMsg = NoMsg
  NoSession = NoSession
  Clients = {c1, c2}
  Ids <- MCIds
  IntMax = 3
  LoopMax = 2
  Exclusive = TRUE
  Backlog = 1
  OldStores <- Blank
  StackMessages <- JunkMessages
  Faults = {"accept", "fork", "child", "client", "server"}
  MaxRestarts = 1
  Stalling = {}
SYMMETRY Symmetry
INVARIANT TypeOK
INVARIANT IInv
INVARIANT ReadYourWrites
INVARIANT ChildrenCounted
PROPERTY AbsSpec
PROPERTY ReapsAllZombies
PROPERTY DrainLeavesNoChild
