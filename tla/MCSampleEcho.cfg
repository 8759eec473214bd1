SPECIFICATION FairSpec
CONSTANTS
  c1 = c1
  c2 = c2
  a = a
  NUL = NUL
  CTRL_A = CTRL_A
  NoClient = NoClient
  Clients = {c1, c2}
  Keys = {a, NUL, CTRL_A}
  ReplyLen = 2
  C2SCap = 2
  S2CCap = 1
  Backlog = 0
  Faults = {"accept", "fork", "client"}
  MaxKeys <- MCMaxKeys
INVARIANT TypeOK
INVARIANT EchoesInOrder
INVARIANT OnlyLossKills
PROPERTY ReapsBeforeAccept
PROPERTY AllAnswered
PROPERTY CtrlAIsSent
