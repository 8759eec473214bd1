SPECIFICATION Spec
CONSTANTS
  short = short
  long = long
  longer = longer
  NONE = NONE
  blank = blank
  empty = empty
  stray = stray
  NAMES = {short, long, longer, blank, empty}
  Length <- MCLength
  Word <- MCWord
  JunkIds <- MCJunkIds
  IntMax = 127
  ID_MAXSIZE = 6
  MESSAGE_MAXSIZE = 17
  OldNumbers <- MCOldNumbers
  JunkNumbers <- MCJunkNumbers
  MaxRecords = 2
INVARIANT TypeOK
INVARIANT NothingCutOff
INVARIANT OverrunOnlyWhenCut
PROPERTY WholeTextsKeepTheMessage
