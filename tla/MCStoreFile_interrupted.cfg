SPECIFICATION Spec
CONSTANTS
  MESSAGE_MAXSIZE = 4
  Texts <- MCTextsInPieces
  Garbage <- MCGarbage
  Indices <- MCIndicesInPieces
  MaxBytes = 8
  Faults = {"fail", "kill", "shortRead", "shortWrite"}
INVARIANT TypeOK
PROPERTY KeepsOtherRecords
PROPERTY WritesWholeRecords
