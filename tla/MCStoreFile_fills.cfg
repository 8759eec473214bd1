SPECIFICATION Spec
CONSTANTS
  MESSAGE_MAXSIZE = 4
  Texts <- MCTexts
  Garbage <- MCGarbage
  Indices <- MCIndices
  MaxBytes = 8
  Faults = {"shortWrite"}
PROPERTY FillsWithZero
