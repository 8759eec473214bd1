SPECIFICATION Spec
CONSTANTS
  MESSAGE_MAXSIZE = 4
  Texts <- MCTexts
  Garbage <- MCGarbage
  Indices <- MCIndices
  MaxBytes = 12
  Faults = {"fail", "kill"}
PROPERTY AbsSpec
