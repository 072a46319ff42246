SPECIFICATION Spec
CONSTANTS
  NumIds = 4
  F <- GfElements
  Zero = 0
  One = 1
  FAdd <- MCAdd
  FMul <- MCMul
  FInv <- MCInv
  Absent = Absent
  MaxRows = 2
  Period = 2
  MaxSack = 1
  CodedInputs <- MCCodedInputs
INVARIANT GapIsMissing
