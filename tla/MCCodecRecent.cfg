SPECIFICATION Spec
CONSTANTS
  None = None
  NoEntry = NoEntry
  Absent = Absent
  Receiver = Receiver
  Capacity = 2
  IdSpace = 8
  Configs <- MCRejectConfigs
  CauchyCycle = 7
  VandermondeCycle = 14
  GenSpace = 256
  MaxSource = 4
  MaxCoded = 2
  LossReports = {0}
  NumIds = 4
  F <- GfElements
  Zero = 0
  One = 1
  FAdd <- MCAdd
  FMul <- MCMul
  FInv <- MCInv
  MaxRows = 4
  Period = 1
  MaxSack = 256
  Coef <- MCCoef
  PeerData <- MCShortData
  Networks = {"fifo"}
  Covers = {"recent"}
INVARIANT GapMeansGone
