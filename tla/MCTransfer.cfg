SPECIFICATION TransferSpec
CONSTANTS
  None = None
  NoEntry = NoEntry
  Absent = Absent
  Receiver = Receiver
  Capacity = 2
  IdSpace = 8
  Configs <- MCTransferConfigs
  CauchyCycle = 7
  VandermondeCycle = 14
  GenSpace = 256
  MaxSource = 3
  MaxCoded = 8
  LossReports = {0}
  NumIds = 3
  F <- GfElements
  Zero = 0
  One = 1
  FAdd <- MCAdd
  FMul <- MCMul
  FInv <- MCInv
  MaxRows = 4
  Period = 1
  MaxSack = 256
  Coef <- MCCoef
  PeerData = {}
  Networks = {"fifo"}
  Covers = {"window"}
  Transfers <- MCTransfers
  AltcRecent = 1
  MaxLate = 1
INVARIANTS WrongFileReported AllSourcesSuffice TailRecovers
PROPERTY ReceiverEnds
CHECK_DEADLOCK FALSE
