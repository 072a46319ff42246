SPECIFICATION Spec
CONSTANTS
  None = None
  NoEntry = NoEntry
  Receivers = {r1, r2}
  Capacity = 3
  IdSpace = 8
  Configs <- MCConfigs
  CauchyCycle = 2
  VandermondeCycle = 2
  GenSpace = 2
  MaxSource = 4
  MaxCoded = 4
  LossReports = {0, 20, 200}
INVARIANTS TypeOK LookupExact CodedSound AckStateExact NoReleasedSymbolKept RateExact CodedIdsFresh
PROPERTY RemovalJustified
SYMMETRY ReceiverSymmetry
