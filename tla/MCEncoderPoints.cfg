SPECIFICATION Spec
CONSTANTS
  None = None
  NoEntry = NoEntry
  Receivers = {r1}
  Capacity = 2
  IdSpace = 8
  Configs <- MCCauchyConfigs
  CauchyCycle = 2
  VandermondeCycle = 2
  GenSpace = 2
  MaxSource = 4
  MaxCoded = 4
  LossReports = {0, 20, 200}
INVARIANT CauchyPointsDistinct
