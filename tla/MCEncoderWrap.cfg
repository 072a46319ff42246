SPECIFICATION Spec
CONSTANTS
  None = None
  NoEntry = NoEntry
  Receivers = {r1}
  Capacity = 2
  IdSpace = 4
  Configs <- MCWrapConfigs
  CauchyCycle = 2
  VandermondeCycle = 2
  GenSpace = 2
  MaxSource = 6
  MaxCoded = 4
  LossReports = {0, 20, 200}
INVARIANT LookupNeverFails
