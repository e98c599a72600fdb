SPECIFICATION Spec
CONSTANTS
  Top = 25
  Settings <- MCSettings
  Ticks = 5
  LoadTicks = 4
  Spin = 1
  Timeout = 7
INVARIANTS TypeOK AlarmsAreFree MeasuredIsProgrammed
PROPERTY MeasurementEnds
