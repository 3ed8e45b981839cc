SPECIFICATION MCSpec
CONSTANTS
  TurnoutIds = {200}
  SensorIds = {4}
  OutputIds = {7, 8}
  Flags = {0, 6}
  Size = 36
  MaxCommands = 5
  MaxCuts = 1
INVARIANTS
  TypeOK
PROPERTIES
  ImplementsRetention
