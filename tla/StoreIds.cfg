SPECIFICATION MCSpec
CONSTANTS
  TurnoutIds = {1}
  SensorIds = {4}
  OutputIds = {7}
  Flags = {0}
  Size = 36
  MaxCommands = 5
  MaxCuts = 0
PROPERTIES
  OnlyStoreChangesDefinitions
