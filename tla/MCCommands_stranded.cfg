CONSTANTS
  cp1 = cp1
  cp2 = cp2
  None = None
  Chargers <- MCOneCharger
  MaxCommands = 1
  BatchLimit = 1
  MaxAttempts = 1
SPECIFICATION CalmSpec
PROPERTY AllOverdueSettle
