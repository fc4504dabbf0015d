CONSTANTS
  cp1 = cp1
  cp2 = cp2
  w1 = w1
  w2 = w2
  None = None
  NoValue = NoValue
  RegisterResets = FALSE
  Chargers <- MCOneCharger
  ConnectorIds <- MCConnectorIds
  Workers <- MCOneWorker
  Readings <- MCReadings
  StartAges <- MCStartAges
  OrphanAge = 1
  MaxTx = 1
  MaxSamples = 2
SPECIFICATION Spec
PROPERTY OrphanAtLastReading
