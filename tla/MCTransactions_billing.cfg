CONSTANTS
  cp1 = cp1
  cp2 = cp2
  w1 = w1
  w2 = w2
  None = None
  NoValue = NoValue
  RegisterResets = TRUE
  Chargers <- MCOneCharger
  ConnectorIds <- MCConnectorIds
  Workers <- MCTwoWorkers
  Readings <- MCReadings
  StartAges <- MCStartAges
  OrphanAge = 1
  MaxTx = 1
  MaxSamples = 2
SPECIFICATION FairSpec
INVARIANTS TypeOK NeverOvercharged
PROPERTIES OrphanIsFinal RunningEnds
