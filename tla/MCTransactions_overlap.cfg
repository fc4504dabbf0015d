CONSTANTS
  cp1 = cp1
  cp2 = cp2
  w1 = w1
  w2 = w2
  None = None
  NoValue = NoValue
  RegisterResets = TRUE
  Chargers <- MCTwoChargers
  ConnectorIds <- MCConnectorIds
  Workers <- MCTwoWorkers
  Readings <- MCOneReading
  StartAges <- MCStartAges
  OrphanAge = 0
  MaxTx = 2
  MaxSamples = 0
SPECIFICATION Spec
INVARIANTS ActiveIsRunning StopReported ChargerStopsOnce FreshTxIds
SYMMETRY MCSymmetry
