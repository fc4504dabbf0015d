CONSTANTS
  cp1 = cp1
  s1 = s1
  s2 = s2
  s3 = s3
  m1 = m1
  m2 = m2
  None = None
  NoId = NoId
  Strange = Strange
  Surrogate = Surrogate
  Chargers <- MCChargers
  Sessions <- MCTwoSessions
  ChargerOf <- MCOneCharger
  Calls <- MCOneCall
  MaxInbox = 1
  Garbling <- MCOneSession
SPECIFICATION Spec
CHECK_DEADLOCK FALSE
INVARIANT NoLeak
