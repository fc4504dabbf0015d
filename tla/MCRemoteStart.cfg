CONSTANTS
  cp1 = cp1
  tag1 = tag1
  None = None
  Never = Never
  NoTx = NoTx
  Chargers <- MCChargers
  IdTags <- MCTags
  Starts <- MCStarts
  TxIds <- MCStarts
  Cp = cp1
  Tag = tag1
  MaxCommands = 1
  BatchLimit = 1
  MaxAttempts = 2
  TTL = 1
SPECIFICATION RemoteFairSpec
CHECK_DEADLOCK FALSE
INVARIANTS RemoteTypeOK StartsAtMostMax NoMeterAfterStop
PROPERTIES GrantHonoured RemoteStartRuns RemoteStopEnds
