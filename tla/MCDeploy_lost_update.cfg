CONSTANTS
  timer = timer
  evctl = evctl
  Runs <- MCTimerOnly
  MaxPushes = 1
SPECIFICATION FairSpec
PROPERTY PushRuns
