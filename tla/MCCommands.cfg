CONSTANTS
  cp1 = cp1
  cp2 = cp2
  None = None
  Chargers <- MCOneCharger
  MaxCommands = 2
  BatchLimit = 2
  MaxAttempts = 2
SPECIFICATION FairSpec
INVARIANTS TypeOK ExecutedAtMostMax SentLateAtMostOnce SentIsClaimed
PROPERTIES DoneAsAnswered TerminalIsFinal OverdueSettles
