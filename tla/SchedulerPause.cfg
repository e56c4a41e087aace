CONSTANTS
  Tokens = {t1, t2}
  MaxCalls = 2
SPECIFICATION FairSpec
INVARIANTS AsleepOnlyWithAlarm PauseHasOwner
PROPERTIES SleepEnds
CHECK_DEADLOCK FALSE
