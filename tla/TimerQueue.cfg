SPECIFICATION Spec
CONSTANTS
  Timer = {t1, t2, t3}
  Repeating = {t3}
  Period = 2
  MinDelay = 1
  None = None
  MaxDelay = 2
  MaxLate = 2
  MaxSteps = 1
INVARIANTS ArmedInTime OneOwner
PROPERTIES  TimersFire
CHECK_DEADLOCK FALSE
