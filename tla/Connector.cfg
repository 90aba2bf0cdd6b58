SPECIFICATION Spec
CONSTANTS
  MaxAttempts = 5
  None = None
INVARIANTS Owned NotStuck
PROPERTIES StopIsFinal
CHECK_DEADLOCK FALSE
