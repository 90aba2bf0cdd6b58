SPECIFICATION Spec
CONSTANTS
  Slots = 3
  MaxLines = 8
  Null = Null
  Blank = Blank
  Garbage = Garbage
INVARIANTS BuffersPresent LinesInOrder
PROPERTIES LinesReachFile StopReturns
CHECK_DEADLOCK FALSE
