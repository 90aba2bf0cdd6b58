SPECIFICATION LoggerSpec
CONSTANTS
  Size = 9
  kMaxNumericSize = 4
  Bits = 5
  Digits = 2
  PrefixLen = 2
  MaxText = 3
  MaxItems = 2
INVARIANTS InBounds RecordFaithful
CHECK_DEADLOCK FALSE
