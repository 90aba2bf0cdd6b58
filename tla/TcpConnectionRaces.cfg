SPECIFICATION Spec
CONSTANTS
  IoOps = {"send", "shutdown", "forceClose"}
  ForeignOps = {"send", "shutdown", "forceClose"}
  Thread = {t1, t2}
  ServerDies = FALSE
  HighWater = 2
  MaxChunk = 2
  MaxCalls = 3
  MaxInbound = 1
SYMMETRY Symmetry
INVARIANTS StreamIntact OutputArmed NoMessageAfterDown
PROPERTIES FinAfterDrain
CHECK_DEADLOCK FALSE
