SPECIFICATION Spec
CONSTANTS
  IoOps = {"send", "shutdown", "forceClose"}
  ForeignOps = {"send"}
  Thread = {t1}
  ServerDies = TRUE
  HighWater = 2
  MaxChunk = 1
  MaxCalls = 3
  MaxInbound = 1
ACTION_CONSTRAINT UndisturbedDtor
INVARIANTS CallbacksPaired RemovedForGood
PROPERTIES CloseReleases ShutdownCompletes OutputDelivered
CHECK_DEADLOCK FALSE
