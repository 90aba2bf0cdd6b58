SPECIFICATION Spec
CONSTANTS
  MaxThreads = 2
  MaxConns = 3
  MaxFds = 2
INVARIANTS LoopsAlive FreedClean
PROPERTIES ImplementsService Released AllServed JoinReturns
CHECK_DEADLOCK FALSE
