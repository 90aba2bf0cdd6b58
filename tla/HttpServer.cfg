SPECIFICATION HttpSpec
CONSTANTS
  MethodsSent = {"GET", "BREW"}
  VersionsSent = {"HTTP/1.0", "HTTP/1.1", "HTTP/2.0"}
  BodiesSent <- Bodies
  MaxRequests = 2
INVARIANTS RepliesFaithful WholeAnswered
CHECK_DEADLOCK FALSE
