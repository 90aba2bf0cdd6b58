SPECIFICATION BothSpec
CONSTANTS
  Channel = {c1, c2, c3}
  Event = {in, out}
  Err = err
  InitSize = 1
  Readiness = {{}, {err}, {in, out, err}}
INVARIANTS EntriesMatch SameReports
PROPERTY ImplementsPoller
