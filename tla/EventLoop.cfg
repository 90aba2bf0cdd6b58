SPECIFICATION Spec
CONSTANTS
  Functor = {f1, f2, f3}
  Thread = {t1, t2}
INVARIANT NoLostWakeup
PROPERTIES RunsInOrder FunctorsRun QuitStops
