SPECIFICATION Spec
CONSTANTS
  Worker = {w1, w2}
  Task = {task1, task2}
  Nobody = Nobody
PROPERTIES StopReturns
CHECK_DEADLOCK FALSE
