SPECIFICATION Spec
CONSTANTS
  Callers = {c1}
  Workers = {w1, w2}
  MaxBatch = 1
  QueueCapacity = 1
  MinWorkers = 1
  LateTouch = {"error", "stuck"}
  None = None
CHECK_DEADLOCK FALSE
INVARIANTS ItemsDoneAtReturn
