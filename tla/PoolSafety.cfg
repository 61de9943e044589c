SPECIFICATION Spec
CONSTANTS
  Callers = {c1, c2, c3}
  Workers = {w1, w2}
  MaxBatch = 2
  QueueCapacity = 2
  MinWorkers = 1
  LateTouch = {"error", "stuck"}
  None = None
SYMMETRY Symmetry
CHECK_DEADLOCK FALSE
INVARIANTS TypeOK BatchComplete CounterExact CounterAlive EveryItemFetched EverySlotFilled SleeperNotified
