SPECIFICATION FairSpec
CONSTANTS
  Callers = {c1, c2}
  Workers = {w1, w2}
  MaxBatch = 2
  QueueCapacity = 1
  MinWorkers = 1
  LateTouch = {"error"}
  None = None
PROPERTIES BatchReturns DestroyReturns ImplementsService
