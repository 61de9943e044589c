SPECIFICATION Spec
CONSTANTS
  t1 = t1
  t2 = t2
  t3 = t3
  p1 = p1
  p2 = p2
  Threads = {t1, t2, t3}
  Processes = {p1, p2}
  ProcessOf <- TwoAndOne
  NoThread = NoThread
  NumChunks = 2
  NoFile = NoFile
  MaxCrashes = 1
CHECK_DEADLOCK FALSE
INVARIANT CouldAssert
