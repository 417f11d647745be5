CONSTANTS
  c1 = c1  c2 = c2  w1 = w1  w2 = w2  w3 = w3  f = f  g = g  A = A
  Ordered = Ordered  Null = Null
  Core <- TwoCores  Wqe <- TwoWqes  Fn = {f, g}  AtomicTag = {A}
  Calls <- WheelCalls  TimCap = 1  MaxTick = 1  Careful = FALSE  RemoteStop = TRUE
  Exclusive = {f}
SPECIFICATION FairSpec
PROPERTIES WaitingRuns StoppedIsFreed
CHECK_DEADLOCK FALSE
