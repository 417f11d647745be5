CONSTANTS
  c1 = c1  c2 = c2  w1 = w1  w2 = w2  w3 = w3  f = f  g = g  A = A
  Ordered = Ordered  Null = Null
  Core <- TwoCores  Wqe <- ThreeWqes  Fn = {f, g}  AtomicTag = {A}
  Calls <- LifeCalls  TimCap = 2  MaxTick = 1  Careful = TRUE  RemoteStop = TRUE
  Exclusive = {f}
SPECIFICATION Spec
INVARIANTS TypeOK Placed MutualExclusion OnlyThreadsRun NothingLost
SYMMETRY Perms
PROPERTY LivesAsPromised
