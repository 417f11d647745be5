SPECIFICATION FairSpec
CONSTANTS
  a = a
  A = A
  b = b
  d = d
  x1 = x1
  x2 = x2
  c1 = c1
  c2 = c2
  Null = Null
  Core <- TwoCores
  BucketNum = 2
  ItemNum = 1
  Overflow <- TwoBlocks
  Item <- ThreeKeys
  KeyOf <- MCKeyOf
  Calls <- PoolCalls
  AutoLock = TRUE
INVARIANT TypeOK
INVARIANT LockDiscipline
INVARIANT UniqueKeys
INVARIANT ChainFull
INVARIANT NoHoles
INVARIANT BlocksAccounted
INVARIANT Structure
PROPERTY NoWriteAfterFree
PROPERTY LockReleased
PROPERTY Linearizable
