SPECIFICATION Spec
CONSTANTS
  a = a
  A = A
  b = b
  d = d
  x1 = x1
  x2 = x2
  c1 = c1
  c2 = c2
  Null = Null
  Core <- TwoCores
  BucketNum = 1
  ItemNum = 2
  Overflow <- NoBlock
  Item <- TwoKeys
  KeyOf <- MCKeyOf
  Calls <- StaleCalls
  AutoLock = TRUE
INVARIANT SearchReturnsMatch
SYMMETRY Perms
