SPECIFICATION Spec
CONSTANTS
  a = a
  A = A
  b = b
  d = d
  x1 = x1
  x2 = x2
  c1 = c1
  c2 = c2
  Null = Null
  Core <- TwoCores
  BucketNum = 1
  ItemNum = 2
  Overflow <- OneBlock
  Item <- TwoKeys
  KeyOf <- MCKeyOf
  Calls <- SerialCalls
  AutoLock = FALSE
INVARIANT SearchReturnsMatch
PROPERTY Linearizable
